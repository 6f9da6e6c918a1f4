---------------------------- MODULE ServiceProofs ----------------------------
(***************************************************************************)
(* Theorems about the rest of the service, for any number of browsers,     *)
(* commits, releases, runs, tokens and threads: the saves of the           *)
(* configuration, the starts from it, one attempt at a channel, the        *)
(* self-update, the refreshes of the dashboard, login sessions, the limit  *)
(* on failed logins, failure reports, the lease of a batch of deliveries   *)
(* and the turns in outbound recovery.                                     *)
(***************************************************************************)
EXTENDS ConfigSave, Configuration, ForwardAttempt, Update, EventStream,
        Sessions, LoginLimiter, Reporting, DeliveryLease, RecoverySchedule,
        TLAPS, FiniteSetTheorems, SequenceTheorems

(***************************************************************************)
(* Saves                                                                   *)
(***************************************************************************)
\* A save that has checked its revision holds the lock, and the file is
\* still the one it checked, or was written around the lock; for a commit
\* without a request the same, unless something was written in between.
SaveInv ==
    /\ file \in Contents /\ breaks \in Nat
    /\ save \in [Browsers -> Saves \cup {NoSave}]
    /\ orphans \subseteq [nr: Nat, base: Contents, candidate: Contents]
    /\ \A b \in Browsers : save[b].at = "checked" =>
         saveLock = b /\ (file = save[b].base \/ intruders # {})
    /\ \A o \in orphans : file = o.base \/ o \in overtaken

\* Nothing is being saved.
LEMMA SaveInitInv ==
    ASSUME ConfigSaveInit
    PROVE  SaveInv
BY DEF ConfigSaveInit, SaveInv, NoSave

\* Every step keeps the invariant.
LEMMA SaveStep ==
    ASSUME ConfigSaveAssumption, SaveInv, [ConfigSaveNext]_saveVars
    PROVE  SaveInv'
<1>1. ASSUME NEW b \in Browsers, NEW c \in Contents, NEW r \in BOOLEAN,
             Preview(b, c, r)
      PROVE  SaveInv'
  BY <1>1 DEF Preview, SaveInv, Saves, NoSave
<1>2. ASSUME NEW b \in Browsers, CheckRevision(b)
      PROVE  SaveInv'
  <2>1. \A d \in Browsers : save[d].at # "checked"
    BY <1>2 DEF CheckRevision, SaveInv, ConfigSaveAssumption
  <2>2. CASE file = save[b].base
    BY <1>2, <2>1, <2>2 DEF CheckRevision, SaveInv, Saves, NoSave
  <2>3. CASE file # save[b].base
    BY <1>2, <2>1, <2>3 DEF CheckRevision, SaveInv, Saves, NoSave
  <2> QED
    BY <2>2, <2>3
<1>3. ASSUME NEW b \in Browsers, Commit(b)
      PROVE  SaveInv'
  <2>1. /\ save[b] \in Saves
        /\ \A d \in Browsers : d # b => save[d].at # "checked"
    BY <1>3 DEF Commit, SaveInv, NoSave
  <2>2. /\ save'[b].at = "committed" /\ save'[b] \in Saves
        /\ \A d \in Browsers : d # b => save'[d] = save[d]
    BY <1>3, <2>1 DEF Commit, SaveInv, Saves
  <2>3. \A d \in Browsers : save'[d].at # "checked"
    BY <2>1, <2>2
  <2>4. save' \in [Browsers -> Saves \cup {NoSave}]
    BY <1>3, <2>1 DEF Commit, SaveInv, Saves
  <2>5. /\ file' \in Contents /\ orphans' = orphans /\ overtaken' = orphans
        /\ breaks' = breaks
    BY <1>3, <2>1 DEF Commit, SaveInv, Saves
  <2> QED
    BY <2>3, <2>4, <2>5 DEF SaveInv
<1>4. ASSUME NEW b \in Browsers, SaveFails(b)
      PROVE  SaveInv'
  BY <1>4 DEF SaveFails, SaveInv, NoSave
<1>5. ASSUME NEW b \in Browsers, FinishSave(b)
      PROVE  SaveInv'
  BY <1>5 DEF FinishSave, SaveInv, NoSave
<1>6. ASSUME NEW b \in Browsers, DropRequest(b)
      PROVE  SaveInv'
  <2>1. /\ save'[b].at # "checked" /\ save' \in [Browsers -> Saves \cup {NoSave}]
        /\ \A d \in Browsers : d # b => save'[d] = save[d]
    BY <1>6 DEF DropRequest, SaveInv, NoSave
  <2>2. UNCHANGED <<file, orphans, overtaken, intruders>>
    BY <1>6 DEF DropRequest
  <2>3. \A d \in Browsers : d # b /\ save[d].at = "checked" => saveLock' = saveLock
    BY <1>6 DEF DropRequest, SaveInv
  <2>4. breaks' \in Nat
    BY <1>6 DEF DropRequest, SaveInv
  <2> QED
    BY <2>1, <2>2, <2>3, <2>4 DEF SaveInv
<1>7. ASSUME NEW b \in Browsers, DropDuringCommit(b)
      PROVE  SaveInv'
  <2>1. PICK o : o = OrphanOf(b)
    OBVIOUS
  <2>2. /\ save[b] \in Saves
        /\ \A d \in Browsers : d # b => save[d].at # "checked"
    BY <1>7 DEF DropDuringCommit, SaveInv, NoSave
  <2>3. /\ o \in [nr: Nat, base: Contents, candidate: Contents]
        /\ o.base = save[b].base
    BY <2>1, <2>2 DEF OrphanOf, Saves, SaveInv
  <2>4. /\ save'[b].at # "checked" /\ save' \in [Browsers -> Saves \cup {NoSave}]
        /\ \A d \in Browsers : d # b => save'[d] = save[d]
    BY <1>7 DEF DropDuringCommit, SaveInv, NoSave
  <2>5. /\ file' = file /\ orphans' = orphans \cup {o}
        /\ overtaken' = IF intruders = {} THEN overtaken ELSE overtaken \cup {o}
    BY <1>7, <2>1 DEF DropDuringCommit
  <2>6. file = o.base \/ intruders # {}
    BY <1>7, <2>3 DEF DropDuringCommit, SaveInv
  <2>7. \A x \in orphans' : file' = x.base \/ x \in overtaken'
    BY <2>5, <2>6 DEF SaveInv
  <2>8. breaks' \in Nat
    BY <1>7 DEF DropDuringCommit, SaveInv
  <2> QED
    BY <2>2, <2>3, <2>4, <2>5, <2>7, <2>8 DEF SaveInv
<1>8. ASSUME NEW o \in orphans, CommitOrphan(o)
      PROVE  SaveInv'
  BY <1>8 DEF CommitOrphan, Intrudes, SaveInv, ConfigSaveAssumption
<1>9. ASSUME NEW c \in Contents, Edit(c)
      PROVE  SaveInv'
  BY <1>9 DEF Edit, Intrudes, SaveInv, ConfigSaveAssumption
<1>10. CASE RequestRestart \/ RunRestart \/ RestartReturns
  BY <1>10 DEF RequestRestart, RunRestart, RestartReturns, SaveInv
<1>11. CASE RestartEnds \/ Crash
  BY <1>11 DEF RestartEnds, Crash, StartAnew, SaveInv, NoSave
<1>12. CASE UNCHANGED saveVars
  BY <1>12 DEF saveVars, SaveInv
<1> QED
  BY <1>1, <1>2, <1>3, <1>4, <1>5, <1>6, <1>7, <1>8, <1>9, <1>10, <1>11, <1>12
  DEF ConfigSaveNext

\* A live save undoes no other one, and what it or the commit of a dropped
\* request replaces without having seen it was written beside the lock or since
\* the request was dropped (save_config).
THEOREM ConfigSavesAreChecked ==
    ASSUME ConfigSaveAssumption
    PROVE  ConfigSaveSpec => SavesAreChecked
<1>1. ConfigSaveInit => SaveInv
  BY SaveInitInv
<1>2. SaveInv /\ [ConfigSaveNext]_saveVars => SaveInv'
  BY SaveStep
<1>3. SaveInv => LiveSavesAreChecked /\ LateCommitsAreChecked
  BY DEF SaveInv, CommitsOver, LiveSavesAreChecked, LateCommitsAreChecked
<1> QED
  BY <1>1, <1>2, <1>3, PTL DEF ConfigSaveSpec, SavesAreChecked

(***************************************************************************)
(* One attempt at a channel                                                *)
(***************************************************************************)
\* Before the attempt is over the provider has nothing and nothing is said;
\* after it, what is said agrees with what the provider did.
AttemptInv ==
    /\ step # "done" => verdict = Undecided /\ ~taken
    /\ SuccessWasTaken
    /\ GivesUpWhenRefused

\* The attempt has not begun.
LEMMA AttemptInitInv ==
    ASSUME ForwardAttemptInit
    PROVE  AttemptInv
BY DEF ForwardAttemptInit, AttemptInv, Undecided, SuccessWasTaken,
       GivesUpWhenRefused

\* A status other than a 2xx on which an adapter gives up is a refusal.
LEMMA FinalStatusRefuses ==
    ASSUME NEW status \in Statuses \ {"2xx"},
           ClassifyHttpStatus(status) = "permanent"
    PROVE  TakenOn(status) = {FALSE}
BY DEF Statuses, ClassifyHttpStatus, TakenOn

\* An attempt that ends with a verdict that agrees with the provider.
LEMMA ConcludeKeeps ==
    ASSUME NEW is, NEW on, Conclude(is, on),
           is = "success" => taken',
           is = "permanent" => ~taken'
    PROVE  AttemptInv'
BY DEF Conclude, AttemptInv, SuccessWasTaken, GivesUpWhenRefused

\* A status that is no 2xx keeps the invariant.
LEMMA StatusKeeps ==
    ASSUME NEW status \in Statuses \ {"2xx"},
           taken' \in TakenOn(status),
           Conclude(ClassifyHttpStatus(status), status)
    PROVE  AttemptInv'
<1>1. ClassifyHttpStatus(status) # "success"
  BY DEF ClassifyHttpStatus
<1>2. ClassifyHttpStatus(status) = "permanent" => ~taken'
  <2>1. SUFFICES ASSUME ClassifyHttpStatus(status) = "permanent"
                 PROVE  ~taken'
    OBVIOUS
  <2>2. taken' \in {FALSE}
    BY <2>1, FinalStatusRefuses
  <2> QED
    BY <2>2
<1> QED
  BY <1>1, <1>2, ConcludeKeeps

\* The body of an answer: success is only what the provider says of a
\* message it took, and a lasting error of one that it did not.
LEMMA BodyKeeps ==
    ASSUME NEW kind \in Kinds, NEW body \in Bodies, NEW is,
           taken' \in TakenOnBody(kind, body),
           is = "success" => /\ body.code = "good"
                             /\ kind \in {"wecom", "dingtalk"} => body.word,
           is = "permanent" => body.code = "lasting",
           Conclude(is, "body")
    PROVE  AttemptInv'
<1>1. is = "success" => taken'
  <2>1. is = "success" => TakenOnBody(kind, body) = {TRUE}
    <3> SUFFICES ASSUME is = "success"
                 PROVE  TakenOnBody(kind, body) = {TRUE}
      OBVIOUS
    <3>1. /\ ~(body.code # "good")
          /\ ~(kind \in {"wecom", "dingtalk"} /\ ~body.word)
      OBVIOUS
    <3> QED
      BY <3>1, Zenon DEF TakenOnBody
  <2>2. TakenOnBody(kind, body) = {TRUE} => taken'
    OBVIOUS
  <2> QED
    BY <2>1, <2>2
<1>2. is = "permanent" => ~taken'
  <2>1. is = "permanent" => TakenOnBody(kind, body) = {FALSE}
    BY DEF TakenOnBody
  <2>2. TakenOnBody(kind, body) = {FALSE} => ~taken'
    OBVIOUS
  <2> QED
    BY <2>1, <2>2
<1> QED
  BY <1>1, <1>2, ConcludeKeeps

\* Every step keeps the invariant.
LEMMA AttemptStep ==
    ASSUME AttemptInv, [ForwardAttemptNext]_attemptVars
    PROVE  AttemptInv'
<1>1. CASE Dispatch
  BY <1>1 DEF Dispatch, Conclude, AttemptInv, SuccessWasTaken,
              GivesUpWhenRefused, Undecided
<1>2. CASE FetchToken
  <2>1. ~taken' /\ verdict = Undecided
    BY <1>2 DEF FetchToken, AttemptInv
  <2>2. ASSUME NEW status \in Statuses \ {"2xx"},
               Conclude(ClassifyHttpStatus(status), status)
        PROVE  AttemptInv'
    <3>1. ClassifyHttpStatus(status) # "success"
      BY DEF ClassifyHttpStatus
    <3> QED
      BY <2>1, <2>2, <3>1, ConcludeKeeps
  <2>3. CASE Conclude(TransportFailure, "transport")
    BY <2>1, <2>3, ConcludeKeeps DEF TransportFailure
  <2>4. ASSUME NEW body \in Bodies,
               Conclude(ClassifyProviderRejection(body), "body")
        PROVE  AttemptInv'
    <3>1. ClassifyProviderRejection(body) # "success"
      BY DEF ClassifyProviderRejection
    <3> QED
      BY <2>1, <2>4, <3>1, ConcludeKeeps
  <2>5. CASE Conclude("transient", "body")
    BY <2>1, <2>5, ConcludeKeeps
  <2>6. CASE step' = "post" /\ UNCHANGED verdict
    BY <2>1, <2>6 DEF AttemptInv, SuccessWasTaken, GivesUpWhenRefused,
                      Undecided
  <2> QED
    BY <1>2, <2>2, <2>3, <2>4, <2>5, <2>6 DEF FetchToken
<1>3. CASE SendBark
  <2>1. ASSUME NEW body \in Bodies,
               taken' \in TakenOnBody("bark", body),
               Conclude(IF CodeIsGood(body) THEN "success"
                        ELSE ClassifyProviderRejection(body), "body")
        PROVE  AttemptInv'
    <3>1. CASE CodeIsGood(body)
      BY <2>1, <3>1, BodyKeeps DEF CodeIsGood, Kinds
    <3>2. CASE ~CodeIsGood(body)
      <4>1. /\ ClassifyProviderRejection(body) # "success"
            /\ ClassifyProviderRejection(body) = "permanent" =>
                 body.code = "lasting"
        BY DEF ClassifyProviderRejection
      <4> QED
        BY <2>1, <3>2, <4>1, BodyKeeps DEF Kinds
    <3> QED
      BY <3>1, <3>2
  <2>2. CASE Conclude(TransportFailure, "transport")
    BY <2>2, ConcludeKeeps DEF TransportFailure
  <2> QED
    BY <1>3, <2>1, <2>2, StatusKeeps DEF SendBark, Post, ByCode
<1>4. CASE SendTelegram
  <2>1. ASSUME NEW body \in Bodies,
               taken' \in TakenOnBody("telegram", body),
               Conclude(IF CodeIsGood(body) THEN "success"
                        ELSE ClassifyProviderRejection(body), "body")
        PROVE  AttemptInv'
    <3>1. CASE CodeIsGood(body)
      BY <2>1, <3>1, BodyKeeps DEF CodeIsGood, Kinds
    <3>2. CASE ~CodeIsGood(body)
      <4>1. /\ ClassifyProviderRejection(body) # "success"
            /\ ClassifyProviderRejection(body) = "permanent" =>
                 body.code = "lasting"
        BY DEF ClassifyProviderRejection
      <4> QED
        BY <2>1, <3>2, <4>1, BodyKeeps DEF Kinds
    <3> QED
      BY <3>1, <3>2
  <2>2. CASE Conclude(TransportFailure, "transport")
    BY <2>2, ConcludeKeeps DEF TransportFailure
  <2> QED
    BY <1>4, <2>1, <2>2, StatusKeeps DEF SendTelegram, Post, ByCode
<1>5. CASE SendWeCom
  <2>1. ASSUME NEW body \in Bodies,
               taken' \in TakenOnBody("wecom", body),
               Conclude(IF CodeAndWordAreGood(body) THEN "success"
                        ELSE ClassifyProviderRejection(body), "body")
        PROVE  AttemptInv'
    <3>1. CASE CodeAndWordAreGood(body)
      BY <2>1, <3>1, BodyKeeps DEF CodeAndWordAreGood, Kinds
    <3>2. CASE ~CodeAndWordAreGood(body)
      <4>1. /\ ClassifyProviderRejection(body) # "success"
            /\ ClassifyProviderRejection(body) = "permanent" =>
                 body.code = "lasting"
        BY DEF ClassifyProviderRejection
      <4> QED
        BY <2>1, <3>2, <4>1, BodyKeeps DEF Kinds
    <3> QED
      BY <3>1, <3>2
  <2>2. CASE Conclude(TransportFailure, "transport")
    BY <2>2, ConcludeKeeps DEF TransportFailure
  <2> QED
    BY <1>5, <2>1, <2>2, StatusKeeps DEF SendWeCom, Post, ByCodeAndWord
<1>6. CASE SendDingTalk
  <2>1. ASSUME NEW body \in Bodies,
               taken' \in TakenOnBody("dingtalk", body),
               Conclude(IF CodeAndWordAreGood(body) THEN "success"
                        ELSE ClassifyProviderRejection(body), "body")
        PROVE  AttemptInv'
    <3>1. CASE CodeAndWordAreGood(body)
      BY <2>1, <3>1, BodyKeeps DEF CodeAndWordAreGood, Kinds
    <3>2. CASE ~CodeAndWordAreGood(body)
      <4>1. /\ ClassifyProviderRejection(body) # "success"
            /\ ClassifyProviderRejection(body) = "permanent" =>
                 body.code = "lasting"
        BY DEF ClassifyProviderRejection
      <4> QED
        BY <2>1, <3>2, <4>1, BodyKeeps DEF Kinds
    <3> QED
      BY <3>1, <3>2
  <2>2. CASE Conclude(TransportFailure, "transport")
    BY <2>2, ConcludeKeeps DEF TransportFailure
  <2> QED
    BY <1>6, <2>1, <2>2, StatusKeeps DEF SendDingTalk, Post, ByCodeAndWord
<1>7. CASE SendLark
  <2>1. ASSUME NEW body \in Bodies,
               taken' \in TakenOnBody("lark", body),
               Conclude(IF CodeIsGood(body) THEN "success"
                        ELSE ClassifyLarkRejection(body), "body")
        PROVE  AttemptInv'
    <3>1. CASE CodeIsGood(body)
      BY <2>1, <3>1, BodyKeeps DEF CodeIsGood, Kinds
    <3>2. CASE ~CodeIsGood(body)
      <4>1. /\ ClassifyLarkRejection(body) # "success"
            /\ ClassifyLarkRejection(body) = "permanent" =>
                 body.code = "lasting"
        BY DEF ClassifyLarkRejection
      <4> QED
        BY <2>1, <3>2, <4>1, BodyKeeps DEF Kinds
    <3> QED
      BY <3>1, <3>2
  <2>2. CASE Conclude(TransportFailure, "transport")
    BY <2>2, ConcludeKeeps DEF TransportFailure
  <2> QED
    BY <1>7, <2>1, <2>2, StatusKeeps DEF SendLark, Post, ByLarkCode
<1>8. CASE SendWebhook
  <2>1. ASSUME NEW status \in Statuses,
               taken' \in TakenOn(status),
               Conclude(IF status = "2xx" THEN "success"
                        ELSE ClassifyWebhookStatus(status), status)
        PROVE  AttemptInv'
    <3>1. CASE status = "2xx"
      BY <2>1, <3>1, ConcludeKeeps DEF TakenOn
    <3>2. CASE status = "3xx"
      BY <1>8, <2>1, <3>2
      DEF SendWebhook, Conclude, ClassifyWebhookStatus, AttemptInv,
          SuccessWasTaken, GivesUpWhenRefused
    <3>3. CASE status \in {"408", "425", "429", "5xx"}
      BY <2>1, <3>3, ConcludeKeeps DEF ClassifyWebhookStatus
    <3>4. CASE status = "4xx"
      BY <2>1, <3>4, ConcludeKeeps DEF ClassifyWebhookStatus, TakenOn
    <3> QED
      BY <3>1, <3>2, <3>3, <3>4 DEF Statuses
  <2>2. CASE Conclude(TransportFailure, "transport")
    BY <2>2, ConcludeKeeps DEF TransportFailure
  <2> QED
    BY <1>8, <2>1, <2>2 DEF SendWebhook
<1>9. CASE UNCHANGED attemptVars
  BY <1>9 DEF attemptVars, AttemptInv, SuccessWasTaken, GivesUpWhenRefused
<1> QED
  BY <1>1, <1>2, <1>3, <1>4, <1>5, <1>6, <1>7, <1>8, <1>9
  DEF ForwardAttemptNext

\* What a channel calls a success the provider took, whatever it answers.
THEOREM AttemptSuccessWasTaken ==
    ForwardAttemptSpec => []SuccessWasTaken
<1>1. AttemptInv => SuccessWasTaken
  BY DEF AttemptInv
<1> QED
  BY <1>1, AttemptInitInv, AttemptStep, PTL DEF ForwardAttemptSpec

\* The queue gives up only on what the provider did not take, the redirect of
\* a webhook excepted.
THEOREM AttemptGivesUpWhenRefused ==
    ForwardAttemptSpec => []GivesUpWhenRefused
<1>1. AttemptInv => GivesUpWhenRefused
  BY DEF AttemptInv
<1> QED
  BY <1>1, AttemptInitInv, AttemptStep, PTL DEF ForwardAttemptSpec
(***************************************************************************)
(* The self-update                                                         *)
(***************************************************************************)
\* The catalog is a row of releases; a run has chosen one of them once it
\* downloads, and what it is about to install is that release's build.
UpdateRecords ==
    [stage : UpdateStages, manager : Managers, target : Places,
     release : Nat, temp : Nat]

Beyond == {"chosen", "summed", "open", "written", "verified"}

UpdateInv ==
    /\ \E n \in Nat : DOMAIN catalog = 1..n
    /\ \A r \in DOMAIN catalog : catalog[r] \in AllReleaseKinds
    /\ installed \in [Places -> Nat]
    /\ updates \in [Updaters -> UpdateRecords]
    /\ \A u \in Updaters :
         /\ updates[u].release \in {0} \cup DOMAIN catalog
         /\ updates[u].stage \in Beyond => updates[u].release # 0
         /\ updates[u].stage = "verified" => ChecksumAgrees(u)
                                             /\ VersionAgrees(u)
    /\ InstalledIsWhole

\* The numbers that stand for bytes that are no build, and for no file.
LEMMA NoBuilds == Torn \in Nat /\ Missing \in Nat
BY UpdateAssumption DEF UpdateAssumption, Torn, Missing

\* Nothing was updated yet.
LEMMA UpdateInitInv ==
    ASSUME UpdateInit
    PROVE  UpdateInv
<1>1. DOMAIN catalog = {}
  BY DEF UpdateInit
<1>2. DOMAIN catalog = 1..0 /\ 0 \in Nat
  BY <1>1
<1>3. installed \in [Places -> Nat]
      /\ \A p \in Places : installed[p] \in {Missing, 0}
  BY NoBuilds DEF UpdateInit, Places
<1>4. updates \in [Updaters -> UpdateRecords]
  BY NoBuilds DEF UpdateInit, Fresh, UpdateRecords, UpdateStages, Managers,
                  Places
<1>5. \A u \in Updaters : /\ updates[u].release = 0
                          /\ updates[u].stage = "idle"
  BY DEF UpdateInit, Fresh
<1> QED
  BY <1>1, <1>2, <1>3, <1>4, <1>5
  DEF UpdateInv, Beyond, InstalledIsWhole

\* A run that only goes on to another stage keeps the invariant, if it may
\* be there.
LEMMA StageKeeps ==
    ASSUME UpdateInv, NEW u \in Updaters, NEW record \in UpdateRecords,
           updates' = [updates EXCEPT ![u] = record],
           UNCHANGED <<catalog, installed>>,
           record.release \in {0} \cup DOMAIN catalog,
           record.stage \in Beyond => record.release # 0,
           record.stage = "verified" =>
             /\ record.temp = BuildShipped(record.release)
             /\ ReleaseMatches(record.release, record.temp)
    PROVE  UpdateInv'
<1>1. /\ updates' \in [Updaters -> UpdateRecords]
      /\ updates'[u] = record
      /\ \A v \in Updaters : v # u => updates'[v] = updates[v]
  BY DEF UpdateInv
<1>2. ASSUME NEW v \in Updaters
      PROVE  /\ updates'[v].release \in {0} \cup DOMAIN catalog
             /\ updates'[v].stage \in Beyond => updates'[v].release # 0
  BY <1>1 DEF UpdateInv
<1>3. ASSUME NEW v \in Updaters, updates'[v].stage = "verified"
      PROVE  ChecksumAgrees(v)' /\ VersionAgrees(v)'
  <2>1. CASE v = u
    BY <1>1, <1>3, <2>1
    DEF ChecksumAgrees, VersionAgrees, BuildShipped, ReleaseMatches
  <2>2. CASE v # u
    BY <1>1, <1>3, <2>2
    DEF UpdateInv, ChecksumAgrees, VersionAgrees, BuildShipped,
        ReleaseMatches
  <2> QED
    BY <2>1, <2>2
<1>4. InstalledIsWhole'
  BY DEF UpdateInv, InstalledIsWhole
<1> QED
  BY <1>1, <1>2, <1>3, <1>4 DEF UpdateInv
\* The same for a run of which only the stage changes,
LEMMA BecomesKeeps ==
    ASSUME UpdateInv, NEW u \in Updaters, NEW stage \in UpdateStages,
           Becomes(u, stage), UNCHANGED <<catalog, installed>>,
           stage \in Beyond => updates[u].release # 0,
           stage = "verified" => ChecksumAgrees(u) /\ VersionAgrees(u)
    PROVE  UpdateInv'
<1>1. PICK record : record = [updates[u] EXCEPT !.stage = stage]
  OBVIOUS
<1>2. updates[u] \in UpdateRecords
  BY DEF UpdateInv
<1>3. /\ record \in UpdateRecords
      /\ record.stage = stage /\ record.release = updates[u].release
      /\ record.temp = updates[u].temp
  BY <1>1, <1>2 DEF UpdateRecords
<1>4. updates' = [updates EXCEPT ![u] = record]
  BY <1>1 DEF Becomes, UpdateInv
<1>5. updates[u].release \in {0} \cup DOMAIN catalog
  BY DEF UpdateInv
<1>6. record.stage = "verified" =>
        /\ record.temp = BuildShipped(record.release)
        /\ ReleaseMatches(record.release, record.temp)
  BY <1>3 DEF ChecksumAgrees, VersionAgrees
<1> QED
  BY <1>3, <1>4, <1>5, <1>6, StageKeeps

\* and for one that gives up, whether its file could be removed or not.
LEMMA AbandonKeeps ==
    ASSUME UpdateInv, NEW u \in Updaters, Abandon(u),
           UNCHANGED <<catalog, installed>>
    PROVE  UpdateInv'
<1>1. CASE Becomes(u, "failed")
  BY <1>1, BecomesKeeps DEF UpdateStages, Beyond
<1>2. CASE updates' = [updates EXCEPT ![u].stage = "failed",
                                      ![u].temp = Missing]
  <2>1. PICK record : record = [updates[u] EXCEPT !.stage = "failed",
                                                  !.temp = Missing]
    OBVIOUS
  <2>2. updates[u] \in UpdateRecords
    BY DEF UpdateInv
  <2>3. /\ record \in UpdateRecords
        /\ record.stage = "failed" /\ record.release = updates[u].release
    BY <2>1, <2>2, NoBuilds DEF UpdateRecords, UpdateStages
  <2>4. updates' = [updates EXCEPT ![u] = record]
    BY <1>2, <2>1 DEF UpdateInv
  <2>5. updates[u].release \in {0} \cup DOMAIN catalog
    BY DEF UpdateInv
  <2> QED
    BY <2>3, <2>4, <2>5, StageKeeps DEF Beyond
<1> QED
  BY <1>1, <1>2 DEF Abandon

\* A release that is published changes none of the earlier ones.
LEMMA PublishKeeps ==
    ASSUME UpdateInv, Publish
    PROVE  UpdateInv'
<1>1. PICK n \in Nat : DOMAIN catalog = 1..n
  BY DEF UpdateInv
<1>2. Latest = n
  BY <1>1, FS_Interval DEF Latest
<1>3. PICK kind \in ReleaseKinds :
        catalog' = [r \in 1..(n + 1) |->
                      IF r = n + 1 THEN kind ELSE catalog[r]]
  BY <1>2 DEF Publish
<1>4. /\ DOMAIN catalog' = 1..(n + 1) /\ n + 1 \in Nat
      /\ \A r \in DOMAIN catalog : /\ r \in DOMAIN catalog'
                                   /\ catalog'[r] = catalog[r]
      /\ catalog'[n + 1] = kind
      /\ \A r \in DOMAIN catalog' : r \in DOMAIN catalog \/ r = n + 1
  BY <1>1, <1>3
<1>5. \A r \in DOMAIN catalog' : catalog'[r] \in AllReleaseKinds
  BY <1>4, UpdateAssumption DEF UpdateInv, UpdateAssumption
<1>6. /\ installed' = installed /\ updates' = updates
  BY DEF Publish
<1>7. InstalledIsWhole'
  BY <1>4, <1>6 DEF UpdateInv, InstalledIsWhole
<1>8. ASSUME NEW u \in Updaters, updates[u].stage = "verified"
      PROVE  ChecksumAgrees(u)' /\ VersionAgrees(u)'
  <2>1. updates[u].release \in DOMAIN catalog
    BY <1>8 DEF UpdateInv, Beyond
  <2>2. ChecksumAgrees(u) /\ VersionAgrees(u)
    BY <1>8 DEF UpdateInv
  <2> QED
    BY <1>4, <1>6, <2>1, <2>2
    DEF ChecksumAgrees, VersionAgrees, BuildShipped, ReleaseMatches
<1>9. \A u \in Updaters : updates[u].release \in {0} \cup DOMAIN catalog'
  BY <1>4 DEF UpdateInv
<1> QED
  BY <1>4, <1>5, <1>6, <1>7, <1>8, <1>9 DEF UpdateInv

\* A binary is replaced by a whole build that its release describes.
LEMMA ReplaceKeeps ==
    ASSUME UpdateInv, NEW u \in Updaters, Replace(u)
    PROVE  UpdateInv'
<1>1. CASE Abandon(u) /\ UNCHANGED <<installed, owing>>
  BY <1>1, AbandonKeeps DEF Replace
<1>2. CASE /\ installed' = [installed EXCEPT ![updates[u].target] =
                              updates[u].temp]
           /\ updates' = [updates EXCEPT ![u].stage = "replaced",
                                         ![u].temp = Missing]
  <2> DEFINE r == updates[u].release
  <2>1. /\ updates[u].stage = "verified" /\ catalog' = catalog
    BY DEF Replace
  <2>2. /\ updates[u] \in UpdateRecords
        /\ r \in DOMAIN catalog /\ r # 0
        /\ ChecksumAgrees(u) /\ VersionAgrees(u)
    BY <2>1 DEF UpdateInv, Beyond
  <2>3. updates[u].temp = r /\ catalog[r].names # "neither"
    BY <2>2 DEF VersionAgrees, ReleaseMatches
  <2>4. catalog[r].honest
    BY <2>2, <2>3 DEF ChecksumAgrees, BuildShipped
  <2>5. updates[u].target \in Places /\ r \in Nat
    BY <2>2 DEF UpdateRecords
  <2>6. /\ installed' \in [Places -> Nat]
        /\ \A p \in Places : installed'[p] = r \/ installed'[p] = installed[p]
    BY <1>2, <2>3, <2>5 DEF UpdateInv
  <2>7. InstalledIsWhole'
    BY <2>1, <2>2, <2>3, <2>4, <2>6 DEF UpdateInv, InstalledIsWhole
  <2>8. /\ updates' \in [Updaters -> UpdateRecords]
        /\ updates'[u].stage = "replaced" /\ updates'[u].release = r
        /\ \A v \in Updaters : v # u => updates'[v] = updates[v]
    BY <1>2, <2>2, NoBuilds DEF UpdateInv, UpdateRecords, UpdateStages
  <2>9. ASSUME NEW v \in Updaters
        PROVE  /\ updates'[v].release \in {0} \cup DOMAIN catalog
               /\ updates'[v].stage \in Beyond => updates'[v].release # 0
    BY <2>2, <2>8 DEF UpdateInv
  <2>10. ASSUME NEW v \in Updaters, updates'[v].stage = "verified"
         PROVE  ChecksumAgrees(v)' /\ VersionAgrees(v)'
    <3>1. v # u
      BY <2>8, <2>10
    <3> QED
      BY <2>1, <2>8, <2>10, <3>1
      DEF UpdateInv, ChecksumAgrees, VersionAgrees, BuildShipped,
          ReleaseMatches
  <2> QED
    BY <2>1, <2>6, <2>7, <2>8, <2>9, <2>10 DEF UpdateInv
<1> QED
  BY <1>1, <1>2 DEF Replace
\* Every step keeps the invariant.
LEMMA UpdateStep ==
    ASSUME UpdateInv, [UpdateNext]_updateVars
    PROVE  UpdateInv'
<1>1. ASSUME NEW u \in Updaters, Locate(u)
      PROVE  UpdateInv'
  <2>1. updates[u] \in UpdateRecords /\ updates[u].stage = "idle"
    BY <1>1 DEF Locate, UpdateInv
  <2>2. updates[u].release \in {0} \cup DOMAIN catalog
    BY <2>1 DEF UpdateInv
  <2>3. CASE Becomes(u, "failed")
    BY <1>1, <2>2, <2>3, BecomesKeeps DEF Locate, UpdateStages, Beyond
  <2>4. ASSUME NEW manager \in Managers, NEW p \in Places,
               updates' = [updates EXCEPT ![u].stage = "located",
                             ![u].manager = manager, ![u].target = p]
        PROVE  UpdateInv'
    <3>1. PICK record : record = [updates[u] EXCEPT !.stage = "located",
                                    !.manager = manager, !.target = p]
      OBVIOUS
    <3>2. /\ record \in UpdateRecords /\ record.stage = "located"
          /\ record.release = updates[u].release
      BY <2>1, <3>1 DEF UpdateRecords, UpdateStages
    <3>3. updates' = [updates EXCEPT ![u] = record]
      BY <2>4, <3>1 DEF UpdateInv
    <3> QED
      BY <1>1, <2>2, <3>2, <3>3, StageKeeps DEF Locate, Beyond
  <2> QED
    BY <1>1, <2>3, <2>4 DEF Locate
<1>2. ASSUME NEW u \in Updaters, FetchRelease(u)
      PROVE  UpdateInv'
  <2>1. updates[u] \in UpdateRecords /\ updates[u].stage = "located"
    BY <1>2 DEF FetchRelease, UpdateInv
  <2>3. CASE Becomes(u, "failed")
    BY <1>2, <2>3, BecomesKeeps DEF FetchRelease, UpdateStages, Beyond
  <2>4. CASE Latest > 0 /\ updates' = [updates EXCEPT ![u].release = Latest]
    <3>1. PICK n \in Nat : DOMAIN catalog = 1..n
      BY DEF UpdateInv
    <3>2. Latest = n
      BY <3>1, FS_Interval DEF Latest
    <3>3. PICK record : record = [updates[u] EXCEPT !.release = n]
      OBVIOUS
    <3>4. /\ record \in UpdateRecords /\ record.stage = "located"
          /\ record.release = n
      BY <2>1, <3>3 DEF UpdateRecords
    <3>5. updates' = [updates EXCEPT ![u] = record]
      BY <2>4, <3>2, <3>3 DEF UpdateInv
    <3>6. n \in {0} \cup DOMAIN catalog
      BY <3>1
    <3> QED
      BY <1>2, <3>4, <3>5, <3>6, StageKeeps DEF FetchRelease, Beyond
  <2> QED
    BY <1>2, <2>3, <2>4 DEF FetchRelease
<1>3. ASSUME NEW u \in Updaters, InspectInstalled(u)
      PROVE  UpdateInv'
  <2>1. updates[u].stage = "located" /\ updates[u].release # 0
    BY <1>3 DEF InspectInstalled
  <2>2. \E stage \in {"current", "chosen", "failed"} : Becomes(u, stage)
    BY <1>3 DEF InspectInstalled
  <2> QED
    BY <1>3, <2>1, <2>2, BecomesKeeps
    DEF InspectInstalled, UpdateStages
<1>4. ASSUME NEW u \in Updaters, FetchPublishedChecksum(u)
      PROVE  UpdateInv'
  <2>1. updates[u].stage = "chosen" /\ updates[u].release # 0
    BY <1>4 DEF FetchPublishedChecksum, UpdateInv, Beyond
  <2> QED
    BY <1>4, <2>1, BecomesKeeps, AbandonKeeps
    DEF FetchPublishedChecksum, UpdateStages
<1>5. ASSUME NEW u \in Updaters, OpenTemporary(u)
      PROVE  UpdateInv'
  <2>1. /\ updates[u] \in UpdateRecords
        /\ updates[u].stage = "summed" /\ updates[u].release # 0
        /\ updates[u].release \in {0} \cup DOMAIN catalog
    BY <1>5 DEF OpenTemporary, UpdateInv, Beyond
  <2>2. CASE updates' = [updates EXCEPT ![u].stage = "open", ![u].temp = Torn]
    <3>1. PICK record : record = [updates[u] EXCEPT !.stage = "open",
                                                    !.temp = Torn]
      OBVIOUS
    <3>2. /\ record \in UpdateRecords /\ record.stage = "open"
          /\ record.release = updates[u].release
      BY <2>1, <3>1, NoBuilds DEF UpdateRecords, UpdateStages
    <3>3. updates' = [updates EXCEPT ![u] = record]
      BY <2>2, <3>1 DEF UpdateInv
    <3> QED
      BY <1>5, <2>1, <3>2, <3>3, StageKeeps DEF OpenTemporary
  <2> QED
    BY <1>5, <2>2, AbandonKeeps DEF OpenTemporary
<1>6. ASSUME NEW u \in Updaters, Download(u)
      PROVE  UpdateInv'
  <2>1. /\ updates[u] \in UpdateRecords
        /\ updates[u].stage = "open" /\ updates[u].release # 0
        /\ updates[u].release \in {0} \cup DOMAIN catalog
    BY <1>6 DEF Download, UpdateInv, Beyond
  <2>2. ASSUME NEW bytes \in {BuildShipped(updates[u].release), Torn},
               updates' = [updates EXCEPT ![u].stage = "written",
                                          ![u].temp = bytes]
        PROVE  UpdateInv'
    <3>1. PICK record : record = [updates[u] EXCEPT !.stage = "written",
                                                    !.temp = bytes]
      OBVIOUS
    <3>2. bytes \in Nat
      BY <2>1, NoBuilds DEF BuildShipped, UpdateRecords
    <3>3. /\ record \in UpdateRecords /\ record.stage = "written"
          /\ record.release = updates[u].release
      BY <2>1, <3>1, <3>2 DEF UpdateRecords, UpdateStages
    <3>4. updates' = [updates EXCEPT ![u] = record]
      BY <2>2, <3>1 DEF UpdateInv
    <3> QED
      BY <1>6, <2>1, <3>3, <3>4, StageKeeps DEF Download
  <2> QED
    BY <1>6, <2>2, AbandonKeeps DEF Download
<1>7. ASSUME NEW u \in Updaters, Validate(u)
      PROVE  UpdateInv'
  <2>1. updates[u].stage = "written" /\ updates[u].release # 0
    BY <1>7 DEF Validate, UpdateInv, Beyond
  <2>2. CASE ChecksumAgrees(u) /\ VersionAgrees(u) /\ Becomes(u, "verified")
    BY <1>7, <2>1, <2>2, BecomesKeeps DEF Validate, UpdateStages
  <2> QED
    BY <1>7, <2>2, AbandonKeeps DEF Validate
<1>8. ASSUME NEW u \in Updaters,
             \/ RestartAfterUpdate(u) \/ StartService(u) \/ RestartFails(u)
             \/ RestartAnswered(u) \/ Kill(u)
      PROVE  UpdateInv'
  <2>1. \/ \E stage \in {"unmanaged", "asked", "launched", "restarted",
                         "failed", "killed"} : Becomes(u, stage)
        \/ UNCHANGED updates
    BY <1>8 DEF RestartAfterUpdate, StartService, RestartFails,
                RestartAnswered, Kill
  <2>2. UNCHANGED <<catalog, installed>>
    BY <1>8 DEF RestartAfterUpdate, StartService, RestartFails,
                RestartAnswered, Kill
  <2>3. CASE UNCHANGED updates
    BY <2>2, <2>3 DEF UpdateInv, InstalledIsWhole, ChecksumAgrees,
                      VersionAgrees, BuildShipped, ReleaseMatches
  <2> QED
    BY <2>1, <2>2, <2>3, BecomesKeeps DEF UpdateStages, Beyond
<1>9. ASSUME NEW u \in Updaters, StopService(u)
      PROVE  UpdateInv'
  BY <1>9 DEF StopService, UpdateInv, InstalledIsWhole, ChecksumAgrees,
              VersionAgrees, BuildShipped, ReleaseMatches
<1>10. CASE UNCHANGED updateVars
  BY <1>10 DEF updateVars, UpdateInv, InstalledIsWhole, ChecksumAgrees,
               VersionAgrees, BuildShipped, ReleaseMatches
<1> QED
  BY <1>1, <1>2, <1>3, <1>4, <1>5, <1>6, <1>7, <1>8, <1>9, <1>10,
     PublishKeeps, ReplaceKeeps DEF UpdateNext

\* Whatever is killed, damaged or published wrongly, and however many runs
\* of the command there are at once, no place holds part of a build.
THEOREM UpdateInstallsWhole == UpdateSpec => []InstalledIsWhole
<1>1. UpdateInv => InstalledIsWhole
  BY DEF UpdateInv
<1> QED
  BY <1>1, UpdateInitInv, UpdateStep, PTL DEF UpdateSpec

\* A run is owed a restart from the replacement until it is told of one, and
\* so is every job of the manager; of those that are owed one, a run whose
\* service was started has it running what was installed then, and a later
\* replacement is owed a restart of its own.
Launched == {u \in Updaters : updates[u].stage = "launched"}

RestartInv ==
    /\ updates \in [Updaters -> UpdateRecords]
    /\ owing \subseteq Updaters
    /\ \A u \in Updaters :
         updates[u].stage \in {"replaced", "asked", "launched"} => u \in owing
    /\ \A u \in jobs : u \in owing /\ updates[u].stage # "launched"
    /\ owing \subseteq Launched => running = installed["registered"]

\* Only a run that replaced a binary asks for a restart.
LEMMA RestartStep ==
    ASSUME UpdateInv, UpdateInv', RestartInv, [UpdateNext]_updateVars
    PROVE  RestartInv'
<1> USE DEF Launched
<1>0. /\ updates \in [Updaters -> UpdateRecords]
      /\ updates' \in [Updaters -> UpdateRecords]
  BY DEF UpdateInv
<1>1. ASSUME NEW u \in Updaters, Replace(u)
      PROVE  RestartInv'
  <2>1. /\ updates'[u].stage \in {"replaced", "failed"}
        /\ \A v \in Updaters \ {u} : updates'[v] = updates[v]
        /\ updates[u].stage = "verified"
        /\ jobs' = jobs /\ running' = running
    BY <1>0, <1>1 DEF Replace, Abandon, Becomes, UpdateRecords
  <2>2. CASE owing' = owing \cup {u}
    BY <1>0, <2>1, <2>2 DEF RestartInv
  <2>3. CASE Abandon(u) /\ UNCHANGED <<installed, owing>>
    <3>1. updates'[u].stage = "failed"
      BY <1>0, <2>3 DEF Abandon, Becomes, UpdateRecords
    <3> QED
      BY <1>0, <2>1, <2>3, <3>1 DEF RestartInv
  <2> QED
    BY <1>1, <2>2, <2>3 DEF Replace
<1>2. ASSUME NEW u \in Updaters, RestartAfterUpdate(u)
      PROVE  RestartInv'
  <2>1. /\ updates[u].stage = "replaced"
        /\ updates'[u].stage \in {"unmanaged", "asked", "failed"}
        /\ \A v \in Updaters \ {u} : updates'[v] = updates[v]
        /\ jobs' \subseteq jobs \cup {u}
        /\ UNCHANGED <<installed, running, owing>>
    BY <1>0, <1>2 DEF RestartAfterUpdate, Becomes, UpdateRecords
  <2> QED
    BY <1>0, <2>1 DEF RestartInv
<1>3. ASSUME NEW u \in Updaters, StopService(u)
      PROVE  RestartInv'
  BY <1>0, <1>3 DEF StopService, RestartInv
<1>4. ASSUME NEW u \in Updaters, StartService(u)
      PROVE  RestartInv'
  <2>1. /\ u \in jobs /\ jobs' = jobs \ {u}
        /\ running' = installed'["registered"] /\ owing' = owing
        /\ updates'[u].stage = updates[u].stage
             \/ (updates[u].stage = "asked" /\ updates'[u].stage = "launched")
        /\ \A v \in Updaters \ {u} : updates'[v] = updates[v]
    BY <1>0, <1>4 DEF StartService, Becomes, UpdateRecords
  <2> QED
    BY <1>0, <2>1 DEF RestartInv
<1>5. ASSUME NEW u \in Updaters, RestartFails(u)
      PROVE  RestartInv'
  <2>1. /\ u \in jobs /\ jobs' = jobs \ {u}
        /\ UNCHANGED <<installed, running, owing>>
        /\ updates'[u].stage \in {updates[u].stage, "failed"}
        /\ \A v \in Updaters \ {u} : updates'[v] = updates[v]
    BY <1>0, <1>5 DEF RestartFails, Becomes, UpdateRecords
  <2> QED
    BY <1>0, <2>1 DEF RestartInv
<1>6. ASSUME NEW u \in Updaters, RestartAnswered(u)
      PROVE  RestartInv'
  <2>1. /\ UNCHANGED <<installed, running, jobs>>
        /\ \A v \in Updaters \ {u} : updates'[v] = updates[v]
        /\ \/ /\ updates[u].stage = "launched" /\ owing' = owing \ {u}
              /\ updates'[u].stage = "restarted"
           \/ updates'[u].stage = "failed" /\ owing' = owing
    BY <1>0, <1>6 DEF RestartAnswered, Becomes, UpdateRecords
  <2> QED
    BY <1>0, <2>1 DEF RestartInv
<1>7. ASSUME UNCHANGED <<installed, running, jobs, owing>>, NEW u \in Updaters,
             updates'[u].stage \notin {"replaced", "asked", "launched"},
             \A v \in Updaters \ {u} : updates'[v] = updates[v]
      PROVE  RestartInv'
  BY <1>0, <1>7 DEF RestartInv
<1>8. ASSUME NEW u \in Updaters,
             \/ Locate(u) \/ FetchRelease(u) \/ InspectInstalled(u)
             \/ FetchPublishedChecksum(u) \/ OpenTemporary(u)
             \/ Download(u) \/ Validate(u) \/ Kill(u)
      PROVE  RestartInv'
  <2>1. UNCHANGED <<installed, running, jobs, owing>>
    BY <1>8 DEF Locate, FetchRelease, InspectInstalled,
                FetchPublishedChecksum, OpenTemporary, Download, Validate, Kill
  <2>2. \A v \in Updaters \ {u} : updates'[v] = updates[v]
    BY <1>0, <1>8 DEF Locate, FetchRelease, InspectInstalled,
                FetchPublishedChecksum, OpenTemporary, Download, Validate,
                Kill, Abandon, Becomes
  <2>3. updates'[u].stage \notin {"replaced", "asked", "launched"}
    <3> USE <1>0 DEF Abandon, Becomes, UpdateRecords
    <3>1. CASE Locate(u)
      BY <3>1 DEF Locate
    <3>2. CASE FetchRelease(u)
      BY <3>2 DEF FetchRelease
    <3>3. CASE InspectInstalled(u)
      BY <3>3 DEF InspectInstalled
    <3>4. CASE FetchPublishedChecksum(u)
      BY <3>4 DEF FetchPublishedChecksum
    <3>5. CASE OpenTemporary(u)
      BY <3>5 DEF OpenTemporary
    <3>6. CASE Download(u)
      BY <3>6 DEF Download
    <3>7. CASE Validate(u)
      BY <3>7 DEF Validate
    <3>8. CASE Kill(u)
      BY <3>8 DEF Kill
    <3> QED BY <1>8, <3>1, <3>2, <3>3, <3>4, <3>5, <3>6, <3>7, <3>8
  <2> QED
    BY <1>7, <2>1, <2>2, <2>3
<1>9. CASE UNCHANGED <<installed, running, jobs, owing, updates>>
  BY <1>9 DEF RestartInv
<1> QED
  BY <1>1, <1>2, <1>3, <1>4, <1>5, <1>6, <1>8, <1>9
  DEF UpdateNext, updateVars, Publish

\* The service runs what is installed where its manager looks once every run
\* that replaced a binary was told of a restart, however the runs, the
\* manager's jobs and the answers interleave (update.rs, run).
THEOREM UpdateRestartsReachTheService ==
    UpdateSpec => []RestartsReachTheService
<1>1. UpdateInit => RestartInv
  BY UpdateInitInv
  DEF UpdateInit, UpdateInv, RestartInv, Launched, Places, Fresh
<1>2. RestartInv => RestartsReachTheService
  BY DEF RestartInv, RestartsReachTheService
<1> QED
  BY <1>1, <1>2, UpdateInitInv, UpdateStep, RestartStep, PTL DEF UpdateSpec

\* With both: whole binaries, and no restart reported of a service that runs
\* another build than the installed one.
THEOREM UpdateAlwaysWhole == UpdateSpec => []UpdateIsWhole
<1> QED
  BY UpdateInstallsWhole, UpdateRestartsReachTheService, PTL DEF UpdateIsWhole

(***************************************************************************)
(* The refreshes of the dashboard                                          *)
(***************************************************************************)
\* One read at most counts, what is shown is of no later commit than what that
\* read will bring, and if neither is of the last commit, that one is
\* lost or something will still make the dashboard read again.
StreamTypes ==
    /\ rev \in Nat /\ lost \in Nat /\ ring \in Nat
    /\ shown \in Int /\ Nothing <= shown
    /\ unsent \subseteq Nat
    /\ reads \subseteq [to : {"view", "other"}, since : Nat]
    /\ operation \in {"none", "view", "other"}

OneNewest == \A r, s \in reads : r = s

NothingAhead ==
    /\ shown <= rev /\ lost <= rev
    /\ \A c \in unsent : c <= rev
    /\ \A r \in reads : r.since <= rev
    /\ \A r \in reads : r.to = "view" => shown <= r.since

Tracked ==
    \/ Coming = rev
    \/ lost = rev
    \/ timer
    \/ ring > 0
    \/ rev \in unsent

StreamInv == StreamTypes /\ OneNewest /\ NothingAhead /\ Tracked

\* What is to be shown is what the read for the view brings, or else what is
\* shown now.
ComingOf(R, present) ==
    LET asked == {r \in R : r.to = "view"}
    IN  IF asked = {} THEN present ELSE (CHOOSE r \in asked : TRUE).since

\* Of one read at most.
LEMMA ComingOfIs ==
    ASSUME NEW R, NEW present,
           \A r, s \in R : r = s
    PROVE  /\ \A r \in R : r.to = "view" => ComingOf(R, present) = r.since
           /\ (\A r \in R : r.to # "view") => ComingOf(R, present) = present
<1> DEFINE asked == {r \in R : r.to = "view"}
<1>1. ComingOf(R, present) = IF asked = {} THEN present
                             ELSE (CHOOSE r \in asked : TRUE).since
  BY DEF ComingOf
<1>2. ASSUME NEW r \in R, r.to = "view"
      PROVE  ComingOf(R, present) = r.since
  <2>1. r \in asked /\ \A s \in asked : s = r
    BY <1>2
  <2>2. (CHOOSE s \in asked : TRUE) = r
    BY <2>1
  <2> QED
    BY <1>1, <2>1, <2>2
<1>3. (\A r \in R : r.to # "view") => ComingOf(R, present) = present
  BY <1>1
<1> QED
  BY <1>2, <1>3

\* So it is now,
LEMMA ComingIs ==
    ASSUME OneNewest
    PROVE  /\ \A r \in reads : r.to = "view" => Coming = r.since
           /\ (\A r \in reads : r.to # "view") => Coming = shown
<1>1. Coming = ComingOf(reads, shown)
  BY DEF Coming, ComingOf
<1> QED
  BY <1>1, ComingOfIs DEF OneNewest

\* and after a step that leaves one read at most.
LEMMA ComingIsNext ==
    ASSUME OneNewest'
    PROVE  /\ \A r \in reads' : r.to = "view" => Coming' = r.since
           /\ (\A r \in reads' : r.to # "view") => Coming' = shown'
<1>1. Coming' = ComingOf(reads', shown')
  BY DEF Coming, ComingOf
<1> QED
  BY <1>1, ComingOfIs DEF OneNewest

\* It lies between what is shown and the last commit.
LEMMA ComingBetween ==
    ASSUME StreamInv
    PROVE  Coming \in Int /\ shown <= Coming /\ Coming <= rev
<1>1. CASE \E r \in reads : r.to = "view"
  <2>1. PICK r \in reads : r.to = "view"
    BY <1>1
  <2>2. Coming = r.since
    BY <2>1, ComingIs DEF StreamInv
  <2>3. r.since \in Nat /\ shown <= r.since /\ r.since <= rev
    BY <2>1 DEF StreamInv, StreamTypes, NothingAhead
  <2> QED
    BY <2>2, <2>3
<1>2. CASE \A r \in reads : r.to # "view"
  <2>1. Coming = shown
    BY <1>2, ComingIs DEF StreamInv
  <2> QED
    BY <2>1 DEF StreamInv, StreamTypes, NothingAhead
<1> QED
  BY <1>1, <1>2

\* Nothing was read.
LEMMA StreamInitInv ==
    ASSUME StreamInit
    PROVE  StreamInv
<1>1. StreamTypes /\ OneNewest /\ NothingAhead
  BY DEF StreamInit, StreamTypes, OneNewest, NothingAhead, Nothing
<1>2. Coming = shown
  BY <1>1, ComingIs DEF StreamInit
<1> QED
  BY <1>1, <1>2 DEF StreamInv, Tracked, StreamInit

\* Steps that leave the reads alone leave what is coming alone.
LEMMA ReadsAlone ==
    ASSUME StreamInv, UNCHANGED <<reads, shown>>
    PROVE  Coming' = Coming /\ OneNewest'
BY DEF Coming, StreamInv, OneNewest

\* A commit, with an event that is still to be published or without one.
LEMMA ChangeKeeps ==
    ASSUME StreamInv, Change \/ ChangeSilently
    PROVE  StreamInv'
<1>1. /\ rev' = rev + 1 /\ UNCHANGED <<reads, shown, ring, timer, operation>>
      /\ \/ unsent' = unsent \cup {rev'} /\ lost' = lost
         \/ lost' = rev' /\ unsent' = unsent
  BY DEF Change, ChangeSilently, ownVars
<1>2. Coming' = Coming /\ OneNewest'
  BY <1>1, ReadsAlone
<1>3. /\ rev \in Nat /\ rev' \in Nat /\ shown \in Int /\ lost \in Nat
      /\ unsent \subseteq Nat
      /\ reads \subseteq [to : {"view", "other"}, since : Nat]
  BY <1>1 DEF StreamInv, StreamTypes
<1>4. StreamTypes'
  <2>1. unsent' \subseteq Nat /\ lost' \in Nat
    BY <1>1, <1>3
  <2> QED
    BY <1>1, <1>3, <2>1 DEF StreamInv, StreamTypes
<1>5. NothingAhead'
  <2>1. shown' <= rev' /\ lost' <= rev'
    BY <1>1, <1>3 DEF StreamInv, NothingAhead
  <2>2. \A r \in reads' : r.since <= rev'
    BY <1>1, <1>3 DEF StreamInv, NothingAhead
  <2>3. ASSUME NEW c \in unsent'
        PROVE  c <= rev'
    <3>1. c \in unsent => c \in Nat /\ c <= rev
      BY <1>3 DEF StreamInv, NothingAhead
    <3>2. c \in unsent \/ c = rev'
      BY <1>1, <2>3
    <3> QED
      BY <1>1, <1>3, <3>1, <3>2
  <2>4. \A r \in reads' : r.to = "view" => shown' <= r.since
    BY <1>1 DEF StreamInv, NothingAhead
  <2> QED
    BY <2>1, <2>2, <2>3, <2>4 DEF NothingAhead
<1>6. Tracked'
  BY <1>1 DEF Tracked
<1> QED
  BY <1>2, <1>4, <1>5, <1>6 DEF StreamInv

\* An event that is published or given up.
LEMMA EventKeeps ==
    ASSUME EventStreamAssumption, StreamInv, NEW c \in 1..MaxChanges,
           PublishEvent(c) \/ AbandonEvent(c)
    PROVE  StreamInv'
<1>1. /\ c \in unsent /\ unsent' = unsent \ {c}
      /\ UNCHANGED <<rev, reads, shown, timer, operation>>
      /\ \/ ring' \in Nat \ {0} /\ lost' = lost
         \/ ring' = ring /\ lost' = AtLeast(lost, c)
  BY DEF PublishEvent, AbandonEvent, StreamInv, StreamTypes,
         EventStreamAssumption, ownVars
<1>2. Coming' = Coming /\ OneNewest'
  BY <1>1, ReadsAlone
<1>3. /\ c \in Nat /\ lost \in Nat /\ ring \in Nat /\ rev \in Nat
      /\ c <= rev /\ lost <= rev
  BY <1>1 DEF StreamInv, StreamTypes, NothingAhead
<1>4. lost' \in Nat /\ lost' <= rev /\ (lost = rev => lost' = rev)
  BY <1>1, <1>3 DEF AtLeast
<1>5. StreamTypes'
  BY <1>1, <1>3, <1>4 DEF StreamInv, StreamTypes
<1>6. NothingAhead'
  BY <1>1, <1>4 DEF StreamInv, NothingAhead
<1>7. Tracked'
  <2>1. CASE ring' \in Nat \ {0}
    BY <2>1 DEF Tracked
  <2>2. CASE ring' = ring /\ lost' = AtLeast(lost, c)
    <3>1. c = rev => lost' = rev
      BY <1>3, <2>2 DEF AtLeast
    <3> QED
      BY <1>1, <1>2, <1>4, <2>2, <3>1 DEF StreamInv, Tracked
  <2> QED
    BY <1>1, <2>1, <2>2
<1> QED
  BY <1>2, <1>5, <1>6, <1>7 DEF StreamInv

\* An event reaches the dashboard.
LEMMA ForwardKeeps ==
    ASSUME StreamInv, Forward \/ Fallback
    PROVE  StreamInv'
<1>1. /\ timer' = TRUE /\ ring' \in Nat
      /\ UNCHANGED <<rev, unsent, reads, shown, lost, operation>>
  BY DEF Forward, Fallback, StreamInv, StreamTypes, ownVars
<1> QED
  BY <1>1, ReadsAlone DEF StreamInv, StreamTypes, NothingAhead, Tracked

\* The stream ends, and its events with it.
LEMMA CloseKeeps ==
    ASSUME StreamInv, CloseStream
    PROVE  StreamInv'
<1>1. /\ ring' = 0 /\ UNCHANGED <<rev, unsent, reads, shown, timer, operation>>
      /\ lost' = IF ring > 0 THEN rev ELSE lost
  BY DEF CloseStream, ownVars
<1>2. Coming' = Coming /\ OneNewest'
  BY <1>1, ReadsAlone
<1>3. StreamTypes' /\ NothingAhead'
  BY <1>1 DEF StreamInv, StreamTypes, NothingAhead
<1>4. Tracked'
  BY <1>1, <1>2 DEF StreamInv, Tracked
<1> QED
  BY <1>2, <1>3, <1>4 DEF StreamInv

\* A new read makes an earlier one void; one for the view brings the last
\* commit.
LEMMA ReadKeeps ==
    ASSUME StreamInv, NEW whose \in {"view", "other"}, ReadMessages(whose),
           UNCHANGED <<rev, unsent>>, ring' \in Nat,
           shown' \in {shown, Nothing},
           lost' = IF whose = "other" THEN rev ELSE lost,
           operation' \in {"none", "view", "other"}
    PROVE  StreamInv'
<1>1. PICK fresh : fresh = [to |-> whose, since |-> rev]
  OBVIOUS
<1>2. reads' = {fresh}
  BY <1>1 DEF ReadMessages
<1>3. /\ rev \in Nat /\ lost \in Nat /\ lost <= rev
      /\ shown' \in Int /\ Nothing <= shown' /\ shown' <= rev
  BY DEF StreamInv, StreamTypes, NothingAhead, Nothing
<1>4. /\ fresh \in [to : {"view", "other"}, since : Nat]
      /\ fresh.to = whose /\ fresh.since = rev
  BY <1>1, <1>3
<1>6. StreamTypes'
  BY <1>2, <1>3, <1>4 DEF StreamInv, StreamTypes
<1>7. OneNewest'
  BY <1>2 DEF OneNewest
<1>8. NothingAhead'
  BY <1>2, <1>3, <1>4 DEF StreamInv, NothingAhead
<1>9. Tracked'
  <2>1. CASE whose = "view"
    <3>1. Coming' = rev
      BY <1>2, <1>4, <1>7, <2>1, ComingIsNext
    <3> QED
      BY <3>1 DEF Tracked
  <2>2. CASE whose = "other"
    BY <2>2 DEF Tracked
  <2> QED
    BY <2>1, <2>2
<1> QED
  BY <1>6, <1>7, <1>8, <1>9 DEF StreamInv

\* An answer shows what was coming or something later, or another view's
\* messages.
LEMMA AnswerShows ==
    ASSUME StreamInv, NEW r \in Reads, Answer(r)
    PROVE  StreamInv' /\ ShownOnlyGrows
<1>1. /\ r \in reads
      /\ reads' = reads \ {r}
      /\ \/ r.to = "view" /\ shown' \in r.since..rev /\ lost' = lost
         \/ r.to = "other" /\ shown' = Nothing /\ lost' = rev
      /\ UNCHANGED <<rev, unsent, ring, timer, operation>>
  BY DEF Answer, ownVars
<1>2. /\ r.since \in Nat /\ shown \in Int /\ r.since <= rev
      /\ rev \in Nat /\ lost \in Nat /\ lost <= rev
  BY <1>1 DEF StreamInv, StreamTypes, NothingAhead
<1>3. OneNewest'
  BY <1>1 DEF StreamInv, OneNewest
<1>4. CASE r.to = "view" /\ shown' \in r.since..rev /\ lost' = lost
  <2>1. shown' \in Int /\ shown' >= shown /\ shown' >= r.since /\ shown' <= rev
    BY <1>1, <1>2, <1>4 DEF StreamInv, NothingAhead
  <2>2. reads' = {}
    BY <1>1, <1>4 DEF StreamInv, OneNewest
  <2>3. Coming' = shown' /\ Coming = r.since
    <3>1. Coming = r.since
      BY <1>1, <1>4, ComingIs DEF StreamInv
    <3>2. Coming' = shown'
      BY <1>3, <2>2, ComingIsNext
    <3> QED
      BY <3>1, <3>2
  <2>4. StreamTypes'
    <3>1. Nothing <= shown'
      BY <1>2, <2>1 DEF Nothing
    <3> QED
      BY <1>1, <1>2, <1>4, <2>1, <3>1 DEF StreamInv, StreamTypes
  <2>5. NothingAhead'
    BY <1>1, <1>2, <1>4, <2>1, <2>2 DEF StreamInv, NothingAhead
  <2>6. Tracked'
    <3>1. Coming = rev => Coming' = rev
      BY <1>2, <2>1, <2>3
    <3> QED
      BY <1>1, <1>4, <3>1 DEF StreamInv, Tracked
  <2> QED
    BY <1>3, <2>1, <2>4, <2>5, <2>6 DEF StreamInv, ShownOnlyGrows
<1>5. CASE r.to = "other" /\ shown' = Nothing /\ lost' = rev
  <2>1. reads' = {}
    BY <1>1, <1>5 DEF StreamInv, OneNewest
  <2>2. StreamTypes'
    BY <1>1, <1>2, <1>5 DEF StreamInv, StreamTypes, Nothing
  <2>3. NothingAhead'
    BY <1>1, <1>2, <1>5, <2>1 DEF StreamInv, NothingAhead, Nothing
  <2>4. Tracked'
    BY <1>1, <1>5 DEF Tracked
  <2> QED
    BY <1>3, <1>5, <2>2, <2>3, <2>4 DEF StreamInv, ShownOnlyGrows
<1> QED
  BY <1>1, <1>4, <1>5

\* A read that fails leaves the dashboard to its fallback, and a refused one to
\* the login.
LEMMA FailureKeeps ==
    ASSUME StreamInv, (\E r \in Reads : ReadFails(r)) \/ Unauthorized
    PROVE  StreamInv'
<1>1. /\ reads' \subseteq reads /\ lost' = rev /\ ring' \in Nat
      /\ UNCHANGED <<rev, unsent, shown, operation>>
  BY DEF ReadFails, Unauthorized, ownVars, StreamInv, StreamTypes
<1>2. OneNewest'
  BY <1>1 DEF StreamInv, OneNewest
<1>3. StreamTypes' /\ NothingAhead'
  BY <1>1 DEF StreamInv, StreamTypes, NothingAhead
<1> QED
  BY <1>1, <1>2, <1>3 DEF StreamInv, Tracked

\* Every step keeps the invariant.
LEMMA StreamStep ==
    ASSUME EventStreamAssumption, StreamInv, [StreamNext]_streamVars
    PROVE  StreamInv'
<1>1. CASE UNCHANGED <<rev, unsent, ring, timer, reads, shown, lost>>
           /\ operation' \in {"none", "view", "other"}
  BY <1>1, ReadsAlone DEF StreamInv, StreamTypes, NothingAhead, Tracked
<1>2. CASE EndStream \/ Break
  BY <1>2, CloseKeeps DEF EndStream, Break
<1>3. CASE SkipLag \/ Subscribe \/ Logout \/ UNCHANGED streamVars
  BY <1>1, <1>3
  DEF SkipLag, Subscribe, Logout, streamVars, ownVars, StreamInv, StreamTypes
<1>4. ASSUME ReloadList \/ \E since \in 0..MaxChanges :
                             AnswerList(since) \/ ListReadFails(since)
      PROVE  StreamInv'
  BY <1>1, <1>4 DEF ReloadList, AnswerList, ListReadFails, StreamInv,
                    StreamTypes
<1>5. CASE Refresh
  <2>1. /\ ReadMessages("view") /\ UNCHANGED <<rev, unsent>>
        /\ ring' \in Nat /\ shown' = shown /\ lost' = lost
        /\ operation' \in {"none", "view", "other"}
    BY <1>5 DEF Refresh, StreamInv, StreamTypes
  <2> QED
    BY <2>1, ReadKeeps
<1>6. CASE ChangeView
  <2>1. /\ ReadMessages("view") /\ UNCHANGED <<rev, unsent>>
        /\ ring' \in Nat /\ shown' = Nothing /\ lost' = lost
        /\ operation' \in {"none", "view", "other"}
    BY <1>6 DEF ChangeView, StreamInv, StreamTypes
  <2> QED
    BY <2>1, ReadKeeps
<1>7. CASE Reload
  <2>1. PICK whose \in {"view", "other"} : whose = operation
    BY <1>7 DEF Reload, StreamInv, StreamTypes
  <2>2. /\ ReadMessages(whose) /\ UNCHANGED <<rev, unsent>>
        /\ ring' \in Nat /\ shown' = shown
        /\ lost' = IF whose = "other" THEN rev ELSE lost
        /\ operation' \in {"none", "view", "other"}
    BY <1>7, <2>1 DEF Reload, StreamInv, StreamTypes
  <2> QED
    BY <2>2, ReadKeeps
<1> QED
  BY <1>2, <1>3, <1>4, <1>5, <1>6, <1>7, ChangeKeeps, EventKeeps,
     ForwardKeeps, AnswerShows, FailureKeeps DEF StreamNext

\* A commit that has an event is not missed by the messages of the view: if
\* they are behind it, a refresh that will bring it is due, also when the ring
\* overflowed or the view was changed, unless it was lost as NoMissedRefresh
\* says.
THEOREM StreamMissesNoRefresh ==
    ASSUME EventStreamAssumption
    PROVE  StreamSpec => []NoMissedRefresh
<1>1. StreamInit => StreamInv
  BY StreamInitInv
<1>2. StreamInv /\ [StreamNext]_streamVars => StreamInv'
  BY StreamStep
<1>3. StreamInv => NoMissedRefresh
  BY DEF StreamInv, Tracked, NoMissedRefresh, RefreshDue
<1> QED
  BY <1>1, <1>2, <1>3, PTL DEF StreamSpec

\* The messages of a view never go back, in whatever order answers come in.
THEOREM StreamShownOnlyGrows ==
    ASSUME EventStreamAssumption
    PROVE  StreamSpec => [][ShownOnlyGrows]_streamVars
<1>1. StreamInit => StreamInv
  BY StreamInitInv
<1>2. StreamInv /\ [StreamNext]_streamVars => StreamInv'
  BY StreamStep
<1>3. StreamInv /\ [StreamNext]_streamVars => [ShownOnlyGrows]_streamVars
  <2> SUFFICES ASSUME StreamInv, StreamNext
               PROVE  ShownOnlyGrows
    OBVIOUS
  <2>1. CASE shown' = shown \/ shown' = Nothing
    BY <2>1 DEF StreamInv, StreamTypes, ShownOnlyGrows
  <2>2. \/ shown' = shown \/ shown' = Nothing
        \/ \E r \in Reads : Answer(r)
    BY DEF StreamNext, Change, ChangeSilently, PublishEvent, AbandonEvent,
           SkipLag, Forward, EndStream, Break, CloseStream, Subscribe, Logout,
           Fallback, Refresh, ChangeView, Reload, ReloadList, ReadFails,
           AnswerList, ListReadFails, Unauthorized
  <2> QED
    BY <2>1, <2>2, AnswerShows
<1> QED
  BY <1>1, <1>2, <1>3, PTL DEF StreamSpec

\* The messages of the view keep up with the database and never go back
\* (events, scheduleRefresh, loadMessagesForPhone).
THEOREM StreamKeepsUp ==
    ASSUME EventStreamAssumption
    PROVE  StreamSpec => ViewKeepsUp
<1>1. StreamSpec => []NoMissedRefresh
  BY StreamMissesNoRefresh
<1>2. StreamSpec => [][ShownOnlyGrows]_streamVars
  BY StreamShownOnlyGrows
<1> QED
  BY <1>1, <1>2, PTL DEF ViewKeepsUp

\* A final verdict on a delivery agrees with what the provider did (the
\* adapters of forward/).
THEOREM AttemptVerdictsAgree == ForwardAttemptSpec => []VerdictsAgree
BY AttemptSuccessWasTaken, AttemptGivesUpWhenRefused, PTL DEF VerdictsAgree

(***************************************************************************)
(* Login sessions                                                          *)
(***************************************************************************)
\* What RevokedStaysRevoked rests on: every row was issued under the
\* password that the verifier stands for, no two are of one token, and none
\* of a refused token is left.
GoodRows(list, w, fine) ==
    /\ list \in Seq(SessionRows)
    /\ Len(list) <= MaxSessions
    /\ \A i \in 1..Len(list) : list[i].proof = w /\ list[i].token \in fine
    /\ \A i, j \in 1..Len(list) : list[i].token = list[j].token => i = j

SessionsInv ==
    /\ {password, verifier} \subseteq Passwords \cup {NoPassword}
    /\ refused \subseteq issued /\ issued \subseteq Tokens
    /\ Serving => verifier = password
    /\ GoodRows(sessions, verifier, issued \ refused)

\* The rows between two places.
LEMMA RowsBetween ==
    ASSUME NEW list \in Seq(SessionRows), NEW m \in 1..(Len(list) + 1),
           NEW n \in (m - 1)..Len(list),
           NEW w, w = SubSeq(list, m, n)
    PROVE  /\ w \in Seq(SessionRows) /\ Len(w) = n - m + 1
           /\ \A k \in 1..Len(w) :
                k + (m - 1) \in 1..Len(list) /\ w[k] = list[k + (m - 1)]
<1>1. Len(list) \in Nat /\ m \in Int /\ n \in Int
  OBVIOUS
<1>2. \A i \in m..n : list[i] \in SessionRows
  <2>1. m..n \subseteq 1..Len(list)
    BY <1>1
  <2> QED BY <2>1
<1>3. /\ SubSeq(list, m, n) \in Seq(SessionRows)
      /\ Len(SubSeq(list, m, n)) = IF m <= n THEN n - m + 1 ELSE 0
      /\ \A i \in 1..(n - m + 1) : SubSeq(list, m, n)[i] = list[m + i - 1]
  BY <1>1, <1>2, SubSeqProperties
<1>4. Len(w) = n - m + 1
  BY <1>1, <1>3
<1>5. \A k \in 1..(n - m + 1) :
        m + k - 1 = k + (m - 1) /\ k + (m - 1) \in 1..Len(list)
  BY <1>1
<1> QED BY <1>3, <1>4, <1>5

\* w has rows of list, each from a place of its own.
DrawnFrom(w, list, f) ==
    /\ w \in Seq(SessionRows) /\ Len(w) <= Len(list)
    /\ \A i \in 1..Len(w) : f[i] \in 1..Len(list) /\ w[i] = list[f[i]]
    /\ \A i, j \in 1..Len(w) : f[i] = f[j] => i = j

\* Some of the rows are good if all are.
LEMMA DrawnRowsAreGood ==
    ASSUME NEW list, NEW p, NEW fine, GoodRows(list, p, fine),
           NEW w, NEW f, DrawnFrom(w, list, f)
    PROVE  GoodRows(w, p, fine)
<1> USE DEF DrawnFrom
<1>1. Len(list) \in Nat /\ Len(w) \in Nat /\ Len(list) <= MaxSessions
      /\ MaxSessions \in Nat
  BY SessionsAssumption DEF GoodRows
<1>2. Len(w) <= MaxSessions
  BY <1>1
<1>3. \A i \in 1..Len(w) : w[i].proof = p /\ w[i].token \in fine
  BY DEF GoodRows
<1>4. \A i, j \in 1..Len(w) : w[i].token = w[j].token => i = j
  BY DEF GoodRows
<1> QED BY <1>2, <1>3, <1>4 DEF GoodRows

\* What a login leaves is the end of the list, and there is room for a row.
LEMMA KeptRowsAreGood ==
    ASSUME NEW list, NEW p, NEW fine, GoodRows(list, p, fine)
    PROVE  GoodRows(Kept(list), p, fine) /\ Len(Kept(list)) < MaxSessions
<1>0. /\ MaxSessions \in Nat \ {0} /\ Len(list) \in Nat
      /\ list \in Seq(SessionRows) /\ Len(list) <= MaxSessions
  BY SessionsAssumption DEF GoodRows
<1>1. PICK e \in Int : e = Len(list) - MaxSessions + 1
  BY <1>0
<1>2. CASE e > 0
  <2>1. Kept(list) = SubSeq(list, 2, Len(list)) /\ Len(list) = MaxSessions
    BY <1>0, <1>1, <1>2 DEF Kept
  <2>2. PICK m, n : m = 2 /\ n = Len(list)
    OBVIOUS
  <2>3. PICK k : k = SubSeq(list, m, n)
    OBVIOUS
  <2>4. /\ k \in Seq(SessionRows) /\ Len(k) = n - m + 1
        /\ \A i \in 1..Len(k) :
             i + (m - 1) \in 1..Len(list) /\ k[i] = list[i + (m - 1)]
    <3>1. m \in 1..(Len(list) + 1) /\ n \in (m - 1)..Len(list)
      BY <1>0, <2>1, <2>2
    <3> QED BY <1>0, <2>3, <3>1, RowsBetween
  <2>5. PICK f : f = [i \in 1..Len(k) |-> i + 1]
    OBVIOUS
  <2>6. \A i \in 1..Len(k) : f[i] \in 1..Len(list) /\ k[i] = list[f[i]]
    BY <2>2, <2>4, <2>5
  <2>7. \A i, j \in 1..Len(k) : f[i] = f[j] => i = j
    BY <2>5
  <2>8. Len(k) <= Len(list) /\ Len(k) < MaxSessions
    BY <1>0, <2>1, <2>2, <2>4
  <2>9. DrawnFrom(k, list, f)
    BY <2>4, <2>6, <2>7, <2>8 DEF DrawnFrom
  <2>10. GoodRows(k, p, fine)
    BY <2>9, DrawnRowsAreGood
  <2> QED BY <2>1, <2>2, <2>3, <2>8, <2>10
<1>3. CASE ~(e > 0)
  BY <1>0, <1>1, <1>3 DEF Kept
<1> QED BY <1>2, <1>3

\* The rows but one.
LEMMA OtherRowsAreGood ==
    ASSUME NEW list, NEW p, NEW fine, GoodRows(list, p, fine), NEW t
    PROVE  GoodRows(Without(list, t), p, fine)
<1>0. DOMAIN list = 1..Len(list) /\ Len(list) \in Nat /\ list \in Seq(SessionRows)
  BY DEF GoodRows
<1>1. CASE \E i \in DOMAIN list : list[i].token = t
  <2>1. PICK i \in 1..Len(list) :
          Without(list, t) = SubSeq(list, 1, i - 1) \o SubSeq(list, i + 1, Len(list))
    BY <1>0, <1>1 DEF Without
  <2>2. PICK a, b : a = SubSeq(list, 1, i - 1) /\ b = SubSeq(list, i + 1, Len(list))
    OBVIOUS
  <2>3. /\ a \in Seq(SessionRows) /\ Len(a) = i - 1
        /\ \A k \in 1..Len(a) : a[k] = list[k]
    <3>1. 1 \in 1..(Len(list) + 1) /\ i - 1 \in (1 - 1)..Len(list)
      BY <1>0
    <3>2. /\ a \in Seq(SessionRows) /\ Len(a) = (i - 1) - 1 + 1
          /\ \A k \in 1..Len(a) : a[k] = list[k + (1 - 1)]
      BY <1>0, <2>2, <3>1, RowsBetween
    <3> QED BY <1>0, <3>2
  <2>4. /\ b \in Seq(SessionRows) /\ Len(b) = Len(list) - i
        /\ \A k \in 1..Len(b) : b[k] = list[k + i]
    <3>1. i + 1 \in 1..(Len(list) + 1) /\ Len(list) \in ((i + 1) - 1)..Len(list)
      BY <1>0
    <3>2. /\ b \in Seq(SessionRows) /\ Len(b) = Len(list) - (i + 1) + 1
          /\ \A k \in 1..Len(b) : b[k] = list[k + ((i + 1) - 1)]
      BY <1>0, <2>2, <3>1, RowsBetween
    <3>3. Len(list) - (i + 1) + 1 = Len(list) - i /\ (i + 1) - 1 = i
      BY <1>0
    <3> QED BY <3>2, <3>3
  <2>5. PICK w : w = a \o b
    OBVIOUS
  <2>6. /\ w \in Seq(SessionRows) /\ Len(w) = Len(a) + Len(b)
        /\ \A k \in 1..(Len(a) + Len(b)) :
             w[k] = IF k <= Len(a) THEN a[k] ELSE b[k - Len(a)]
    <3>1. a \in Seq(SessionRows) /\ b \in Seq(SessionRows)
      BY <2>3, <2>4
    <3> HIDE <2>3, <2>4
    <3> QED BY <2>5, <3>1, ConcatProperties
  <2>7. Len(w) = Len(list) - 1 /\ Len(w) \in Nat
    BY <1>0, <2>3, <2>4, <2>6
  <2>8. PICK f : f = [k \in 1..Len(w) |-> IF k < i THEN k ELSE k + 1]
    OBVIOUS
  <2>9. ASSUME NEW k \in 1..Len(w)
        PROVE  w[k] = list[f[k]] /\ f[k] \in 1..Len(list)
    <3>1. CASE k < i
      BY <1>0, <2>3, <2>6, <2>7, <2>8, <3>1
    <3>2. CASE ~(k < i)
      <4>1. k - Len(a) \in 1..Len(b) /\ (k - Len(a)) + i = k + 1
        BY <1>0, <2>3, <2>4, <2>7, <3>2
      <4> QED BY <1>0, <2>3, <2>4, <2>6, <2>7, <2>8, <3>2, <4>1
    <3> QED BY <3>1, <3>2
  <2>10. ASSUME NEW k \in 1..Len(w), NEW l \in 1..Len(w), f[k] = f[l]
         PROVE  k = l
    <3>1. f[k] = (IF k < i THEN k ELSE k + 1) /\ f[l] = (IF l < i THEN l ELSE l + 1)
      BY <2>8
    <3>2. i \in Int /\ k \in Int /\ l \in Int
      BY <1>0, <2>7
    <3>3. PICK x, y : x = f[k] /\ y = f[l] /\ x = y
      BY <2>10
    <3>4. x = (IF k < i THEN k ELSE k + 1) /\ y = (IF l < i THEN l ELSE l + 1)
      BY <3>1, <3>3
    <3> QED BY <3>2, <3>3, <3>4
  <2>11. Len(w) <= Len(list)
    BY <1>0, <2>7
  <2>12. DrawnFrom(w, list, f)
    BY <2>6, <2>9, <2>10, <2>11 DEF DrawnFrom
  <2>13. GoodRows(w, p, fine)
    BY <2>12, DrawnRowsAreGood
  <2> QED BY <2>1, <2>2, <2>5, <2>13
<1>2. CASE ~\E i \in DOMAIN list : list[i].token = t
  BY <1>2 DEF Without
<1> QED BY <1>1, <1>2

\* A process with the password of the rows accepts all of them, and refuses
\* only tokens without a row.
LEMMA RefusedHasNoRow ==
    ASSUME NEW list \in Seq(SessionRows), NEW w,
           \A i \in 1..Len(list) : list[i].proof = w
    PROVE  \A i \in 1..Len(list) :
             list[i].token \notin refused => list[i].token \notin Refused(list, w)
<1>1. DOMAIN list = 1..Len(list)
  OBVIOUS
<1> QED BY <1>1 DEF Refused, ValidFor

\* Every login, logout, start and stop keeps the invariant.
LEMMA SessionsStep ==
    ASSUME SessionsInv, [SessionsNext]_sessionVars
    PROVE  SessionsInv'
<1> USE SessionsAssumption
<1>0. /\ sessions \in Seq(SessionRows) /\ Len(sessions) <= MaxSessions
      /\ \A i \in 1..Len(sessions) :
           sessions[i].proof = verifier /\ sessions[i].token \in issued \ refused
      /\ \A i, j \in 1..Len(sessions) :
           sessions[i].token = sessions[j].token => i = j
      /\ Len(sessions) \in Nat
  BY DEF SessionsInv, GoodRows
<1>1. ASSUME NEW t \in Tokens, Login(t)
      PROVE  SessionsInv'
  <2>1. /\ Serving /\ t \notin issued /\ issued' = issued \cup {t}
        /\ refused' = Refused(sessions', password)
        /\ UNCHANGED <<password, verifier>>
    BY <1>1 DEF Login
  <2>2. PICK k, entry : k = Kept(sessions) /\ entry = [token |-> t, proof |-> password]
    OBVIOUS
  <2>3. GoodRows(k, verifier, issued \ refused) /\ Len(k) < MaxSessions
    BY <2>2, KeptRowsAreGood DEF SessionsInv
  <2>4. /\ k \in Seq(SessionRows) /\ Len(k) \in Nat
        /\ \A i \in 1..Len(k) : k[i].proof = verifier /\ k[i].token \in issued \ refused
        /\ \A i, j \in 1..Len(k) : k[i].token = k[j].token => i = j
    BY <2>3 DEF GoodRows
  <2>5. password \in Passwords /\ password = verifier /\ entry \in SessionRows
    BY <2>1, <2>2 DEF SessionsInv, Serving, SessionRows
  <2>6. sessions' = Append(k, entry)
    BY <1>1, <2>2 DEF Login
  <2>7. /\ sessions' \in Seq(SessionRows) /\ Len(sessions') = Len(k) + 1
        /\ \A i \in 1..Len(k) : sessions'[i] = k[i]
        /\ sessions'[Len(k) + 1] = entry
    BY <2>4, <2>5, <2>6
  <2>8. ASSUME NEW i \in 1..Len(sessions')
        PROVE  /\ sessions'[i].proof = password
               /\ sessions'[i].token \in issued' \ refused
               /\ i \in 1..Len(k) => sessions'[i].token \in issued
               /\ i \notin 1..Len(k) => i = Len(k) + 1 /\ sessions'[i].token = t
    <3>1. CASE i \in 1..Len(k)
      BY <2>1, <2>4, <2>5, <2>7, <3>1
    <3>2. CASE i = Len(k) + 1
      BY <2>1, <2>2, <2>4, <2>7, <3>2 DEF SessionsInv
    <3> QED BY <2>4, <2>7, <3>1, <3>2
  <2>9. ASSUME NEW i \in 1..Len(sessions'), NEW j \in 1..Len(sessions'),
               sessions'[i].token = sessions'[j].token
        PROVE  i = j
    <3>1. CASE i \in 1..Len(k) /\ j \in 1..Len(k)
      BY <2>4, <2>7, <2>9, <3>1
    <3>2. CASE ~(i \in 1..Len(k) /\ j \in 1..Len(k))
      BY <2>1, <2>8, <2>9, <3>2
    <3> QED BY <3>1, <3>2
  <2>10. \A i \in 1..Len(sessions') : sessions'[i].token \notin refused'
    BY <2>1, <2>7, <2>8, RefusedHasNoRow
  <2>11. refused' \subseteq issued' /\ issued' \subseteq Tokens
    BY <2>1 DEF SessionsInv, Refused
  <2>12. Len(sessions') <= MaxSessions
    BY <2>3, <2>4, <2>7
  <2>13. GoodRows(sessions, verifier, issued \ refused)'
    BY <2>1, <2>5, <2>7, <2>8, <2>9, <2>10, <2>12 DEF GoodRows
  <2> QED BY <2>1, <2>5, <2>11, <2>13 DEF SessionsInv, Serving
<1>2. ASSUME NEW t \in Tokens, EndSession(t)
      PROVE  SessionsInv'
  <2>1. /\ Serving /\ issued' = issued /\ sessions' = Without(sessions, t)
        /\ refused' = Refused(sessions', password)
        /\ UNCHANGED <<password, verifier>>
    BY <1>2 DEF EndSession
  <2>2. verifier = password
    BY <2>1 DEF SessionsInv
  <2>3. PICK w : w = sessions'
    OBVIOUS
  <2>4. GoodRows(w, verifier, issued \ refused)
    BY <2>1, <2>3, OtherRowsAreGood DEF SessionsInv
  <2>5. \A i \in 1..Len(w) : w[i].token \notin Refused(w, password)
    BY <2>2, <2>4, RefusedHasNoRow DEF GoodRows
  <2>6. refused' = Refused(w, password)
    BY <2>1, <2>3
  <2>7. refused' \subseteq issued'
    BY <2>1 DEF SessionsInv, Refused
  <2>8. GoodRows(sessions, verifier, issued \ refused)'
    BY <2>1, <2>3, <2>4, <2>5, <2>6 DEF GoodRows
  <2> QED BY <2>1, <2>7, <2>8 DEF SessionsInv, Serving
<1>3. ASSUME NEW w \in Passwords, StartServing(w)
      PROVE  SessionsInv'
  <2>1. /\ password' = w /\ verifier' = w /\ issued' = issued
        /\ sessions' = IF verifier = w THEN sessions ELSE <<>>
        /\ refused' = Refused(sessions', w)
    BY <1>3 DEF StartServing
  <2>2. /\ sessions' \in Seq(SessionRows) /\ Len(sessions') <= MaxSessions
        /\ \A i \in 1..Len(sessions') :
             sessions'[i].proof = w /\ sessions'[i].token \in issued \ refused
        /\ \A i, j \in 1..Len(sessions') :
             sessions'[i].token = sessions'[j].token => i = j
    <3>1. CASE verifier = w
      BY <1>0, <2>1, <3>1
    <3>2. CASE verifier # w
      <4>1. sessions' = <<>>
        BY <2>1, <3>2
      <4> QED BY <4>1
    <3> QED BY <3>1, <3>2
  <2>3. \A i \in 1..Len(sessions') : sessions'[i].token \notin refused'
    BY <2>1, <2>2, RefusedHasNoRow
  <2>4. refused' \subseteq issued'
    BY <2>1 DEF SessionsInv, Refused
  <2>5. GoodRows(sessions, verifier, issued \ refused)'
    BY <2>1, <2>2, <2>3 DEF GoodRows
  <2> QED BY <2>1, <2>4, <2>5 DEF SessionsInv, Serving
<1>4. CASE Stop
  BY <1>4 DEF Stop, SessionsInv, Serving, GoodRows
<1>5. CASE UNCHANGED sessionVars
  BY <1>5 DEF sessionVars, SessionsInv, Serving, GoodRows
<1> QED BY <1>1, <1>2, <1>3, <1>4, <1>5 DEF SessionsNext

\* No session is there.
LEMMA SessionsInitInv == SessionsInit => SessionsInv
BY SessionsAssumption DEF SessionsInit, SessionsInv, Serving, GoodRows

\* A token that a process refused is never accepted again, by whatever process
\* and password comes, and the table stays within its limit, for any number of
\* tokens, passwords and restarts (create_auth_session, delete_auth_session,
\* synchronize_auth_password).
THEOREM EndedStaysEnded == SessionsSpec => []SessionsEnd
<1>1. SessionsInit => SessionsInv
  BY SessionsInitInv
<1>2. SessionsInv /\ [SessionsNext]_sessionVars => SessionsInv'
  BY SessionsStep
<1>3. SessionsInv => SessionsEnd
  <2> SUFFICES ASSUME SessionsInv PROVE SessionsEnd
    OBVIOUS
  <2>1. /\ Len(sessions) <= MaxSessions /\ DOMAIN sessions = 1..Len(sessions)
        /\ \A i \in 1..Len(sessions) : sessions[i].token \notin refused
    BY DEF SessionsInv, GoodRows
  <2> QED BY <2>1 DEF SessionsEnd, SessionCap, RevokedStaysRevoked, ValidFor
<1> QED BY <1>1, <1>2, <1>3, PTL DEF SessionsSpec

(***************************************************************************)
(* Failure reports                                                         *)
(***************************************************************************)
\* LAST_REPORTS has the latest report of each code that went out.
ReportsInv ==
    /\ ReportingTypeOK
    /\ \A f \in reported : f.at <= lastReport[f.code]
    /\ \A c \in Codes : lastReport[c] # NotYet =>
         [code |-> c, at |-> lastReport[c]] \in reported
    /\ ReportsThrottled

\* Every step of a reporter or of the clock keeps the invariant.
LEMMA ReportingStep ==
    ASSUME ReportsInv, [ReportingNext]_reportVars
    PROVE  ReportsInv'
<1> USE ReportingAssumption DEF ReportsInv, ReportingTypeOK, ReportsThrottled
<1>1. ASSUME NEW r \in Reporters, NEW c \in Codes, Capture(r, c)
      PROVE  ReportsInv'
  <2>1. [code |-> c, at |-> reportClock] \in Failures
    BY DEF Failures
  <2> QED BY <1>1, <2>1 DEF Capture, ReportsSpaced, SilencedForCause
<1>2. ASSUME NEW r \in Reporters, SendReport(r)
      PROVE  ReportsInv'
  <2>1. PICK f : f = failure[r]
    OBVIOUS
  <2>2. f \in Failures /\ f.code \in Codes /\ f.at \in 0..ReportEnd
        /\ f = [code |-> f.code, at |-> f.at]
    BY <1>2, <2>1 DEF SendReport, Failures
  <2>3. /\ failure' \in [Reporters -> Failures \cup {NoFailure}]
        /\ reportClock' = reportClock
    BY <1>2 DEF SendReport
  <2>4. CASE Throttled(f)
    <3>1. /\ silenced' = silenced \cup {f}
          /\ UNCHANGED <<lastReport, reported>>
      BY <1>2, <2>1, <2>4 DEF SendReport
    <3>2. PICK g \in reported : g = [code |-> f.code, at |-> lastReport[f.code]]
      BY <2>2, <2>4 DEF Throttled
    <3>3. g.code = f.code /\ f.at - g.at < ReportEvery
      BY <2>4, <3>2 DEF Throttled
    <3> QED BY <2>2, <2>3, <3>1, <3>2, <3>3 DEF ReportsSpaced, SilencedForCause
  <2>5. CASE ~Throttled(f)
    <3>1. /\ lastReport' = [lastReport EXCEPT ![f.code] = f.at]
          /\ reported' = reported \cup {f}
          /\ silenced' = silenced
      BY <1>2, <2>1, <2>5 DEF SendReport
    <3>2. \A g \in reported : g.code = f.code => f.at - g.at >= ReportEvery
      <4> SUFFICES ASSUME NEW g \in reported, g.code = f.code
                   PROVE  f.at - g.at >= ReportEvery
        OBVIOUS
      <4>1. g.at <= lastReport[f.code] /\ g.at \in 0..ReportEnd
        BY DEF Failures
      <4>2. lastReport[f.code] \in NotYet..ReportEnd
        BY <2>2
      <4> QED BY <2>2, <2>5, <4>1, <4>2 DEF Throttled, NotYet
    <3>3. lastReport' \in [Codes -> NotYet..ReportEnd]
      BY <2>2, <3>1 DEF NotYet
    <3>4. \A g \in reported' : g.at <= lastReport'[g.code]
      <4> SUFFICES ASSUME NEW g \in reported' PROVE g.at <= lastReport'[g.code]
        OBVIOUS
      <4>1. CASE g = f
        BY <2>2, <3>1, <4>1
      <4>2. CASE g \in reported
        <5>1. g.code \in Codes /\ g.at \in 0..ReportEnd
          BY <4>2 DEF Failures
        <5> QED BY <2>2, <3>1, <3>2, <4>2, <5>1
      <4> QED BY <3>1, <4>1, <4>2
    <3>5. \A c \in Codes : lastReport'[c] # NotYet =>
            [code |-> c, at |-> lastReport'[c]] \in reported'
      BY <2>2, <3>1
    <3>6. ReportsSpaced'
      <4> SUFFICES ASSUME NEW g \in reported', NEW h \in reported',
                          g # h, g.code = h.code, g.at <= h.at
                   PROVE  h.at - g.at >= ReportEvery
        BY DEF ReportsSpaced
      <4>1. g.at \in 0..ReportEnd /\ h.at \in 0..ReportEnd
        BY <2>2, <3>1 DEF Failures
      <4> QED BY <2>2, <3>1, <3>2, <4>1 DEF ReportsSpaced
    <3>7. SilencedForCause'
      BY <3>1 DEF SilencedForCause
    <3> QED BY <2>2, <2>3, <3>1, <3>3, <3>4, <3>5, <3>6, <3>7
  <2> QED BY <2>4, <2>5
<1>3. CASE ReportTick
  BY <1>3 DEF ReportTick, ReportsSpaced, SilencedForCause
<1>4. CASE UNCHANGED reportVars
  BY <1>4 DEF reportVars, ReportsSpaced, SilencedForCause
<1> QED BY <1>1, <1>2, <1>3, <1>4 DEF ReportingNext

\* Nothing was reported.
LEMMA ReportsInitInv == ReportingInit => ReportsInv
BY ReportingAssumption
   DEF ReportingInit, ReportsInv, ReportingTypeOK, ReportsThrottled,
       ReportsSpaced, SilencedForCause, NotYet

\* Two reports of one code are an interval apart, and a failure is kept silent
\* only beside a report of its code, for any number of threads that take the
\* mutex in another order than they read the time (should_report).
THEOREM ReportsAreThrottled == ReportingSpec => []ReportsThrottled
<1>1. ReportingInit => ReportsInv
  BY ReportsInitInv
<1>2. ReportsInv /\ [ReportingNext]_reportVars => ReportsInv'
  BY ReportingStep
<1>3. ReportsInv => ReportsThrottled
  BY DEF ReportsInv
<1> QED BY <1>1, <1>2, <1>3, PTL DEF ReportingSpec

(***************************************************************************)
(* The lease of a batch                                                    *)
(***************************************************************************)
\* How long the batch has been waiting.
Elapsed == LeaseSpan - queue.lease

\* What is left of the attempt in a slot, if it lasts no longer than one
\* request may.
Left(r) == IF r.busy THEN ChannelTimeout - r.age ELSE 0

\* The rows each slot is certain to begin within the time that all waves take
\* while no attempt lasts longer: it is free when its attempt is over, and
\* again after each attempt.
Chances == {c \in Slots \X (0..(Waves - 1)) :
              Elapsed + Left(slot[c[1]]) + c[2] * ChannelTimeout
                <= Waves * ChannelTimeout}

SlotRecord == [busy : BOOLEAN, lease : 0..LeaseSpan, age : 0..AttemptSpan,
               late : BOOLEAN]

LeaseInv ==
    /\ queue \in [rows : 0..BatchSize, lease : 0..LeaseSpan, slow : BOOLEAN]
    /\ slot \in [Slots -> SlotRecord]
    /\ ~queue.slow => ~Outlasting(slot)
    /\ ChannelTimeout < LeaseFloor =>
         /\ \A s \in Slots :
              slot[s].busy /\ ~slot[s].late /\ slot[s].age <= ChannelTimeout =>
                slot[s].lease > Left(slot[s])
         /\ queue.rows > 0 /\ ~queue.slow => queue.rows <= Cardinality(Chances)

\* The numbers of the lease: all waves and one attempt fit into it.
LEMMA LeaseNumbers ==
    /\ AttemptSpan \in Nat /\ LeaseSpan \in Nat /\ Waves \in Nat \ {0}
    /\ ChannelTimeout \in Nat \ {0} /\ LeaseFloor \in Nat
    /\ Waves * ChannelTimeout \in Nat
    /\ LeaseSpan = LeaseFloor + Waves * ChannelTimeout
    /\ Concurrency \in Nat /\ BatchSize \in Nat
    /\ IsFiniteSet(0..(Waves - 1)) /\ Cardinality(0..(Waves - 1)) = Waves
    /\ IsFiniteSet(Slots \X (0..(Waves - 1)))
    /\ Cardinality(Slots \X (0..(Waves - 1))) = BatchSize
<1>1. /\ LeaseFloor \in Nat \ {0} /\ Waves \in Nat \ {0}
      /\ ChannelTimeout \in Nat \ {0} /\ RequestsPerAttempt \in Nat \ {0}
  BY LeaseAssumption DEF LeaseAssumption
<1>2. PICK a, w \in Nat : a = RequestsPerAttempt * ChannelTimeout
                          /\ w = ChannelTimeout * Waves
  BY <1>1
<1>3. AttemptSpan = a /\ LeaseSpan = LeaseFloor + w
  BY <1>2 DEF AttemptSpan, LeaseSpan
<1>4. Waves * ChannelTimeout = w
  BY <1>1, <1>2
<1>5. LeaseSpan = LeaseFloor + Waves * ChannelTimeout /\ LeaseSpan \in Nat
  BY <1>1, <1>2, <1>3, <1>4
<1>6. Concurrency \in Nat
  BY LeaseAssumption, FS_CardinalityType DEF LeaseAssumption, Concurrency
<1>7. IsFiniteSet(0..(Waves - 1)) /\ Cardinality(0..(Waves - 1)) = Waves
  <2>1. 0 \in Int /\ Waves - 1 \in Int
    BY <1>1
  <2>2. /\ IsFiniteSet(0..(Waves - 1))
        /\ Cardinality(0..(Waves - 1)) =
             IF 0 > Waves - 1 THEN 0 ELSE (Waves - 1) - 0 + 1
    BY <2>1, FS_Interval
  <2> QED BY <1>1, <2>2
<1>8. PICK T : T = 0..(Waves - 1)
  OBVIOUS
<1>9. /\ IsFiniteSet(Slots \X T)
      /\ Cardinality(Slots \X T) = Cardinality(Slots) * Cardinality(T)
  BY <1>7, <1>8, FS_Product, LeaseAssumption DEF LeaseAssumption
<1>10. BatchSize = Concurrency * Waves /\ BatchSize \in Nat
  BY <1>1, <1>6 DEF BatchSize
<1> QED BY <1>1, <1>2, <1>3, <1>4, <1>5, <1>6, <1>7, <1>8, <1>9, <1>10 DEF Concurrency

\* The chances are finitely many.
LEMMA ChancesFinite ==
    IsFiniteSet(Chances) /\ Cardinality(Chances) \in Nat
BY LeaseNumbers, FS_Subset, FS_CardinalityType DEF Chances

\* What is left of an attempt, while none lasts longer than one request may.
LEMMA LeftOfAttempt ==
    ASSUME slot \in [Slots -> SlotRecord], ~Outlasting(slot), NEW s \in Slots
    PROVE  Left(slot[s]) \in 0..ChannelTimeout
<1>1. slot[s] \in SlotRecord
  OBVIOUS
<1>2. slot[s].busy => slot[s].age <= ChannelTimeout
  BY <1>1, LeaseNumbers DEF Outlasting, SlotRecord
<1> QED BY <1>1, <1>2, LeaseNumbers DEF Left, SlotRecord

\* A row that waits has an attempt's time and more left.
LEMMA WaitingHasTime ==
    ASSUME LeaseInv, ChannelTimeout < LeaseFloor, queue.rows > 0, ~queue.slow
    PROVE  queue.lease > ChannelTimeout
<1>1. Chances # {}
  <2>1. queue.rows \in Nat /\ queue.rows <= Cardinality(Chances)
    BY LeaseNumbers DEF LeaseInv
  <2>2. Cardinality(Chances) # 0
    BY <2>1, ChancesFinite
  <2> QED BY <2>2, FS_EmptySet
<1>2. PICK c \in Slots \X (0..(Waves - 1)) :
        Elapsed + Left(slot[c[1]]) + c[2] * ChannelTimeout <= Waves * ChannelTimeout
  BY <1>1 DEF Chances
<1>3. PICK b \in Nat : b = c[2] * ChannelTimeout
  <2>1. c[2] \in Nat /\ ChannelTimeout \in Nat
    BY LeaseNumbers
  <2> QED BY <2>1
<1>4. Left(slot[c[1]]) \in Nat /\ queue.lease \in Nat
  <2>1. Left(slot[c[1]]) \in 0..ChannelTimeout
    BY LeftOfAttempt DEF LeaseInv
  <2> QED BY <2>1, LeaseNumbers DEF LeaseInv
<1>5. PICK d \in Nat : d = Waves * ChannelTimeout /\ LeaseSpan = LeaseFloor + d
  BY LeaseNumbers
<1>6. ChannelTimeout \in Nat /\ LeaseFloor \in Nat
  BY LeaseNumbers
<1>7. (LeaseSpan - queue.lease) + Left(slot[c[1]]) + b <= d
  BY <1>2, <1>3, <1>5 DEF Elapsed
<1> QED BY <1>3, <1>4, <1>5, <1>6, <1>7

\* A new batch has as many chances as it has room for rows.
LEMMA ClaimChances ==
    ASSUME LeaseInv, ClaimBatch, ~queue'.slow
    PROVE  Cardinality(Chances') = BatchSize
<1>1. queue'.lease = LeaseSpan /\ slot' = slot /\ ~Outlasting(slot)
  BY LeaseNumbers DEF ClaimBatch
<1>2. Elapsed' = 0
  BY <1>1, LeaseNumbers DEF Elapsed, LeaseSpan
<1>3. ASSUME NEW c \in Slots \X (0..(Waves - 1)) PROVE c \in Chances'
  <2>1. PICK a, k, w \in Nat :
          a = ChannelTimeout /\ k = c[2] /\ w = Waves /\ k + 1 <= w
    BY LeaseNumbers
  <2>2. (k + 1) * a <= w * a /\ (k + 1) * a = k * a + a
    BY <2>1
  <2>3. Left(slot'[c[1]]) \in 0..a
    BY <1>1, <2>1, LeftOfAttempt DEF LeaseInv
  <2>4. k * a \in Nat /\ w * a \in Nat
    BY <2>1
  <2>5. 0 + Left(slot'[c[1]]) + k * a <= w * a
    BY <2>1, <2>2, <2>3, <2>4
  <2> QED BY <1>2, <2>1, <2>5 DEF Chances
<1>4. Chances' = Slots \X (0..(Waves - 1))
  BY <1>3 DEF Chances
<1> QED BY <1>4, LeaseNumbers

\* Whoever takes up a row uses the first of the chances of its slot.
LEMMA FillChances ==
    ASSUME LeaseInv, NEW s \in Slots, FillSlot(s)
    PROVE  Cardinality(Chances) <= Cardinality(Chances') + 1
<1>1. /\ Elapsed' = Elapsed /\ ~slot[s].busy /\ slot \in [Slots -> SlotRecord]
      /\ slot' = [slot EXCEPT ![s] = [busy |-> TRUE, lease |-> queue.lease,
                                      age |-> 0, late |-> queue.slow]]
  BY LeaseNumbers DEF FillSlot, Elapsed, LeaseSpan, LeaseInv
<1>2. /\ Left(slot'[s]) = ChannelTimeout /\ Left(slot[s]) = 0
      /\ \A t \in Slots \ {s} : slot'[t] = slot[t]
  BY <1>1, LeaseNumbers DEF Left
<1>3. PICK C, D : C = Chances /\ D = Chances'
  OBVIOUS
<1>4. IsFiniteSet(C) /\ Cardinality(C) \in Nat
  BY <1>3, ChancesFinite
<1>5. IsFiniteSet(D) /\ Cardinality(D) \in Nat
  BY <1>3, LeaseNumbers, FS_Subset, FS_CardinalityType DEF Chances
<1>6. PICK R : R = C \ {<<s, 0>>}
  OBVIOUS
<1>7. IsFiniteSet(R) /\ Cardinality(R) \in Nat /\ Cardinality(C) <= Cardinality(R) + 1
  <2>1. PICK x : x = <<s, 0>>
    OBVIOUS
  <2>2. IsFiniteSet(C \ {x}) /\ Cardinality(C \ {x}) =
          IF x \in C THEN Cardinality(C) - 1 ELSE Cardinality(C)
    BY <1>4, FS_RemoveElement
  <2>3. Cardinality(C \ {x}) \in Nat
    BY <2>2, FS_CardinalityType
  <2> QED BY <1>4, <1>6, <2>1, <2>2, <2>3
<1>8. PICK f : f = [c \in R |-> IF c[1] = s THEN <<s, c[2] - 1>> ELSE c]
  OBVIOUS
<1>9. ASSUME NEW c \in R
      PROVE  f[c] \in D
  <2>1. c \in Slots \X (0..(Waves - 1)) /\ c # <<s, 0>>
        /\ Elapsed + Left(slot[c[1]]) + c[2] * ChannelTimeout <= Waves * ChannelTimeout
    BY <1>3, <1>6 DEF Chances
  <2>2. CASE c[1] # s
    BY <1>1, <1>2, <1>3, <1>8, <2>1, <2>2 DEF Chances
  <2>3. CASE c[1] = s
    <3>1. PICK k, a, w \in Nat : k + 1 = c[2] /\ a = ChannelTimeout /\ w = Waves
      <4>1. c[2] # 0 /\ c[2] \in Nat
        BY <2>1, <2>3
      <4>2. c[2] - 1 \in Nat /\ (c[2] - 1) + 1 = c[2]
        BY <4>1
      <4> QED BY <4>2, LeaseNumbers
    <3>2. f[c] = <<s, k>> /\ k \in 0..(Waves - 1)
      BY <1>8, <2>1, <2>3, <3>1, LeaseNumbers
    <3>3. (k + 1) * a = k * a + a /\ k * a \in Nat /\ w * a \in Nat
      BY <3>1
    <3>4. Elapsed \in Int
      BY LeaseNumbers DEF LeaseInv, Elapsed
    <3>5. Elapsed + a + k * a <= w * a
      BY <1>2, <2>1, <2>3, <3>1, <3>3, <3>4
    <3>6. <<s, k>> \in Slots \X (0..(Waves - 1)) /\ <<s, k>>[1] = s /\ <<s, k>>[2] = k
      BY <3>2
    <3> QED BY <1>1, <1>2, <1>3, <3>1, <3>2, <3>5, <3>6 DEF Chances
  <2> QED BY <2>2, <2>3
<1>10. f \in Injection(R, D)
  <2>1. f \in [R -> D]
    BY <1>8, <1>9
  <2>2. ASSUME NEW c \in R, NEW d \in R, f[c] = f[d]
        PROVE  c = d
    <3>1. /\ c \in Slots \X (0..(Waves - 1)) /\ d \in Slots \X (0..(Waves - 1))
      BY <1>3, <1>6 DEF Chances
    <3> QED BY <1>8, <2>2, <3>1
  <2> QED BY <2>1, <2>2 DEF Injection, IsInjective
<1>11. Cardinality(R) <= Cardinality(D)
  BY <1>5, <1>10, FS_Injection
<1> QED BY <1>3, <1>4, <1>5, <1>7, <1>11

\* Time takes one unit of each attempt and of the lease.
LEMMA TickChances ==
    ASSUME LeaseInv, LeaseTick, ChannelTimeout < LeaseFloor,
           queue.rows > 0, ~queue'.slow
    PROVE  Chances' = Chances
<1>1. /\ queue.rows \in 0..BatchSize /\ queue.lease \in 0..LeaseSpan
      /\ slot \in [Slots -> SlotRecord]
      /\ queue' = [queue EXCEPT !.lease = Less(queue.lease),
                                !.slow = queue.slow \/ Outlasting(slot')]
      /\ queue \in [rows : 0..BatchSize, lease : 0..LeaseSpan, slow : BOOLEAN]
  BY DEF LeaseInv, LeaseTick
<1>2. /\ ~queue.slow /\ ~Outlasting(slot') /\ queue'.lease = Less(queue.lease)
  BY <1>1
<1>3. queue.lease > ChannelTimeout
  BY <1>2, WaitingHasTime
<1>4. Elapsed' = Elapsed + 1 /\ Elapsed \in Int
  <2>1. PICK l \in 0..LeaseSpan : l = queue.lease
    BY <1>1
  <2>2. Less(queue.lease) = l - 1
    BY <1>3, <2>1, LeaseNumbers DEF Less
  <2>3. Elapsed' = LeaseSpan - (l - 1) /\ Elapsed = LeaseSpan - l
    BY <1>2, <2>1, <2>2 DEF Elapsed, LeaseSpan
  <2> QED BY <2>1, <2>3, LeaseNumbers
<1>5. ASSUME NEW s \in Slots
      PROVE  Left(slot'[s]) = Left(slot[s]) - 1 /\ Left(slot[s]) \in Int
  <2>1. slot[s].busy
    BY DEF LeaseTick, IdleSlots
  <2>2. slot'[s] = [slot[s] EXCEPT !.age = slot[s].age + 1,
                                   !.lease = Less(slot[s].lease)]
    BY <2>1 DEF LeaseTick
  <2>3. slot[s] \in SlotRecord
    BY <1>1
  <2>4. slot'[s].busy /\ slot'[s].age = slot[s].age + 1 /\ slot[s].age \in Nat
    BY <2>1, <2>2, <2>3, LeaseNumbers DEF SlotRecord
  <2> QED BY <2>1, <2>4, LeaseNumbers DEF Left
<1>6. ASSUME NEW c \in Slots \X (0..(Waves - 1))
      PROVE  Elapsed' + Left(slot'[c[1]]) + c[2] * ChannelTimeout
               = Elapsed + Left(slot[c[1]]) + c[2] * ChannelTimeout
  <2>1. Left(slot'[c[1]]) = Left(slot[c[1]]) - 1 /\ Left(slot[c[1]]) \in Int
    BY <1>5
  <2>2. PICK b \in Nat : b = c[2] * ChannelTimeout
    <3>1. c[2] \in Nat /\ ChannelTimeout \in Nat
      BY LeaseNumbers
    <3> QED BY <3>1
  <2> QED BY <1>4, <2>1, <2>2
<1> QED BY <1>6 DEF Chances

\* Every step of the worker and of time keeps the invariant.
LEMMA LeaseStep ==
    ASSUME LeaseInv, [DeliveryLeaseNext]_leaseVars
    PROVE  LeaseInv'
<1>0. /\ queue \in [rows : 0..BatchSize, lease : 0..LeaseSpan, slow : BOOLEAN]
      /\ queue.rows \in 0..BatchSize /\ queue.lease \in 0..LeaseSpan
      /\ slot \in [Slots -> SlotRecord]
      /\ AttemptSpan' = AttemptSpan /\ LeaseSpan' = LeaseSpan /\ BatchSize' = BatchSize
      /\ SlotRecord' = SlotRecord
      /\ BatchSize \in Nat /\ LeaseSpan \in Nat /\ AttemptSpan \in Nat
  BY LeaseNumbers DEF LeaseInv, AttemptSpan, LeaseSpan, BatchSize, Concurrency, SlotRecord
<1>1. CASE ClaimBatch
  <2>1. PICK n \in 1..BatchSize :
          /\ queue' = [rows |-> n, lease |-> LeaseSpan, slow |-> Outlasting(slot)]
          /\ slot' = slot
    BY <1>1 DEF ClaimBatch
  <2>2. Outlasting(slot) \in BOOLEAN
    BY DEF Outlasting
  <2>3. /\ queue' \in [rows : 0..BatchSize, lease : 0..LeaseSpan, slow : BOOLEAN]
        /\ queue'.rows = n /\ queue'.slow = Outlasting(slot')
    BY <1>0, <2>1, <2>2
  <2>4. ~queue'.slow => queue'.rows <= Cardinality(Chances')
    BY <1>0, <1>1, <2>3, ClaimChances
  <2> QED BY <1>0, <2>1, <2>3, <2>4 DEF LeaseInv
<1>2. ASSUME NEW s \in Slots, FillSlot(s)
      PROVE  LeaseInv'
  <2>1. /\ queue.rows > 0 /\ queue' = [queue EXCEPT !.rows = @ - 1]
        /\ slot' = [slot EXCEPT ![s] = [busy |-> TRUE, lease |-> queue.lease,
                                        age |-> 0, late |-> queue.slow]]
    BY <1>2 DEF FillSlot
  <2>2. /\ queue' \in [rows : 0..BatchSize, lease : 0..LeaseSpan, slow : BOOLEAN]
        /\ queue'.rows = queue.rows - 1 /\ queue'.slow = queue.slow
    BY <1>0, <2>1
  <2>3. PICK r : r = [busy |-> TRUE, lease |-> queue.lease, age |-> 0,
                      late |-> queue.slow]
    OBVIOUS
  <2>4. r \in SlotRecord /\ r.busy /\ r.age = 0 /\ r.lease = queue.lease
        /\ r.late = queue.slow
    BY <1>0, <2>3 DEF SlotRecord
  <2>5. /\ slot' \in [Slots -> SlotRecord] /\ slot'[s] = r
        /\ \A t \in Slots \ {s} : slot'[t] = slot[t]
    BY <1>0, <2>1, <2>3, <2>4
  <2>6. ~queue'.slow => ~Outlasting(slot')
    <3>1. ~(r.age > ChannelTimeout)
      BY <2>4, LeaseNumbers
    <3>2. ~queue.slow => ~Outlasting(slot)
      BY DEF LeaseInv
    <3> QED BY <2>2, <2>5, <3>1, <3>2 DEF Outlasting
  <2>7. ASSUME ChannelTimeout < LeaseFloor
        PROVE  /\ \A t \in Slots :
                    slot'[t].busy /\ ~slot'[t].late /\ slot'[t].age <= ChannelTimeout =>
                      slot'[t].lease > Left(slot'[t])
               /\ queue'.rows > 0 /\ ~queue'.slow =>
                    queue'.rows <= Cardinality(Chances')
    <3>1. ~queue.slow => queue.lease > ChannelTimeout
      BY <2>1, <2>7, WaitingHasTime
    <3>2. ~r.late => r.lease > Left(r)
      BY <2>4, <3>1, LeaseNumbers DEF Left
    <3>3. ASSUME queue'.rows > 0, ~queue'.slow
          PROVE  queue'.rows <= Cardinality(Chances')
      <4>1. Cardinality(Chances) <= Cardinality(Chances') + 1
        BY <1>2, FillChances
      <4>2. IsFiniteSet(Chances') /\ Cardinality(Chances') \in Nat
        BY LeaseNumbers, FS_Subset, FS_CardinalityType DEF Chances
      <4>3. queue.rows <= Cardinality(Chances)
        BY <2>1, <2>2, <2>7, <3>3 DEF LeaseInv
      <4> QED BY <1>0, <2>2, <4>1, <4>2, <4>3, ChancesFinite
    <3> QED BY <2>5, <2>7, <3>2, <3>3 DEF LeaseInv
  <2> QED BY <1>0, <2>2, <2>5, <2>6, <2>7 DEF LeaseInv
<1>3. ASSUME NEW s \in Slots, JoinAttempt(s)
      PROVE  LeaseInv'
  <2>1. queue' = queue /\ slot' = [slot EXCEPT ![s] = IdleSlot]
    BY <1>3 DEF JoinAttempt
  <2>2. IdleSlot \in SlotRecord /\ ~IdleSlot.busy /\ Left(IdleSlot) = 0
    BY <1>0 DEF IdleSlot, SlotRecord, Left
  <2>3. /\ slot' \in [Slots -> SlotRecord] /\ slot'[s] = IdleSlot
        /\ \A t \in Slots \ {s} : slot'[t] = slot[t]
    BY <1>0, <2>1, <2>2
  <2>4. ~queue'.slow => ~Outlasting(slot')
    <3>1. ~queue.slow => ~Outlasting(slot)
      BY DEF LeaseInv
    <3> QED BY <2>1, <2>2, <2>3, <3>1 DEF Outlasting
  <2>5. ASSUME ChannelTimeout < LeaseFloor, queue.rows > 0, ~queue.slow
        PROVE  queue.rows <= Cardinality(Chances')
    <3>1. Chances \subseteq Chances'
      <4> SUFFICES ASSUME NEW c \in Chances PROVE c \in Chances'
        OBVIOUS
      <4>1. c \in Slots \X (0..(Waves - 1))
            /\ Elapsed + Left(slot[c[1]]) + c[2] * ChannelTimeout <= Waves * ChannelTimeout
        BY DEF Chances
      <4>2. Left(slot[c[1]]) \in 0..ChannelTimeout
        BY <1>0, <2>5, <4>1, LeftOfAttempt DEF LeaseInv
      <4>3. /\ Left(slot'[c[1]]) <= Left(slot[c[1]])
            /\ Left(slot'[c[1]]) \in Nat /\ Left(slot[c[1]]) \in Nat
        BY <2>2, <2>3, <4>1, <4>2, LeaseNumbers
      <4>4. Elapsed' = Elapsed /\ Elapsed \in Int
        BY <1>0, <2>1 DEF Elapsed
      <4>5. PICK b, d \in Nat : b = c[2] * ChannelTimeout /\ d = Waves * ChannelTimeout
        <5>1. c[2] \in Nat /\ ChannelTimeout \in Nat
          BY <4>1, LeaseNumbers
        <5> QED BY <5>1, LeaseNumbers
      <4>6. Elapsed' + Left(slot'[c[1]]) + b <= d
        BY <4>1, <4>3, <4>4, <4>5
      <4> QED BY <4>1, <4>5, <4>6 DEF Chances
    <3>2. Cardinality(Chances) <= Cardinality(Chances')
      <4>1. IsFiniteSet(Chances')
        BY LeaseNumbers, FS_Subset DEF Chances
      <4> QED BY <3>1, <4>1, FS_Subset
    <3>3. IsFiniteSet(Chances') /\ Cardinality(Chances') \in Nat
      BY LeaseNumbers, FS_Subset, FS_CardinalityType DEF Chances
    <3>4. queue.rows <= Cardinality(Chances)
      BY <2>5 DEF LeaseInv
    <3> QED BY <1>0, <3>2, <3>3, <3>4, ChancesFinite
  <2> QED BY <1>0, <2>1, <2>2, <2>3, <2>4, <2>5 DEF LeaseInv
<1>4. CASE LeaseTick
  <2>1. /\ \A s \in Slots : slot[s].busy => slot[s].age < AttemptSpan
        /\ queue' = [queue EXCEPT !.lease = Less(queue.lease),
                                  !.slow = queue.slow \/ Outlasting(slot')]
        /\ slot' = [s \in Slots |->
                      IF slot[s].busy
                      THEN [slot[s] EXCEPT !.age = slot[s].age + 1,
                                           !.lease = Less(slot[s].lease)]
                      ELSE slot[s]]
    BY <1>4 DEF LeaseTick
  <2>2. /\ queue' \in [rows : 0..BatchSize, lease : 0..LeaseSpan, slow : BOOLEAN]
        /\ queue'.rows = queue.rows /\ (~queue'.slow => ~queue.slow)
        /\ (~queue'.slow => ~Outlasting(slot'))
    <3>1. Less(queue.lease) \in 0..LeaseSpan
      BY <1>0 DEF Less
    <3>2. (queue.slow \/ Outlasting(slot')) \in BOOLEAN
      BY DEF Outlasting
    <3> QED BY <1>0, <2>1, <3>1, <3>2
  <2>3. ASSUME NEW s \in Slots
        PROVE  /\ slot'[s] \in SlotRecord
               /\ slot'[s].busy = slot[s].busy /\ slot'[s].late = slot[s].late
               /\ slot[s].busy => /\ slot'[s].age = slot[s].age + 1
                                  /\ slot'[s].lease = Less(slot[s].lease)
    <3>1. slot[s] \in SlotRecord
      BY <1>0
    <3>2. CASE slot[s].busy
      <4>1. PICK l \in 0..LeaseSpan, a \in 0..AttemptSpan :
              l = Less(slot[s].lease) /\ a = slot[s].age + 1
        <5>1. Less(slot[s].lease) \in 0..LeaseSpan
          BY <1>0, <3>1 DEF Less, SlotRecord
        <5>2. slot[s].age + 1 \in 0..AttemptSpan
          <6>1. PICK b \in 0..AttemptSpan : b = slot[s].age
            BY <3>1 DEF SlotRecord
          <6>2. b < AttemptSpan
            BY <2>1, <3>2, <6>1
          <6> QED BY <1>0, <6>1, <6>2
        <5> QED BY <5>1, <5>2
      <4>2. slot'[s] = [slot[s] EXCEPT !.age = a, !.lease = l]
        BY <2>1, <3>2, <4>1
      <4> QED BY <3>1, <4>1, <4>2 DEF SlotRecord
    <3>3. CASE ~slot[s].busy
      BY <2>1, <3>1, <3>3
    <3> QED BY <3>2, <3>3
  <2>4. slot' \in [Slots -> SlotRecord]
    <3>1. slot' = [s \in Slots |-> slot'[s]]
      BY <2>1
    <3> QED BY <2>3, <3>1
  <2>5. ASSUME ChannelTimeout < LeaseFloor, NEW s \in Slots,
               slot'[s].busy, ~slot'[s].late, slot'[s].age <= ChannelTimeout
        PROVE  slot'[s].lease > Left(slot'[s])
    <3>1. PICK l \in 0..LeaseSpan, a \in 0..AttemptSpan :
            l = slot[s].lease /\ a = slot[s].age
      BY <1>0 DEF SlotRecord
    <3>2. slot[s].busy /\ ~slot[s].late /\ slot'[s].age = a + 1
          /\ slot'[s].lease = Less(l)
      BY <2>3, <2>5, <3>1
    <3>3. a + 1 <= ChannelTimeout
      BY <2>5, <3>2
    <3>4. l > ChannelTimeout - a
      <4>1. a <= ChannelTimeout
        BY <1>0, <3>1, <3>3, LeaseNumbers
      <4> QED BY <2>5, <3>1, <3>2, <4>1 DEF LeaseInv, Left
    <3>5. Less(l) = l - 1
      BY <1>0, <3>1, <3>3, <3>4, LeaseNumbers DEF Less
    <3>6. Left(slot'[s]) = ChannelTimeout - (a + 1)
      BY <2>5, <3>2 DEF Left
    <3> QED BY <1>0, <3>1, <3>2, <3>4, <3>5, <3>6, LeaseNumbers
  <2>6. ASSUME ChannelTimeout < LeaseFloor, queue'.rows > 0, ~queue'.slow
        PROVE  queue'.rows <= Cardinality(Chances')
    <3>1. Chances' = Chances
      BY <1>4, <2>2, <2>6, TickChances
    <3> QED BY <2>2, <2>6, <3>1 DEF LeaseInv
  <2> QED BY <1>0, <2>2, <2>4, <2>5, <2>6 DEF LeaseInv
<1>5. CASE UNCHANGED leaseVars
  <2>1. queue' = queue /\ slot' = slot
    BY <1>5 DEF leaseVars
  <2>2. Chances' = Chances
    BY <2>1 DEF Chances, Elapsed, LeaseSpan
  <2> QED BY <1>0, <2>1, <2>2 DEF LeaseInv
<1> QED BY <1>1, <1>2, <1>3, <1>4, <1>5 DEF DeliveryLeaseNext

\* Nothing is claimed.
LEMMA LeaseInitInv == DeliveryLeaseInit => LeaseInv
<1> SUFFICES ASSUME DeliveryLeaseInit PROVE LeaseInv
  OBVIOUS
<1>1. IdleSlot \in SlotRecord /\ ~IdleSlot.busy
  BY LeaseNumbers DEF IdleSlot, SlotRecord
<1>2. queue = [rows |-> 0, lease |-> 0, slow |-> FALSE]
      /\ slot = [s \in Slots |-> IdleSlot]
  BY DEF DeliveryLeaseInit
<1> QED BY <1>1, <1>2, LeaseNumbers DEF LeaseInv, Outlasting

\* For any concurrency, number of waves and timeouts: with a timeout shorter
\* than the fixed part of the lease, a row outlives its lease, in the queue or
\* in a slot, only for an attempt that lasted longer than one request may
\* (claim_delivery_batch, run).
THEOREM LeaseCovers == DeliveryLeaseSpec => []LeaseCoversTheBatch
<1>1. DeliveryLeaseInit => LeaseInv
  BY LeaseInitInv
<1>2. LeaseInv /\ [DeliveryLeaseNext]_leaseVars => LeaseInv'
  BY LeaseStep
<1>3. LeaseInv => LeaseCoversTheBatch
  <2> SUFFICES ASSUME LeaseInv, ChannelTimeout < LeaseFloor
               PROVE  /\ queue.rows > 0 /\ ~queue.slow => queue.lease > 0
                      /\ \A s \in Slots :
                           slot[s].busy /\ ~slot[s].late
                             /\ slot[s].age <= ChannelTimeout => slot[s].lease > 0
    BY DEF LeaseCoversTheBatch
  <2>1. queue.rows > 0 /\ ~queue.slow => queue.lease > 0
    <3>1. queue.lease \in Nat /\ ChannelTimeout \in Nat \ {0}
      BY LeaseNumbers DEF LeaseInv
    <3> QED BY <3>1, WaitingHasTime
  <2>2. ASSUME NEW s \in Slots, slot[s].busy, ~slot[s].late,
               slot[s].age <= ChannelTimeout
        PROVE  slot[s].lease > 0
    <3>1. slot[s].lease > Left(slot[s])
      BY <2>2 DEF LeaseInv
    <3>2. slot[s].age \in Nat /\ slot[s].lease \in Nat
      BY LeaseNumbers DEF LeaseInv, SlotRecord
    <3>3. Left(slot[s]) = ChannelTimeout - slot[s].age
      BY <2>2 DEF Left
    <3> QED BY <2>2, <3>1, <3>2, <3>3, LeaseNumbers
  <2> QED BY <2>1, <2>2
<1> QED BY <1>1, <1>2, <1>3, PTL DEF DeliveryLeaseSpec

(***************************************************************************)
(* Turns in outbound recovery                                              *)
(***************************************************************************)
\* What a message i that is due has waited for, if every turn was short for it,
\* no longer than s: h is what it saw of a turn of a larger id, F are the
\* smaller ids that have had their turn since, which are settled or still put
\* off: they were finished no longer ago than the turns of the others and the
\* one that is on have lasted.
WaitsFor(i, s, h, F) ==
    /\ Short(i, s) /\ turn.time <= s /\ h <= s
    /\ overdue[i] <= h + s * Cardinality(F) + turn.time
    /\ turn.id > i => h = 0 /\ F = {}
    /\ turn.id \notin F
    /\ \A j \in F \cap unresolved :
         rest[j] + s * (Cardinality(F) - 1) + turn.time >= Deferral

WaitIsShared(i) ==
    \/ overdue[i] = 0
    \/ \E s \in 0..InspectTime, h \in 0..InspectTime, F \in SUBSET (1..(i - 1)) :
          WaitsFor(i, s, h, F)

ScheduleInv ==
    /\ rest \in [OutboundIds -> 0..Deferral]
    /\ unresolved \subseteq OutboundIds
    /\ turn \in [id : 0..Pending, time : 0..InspectTime]
    /\ overdue \in [OutboundIds -> Nat]
    /\ turn.id = 0 => turn.time = 0
    /\ turn.id # 0 => turn.id \in unresolved /\ rest[turn.id] = 0
    /\ \A i \in OutboundIds \ Due : overdue[i] = 0
    /\ crowded \subseteq Due
    /\ \A i \in Due : i \in crowded \/ WaitIsShared(i)

LEMMA ScheduleNumbers ==
    /\ Pending \in Nat /\ InspectTime \in Nat /\ Deferral \in Nat
    /\ Pending >= 1 /\ InspectTime >= 1 /\ Deferral >= 1
BY ScheduleAssumption DEF ScheduleAssumption

\* The smaller ids are counted.
LEMMA SmallerIds ==
    ASSUME NEW i \in OutboundIds, NEW F \in SUBSET (1..(i - 1))
    PROVE  /\ i \in Nat /\ i >= 1
           /\ IsFiniteSet(F) /\ Cardinality(F) \in Nat /\ Cardinality(F) <= i - 1
           /\ \A k \in (1..(i - 1)) \ F : /\ Cardinality(F) + 1 <= i - 1
                                          /\ Cardinality(F \cup {k}) = Cardinality(F) + 1
                                          /\ F \cup {k} \in SUBSET (1..(i - 1))
<1>1. i \in Nat /\ i >= 1
  BY ScheduleNumbers DEF OutboundIds
<1>2. PICK one \in Int, m \in Int : one = 1 /\ m = i - 1
  BY <1>1
<1>3. /\ IsFiniteSet(one..m)
      /\ Cardinality(one..m) = IF one > m THEN 0 ELSE m - one + 1
  BY <1>2, FS_Interval
<1>4. IsFiniteSet(1..(i - 1)) /\ Cardinality(1..(i - 1)) = i - 1
  BY <1>1, <1>2, <1>3
<1>5. PICK S : S = 1..(i - 1)
  OBVIOUS
<1>6. \A G \in SUBSET S : IsFiniteSet(G) /\ Cardinality(G) \in Nat /\ Cardinality(G) <= i - 1
  <2>1. IsFiniteSet(S) /\ Cardinality(S) = i - 1
    BY <1>4, <1>5
  <2>2. ASSUME NEW G \in SUBSET S
        PROVE  IsFiniteSet(G) /\ Cardinality(G) \in Nat /\ Cardinality(G) <= i - 1
    <3>1. IsFiniteSet(G) /\ Cardinality(G) <= Cardinality(S)
      BY <2>1, FS_Subset
    <3>2. Cardinality(G) \in Nat
      BY <3>1, FS_CardinalityType
    <3> QED BY <2>1, <3>1, <3>2
  <2> QED BY <2>2
<1>7. ASSUME NEW k \in S \ F
      PROVE  /\ Cardinality(F) + 1 <= i - 1
             /\ Cardinality(F \cup {k}) = Cardinality(F) + 1
             /\ F \cup {k} \in SUBSET S
  <2>1. F \cup {k} \in SUBSET S /\ IsFiniteSet(F) /\ Cardinality(F) \in Nat
    BY <1>5, <1>6, <1>7
  <2>2. Cardinality(F \cup {k}) = Cardinality(F) + 1
    BY <1>7, <2>1, FS_AddElement
  <2> QED BY <1>6, <2>1, <2>2
<1> QED BY <1>1, <1>5, <1>6, <1>7

\* Factors compare as their products do.
LEMMA Products ==
    ASSUME NEW a \in Nat, NEW b \in Nat, NEW c \in Nat, b <= c
    PROVE  /\ a * b \in Nat /\ a * b <= a * c /\ b * a <= c * a
           /\ a * (b + 1) = a * b + a
OBVIOUS

\* The wait is bounded.
LEMMA WaitIsBounded ==
    ASSUME ScheduleInv, NEW i \in Due, i \notin crowded
    PROVE  overdue[i] <= LongestWait(i)
<1> USE ScheduleNumbers
<1>1. /\ i \in OutboundIds /\ i \in Nat /\ i >= 1 /\ overdue[i] \in Nat
      /\ turn.time \in 0..InspectTime
  <2>1. i \in OutboundIds
    BY DEF ScheduleInv, Due
  <2> QED BY <2>1 DEF ScheduleInv, OutboundIds
<1>2. CASE overdue[i] = 0
  <2>1. i * InspectTime \in Nat
    BY <1>1
  <2> QED BY <1>2, <2>1 DEF LongestWait
<1>3. CASE overdue[i] # 0
  <2>1. PICK s \in 0..InspectTime, h \in 0..InspectTime, F \in SUBSET (1..(i - 1)) :
          WaitsFor(i, s, h, F)
    BY <1>3 DEF ScheduleInv, WaitIsShared
  <2>2. PICK n \in Nat : n = Cardinality(F) /\ n <= i - 1
    BY <1>1, SmallerIds
  <2>3. overdue[i] <= h + s * n + turn.time /\ h <= s /\ turn.time <= s
    BY <2>1, <2>2 DEF WaitsFor
  <2>4. turn.id = 0 => turn.time = 0
    BY DEF ScheduleInv
  <2>5. turn.id # 0 => (n + 1 <= i - 1 \/ (h = 0 /\ n = 0))
    <3> SUFFICES ASSUME turn.id # 0, ~(h = 0 /\ n = 0)
                 PROVE  n + 1 <= i - 1
      OBVIOUS
    <3>1. turn.id \in 1..Pending /\ turn.id # i
      BY DEF ScheduleInv, Due
    <3>2. ~(turn.id > i) /\ turn.id \notin F
      BY <2>1, <2>2, FS_EmptySet DEF WaitsFor
    <3>3. turn.id \in (1..(i - 1)) \ F
      BY <1>1, <3>1, <3>2
    <3> QED BY <1>1, <2>2, <3>3, SmallerIds
  <2>6. PICK a \in Nat, b \in Nat, p \in Nat, q \in Nat :
          /\ a = s * n /\ b = s * (i - 1) /\ p = i * s /\ q = i * InspectTime
    BY <1>1, <2>2
  <2>7. b + s = p /\ p <= q
    <3>1. PICK m \in Nat : m = i - 1 /\ i = m + 1
      BY <1>1
    <3>2. s * (m + 1) = s * m + s
      OBVIOUS
    <3>3. i * s = s * (m + 1) /\ i * s <= i * InspectTime
      BY <1>1, <3>1
    <3> QED BY <2>6, <3>1, <3>2, <3>3
  <2>8. a <= b
    BY <1>1, <2>2, <2>6, Products
  <2>9. n + 1 <= i - 1 => a + s <= b
    <3>1. s * (n + 1) = s * n + s
      BY <2>2
    <3>2. n + 1 <= i - 1 => s * (n + 1) <= s * (i - 1)
      BY <1>1, <2>2
    <3> QED BY <2>6, <3>1, <3>2
  <2>10. n = 0 => a = 0
    BY <2>6
  <2>11. overdue[i] <= q
    BY <1>1, <2>3, <2>4, <2>5, <2>6, <2>7, <2>8, <2>9, <2>10
  <2> QED BY <2>6, <2>11 DEF LongestWait
<1> QED BY <1>2, <1>3

\* A smaller id that has had its turn is not due while the turns are short.
LEMMA HadItsTurn ==
    ASSUME ScheduleInv, NEW i \in Due, turn.id = 0,
           NEW s \in 0..InspectTime, NEW h \in 0..InspectTime,
           NEW F \in SUBSET (1..(i - 1)), WaitsFor(i, s, h, F), NEW k \in F
    PROVE  k \notin Due
<1> USE ScheduleNumbers
<1> SUFFICES ASSUME k \in Due PROVE FALSE
  OBVIOUS
<1>1. i \in OutboundIds /\ i \in Nat /\ i >= 1
  BY DEF ScheduleInv, Due, OutboundIds
<1>2. PICK n \in Nat : n = Cardinality(F) /\ n <= i - 1
  BY <1>1, SmallerIds
<1>3. turn.time = 0 /\ rest[k] = 0 /\ k \in unresolved
  BY DEF ScheduleInv, Due
<1>4. s * (n - 1) >= Deferral
  <2>1. rest[k] + s * (n - 1) + turn.time >= Deferral
    BY <1>2, <1>3 DEF WaitsFor
  <2>2. s * (n - 1) \in Int
    BY <1>2
  <2> QED BY <1>3, <2>1, <2>2
<1>5. (i - 2) * s < Deferral
  BY DEF WaitsFor, Short
<1>6. (n - 1) * s <= (i - 2) * s
  BY <1>1, <1>2
<1>7. (n - 1) * s = s * (n - 1) /\ (n - 1) * s \in Int /\ (i - 2) * s \in Int
  BY <1>1, <1>2
<1> QED BY <1>4, <1>5, <1>6, <1>7

\* A turn that ends is one of a larger id, or one more of the smaller ids has
\* had its own.
LEMMA TurnCounts ==
    ASSUME ScheduleInv, NEW i \in Due, i \notin crowded, FinishTurn
    PROVE  WaitIsShared(i)'
<1> USE ScheduleNumbers
<1>1. PICK k : k = turn.id
  OBVIOUS
<1>2. /\ k # 0 /\ k \in unresolved /\ k \in OutboundIds /\ rest[k] = 0 /\ k # i
      /\ turn'.id = 0 /\ turn'.time = 0 /\ overdue' = overdue
      /\ turn.time \in 0..InspectTime
      /\ i \in OutboundIds /\ overdue[i] \in Nat
  <2>1. i \in OutboundIds
    BY DEF Due, ScheduleInv
  <2> QED BY <1>1, <2>1 DEF FinishTurn, ScheduleInv, NoTurn, Due
<1>3. /\ \A j \in OutboundIds \ {k} : rest'[j] = rest[j]
      /\ \A j \in unresolved' : j \in unresolved
      /\ k \notin unresolved' \/ rest'[k] = Deferral
  BY <1>1, <1>2 DEF FinishTurn, ScheduleInv
<1>4. CASE overdue[i] = 0
  BY <1>2, <1>4 DEF WaitIsShared
<1>5. CASE overdue[i] # 0
  <2>1. PICK s \in 0..InspectTime, h \in 0..InspectTime, F \in SUBSET (1..(i - 1)) :
          WaitsFor(i, s, h, F)
    BY <1>5 DEF ScheduleInv, WaitIsShared
  <2>2. PICK n \in Nat : n = Cardinality(F) /\ n <= i - 1
    BY <1>2, SmallerIds
  <2>3. PICK a \in Nat : a = s * n
    BY <2>2
  <2>4. /\ Short(i, s) /\ turn.time <= s /\ h <= s /\ overdue[i] <= h + a + turn.time
    BY <2>1, <2>2, <2>3 DEF WaitsFor
  <2>5. CASE k > i
    <3>1. h = 0 /\ F = {} /\ a = 0
      <4>1. h = 0 /\ F = {}
        BY <1>1, <2>1, <2>5 DEF WaitsFor
      <4>2. n = 0
        BY <2>2, <4>1, FS_EmptySet
      <4> QED BY <2>3, <4>1, <4>2
    <3>2. PICK g \in 0..InspectTime : g = overdue[i]
      BY <1>2, <2>4, <3>1
    <3>3. g <= s
      BY <1>2, <2>4, <3>1, <3>2
    <3>4. s * Cardinality({}) = 0
      BY FS_EmptySet
    <3>5. WaitsFor(i, s, g, {})'
      <4>1. overdue'[i] <= g + s * Cardinality({}) + turn'.time
        BY <1>2, <3>2, <3>4
      <4>2. i \in Nat
        BY <1>2 DEF OutboundIds
      <4>3. ~(turn'.id > i)
        BY <1>2, <4>2
      <4> QED BY <1>2, <2>4, <3>3, <4>1, <4>3 DEF WaitsFor, Short
    <3>6. {} \in SUBSET (1..(i - 1))
      OBVIOUS
    <3> QED BY <3>5, <3>6 DEF WaitIsShared
  <2>6. CASE ~(k > i)
    <3>1. k \in (1..(i - 1)) \ F
      <4>1. k \in 1..Pending /\ i \in 1..Pending
        BY <1>2 DEF OutboundIds
      <4>2. k \notin F
        BY <1>1, <2>1 DEF WaitsFor
      <4> QED BY <1>2, <2>6, <4>1, <4>2
    <3>2. PICK G : G = F \cup {k}
      OBVIOUS
    <3>3. G \in SUBSET (1..(i - 1)) /\ Cardinality(G) = n + 1
      BY <1>2, <2>2, <3>1, <3>2, SmallerIds
    <3>4. s * Cardinality(G) = a + s /\ s * (Cardinality(G) - 1) = a
      BY <2>2, <2>3, <3>3
    <3>5. overdue'[i] <= h + s * Cardinality(G) + turn'.time
      BY <1>2, <2>4, <3>4
    <3>6. ASSUME NEW j \in G \cap unresolved'
          PROVE  rest'[j] + s * (Cardinality(G) - 1) + turn'.time >= Deferral
      <4>1. CASE j = k
        <5>1. rest'[j] = Deferral
          BY <1>3, <3>6, <4>1
        <5> QED BY <1>2, <2>3, <3>4, <5>1
      <4>2. CASE j # k
        <5>1. j \in F \cap unresolved /\ j \in OutboundIds
          BY <1>3, <3>2, <3>6, <4>2 DEF ScheduleInv
        <5>2. rest[j] + s * (n - 1) + turn.time >= Deferral
          BY <2>1, <2>2, <5>1 DEF WaitsFor
        <5>3. rest'[j] = rest[j] /\ rest[j] \in Nat
          BY <1>3, <4>2, <5>1 DEF ScheduleInv
        <5>4. PICK b \in Int : b = s * (n - 1) /\ b + s = a
          BY <2>2, <2>3
        <5> QED BY <1>2, <2>3, <2>4, <3>4, <5>2, <5>3, <5>4
      <4> QED BY <4>1, <4>2
    <3>7. turn'.id \notin G /\ ~(turn'.id > i)
      <4>1. 0 \notin G
        BY <3>3
      <4>2. i \in Nat
        BY <1>2 DEF OutboundIds
      <4> QED BY <1>2, <4>1, <4>2
    <3>8. WaitsFor(i, s, h, G)'
      BY <1>2, <2>4, <3>5, <3>6, <3>7 DEF WaitsFor, Short
    <3> QED BY <3>3, <3>8 DEF WaitIsShared
  <2> QED BY <2>5, <2>6
<1> QED BY <1>4, <1>5

\* Time that passes in a turn that is short adds to the wait and to the turn.
LEMMA TickCounts ==
    ASSUME ScheduleInv, NEW i \in Due, i \notin crowded', ScheduleTick
    PROVE  WaitIsShared(i)'
<1> USE ScheduleNumbers
<1>1. /\ i \in OutboundIds /\ i \in Nat /\ overdue[i] \in Nat
      /\ turn.time \in 0..InspectTime /\ i \notin crowded
      /\ turn.id \in 0..Pending
  <2>1. i \in OutboundIds
    BY DEF ScheduleInv, Due
  <2> QED BY <2>1 DEF ScheduleInv, OutboundIds, ScheduleTick
<1>2. turn.id # 0 /\ turn.time < InspectTime /\ turn'.id = turn.id
      /\ turn'.time = turn.time + 1 /\ unresolved' = unresolved
  <2>1. turn.id # 0 /\ turn.time < InspectTime /\ unresolved' = unresolved
    BY DEF ScheduleTick
  <2>2. turn' = [turn EXCEPT !.time = turn.time + 1]
    BY <2>1 DEF ScheduleTick
  <2>3. turn \in [id : 0..Pending, time : 0..InspectTime]
    BY DEF ScheduleInv
  <2> QED BY <2>1, <2>2, <2>3
<1>3. Short(i, turn.time + 1)
  BY DEF ScheduleTick
<1>4. \A j \in OutboundIds : rest'[j] >= rest[j] - 1 /\ rest'[j] \in Nat
  <2>1. \A j \in OutboundIds : rest'[j] = IF rest[j] > 0 THEN rest[j] - 1 ELSE 0
    BY DEF ScheduleTick
  <2>2. \A j \in OutboundIds : rest[j] \in 0..Deferral
    BY DEF ScheduleInv
  <2> QED BY <2>1, <2>2
<1>5. overdue'[i] \in {overdue[i], overdue[i] + 1}
  BY <1>1 DEF ScheduleTick
<1>6. PICK t \in 0..InspectTime : t = turn.time + 1 /\ turn'.time = t
  BY <1>1, <1>2
<1>7. CASE overdue[i] = 0
  <2>1. t * Cardinality({}) = 0
    BY FS_EmptySet
  <2>2. overdue'[i] <= 0 + t * Cardinality({}) + turn'.time
    BY <1>1, <1>5, <1>6, <1>7, <2>1
  <2>3. WaitsFor(i, t, 0, {})'
    BY <1>3, <1>6, <2>2 DEF WaitsFor, Short
  <2>4. {} \in SUBSET (1..(i - 1)) /\ 0 \in 0..InspectTime
    OBVIOUS
  <2> QED BY <2>3, <2>4 DEF WaitIsShared
<1>8. CASE overdue[i] # 0
  <2>1. PICK s \in 0..InspectTime, h \in 0..InspectTime, F \in SUBSET (1..(i - 1)) :
          WaitsFor(i, s, h, F)
    BY <1>1, <1>8 DEF ScheduleInv, WaitIsShared
  <2>2. PICK n \in Nat : n = Cardinality(F) /\ n <= i - 1
    BY <1>1, SmallerIds
  <2>3. PICK z \in 0..InspectTime : z = (IF t <= s THEN s ELSE t)
    OBVIOUS
  <2>4. Short(i, z) /\ t <= z /\ h <= z /\ s <= z
    <3>1. Short(i, s) /\ Short(i, t) /\ h <= s
      BY <1>3, <1>6, <2>1 DEF WaitsFor
    <3> QED BY <2>3, <3>1
  <2>5. PICK a \in Nat, b \in Nat : a = s * n /\ b = z * n /\ a <= b
    <3>1. s * n \in Nat /\ z * n \in Nat
      BY <2>2
    <3>2. n * s <= n * z /\ s * n <= z * n
      BY <2>2, <2>4, Products
    <3> QED BY <3>1, <3>2
  <2>6. overdue'[i] <= h + z * Cardinality(F) + turn'.time
    <3>1. overdue[i] <= h + a + turn.time
      BY <2>1, <2>2, <2>5 DEF WaitsFor
    <3>2. overdue'[i] <= h + b + t
      BY <1>1, <1>5, <1>6, <2>5, <3>1
    <3> QED BY <1>6, <2>2, <2>5, <3>2
  <2>7. ASSUME NEW j \in F \cap unresolved'
        PROVE  rest'[j] + z * (Cardinality(F) - 1) + turn'.time >= Deferral
    <3>1. j \in F \cap unresolved /\ j \in OutboundIds
      BY <1>2, <2>7 DEF ScheduleInv
    <3>2. rest[j] + s * (n - 1) + turn.time >= Deferral
      BY <2>1, <2>2, <3>1 DEF WaitsFor
    <3>3. rest'[j] >= rest[j] - 1 /\ rest'[j] \in Nat /\ rest[j] \in Nat
      BY <1>4, <3>1 DEF ScheduleInv
    <3>4. n >= 1
      <4>1. F # {} /\ IsFiniteSet(F)
        BY <1>1, <3>1, SmallerIds
      <4>2. Cardinality(F) # 0
        BY <4>1, FS_EmptySet
      <4> QED BY <2>2, <4>2
    <3>5. PICK m \in Nat : m = n - 1
      BY <2>2, <3>4
    <3>6. PICK c \in Nat, d \in Nat : c = s * m /\ d = z * m /\ c <= d
      <4>1. s * m \in Nat /\ z * m \in Nat
        OBVIOUS
      <4>2. s * m <= z * m
        BY <2>4, Products
      <4> QED BY <4>1, <4>2
    <3>7. rest[j] + c + turn.time >= Deferral
      BY <3>2, <3>5, <3>6
    <3>8. rest'[j] + d + t >= Deferral
      BY <1>1, <1>6, <3>3, <3>6, <3>7
    <3>9. z * (Cardinality(F) - 1) = d
      BY <2>2, <3>5, <3>6
    <3> QED BY <1>6, <3>8, <3>9
  <2>8. turn'.id > i => h = 0 /\ F = {}
    BY <1>2, <2>1 DEF WaitsFor
  <2>9. turn'.id \notin F
    BY <1>2, <2>1 DEF WaitsFor
  <2>10. WaitsFor(i, z, h, F)'
    BY <1>6, <2>4, <2>6, <2>7, <2>8, <2>9 DEF WaitsFor, Short
  <2> QED BY <2>10 DEF WaitIsShared
<1> QED BY <1>7, <1>8

\* A claim takes the smallest id that is due, none that has had its turn.
LEMMA ClaimCounts ==
    ASSUME ScheduleInv, NEW i \in Due, i \notin crowded, NEW k \in Due, k # i,
           turn.id = 0, turn' = [id |-> k, time |-> 0], k <= i,
           overdue'[i] = overdue[i], UNCHANGED <<rest, unresolved>>
    PROVE  WaitIsShared(i)'
<1> USE ScheduleNumbers
<1>1. /\ turn'.id = k /\ turn'.time = 0 /\ turn.time = 0
      /\ i \in OutboundIds /\ i \in Nat /\ k \in Nat
  BY DEF ScheduleInv, Due, OutboundIds
<1>2. CASE overdue[i] = 0
  BY <1>2 DEF WaitIsShared
<1>3. CASE overdue[i] # 0
  <2>1. PICK s \in 0..InspectTime, h \in 0..InspectTime, F \in SUBSET (1..(i - 1)) :
          WaitsFor(i, s, h, F)
    BY <1>3 DEF ScheduleInv, WaitIsShared
  <2>2. k \notin F
    BY <2>1, HadItsTurn
  <2>3. Short(i, s) /\ turn'.time <= s /\ h <= s
    BY <1>1, <2>1 DEF WaitsFor
  <2>4. overdue'[i] <= h + s * Cardinality(F) + turn'.time
    BY <1>1, <2>1 DEF WaitsFor
  <2>5. \A j \in F \cap unresolved' :
          rest'[j] + s * (Cardinality(F) - 1) + turn'.time >= Deferral
    BY <1>1, <2>1 DEF WaitsFor
  <2>6. ~(turn'.id > i) /\ turn'.id \notin F
    BY <1>1, <2>2
  <2>7. WaitsFor(i, s, h, F)'
    BY <2>3, <2>4, <2>5, <2>6 DEF WaitsFor, Short
  <2> QED BY <2>7 DEF WaitIsShared
<1> QED BY <1>2, <1>3

\* Every step keeps this.
LEMMA ScheduleStep ==
    ASSUME ScheduleInv, [RecoveryScheduleNext]_scheduleVars
    PROVE  ScheduleInv'
<1> USE ScheduleNumbers
<1>1. CASE ClaimDue
  <2>1. PICK k \in Due : /\ turn.id = 0
                         /\ \A j \in Due : k <= j
                         /\ turn' = [id |-> k, time |-> 0]
                         /\ overdue' = [overdue EXCEPT ![k] = 0]
                         /\ crowded' = crowded \ {k}
                         /\ UNCHANGED <<rest, unresolved>>
    BY <1>1 DEF ClaimDue
  <2>2. k \in OutboundIds /\ k \in unresolved /\ rest[k] = 0 /\ k # 0
    BY <2>1 DEF ScheduleInv, Due, OutboundIds
  <2>3. Due' = Due \ {k}
    BY <2>1, <2>2 DEF Due, ScheduleInv, OutboundIds
  <2>4. /\ rest' \in [OutboundIds -> 0..Deferral]
        /\ unresolved' \subseteq OutboundIds
        /\ turn' \in [id : 0..Pending, time : 0..InspectTime]
        /\ overdue' \in [OutboundIds -> Nat]
    <3>1. turn' \in [id : 0..Pending, time : 0..InspectTime]
      BY <2>1, <2>2 DEF OutboundIds
    <3>2. overdue' \in [OutboundIds -> Nat]
      BY <2>1 DEF ScheduleInv
    <3> QED BY <2>1, <3>1, <3>2 DEF ScheduleInv
  <2>5. turn'.id = k /\ turn'.time = 0 /\ rest'[k] = 0 /\ k \in unresolved'
    BY <2>1, <2>2
  <2>6. ASSUME NEW j \in OutboundIds \ Due'
        PROVE  overdue'[j] = 0
    BY <2>1, <2>3, <2>6 DEF ScheduleInv
  <2>7. crowded' \subseteq Due'
    BY <2>1, <2>3 DEF ScheduleInv
  <2>8. ASSUME NEW i \in Due', i \notin crowded'
        PROVE  WaitIsShared(i)'
    <3>1. i \in Due /\ i # k /\ i \notin crowded /\ k <= i
      BY <2>1, <2>3, <2>8
    <3>2. overdue'[i] = overdue[i]
      BY <2>1, <3>1 DEF ScheduleInv, Due
    <3> QED BY <2>1, <3>1, <3>2, ClaimCounts
  <2> QED BY <2>4, <2>5, <2>6, <2>7, <2>8 DEF ScheduleInv
<1>2. CASE FinishTurn
  <2>1. PICK k : k = turn.id
    OBVIOUS
  <2>2. /\ k # 0 /\ k \in unresolved /\ k \in OutboundIds /\ rest[k] = 0
        /\ turn' = [id |-> 0, time |-> 0] /\ overdue' = overdue /\ crowded' = crowded
    BY <1>2, <2>1 DEF FinishTurn, ScheduleInv, NoTurn
  <2>3. \/ unresolved' = unresolved \ {k} /\ rest' = rest
        \/ rest' = [rest EXCEPT ![k] = Deferral] /\ unresolved' = unresolved
    BY <1>2, <2>1 DEF FinishTurn
  <2>4. /\ rest' \in [OutboundIds -> 0..Deferral]
        /\ unresolved' \subseteq OutboundIds
        /\ turn' \in [id : 0..Pending, time : 0..InspectTime]
        /\ overdue' \in [OutboundIds -> Nat]
    BY <2>2, <2>3 DEF ScheduleInv
  <2>5. Due' = Due
    <3>1. turn'.id = 0 /\ 0 \notin OutboundIds
      BY <2>2 DEF OutboundIds
    <3>2. CASE unresolved' = unresolved \ {k} /\ rest' = rest
      BY <2>1, <3>1, <3>2 DEF Due, ScheduleInv
    <3>3. CASE rest' = [rest EXCEPT ![k] = Deferral] /\ unresolved' = unresolved
      <4>1. rest'[k] # 0 /\ \A j \in OutboundIds \ {k} : rest'[j] = rest[j]
        BY <2>2, <3>3 DEF ScheduleInv
      <4> QED BY <2>1, <3>1, <3>3, <4>1 DEF Due, ScheduleInv
    <3> QED BY <2>3, <3>2, <3>3
  <2>6. ASSUME NEW i \in Due', i \notin crowded'
        PROVE  WaitIsShared(i)'
    BY <1>2, <2>2, <2>5, <2>6, TurnCounts
  <2> QED BY <2>2, <2>4, <2>5, <2>6 DEF ScheduleInv
<1>3. CASE ScheduleTick
  <2>1. /\ turn' = IF turn.id = 0 THEN turn ELSE [turn EXCEPT !.time = turn.time + 1]
        /\ turn.id = 0 => Due = {}
        /\ turn.id # 0 => turn.time < InspectTime
        /\ unresolved' = unresolved
        /\ crowded' = crowded \cup {i \in Due : ~Short(i, turn.time + 1)}
    BY <1>3 DEF ScheduleTick
  <2>2. /\ turn' \in [id : 0..Pending, time : 0..InspectTime]
        /\ turn'.id = turn.id
        /\ turn'.id = 0 => turn'.time = 0
    <3>1. turn \in [id : 0..Pending, time : 0..InspectTime] /\ (turn.id = 0 => turn.time = 0)
      BY DEF ScheduleInv
    <3>2. CASE turn.id = 0
      BY <2>1, <3>1, <3>2
    <3>3. CASE turn.id # 0
      <4>1. PICK t \in 0..InspectTime : t = turn.time + 1
        BY <2>1, <3>1, <3>3
      <4>2. turn' = [turn EXCEPT !.time = t]
        BY <2>1, <3>3, <4>1
      <4> QED BY <3>1, <3>3, <4>2
    <3> QED BY <3>2, <3>3
  <2>3. /\ rest' \in [OutboundIds -> 0..Deferral]
        /\ \A j \in OutboundIds : rest[j] = 0 => rest'[j] = 0
    <3>1. rest' = [j \in OutboundIds |-> IF rest[j] > 0 THEN rest[j] - 1 ELSE 0]
      BY <1>3 DEF ScheduleTick
    <3>2. \A j \in OutboundIds : rest[j] \in 0..Deferral
      BY DEF ScheduleInv
    <3> QED BY <3>1, <3>2
  <2>4. /\ overdue' \in [OutboundIds -> Nat]
        /\ \A j \in OutboundIds \ Due : overdue'[j] = overdue[j]
    <3>1. overdue' = [j \in OutboundIds |->
                        IF j \in Due /\ overdue[j] <= LongestWait(Pending)
                        THEN overdue[j] + 1 ELSE overdue[j]]
      BY <1>3 DEF ScheduleTick
    <3>2. \A j \in OutboundIds : overdue[j] \in Nat
      BY DEF ScheduleInv
    <3> QED BY <3>1, <3>2
  <2>5. Due \subseteq Due' /\ Due' \subseteq OutboundIds
    BY <2>1, <2>2, <2>3 DEF Due, ScheduleInv
  <2>6. ASSUME NEW j \in OutboundIds \ Due'
        PROVE  overdue'[j] = 0
    BY <2>4, <2>5, <2>6 DEF ScheduleInv
  <2>7. crowded' \subseteq Due'
    BY <2>1, <2>5 DEF ScheduleInv
  <2>8. ASSUME NEW i \in Due', i \notin crowded'
        PROVE  WaitIsShared(i)'
    <3>1. CASE i \in Due
      BY <1>3, <2>8, <3>1, TickCounts
    <3>2. CASE i \notin Due
      <4>1. overdue'[i] = 0
        BY <2>4, <2>5, <2>8, <3>2 DEF ScheduleInv
      <4> QED BY <4>1 DEF WaitIsShared
    <3> QED BY <3>1, <3>2
  <2>9. turn'.id # 0 => turn'.id \in unresolved' /\ rest'[turn'.id] = 0
    BY <2>1, <2>2, <2>3 DEF ScheduleInv
  <2> QED BY <2>1, <2>2, <2>3, <2>4, <2>6, <2>7, <2>8, <2>9 DEF ScheduleInv
<1>4. CASE UNCHANGED scheduleVars
  BY <1>4 DEF ScheduleInv, scheduleVars, Due, WaitIsShared, WaitsFor
<1> QED BY <1>1, <1>2, <1>3, <1>4 DEF RecoveryScheduleNext

LEMMA ScheduleInitInv == RecoveryScheduleInit => ScheduleInv
<1> USE ScheduleNumbers
<1> SUFFICES ASSUME RecoveryScheduleInit PROVE ScheduleInv
  OBVIOUS
<1>1. /\ rest = [i \in OutboundIds |-> 0] /\ unresolved = OutboundIds
      /\ turn = [id |-> 0, time |-> 0] /\ overdue = [i \in OutboundIds |-> 0]
      /\ crowded = {}
  BY DEF RecoveryScheduleInit, NoTurn
<1>2. turn \in [id : 0..Pending, time : 0..InspectTime] /\ turn.id = 0 /\ turn.time = 0
  BY <1>1
<1>3. rest \in [OutboundIds -> 0..Deferral] /\ overdue \in [OutboundIds -> Nat]
  BY <1>1
<1>4. \A i \in OutboundIds : overdue[i] = 0
  BY <1>1
<1>5. \A i \in Due : WaitIsShared(i)
  BY <1>1, <1>4 DEF WaitIsShared, Due
<1> QED BY <1>1, <1>2, <1>3, <1>4, <1>5 DEF ScheduleInv

\* A due message gets its turn within as many longest turns as its place among
\* the unresolved ones, for any number of them and any times, unless a turn
\* that it waits for is not short for it (run_outbound_worker,
\* claim_due_outbound).
THEOREM TurnsComeRound == RecoveryScheduleSpec => []EveryoneGetsATurn
<1>1. ScheduleInv => EveryoneGetsATurn
  <2> USE ScheduleNumbers
  <2> SUFFICES ASSUME ScheduleInv, NEW i \in unresolved, i \notin crowded
               PROVE  ~(overdue[i] > LongestWait(i))
    BY DEF EveryoneGetsATurn
  <2>1. i \in OutboundIds /\ i \in Nat /\ overdue[i] \in Nat
    BY DEF ScheduleInv, OutboundIds
  <2>2. PICK w \in Nat : w = LongestWait(i)
    BY <2>1 DEF LongestWait
  <2>3. CASE i \in Due
    BY <2>1, <2>2, <2>3, WaitIsBounded
  <2>4. CASE i \notin Due
    <3>1. overdue[i] = 0
      BY <2>1, <2>4 DEF ScheduleInv
    <3> QED BY <2>2, <3>1
  <2> QED BY <2>3, <2>4
<1> QED BY <1>1, ScheduleInitInv, ScheduleStep, PTL DEF RecoveryScheduleSpec

(***************************************************************************)
(* Accepted content                                                        *)
(***************************************************************************)
\* What is called accepted is valid.
ConfigInv ==
    /\ configFile \in Configs \cup {Unreadable}
    /\ accepted \in BOOLEAN
    /\ accepted => ValidConfig(configFile)

\* The file that says nothing is none of the others.
LEMMA UnreadableIsNone == \A c \in Configs : c # Unreadable
BY DEF Configs, Unreadable

\* One fact of a configuration is changed.
LEMMA FactChanges ==
    ASSUME NEW c \in Configs
    PROVE  /\ \A v \in BOOLEAN :
                /\ [c EXCEPT !.modemPath = v] \in Configs
                /\ [c EXCEPT !.webhooks = v] \in Configs
                /\ [c EXCEPT !.legacyShell = v] \in Configs
                /\ [c EXCEPT !.ipv6 = v] \in Configs
                /\ [c EXCEPT !.api = v] \in Configs
                /\ [c EXCEPT !.password = v] \in Configs
                /\ [c EXCEPT !.port = v] \in Configs
           /\ \A d \in Databases : [c EXCEPT !.database = d] \in Configs
           /\ \A r \in ProfileRefs : [c EXCEPT !.enabled = r] \in Configs
           /\ \A b \in Binds : [c EXCEPT !.bind = b] \in Configs
           /\ \A n \in {0, 2, 17} : [c EXCEPT !.concurrency = n] \in Configs
           /\ \A n \in {0, 10, 60} : [c EXCEPT !.connect = n] \in Configs
           /\ \A n \in {0, 30} : [c EXCEPT !.request = n] \in Configs
           /\ \A k \in {"off", "bounded", "unbounded"} :
                [c EXCEPT !.retention = k] \in Configs
<1>1. /\ \A v \in BOOLEAN :
           /\ [c EXCEPT !.modemPath = v] \in Configs
           /\ [c EXCEPT !.webhooks = v] \in Configs
           /\ [c EXCEPT !.legacyShell = v] \in Configs
           /\ [c EXCEPT !.ipv6 = v] \in Configs
  BY DEF Configs
<1>2. /\ \A v \in BOOLEAN :
           /\ [c EXCEPT !.api = v] \in Configs
           /\ [c EXCEPT !.password = v] \in Configs
           /\ [c EXCEPT !.port = v] \in Configs
  BY DEF Configs
<1>3. /\ \A r \in ProfileRefs : [c EXCEPT !.enabled = r] \in Configs
      /\ \A b \in Binds : [c EXCEPT !.bind = b] \in Configs
      /\ \A d \in Databases : [c EXCEPT !.database = d] \in Configs
  BY DEF Configs
<1>4. /\ \A n \in {0, 2, 17} : [c EXCEPT !.concurrency = n] \in Configs
      /\ \A n \in {0, 10, 60} : [c EXCEPT !.connect = n] \in Configs
      /\ \A n \in {0, 30} : [c EXCEPT !.request = n] \in Configs
      /\ \A k \in {"off", "bounded", "unbounded"} :
           [c EXCEPT !.retention = k] \in Configs
  BY DEF Configs
<1> QED BY <1>1, <1>2, <1>3, <1>4

\* What an editor or the wizard makes of a configuration is one.
LEMMA EditedConfigs ==
    ASSUME NEW c \in Configs, NEW e \in Edited(c)
    PROVE  e \in Configs \cup {Unreadable}
<1>1. CASE \E v \in BOOLEAN, f \in {"modemPath", "webhooks", "legacyShell",
                                     "ipv6", "api", "password"} :
             e = [c EXCEPT ![f] = v]
  <2>1. PICK v \in BOOLEAN, f \in {"modemPath", "webhooks", "legacyShell",
                                   "ipv6", "api", "password"} :
               e = [c EXCEPT ![f] = v]
    BY <1>1
  <2>2. CASE f \in {"modemPath", "webhooks"}
    BY <2>1, <2>2, FactChanges
  <2>3. CASE f \in {"legacyShell", "ipv6"}
    BY <2>1, <2>3, FactChanges
  <2>4. CASE f \in {"api", "password"}
    BY <2>1, <2>4, FactChanges
  <2> QED BY <2>1, <2>2, <2>3, <2>4
<1>2. CASE \/ \E r \in ProfileRefs : e = [c EXCEPT !.enabled = r]
           \/ \E b \in Binds : e = [c EXCEPT !.bind = b]
           \/ \E d \in Databases : e = [c EXCEPT !.database = d]
  BY <1>2, FactChanges
<1>3. CASE \/ \E n \in {0, 17} : e = [c EXCEPT !.concurrency = n]
           \/ \E n \in {0, 60} : e = [c EXCEPT !.connect = n]
  <2>1. /\ \A n \in {0, 17} : [c EXCEPT !.concurrency = n] \in Configs
        /\ \A n \in {0, 60} : [c EXCEPT !.connect = n] \in Configs
    BY DEF Configs
  <2> QED BY <1>3, <2>1
<1>4. CASE e \in {[c EXCEPT !.request = 0], [c EXCEPT !.port = FALSE],
                  [c EXCEPT !.retention = "unbounded"],
                  [c EXCEPT !.retention = "bounded"], Unreadable}
  <2>1. /\ [c EXCEPT !.request = 0] \in Configs
        /\ [c EXCEPT !.port = FALSE] \in Configs
    BY FactChanges
  <2>2. /\ [c EXCEPT !.retention = "unbounded"] \in Configs
        /\ [c EXCEPT !.retention = "bounded"] \in Configs
    BY FactChanges
  <2> QED BY <1>4, <2>1, <2>2
<1> QED BY <1>1, <1>2, <1>3, <1>4 DEF Edited

\* The answers of the wizard fit every configuration it may begin from.
LEMMA WizardConfigs ==
    ASSUME NEW old \in Configs, NEW a \in WizardInput
    PROVE  WithAnswers(old, a) \in Configs
<1>1. PICK c : c = WithAnswers(old, a)
  OBVIOUS
<1>2. /\ c.modemPath = a.modem /\ c.api = a.api
      /\ c.password = IF a.api THEN a.password ELSE old.password
      /\ c.bind = IF a.api THEN a.bind ELSE old.bind
      /\ c.ipv6 = IF a.api THEN a.ipv6 ELSE old.ipv6
      /\ c.port = IF a.api THEN a.port ELSE old.port
      /\ c.database = IF a.api THEN a.database ELSE old.database
      /\ c.enabled = IF Parses(old) /\ a.channel # "none"
                     THEN a.channel ELSE old.enabled
  BY <1>1 DEF WithAnswers, Configs
<1>3. /\ c.modemPath \in BOOLEAN /\ c.api \in BOOLEAN /\ c.password \in BOOLEAN
      /\ c.ipv6 \in BOOLEAN /\ c.port \in BOOLEAN
  BY <1>2 DEF Configs, WizardInput
<1>4. c.bind \in Binds /\ c.enabled \in ProfileRefs /\ c.database \in Databases
  BY <1>2 DEF Configs, WizardInput, ProfileRefs
<1>5. c.concurrency = old.concurrency /\ c.webhooks = old.webhooks
  BY <1>1 DEF WithAnswers, Configs
<1>6. c.legacyShell = old.legacyShell /\ c.connect = old.connect
  BY <1>1 DEF WithAnswers, Configs
<1>7. c.request = old.request /\ c.retention = old.retention
  BY <1>1 DEF WithAnswers, Configs
<1>8. PICK d : d = [modemPath |-> c.modemPath, enabled |-> c.enabled,
                    concurrency |-> old.concurrency, api |-> c.api,
                    password |-> c.password, bind |-> c.bind, ipv6 |-> c.ipv6,
                    port |-> c.port, database |-> c.database,
                    webhooks |-> old.webhooks,
                    legacyShell |-> old.legacyShell, connect |-> old.connect,
                    request |-> old.request, retention |-> old.retention]
  OBVIOUS
<1>9. d \in Configs
  BY <1>3, <1>4, <1>8 DEF Configs
<1>10. c = d
  <2>1. PICK K : K = {"modemPath", "enabled", "concurrency", "api", "password",
                      "bind", "ipv6", "port", "database", "webhooks", "legacyShell",
                      "connect", "request", "retention"}
    OBVIOUS
  <2>2. DOMAIN old = K /\ old = [k \in K |-> old[k]]
    BY <2>1 DEF Configs
  <2>3. DOMAIN c = K /\ c = [k \in K |-> c[k]]
    <3>1. PICK x : x = [old EXCEPT !.modemPath = c.modemPath, !.api = c.api,
                          !.password = c.password, !.bind = c.bind, !.ipv6 = c.ipv6,
                          !.port = c.port, !.database = c.database, !.enabled = c.enabled]
      OBVIOUS
    <3>2. x = c
      BY <1>1, <1>2, <3>1 DEF WithAnswers
    <3> QED BY <2>2, <3>1, <3>2
  <2>4. DOMAIN d = K /\ d = [k \in K |-> d[k]]
    BY <1>8, <2>1
  <2>5. \A k \in K : c[k] = d[k]
    BY <1>5, <1>6, <1>7, <1>8, <2>1
  <2> QED BY <2>3, <2>4, <2>5
<1> QED BY <1>1, <1>9, <1>10

\* The content that the wizard falls back to is a configuration.
LEMMA DefaultIsConfig == DefaultConfig \in Configs
BY DEF DefaultConfig, Configs, ProfileRefs, Binds, Ipv4Binds, Databases

\* At the beginning nothing is called accepted.
LEMMA ConfigInitInv == ConfigurationInit => ConfigInv
BY DefaultIsConfig DEF ConfigurationInit, ConfigInv

\* An editor withdraws the verdict; the wizard and the check call accepted what
\* they found valid.
LEMMA ConfigStep ==
    ASSUME ConfigInv, [ConfigurationNext]_configVars
    PROVE  ConfigInv'
<1>1. CASE EditFile
  <2>1. PICK c \in Edited(configFile) : configFile' = c
    BY <1>1 DEF EditFile, Rewrite
  <2>2. configFile \in Configs
    BY <1>1 DEF EditFile, ConfigInv
  <2> QED BY <1>1, <2>1, <2>2, EditedConfigs DEF EditFile, ConfigInv
<1>2. CASE RunWizard
  <2>1. PICK old \in {configFile, DefaultConfig} \ {Unreadable}, a \in WizardInput :
          /\ PassesValidate(WithAnswers(old, a))
          /\ configFile' = WithAnswers(old, a)
    BY <1>2 DEF RunWizard, Rewrite
  <2>2. old \in Configs
    BY <2>1, DefaultIsConfig DEF ConfigInv
  <2>3. configFile' \in Configs /\ PassesValidate(configFile')
    BY <2>1, <2>2, WizardConfigs
  <2>4. ValidConfig(configFile')
    BY <2>3, UnreadableIsNone DEF ValidConfig
  <2> QED BY <1>2, <2>3, <2>4 DEF RunWizard, ConfigInv, ValidConfig
<1>3. CASE CheckConfig
  <2>1. ValidConfig(configFile) \in BOOLEAN
    BY DEF ValidConfig, PassesValidate
  <2> QED BY <1>3, <2>1 DEF CheckConfig, ConfigInv, ValidConfig
<1>4. CASE RunForwarding
  BY <1>4 DEF RunForwarding, ConfigInv, ValidConfig
<1>5. CASE UNCHANGED configVars
  BY <1>5 DEF configVars, ConfigInv, ValidConfig
<1> QED BY <1>1, <1>2, <1>3, <1>4, <1>5 DEF ConfigurationNext

\* What an end and a start say.
LEMMA AttemptOutcomes ==
    /\ \A o : Ended(o).outcome = o /\ Ended(o).families = {}
    /\ \A f : Listens(f).outcome = "runs" /\ Listens(f).families = f
BY DEF Ended, Listens

\* The families that an API with IPv6 listens on.
LEMMA FamiliesServed ==
    ASSUME NEW c, c.ipv6, WantsCompanion(c) => HasNamesake(c.bind),
           NEW f \in PrimaryFamilies(c)
    PROVE  f \cup CompanionFamilies(c) = IF c.bind = "ipv6" THEN {6} ELSE {4, 6}
<1>1. CASE c.bind = "ipv6"
  <2>1. f = {6} /\ CompanionFamilies(c) = {}
    BY <1>1 DEF PrimaryFamilies, CompanionFamilies, WantsCompanion
  <2> QED BY <1>1, <2>1
<1>2. CASE c.bind # "ipv6"
  <2>1. HasNamesake(c.bind) /\ CompanionFamilies(c) = {6}
    BY <1>2 DEF CompanionFamilies, WantsCompanion
  <2>2. f = {4} \/ f = {6}
    BY DEF PrimaryFamilies
  <2>3. c.bind # "hostname"
    BY <2>1 DEF HasNamesake
  <2>4. f = {4}
    BY <1>2, <2>3 DEF PrimaryFamilies
  <2> QED BY <1>2, <2>1, <2>4
<1> QED BY <1>1, <1>2

\* The addresses that fail are those for which the API finds no listener.
LEMMA AddressesFail ==
    ASSUME NEW c \in Configs, ValidConfig(c), c.api
    PROVE  AddressFails(c) <=> \/ c.bind = "unusable"
                               \/ WantsCompanion(c) /\ ~HasNamesake(c.bind)
<1>1. c.bind # "blank"
  BY DEF ValidConfig, PassesValidate
<1>2. c.bind \in {"any4", "loopback4", "specific4", "blank", "localhost",
                 "ipv6", "hostname", "unusable"}
  BY DEF Configs, Binds, Ipv4Binds
<1> QED BY <1>1, <1>2 DEF AddressFails, WantsCompanion, HasNamesake

\* Only a start changes what runs, and it goes by the file.
LEMMA StartsRight ==
    ASSUME ConfigInv, [ConfigurationNext]_configVars, Starts
    PROVE  AcceptedStarts /\ Ipv6IsServed
<1>1. RunForwarding
  BY DEF ConfigurationNext, EditFile, RunWizard, CheckConfig, Rewrite, Starts, configVars
<1>2. PICK c : c = configFile
  OBVIOUS
<1>3. ValidConfig(c) => EnabledProfiles(c) /\ c \in Configs
  BY <1>2 DEF ConfigInv, ValidConfig, PassesValidate
<1>4. accepted => ValidConfig(c)
  BY <1>2 DEF ConfigInv
<1>5. CASE ~ValidConfig(c) \/ c.database # "usable"
  <2>1. service' = Ended("refused")
    BY <1>1, <1>2, <1>5 DEF RunForwarding
  <2> QED BY <1>2, <1>4, <1>5, <2>1, AttemptOutcomes DEF AcceptedStarts, Ipv6IsServed
<1>6. CASE ValidConfig(c) /\ c.database = "usable" /\ ~c.api
  <2>1. service' = Listens({})
    BY <1>1, <1>2, <1>3, <1>6 DEF RunForwarding
  <2>2. ~AddressFails(c)
    BY <1>6 DEF AddressFails
  <2> QED BY <1>2, <1>6, <2>1, <2>2, AttemptOutcomes DEF AcceptedStarts, Ipv6IsServed
<1>7. CASE ValidConfig(c) /\ c.database = "usable" /\ c.api
  <2>1. service' \in ServeApi(c)
    BY <1>1, <1>2, <1>3, <1>7 DEF RunForwarding
  <2>2. CASE AddressFails(c)
    <3>1. service' = Ended("no listener")
      BY <1>3, <1>7, <2>1, <2>2, AddressesFail DEF ServeApi
    <3> QED BY <1>2, <1>7, <2>2, <3>1, AttemptOutcomes DEF AcceptedStarts, Ipv6IsServed
  <2>3. CASE ~AddressFails(c)
    <3>1. WantsCompanion(c) => HasNamesake(c.bind)
      BY <1>3, <1>7, <2>3, AddressesFail
    <3>2. PICK f \in PrimaryFamilies(c) :
                 service' = Listens(f \cup CompanionFamilies(c))
      BY <1>3, <1>7, <2>1, <2>3, AddressesFail DEF ServeApi
    <3>3. ASSUME c.ipv6
          PROVE  f \cup CompanionFamilies(c) = IF c.bind = "ipv6" THEN {6} ELSE {4, 6}
      BY <3>1, <3>2, <3>3, FamiliesServed
    <3>4. service'.outcome = "runs" /\ service'.families = f \cup CompanionFamilies(c)
      BY <3>2, AttemptOutcomes
    <3>5. AcceptedStarts
      BY <1>2, <1>7, <2>3, <3>4 DEF AcceptedStarts
    <3>6. Ipv6IsServed
      BY <1>2, <3>3, <3>4 DEF Ipv6IsServed
    <3> QED BY <3>5, <3>6
  <2> QED BY <2>2, <2>3
<1> QED BY <1>5, <1>6, <1>7

\* Whatever the file went through, of the content that the wizard or the check
\* accepted a start refuses what has an unusable database, finds no listener for
\* what has an address that fails, and runs the rest; and one that asks for IPv6
\* has it served (validate, run_forwarding, serve).
THEOREM AcceptedContentRuns == ConfigurationSpec => AcceptedRuns
<1>1. ConfigInv /\ [ConfigurationNext]_configVars
        => [AcceptedStarts /\ Ipv6IsServed]_configVars
  <2> SUFFICES ASSUME ConfigInv, [ConfigurationNext]_configVars
               PROVE  AcceptedStarts /\ Ipv6IsServed
    OBVIOUS
  <2>1. CASE Starts
    BY <2>1, StartsRight
  <2>2. CASE ~Starts
    BY <2>2 DEF AcceptedStarts, Ipv6IsServed
  <2> QED BY <2>1, <2>2
<1> QED BY <1>1, ConfigInitInv, ConfigStep, PTL DEF ConfigurationSpec, AcceptedRuns

(***************************************************************************)
(* Failed logins                                                           *)
(*                                                                         *)
(* An entry of the map stands for a window: it counts the guesses from one *)
(* that began it, its times are stamps, which lag behind the guesses by no *)
(* more than a call is held up, and of the guesses before it not so many   *)
(* are left within reach that both together exceed the limit.              *)
(***************************************************************************)
\* The guesses of one client that fell in a span of time.
In(g, times) == {i \in DOMAIN g : g[i] \in times}

\* No stretch as long as the sure part of a window holds too many.
GuessesFew(g) ==
    \A from \in 0..Horizon :
       Cardinality(In(g, from..(from + SureWindow - 1))) <= 2 * MaxFailures - 2

EntryRecord == [start: Int, count: Int, lockedUntil: Int]

\* The guesses before the k-th that fell after a time.
PlacesBefore(g, k, time) == {i \in DOMAIN g : i < k /\ g[i] > time}

\* What the entry e of a client says of its guesses g, if the k-th began it.
WindowedBy(e, g, k) ==
    /\ e.count = Len(g) - k + 1
    /\ 0 <= e.start /\ e.start <= g[k] /\ g[k] <= e.start + MaxStall
    /\ Cardinality(PlacesBefore(g, k, g[k] - SureWindow)) <= MaxFailures - 2
    /\ e.count < MaxFailures => e.lockedUntil = Unlocked
    /\ e.count >= MaxFailures =>
         /\ e.lockedUntil - Window <= g[Len(g)]
         /\ g[Len(g)] <= e.lockedUntil - Window + MaxStall
         /\ e.lockedUntil - Window - e.start < Window

\* A client without an entry may begin a window.
Rested(g, n) ==
    Cardinality(PlacesBefore(g, Len(g) + 1, n - SureWindow)) <= MaxFailures - 2

\* The guesses of a client come in the order of time.
InOrder(g) == \A i, j \in DOMAIN g : i <= j => g[i] <= g[j]

\* The entry and the guesses of one client fit.
ClientOK(e, g, n) ==
    /\ e \in EntryRecord /\ g \in Seq(0..n) /\ InOrder(g)
    /\ GuessesFew(g)
    /\ e = NoEntry => Rested(g, n)
    /\ e # NoEntry => \E k \in DOMAIN g : WindowedBy(e, g, k)

\* They do for every client, and no call is held up too long.
LimiterInv ==
    /\ now \in 0..Horizon
    /\ stamp \in [Logins -> NotRead..now]
    /\ \A a \in Logins : stamp[a] # NotRead => now - stamp[a] <= MaxStall
    /\ failures = [c \in Clients |-> failures[c]]
    /\ guesses = [c \in Clients |-> guesses[c]]
    /\ \A c \in Clients : ClientOK(failures[c], guesses[c], now)

\* The numbers.
LEMMA LimiterNumbers ==
    /\ MaxFailures \in Nat /\ MaxFailures >= 2
    /\ Window \in Nat /\ Window >= 1
    /\ MaxStall \in Nat /\ SureWindow = Window - MaxStall /\ SureWindow \in Int
    /\ Horizon \in Nat /\ Unlocked = -1 /\ NotRead = -1
BY LoginLimiterAssumption DEF LoginLimiterAssumption, Unlocked, NotRead, SureWindow

\* Guesses are finitely many.
LEMMA PlacesFinite ==
    ASSUME NEW S, NEW g \in Seq(S), NEW I, I \subseteq DOMAIN g
    PROVE  IsFiniteSet(I) /\ Cardinality(I) \in Nat
<1>1. PICK n \in Nat : n = Len(g) /\ DOMAIN g = 1..n
  OBVIOUS
<1>2. PICK one \in Int : one = 1
  OBVIOUS
<1>3. IsFiniteSet(one..n)
  BY FS_Interval
<1>4. I \in SUBSET (1..n)
  BY <1>1
<1>5. IsFiniteSet(I)
  BY <1>2, <1>3, <1>4, FS_Subset
<1> QED BY <1>5, FS_CardinalityType

\* Fewer places, or places out of two sets.
LEMMA PlacesWithin ==
    ASSUME NEW S, NEW g \in Seq(S), NEW J, J \subseteq DOMAIN g,
           NEW I, I \subseteq J
    PROVE  Cardinality(I) <= Cardinality(J)
<1>1. I \in SUBSET J
  OBVIOUS
<1> QED BY <1>1, PlacesFinite, FS_Subset

LEMMA PlacesSplit ==
    ASSUME NEW S, NEW g \in Seq(S), NEW I, I \subseteq DOMAIN g,
           NEW u, u \subseteq DOMAIN g, NEW v, v \subseteq DOMAIN g,
           I \subseteq u \cup v
    PROVE  Cardinality(I) <= Cardinality(u) + Cardinality(v)
<1>1. IsFiniteSet(u) /\ IsFiniteSet(v)
  BY PlacesFinite
<1>2. /\ IsFiniteSet(u \cup v)
      /\ Cardinality(u \cup v) = Cardinality(u) + Cardinality(v) - Cardinality(u \cap v)
  BY <1>1, FS_Union
<1>3. u \cap v \subseteq DOMAIN g
  OBVIOUS
<1>4. /\ Cardinality(u) \in Nat /\ Cardinality(v) \in Nat
      /\ Cardinality(u \cap v) \in Nat /\ Cardinality(I) \in Nat
  BY <1>3, PlacesFinite
<1>5. I \in SUBSET (u \cup v)
  OBVIOUS
<1>6. Cardinality(I) <= Cardinality(u \cup v)
  BY <1>2, <1>5, FS_Subset
<1> QED BY <1>2, <1>4, <1>6

\* How many places there are from k on.
LEMMA PlacesFrom ==
    ASSUME NEW n \in Nat, NEW k \in 1..n
    PROVE  Cardinality(k..n) = n - k + 1
<1>1. k \in Int /\ n \in Int /\ k <= n
  OBVIOUS
<1> QED BY <1>1, FS_Interval

\* One guess more.
Extended(g, n, h) ==
    /\ h \in Seq(0..n) /\ InOrder(h) /\ Len(g) \in Nat
    /\ Len(h) = Len(g) + 1 /\ DOMAIN h = 1..(Len(g) + 1)
    /\ DOMAIN g = 1..Len(g)
    /\ h[Len(g) + 1] = n /\ \A i \in DOMAIN g : h[i] = g[i] /\ g[i] \in 0..n

LEMMA OneMoreGuess ==
    ASSUME NEW n \in Nat, NEW g \in Seq(0..n), InOrder(g),
           NEW h, h = Append(g, n)
    PROVE  Extended(g, n, h)
<1>1. /\ h \in Seq(0..n) /\ Len(g) \in Nat /\ Len(h) = Len(g) + 1
      /\ DOMAIN h = 1..(Len(g) + 1) /\ DOMAIN g = 1..Len(g)
      /\ h[Len(g) + 1] = n /\ \A i \in DOMAIN g : h[i] = g[i] /\ g[i] \in 0..n
  OBVIOUS
<1>2. InOrder(h)
  <2> SUFFICES ASSUME NEW i \in DOMAIN h, NEW j \in DOMAIN h, i <= j
               PROVE  h[i] <= h[j]
    BY DEF InOrder
  <2>1. CASE j = Len(g) + 1
    BY <1>1, <2>1
  <2>2. CASE j # Len(g) + 1
    <3>1. i \in DOMAIN g /\ j \in DOMAIN g
      BY <1>1, <2>2
    <3> QED BY <1>1, <3>1 DEF InOrder
  <2> QED BY <2>1, <2>2
<1> QED BY <1>1, <1>2 DEF Extended

\* A client that never guessed may begin.
LEMMA RestedFirst ==
    ASSUME NEW n \in 0..Horizon
    PROVE  ClientOK(NoEntry, <<>>, n)
<1>1. \A T : In(<<>>, T) = {}
  BY DEF In
<1>2. \A k, time : PlacesBefore(<<>>, k, time) = {}
  BY DEF PlacesBefore
<1>3. Cardinality({}) = 0
  BY FS_EmptySet
<1>4. GuessesFew(<<>>)
  <2>1. \A T : Cardinality(In(<<>>, T)) = 0
    BY <1>1, <1>3
  <2> QED BY <2>1, LimiterNumbers DEF GuessesFew
<1>5. Rested(<<>>, n)
  <2>1. PICK k, time : k = Len(<<>>) + 1 /\ time = n - SureWindow
    OBVIOUS
  <2>2. Cardinality(PlacesBefore(<<>>, k, time)) = 0
    BY <1>2, <1>3
  <2>3. 0 <= MaxFailures - 2
    BY LimiterNumbers
  <2> QED BY <2>1, <2>2, <2>3 DEF Rested
<1>6. NoEntry \in EntryRecord
  BY LimiterNumbers DEF NoEntry, EntryRecord
<1>7. <<>> \in Seq(0..n) /\ InOrder(<<>>)
  BY DEF InOrder
<1> QED BY <1>4, <1>5, <1>6, <1>7 DEF ClientOK

\* Time goes on, and nothing that an entry says of its guesses changes.
LEMMA OneTickLater ==
    ASSUME NEW n \in Nat, NEW e, NEW g, ClientOK(e, g, n)
    PROVE  ClientOK(e, g, n + 1)
<1> USE LimiterNumbers
<1>1. g \in Seq(0..(n + 1)) /\ g \in Seq(0..n)
  <2>1. 0..n \subseteq 0..(n + 1)
    OBVIOUS
  <2>2. g \in Seq(0..n)
    BY DEF ClientOK
  <2> QED BY <2>1, <2>2
<1>2. ASSUME Rested(g, n) PROVE Rested(g, n + 1)
  <2>1. PICK I, J : /\ I = PlacesBefore(g, Len(g) + 1, n + 1 - SureWindow)
                    /\ J = PlacesBefore(g, Len(g) + 1, n - SureWindow)
    OBVIOUS
  <2>2. J \subseteq DOMAIN g /\ I \subseteq J
    BY <1>1, <2>1 DEF PlacesBefore
  <2>3. Cardinality(I) <= Cardinality(J)
    BY <1>1, <2>2, PlacesWithin
  <2>4. I \subseteq DOMAIN g
    BY <2>2
  <2>5. Cardinality(I) \in Nat /\ Cardinality(J) \in Nat
    BY <1>1, <2>2, <2>4, PlacesFinite
  <2>6. Cardinality(J) <= MaxFailures - 2
    BY <1>2, <2>1 DEF Rested
  <2>7. Cardinality(I) <= MaxFailures - 2
    BY <2>3, <2>5, <2>6
  <2> QED BY <2>1, <2>7 DEF Rested
<1> QED BY <1>1, <1>2 DEF ClientOK

\* The parts of an entry, and the first and last guess of its window, of len
\* guesses in all.
PartsOf(e, g, k, n, len, began, seen, until, first, final) ==
    /\ len = Len(g) /\ DOMAIN g = 1..len
    /\ e.start = began /\ e.count = seen /\ e.lockedUntil = until
    /\ g[k] = first /\ g[len] = final
    /\ \A i \in 1..len : g[i] \in 0..n /\ g[i] <= final
    /\ \A i \in 1..len : i <= k => g[i] <= first
    /\ \A i \in 1..len : k <= i => first <= g[i]

\* What they say of each other.
Related(k, n, len, began, seen, until, first, final) ==
    /\ k \in Int /\ 1 <= k /\ k <= len
    /\ seen = len - k + 1
    /\ 0 <= began /\ began <= first /\ first <= began + MaxStall
    /\ seen < MaxFailures => until = Unlocked
    /\ seen >= MaxFailures =>
         /\ until - Window <= final
         /\ final <= until - Window + MaxStall
         /\ until - Window - began < Window

LEMMA EntryFacts ==
    ASSUME NEW n \in Nat, NEW e \in EntryRecord, NEW g \in Seq(0..n), InOrder(g),
           NEW k \in DOMAIN g, WindowedBy(e, g, k)
    PROVE  \E len \in Nat, began \in Int, seen \in Int, until \in Int,
              first \in 0..n, final \in 0..n :
             /\ PartsOf(e, g, k, n, len, began, seen, until, first, final)
             /\ Related(k, n, len, began, seen, until, first, final)
<1>1. PICK len \in Nat : len = Len(g)
  OBVIOUS
<1>2. DOMAIN g = 1..len /\ \A i \in 1..len : g[i] \in 0..n
  BY <1>1
<1>3. k \in 1..len /\ len \in 1..len
  BY <1>2
<1>4. \A i, j \in 1..len : i <= j => g[i] <= g[j]
  BY <1>2 DEF InOrder
<1>5. \A i \in 1..len : i <= len
  OBVIOUS
<1>6. e.start \in Int /\ e.count \in Int /\ e.lockedUntil \in Int
  BY DEF EntryRecord
<1>7. PICK began \in Int, seen \in Int, until \in Int,
           first \in 0..n, final \in 0..n :
             /\ began = e.start /\ seen = e.count /\ until = e.lockedUntil
             /\ first = g[k] /\ final = g[len]
  BY <1>2, <1>3, <1>6
<1>8. PartsOf(e, g, k, n, len, began, seen, until, first, final)
  BY <1>1, <1>2, <1>3, <1>4, <1>5, <1>7 DEF PartsOf
<1>9. Related(k, n, len, began, seen, until, first, final)
  <2>1. k \in Int /\ 1 <= k /\ k <= len
    BY <1>3
  <2>2. /\ seen = len - k + 1
        /\ 0 <= began /\ began <= first /\ first <= began + MaxStall
    BY <1>1, <1>7 DEF WindowedBy
  <2>3. seen < MaxFailures => until = Unlocked
    BY <1>7 DEF WindowedBy
  <2>4. seen >= MaxFailures =>
          /\ until - Window <= final
          /\ final <= until - Window + MaxStall
          /\ until - Window - began < Window
    BY <1>1, <1>7 DEF WindowedBy
  <2> QED BY <2>1, <2>2, <2>3, <2>4 DEF Related
<1> QED BY <1>8, <1>9

\* failures.retain, for one entry and a call that read the time t.
KeptEntry(e, t) ==
    IF e.lockedUntil > t \/ t - e.start < Window THEN e ELSE NoEntry

\* The sweep takes an entry only from a client that has rested, however old the
\* time is that it goes by.
LEMMA EntriesKept ==
    ASSUME NEW n \in Nat, NEW t \in 0..n, n - t <= MaxStall,
           NEW e, NEW g, ClientOK(e, g, n)
    PROVE  ClientOK(KeptEntry(e, t), g, n)
<1> USE LimiterNumbers
<1>1. CASE KeptEntry(e, t) = e
  BY <1>1
<1>2. CASE KeptEntry(e, t) # e
  <2>1. KeptEntry(e, t) = NoEntry /\ e # NoEntry /\ ~(e.lockedUntil > t)
        /\ ~(t - e.start < Window)
    BY <1>2 DEF KeptEntry
  <2>2. /\ e \in EntryRecord /\ g \in Seq(0..n) /\ InOrder(g) /\ GuessesFew(g)
    BY DEF ClientOK
  <2>3. PICK k \in DOMAIN g : WindowedBy(e, g, k)
    BY <2>1 DEF ClientOK
  <2>4. PICK len \in Nat, began \in Int, seen \in Int, until \in Int,
            first \in 0..n, final \in 0..n :
             /\ PartsOf(e, g, k, n, len, began, seen, until, first, final)
             /\ Related(k, n, len, began, seen, until, first, final)
    BY <2>2, <2>3, EntryFacts
  <2>5. /\ len \in Nat /\ k \in 1..len /\ seen = len - k + 1
        /\ first \in 0..n /\ final \in 0..n /\ seen \in Int
        /\ first <= n - SureWindow
        /\ seen >= MaxFailures => final <= n - SureWindow
    <3>1. e.start = began /\ e.lockedUntil = until
      BY <2>4 DEF PartsOf
    <3>2. ~(until > t) /\ ~(t - began < Window)
      BY <2>1, <3>1
    <3> QED BY <2>4, <3>2 DEF Related
  <2>6. PICK recent : recent = PlacesBefore(g, Len(g) + 1, n - SureWindow)
    OBVIOUS
  <2>7. /\ recent \subseteq 1..len /\ DOMAIN g = 1..len
        /\ \A i \in recent : g[i] \in 0..n /\ g[i] > n - SureWindow
    BY <2>4, <2>6 DEF PlacesBefore, PartsOf
  <2>8. Cardinality(recent) <= MaxFailures - 2
    <3>1. CASE seen >= MaxFailures
      <4>1. \A i \in recent : FALSE
        <5> SUFFICES ASSUME NEW i \in recent PROVE FALSE
          OBVIOUS
        <5>1. g[i] <= final
          BY <2>4, <2>7 DEF PartsOf
        <5>2. g[i] \in 0..n /\ g[i] > n - SureWindow
          BY <2>7
        <5> QED BY <2>5, <3>1, <5>1, <5>2
      <4>2. recent = {}
        BY <4>1
      <4> QED BY <4>2, FS_EmptySet
    <3>2. CASE seen < MaxFailures
      <4>1. \A i \in recent : k < i
        <5> SUFFICES ASSUME NEW i \in recent, ~(k < i) PROVE FALSE
          OBVIOUS
        <5>1. i \in 1..len
          BY <2>7
        <5>2. i <= k
          BY <2>5, <5>1
        <5>3. g[i] <= first
          BY <2>4, <5>1, <5>2 DEF PartsOf
        <5>4. g[i] \in 0..n /\ g[i] > n - SureWindow
          BY <2>7
        <5> QED BY <2>5, <5>3, <5>4
      <4>2. PICK all : all = k..len
        OBVIOUS
      <4>3. /\ all \subseteq DOMAIN g /\ k \in all
            /\ recent \subseteq all \ {k}
        <5>1. all \subseteq 1..len /\ k \in all
          BY <2>5, <4>2
        <5>2. \A i \in recent : i \in all /\ i # k
          BY <2>5, <2>7, <4>1, <4>2
        <5> QED BY <2>7, <5>1, <5>2
      <4>4. Cardinality(all) = len - k + 1
        BY <2>5, <4>2, PlacesFrom
      <4>5. IsFiniteSet(all)
        BY <2>2, <4>3, PlacesFinite
      <4>6. Cardinality(all \ {k}) = Cardinality(all) - 1
        BY <4>3, <4>5, FS_RemoveElement
      <4>7. all \ {k} \subseteq DOMAIN g
        BY <4>3
      <4>8. Cardinality(recent) <= Cardinality(all \ {k})
        BY <2>2, <4>3, <4>7, PlacesWithin
      <4>9. recent \subseteq DOMAIN g
        BY <2>7
      <4>10. Cardinality(recent) \in Nat
        BY <2>2, <4>9, PlacesFinite
      <4> QED BY <2>5, <3>2, <4>2, <4>4, <4>6, <4>8, <4>10
    <3> QED BY <2>5, <3>1, <3>2
  <2>9. Rested(g, n)
    BY <2>6, <2>8 DEF Rested
  <2>10. NoEntry \in EntryRecord
    BY DEF NoEntry, EntryRecord
  <2> QED BY <2>1, <2>2, <2>9, <2>10 DEF ClientOK
<1> QED BY <1>1, <1>2

\* A guess more is within the limit if the spans that hold it are.
LEMMA FewMore ==
    ASSUME NEW n \in Nat, NEW g \in Seq(0..n), InOrder(g), GuessesFew(g),
           NEW h, h = Append(g, n),
           \A from \in 0..Horizon :
              n \in from..(from + SureWindow - 1) =>
                Cardinality(In(h, from..(from + SureWindow - 1)))
                  <= 2 * MaxFailures - 2
    PROVE  GuessesFew(h)
<1> SUFFICES ASSUME NEW from \in 0..Horizon,
                    n \notin from..(from + SureWindow - 1)
             PROVE  In(h, from..(from + SureWindow - 1))
                      = In(g, from..(from + SureWindow - 1))
  BY DEF GuessesFew
<1>1. Extended(g, n, h)
  BY OneMoreGuess
<1> QED BY <1>1 DEF In, Extended

\* A window begins: of the time before it few guesses are within reach.
LEMMA FirstFailure ==
    ASSUME NEW n \in 0..Horizon, NEW t \in 0..n, n - t <= MaxStall,
           NEW g, ClientOK(NoEntry, g, n)
    PROVE  ClientOK([start |-> t, count |-> 1, lockedUntil |-> Unlocked],
                    Append(g, n), n)
<1> USE LimiterNumbers
<1>1. /\ g \in Seq(0..n) /\ InOrder(g) /\ GuessesFew(g) /\ Rested(g, n)
      /\ n \in Nat
  BY DEF ClientOK
<1>2. PICK h : h = Append(g, n)
  OBVIOUS
<1>3. /\ h \in Seq(0..n) /\ InOrder(h) /\ Len(g) \in Nat
      /\ Len(h) = Len(g) + 1 /\ DOMAIN h = 1..(Len(g) + 1)
      /\ DOMAIN g = 1..Len(g)
      /\ h[Len(g) + 1] = n /\ \A i \in DOMAIN g : h[i] = g[i] /\ g[i] \in 0..n
  <2>1. Extended(g, n, h)
    BY <1>1, <1>2, OneMoreGuess
  <2> QED BY <2>1 DEF Extended
<1>4. PICK k, old : k = Len(g) + 1 /\ old = PlacesBefore(g, k, n - SureWindow)
  OBVIOUS
<1>5. k \in DOMAIN h /\ k = Len(h) /\ h[k] = n /\ PlacesBefore(h, k, n - SureWindow) = old
  BY <1>3, <1>4 DEF PlacesBefore
<1>6. /\ old \subseteq DOMAIN h /\ {k} \subseteq DOMAIN h
      /\ Cardinality(old) <= MaxFailures - 2 /\ Cardinality({k}) = 1
  <2>1. old \subseteq DOMAIN h
    BY <1>3, <1>4 DEF PlacesBefore
  <2>2. Cardinality(old) <= MaxFailures - 2
    BY <1>1, <1>4 DEF Rested
  <2> QED BY <1>5, <2>1, <2>2, FS_Singleton
<1>7. Cardinality(old) \in Nat
  BY <1>3, <1>6, PlacesFinite
<1>8. ASSUME NEW from \in 0..Horizon, n \in from..(from + SureWindow - 1)
      PROVE  Cardinality(In(h, from..(from + SureWindow - 1)))
               <= 2 * MaxFailures - 2
  <2>1. PICK I : I = In(h, from..(from + SureWindow - 1))
    OBVIOUS
  <2>2. I \subseteq DOMAIN h /\ I \subseteq old \cup {k}
    BY <1>3, <1>4, <1>8, <2>1 DEF In, PlacesBefore
  <2>3. Cardinality(I) <= Cardinality(old) + Cardinality({k})
    BY <1>3, <1>6, <2>2, PlacesSplit
  <2>4. Cardinality(I) \in Nat
    BY <1>3, <2>2, PlacesFinite
  <2>5. Cardinality(I) <= 2 * MaxFailures - 2
    BY <1>6, <1>7, <2>3, <2>4
  <2> QED BY <2>1, <2>5
<1>9. GuessesFew(h)
  BY <1>1, <1>2, <1>8, FewMore
<1>10. PICK e : e = [start |-> t, count |-> 1, lockedUntil |-> Unlocked]
  OBVIOUS
<1>11. /\ e \in EntryRecord /\ e # NoEntry
       /\ e.start = t /\ e.count = 1 /\ e.lockedUntil = Unlocked
  BY <1>10 DEF EntryRecord, NoEntry
<1>12. WindowedBy(e, h, k)
  <2>1. e.count = Len(h) - k + 1 /\ e.count < MaxFailures
    BY <1>3, <1>5, <1>11
  <2>2. 0 <= e.start /\ e.start <= h[k] /\ h[k] <= e.start + MaxStall
    BY <1>5, <1>11
  <2>3. Cardinality(PlacesBefore(h, k, h[k] - SureWindow)) <= MaxFailures - 2
    BY <1>5, <1>6
  <2>4. ~(e.count >= MaxFailures)
    BY <1>11
  <2> QED BY <1>11, <2>1, <2>2, <2>3, <2>4 DEF WindowedBy
<1> QED BY <1>2, <1>3, <1>5, <1>9, <1>10, <1>11, <1>12 DEF ClientOK

\* The entry m is e with a failure more, by a call that read the time t.
FailedOnce(e, m, t) ==
    /\ m.start = e.start /\ m.count = e.count + 1
    /\ m.lockedUntil = IF m.count >= MaxFailures THEN t + Window
                       ELSE e.lockedUntil

\* The k-th guess began the window of e, a failure more makes it m.
GoesOn(n, t, g, h, e, k, m) ==
    /\ n \in 0..Horizon /\ t \in 0..n /\ n - t <= MaxStall
    /\ g \in Seq(0..n) /\ InOrder(g) /\ GuessesFew(g) /\ h = Append(g, n)
    /\ e \in EntryRecord /\ k \in DOMAIN g /\ WindowedBy(e, g, k)
    /\ t - e.start < Window /\ ~(e.lockedUntil > t)
    /\ m \in EntryRecord /\ FailedOnce(e, m, t)

\* A failure more in a window: what is within reach of the last one lies in the
\* window or in the stretch before it; after a lock nothing is within reach.
LEMMA WindowGoesOn ==
    ASSUME NEW n, NEW t, NEW g, NEW h, NEW e, NEW k, NEW m,
           GoesOn(n, t, g, h, e, k, m)
    PROVE  GuessesFew(h) /\ WindowedBy(m, h, k) /\ m.count >= 2
<1> SUFFICES ASSUME n \in 0..Horizon, t \in 0..n, n - t <= MaxStall,
                    g \in Seq(0..n), InOrder(g), GuessesFew(g), h = Append(g, n),
                    e \in EntryRecord, k \in DOMAIN g, WindowedBy(e, g, k),
                    t - e.start < Window, ~(e.lockedUntil > t),
                    m \in EntryRecord, FailedOnce(e, m, t)
             PROVE  GuessesFew(h) /\ WindowedBy(m, h, k) /\ m.count >= 2
  BY DEF GoesOn
<1> USE LimiterNumbers
<1>1. n \in Nat
  OBVIOUS
<1>2. PICK c \in Int, l \in Int : c = m.count /\ l = m.lockedUntil
  BY DEF EntryRecord
<1>3. PICK len \in Nat, began \in Int, seen \in Int, until \in Int,
            first \in 0..n, final \in 0..n :
             /\ PartsOf(e, g, k, n, len, began, seen, until, first, final)
             /\ Related(k, n, len, began, seen, until, first, final)
  BY <1>1, EntryFacts
<1>4. /\ h \in Seq(0..n) /\ InOrder(h) /\ Len(h) = len + 1
      /\ DOMAIN h = 1..(len + 1) /\ h[len + 1] = n
      /\ \A i \in 1..len : h[i] = g[i] /\ g[i] \in 0..n
      /\ DOMAIN g = 1..len
  <2>1. len = Len(g) /\ DOMAIN g = 1..len
    BY <1>3 DEF PartsOf
  <2>2. /\ h \in Seq(0..n) /\ InOrder(h) /\ Len(h) = Len(g) + 1
        /\ DOMAIN h = 1..(Len(g) + 1) /\ h[Len(g) + 1] = n
        /\ \A i \in DOMAIN g : h[i] = g[i] /\ g[i] \in 0..n
    <3>1. Extended(g, n, h)
      BY <1>1, OneMoreGuess
    <3> QED BY <3>1 DEF Extended
  <2> QED BY <2>1, <2>2
<1>5. DOMAIN h = 1..(len + 1) /\ DOMAIN g = 1..len /\ k \in 1..len
  BY <1>3, <1>4 DEF Related
<1>6. \A i \in 1..len : h[i] = g[i] /\ g[i] \in 0..n
  BY <1>4
<1>7. /\ c = len - k + 2
      /\ began \in 0..first /\ first \in 0..n /\ first <= began + MaxStall
      /\ t - began < Window /\ seen \in Int /\ c = seen + 1
      /\ seen < MaxFailures => until = Unlocked
      /\ c >= MaxFailures => l = t + Window
      /\ c < MaxFailures => l = until
      /\ seen >= MaxFailures => final <= n - SureWindow
      /\ final \in 0..n /\ m.start = began /\ m.count = c /\ m.lockedUntil = l
  <2>1. e.start = began /\ e.lockedUntil = until /\ e.count = seen
    BY <1>3 DEF PartsOf
  <2>2. t - began < Window /\ ~(until > t)
    BY <2>1
  <2>3. /\ m.start = began /\ c = seen + 1
        /\ l = IF c >= MaxFailures THEN t + Window ELSE until
    BY <1>2, <2>1 DEF FailedOnce
  <2>4. (c >= MaxFailures => l = t + Window) /\ (c < MaxFailures => l = until)
    BY <2>3
  <2>5. /\ seen = len - k + 1 /\ k \in Int
        /\ began <= first /\ 0 <= began /\ first <= began + MaxStall
        /\ seen < MaxFailures => until = Unlocked
        /\ seen >= MaxFailures => final <= until - Window + MaxStall
    BY <1>3 DEF Related
  <2>6. seen >= MaxFailures => final <= n - SureWindow
    BY <2>2, <2>5
  <2>7. c = len - k + 2 /\ began \in 0..first
    BY <2>3, <2>5
  <2> QED BY <1>2, <2>2, <2>3, <2>4, <2>5, <2>6, <2>7
<1>8. PICK reach, old : reach = first - SureWindow /\ old = PlacesBefore(g, k, reach)
  OBVIOUS
<1>9. /\ h[k] = first /\ k \in DOMAIN h /\ PlacesBefore(h, k, reach) = old
       /\ old \subseteq DOMAIN h /\ Cardinality(old) <= MaxFailures - 2
       /\ reach \in Int /\ g[k] = first
  <2>1. g[k] = first
    BY <1>3 DEF PartsOf
  <2>2. h[k] = first /\ k \in DOMAIN h /\ reach \in Int
    <3>1. k \in DOMAIN h /\ h[k] = g[k]
      BY <1>5, <1>6
    <3>2. reach \in Int
      BY <1>8
    <3> QED BY <2>1, <3>1, <3>2
  <2>3. \A i \in DOMAIN h : i < k => i \in DOMAIN g /\ h[i] = g[i]
    BY <1>5, <1>6
  <2>4. \A i \in DOMAIN g : i \in DOMAIN h /\ h[i] = g[i]
    BY <1>5, <1>6
  <2>5. PlacesBefore(h, k, reach) = old
    BY <1>8, <2>3, <2>4 DEF PlacesBefore
  <2>6. old \subseteq DOMAIN h
    BY <2>5 DEF PlacesBefore
  <2>7. Cardinality(old) <= MaxFailures - 2
    BY <1>8, <2>1 DEF WindowedBy
  <2> QED BY <2>1, <2>2, <2>5, <2>6, <2>7
<1>10. ASSUME NEW from \in 0..Horizon, n \in from..(from + SureWindow - 1)
       PROVE  Cardinality(In(h, from..(from + SureWindow - 1)))
                <= 2 * MaxFailures - 2
  <2>1. PICK I : I = In(h, from..(from + SureWindow - 1))
    OBVIOUS
  <2>2. /\ I \subseteq DOMAIN h /\ from > n - SureWindow
        /\ \A i \in I : h[i] >= from
    BY <1>10, <2>1 DEF In
  <2>3. Cardinality(I) \in Nat
    BY <1>4, <2>2, PlacesFinite
  <2>4. CASE seen >= MaxFailures
    <3>1. PICK end : end = len + 1
      OBVIOUS
    <3>2. \A i \in I : i = end
      <4> SUFFICES ASSUME NEW i \in I, i # end PROVE FALSE
        OBVIOUS
      <4>1. i \in 1..len /\ h[i] >= from
        BY <1>5, <2>2, <3>1
      <4>2. h[i] \in 0..n /\ h[i] = g[i]
        BY <1>6, <4>1
      <4>3. g[i] <= final
        BY <1>3, <4>1 DEF PartsOf
      <4> QED BY <1>7, <2>2, <2>4, <4>1, <4>2, <4>3
    <3>3. I \subseteq {end} /\ {end} \subseteq DOMAIN h
      <4>1. end \in 1..(len + 1)
        BY <3>1
      <4> QED BY <1>5, <3>2, <4>1
    <3>4. Cardinality(I) <= Cardinality({end})
      BY <1>4, <3>3, PlacesWithin
    <3>5. Cardinality({end}) = 1
      BY FS_Singleton
    <3>6. Cardinality(I) <= 2 * MaxFailures - 2
      BY <2>3, <3>4, <3>5
    <3> QED BY <2>1, <3>6
  <2>5. CASE seen < MaxFailures
    <3>1. PICK end \in Nat, later \in SUBSET Int :
            end = len + 1 /\ later = k..end
      BY <1>4
    <3>2. later \subseteq DOMAIN h /\ k \in 1..end
      BY <1>5, <3>1
    <3>3. Cardinality(later) = end - k + 1
      BY <3>1, <3>2, PlacesFrom
    <3>4. I \subseteq old \cup later
      <4> SUFFICES ASSUME NEW i \in I, i \notin later PROVE i \in old
        OBVIOUS
      <4>1. i \in 1..end /\ h[i] >= from
        BY <1>5, <2>2, <3>1
      <4>2. i < k
        BY <3>1, <3>2, <4>1
      <4>3. i \in DOMAIN h /\ i \in 1..len
        BY <1>5, <3>1, <4>1, <4>2
      <4>4. h[i] \in 0..n
        BY <1>6, <4>3
      <4>5. h[i] > reach
        BY <1>7, <1>8, <2>2, <4>1, <4>4
      <4> QED BY <1>9, <4>2, <4>3, <4>5 DEF PlacesBefore
    <3>5. Cardinality(I) <= Cardinality(old) + Cardinality(later)
      BY <1>4, <1>9, <2>2, <3>2, <3>4, PlacesSplit
    <3>6. Cardinality(old) \in Nat
      BY <1>4, <1>9, PlacesFinite
    <3>7. Cardinality(old) <= MaxFailures - 2
      BY <1>9
    <3>8. Cardinality(later) <= MaxFailures /\ Cardinality(later) \in Int
      BY <1>7, <1>5, <2>5, <3>1, <3>3
    <3>9. Cardinality(I) <= 2 * MaxFailures - 2
      BY <2>3, <3>5, <3>6, <3>7, <3>8
    <3> QED BY <2>1, <3>9
  <2>6. seen \in Int
    BY <1>7
  <2> QED BY <2>4, <2>5, <2>6
<1>11. GuessesFew(h)
  BY <1>1, <1>10, FewMore
<1>12. WindowedBy(m, h, k)
  <2>1. m.count = Len(h) - k + 1
    BY <1>4, <1>7
  <2>2. 0 <= m.start /\ m.start <= h[k] /\ h[k] <= m.start + MaxStall
    BY <1>7, <1>9
  <2>3. Cardinality(PlacesBefore(h, k, h[k] - SureWindow)) <= MaxFailures - 2
    BY <1>8, <1>9
  <2>4. m.count < MaxFailures => m.lockedUntil = Unlocked
    BY <1>7
  <2>5. h[Len(h)] = n
    BY <1>4
  <2>6. m.count >= MaxFailures =>
               /\ m.lockedUntil - Window <= h[Len(h)]
               /\ h[Len(h)] <= m.lockedUntil - Window + MaxStall
               /\ m.lockedUntil - Window - m.start < Window
    <3> SUFFICES ASSUME m.count >= MaxFailures
                 PROVE  /\ m.lockedUntil - Window <= n
                        /\ n <= m.lockedUntil - Window + MaxStall
                        /\ m.lockedUntil - Window - m.start < Window
      BY <2>5
    <3>1. l = t + Window
      BY <1>7
    <3> QED BY <1>7, <3>1
  <2> QED BY <2>1, <2>2, <2>3, <2>4, <2>6 DEF WindowedBy
<1>13. m.count >= 2
  BY <1>5, <1>7, <1>2
<1> QED BY <1>11, <1>12, <1>13

\* It leaves an entry that fits.
LEMMA AnotherFailure ==
    ASSUME NEW n \in 0..Horizon, NEW t \in 0..n, n - t <= MaxStall,
           NEW e, NEW g, ClientOK(e, g, n),
           e # NoEntry, t - e.start < Window, ~(e.lockedUntil > t),
           NEW m, m = [e EXCEPT !.count = e.count + 1,
                                !.lockedUntil = IF e.count + 1 >= MaxFailures
                                                THEN t + Window
                                                ELSE e.lockedUntil]
    PROVE  ClientOK(m, Append(g, n), n)
<1> USE LimiterNumbers
<1>1. /\ g \in Seq(0..n) /\ InOrder(g) /\ GuessesFew(g) /\ e \in EntryRecord
      /\ n \in Nat
  BY DEF ClientOK
<1>2. PICK k \in DOMAIN g : WindowedBy(e, g, k)
  BY DEF ClientOK
<1>3. PICK h : h = Append(g, n)
  OBVIOUS
<1>4. h \in Seq(0..n) /\ InOrder(h) /\ k \in DOMAIN h
  <2>1. Extended(g, n, h)
    BY <1>1, <1>3, OneMoreGuess
  <2> QED BY <2>1 DEF Extended
<1>5. PICK c, l : /\ c = e.count + 1
                  /\ l = IF c >= MaxFailures THEN t + Window ELSE e.lockedUntil
  OBVIOUS
<1>6. c \in Int /\ l \in Int
  <2>1. e.count \in Int /\ e.lockedUntil \in Int /\ t + Window \in Int
    BY <1>1 DEF EntryRecord
  <2> QED BY <1>5, <2>1
<1>7. m = [e EXCEPT !.count = c, !.lockedUntil = l]
  BY <1>5
<1>8. m \in EntryRecord /\ FailedOnce(e, m, t)
  <2>1. m \in EntryRecord
    BY <1>1, <1>6, <1>7 DEF EntryRecord
  <2>2. m.start = e.start /\ m.count = c /\ m.lockedUntil = l
    BY <1>1, <1>6, <1>7 DEF EntryRecord
  <2> QED BY <1>5, <2>1, <2>2 DEF FailedOnce
<1>9. GuessesFew(h) /\ WindowedBy(m, h, k) /\ m.count >= 2
  <2>1. GoesOn(n, t, g, h, e, k, m)
    BY <1>1, <1>2, <1>3, <1>8 DEF GoesOn
  <2> QED BY <2>1, WindowGoesOn
<1>10. m # NoEntry
  <2>1. m.count \in Int
    BY <1>8 DEF EntryRecord
  <2>2. m.count # 0 /\ NoEntry.count = 0
    BY <1>9, <2>1 DEF NoEntry
  <2> QED BY <2>2
<1> QED BY <1>3, <1>4, <1>8, <1>9, <1>10 DEF ClientOK

\* A wrong password, against an entry that the sweep has left.
LEMMA FailureCounted ==
    ASSUME now \in 0..Horizon, NEW t \in 0..now, now - t <= MaxStall,
           NEW k, NEW g, ClientOK(k, g, now), ~Locked(k, t),
           k = NoEntry \/ t - k.start < Window
    PROVE  ClientOK(AfterFailure(k, t), Append(g, now), now)
<1> USE LimiterNumbers
<1>1. CASE k = NoEntry
  <2>1. PICK old : old = [NoEntry EXCEPT !.start = t]
    OBVIOUS
  <2>2. old = [start |-> t, count |-> 0, lockedUntil |-> Unlocked]
    BY <2>1 DEF NoEntry
  <2>3. AfterFailure(k, t) = [old EXCEPT !.count = old.count + 1,
                             !.lockedUntil = IF old.count + 1 >= MaxFailures
                                             THEN t + Window ELSE @]
    BY <1>1, <2>1 DEF AfterFailure
  <2>4. old.count + 1 = 1 /\ ~(old.count + 1 >= MaxFailures)
    BY <2>2
  <2>5. AfterFailure(k, t) = [old EXCEPT !.count = 1,
                                         !.lockedUntil = old.lockedUntil]
    BY <2>3, <2>4
  <2>6. AfterFailure(k, t) = [start |-> t, count |-> 1, lockedUntil |-> Unlocked]
    BY <2>2, <2>5
  <2> QED BY <1>1, <2>6, FirstFailure
<1>2. CASE k # NoEntry
  <2>1. t - k.start < Window
    BY <1>2
  <2>2. k \in EntryRecord
    BY DEF ClientOK
  <2>3. ~(t - k.start >= Window)
    BY <2>1, <2>2 DEF EntryRecord
  <2>4. AfterFailure(k, t) = [k EXCEPT !.count = k.count + 1,
                                       !.lockedUntil = IF k.count + 1 >= MaxFailures
                                                       THEN t + Window
                                                       ELSE k.lockedUntil]
    BY <1>2, <2>3 DEF AfterFailure
  <2>5. ~(k.lockedUntil > t)
    BY DEF Locked
  <2> QED BY <1>2, <2>1, <2>4, <2>5, AnotherFailure
<1> QED BY <1>1, <1>2

\* The sweep leaves every client with an entry that fits its guesses.
LEMMA Swept ==
    ASSUME LimiterInv, NEW t \in 0..now, now - t <= MaxStall
    PROVE  /\ Retained(t) = [c \in Clients |-> Retained(t)[c]]
           /\ \A c \in Clients :
                /\ ClientOK(Retained(t)[c], guesses[c], now)
                /\ \/ Retained(t)[c] = NoEntry
                   \/ Locked(Retained(t)[c], t)
                   \/ t - Retained(t)[c].start < Window
<1>1. \A c \in Clients : Retained(t)[c] = KeptEntry(failures[c], t)
  BY DEF Retained, KeptEntry, Locked
<1>2. \A c \in Clients : ClientOK(Retained(t)[c], guesses[c], now)
  <2>1. now \in Nat
    BY LimiterNumbers DEF LimiterInv
  <2> QED BY <1>1, <2>1, EntriesKept DEF LimiterInv
<1>3. \A c \in Clients : \/ Retained(t)[c] = NoEntry
                         \/ Locked(Retained(t)[c], t)
                         \/ t - Retained(t)[c].start < Window
  BY <1>1 DEF KeptEntry, Locked
<1> QED BY <1>2, <1>3 DEF Retained

\* A call that has the mutex judges by a time that is not too old, and leaves
\* the clocks of the others as they are.
LEMMA CallsReturn ==
    ASSUME LimiterInv, NEW a \in Logins, stamp[a] # NotRead, Returns(a)
    PROVE  /\ stamp[a] \in 0..now /\ now - stamp[a] <= MaxStall
           /\ now' = now
           /\ stamp' \in [Logins -> NotRead..now]
           /\ \A b \in Logins : stamp'[b] # NotRead => now - stamp'[b] <= MaxStall
<1> USE LimiterNumbers
<1>1. now \in Nat /\ stamp \in [Logins -> NotRead..now]
  BY DEF LimiterInv
<1>2. stamp[a] \in 0..now /\ now - stamp[a] <= MaxStall
  BY <1>1 DEF LimiterInv
<1>3. stamp' = [stamp EXCEPT ![a] = NotRead] /\ now' = now
  BY DEF Returns
<1>4. stamp' \in [Logins -> NotRead..now]
  BY <1>1, <1>3
<1>5. \A b \in Logins : stamp'[b] # NotRead => stamp'[b] = stamp[b]
  BY <1>1, <1>3
<1>6. \A b \in Logins : stamp'[b] # NotRead => now - stamp'[b] <= MaxStall
  BY <1>5 DEF LimiterInv
<1> QED BY <1>2, <1>3, <1>4, <1>6

\* Attempts and the clock keep the invariant.
LEMMA LimiterStep ==
    ASSUME LimiterInv, [LimiterNext]_limiterVars
    PROVE  LimiterInv'
<1>1. now \in 0..Horizon /\ now \in Nat
  BY LimiterNumbers DEF LimiterInv
<1>2. guesses = [c \in Clients |-> guesses[c]]
  BY DEF LimiterInv
<1>3. ASSUME NEW a \in Logins, ReadClock(a)  PROVE LimiterInv'
  <2>1. stamp' = [stamp EXCEPT ![a] = now] /\ UNCHANGED <<now, failures, guesses>>
    BY <1>3 DEF ReadClock
  <2>2. stamp \in [Logins -> NotRead..now] /\ now \in NotRead..now
    BY <1>1, LimiterNumbers DEF LimiterInv
  <2>3. stamp' \in [Logins -> NotRead..now]
    BY <2>1, <2>2
  <2>4. \A b \in Logins : stamp'[b] # NotRead => now - stamp'[b] <= MaxStall
    <3> SUFFICES ASSUME NEW b \in Logins, stamp'[b] # NotRead
                 PROVE  now - stamp'[b] <= MaxStall
      OBVIOUS
    <3>1. CASE b = a
      BY <1>1, <2>1, <2>2, <3>1, LimiterNumbers
    <3>2. CASE b # a
      <4>1. stamp'[b] = stamp[b]
        BY <2>1, <2>2, <3>2
      <4> QED BY <4>1 DEF LimiterInv
    <3> QED BY <3>1, <3>2
  <2> QED BY <2>1, <2>3, <2>4 DEF LimiterInv
<1>4. ASSUME NEW a \in Logins, NEW c \in Clients, RateLimited(a, c)  PROVE LimiterInv'
  <2>1. PICK t : t = stamp[a]
    OBVIOUS
  <2>2. PICK kept : kept = Retained(t)
    OBVIOUS
  <2>3. failures' = kept /\ guesses' = guesses /\ stamp[a] # NotRead /\ Returns(a)
    BY <1>4, <2>1, <2>2 DEF RateLimited
  <2>4. /\ t \in 0..now /\ now - t <= MaxStall /\ now' = now
        /\ stamp' \in [Logins -> NotRead..now]
        /\ \A b \in Logins : stamp'[b] # NotRead => now - stamp'[b] <= MaxStall
    BY <2>1, <2>3, CallsReturn
  <2>5. /\ kept = [d \in Clients |-> kept[d]]
        /\ \A d \in Clients : ClientOK(kept[d], guesses[d], now)
    BY <2>2, <2>4, Swept
  <2> QED BY <1>1, <1>2, <2>3, <2>4, <2>5 DEF LimiterInv
<1>5. ASSUME NEW a \in Logins, NEW c \in Clients, WrongPassword(a, c)  PROVE LimiterInv'
  <2>1. PICK t : t = stamp[a]
    OBVIOUS
  <2>2. PICK kept : kept = Retained(t)
    OBVIOUS
  <2>3. PICK e, g : e = AfterFailure(kept[c], t) /\ g = Append(guesses[c], now)
    OBVIOUS
  <2>4. /\ failures' = [kept EXCEPT ![c] = e] /\ guesses' = [guesses EXCEPT ![c] = g]
        /\ ~Locked(kept[c], t) /\ stamp[a] # NotRead /\ Returns(a)
    BY <1>5, <2>1, <2>2, <2>3 DEF WrongPassword
  <2>5. /\ t \in 0..now /\ now - t <= MaxStall /\ now' = now
        /\ stamp' \in [Logins -> NotRead..now]
        /\ \A b \in Logins : stamp'[b] # NotRead => now - stamp'[b] <= MaxStall
    BY <2>1, <2>4, CallsReturn
  <2>6. /\ kept = [d \in Clients |-> kept[d]]
        /\ \A d \in Clients : ClientOK(kept[d], guesses[d], now)
        /\ \/ kept[c] = NoEntry
           \/ Locked(kept[c], t)
           \/ t - kept[c].start < Window
    BY <2>2, <2>5, Swept
  <2>7. ClientOK(e, g, now)
    BY <1>1, <2>3, <2>4, <2>5, <2>6, FailureCounted
  <2>8. /\ failures' = [d \in Clients |-> failures'[d]]
        /\ guesses' = [d \in Clients |-> guesses'[d]]
        /\ \A d \in Clients \ {c} : failures'[d] = kept[d] /\ guesses'[d] = guesses[d]
        /\ failures'[c] = e /\ guesses'[c] = g
    BY <1>2, <2>4, <2>6
  <2>9. \A d \in Clients : ClientOK(failures'[d], guesses'[d], now)
    BY <2>6, <2>7, <2>8
  <2> QED BY <1>1, <2>5, <2>8, <2>9 DEF LimiterInv
<1>6. ASSUME NEW a \in Logins, NEW c \in Clients, RightPassword(a, c)  PROVE LimiterInv'
  <2>1. PICK t : t = stamp[a]
    OBVIOUS
  <2>2. PICK kept : kept = Retained(t)
    OBVIOUS
  <2>3. /\ failures' = [kept EXCEPT ![c] = NoEntry]
        /\ guesses' = [guesses EXCEPT ![c] = <<>>]
        /\ stamp[a] # NotRead /\ Returns(a)
    BY <1>6, <2>1, <2>2 DEF RightPassword
  <2>4. /\ t \in 0..now /\ now - t <= MaxStall /\ now' = now
        /\ stamp' \in [Logins -> NotRead..now]
        /\ \A b \in Logins : stamp'[b] # NotRead => now - stamp'[b] <= MaxStall
    BY <2>1, <2>3, CallsReturn
  <2>5. /\ kept = [d \in Clients |-> kept[d]]
        /\ \A d \in Clients : ClientOK(kept[d], guesses[d], now)
    BY <2>2, <2>4, Swept
  <2>6. ClientOK(NoEntry, <<>>, now)
    BY <1>1, RestedFirst
  <2>7. /\ failures' = [d \in Clients |-> failures'[d]]
        /\ guesses' = [d \in Clients |-> guesses'[d]]
        /\ \A d \in Clients \ {c} : failures'[d] = kept[d] /\ guesses'[d] = guesses[d]
        /\ failures'[c] = NoEntry /\ guesses'[c] = <<>>
    BY <1>2, <2>3, <2>5
  <2>8. \A d \in Clients : ClientOK(failures'[d], guesses'[d], now)
    BY <2>5, <2>6, <2>7
  <2> QED BY <1>1, <2>4, <2>7, <2>8 DEF LimiterInv
<1>7. CASE TickLogin
  <2>1. /\ now' = now + 1 /\ now' \in 0..Horizon
        /\ stamp' = stamp /\ failures' = failures /\ guesses' = guesses
        /\ \A a \in Logins : stamp[a] # NotRead => now - stamp[a] < MaxStall
    BY <1>1, <1>7, LimiterNumbers DEF TickLogin
  <2>2. \A c \in Clients : ClientOK(failures[c], guesses[c], now + 1)
    BY <1>1, OneTickLater DEF LimiterInv
  <2>3. \A c \in Clients : ClientOK(failures'[c], guesses'[c], now')
    BY <2>1, <2>2
  <2>4. stamp \in [Logins -> NotRead..now] /\ NotRead..now \subseteq NotRead..now'
    BY <1>1, <2>1, LimiterNumbers DEF LimiterInv
  <2>5. stamp' \in [Logins -> NotRead..now']
    BY <2>1, <2>4
  <2>6. \A a \in Logins : stamp'[a] # NotRead => now' - stamp'[a] <= MaxStall
    <3> SUFFICES ASSUME NEW a \in Logins, stamp'[a] # NotRead
                 PROVE  now' - stamp'[a] <= MaxStall
      OBVIOUS
    <3>1. PICK s \in NotRead..now : s = stamp[a] /\ s = stamp'[a]
      BY <2>1, <2>4
    <3>2. now - s < MaxStall
      BY <2>1, <3>1
    <3> QED BY <1>1, <2>1, <3>1, <3>2, LimiterNumbers
  <2> QED BY <1>2, <2>1, <2>3, <2>5, <2>6 DEF LimiterInv
<1>8. CASE UNCHANGED limiterVars
  BY <1>8 DEF limiterVars, LimiterInv
<1> QED BY <1>3, <1>4, <1>5, <1>6, <1>7, <1>8 DEF LimiterNext

\* Nobody has guessed at the beginning.
LEMMA LimiterInitInv == LimiterInit => LimiterInv
<1> SUFFICES ASSUME LimiterInit PROVE LimiterInv
  OBVIOUS
<1>1. now \in 0..Horizon /\ now = 0
  BY LimiterNumbers DEF LimiterInit
<1>2. stamp \in [Logins -> NotRead..now] /\ \A a \in Logins : stamp[a] = NotRead
  BY <1>1, LimiterNumbers DEF LimiterInit
<1> QED BY <1>1, <1>2, RestedFirst DEF LimiterInit, LimiterInv

\* What the entries say bounds the guesses and explains every lock.
LEMMA EntriesAreFair ==
    ASSUME LimiterInv
    PROVE  LimitIsFair
<1> USE LimiterNumbers
<1>1. now \in Nat
  BY DEF LimiterInv
<1>2. ASSUME NEW c \in Clients, NEW T
      PROVE  Guesses(c, T) = In(guesses[c], T)
  BY DEF Guesses, In
<1>3. GuessesBounded
  BY <1>2 DEF GuessesBounded, LimiterInv, ClientOK, GuessesFew
<1>4. ASSUME NEW c \in Clients, Locked(failures[c], now),
             NEW last, last = failures[c].lockedUntil - Window
      PROVE  /\ Guesses(c, last..(last + MaxStall)) # {}
             /\ Cardinality(Guesses(c, (last - Window + 1)..(last + MaxStall)))
                  >= MaxFailures
  <2>1. PICK e, g : e = failures[c] /\ g = guesses[c]
    OBVIOUS
  <2>2. ClientOK(e, g, now) /\ e.lockedUntil > now
    BY <1>4, <2>1 DEF LimiterInv, Locked
  <2>3. e # NoEntry
    BY <1>1, <2>2 DEF NoEntry
  <2>4. e \in EntryRecord /\ g \in Seq(0..now) /\ InOrder(g)
    BY <2>2 DEF ClientOK
  <2>5. PICK k \in DOMAIN g : WindowedBy(e, g, k)
    BY <2>2, <2>3 DEF ClientOK
  <2>6. PICK len \in Nat, began \in Int, seen \in Int, until \in Int,
            first \in 0..now, final \in 0..now :
             /\ PartsOf(e, g, k, now, len, began, seen, until, first, final)
             /\ Related(k, now, len, began, seen, until, first, final)
    BY <1>1, <2>4, <2>5, EntryFacts
  <2>7. /\ seen >= MaxFailures /\ seen \in Int
        /\ len \in Nat /\ k \in 1..len /\ seen = len - k + 1
        /\ last \in Int /\ final \in 0..now /\ first \in 0..now
        /\ last <= final /\ final <= last + MaxStall
        /\ last - Window < first
    <3>1. e.lockedUntil = until
      BY <2>6 DEF PartsOf
    <3>2. until > now /\ last = until - Window
      BY <1>4, <2>1, <2>2, <3>1
    <3> QED BY <1>1, <2>6, <3>2 DEF Related
  <2>8. /\ DOMAIN g = 1..len /\ g[len] = final
        /\ \A i \in 1..len : g[i] \in 0..now /\ g[i] <= final
        /\ \A i \in 1..len : k <= i => first <= g[i]
    BY <2>6 DEF PartsOf
  <2>9. len \in In(g, last..(last + MaxStall))
    <3>1. final \in last..(last + MaxStall) /\ len \in 1..len
      BY <2>7
    <3> QED BY <2>8, <3>1 DEF In
  <2>10. PICK I, J : /\ I = k..len
                     /\ J = In(g, (last - Window + 1)..(last + MaxStall))
    OBVIOUS
  <2>11. J \subseteq DOMAIN g /\ I \subseteq J
    <3>1. J \subseteq DOMAIN g
      BY <2>10 DEF In
    <3>2. ASSUME NEW i \in I PROVE i \in J
      <4>1. i \in 1..len /\ k <= i
        BY <2>7, <2>10
      <4>2. g[i] \in 0..now /\ first <= g[i] /\ g[i] <= final
        BY <2>8, <4>1
      <4>3. g[i] \in (last - Window + 1)..(last + MaxStall)
        BY <2>7, <4>2
      <4> QED BY <2>8, <2>10, <4>1, <4>3 DEF In
    <3> QED BY <3>1, <3>2
  <2>12. Cardinality(I) <= Cardinality(J) /\ Cardinality(J) \in Nat
    BY <2>4, <2>11, PlacesWithin, PlacesFinite
  <2>13. Cardinality(I) = seen
    BY <2>7, <2>10, PlacesFrom
  <2>14. Cardinality(J) >= MaxFailures
    BY <2>7, <2>12, <2>13
  <2> QED BY <1>2, <2>1, <2>9, <2>10, <2>14
<1>5. LockedForCause
  BY <1>4 DEF LockedForCause
<1> QED BY <1>3, <1>5 DEF LimitIsFair

\* The fixed window bounds what an address may guess within any stretch of its
\* length, less the time a call may be held up between reading the clock and
\* the mutex, and nobody is locked out for the failures of others
\* (authenticate).
THEOREM GuessesAreLimited == LimiterSpec => []LimitIsFair
BY LimiterInitInv, LimiterStep, EntriesAreFair, PTL DEF LimiterSpec

=============================================================================
