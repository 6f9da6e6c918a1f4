--------------------------- MODULE MCComponents ---------------------------
(***************************************************************************)
(* The smaller components, checked side by side: each behaviour runs one   *)
(* of them, named by part, and leaves the others at a state of rest.  They *)
(* share no state.                                                         *)
(***************************************************************************)
EXTENDS Conversations, Paging, EventStream, ConfigSave, Sessions,
        LoginLimiter, ModemHealth, ModemActions, ModemStatus, ImsProbe,
        QmiClient, DbusSender, ForwardAttempt, DeliveryLease,
        RecoverySchedule, Update, Configuration, Reporting

VARIABLE part

vars == <<part, conversationVars, pagingVars, streamVars, saveVars,
          sessionVars, limiterVars, healthVars, actionVars, statusVars,
          imsVars, qmiVars, senderVars, attemptVars, leaseVars,
          scheduleVars, updateVars, configVars, reportVars>>

Parts == {"conversations", "paging", "stream", "save", "sessions", "limiter",
          "health", "actions", "status", "ims", "qmi", "sender", "attempt",
          "lease", "schedule", "update", "configuration", "reporting"}

\* A content is its own password: no two have the same.
SecretOf(c) == c

\* A good release, and one that ships another build under a checksum of its
\* own; to publish two of them puts a replacement between the restart of
\* another run and its answer.
SomeReleaseKinds ==
    {[names |-> "target", binaries |-> 1, sums |-> 1, honest |-> TRUE],
     [names |-> "target", binaries |-> 1, sums |-> 1, honest |-> FALSE]}

\* Of the components with several initial states, the one at rest.  The
\* dashboard at rest is logged out, so that its fairness asks for nothing.
RestConversations == ConversationsInit /\ pins = {} /\ strays = {}
                     /\ row = [i \in Ids |-> NoMessage]
RestPaging == PagingInit /\ held = {} /\ \A i \in PageIds : key[i] = 1
RestStream ==
    /\ rev = 0 /\ unsent = {} /\ ring = 0 /\ lagged = FALSE
    /\ connected = FALSE /\ session = FALSE /\ timer = FALSE /\ open = FALSE
    /\ reads = {} /\ shown = 0 /\ lost = 0 /\ losses = 0
    /\ operation = "none" /\ listReads = {} /\ listed = 0
RestSave == ConfigSaveInit /\ file = CHOOSE c \in Contents : TRUE
RestActions == ActionsInit /\ actionPath = NoActionPath /\ ~toolKnown
RestAttempt == ForwardAttemptInit /\ profile.kind = "bark" /\ profile.enabled
RestUpdate == UpdateInit /\ installed["onpath"] = Missing
RestConfiguration == ConfigurationInit /\ configFile = Unreadable

Init ==
    /\ part \in Parts
    /\ IF part = "conversations" THEN ConversationsInit ELSE RestConversations
    /\ IF part = "paging" THEN PagingInit ELSE RestPaging
    /\ IF part = "stream" THEN StreamInit ELSE RestStream
    /\ IF part = "save" THEN ConfigSaveInit ELSE RestSave
    /\ SessionsInit
    /\ LimiterInit
    /\ HealthInit
    /\ IF part = "actions" THEN ActionsInit ELSE RestActions
    /\ StatusInit
    /\ ImsInit
    /\ QmiInit
    /\ DbusSenderInit
    /\ IF part = "attempt" THEN ForwardAttemptInit ELSE RestAttempt
    /\ DeliveryLeaseInit
    /\ RecoveryScheduleInit
    /\ IF part = "update" THEN UpdateInit ELSE RestUpdate
    /\ IF part = "configuration" THEN ConfigurationInit ELSE RestConfiguration
    /\ ReportingInit

Next ==
    /\ UNCHANGED part
    /\ IF part = "conversations" THEN ConversationsNext
       ELSE UNCHANGED conversationVars
    /\ IF part = "paging" THEN PagingNext ELSE UNCHANGED pagingVars
    /\ IF part = "stream" THEN StreamNext ELSE UNCHANGED streamVars
    /\ IF part = "save" THEN ConfigSaveNext ELSE UNCHANGED saveVars
    /\ IF part = "sessions" THEN SessionsNext ELSE UNCHANGED sessionVars
    /\ IF part = "limiter" THEN LimiterNext ELSE UNCHANGED limiterVars
    /\ IF part = "health" THEN HealthNext ELSE UNCHANGED healthVars
    /\ IF part = "actions" THEN ActionsNext ELSE UNCHANGED actionVars
    /\ IF part = "status" THEN StatusNext ELSE UNCHANGED statusVars
    /\ IF part = "ims" THEN ImsNext ELSE UNCHANGED imsVars
    /\ IF part = "qmi" THEN QmiNext ELSE UNCHANGED qmiVars
    /\ IF part = "sender" THEN DbusSenderNext ELSE UNCHANGED senderVars
    /\ IF part = "attempt" THEN ForwardAttemptNext ELSE UNCHANGED attemptVars
    /\ IF part = "lease" THEN DeliveryLeaseNext ELSE UNCHANGED leaseVars
    /\ IF part = "schedule" THEN RecoveryScheduleNext
       ELSE UNCHANGED scheduleVars
    /\ IF part = "update" THEN UpdateNext ELSE UNCHANGED updateVars
    /\ IF part = "configuration" THEN ConfigurationNext
       ELSE UNCHANGED configVars
    /\ IF part = "reporting" THEN ReportingNext ELSE UNCHANGED reportVars

Spec == /\ Init /\ [][Next]_vars
        /\ StreamFairness /\ ConfigSaveFairness

----------------------------------------------------------------------------
\* Every component keeps to its types: ids, revisions, tokens and paths stay
\* among those that exist, counters within their bounds.
ComponentsTypeOK ==
    /\ ConversationsTypeOK /\ PagingTypeOK
    /\ EventStreamTypeOK /\ ConfigSaveTypeOK
    /\ SessionsTypeOK /\ LimiterTypeOK
    /\ ModemHealthTypeOK /\ ModemActionsTypeOK
    /\ ModemStatusTypeOK /\ ImsProbeTypeOK
    /\ QmiClientTypeOK /\ DbusSenderTypeOK
    /\ ForwardAttemptTypeOK /\ DeliveryLeaseTypeOK
    /\ RecoveryScheduleTypeOK /\ UpdateTypeOK
    /\ ConfigurationTypeOK /\ ReportingTypeOK
===========================================================================
