---------------------------- MODULE ModemActions ----------------------------
(***************************************************************************)
(* Enable, disable and reset of the modem (src/src/modem.rs,               *)
(* ModemService::run_action and can_reset; src/src/api/modem.rs).  One     *)
(* action at a time; a session that has reset the modem has to wait before *)
(* it may again.                                                           *)
(*                                                                         *)
(* Abstractions.  Instant::now() is actionClock.  An mmcli call takes at   *)
(* most MmcliTime; what the modem makes of it does not matter.  The path   *)
(* the inbound worker publishes (modules ModemIdentity and Inbound) may    *)
(* change any time here.                                                   *)
(***************************************************************************)
EXTENDS Integers, FiniteSets

CONSTANTS
    Requests,       \* concurrent requests
    NoRequest,
    Operators,      \* sessions
    ActionPaths,    \* modem object paths
    NoActionPath,
    ResetLimit,     \* RESET_RATE_LIMIT
    MmcliTime,      \* MMCLI_TIMEOUT
    ActionEnd       \* bound on the clock

ASSUME ModemActionsAssumption ==
    /\ NoRequest \notin Requests
    /\ NoActionPath \notin ActionPaths
    /\ {ResetLimit, MmcliTime, ActionEnd} \subseteq Nat

VARIABLES
    actionClock,
    actionPath,     \* the verified action path
    toolKnown,      \* capabilities are cached
    request,        \* request[r]
    actionLock,     \* the holder of action_lock
    limits,         \* reset_limits: limits[o], when o last asked for a reset
    resets          \* resets[o]: when mmcli --reset was started for o

actionVars == <<actionClock, actionPath, toolKnown, request, actionLock,
                limits, resets>>

Beforehand == 0 - 1
ActionTimes == 0..ActionEnd
NoAction == [at |-> "idle", by |-> NoRequest, reset |-> FALSE,
             path |-> NoActionPath, since |-> 0]
ActionRecords == [at: {"detecting", "running"}, by: Operators, reset: BOOLEAN,
                  path: ActionPaths, since: ActionTimes]

\* Every state has these types.
ModemActionsTypeOK ==
    /\ actionClock \in ActionTimes
    /\ actionPath \in ActionPaths \cup {NoActionPath}
    /\ toolKnown \in BOOLEAN
    /\ request \in [Requests -> ActionRecords \cup {NoAction}]
    /\ actionLock \in Requests \cup {NoRequest}
    /\ limits \in [Operators -> ActionTimes \cup {Beforehand}]
    /\ resets \in [Operators -> SUBSET ActionTimes]

----------------------------------------------------------------------------
\* A mutant: the limit is asked, and noted when the reset has succeeded.
ResetNotNoted(o) == limits' = limits

\* can_reset: an entry as old as the limit is dropped, and a new one made
\* whatever becomes of this reset.
NoteReset(o) == limits' = [limits EXCEPT ![o] = actionClock]

MayReset(o) ==
    limits[o] = Beforehand \/ actionClock - limits[o] >= ResetLimit

ActionsInit ==
    /\ actionClock = 0
    /\ actionPath \in ActionPaths \cup {NoActionPath}
    /\ toolKnown \in BOOLEAN
    /\ request = [r \in Requests |-> NoAction]
    /\ actionLock = NoRequest
    /\ limits = [o \in Operators |-> Beforehand]
    /\ resets = [o \in Operators |-> {}]

\* A mutant: the guard of the lock is dropped at once.
BeginUnguarded(r, o, reset) ==
    /\ request[r] = NoAction
    /\ actionLock = NoRequest
    /\ actionPath # NoActionPath
    /\ reset => MayReset(o)
    /\ IF reset THEN NoteReset(o) ELSE limits' = limits
    /\ request' = [request EXCEPT ![r] =
                     [at |-> "detecting", by |-> o, reset |-> reset,
                      path |-> actionPath, since |-> actionClock]]
    /\ UNCHANGED <<actionClock, actionPath, toolKnown, actionLock, resets>>

\* run_action, up to the first call of mmcli.  Refused requests, because of
\* the lock, the path or the limit, change nothing.
BeginAction(r, o, reset) ==
    /\ request[r] = NoAction
    /\ actionLock = NoRequest
    /\ actionPath # NoActionPath
    /\ reset => MayReset(o)
    /\ IF reset THEN NoteReset(o) ELSE limits' = limits
    /\ actionLock' = r
    /\ request' = [request EXCEPT ![r] =
                     [at |-> "detecting", by |-> o, reset |-> reset,
                      path |-> actionPath, since |-> actionClock]]
    /\ UNCHANGED <<actionClock, actionPath, toolKnown, resets>>

ReleaseLock(r) == IF actionLock = r THEN NoRequest ELSE actionLock

\* detect_capabilities found mmcli, or knew of it: the command starts.
StartCommand(r) ==
    /\ request[r].at = "detecting"
    /\ toolKnown' = TRUE
    /\ request' = [request EXCEPT ![r].at = "running",
                                  ![r].since = actionClock]
    /\ LET o == request[r].by
       IN  resets' = IF request[r].reset
                     THEN [resets EXCEPT ![o] = @ \cup {actionClock}]
                     ELSE resets
    /\ UNCHANGED <<actionClock, actionPath, actionLock, limits>>

\* ... or it did not find it: mmcli_missing, and nothing is cached.
ToolMissing(r) ==
    /\ request[r].at = "detecting"
    /\ ~toolKnown
    /\ request' = [request EXCEPT ![r] = NoAction]
    /\ actionLock' = ReleaseLock(r)
    /\ UNCHANGED <<actionClock, actionPath, toolKnown, limits, resets>>

\* The command ends, or it is killed after its time; or the handler is
\* dropped, which kills the command as well.
EndAction(r) ==
    /\ request[r].at \in {"detecting", "running"}
    /\ request' = [request EXCEPT ![r] = NoAction]
    /\ actionLock' = ReleaseLock(r)
    /\ UNCHANGED <<actionClock, actionPath, toolKnown, limits, resets>>

\* set_modem_targets, by the inbound worker.
PublishTarget(p) ==
    /\ actionPath' = p
    /\ UNCHANGED <<actionClock, toolKnown, request, actionLock, limits,
                   resets>>

ActionTick ==
    /\ actionClock < ActionEnd
    /\ \A r \in Requests :
         request[r] # NoAction => actionClock - request[r].since < MmcliTime
    /\ actionClock' = actionClock + 1
    /\ UNCHANGED <<actionPath, toolKnown, request, actionLock, limits, resets>>

ActionsNext ==
    \/ \E r \in Requests, o \in Operators, reset \in BOOLEAN :
         BeginAction(r, o, reset)
    \/ \E r \in Requests : StartCommand(r) \/ ToolMissing(r) \/ EndAction(r)
    \/ \E p \in ActionPaths \cup {NoActionPath} : PublishTarget(p)
    \/ ActionTick

ActionsSpec == ActionsInit /\ [][ActionsNext]_actionVars

----------------------------------------------------------------------------
\* Two commands for the modem never run at the same time.
OneCommand == Cardinality({r \in Requests : request[r].at = "running"}) <= 1

\* The limit holds for the commands, not only for its own entries: between
\* two resets of one session lie at least the limit less the time that the
\* search for mmcli may take in between.
ResetsSpaced ==
    \A o \in Operators : \A s, t \in resets[o] :
       s < t => t - s >= ResetLimit - MmcliTime

\* Commands go to the modem one after the other, and the resets of a session
\* at the distance the limit asks for (run_action, can_reset).
CommandsTakeTurns ==
    /\ OneCommand
    /\ ResetsSpaced
=============================================================================
