----------------------------- MODULE ModemHealth -----------------------------
(***************************************************************************)
(* The public health of the modem and its cache (src/src/modem.rs,         *)
(* ModemService::public_health).  A refresh asks mmcli several times and   *)
(* takes long; the cache keeps concurrent callers from asking each for     *)
(* itself.                                                                 *)
(*                                                                         *)
(* Abstractions.  Instant::now() is healthClock, in units of which a       *)
(* refresh takes at most RefreshTime: every mmcli call ends after 5        *)
(* seconds.  What the refresh finds is the matter of module ModemStatus;   *)
(* here a result is the time at which its refresh began.  The service      *)
(* asks for one configured path only.                                      *)
(***************************************************************************)
EXTENDS Integers

CONSTANTS
    Callers,        \* concurrent requests for the health
    NoCaller,
    FreshFor,       \* HEALTH_CACHE_TTL
    StaleFor,       \* HEALTH_STALE_MAX
    RefreshTime,    \* bound on the time a refresh takes
    HealthEnd       \* bound on the clock

ASSUME ModemHealthAssumption ==
    /\ NoCaller \notin Callers
    /\ {FreshFor, StaleFor, RefreshTime, HealthEnd} \subseteq Nat
    /\ FreshFor <= StaleFor

VARIABLES
    healthClock,
    cached,         \* health_cache: when it was written, of which refresh
    refresher,      \* the holder of health_refresh_lock
    begun,          \* when its refresh began
    caller,         \* caller[c]: "idle", "waiting" or "refreshing"
    given,          \* the last answer: its age, and whether it was fresh
    refreshed       \* when a refresh last wrote its result

healthVars == <<healthClock, cached, refresher, begun, caller, given,
                refreshed>>

Never == 0 - 1
Moments == 0..HealthEnd
NothingCached == [at |-> Never, of |-> Never]
NoAnswer == [age |-> 0, fresh |-> TRUE]

\* Every state has these types.
ModemHealthTypeOK ==
    /\ healthClock \in Moments
    /\ cached \in [at: Moments, of: Moments] \cup {NothingCached}
    /\ refresher \in Callers \cup {NoCaller}
    /\ begun \in Moments \cup {Never}
    /\ caller \in [Callers -> {"idle", "waiting", "refreshing"}]
    /\ given \in [age: Moments, fresh: BOOLEAN]
    /\ refreshed \in Moments \cup {Never}

----------------------------------------------------------------------------
Cached == cached # NothingCached
FreshResult == Cached /\ healthClock - cached.at < FreshFor
Refreshing == refresher # NoCaller

\* A mutant: the older result will do whether or not it is being refreshed.
UsableOld == Cached /\ healthClock - cached.at < StaleFor

\* A result that is not fresh will do while another caller refreshes it.
UsableResult ==
    \/ FreshResult
    \/ Cached /\ healthClock - cached.at < StaleFor /\ Refreshing

Give == given' = [age |-> healthClock - cached.of, fresh |-> FreshResult]

HealthInit ==
    /\ healthClock = 0 /\ cached = NothingCached
    /\ refresher = NoCaller /\ begun = Never
    /\ caller = [c \in Callers |-> "idle"]
    /\ given = NoAnswer /\ refreshed = Never

\* public_health, up to the lock.
AskHealth(c) ==
    /\ caller[c] = "idle"
    /\ IF UsableResult THEN Give /\ caller' = caller
       ELSE given' = NoAnswer /\ caller' = [caller EXCEPT ![c] = "waiting"]
    /\ UNCHANGED <<healthClock, cached, refresher, begun, refreshed>>

\* A mutant: the cache is not looked at again behind the lock.
RefreshAnyway(c) ==
    /\ caller[c] = "waiting"
    /\ ~Refreshing
    /\ caller' = [caller EXCEPT ![c] = "refreshing"]
    /\ refresher' = c
    /\ begun' = healthClock
    /\ given' = NoAnswer
    /\ UNCHANGED <<healthClock, cached, refreshed>>

\* The lock, and the second look at the cache.
EnterRefresh(c) ==
    /\ caller[c] = "waiting"
    /\ ~Refreshing
    /\ IF FreshResult
       THEN /\ Give
            /\ caller' = [caller EXCEPT ![c] = "idle"]
            /\ UNCHANGED <<refresher, begun>>
       ELSE /\ given' = NoAnswer
            /\ caller' = [caller EXCEPT ![c] = "refreshing"]
            /\ refresher' = c
            /\ begun' = healthClock
    /\ UNCHANGED <<healthClock, cached, refreshed>>

\* The result of the refresh, into the cache and to the caller.
FinishRefresh(c) ==
    /\ caller[c] = "refreshing"
    /\ caller' = [caller EXCEPT ![c] = "idle"]
    /\ cached' = [at |-> healthClock, of |-> begun]
    /\ refreshed' = healthClock
    /\ given' = [age |-> healthClock - begun, fresh |-> TRUE]
    /\ refresher' = NoCaller
    /\ begun' = Never
    /\ UNCHANGED healthClock

\* The request is given up, its handler dropped; the lock goes with it.
GiveUpHealth(c) ==
    /\ caller[c] # "idle"
    /\ caller' = [caller EXCEPT ![c] = "idle"]
    /\ given' = NoAnswer
    /\ IF refresher = c THEN refresher' = NoCaller /\ begun' = Never
       ELSE UNCHANGED <<refresher, begun>>
    /\ UNCHANGED <<healthClock, cached, refreshed>>

HealthTick ==
    /\ healthClock < HealthEnd
    /\ Refreshing => healthClock - begun < RefreshTime
    /\ healthClock' = healthClock + 1
    /\ given' = NoAnswer
    /\ UNCHANGED <<cached, refresher, begun, caller, refreshed>>

HealthNext ==
    \/ \E c \in Callers : \/ AskHealth(c) \/ EnterRefresh(c)
                          \/ FinishRefresh(c) \/ GiveUpHealth(c)
    \/ HealthTick

HealthSpec == HealthInit /\ [][HealthNext]_healthVars

----------------------------------------------------------------------------
\* An answer is never older than a refresh takes and, if none is under way,
\* the time that a result is fresh; while one is, the longer time.
AnswersRecent ==
    /\ given.age <= RefreshTime + (IF given.fresh THEN FreshFor ELSE StaleFor)
    /\ ~given.fresh => Refreshing

\* Callers that queued for the lock while the result was read do not read it
\* once more each: no refresh begins while the last result is fresh.
RefreshesSpaced ==
    \A c \in Callers :
        refresher # c /\ refresher' = c =>
          refreshed = Never \/ healthClock - refreshed >= FreshFor

\* The cache bounds both the age of what callers are told and the load on the
\* modem, in every order of callers that wait, refresh and are dropped
\* (public_health).
HealthIsRecent == [][AnswersRecent' /\ RefreshesSpaced]_healthVars
=============================================================================
