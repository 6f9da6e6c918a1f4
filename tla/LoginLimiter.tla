---------------------------- MODULE LoginLimiter ----------------------------
(***************************************************************************)
(* The limit on failed logins, per client address (src/src/api/auth.rs,    *)
(* SessionStore::authenticate).  A call reads the clock, waits for the     *)
(* mutex of the map, and judges by the time it read, which other calls may *)
(* have overtaken by then.                                                 *)
(*                                                                         *)
(* Abstractions.  Instant::now() is `now', which TickLogin moves; of the   *)
(* password only whether it matches is kept.  Whose call it is shows when  *)
(* it has the mutex, and not before.                                       *)
(***************************************************************************)
EXTENDS Integers, FiniteSets, Sequences

CONSTANTS
    Clients,        \* addresses, as login_client_ip gives them
    Logins,         \* calls that can be under way at a time
    MaxStall,       \* longest time a call is held up between clock and mutex
    MaxFailures,    \* MAX_LOGIN_FAILURES
    Window,         \* LOGIN_FAILURE_WINDOW, also the time of a lock
    Horizon         \* bound on now

ASSUME LoginLimiterAssumption ==
    /\ MaxFailures \in Nat \ {0, 1}
    /\ {Window, MaxStall} \subseteq Nat
    /\ Window # 0
    /\ Horizon \in Nat

VARIABLES
    now,
    stamp,          \* stamp[a]: the time that call a has read, or NotRead
    failures,       \* failures[c]: the entry of c in the map, or NoEntry
    guesses         \* guesses[c]: the times at which wrong passwords of c were
                    \* compared since its last login that succeeded

limiterVars == <<now, stamp, failures, guesses>>

NotRead == 0 - 1
Unlocked == 0 - 1
NoEntry == [start |-> 0, count |-> 0, lockedUntil |-> Unlocked]

\* Every state has these types.
LimiterTypeOK ==
    /\ now \in 0..Horizon
    /\ stamp \in [Logins -> NotRead..now]
    /\ failures \in [Clients -> [start: 0..Horizon, count: Nat,
                                 lockedUntil: Unlocked..Horizon + Window]]
    /\ guesses \in [Clients -> Seq(0..Horizon)]

----------------------------------------------------------------------------
\* The call reads the clock before it asks for the mutex.
ReadClock(a) ==
    /\ stamp[a] = NotRead
    /\ stamp' = [stamp EXCEPT ![a] = now]
    /\ UNCHANGED <<now, failures, guesses>>

\* It gives the mutex back.
Returns(a) == stamp' = [stamp EXCEPT ![a] = NotRead] /\ UNCHANGED now

Locked(entry, at) == entry.lockedUntil > at

\* A mutant: a lock is forgotten with the window it began in.
RetainedByWindow(at) ==
    [c \in Clients |->
        IF at - failures[c].start < Window THEN failures[c] ELSE NoEntry]

\* failures.retain, at every call, for all clients.
Retained(at) ==
    [c \in Clients |->
        IF Locked(failures[c], at) \/ at - failures[c].start < Window
        THEN failures[c] ELSE NoEntry]

\* A mutant: the lock comes one failure late.
AfterFailureLate(entry, at) ==
    LET old == IF entry = NoEntry \/ at - entry.start >= Window
               THEN [NoEntry EXCEPT !.start = at] ELSE entry
        count == old.count + 1
    IN  [old EXCEPT !.count = count,
                    !.lockedUntil = IF count > MaxFailures THEN at + Window
                                    ELSE @]

\* A failure counts in the window of the entry, or begins one.
AfterFailure(entry, at) ==
    LET old == IF entry = NoEntry \/ at - entry.start >= Window
               THEN [NoEntry EXCEPT !.start = at] ELSE entry
        count == old.count + 1
    IN  [old EXCEPT !.count = count,
                    !.lockedUntil = IF count >= MaxFailures THEN at + Window
                                    ELSE @]

\* A login with a wrong password, or with the right one; a client that is
\* locked is turned away before the comparison.
RateLimited(a, c) ==
    /\ stamp[a] # NotRead
    /\ Locked(Retained(stamp[a])[c], stamp[a])
    /\ failures' = Retained(stamp[a])
    /\ Returns(a)
    /\ UNCHANGED guesses

\* A mutant: all clients share the entry of the proxy they come through.
WrongPasswordShared(a, c) ==
    /\ stamp[a] # NotRead
    /\ ~Locked(Retained(stamp[a])[c], stamp[a])
    /\ failures' = [d \in Clients |->
                      AfterFailure(Retained(stamp[a])[c], stamp[a])]
    /\ guesses' = [guesses EXCEPT ![c] = Append(@, now)]
    /\ Returns(a)

WrongPassword(a, c) ==
    /\ stamp[a] # NotRead
    /\ ~Locked(Retained(stamp[a])[c], stamp[a])
    /\ failures' = [Retained(stamp[a]) EXCEPT ![c] = AfterFailure(@, stamp[a])]
    /\ guesses' = [guesses EXCEPT ![c] = Append(@, now)]
    /\ Returns(a)

RightPassword(a, c) ==
    /\ stamp[a] # NotRead
    /\ ~Locked(Retained(stamp[a])[c], stamp[a])
    /\ failures' = [Retained(stamp[a]) EXCEPT ![c] = NoEntry]
    /\ guesses' = [guesses EXCEPT ![c] = <<>>]
    /\ Returns(a)

TickLogin ==
    /\ now < Horizon
    /\ \A a \in Logins : stamp[a] # NotRead => now - stamp[a] < MaxStall
    /\ now' = now + 1
    /\ UNCHANGED <<stamp, failures, guesses>>

LimiterInit ==
    /\ now = 0
    /\ stamp = [a \in Logins |-> NotRead]
    /\ failures = [c \in Clients |-> NoEntry]
    /\ guesses = [c \in Clients |-> <<>>]

LimiterNext ==
    \/ \E a \in Logins : ReadClock(a)
    \/ \E a \in Logins, c \in Clients :
          RateLimited(a, c) \/ WrongPassword(a, c) \/ RightPassword(a, c)
    \/ TickLogin

LimiterSpec == LimiterInit /\ [][LimiterNext]_limiterVars

----------------------------------------------------------------------------
Guesses(c, times) == {i \in DOMAIN guesses[c] : guesses[c][i] \in times}

\* The window less the time a call may be held up: a call that judges by an old
\* time takes a lock, or begins a window, that ends so much sooner.
SureWindow == Window - MaxStall

\* The fixed window is no sliding one: the last failures of one window and
\* the first of the next fall close together.  Still no interval of the
\* length of the window, less the time calls are held up, holds more than
\* 2 * MaxFailures - 2 comparisons of a wrong password, in whatever order the
\* calls come by the mutex and whatever other clients do.
GuessesBounded ==
    \A c \in Clients, from \in 0..Horizon :
       Cardinality(Guesses(c, from..(from + SureWindow - 1)))
         <= 2 * MaxFailures - 2

\* A client is locked out only by failures of its own, as many as it takes
\* for calls that read the clock within one window, and no longer than a
\* window after the last of them.
LockedForCause ==
    \A c \in Clients :
       Locked(failures[c], now) =>
         LET last == failures[c].lockedUntil - Window
         IN  /\ Guesses(c, last..(last + MaxStall)) # {}
             /\ Cardinality(Guesses(c, (last - Window + 1)..(last + MaxStall)))
                  >= MaxFailures

\* The limit bounds those who guess and nobody else (authenticate).
LimitIsFair ==
    /\ GuessesBounded
    /\ LockedForCause
=============================================================================
