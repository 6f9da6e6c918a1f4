------------------------- MODULE RecoverySchedule -------------------------
(***************************************************************************)
(* Whose turn it is in outbound recovery: run_outbound_worker              *)
(* (src/src/messaging.rs) claims the due message with the smallest id      *)
(* (storage/messages.rs, claim_due_outbound), asks the modem about it,     *)
(* which takes time, and puts it off for a while when the answer settles   *)
(* nothing. Outbound has what a recovery does; this module has time, and   *)
(* many messages.                                                          *)
(*                                                                         *)
(* Abstractions.  The worker looks again at once when a message becomes    *)
(* due (it sleeps for a second), and a turn always ends with an answer or  *)
(* a deferral; one that breaks off leaves a lease longer than either.      *)
(***************************************************************************)
EXTENDS Integers

CONSTANTS
    Pending,          \* unresolved messages, with ids 1..Pending
    Deferral,         \* the delay of defer_outbound, five seconds
    InspectTime       \* longest time a turn takes

ASSUME ScheduleAssumption ==
    {Pending, Deferral, InspectTime} \subseteq Nat \ {0}

VARIABLES
    rest,             \* time until each message is due, 0 when it is
    unresolved,       \* messages that are not settled yet
    turn,             \* the message inspected, 0 for none, and for how long
    overdue,          \* how long each due message has been waiting
    crowded           \* messages that wait for a turn not short for them

scheduleVars == <<rest, unresolved, turn, overdue, crowded>>

OutboundIds == 1..Pending
NoTurn == [id |-> 0, time |-> 0]

\* The wait of the i-th message if every smaller id and one other have a turn.
LongestWait(i) == i * InspectTime

\* Turns as long as t are short for message i: of the smaller ids, all but the
\* first have one while the first is put off, and time is left.
Short(i, t) == (i - 2) * t < Deferral

\* Every state has these types.
RecoveryScheduleTypeOK ==
    /\ rest \in [OutboundIds -> 0..Deferral]
    /\ unresolved \subseteq OutboundIds
    /\ turn \in [id : 0..Pending, time : 0..InspectTime]
    /\ overdue \in [OutboundIds -> 0..(LongestWait(Pending) + 1)]
    /\ crowded \subseteq OutboundIds

\* After a restart every interrupted message is due.
RecoveryScheduleInit ==
    /\ rest = [i \in OutboundIds |-> 0]
    /\ unresolved = OutboundIds
    /\ turn = NoTurn
    /\ overdue = [i \in OutboundIds |-> 0]
    /\ crowded = {}

Due == {i \in unresolved : rest[i] = 0 /\ turn.id # i}

ClaimDue ==
    /\ turn.id = 0
    /\ \E i \in Due :
          /\ \A j \in Due : i <= j
          /\ turn' = [id |-> i, time |-> 0]
          /\ overdue' = [overdue EXCEPT ![i] = 0]
          /\ crowded' = crowded \ {i}
    /\ UNCHANGED <<rest, unresolved>>

\* A mutant: it is due again at once.
FinishTurnAtOnce ==
    /\ turn.id # 0
    /\ turn' = NoTurn
    /\ unresolved' \in {unresolved, unresolved \ {turn.id}}
    /\ UNCHANGED <<rest, overdue, crowded>>

\* The inspection settles the message, or it is put off.
FinishTurn ==
    /\ turn.id # 0
    /\ turn' = NoTurn
    /\ \/ unresolved' = unresolved \ {turn.id} /\ UNCHANGED rest
       \/ rest' = [rest EXCEPT ![turn.id] = Deferral] /\ UNCHANGED unresolved
    /\ UNCHANGED <<overdue, crowded>>

\* Time passes while the modem is asked, or while nothing is due and the
\* worker sleeps; it claims at once otherwise.
ScheduleTick ==
    /\ IF turn.id = 0 THEN Due = {} ELSE turn.time < InspectTime
    /\ turn' = IF turn.id = 0 THEN turn ELSE [turn EXCEPT !.time = @ + 1]
    /\ rest' = [i \in OutboundIds |-> IF rest[i] > 0 THEN rest[i] - 1 ELSE 0]
    /\ overdue' = [i \in OutboundIds |->
                     IF i \in Due /\ overdue[i] <= LongestWait(Pending)
                     THEN overdue[i] + 1 ELSE overdue[i]]
    /\ crowded' = crowded \cup {i \in Due : ~Short(i, turn.time + 1)}
    /\ UNCHANGED unresolved

RecoveryScheduleNext == ClaimDue \/ FinishTurn \/ ScheduleTick
RecoveryScheduleSpec ==
    RecoveryScheduleInit /\ [][RecoveryScheduleNext]_scheduleVars

---------------------------------------------------------------------------
\* A due message gets its turn within a bounded time, however often those with
\* smaller ids come back, unless a turn that it waits for is not short for it:
\* the first two are never kept from theirs, and the i-th only by turns of
\* Deferral / (i - 2) and longer (claim_due_outbound, defer_outbound).
EveryoneGetsATurn ==
    \A i \in unresolved : overdue[i] > LongestWait(i) => i \in crowded
===========================================================================
