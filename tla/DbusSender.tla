---------------------------- MODULE DbusSender ----------------------------
(***************************************************************************)
(* The D-Bus client behind SmsSender (src/src/dbus/outbound.rs) and the    *)
(* connection its callers share (dbus/connection.rs): a lazily opened      *)
(* system-bus connection, replaced when a call on it failed, and the       *)
(* reading of what a Send call's answer means for the message.             *)
(*                                                                         *)
(* External: the bus, which may close every connection at any time, and    *)
(* ModemManager, which answers, refuses, keeps silent or dies.  A          *)
(* connection is the number of its opening.                                *)
(***************************************************************************)
EXTENDS Naturals, FiniteSets

CONSTANTS
    Senders,          \* concurrent callers
    MaxConnections,   \* bound: connections opened
    MaxDrops          \* bound: times the bus drops every connection

ASSUME DbusSenderAssumption == {MaxConnections, MaxDrops} \subseteq Nat

VARIABLES
    cache,            \* the shared connection, 0 for none
    opened,           \* connections opened so far
    alive,            \* the connections the bus still serves
    condemned,        \* history: connections a caller gave up on
    call,             \* the call each caller makes
    drops

senderVars == <<cache, opened, alive, condemned, call, drops>>

Operations == {"create", "send", "state", "snapshot"}
Outcomes == {"none", "ok", "accepted", "rejected", "not_attempted", "unknown",
             "error", "missing"}
NoCall == [op |-> "send", at |-> "rest", conn |-> 0, got |-> "none",
           transmits |-> FALSE]

\* Every state has these types.
DbusSenderTypeOK ==
    /\ cache \in 0..MaxConnections /\ opened \in 0..MaxConnections
    /\ alive \subseteq 1..opened /\ condemned \subseteq 1..opened
    /\ call \in [Senders ->
                    [op : Operations, at : {"rest", "calling", "failed"},
                     conn : 0..MaxConnections, got : Outcomes,
                     transmits : BOOLEAN]]
    /\ drops \in 0..MaxDrops

DbusSenderInit ==
    /\ cache = 0 /\ opened = 0 /\ alive = {} /\ condemned = {} /\ drops = 0
    /\ call = [s \in Senders |-> NoCall]

---------------------------------------------------------------------------
(* The connection cache. *)

\* get_or_connect, under its lock: use the cached connection or open one.
\* A caller without a connection never reaches the modem.
GetOrConnect(s) ==
    /\ call[s].at = "rest"
    /\ \E op \in Operations :
          \/ /\ cache # 0
             /\ call' = [call EXCEPT ![s] = [NoCall EXCEPT !.op = op,
                                             !.at = "calling", !.conn = cache]]
             /\ UNCHANGED <<cache, opened, alive>>
          \/ /\ cache = 0
             /\ opened < MaxConnections
             /\ opened' = opened + 1
             /\ alive' = alive \cup {opened + 1}
             /\ cache' = opened + 1
             /\ call' = [call EXCEPT ![s] = [NoCall EXCEPT !.op = op,
                                             !.at = "calling",
                                             !.conn = opened + 1]]
          \/ /\ cache = 0
             /\ call' = [call EXCEPT ![s] =
                            [NoCall EXCEPT !.op = op,
                             !.got = IF op = "send" THEN "not_attempted"
                                     ELSE "error"]]
             /\ UNCHANGED <<cache, opened, alive>>
    /\ UNCHANGED <<condemned, drops>>

\* Two mutants: whatever is cached goes; the cache keeps what failed.
DiscardCurrent(s) == cache' = 0
DiscardNothing(s) == cache' = cache

\* discard_if_current: another caller may have replaced the connection since.
DiscardIfCurrent(s) == cache' = IF cache = call[s].conn THEN 0 ELSE cache

Discard(s) ==
    /\ call[s].at = "failed"
    /\ DiscardIfCurrent(s)
    /\ condemned' = condemned \cup {call[s].conn}
    /\ call' = [call EXCEPT ![s].at = "rest"]
    /\ UNCHANGED <<opened, alive, drops>>

---------------------------------------------------------------------------
(* The calls. *)

Ends(s, got, transmits, next) ==
    /\ call' = [call EXCEPT ![s].got = got, ![s].transmits = transmits,
                            ![s].at = next]
    /\ UNCHANGED <<cache, opened, alive, condemned, drops>>

\* Error names that say the modem refused, and names that say nothing of what
\* it did, such as NoReply and Disconnected.
Refusals == {"modem_error", "access_denied", "invalid_args", "unknown_object"}
Silences == {"no_reply", "disconnected", "other"}

\* A mutant: no reply counts as a refusal.
IsSendRejectionAlsoNoReply(error) == error \in Refusals \cup {"no_reply"}

IsExplicitSendRejection(error) == error \in Refusals
ClassifySendError(error) ==
    IF IsExplicitSendRejection(error) THEN "rejected" ELSE "unknown"
ShouldDiscardSendConnection(got) == got = "unknown"
AfterSend(got) == IF ShouldDiscardSendConnection(got) THEN "failed" ELSE "rest"

\* send_prepared: the answer, an error, or none in thirty seconds.  Only an
\* accepted or unanswered call may lead to a transmission.
SendPrepared(s) ==
    /\ call[s].at = "calling" /\ call[s].op = "send"
    /\ \/ /\ call[s].conn \in alive
          /\ Ends(s, "accepted", TRUE, AfterSend("accepted"))
       \/ /\ call[s].conn \in alive
          /\ \E error \in Refusals :
                Ends(s, ClassifySendError(error), FALSE,
                     AfterSend(ClassifySendError(error)))
       \/ \E error \in Silences, transmits \in BOOLEAN :
             Ends(s, ClassifySendError(error), transmits,
                  AfterSend(ClassifySendError(error)))
       \/ \E transmits \in BOOLEAN :                        \* the timeout
             Ends(s, "unknown", transmits, AfterSend("unknown"))

\* create_sms: whatever fails, the connection is given up.
Prepare(s) ==
    /\ call[s].at = "calling" /\ call[s].op = "create"
    /\ \/ call[s].conn \in alive /\ Ends(s, "ok", FALSE, "rest")
       \/ Ends(s, "error", FALSE, "failed")

\* get_sms_snapshot: an object the modem does not list, or does not know, is
\* an answer and no failure.
SmsSnapshot(s) ==
    /\ call[s].at = "calling" /\ call[s].op = "snapshot"
    /\ \/ /\ call[s].conn \in alive
          /\ \E got \in {"ok", "missing"} : Ends(s, got, FALSE, "rest")
       \/ Ends(s, "error", FALSE, "failed")

SmsState(s) ==
    /\ call[s].at = "calling" /\ call[s].op = "state"
    /\ \/ /\ call[s].conn \in alive
          /\ \E got \in {"ok", "missing"} : Ends(s, got, FALSE, "rest")
       \/ Ends(s, "error", FALSE, "failed")

\* External: the bus restarts; nothing on the old connections is answered.
DropConnections ==
    /\ drops < MaxDrops /\ alive # {}
    /\ drops' = drops + 1
    /\ alive' = {}
    /\ UNCHANGED <<cache, opened, condemned, call>>

DbusSenderNext ==
    \/ DropConnections
    \/ \E s \in Senders : \/ GetOrConnect(s) \/ Discard(s) \/ SendPrepared(s)
                          \/ Prepare(s) \/ SmsSnapshot(s) \/ SmsState(s)
DbusSenderSpec == DbusSenderInit /\ [][DbusSenderNext]_senderVars

---------------------------------------------------------------------------
\* The answer to a Send never lies about the message: one that may have gone
\* out is not reported as refused or not attempted, which would fail the
\* message for good.
RefusedIsNotTransmitted ==
    \A s \in Senders :
        call[s].got \in {"rejected", "not_attempted"} => ~call[s].transmits

\* A connection some caller gave up on is never handed out again.
CondemnedIsGone == cache \notin condemned

\* A caller discards only the connection its own call failed on, never the
\* one another caller has put in its place.
DiscardsItsOwn ==
    cache # 0 /\ cache' = 0 =>
        \E s \in Senders : /\ call[s].at = "failed" /\ call[s].conn = cache
                           /\ call'[s].at = "rest"

\* Callers may trust the answer about their message and the connection they
\* share (send_prepared_sms, discard_if_current).
SenderIsHonest ==
    [][RefusedIsNotTransmitted' /\ CondemnedIsGone' /\ DiscardsItsOwn]_senderVars
===========================================================================
