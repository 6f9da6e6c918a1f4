----------------------------- MODULE QmiClient -----------------------------
(***************************************************************************)
(* One QMI query after another through qmi-proxy (src/src/modem/ims/       *)
(* qmi.rs, ProxyQmiClient).  Each opens its own connection, has the modem  *)
(* allocate a client id, asks, and leaves the release of the id to a task  *)
(* that goes on with the connection; so releases overlap later queries.    *)
(*                                                                         *)
(* Abstractions.  A frame is whether it parses as the answer that is       *)
(* expected.  An id is the query it was allocated for.  What the proxy     *)
(* does with an id whose connection closes without a release is its own    *)
(* business and not modelled: here the id stays allocated.                 *)
(***************************************************************************)
EXTENDS Naturals

CONSTANT MaxQueries     \* bound on queries

ASSUME QmiClientAssumption == MaxQueries \in Nat

VARIABLES
    query,          \* queries begun
    exchange,       \* of the last one
    modemIds,       \* ids the modem has allocated and not released
    releasing,      \* queries whose id a task is releasing
    cutOff          \* queries that ended, or whose release did, by a
                    \* timeout, a broken connection or a malformed frame

qmiVars == <<query, exchange, modemIds, releasing, cutOff>>

Queries == 1..MaxQueries
Steps == {"idle", "open", "ctl", "allocate", "allocated", "ask"}

\* Every state has these types.
QmiClientTypeOK ==
    /\ query \in 0..MaxQueries
    /\ exchange \in Steps
    /\ {modemIds, releasing, cutOff} \subseteq SUBSET (1..query)

----------------------------------------------------------------------------
QmiInit ==
    /\ query = 0 /\ exchange = "idle"
    /\ modemIds = {} /\ releasing = {} /\ cutOff = {}

Step(from, to) == exchange = from /\ exchange' = to

\* request_inner: the connection and QMI_PROXY_OPEN.
BeginQuery ==
    /\ query < MaxQueries
    /\ Step("idle", "open")
    /\ query' = query + 1
    /\ UNCHANGED <<modemIds, releasing, cutOff>>

\* A query of the control service needs no id.
Opened ==
    /\ Step("open", "ctl") \/ Step("open", "allocate")
    /\ UNCHANGED <<query, modemIds, releasing, cutOff>>

AnswerCtl ==
    /\ Step("ctl", "idle")
    /\ UNCHANGED <<query, modemIds, releasing, cutOff>>

\* The modem allocates; the answer is not read yet.
ModemAllocates ==
    /\ Step("allocate", "allocated")
    /\ modemIds' = modemIds \cup {query}
    /\ UNCHANGED <<query, releasing, cutOff>>

ReadAllocation ==
    /\ Step("allocated", "ask")
    /\ UNCHANGED <<query, modemIds, releasing, cutOff>>

\* A mutant: a query that the modem refuses returns its error at once.
AnswerOrReturn ==
    /\ Step("ask", "idle")
    /\ releasing' \in {releasing, releasing \cup {query}}
    /\ UNCHANGED <<query, modemIds, cutOff>>

\* The answer, a refusal, a frame that does not parse or an error of the
\* connection: whichever it is, the task is spawned.
AnswerQuery ==
    /\ Step("ask", "idle")
    /\ releasing' = releasing \cup {query}
    /\ UNCHANGED <<query, modemIds, cutOff>>

\* Before that: the query fails, or its time is over and its future dropped.
\* The connection closes.
CutOff ==
    /\ exchange # "idle"
    /\ exchange' = "idle"
    /\ cutOff' = cutOff \cup {query}
    /\ UNCHANGED <<query, modemIds, releasing>>

\* The task: QMI_CTL_RELEASE_CID, under a timeout of its own.
Release(q) ==
    /\ q \in releasing
    /\ releasing' = releasing \ {q}
    /\ modemIds' = modemIds \ {q}
    /\ UNCHANGED <<query, exchange, cutOff>>

ReleaseFails(q) ==
    /\ q \in releasing
    /\ releasing' = releasing \ {q}
    /\ cutOff' = cutOff \cup {q}
    /\ UNCHANGED <<query, exchange, modemIds>>

QmiNext ==
    \/ BeginQuery \/ Opened \/ AnswerCtl \/ ModemAllocates \/ ReadAllocation
    \/ AnswerQuery \/ CutOff
    \/ \E q \in Queries : Release(q) \/ ReleaseFails(q)

QmiSpec == QmiInit /\ [][QmiNext]_qmiVars

----------------------------------------------------------------------------
\* The modem has few client ids: one stays allocated after its query only
\* while it is being released, or when something broke.  A query that the
\* modem answers, be it with a refusal, does not cost an id.
IdsComeBack ==
    \A q \in modemIds :
       \/ q = query /\ exchange \in {"allocated", "ask"}
       \/ q \in releasing
       \/ q \in cutOff
=============================================================================
