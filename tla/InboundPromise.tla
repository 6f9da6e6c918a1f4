--------------------------- MODULE InboundPromise ---------------------------
(***************************************************************************)
(* What a user may rely on for the messages that arrive, with no           *)
(* subscription, signal, task or dedupe key in sight: a message is stored  *)
(* only with the text the modem received, it is stored and forwarded in    *)
(* one step and never again while it is in the store, and it leaves the    *)
(* store only when somebody deletes it.                                    *)
(***************************************************************************)
EXTENDS Naturals

CONSTANTS
    Messages,   \* the messages that arrive
    Earlier     \* those stored by an earlier version of the program

VARIABLES
    received,   \* the messages whose text a modem holds
    stored,     \* the messages in the store
    forwarded   \* forwarded[m]: how often m was handed to the forwarding queue

promiseVars == <<received, stored, forwarded>>

PromiseInit ==
    /\ received = Earlier
    /\ stored = Earlier
    /\ forwarded = [m \in Messages |-> IF m \in Earlier THEN 1 ELSE 0]

Receive(m) ==
    /\ m \notin received
    /\ received' = received \cup {m}
    /\ UNCHANGED <<stored, forwarded>>

Store(m) ==
    /\ m \in received \ stored
    /\ stored' = stored \cup {m}
    /\ forwarded' = [forwarded EXCEPT ![m] = @ + 1]
    /\ UNCHANGED received

Forget(m) ==
    /\ m \in stored
    /\ stored' = stored \ {m}
    /\ UNCHANGED <<received, forwarded>>

PromiseNext == \E m \in Messages : Receive(m) \/ Store(m) \/ Forget(m)

PromiseSpec == PromiseInit /\ [][PromiseNext]_promiseVars
=============================================================================
