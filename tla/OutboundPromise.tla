-------------------------- MODULE OutboundPromise --------------------------
(***************************************************************************)
(* What a caller of Messaging::send may rely on, with no owner, lease or   *)
(* recovery in sight: every accepted message is handed to the modem at     *)
(* most once and never after its verdict; `sent' means transmitted,        *)
(* `failed' means it was not and never will be; a verdict is final; only a *)
(* message with a verdict is forgotten.                                    *)
(***************************************************************************)
CONSTANT Messages

VARIABLES
    fate,       \* fate[m]: none, pending, sent, failed, unknown or gone
    handed,     \* the messages handed to the modem
    aired       \* the messages transmitted

promiseVars == <<fate, handed, aired>>

Fates == {"none", "pending", "sent", "failed", "unknown", "gone"}

PromiseInit ==
    /\ fate = [m \in Messages |-> "none"]
    /\ handed = {}
    /\ aired = {}

Accept(m) ==
    /\ fate[m] = "none"
    /\ fate' = [fate EXCEPT ![m] = "pending"]
    /\ UNCHANGED <<handed, aired>>

\* A slow owner may still do it after the operator gave the message up.
HandOver(m) ==
    /\ m \notin handed
    /\ fate[m] \in {"pending", "unknown", "gone"}
    /\ handed' = handed \cup {m}
    /\ UNCHANGED <<fate, aired>>

Air(m) ==
    /\ m \in handed \ aired
    /\ fate[m] # "failed"
    /\ aired' = aired \cup {m}
    /\ UNCHANGED <<fate, handed>>

Settle(m, verdict) ==
    /\ fate[m] = "pending"
    /\ verdict = "sent" => m \in aired
    /\ verdict = "failed" => m \notin aired
    /\ fate' = [fate EXCEPT ![m] = verdict]
    /\ UNCHANGED <<handed, aired>>

Forget(m) ==
    /\ fate[m] \in {"sent", "failed", "unknown"}
    /\ fate' = [fate EXCEPT ![m] = "gone"]
    /\ UNCHANGED <<handed, aired>>

PromiseNext ==
    \E m \in Messages :
        \/ Accept(m) \/ HandOver(m) \/ Air(m) \/ Forget(m)
        \/ \E verdict \in {"sent", "failed", "unknown"} : Settle(m, verdict)

PromiseSpec == PromiseInit /\ [][PromiseNext]_promiseVars
=============================================================================
