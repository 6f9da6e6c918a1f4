--------------------------- MODULE OutboundStore ---------------------------
(***************************************************************************)
(* The outbound half of the SQLite store (src/src/storage/messages.rs,     *)
(* src/src/storage/retention.rs): the message rows an outbound SMS goes    *)
(* through and the idempotency table.  Every action below is ONE           *)
(* transaction or one guarded UPDATE, so it is atomic; what happens        *)
(* between two of them is the business of module Outbound.                 *)
(*                                                                         *)
(* Abstractions.  A wall-clock lease_until is the flag `live' (its owner's *)
(* deadline has not passed); a wall-clock next_attempt_at is the flag      *)
(* `due'.  Number and body are one `content'.  The error text, updated_at, *)
(* read_at and favourite columns are left out.                             *)
(*                                                                         *)
(* A definition introduced as a mutant is a bug the code could have had;   *)
(* nothing uses it, the properties are tested against it.                  *)
(***************************************************************************)
EXTENDS Naturals

CONSTANTS
    Owners,     \* owner UUIDs: one per send call, one per worker incarnation
    NoOwner,    \* outbound_owner IS NULL
    MaxId,      \* bound on the AUTOINCREMENT message ids
    Keys,       \* idempotency keys
    NoKey,      \* the request carries no key (the CLI)
    Contents    \* (number, body, source) triples

ASSUME StoreAssumption ==
    /\ MaxId \in Nat
    /\ NoOwner \notin Owners
    /\ NoKey \notin Keys
    /\ Contents # {}

Ids    == 1 .. MaxId
NoId   == 0
NoPath == 0

Statuses == {"absent", "sending", "sent", "failed"}
Phases   == {"none", "created", "prepared", "send_started", "uncertain",
             "unknown", "complete"}

VARIABLES
    row,        \* row[m]: the messages row with id m ("absent": no such row)
    idem,       \* idem[k]: the outbound_idempotency row with key k
    nextId      \* the AUTOINCREMENT sequence

storeVars == <<row, idem, nextId>>

RowType  == [status: Statuses, phase: Phases, owner: Owners \cup {NoOwner},
             live: BOOLEAN, due: BOOLEAN, path: Nat]
IdemType == [used: BOOLEAN, msg: Ids \cup {NoId}, content: Contents]

StoreTypeOK ==
    /\ row \in [Ids -> RowType]
    /\ idem \in [Keys -> IdemType]
    /\ nextId \in 1 .. MaxId + 1

Blank == [status |-> "absent", phase |-> "none", owner |-> NoOwner,
          live |-> FALSE, due |-> TRUE, path |-> NoPath]

AnyContent == CHOOSE c \in Contents : TRUE

StoreInit ==
    /\ row = [m \in Ids |-> Blank]
    /\ idem = [k \in Keys |-> [used |-> FALSE, msg |-> NoId, content |-> AnyContent]]
    /\ nextId = 1

Terminal == {"sent", "failed"}

\* Mutant: the comparison of the owner is dropped.
OwnedBySending(m, o) == row[m].status = "sending"

\* The guard `status = 'sending' AND outbound_owner = owner' every write of a
\* running operation carries.
Owns(m, o) == row[m].status = "sending" /\ row[m].owner = o

\* The row has no owner, or its owner's lease has run out.
Unheld(m) == row[m].owner = NoOwner \/ ~row[m].live

\* DELETE_BLOCKED_SQL
DeleteBlocked(m) == row[m].status = "sending" /\ row[m].phase # "unknown"

\* One guarded UPDATE of row m.
Update(m, r) ==
    /\ row' = [row EXCEPT ![m] = r]
    /\ UNCHANGED <<idem, nextId>>

(***************************************************************************)
(* create_or_get_outbound                                                  *)
(***************************************************************************)
\* Mutant: a key is forgotten with its message.
KeyInUseWithMessage(k) == k # NoKey /\ idem[k].used /\ idem[k].msg # NoId

KeyInUse(k) == k # NoKey /\ idem[k].used

\* Mutant: the request is not compared.
ReplayableAnyRequest(k, c) ==
    /\ KeyInUse(k)
    /\ idem[k].msg # NoId
    /\ row[idem[k].msg].status # "absent"

\* The key is known for the same request and its row is still there.
Replayable(k, c) ==
    /\ KeyInUse(k)
    /\ idem[k].content = c
    /\ idem[k].msg # NoId
    /\ row[idem[k].msg].status # "absent"

Insert(m, o, k, c) ==
    /\ ~KeyInUse(k)
    /\ m = nextId
    /\ m \in Ids
    /\ nextId' = nextId + 1
    /\ row' = [row EXCEPT ![m] = [status |-> "sending", phase |-> "created",
                                  owner |-> o, live |-> TRUE, due |-> TRUE,
                                  path |-> NoPath]]
    /\ idem' = IF k = NoKey THEN idem
               ELSE [idem EXCEPT ![k] = [used |-> TRUE, msg |-> m, content |-> c]]

(***************************************************************************)
(* claim_due_outbound: the lowest id that is due and unheld                *)
(***************************************************************************)
\* Mutant: a send that was cut short is left alone.
PhasesWithoutStarted == {"created", "prepared", "uncertain"}

RecoverablePhases == {"created", "prepared", "send_started", "uncertain"}

DueForRecovery ==
    {m \in Ids : /\ row[m].status = "sending"
                 /\ row[m].phase \in RecoverablePhases
                 /\ row[m].due
                 /\ Unheld(m)}

ClaimDue(m, o) ==
    /\ m \in DueForRecovery
    /\ \A other \in DueForRecovery : m <= other
    /\ Update(m, [row[m] EXCEPT !.owner = o, !.live = TRUE, !.due = TRUE])

(***************************************************************************)
(* transition_outbound, for set_outbound_prepared and begin_outbound_send. *)
(* The lease is renewed; the guard compares owner and phase but not the    *)
(* deadline, so a lapsed lease nobody claimed is revived.                  *)
(***************************************************************************)
CanPrepare(m, o) == Owns(m, o) /\ row[m].phase = "created"

SetPrepared(m, o, path) ==
    /\ CanPrepare(m, o)
    /\ Update(m, [row[m] EXCEPT !.phase = "prepared", !.path = path,
                                !.live = TRUE, !.due = TRUE])

CanBegin(m, o) == Owns(m, o) /\ row[m].phase = "prepared"

BeginSend(m, o) ==
    /\ CanBegin(m, o)
    /\ Update(m, [row[m] EXCEPT !.phase = "send_started", !.live = TRUE, !.due = TRUE])

(***************************************************************************)
(* defer_outbound.  A deferral to `unknown' has no next attempt; every     *)
(* other one is not due for five seconds.  The phase is not compared.      *)
(***************************************************************************)
Defer(m, o, phase) ==
    /\ Owns(m, o)
    /\ Update(m, [row[m] EXCEPT !.phase = phase, !.owner = NoOwner,
                                !.live = FALSE, !.due = (phase = "unknown")])

\* The five seconds of a deferral are over.
BecomesDue(m) ==
    /\ row[m].status = "sending"
    /\ ~row[m].due
    /\ Update(m, [row[m] EXCEPT !.due = TRUE])

(***************************************************************************)
(* finish_claimed_outbound.  Owner and lease stay: they now guard the      *)
(* pending MessageUpdated event.                                           *)
(***************************************************************************)
\* Mutant: the terminal row leaves the outbox at once.
FinishUnannounced(m, o, status) ==
    /\ Owns(m, o)
    /\ Update(m, [row[m] EXCEPT !.status = status, !.phase = "none", !.owner = NoOwner,
                                !.live = FALSE, !.due = TRUE])

Finish(m, o, status) ==
    /\ Owns(m, o)
    /\ Update(m, [row[m] EXCEPT !.status = status, !.phase = "complete", !.due = TRUE])

(***************************************************************************)
(* claim_pending_outbound_event, acknowledge_outbound_event                *)
(***************************************************************************)
\* Mutant: an event whose owner died is nobody's.
UnownedEvents == {m \in Ids : row[m].status \in Terminal /\ row[m].phase = "complete"
                                /\ row[m].owner = NoOwner}

PendingEvents ==
    {m \in Ids : /\ row[m].status \in Terminal
                 /\ row[m].phase = "complete"
                 /\ Unheld(m)}

ClaimEvent(m, o) ==
    /\ m \in PendingEvents
    /\ \A other \in PendingEvents : m <= other
    /\ Update(m, [row[m] EXCEPT !.owner = o, !.live = TRUE])

CanAcknowledge(m, o) == row[m].phase = "complete" /\ row[m].owner = o

Acknowledge(m, o) ==
    /\ CanAcknowledge(m, o)
    /\ Update(m, [row[m] EXCEPT !.phase = "none", !.owner = NoOwner, !.live = FALSE])

(***************************************************************************)
(* renew_outbound_lease, and the deadline passing                          *)
(***************************************************************************)
Renew(m, o) ==
    /\ Owns(m, o)
    /\ Update(m, [row[m] EXCEPT !.live = TRUE])

Lapse(m) ==
    /\ row[m].owner # NoOwner
    /\ row[m].live
    /\ Update(m, [row[m] EXCEPT !.live = FALSE])

(***************************************************************************)
(* delete_messages: the foreign key sets the key's message_id to NULL.     *)
(* run_retention: the key goes with the message.                           *)
(* prune_outbound_idempotency: keys whose message is gone are forgotten.   *)
(***************************************************************************)
Delete(m) ==
    /\ row[m].status # "absent"
    /\ ~DeleteBlocked(m)
    /\ row' = [row EXCEPT ![m] = Blank]
    /\ idem' = [k \in Keys |-> IF idem[k].msg = m THEN [idem[k] EXCEPT !.msg = NoId]
                                                  ELSE idem[k]]
    /\ UNCHANGED nextId

RetentionDelete(m) ==
    /\ row[m].status \in Terminal
    /\ row' = [row EXCEPT ![m] = Blank]
    /\ idem' = [k \in Keys |-> IF idem[k].msg = m
                               THEN [idem[k] EXCEPT !.used = FALSE, !.msg = NoId]
                               ELSE idem[k]]
    /\ UNCHANGED nextId

Prune(k) ==
    /\ idem[k].used
    /\ idem[k].msg = NoId
    /\ idem' = [idem EXCEPT ![k].used = FALSE]
    /\ UNCHANGED <<row, nextId>>
=============================================================================
