------------------------------ MODULE Inbound ------------------------------
(***************************************************************************)
(* The inbound worker (src/src/inbound.rs, dbus/inbound.rs): it subscribes *)
(* to the Added signals of the modem, lists what the modem already holds,  *)
(* reads every message in a bounded number of child tasks and stores it    *)
(* under a dedupe key.                                                     *)
(*                                                                         *)
(* Modems come and go at the one path here, and nothing in the code ever   *)
(* deletes a received message from a modem, so a subscription lists all of *)
(* them again.  A message of several parts is announced when its first     *)
(* part arrives and has no text before the last one has.                   *)
(*                                                                         *)
(* Abstractions.  A resolution is one step here; ModemIdentity has its     *)
(* interleavings.  A message stands for its number, text and timestamp,    *)
(* all different from those of the others.  Retries of a read or of the    *)
(* store that end in success are left out, and so is ignore_storage.       *)
(***************************************************************************)
EXTENDS IdentityStore

CONSTANTS
    Sms,            \* the messages that arrive
    Home,           \* Home[s]: the modem that receives s
    Multipart,      \* the messages that may come in several parts
    Old,            \* the messages stored by a version without dedupe keys
    Tasks,          \* the permits of the limiter: MAX_INBOUND_TASKS
    InitialMeta,    \* what the meta table may hold at the beginning
    MaxSwaps,       \* bound: modems plugged in or out
    MaxFaults,      \* bound: failed calls, restarts of ModemManager, crashes
    MaxDeletes      \* bound: stored messages deleted

ASSUME InboundAssumption ==
    /\ Home \in [Sms -> Modems] /\ Multipart \subseteq Sms /\ Old \subseteq Sms
    /\ None \notin Sms /\ Tasks # {} /\ InitialMeta \subseteq MetaType
    /\ MaxSwaps \in Nat /\ MaxFaults \in Nat /\ MaxDeletes \in Nat

VARIABLES
    plugged,    \* the modem at the configured path, or None
    arrived,    \* arrived[s]: what the modem holds of s
    pc,         \* where the worker is
    matched,    \* the match rules of a subscription are in force
    signals,    \* signals not yet taken from its stream
    initial,    \* listed messages not yet handed to a task
    task,       \* task[t]: what the holder of permit t does
    failed,     \* failed tasks that were not joined yet
    rows,       \* stored inbound messages with their dedupe keys
    inserted,   \* history: how often s was inserted
    gaveUp,     \* history: messages whose text never came
    swaps, faults, deletes

envVars == <<plugged, arrived, swaps>>
subVars == <<matched, signals, initial>>
storeVars == <<rows, inserted>>
vars == <<envVars, pc, subVars, task, failed, storeVars, gaveUp, faults, deletes,
          identityVars>>

Gone == None        \* InterfacesRemoved or NameOwnerChanged

\* The text of s is there, at once or after its last part.
HasText(s) == arrived[s] \in {"complete", "joined"}

TaskType == [sms: Sms, step: {"read", "key"}, key: {None}]
              \cup [sms: Sms, step: {"insert"}, key: Namespaces]
Free == [sms |-> None, step |-> "free", key |-> None]

Row == [sms: Sms, key: Namespaces \cup {None}]

TypeOK ==
    /\ IdentityTypeOK
    /\ plugged \in Modems \cup {None}
    /\ arrived \in [Sms -> {"no", "partial", "complete", "joined"}]
    /\ pc \in {"resolve", "lost", "wait", "subscribe", "list", "run"}
    /\ matched \in BOOLEAN /\ signals \in Seq(Sms \cup {Gone})
    /\ initial \subseteq Sms
    /\ task \in [Tasks -> TaskType \cup {Free}]
    /\ failed \in Nat
    /\ rows \subseteq Row /\ inserted \in [Sms -> Nat] /\ gaveUp \subseteq Sms
    /\ swaps \in 0..MaxSwaps /\ faults \in 0..MaxFaults /\ deletes \in 0..MaxDeletes

Init ==
    /\ plugged \in Modems
    /\ meta \in InitialMeta
    /\ quarantine = [path \in Paths |-> None]
    /\ arrived = [s \in Sms |-> IF s \in Old THEN "complete" ELSE "no"]
    /\ rows = {[sms |-> s, key |-> None] : s \in Old}
    /\ inserted = [s \in Sms |-> IF s \in Old THEN 1 ELSE 0]
    /\ pc = "resolve"
    /\ matched = FALSE /\ signals = <<>> /\ initial = {}
    /\ task = [t \in Tasks |-> Free]
    /\ failed = 0 /\ gaveUp = {}
    /\ swaps = 0 /\ faults = 0 /\ deletes = 0

-----------------------------------------------------------------------------
(***************************************************************************)
(* The modem and ModemManager.                                             *)
(***************************************************************************)
Announce(x) == signals' = IF matched THEN Append(signals, x) ELSE signals

Arrive(s) ==
    /\ plugged = Home[s] /\ arrived[s] = "no"
    /\ \E some \in {"complete"} \cup (IF s \in Multipart THEN {"partial"} ELSE {}) :
         arrived' = [arrived EXCEPT ![s] = some]
    /\ Announce(s)
    /\ UNCHANGED <<plugged, swaps, pc, matched, initial, task, failed, storeVars,
                   gaveUp, faults, deletes, identityVars>>

\* The last part arrives: the text is there, and nothing is announced.
Complete(s) ==
    /\ plugged = Home[s] /\ arrived[s] = "partial"
    /\ arrived' = [arrived EXCEPT ![s] = "joined"]
    /\ UNCHANGED <<plugged, swaps, pc, subVars, task, failed, storeVars, gaveUp,
                   faults, deletes, identityVars>>

\* The modem is pulled out, or another one takes its place.
Swap ==
    /\ swaps < MaxSwaps /\ swaps' = swaps + 1
    /\ plugged' \in (Modems \cup {None}) \ {plugged}
    /\ IF plugged = None THEN UNCHANGED signals ELSE Announce(Gone)
    /\ UNCHANGED <<arrived, pc, matched, initial, task, failed, storeVars, gaveUp,
                   faults, deletes, identityVars>>

Restart ==
    /\ matched
    /\ faults < MaxFaults /\ faults' = faults + 1
    /\ Announce(Gone)
    /\ UNCHANGED <<envVars, pc, matched, initial, task, failed, storeVars, gaveUp,
                   deletes, identityVars>>

-----------------------------------------------------------------------------
(***************************************************************************)
(* The store.                                                              *)
(***************************************************************************)
\* Mutant: the rows of an earlier version stay without a key.
NotBackfilled(ns) == rows

\* backfill_dedupe_keys: rows without a key get one, unless it is taken.
Backfilled(ns) ==
    {IF r.key = None /\ [r EXCEPT !.key = ns] \notin rows
     THEN [r EXCEPT !.key = ns] ELSE r : r \in rows}

\* Mutant: the key is not looked up before the insert.
AlwaysNew(s, key) == TRUE

\* insert_inbound_message_with_deliveries inserts a new key only.
IsNew(s, key) == [sms |-> s, key |-> key] \notin rows

\* The operator or the retention worker deletes a stored message.
Delete(s) ==
    /\ deletes < MaxDeletes /\ deletes' = deletes + 1
    /\ \E r \in rows : r.sms = s
    /\ rows' = {r \in rows : r.sms # s}
    /\ UNCHANGED <<envVars, pc, subVars, task, failed, inserted, gaveUp, faults,
                   identityVars>>

-----------------------------------------------------------------------------
(***************************************************************************)
(* InboundWorker::run.                                                     *)
(***************************************************************************)
\* resolve_monitor_path with one path.  It is read twice, at first as the
\* configured path and then among the candidates.
ResolveWith(m, id, again) ==
    LET known == Quarantined(m.enrolled, quarantine[Configured], None)
        other == id # None /\ m.enrolled \notin {None, id}
        C == IF id # None /\ ~other THEN ConfiguredChoice(m.enrolled, id)
             ELSE CandidateChoice(m.enrolled, m.runtime, known \/ other,
                                  [path \in {Configured} |-> again])
        writes == (IF other THEN <<Mark(Configured, m.enrolled)>> ELSE <<>>) \o C.writes
    IN  /\ meta' = MetaWritten(m, writes)
        /\ quarantine' = QuarantineWritten(quarantine, writes)
        /\ rows' = Backfilled(DedupeNamespace')

\* The first resolution leads straight to a subscription, one after a loss to
\* a pause.  Without a modem the worker pauses and resolves again.
Resolve ==
    /\ pc \in {"resolve", "lost"}
    /\ \/ /\ plugged # None
          /\ \E id, again \in {None, plugged} : ResolveWith(Migrated(meta), id, again)
          /\ pc' = IF pc = "lost" THEN "wait" ELSE "subscribe"
       \/ /\ plugged = None
          /\ pc' = "resolve"
          /\ UNCHANGED <<rows, identityVars>>
    /\ UNCHANGED <<envVars, subVars, task, failed, inserted, gaveUp, faults, deletes>>

EndWait ==
    /\ pc = "wait"
    /\ pc' = "subscribe"
    /\ UNCHANGED <<envVars, subVars, task, failed, storeVars, gaveUp, faults, deletes,
                   identityVars>>

\* wait_for_reconnect drains finished tasks and ignores their errors.
DrainInWait ==
    /\ pc = "wait" /\ failed > 0
    /\ failed' = failed - 1
    /\ UNCHANGED <<envVars, pc, subVars, task, storeVars, gaveUp, faults, deletes,
                   identityVars>>

Lose ==
    /\ pc' = "lost"
    /\ matched' = FALSE /\ signals' = <<>> /\ initial' = {}

\* The match rules come first, then the list, so that no message falls between.
Subscribe ==
    /\ pc = "subscribe" /\ plugged # None
    /\ pc' = "list"
    /\ matched' = TRUE
    /\ UNCHANGED <<envVars, signals, initial, task, failed, storeVars, gaveUp, faults,
                   deletes, identityVars>>

\* list_received_sms: a message that is still being received is left out.
List ==
    /\ pc = "list" /\ plugged # None
    /\ pc' = "run"
    /\ initial' = {s \in Sms : Home[s] = plugged /\ HasText(s)}
    /\ UNCHANGED <<envVars, matched, signals, task, failed, storeVars, gaveUp, faults,
                   deletes, identityVars>>

\* The modem is not there, or a call fails or times out.
SubscribeFails ==
    /\ pc \in {"subscribe", "list"}
    /\ IF plugged = None THEN UNCHANGED faults
       ELSE faults < MaxFaults /\ faults' = faults + 1
    /\ Lose
    /\ UNCHANGED <<envVars, task, failed, storeVars, gaveUp, deletes, identityVars>>

\* spawn_incoming_sms needs a permit; without one the worker waits here.
Spawn(s) ==
    \E t \in Tasks :
      /\ task[t] = Free
      /\ task' = [task EXCEPT ![t] = [sms |-> s, step |-> "read", key |-> None]]

SpawnInitial ==
    /\ pc = "run"
    /\ \E s \in initial : Spawn(s) /\ initial' = initial \ {s}
    /\ UNCHANGED <<envVars, pc, matched, signals, failed, storeVars, gaveUp, faults,
                   deletes, identityVars>>

\* Mutant: every signal is taken for a message.
SpawnAny ==
    /\ pc = "run" /\ initial = {} /\ signals # <<>>
    /\ Spawn(Head(signals))
    /\ signals' = Tail(signals)
    /\ UNCHANGED <<envVars, pc, matched, initial, failed, storeVars, gaveUp, faults,
                   deletes, identityVars>>

SpawnSignal ==
    /\ pc = "run" /\ initial = {} /\ signals # <<>>
    /\ Head(signals) # Gone
    /\ Spawn(Head(signals))
    /\ signals' = Tail(signals)
    /\ UNCHANGED <<envVars, pc, matched, initial, failed, storeVars, gaveUp, faults,
                   deletes, identityVars>>

StreamEnds ==
    /\ pc = "run" /\ initial = {} /\ signals # <<>>
    /\ Head(signals) = Gone
    /\ Lose
    /\ UNCHANGED <<envVars, task, failed, storeVars, gaveUp, faults, deletes,
                   identityVars>>

\* Mutant: the error of a task is logged and the subscription goes on.
JoinIgnored ==
    /\ pc = "run" /\ initial = {} /\ failed > 0
    /\ failed' = failed - 1
    /\ UNCHANGED <<envVars, pc, subVars, task, storeVars, gaveUp, faults, deletes,
                   identityVars>>

\* report_child_result: the error of a task ends the subscription, so that the
\* next one lists its message again.
JoinFailed ==
    /\ pc = "run" /\ initial = {} /\ failed > 0
    /\ failed' = failed - 1
    /\ Lose
    /\ UNCHANGED <<envVars, task, storeVars, gaveUp, faults, deletes, identityVars>>

-----------------------------------------------------------------------------
(***************************************************************************)
(* process_incoming_sms, one task.                                         *)
(***************************************************************************)
Working(t, step) == task[t].step = step

\* Mutant: an empty text is taken for the text.
ReadEarly(t) ==
    /\ Working(t, "read")
    /\ plugged = Home[task[t].sms] /\ arrived[task[t].sms] # "no"
    /\ task' = [task EXCEPT ![t].step = "key"]
    /\ UNCHANGED <<envVars, pc, subVars, failed, storeVars, gaveUp, faults, deletes,
                   identityVars>>

\* read_sms_properties_with_retry and the wait for a text that is not empty.
ReadText(t) ==
    /\ Working(t, "read")
    /\ plugged = Home[task[t].sms] /\ HasText(task[t].sms)
    /\ task' = [task EXCEPT ![t].step = "key"]
    /\ UNCHANGED <<envVars, pc, subVars, failed, storeVars, gaveUp, faults, deletes,
                   identityVars>>

\* The text is still empty after MAX_BODY_POLLS: the task ends without an error.
GiveUp(t) ==
    /\ Working(t, "read")
    /\ plugged = Home[task[t].sms] /\ arrived[task[t].sms] = "partial"
    /\ gaveUp' = gaveUp \cup {task[t].sms}
    /\ task' = [task EXCEPT ![t] = Free]
    /\ UNCHANGED <<envVars, pc, subVars, failed, storeVars, faults, deletes,
                   identityVars>>

\* MAX_PROPERTY_READ_ATTEMPTS reads fail: the modem is gone or does not answer.
ReadFails(t) ==
    /\ Working(t, "read")
    /\ IF plugged # Home[task[t].sms] THEN UNCHANGED faults
       ELSE faults < MaxFaults /\ faults' = faults + 1
    /\ failed' = failed + 1
    /\ task' = [task EXCEPT ![t] = Free]
    /\ UNCHANGED <<envVars, pc, subVars, storeVars, gaveUp, deletes, identityVars>>

\* Store::receive_inbound reads the namespace, then inserts; without a namespace
\* the task tries again for ever.
ReadKey(t) ==
    /\ Working(t, "key")
    /\ DedupeNamespace # None
    /\ task' = [task EXCEPT ![t].step = "insert", ![t].key = DedupeNamespace]
    /\ UNCHANGED <<envVars, pc, subVars, failed, storeVars, gaveUp, faults, deletes,
                   identityVars>>

Insert(t) ==
    /\ Working(t, "insert")
    /\ LET s == task[t].sms
           key == task[t].key
       IN  IF IsNew(s, key)
           THEN /\ rows' = rows \cup {[sms |-> s, key |-> key]}
                /\ inserted' = [inserted EXCEPT ![s] = @ + 1]
           ELSE UNCHANGED storeVars
    /\ task' = [task EXCEPT ![t] = Free]
    /\ UNCHANGED <<envVars, pc, subVars, failed, gaveUp, faults, deletes, identityVars>>

-----------------------------------------------------------------------------
Crash ==
    /\ faults < MaxFaults /\ faults' = faults + 1
    /\ pc' = "resolve"
    /\ matched' = FALSE /\ signals' = <<>> /\ initial' = {}
    /\ task' = [t \in Tasks |-> Free]
    /\ failed' = 0
    /\ UNCHANGED <<envVars, storeVars, gaveUp, deletes, identityVars>>

Worker ==
    \/ Resolve \/ EndWait \/ Subscribe \/ List \/ SpawnInitial \/ SpawnSignal
    \/ StreamEnds \/ JoinFailed

Child(t) == ReadText(t) \/ ReadKey(t) \/ Insert(t)

Next ==
    \/ \E s \in Sms : Arrive(s) \/ Complete(s) \/ Delete(s)
    \/ Swap \/ Restart \/ Crash
    \/ Worker \/ SubscribeFails \/ DrainInWait
    \/ \E t \in Tasks : Child(t) \/ GiveUp(t) \/ ReadFails(t)

Spec == Init /\ [][Next]_vars

\* The worker and every task are scheduled by the runtime, and their calls have
\* time limits, so that a call to a modem that is gone does fail.
Fairness ==
    /\ WF_vars(Worker)
    /\ WF_vars(SubscribeFails /\ plugged = None)
    /\ \A t \in Tasks :
         /\ WF_vars(Child(t) \/ GiveUp(t))
         /\ WF_vars(ReadFails(t) /\ plugged # Home[task[t].sms])

FairSpec == Spec /\ Fairness

-----------------------------------------------------------------------------
(***************************************************************************)
(* Properties.                                                             *)
(***************************************************************************)
\* A received message is inserted, and handed to the delivery queue, once;
\* listing, signals, reconnects and restarts only repeat it
\* (docs/plans/2026-07-12-001-fix-forwarding-dedup-latency-impl-tasks.md:13
\* and :30, README.md:22).  The key goes with the row: each deletion allows
\* one more.
StoredOnce == \A s \in Sms : inserted[s] <= 1 + deletes

\* A message never has two rows, whatever is deleted and listed again.
NoTwin == \A r1, r2 \in rows : r1.sms = r2.sms => r1 = r2

\* When a subscription has nothing left to do, every message that its modem
\* holds has been stored, except those whose text came after the signal ...
Quiet ==
    /\ pc = "run" /\ initial = {} /\ signals = <<>> /\ failed = 0
    /\ \A t \in Tasks : task[t] = Free
NothingMissed ==
    Quiet => \A s \in Sms :
               plugged = Home[s] /\ arrived[s] = "complete" => inserted[s] > 0

\* ... and these too, unless the wait for their text was given up
\* (README.md:343: received messages are persisted).
NoPartMissed ==
    Quiet => \A s \in Sms \ gaveUp :
               plugged = Home[s] /\ arrived[s] = "joined" => inserted[s] > 0

-----------------------------------------------------------------------------
(***************************************************************************)
(* What these rest on.                                                     *)
(***************************************************************************)
Listed(x) == \E i \in DOMAIN signals : signals[i] = x

\* A message of the modem that is subscribed to and not stored is with someone:
\* still to be listed, announced, in a task, or in one that failed.  A modem
\* that left since is followed by the end of the stream.
Followed ==
    pc \in {"list", "run"} =>
      /\ matched
      /\ plugged = None => Listed(Gone)
      /\ pc = "run" =>
           \A s \in Sms :
             plugged = Home[s] /\ arrived[s] = "complete" /\ inserted[s] = 0 =>
               \/ s \in initial \/ Listed(s) \/ Listed(Gone)
               \/ failed > 0 \/ \E t \in Tasks : task[t].sms = s

\* A row was inserted, and what was inserted more often was deleted between.
Stored(s) == \E r \in rows : r.sms = s
RowsAreInserted == \A s \in Sms : Stored(s) => inserted[s] > 0
InsertsAreCounted ==
    \A s \in Sms : inserted[s] <= deletes + (IF Stored(s) THEN 1 ELSE 0)

\* Either no modem was found yet, and nothing has a key, or there is a
\* namespace, and every row and every task has it for its key.
Unkeyed ==
    /\ pc = "resolve"
    /\ \A t \in Tasks : task[t] = Free
    /\ \A r \in rows : r.key = None
Keyed ==
    /\ DedupeNamespace # None
    /\ \A r \in rows : r.key = DedupeNamespace
    /\ \A t \in Tasks : task[t].step = "insert" => task[t].key = DedupeNamespace
OneKey == Unkeyed \/ Keyed

\* What is stored, or on its way there, has its text.
TextFirst ==
    /\ \A r \in rows : HasText(r.sms)
    /\ \A t \in Tasks : task[t].step \in {"key", "insert"} => HasText(task[t].sms)

\* The type invariant, and that a quiet subscription has stored what its
\* modem holds, each message in one row (list_received_sms, insert_message_on)
\* and with its text (process_incoming_sms), because every message not stored
\* yet is with someone and all rows have the namespace of the modem for their
\* key.
ReceptionIsComplete ==
    /\ TypeOK
    /\ Followed /\ NothingMissed
    /\ OneKey /\ NoTwin
    /\ RowsAreInserted /\ InsertsAreCounted
    /\ TextFirst

-----------------------------------------------------------------------------
(***************************************************************************)
(* The promise.                                                            *)
(***************************************************************************)
Reception == INSTANCE InboundPromise WITH
                Messages  <- Sms,
                Earlier   <- Old,
                received  <- {s \in Sms : HasText(s)},
                stored    <- {s \in Sms : Stored(s)},
                forwarded <- inserted

\* Subscriptions, tasks, keys, crashes and reconnects together keep the promise
\* of InboundPromise (README.md:22 and :343), as long as the dedupe namespace
\* of the database does not change: a step of the worker stores one message
\* that has its text and is not in the store, or leaves the store alone.
KeepsReception == Reception!PromiseSpec

\* A message that a modem holds is stored if the modem stays or comes back.
EventuallyStored ==
    \A s \in Sms : <>[](arrived[s] = "complete" /\ plugged = Home[s]) => <>(inserted[s] > 0)
===========================================================================
