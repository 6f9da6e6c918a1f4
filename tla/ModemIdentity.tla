--------------------------- MODULE ModemIdentity ---------------------------
(***************************************************************************)
(* How the service finds its modem (src/src/inbound.rs): the resolution of *)
(* the monitored path and of the target of control actions, the periodic   *)
(* observation of the identity while monitoring, and the quarantine of a   *)
(* path where another modem than the enrolled one was found.               *)
(*                                                                         *)
(* The processes are the service and one-shot `send' commands              *)
(* (src/src/runtime.rs), which resolve once on the same database.  Modems  *)
(* are plugged, unplugged and renumbered at any moment, and any read of an *)
(* identity may come back empty (mmcli fails, times out or reports none).  *)
(*                                                                         *)
(* Abstractions.  Every write of the store is a step of its own.  The      *)
(* reads of meta at the start of a resolution are one step, and so is the  *)
(* read of an identity during an observation with the read of meta that    *)
(* judges it.  Backoff delays are left out; backfill_dedupe_keys is part   *)
(* of module Inbound, which has the messages.                              *)
(***************************************************************************)
EXTENDS IdentityStore, SequencesExt

CONSTANTS
    Service,        \* the process that monitors
    Clis,           \* one-shot command line processes
    InitialMeta,    \* what the meta table may hold at the beginning
    MaxMoves,       \* bound: how often the modems are moved
    MaxFaults       \* bound: failed writes and listings, crashes, lost streams

Procs == {Service} \cup Clis

ASSUME ModemIdentityAssumption ==
    /\ Service \notin Clis /\ InitialMeta \subseteq MetaType
    /\ IsFiniteSet(Paths) /\ IsFiniteSet(Modems)
    /\ MaxMoves \in Nat /\ MaxFaults \in Nat

VARIABLES
    owned,      \* the modems this machine ever has: part of the scenario, never
                \* seen by a process
    at,         \* at[path]: the modem ModemManager exports there, or None
    moves,      \* how often modems were moved
    faults,     \* faults so far
    pc,         \* pc[p]: where process p is
    loc,        \* loc[p]: the local variables of p
    targets,    \* targets[p]: ModemTargets
    pending,    \* pending[p][path]: pending_identity_mismatches
    seen        \* history: seen[p][path] is the last identity p read at path

procVars == <<pc, loc, targets, pending, seen>>
vars == <<owned, at, moves, faults, procVars, identityVars>>

Points == {"idle", "meta", "probe", "judge", "list", "scan", "publish",
           "monitor", "look", "lookRuntime", "write", "done"}

LocType == [enrolled: Fingerprints \cup {None}, runtime: Fingerprints \cup {None},
            id: Modems \cup {None}, mismatch: BOOLEAN,
            ids: UNION {[S -> Modems \cup {None}] : S \in SUBSET Paths},
            left: SUBSET Paths,
            writes: Seq(WriteType), next: Points,
            choice: TargetsType, action: Paths \cup {None}]

NoIds == [path \in {} |-> None]

Start == [enrolled |-> None, runtime |-> None, id |-> None, mismatch |-> FALSE,
          ids |-> NoIds, left |-> {}, writes |-> <<>>, next |-> "idle",
          choice |-> NoTargets, action |-> None]

TypeOK ==
    /\ IdentityTypeOK
    /\ owned \in SUBSET Modems
    /\ at \in [Paths -> owned \cup {None}]
    /\ moves \in 0..MaxMoves /\ faults \in 0..MaxFaults
    /\ pc \in [Procs -> Points]
    /\ loc \in [Procs -> LocType]
    /\ targets \in [Procs -> TargetsType]
    /\ pending \in [Procs -> [Paths -> Fingerprints \cup {None}]]
    /\ seen \in [Procs -> [Paths -> Modems \cup {None}]]

Nowhere == [path \in Paths |-> None]

Init ==
    /\ owned \in SUBSET Modems
    /\ at \in {f \in [Paths -> owned \cup {None}] :
                 \A i, j \in Paths : f[i] = f[j] /\ f[i] # None => i = j}
    /\ moves = 0 /\ faults = 0
    /\ meta \in InitialMeta
    /\ meta.enrolled \in owned \cup {None, Legacy} /\ meta.runtime \in owned \cup {None}
    /\ quarantine = Nowhere
    /\ pc = [p \in Procs |-> "idle"]
    /\ loc = [p \in Procs |-> Start]
    /\ targets = [p \in Procs |-> NoTargets]
    /\ pending = [p \in Procs |-> Nowhere]
    /\ seen = [p \in Procs |-> Nowhere]

-----------------------------------------------------------------------------
(***************************************************************************)
(* ModemManager.                                                           *)
(***************************************************************************)
\* Modem m is unplugged, plugged in or renumbered.
Move(m) ==
    LET off == [path \in Paths |-> IF at[path] = m THEN None ELSE at[path]]
    IN  /\ m \in owned
        /\ moves < MaxMoves
        /\ moves' = moves + 1
        /\ \/ /\ off # at
              /\ at' = off
           \/ \E path \in Paths :
                /\ at[path] = None
                /\ at' = [off EXCEPT ![path] = m]
        /\ UNCHANGED <<owned, faults, procVars, identityVars>>

\* What extract_identity may answer for a path.
Readable(path) == {None, at[path]}

-----------------------------------------------------------------------------
(***************************************************************************)
(* The writes a decision leads to, one at a time and in order.             *)
(***************************************************************************)
Goto(p, point) == pc' = [pc EXCEPT ![p] = point]

\* p makes the writes, then goes on at the point `next'.
WriteThen(p, l, writes, next) ==
    /\ Goto(p, IF writes = <<>> THEN next ELSE "write")
    /\ loc' = [loc EXCEPT ![p] = [l EXCEPT !.writes = writes, !.next = next]]

\* persist_identity_mismatch and clear_identity_mismatch also settle the
\* pending mismatch of the path.
Settles(p, w) ==
    \/ w.op = "mark" /\ pending[p][w.path] = w.id
    \/ w.op = "clear"

Write(p) ==
    LET w == Head(loc[p].writes)
        rest == Tail(loc[p].writes)
    IN  /\ pc[p] = "write"
        /\ meta' = MetaAfter(meta, w)
        /\ quarantine' = QuarantineAfter(quarantine, w)
        /\ pending' = IF Settles(p, w) THEN [pending EXCEPT ![p][w.path] = None]
                                       ELSE pending
        /\ WriteThen(p, loc[p], rest, loc[p].next)
        /\ UNCHANGED <<owned, at, moves, faults, targets, seen>>

\* A resolution that fails leaves no targets; an observation that fails is
\* only logged; a command exits.
Resolving(p) == loc[p].next \in {"meta", "list", "publish"}

WriteFails(p) ==
    /\ pc[p] = "write"
    /\ faults < MaxFaults /\ faults' = faults + 1
    /\ Goto(p, CASE ~Resolving(p) -> "monitor"
                 [] Resolving(p) /\ p = Service -> "idle"
                 [] OTHER -> "done")
    /\ targets' = IF Resolving(p) THEN [targets EXCEPT ![p] = NoTargets] ELSE targets
    /\ loc' = [loc EXCEPT ![p] = Start]
    /\ UNCHANGED <<owned, at, moves, pending, seen, identityVars>>

\* retry_pending_identity_mismatches
PendingWrites(p) ==
    SetToSeq({Mark(path, pending[p][path]) :
                path \in {i \in Paths : pending[p][i] # None}})

-----------------------------------------------------------------------------
(***************************************************************************)
(* resolve_monitor_path                                                    *)
(***************************************************************************)
BeginResolve(p) ==
    /\ pc[p] = "idle"
    /\ WriteThen(p, Start, PendingWrites(p), "meta")
    /\ UNCHANGED <<owned, at, moves, faults, targets, pending, seen, identityVars>>

ReadMeta(p) ==
    /\ pc[p] = "meta"
    /\ meta' = Migrated(meta)
    /\ loc' = [loc EXCEPT ![p].enrolled = meta'.enrolled, ![p].runtime = meta.runtime]
    /\ Goto(p, "probe")
    /\ UNCHANGED <<owned, at, moves, faults, targets, pending, seen, quarantine>>

\* p reads an identity at a path.
Sees(p, path, id) ==
    seen' = IF id = None THEN seen ELSE [seen EXCEPT ![p][path] = id]

ProbeConfigured(p) ==
    /\ pc[p] = "probe"
    /\ \E id \in Readable(Configured) :
         /\ loc' = [loc EXCEPT ![p].id = id]
         /\ Sees(p, Configured, id)
    /\ Goto(p, "judge")
    /\ UNCHANGED <<owned, at, moves, faults, targets, pending, identityVars>>

\* Mutant: the quarantine is lifted before the identity is compared.
JudgeLenient(p) ==
    LET l == loc[p]
    IN  /\ pc[p] = "judge"
        /\ WriteThen(p, l, <<Clear(Configured)>>, "list")
        /\ UNCHANGED <<owned, at, moves, faults, targets, pending, seen, identityVars>>

JudgeConfigured(p) ==
    LET l == loc[p]
        other == l.id # None /\ l.enrolled \notin {None, l.id}
        known == Quarantined(l.enrolled, quarantine[Configured], pending[p][Configured])
        C == ConfiguredChoice(l.enrolled, l.id)
    IN  /\ pc[p] = "judge"
        /\ \/ /\ l.id = None
              /\ WriteThen(p, [l EXCEPT !.mismatch = known], <<>>, "list")
              /\ UNCHANGED pending
           \/ /\ other
              /\ pending' = [pending EXCEPT ![p][Configured] = l.enrolled]
              /\ WriteThen(p, [l EXCEPT !.mismatch = TRUE],
                           <<Mark(Configured, l.enrolled)>>, "list")
           \/ /\ l.id # None /\ ~other
              /\ WriteThen(p, [l EXCEPT !.choice = C.targets], C.writes, "publish")
              /\ UNCHANGED pending
        /\ UNCHANGED <<owned, at, moves, faults, targets, seen, identityVars>>

\* list_all_modem_paths answers with nothing when mmcli fails.
ListPaths(p) ==
    /\ pc[p] = "list"
    /\ \/ /\ loc' = [loc EXCEPT ![p].left = {path \in Paths : at[path] # None}]
          /\ UNCHANGED faults
       \/ /\ faults < MaxFaults /\ faults' = faults + 1
          /\ UNCHANGED loc
    /\ Goto(p, "scan")
    /\ UNCHANGED <<owned, at, moves, targets, pending, seen, identityVars>>

ProbeCandidate(p) ==
    /\ pc[p] = "scan"
    /\ \E path \in loc[p].left : \E id \in Readable(path) :
         /\ loc' = [loc EXCEPT ![p].left = @ \ {path},
                               ![p].ids = [i \in DOMAIN @ \cup {path} |->
                                             IF i = path THEN id ELSE @[i]]]
         /\ Sees(p, path, id)
    /\ UNCHANGED <<owned, at, moves, faults, pc, targets, pending, identityVars>>

Choose(p) ==
    LET l == loc[p]
        C == CandidateChoice(l.enrolled, l.runtime, l.mismatch, l.ids)
    IN  /\ pc[p] = "scan" /\ l.left = {}
        /\ WriteThen(p, [l EXCEPT !.choice = C.targets], C.writes, "publish")
        /\ UNCHANGED <<owned, at, moves, faults, targets, pending, seen, identityVars>>

\* publish_resolved_path; without a runtime path the service resolves again
\* and a command exits with an error.
Publish(p) ==
    /\ pc[p] = "publish"
    /\ targets' = [targets EXCEPT ![p] = loc[p].choice]
    /\ Goto(p, CASE p # Service -> "done"
                 [] p = Service /\ loc[p].choice.runtime # None -> "monitor"
                 [] OTHER -> "idle")
    /\ loc' = [loc EXCEPT ![p] = Start]
    /\ UNCHANGED <<owned, at, moves, faults, pending, seen, identityVars>>

-----------------------------------------------------------------------------
(***************************************************************************)
(* InboundWorker::run and observe_runtime_identity.  The monitored path is *)
(* the published runtime path until the next resolution.                   *)
(***************************************************************************)
\* The modem object is gone, or the subscription fails for another reason.
LoseMonitor(p) ==
    /\ p = Service /\ pc[p] = "monitor"
    /\ IF at[targets[p].runtime] = None THEN UNCHANGED faults
       ELSE faults < MaxFaults /\ faults' = faults + 1
    /\ WriteThen(p, Start, PendingWrites(p), "meta")
    /\ UNCHANGED <<owned, at, moves, targets, pending, seen, identityVars>>

BeginObserve(p) ==
    /\ p = Service /\ pc[p] = "monitor"
    /\ WriteThen(p, Start, PendingWrites(p), "look")
    /\ UNCHANGED <<owned, at, moves, faults, targets, pending, seen, identityVars>>

\* Mutant: the mismatch is stored, the target stays.
RevokeLater(p, path) ==
    /\ pending' = [pending EXCEPT ![p][path] = meta.enrolled]
    /\ UNCHANGED targets

\* Another modem than the enrolled one answers at the target of actions: the
\* target is withdrawn at once, the mismatch is remembered, then stored.
Revoke(p, path) ==
    /\ targets' = [targets EXCEPT ![p].action = None]
    /\ pending' = [pending EXCEPT ![p][path] = meta.enrolled]

\* The target of actions, when it is not the monitored path.
LookAtAction(p) ==
    LET act == targets[p].action
        l == [loc[p] EXCEPT !.action = act]
    IN  /\ pc[p] = "look"
        /\ \/ /\ act \in {None, targets[p].runtime}
              /\ WriteThen(p, l, <<>>, "lookRuntime")
              /\ UNCHANGED <<targets, pending, seen>>
           \/ /\ act \notin {None, targets[p].runtime}
              /\ \E id \in Readable(act) :
                   /\ Sees(p, act, id)
                   /\ \/ /\ id # None /\ meta.enrolled \notin {None, id}
                         /\ Revoke(p, act)
                         /\ WriteThen(p, l, <<Mark(act, meta.enrolled)>>, "lookRuntime")
                      \/ /\ id = None \/ meta.enrolled \in {None, id}
                         /\ WriteThen(p, l,
                              IF id # None /\ meta.enrolled = None
                              THEN <<Enroll(id)>> ELSE <<>>, "lookRuntime")
                         /\ UNCHANGED <<targets, pending>>
        /\ UNCHANGED <<owned, at, moves, faults, identityVars>>

\* The monitored path; `action' was read before the first half.
LookAtRuntime(p) ==
    LET run == targets[p].runtime
        l == loc[p]
        adopt(id) == <<Ensure(id), ObserveRuntime(id)>>
    IN  /\ pc[p] = "lookRuntime"
        /\ \E id \in Readable(run) :
             /\ Sees(p, run, id)
             /\ \/ /\ id # None /\ l.action = run /\ meta.enrolled \notin {None, id}
                   /\ Revoke(p, run)
                   /\ WriteThen(p, l, <<Mark(run, meta.enrolled)>> \o adopt(id), "monitor")
                \/ /\ id = None \/ l.action # run \/ meta.enrolled \in {None, id}
                   /\ WriteThen(p, l,
                        CASE id # None /\ l.action = run /\ meta.enrolled = None ->
                               <<Enroll(id)>>
                          [] id # None /\ l.action # run /\ meta.runtime # id -> adopt(id)
                          [] OTHER -> <<>>, "monitor")
                   /\ UNCHANGED <<targets, pending>>
        /\ UNCHANGED <<owned, at, moves, faults, identityVars>>

-----------------------------------------------------------------------------
\* A process dies and is run again: what it only remembered is gone.
Crash(p) ==
    /\ faults < MaxFaults /\ faults' = faults + 1
    /\ Goto(p, "idle")
    /\ loc' = [loc EXCEPT ![p] = Start]
    /\ targets' = [targets EXCEPT ![p] = NoTargets]
    /\ pending' = [pending EXCEPT ![p] = Nowhere]
    /\ seen' = [seen EXCEPT ![p] = Nowhere]
    /\ UNCHANGED <<owned, at, moves, identityVars>>

Resolve(p) ==
    \/ BeginResolve(p) \/ ReadMeta(p) \/ ProbeConfigured(p) \/ JudgeConfigured(p)
    \/ ListPaths(p) \/ ProbeCandidate(p) \/ Choose(p) \/ Publish(p) \/ Write(p)

Observe(p) == BeginObserve(p) \/ LookAtAction(p) \/ LookAtRuntime(p)

Next ==
    \/ \E m \in Modems : Move(m)
    \/ \E p \in Procs :
         Resolve(p) \/ Observe(p) \/ LoseMonitor(p) \/ WriteFails(p)
         \/ Crash(p)

Spec == Init /\ [][Next]_vars

\* The worker is one task that always takes its next step; the end of a stream
\* whose modem object is gone reaches it even though observations go on.
Fairness ==
    /\ WF_vars(Resolve(Service))
    /\ WF_vars(LookAtAction(Service) \/ LookAtRuntime(Service))
    /\ SF_vars(LoseMonitor(Service) /\ at[targets[Service].runtime] = None)

FairSpec == Spec /\ Fairness

-----------------------------------------------------------------------------
(***************************************************************************)
(* Properties.                                                             *)
(***************************************************************************)
\* While a path is monitored, received messages have a namespace to be stored
\* under; without one Store::receive_inbound refuses them for ever
\* (persistence/mod.rs:169).
MonitoringHasNamespace ==
    \A p \in Procs : targets[p].runtime # None => DedupeNamespace # None

\* Enable, disable and reset never go to a path that the service knows, from
\* the table or from memory, to have held another modem than the enrolled one.
QuarantinedNeverActs ==
    LET act == targets[Service].action
    IN  pc[Service] = "monitor" /\ act # None =>
          \/ meta.enrolled = None
          \/ meta.enrolled \notin {quarantine[act], pending[Service][act]}

\* A quarantine ends only after the enrolled modem was read at that path.
ReleasedByIdentity ==
    \A path \in Paths : quarantine[path] # None /\ quarantine'[path] = None =>
        \/ meta.enrolled = None
        \/ \E p \in Procs : seen[p][path] = meta.enrolled

\* With one physical modem the namespace of the dedupe keys never changes,
\* whatever the order of lost identities, renumbering and restarts: that is
\* what keeps a message from being stored twice after a reconnect (the test
\* temporary_identity_loss_keeps_the_existing_inbound_dedupe_namespace,
\* inbound.rs:1885).
KeepsNamespace ==
    Cardinality(owned) = 1 /\ DedupeNamespace # None =>
        DedupeNamespace' = DedupeNamespace
NamespaceIsStable == [][KeepsNamespace]_vars

\* Once a modem is enrolled no other one takes its place.
EnrollmentIsStable ==
    meta.enrolled \in Modems => meta'.enrolled = meta.enrolled

\* What is remembered of the modem is given up only for cause: the enrolled
\* one, the namespace it stands for, a mismatch (storage/metadata.rs).
IdentityIsKept ==
    [][ReleasedByIdentity /\ EnrollmentIsStable /\ KeepsNamespace]_vars

-----------------------------------------------------------------------------
(***************************************************************************)
(* What these rest on.                                                     *)
(***************************************************************************)
Queued(p) == {loc[p].writes[i] : i \in DOMAIN loc[p].writes}
At(p, points) == pc[p] \in points \/ (pc[p] = "write" /\ loc[p].next \in points)

Observing(p) == At(p, {"monitor", "look", "lookRuntime"})
Deciding(p)  == At(p, {"publish"})

\* Only the service monitors, and it monitors a path.
OnlyServiceMonitors ==
    \A p \in Procs :
      /\ Observing(p) => p = Service /\ targets[p].runtime # None
      /\ pc[p] = "write" =>
           /\ loc[p].writes # <<>>
           /\ loc[p].next \in {"meta", "list", "publish", "look", "lookRuntime", "monitor"}
      /\ pc[p] # "write" => loc[p].writes = <<>>

\* What a process knows of the modem stands for a namespace, or it is about to
\* store one.
NamespaceFollows ==
    \A p \in Procs :
      /\ loc[p].enrolled # None \/ loc[p].runtime # None => DedupeNamespace # None
      /\ Deciding(p) /\ loc[p].choice.runtime # None =>
           \/ DedupeNamespace # None
           \/ \E w \in Queued(p) : w.op \in {"enroll", "ensure"}

\* Every mismatch, stored, remembered or about to be stored, is with the
\* enrolled modem, which is not the placeholder of an earlier version.
Against(id) == id # None => id = meta.enrolled /\ id # Legacy
MismatchesAreCurrent ==
    /\ \A path \in Paths : Against(quarantine[path]) /\ Against(pending[Service][path])
    /\ \A w \in Queued(Service) : w.op = "mark" => Against(w.id)

\* While the service decides it works on what meta holds, and an identity it
\* goes by is the last it read at that path.
DecidesOnMeta ==
    LET l == loc[Service]
    IN  /\ ~At(Service, {"idle", "meta"}) => meta.enrolled # Legacy
        /\ At(Service, {"probe", "judge", "list", "scan"}) =>
             l.enrolled = meta.enrolled /\ l.runtime = meta.runtime
        /\ At(Service, {"judge"}) /\ l.id # None => seen[Service][Configured] = l.id
        /\ At(Service, {"meta", "probe", "judge", "list"}) => DOMAIN l.ids = {}
        /\ \A path \in DOMAIN l.ids :
             At(Service, {"scan"}) /\ l.ids[path] # None =>
               seen[Service][path] = l.ids[path]
        /\ At(Service, {"list", "scan"}) /\ ~l.mismatch =>
             /\ quarantine[Configured] = None /\ pending[Service][Configured] = None
             /\ l.writes = <<>>

\* A modem is enrolled when none is, by the last of several writes; a mismatch
\* is cleared by the first, for the identity that was read.
WritesAreFounded ==
    LET ws == loc[Service].writes
    IN  \A i \in DOMAIN ws :
          /\ ws[i].op = "enroll" => meta.enrolled = None /\ i = Len(ws)
          /\ ws[i].op = "clear" =>
               /\ i = 1
               /\ meta.enrolled \in {None, seen[Service][ws[i].path]}
          /\ ws[i] = Ensure(Local) => i = 1 /\ meta.enrolled = None /\ meta.runtime = None
          /\ At(Service, {"idle", "meta", "list"}) => ws[i].op = "mark"

\* The target of actions has no mismatch, and none is about to be stored; the
\* one chosen has none either, or it is cleared first.
NoMismatch(path) == quarantine[path] = None /\ pending[Service][path] = None
TargetsAreClear ==
    LET act == targets[Service].action
        choice == loc[Service].choice.action
    IN  /\ Observing(Service) /\ act # None =>
             NoMismatch(act) /\ \A w \in Queued(Service) : w.op = "mark" => w.path # act
        /\ Deciding(Service) =>
             /\ \A w \in Queued(Service) : w.op # "mark"
             /\ \/ choice = None
                \/ NoMismatch(choice)
                \/ loc[Service].writes # <<>> /\ Head(loc[Service].writes) = Clear(choice)

\* Only modems this machine has are ever known.
KnowsOwned ==
    LET Known == owned \cup {None}
    IN  /\ meta.enrolled \in Known \cup {Legacy} /\ meta.runtime \in Known
        /\ loc[Service].id \in Known
        /\ \A path \in DOMAIN loc[Service].ids : loc[Service].ids[path] \in Known
        /\ \A w \in Queued(Service) :
             w.op \in {"enroll", "ensure", "observe"} => w.id \in owned \cup {Local}

\* The type invariant, and what a published target rests on: messages read
\* from it have a namespace, commands sent to it no known mismatch
\* (resolve_monitor_path), because the service, alone on its database, works
\* on what the database holds.
TargetsAreSafe ==
    /\ TypeOK
    /\ OnlyServiceMonitors /\ NamespaceFollows /\ MonitoringHasNamespace
    /\ MismatchesAreCurrent /\ DecidesOnMeta /\ WritesAreFounded
    /\ TargetsAreClear /\ QuarantinedNeverActs
    /\ KnowsOwned

\* docs/specs/simadmin/03-modem-watchdog-and-recovery.md:111: a change of
\* identity detected at the configured path withdraws the action target and
\* stores the mismatch.  So no action target is a path where the service last
\* read an identity that is not the enrolled one.
ActsOnSeenModem ==
    LET act == targets[Service].action
    IN  pc[Service] = "monitor" /\ act # None /\ meta.enrolled \in Modems =>
          seen[Service][act] \in {None, meta.enrolled}

\* When exactly one modem stays plugged in, it is monitored in the end.
Alone(path) == {i \in Paths : at[i] # None} = {path}
FindsTheModem ==
    \A path \in Paths : <>[]Alone(path) => <>[](targets[Service].runtime = path)
===========================================================================
