--------------------------- MODULE IdentityStore ---------------------------
(***************************************************************************)
(* What the service remembers about the modem in the `meta' table          *)
(* (src/src/storage/metadata.rs, persistence/mod.rs), and the choice of    *)
(* modem paths that resolve_monitor_path makes from it                     *)
(* (src/src/inbound.rs).                                                   *)
(*                                                                         *)
(* A fingerprint is a hash of the identity of a modem, so it is modelled   *)
(* by the modem itself; two modems never share one.                        *)
(***************************************************************************)
EXTENDS Naturals, FiniteSets, Sequences

CONSTANTS
    Modems,         \* the physical modems, and their fingerprints
    Paths,          \* ModemManager object paths
    Configured,     \* app.modem_path
    Legacy,         \* the fingerprint earlier versions stored for any modem
    Local,          \* a namespace that is a random UUID
    None            \* no row, no identity, no path

ASSUME IdentityStoreAssumption ==
    /\ Configured \in Paths
    /\ Legacy \notin Modems /\ Local \notin Modems /\ Legacy # Local
    /\ None \notin Modems \cup Paths \cup {Legacy, Local}

Fingerprints == Modems \cup {Legacy}
Namespaces   == Fingerprints \cup {Local}

VARIABLES
    meta,       \* modem_fingerprint, runtime_modem_fingerprint and
                \* modem_dedupe_namespace
    quarantine  \* quarantine[path]: modem_identity_mismatch:<path>

identityVars == <<meta, quarantine>>

MetaType == [enrolled:  Fingerprints \cup {None},
             runtime:   Modems \cup {None},
             namespace: Namespaces \cup {None}]

IdentityTypeOK ==
    /\ meta \in MetaType
    /\ quarantine \in [Paths -> Fingerprints \cup {None}]

Blank(enrolled) == [enrolled |-> enrolled, runtime |-> None, namespace |-> None]

(***************************************************************************)
(* inbound_dedupe_namespace: the explicit namespace comes first, then the  *)
(* enrolled fingerprint, then the one observed at run time.                *)
(***************************************************************************)
DedupeNamespace ==
    CASE meta.namespace # None -> meta.namespace
      [] meta.namespace = None /\ meta.enrolled # None -> meta.enrolled
      [] OTHER -> meta.runtime

(***************************************************************************)
(* The writes, each one transaction.                                       *)
(***************************************************************************)
Mark(path, id)     == [op |-> "mark",    path |-> path, id |-> id]
Clear(path)        == [op |-> "clear",   path |-> path, id |-> None]
Enroll(id)         == [op |-> "enroll",  path |-> None, id |-> id]
Ensure(id)         == [op |-> "ensure",  path |-> None, id |-> id]
ObserveRuntime(id) == [op |-> "observe", path |-> None, id |-> id]

WriteType ==
    {Mark(path, id) : path \in Paths, id \in Fingerprints}
      \cup {Clear(path) : path \in Paths}
      \cup {Enroll(id) : id \in Modems}
      \cup {Ensure(id) : id \in Modems \cup {Local}}
      \cup {ObserveRuntime(id) : id \in Modems}

\* Mutant: INSERT OR REPLACE for the namespace too.
MetaReplaced(m, w) ==
    CASE w.op = "enroll"  -> [m EXCEPT !.enrolled = w.id]
      [] w.op = "observe" -> [m EXCEPT !.runtime = w.id]
      [] w.op = "ensure"  -> [m EXCEPT !.namespace = w.id]
      [] OTHER -> m

\* Mutant: what is observed at run time is enrolled.
MetaEnrolled(m, w) ==
    CASE w.op \in {"enroll", "observe"} -> [m EXCEPT !.enrolled = w.id]
      [] w.op = "ensure" /\ m.namespace = None -> [m EXCEPT !.namespace = w.id]
      [] OTHER -> m

\* Mutant: the namespace is recorded as the observed fingerprint as well.
MetaConfused(m, w) ==
    CASE w.op = "enroll"  -> [m EXCEPT !.enrolled = w.id]
      [] w.op = "observe" -> [m EXCEPT !.runtime = w.id]
      [] w.op = "ensure" /\ m.namespace = None ->
           [m EXCEPT !.namespace = w.id, !.runtime = w.id]
      [] OTHER -> m

\* INSERT OR IGNORE for the namespace, INSERT OR REPLACE for the others.
MetaAfter(m, w) ==
    CASE w.op = "enroll"  -> [m EXCEPT !.enrolled = w.id]
      [] w.op = "observe" -> [m EXCEPT !.runtime = w.id]
      [] w.op = "ensure" /\ m.namespace = None -> [m EXCEPT !.namespace = w.id]
      [] OTHER -> m

QuarantineAfter(q, w) ==
    CASE w.op = "mark"  -> [q EXCEPT ![w.path] = w.id]
      [] w.op = "clear" -> [q EXCEPT ![w.path] = None]
      [] OTHER -> q

\* migrate_legacy_modem_fingerprint
Migrated(m) ==
    IF m.enrolled = Legacy
    THEN [m EXCEPT !.enrolled = None,
                   !.namespace = IF @ = None THEN Legacy ELSE @]
    ELSE m

\* What several writes leave, made one after the other.
MetaWritten(m, writes) ==
    LET after[n \in 0..Len(writes)] ==
          IF n = 0 THEN m ELSE MetaAfter(after[n - 1], writes[n])
    IN  after[Len(writes)]

QuarantineWritten(q, writes) ==
    LET after[n \in 0..Len(writes)] ==
          IF n = 0 THEN q ELSE QuarantineAfter(after[n - 1], writes[n])
    IN  after[Len(writes)]

(***************************************************************************)
(* Modem targets, and the two choices of resolve_monitor_path.  A choice   *)
(* is the targets it returns and the writes it makes first, in order.      *)
(***************************************************************************)
Targets(run, act) == [runtime |-> run, action |-> act]
NoTargets == Targets(None, None)
TargetsType == [runtime: Paths \cup {None}, action: Paths \cup {None}]

Choice(targets, writes) == [targets |-> targets, writes |-> writes]

\* The configured path is quarantined against the enrolled modem.
Quarantined(enrolled, stored, pending) ==
    enrolled # None /\ (stored = enrolled \/ pending = enrolled)

\* The identity read at the configured path is the enrolled one, or nothing is
\* enrolled yet and it becomes the enrolled one.
ConfiguredChoice(enrolled, id) ==
    Choice(Targets(Configured, Configured),
           IF enrolled = None THEN <<Clear(Configured), Enroll(id)>>
                              ELSE <<Clear(Configured)>>)

\* Mutant: the modem without an identity is monitored without a namespace.
NoFallback(enrolled, runtime) == <<>>

\* A modem that never told its identity gets a random namespace, unless one
\* is known.
FallbackNamespace(enrolled, runtime) ==
    IF enrolled = None /\ runtime = None THEN <<Ensure(Local)>> ELSE <<>>

\* Mutant: an unverified modem is not monitored.
OnlyVerified(enrolled, runtime, mismatch, path, id) ==
    IF path = Configured /\ ~mismatch THEN Choice(Targets(path, path), <<>>)
    ELSE Choice(NoTargets, <<>>)

\* The only modem there is: monitored whatever its identity, and the target
\* of actions only at the configured path.
SoleChoice(enrolled, runtime, mismatch, path, id) ==
    LET adopted == IF id = None THEN FallbackNamespace(enrolled, runtime)
                   ELSE <<Ensure(id), ObserveRuntime(id)>>
    IN  IF path # Configured \/ mismatch THEN Choice(Targets(path, None), adopted)
        ELSE IF id = None THEN Choice(Targets(path, path), adopted)
        ELSE IF enrolled = None THEN Choice(Targets(path, path), <<Enroll(id)>>)
        ELSE Choice(Targets(path, None), adopted)

\* The choice among the listed paths, with the identities read there.
\* `mismatch' bars the configured path from control actions.
CandidateChoice(enrolled, runtime, mismatch, ids) ==
    LET With(id) == {path \in DOMAIN ids : id # None /\ ids[path] = id}
        The(S) == CHOOSE x \in S : TRUE
        kept == IF ~mismatch /\ Configured \in DOMAIN ids /\ ids[Configured] = None
                THEN Configured ELSE None
        unresolved == Choice(Targets(None, kept), <<>>)
        match == The(With(enrolled))
        only == The(DOMAIN ids)
    IN  IF With(enrolled) # {} THEN
            IF Cardinality(With(enrolled)) > 1 THEN unresolved
            ELSE Choice(Targets(match, match), <<Clear(match)>>)
        ELSE IF With(runtime) # {} THEN
            IF Cardinality(With(runtime)) > 1 THEN unresolved
            ELSE Choice(Targets(The(With(runtime)), kept), <<Ensure(runtime)>>)
        ELSE IF Cardinality(DOMAIN ids) # 1 THEN unresolved
        ELSE SoleChoice(enrolled, runtime, mismatch, only, ids[only])
===========================================================================
