--------------------------- MODULE IdentityProofs ---------------------------
(***************************************************************************)
(* Theorems about module ModemIdentity, for every set of modems and paths  *)
(* and every number of moves and faults: the types; that a monitored path  *)
(* always has a namespace for its messages, commands or not; and, for a    *)
(* service that is alone on its database, that no control action goes to a *)
(* quarantined path, and that the enrolled modem, its namespace and the    *)
(* mismatches are given up only for cause.                                 *)
(***************************************************************************)
EXTENDS ModemIdentity, FiniteSetTheorems, SequenceTheorems, TLAPS

-----------------------------------------------------------------------------
(***************************************************************************)
(* Records and writes.                                                     *)
(***************************************************************************)
Ids == UNION {[S -> Modems \cup {None}] : S \in SUBSET Paths}

LEMMA IdsFacts ==
    /\ \A ids \in Ids : /\ DOMAIN ids \subseteq Paths
                        /\ \A path \in DOMAIN ids : ids[path] \in Modems \cup {None}
    /\ \A S \in SUBSET Paths : \A ids : ids \in [S -> Modems \cup {None}] => ids \in Ids
BY DEF Ids

LEMMA StartType == Start \in LocType /\ Start.writes = <<>>
<1>1. NoIds \in Ids
  <2>1. NoIds \in [{} -> Modems \cup {None}]
    BY DEF NoIds
  <2> QED BY <2>1, IdsFacts
<1>2. <<>> \in Seq(WriteType)
  OBVIOUS
<1> QED BY <1>1, <1>2 DEF Start, LocType, NoTargets, Targets, TargetsType, Points, Ids

LEMMA LocFacts ==
    ASSUME NEW l \in LocType
    PROVE  /\ l.enrolled \in Fingerprints \cup {None} /\ l.runtime \in Fingerprints \cup {None}
           /\ l.id \in Modems \cup {None} /\ l.mismatch \in BOOLEAN
           /\ l.ids \in Ids /\ l.left \subseteq Paths
           /\ l.writes \in Seq(WriteType) /\ l.next \in Points
           /\ l.choice \in TargetsType /\ l.action \in Paths \cup {None}
BY DEF LocType, Ids

LEMMA WriteFacts ==
    ASSUME NEW w \in WriteType
    PROVE  /\ w.op \in {"mark", "clear", "enroll", "ensure", "observe"}
           /\ w.op = "mark" => w.path \in Paths /\ w.id \in Fingerprints
           /\ w.op = "clear" => w.path \in Paths /\ w = Clear(w.path)
           /\ w.op = "enroll" => w.id \in Modems
           /\ w.op = "ensure" => w.id \in Modems \cup {Local} /\ w = Ensure(w.id)
           /\ w.op = "observe" => w.id \in Modems
BY DEF WriteType, Mark, Clear, Enroll, Ensure, ObserveRuntime

LEMMA WriteForms ==
    /\ \A path \in Paths, id \in Fingerprints :
         /\ Mark(path, id) \in WriteType /\ Mark(path, id).op = "mark"
         /\ Mark(path, id).path = path /\ Mark(path, id).id = id
    /\ \A path \in Paths : /\ Clear(path) \in WriteType /\ Clear(path).op = "clear"
                           /\ Clear(path).path = path
    /\ \A id \in Modems : /\ Enroll(id) \in WriteType /\ Enroll(id).op = "enroll"
                          /\ Enroll(id).id = id
                          /\ ObserveRuntime(id) \in WriteType
                          /\ ObserveRuntime(id).op = "observe" /\ ObserveRuntime(id).id = id
    /\ \A id \in Modems \cup {Local} : /\ Ensure(id) \in WriteType /\ Ensure(id).op = "ensure"
                                       /\ Ensure(id).id = id
BY DEF WriteType, Mark, Clear, Enroll, Ensure, ObserveRuntime

\* One write to the meta table.
LEMMA MetaStep ==
    ASSUME NEW m \in MetaType, NEW w \in WriteType
    PROVE  /\ MetaAfter(m, w) \in MetaType
           /\ w.op \in {"mark", "clear"} => MetaAfter(m, w) = m
           /\ w.op = "enroll" => /\ MetaAfter(m, w).enrolled = w.id
                                 /\ MetaAfter(m, w).runtime = m.runtime
                                 /\ MetaAfter(m, w).namespace = m.namespace
           /\ w.op = "observe" => /\ MetaAfter(m, w).enrolled = m.enrolled
                                  /\ MetaAfter(m, w).runtime = w.id
                                  /\ MetaAfter(m, w).namespace = m.namespace
           /\ w.op = "ensure" => /\ MetaAfter(m, w).enrolled = m.enrolled
                                 /\ MetaAfter(m, w).runtime = m.runtime
                                 /\ MetaAfter(m, w).namespace
                                      = IF m.namespace = None THEN w.id ELSE m.namespace
<1>1. CASE w.op \in {"mark", "clear"}
  BY <1>1 DEF MetaAfter
<1>2. CASE w.op = "enroll"
  <2>1. MetaAfter(m, w) = [m EXCEPT !.enrolled = w.id]
    BY <1>2 DEF MetaAfter
  <2> QED BY <1>2, <2>1, WriteFacts DEF MetaType, Fingerprints
<1>3. CASE w.op = "observe"
  <2>1. MetaAfter(m, w) = [m EXCEPT !.runtime = w.id]
    BY <1>3 DEF MetaAfter
  <2> QED BY <1>3, <2>1, WriteFacts DEF MetaType
<1>4. CASE w.op = "ensure" /\ m.namespace = None
  <2>1. MetaAfter(m, w) = [m EXCEPT !.namespace = w.id]
    BY <1>4 DEF MetaAfter
  <2> QED BY <1>4, <2>1, WriteFacts DEF MetaType, Namespaces, Fingerprints
<1>5. CASE w.op = "ensure" /\ m.namespace # None
  BY <1>5 DEF MetaAfter
<1> QED BY <1>1, <1>2, <1>3, <1>4, <1>5, WriteFacts

QuarantineType == [Paths -> Fingerprints \cup {None}]

LEMMA QuarantineStep ==
    ASSUME NEW q \in QuarantineType, NEW w \in WriteType
    PROVE  /\ QuarantineAfter(q, w) \in QuarantineType
           /\ \A path \in Paths : QuarantineAfter(q, w)[path] =
                IF w.op = "mark" /\ path = w.path THEN w.id
                ELSE IF w.op = "clear" /\ path = w.path THEN None
                ELSE q[path]
<1>1. CASE w.op = "mark"
  <2>1. QuarantineAfter(q, w) = [q EXCEPT ![w.path] = w.id]
    BY <1>1 DEF QuarantineAfter
  <2> QED BY <1>1, <2>1, WriteFacts DEF QuarantineType
<1>2. CASE w.op = "clear"
  <2>1. QuarantineAfter(q, w) = [q EXCEPT ![w.path] = None]
    BY <1>2 DEF QuarantineAfter
  <2> QED BY <1>2, <2>1, WriteFacts DEF QuarantineType
<1>3. CASE w.op \notin {"mark", "clear"}
  BY <1>3 DEF QuarantineAfter
<1> QED BY <1>1, <1>2, <1>3

LEMMA MigrationStep ==
    ASSUME NEW m \in MetaType
    PROVE  /\ Migrated(m) \in MetaType /\ Migrated(m).enrolled # Legacy
           /\ Migrated(m).runtime = m.runtime
           /\ m.enrolled # Legacy => Migrated(m) = m
           /\ m.enrolled = Legacy =>
                /\ Migrated(m).enrolled = None
                /\ Migrated(m).namespace = IF m.namespace = None THEN Legacy ELSE m.namespace
<1>1. CASE m.enrolled = Legacy
  <2>1. Migrated(m) = [m EXCEPT !.enrolled = None,
                                !.namespace = IF m.namespace = None THEN Legacy ELSE m.namespace]
    BY <1>1 DEF Migrated
  <2> QED BY <1>1, <2>1, IdentityStoreAssumption DEF MetaType, Namespaces, Fingerprints
<1>2. CASE m.enrolled # Legacy
  BY <1>2 DEF Migrated
<1> QED BY <1>1, <1>2

-----------------------------------------------------------------------------
(***************************************************************************)
(* The writes of a retry, and those of a choice.                           *)
(***************************************************************************)
LEMMA PendingFacts ==
    ASSUME TypeOK, NEW p \in Procs
    PROVE  /\ PendingWrites(p) \in Seq(WriteType)
           /\ \A i \in DOMAIN PendingWrites(p) : \E path \in Paths :
                /\ pending[p][path] # None
                /\ PendingWrites(p)[i] = Mark(path, pending[p][path])
<1> DEFINE Q == {i \in Paths : pending[p][i] # None}
           f == [path \in Q |-> Mark(path, pending[p][path])]
           S == {Mark(path, pending[p][path]) : path \in Q}
           n == Cardinality(S)
<1>1. pending[p] \in [Paths -> Fingerprints \cup {None}]
  BY DEF TypeOK
<1>2. S \subseteq WriteType
  BY <1>1, WriteForms
<1>3. IsFiniteSet(Q)
  BY FS_Subset, ModemIdentityAssumption
<1>4. f \in Surjection(Q, S)
  BY DEF Surjection
<1>5. IsFiniteSet(S)
  <2> HIDE DEF f, S, Q
  <2> QED BY <1>3, <1>4, FS_Surjection
<1>6. n \in Nat /\ ExistsBijection(1..n, S)
  <2> HIDE DEF S
  <2> QED BY <1>5, FS_CardinalityType
<1>7. \E g \in [1..n -> S] : IsInjective(g)
  <2> HIDE DEF S, n
  <2> QED BY <1>6 DEF ExistsBijection, Bijection, Injection
<1>8. SetToSeq(S) \in [1..n -> S]
  BY <1>7 DEF SetToSeq
<1>9. PendingWrites(p) = SetToSeq(S)
  BY DEF PendingWrites
<1>10. \A x \in S : \E path \in Paths : pending[p][path] # None /\ x = Mark(path, pending[p][path])
  OBVIOUS
<1> HIDE DEF S, n
<1>11. PendingWrites(p) \in Seq(WriteType) /\ DOMAIN PendingWrites(p) = 1..n
  <2>1. PendingWrites(p) \in [1..n -> WriteType]
    BY <1>2, <1>8, <1>9
  <2> QED BY <1>6, <2>1
<1> QED BY <1>8, <1>9, <1>10, <1>11

\* What a choice among candidates may be.
FoundIn(ids, x) == \E path \in DOMAIN ids : ids[path] = x
ChoiceFits(e, r, barred, ids, C) ==
    LET act == C.targets.action
        run == C.targets.runtime
        ws == C.writes
        MayAct == act # None => act = Configured /\ ~barred
    IN  /\ C.targets \in TargetsType
        /\ \/ /\ ws = <<>> /\ MayAct
              /\ run # None => e # None \/ r # None
           \/ \E path \in DOMAIN ids :
                ids[path] = e /\ e # None /\ ws = <<Clear(path)>> /\ act = path
           \/ \E x \in Modems :
                /\ ws = <<Ensure(x)>> /\ MayAct
                /\ x = r /\ FoundIn(ids, x)
           \/ /\ e = None /\ r = None
              /\ ws = <<Ensure(Local)>> /\ MayAct
           \/ \E x \in Modems :
                /\ ws = <<Ensure(x), ObserveRuntime(x)>> /\ act = None
                /\ FoundIn(ids, x)
           \/ \E x \in Modems :
                /\ e = None /\ ws = <<Enroll(x)>> /\ MayAct
                /\ FoundIn(ids, x)

LEMMA SoleFits ==
    ASSUME NEW e \in Fingerprints \cup {None}, NEW r \in Fingerprints \cup {None},
           NEW barred \in BOOLEAN, NEW ids \in Ids, NEW path \in DOMAIN ids
    PROVE  ChoiceFits(e, r, barred, ids, SoleChoice(e, r, barred, path, ids[path]))
<1> DEFINE id == ids[path]
           C == SoleChoice(e, r, barred, path, id)
<1>1. path \in Paths /\ id \in Modems \cup {None} /\ FoundIn(ids, id)
  BY IdsFacts DEF FoundIn
<1>2. CASE id = None
  <2>1. C.writes = IF e = None /\ r = None THEN <<Ensure(Local)>> ELSE <<>>
    BY <1>2 DEF SoleChoice, Choice, FallbackNamespace
  <2>2. /\ C.targets \in TargetsType /\ C.targets.runtime = path
        /\ C.targets.action # None => C.targets.action = Configured /\ ~barred
    BY <1>1, <1>2 DEF SoleChoice, Choice, Targets, TargetsType
  <2> HIDE DEF C
  <2>3. ChoiceFits(e, r, barred, ids, C)
    BY <2>1, <2>2 DEF ChoiceFits
  <2> QED BY <2>3 DEF C
<1>3. CASE id # None
  <2>1. id \in Modems
    BY <1>1, <1>3
  <2>2. /\ C.targets \in TargetsType
        /\ \/ C.writes = <<Ensure(id), ObserveRuntime(id)>> /\ C.targets.action = None
           \/ /\ e = None /\ C.writes = <<Enroll(id)>>
              /\ C.targets.action # None => C.targets.action = Configured /\ ~barred
    <3>1. CASE path # Configured \/ barred
      BY <1>1, <1>3, <3>1 DEF SoleChoice, Choice, Targets, TargetsType
    <3>2. CASE ~(path # Configured \/ barred) /\ e = None
      BY <1>1, <1>3, <3>2 DEF SoleChoice, Choice, Targets, TargetsType
    <3>3. CASE ~(path # Configured \/ barred) /\ e # None
      BY <1>1, <1>3, <3>3 DEF SoleChoice, Choice, Targets, TargetsType
    <3> QED BY <3>1, <3>2, <3>3
  <2> HIDE DEF C, id
  <2>3. ChoiceFits(e, r, barred, ids, C)
    BY <1>1, <2>1, <2>2 DEF ChoiceFits
  <2> QED BY <2>3 DEF C, id
<1> QED BY <1>2, <1>3

LEMMA CandidateFits ==
    ASSUME NEW e \in Fingerprints \cup {None}, NEW r \in Fingerprints \cup {None},
           NEW barred \in BOOLEAN, NEW ids \in Ids
    PROVE  ChoiceFits(e, r, barred, ids, CandidateChoice(e, r, barred, ids))
<1> DEFINE With(id) == {path \in DOMAIN ids : id # None /\ ids[path] = id}
           kept == IF ~barred /\ Configured \in DOMAIN ids /\ ids[Configured] = None
                   THEN Configured ELSE None
           match == CHOOSE x \in With(e) : TRUE
           seen1 == CHOOSE x \in With(r) : TRUE
           only == CHOOSE x \in DOMAIN ids : TRUE
           C == CandidateChoice(e, r, barred, ids)
<1>1. C = IF With(e) # {} THEN
            IF Cardinality(With(e)) > 1 THEN Choice(Targets(None, kept), <<>>)
            ELSE Choice(Targets(match, match), <<Clear(match)>>)
          ELSE IF With(r) # {} THEN
            IF Cardinality(With(r)) > 1 THEN Choice(Targets(None, kept), <<>>)
            ELSE Choice(Targets(seen1, kept), <<Ensure(r)>>)
          ELSE IF Cardinality(DOMAIN ids) # 1 THEN Choice(Targets(None, kept), <<>>)
          ELSE SoleChoice(e, r, barred, only, ids[only])
  BY DEF CandidateChoice
<1>2. DOMAIN ids \subseteq Paths
  BY IdsFacts
<1>3. (kept # None => kept = Configured /\ ~barred) /\ kept \in Paths \cup {None}
  BY IdentityStoreAssumption
<1>4. With(e) # {} => match \in DOMAIN ids /\ e # None /\ ids[match] = e
  <2>1. With(e) # {} => match \in With(e)
    OBVIOUS
  <2> QED BY <2>1
<1>5. With(r) # {} => seen1 \in DOMAIN ids /\ r # None /\ ids[seen1] = r /\ r \in Modems
  <2>1. With(r) # {} => seen1 \in With(r)
    OBVIOUS
  <2> QED BY <2>1, IdsFacts
<1> HIDE DEF With, kept, match, seen1, C
<1>6. CASE C = Choice(Targets(None, kept), <<>>)
  <2>1. /\ C.targets \in TargetsType /\ C.writes = <<>>
        /\ C.targets.runtime = None /\ C.targets.action = kept
    BY <1>3, <1>6 DEF Choice, Targets, TargetsType
  <2>2. ChoiceFits(e, r, barred, ids, C)
    BY <1>3, <2>1 DEF ChoiceFits
  <2> QED BY <2>2 DEF C
<1>7. CASE With(e) # {} /\ C = Choice(Targets(match, match), <<Clear(match)>>)
  <2>1. match \in DOMAIN ids /\ match \in Paths /\ e # None /\ ids[match] = e
    BY <1>2, <1>4, <1>7
  <2>2. /\ C.targets \in TargetsType /\ C.writes = <<Clear(match)>>
        /\ C.targets.action = match
    BY <1>7, <2>1 DEF Choice, Targets, TargetsType
  <2>3. ChoiceFits(e, r, barred, ids, C)
    BY <2>1, <2>2 DEF ChoiceFits
  <2> QED BY <2>3 DEF C
<1>8. CASE With(r) # {} /\ C = Choice(Targets(seen1, kept), <<Ensure(r)>>)
  <2>1. seen1 \in Paths /\ r \in Modems /\ FoundIn(ids, r)
    BY <1>2, <1>5, <1>8 DEF FoundIn
  <2>2. /\ C.targets \in TargetsType /\ C.writes = <<Ensure(r)>>
        /\ C.targets.action = kept
    BY <1>3, <1>8, <2>1 DEF Choice, Targets, TargetsType
  <2>3. ChoiceFits(e, r, barred, ids, C)
    BY <1>3, <2>1, <2>2 DEF ChoiceFits
  <2> QED BY <2>3 DEF C
<1>9. CASE /\ Cardinality(DOMAIN ids) = 1
           /\ C = SoleChoice(e, r, barred, only, ids[only])
  <2>1. DOMAIN ids # {}
    BY <1>9, FS_EmptySet
  <2>2. only \in DOMAIN ids
    BY <2>1
  <2> HIDE DEF only
  <2>3. ChoiceFits(e, r, barred, ids, SoleChoice(e, r, barred, only, ids[only]))
    BY <2>2, SoleFits
  <2> QED BY <1>9, <2>3 DEF C
<1> QED BY <1>1, <1>6, <1>7, <1>8, <1>9

\* The writes of a choice are writes, and none of them marks a path.
LEMMA ChoiceWritesFit ==
    ASSUME NEW e, NEW r, NEW barred, NEW ids \in Ids, NEW C, ChoiceFits(e, r, barred, ids, C)
    PROVE  /\ C.targets \in TargetsType
           /\ C.writes \in Seq(WriteType)
           /\ \A i \in DOMAIN C.writes : C.writes[i].op # "mark"
<1> DEFINE ws == C.writes
<1>1. CASE ws = <<>>
  BY <1>1 DEF ChoiceFits
<1>2. CASE \E w \in WriteType : ws = <<w>> /\ w.op # "mark"
  <2>1. PICK w \in WriteType : ws = <<w>> /\ w.op # "mark"
    BY <1>2
  <2>2. ws \in Seq(WriteType) /\ \A i \in DOMAIN ws : ws[i] = w
    BY <2>1
  <2> QED BY <2>1, <2>2 DEF ChoiceFits
<1>3. CASE \E v, w \in WriteType : ws = <<v, w>> /\ v.op # "mark" /\ w.op # "mark"
  <2>1. PICK v \in WriteType, w \in WriteType :
          ws = <<v, w>> /\ v.op # "mark" /\ w.op # "mark"
    BY <1>3
  <2>2. ws \in Seq(WriteType) /\ \A i \in DOMAIN ws : ws[i] = v \/ ws[i] = w
    BY <2>1
  <2> QED BY <2>1, <2>2 DEF ChoiceFits
<1>4. DOMAIN ids \subseteq Paths
  BY IdsFacts
<1> QED BY <1>1, <1>2, <1>3, <1>4, WriteForms DEF ChoiceFits

-----------------------------------------------------------------------------
(***************************************************************************)
(* The type invariant, with the points where a process has writes to make. *)
(***************************************************************************)
Shape == TypeOK /\ OnlyServiceMonitors

Elsewhere(p) ==
    \A q \in Procs \ {p} :
      /\ pc'[q] = pc[q] /\ loc'[q] = loc[q] /\ targets'[q] = targets[q]
      /\ pending'[q] = pending[q] /\ seen'[q] = seen[q]

WriteNext == {"meta", "list", "publish", "look", "lookRuntime", "monitor"}

\* A process goes on with writes to make.
LEMMA GoesOn ==
    ASSUME TypeOK, NEW p \in Procs, NEW l \in LocType, NEW ws \in Seq(WriteType),
           NEW next \in WriteNext, WriteThen(p, l, ws, next)
    PROVE  /\ pc' \in [Procs -> Points] /\ loc' \in [Procs -> LocType]
           /\ \A q \in Procs \ {p} : pc'[q] = pc[q] /\ loc'[q] = loc[q]
           /\ pc'[p] = IF ws = <<>> THEN next ELSE "write"
           /\ loc'[p].writes = ws /\ loc'[p].next = next
           /\ loc'[p].enrolled = l.enrolled /\ loc'[p].runtime = l.runtime
           /\ loc'[p].id = l.id /\ loc'[p].mismatch = l.mismatch
           /\ loc'[p].ids = l.ids /\ loc'[p].left = l.left
           /\ loc'[p].choice = l.choice /\ loc'[p].action = l.action
<1>0. PICK k : k = [l EXCEPT !.writes = ws, !.next = next]
  OBVIOUS
<1>1. next \in Points /\ "write" \in Points
  BY DEF WriteNext, Points
<1>2. /\ k \in LocType /\ k.writes = ws /\ k.next = next
      /\ k.enrolled = l.enrolled /\ k.runtime = l.runtime /\ k.id = l.id
      /\ k.mismatch = l.mismatch /\ k.ids = l.ids /\ k.left = l.left
      /\ k.choice = l.choice /\ k.action = l.action
  BY <1>0, <1>1 DEF LocType
<1>3. loc' = [loc EXCEPT ![p] = k]
  BY <1>0 DEF WriteThen
<1>4. pc' = [pc EXCEPT ![p] = IF ws = <<>> THEN next ELSE "write"]
  BY DEF WriteThen, Goto
<1>5. loc' \in [Procs -> LocType] /\ loc'[p] = k /\ \A q \in Procs \ {p} : loc'[q] = loc[q]
  BY <1>2, <1>3 DEF TypeOK
<1>6. /\ pc' \in [Procs -> Points] /\ pc'[p] = IF ws = <<>> THEN next ELSE "write"
      /\ \A q \in Procs \ {p} : pc'[q] = pc[q]
  BY <1>1, <1>4 DEF TypeOK
<1> QED BY <1>2, <1>5, <1>6

\* What is left to prove of the shape after a step of p.
LEMMA ShapeFrom ==
    ASSUME Shape, NEW p \in Procs, TypeOK', Elsewhere(p),
           Observing(p)' => p = Service /\ targets'[p].runtime # None,
           pc'[p] = "write" => loc'[p].writes # <<>> /\ loc'[p].next \in WriteNext,
           pc'[p] # "write" => loc'[p].writes = <<>>
    PROVE  Shape'
<1>1. ASSUME NEW q \in Procs, q # p
      PROVE  /\ Observing(q)' => q = Service /\ targets'[q].runtime # None
             /\ pc'[q] = "write" => loc'[q].writes # <<>> /\ loc'[q].next \in WriteNext
             /\ pc'[q] # "write" => loc'[q].writes = <<>>
  <2>1. pc'[q] = pc[q] /\ loc'[q] = loc[q] /\ targets'[q] = targets[q]
    BY <1>1 DEF Elsewhere
  <2> QED BY <2>1 DEF Shape, OnlyServiceMonitors, Observing, At, WriteNext
<1>2. \A q \in Procs :
        /\ Observing(q)' => q = Service /\ targets'[q].runtime # None
        /\ pc'[q] = "write" => loc'[q].writes # <<>> /\ loc'[q].next \in WriteNext
        /\ pc'[q] # "write" => loc'[q].writes = <<>>
  BY <1>1
<1>3. OnlyServiceMonitors'
  BY <1>2 DEF OnlyServiceMonitors, WriteNext
<1> QED BY <1>3 DEF Shape

LEMMA InitShape == Init => Shape
<1> SUFFICES ASSUME Init PROVE Shape
  OBVIOUS
<1> USE ModemIdentityAssumption, IdentityStoreAssumption
<1>1. IdentityTypeOK
  BY DEF Init, IdentityTypeOK, Nowhere
<1>2. loc \in [Procs -> LocType]
  BY StartType DEF Init
<1>3. pc \in [Procs -> Points]
  BY DEF Init, Points
<1>4. targets \in [Procs -> TargetsType]
  BY DEF Init, NoTargets, Targets, TargetsType
<1>5. /\ pending \in [Procs -> [Paths -> Fingerprints \cup {None}]]
      /\ seen \in [Procs -> [Paths -> Modems \cup {None}]]
  BY DEF Init, Nowhere
<1>6. /\ owned \in SUBSET Modems /\ at \in [Paths -> owned \cup {None}]
      /\ moves \in 0..MaxMoves /\ faults \in 0..MaxFaults
  BY DEF Init
<1>7. TypeOK
  BY <1>1, <1>2, <1>3, <1>4, <1>5, <1>6 DEF TypeOK
<1>8. \A p \in Procs : pc[p] = "idle" /\ loc[p].writes = <<>>
  BY StartType DEF Init
<1> QED BY <1>7, <1>8 DEF Shape, OnlyServiceMonitors, Observing, At

\* A resolution or an observation begins with the mismatches not stored yet.
Retries(p, next) ==
    /\ WriteThen(p, Start, PendingWrites(p), next)
    /\ UNCHANGED <<owned, at, moves, targets, pending, seen, identityVars>>
    /\ faults' \in 0..MaxFaults

LEMMA RetriesFacts ==
    ASSUME Shape, NEW p \in Procs, NEW next \in {"meta", "look"}, Retries(p, next),
           next = "look" => Observing(p)
    PROVE  /\ Shape' /\ Elsewhere(p)
           /\ pc'[p] \in {next, "write"} /\ loc'[p].next = next
           /\ loc'[p].writes = PendingWrites(p)
           /\ loc'[p].enrolled = None /\ loc'[p].runtime = None /\ loc'[p].id = None
           /\ loc'[p].ids = NoIds /\ loc'[p].choice = NoTargets
<1>0. TypeOK
  BY DEF Shape
<1>1. PendingWrites(p) \in Seq(WriteType) /\ next \in WriteNext
  BY <1>0, PendingFacts DEF WriteNext
<1>2. WriteThen(p, Start, PendingWrites(p), next)
  BY DEF Retries
<1>3. /\ pc' \in [Procs -> Points] /\ loc' \in [Procs -> LocType]
      /\ \A q \in Procs \ {p} : pc'[q] = pc[q] /\ loc'[q] = loc[q]
      /\ pc'[p] = IF PendingWrites(p) = <<>> THEN next ELSE "write"
      /\ loc'[p].writes = PendingWrites(p) /\ loc'[p].next = next
      /\ loc'[p].enrolled = Start.enrolled /\ loc'[p].runtime = Start.runtime
      /\ loc'[p].id = Start.id /\ loc'[p].ids = Start.ids
      /\ loc'[p].choice = Start.choice
  BY <1>0, <1>1, <1>2, StartType, GoesOn
<1>4. TypeOK'
  BY <1>0, <1>3 DEF TypeOK, Retries, IdentityTypeOK, identityVars
<1>5. Elsewhere(p) /\ targets'[p] = targets[p]
  BY <1>3 DEF Elsewhere, Retries
<1>6. Observing(p)' => p = Service /\ targets'[p].runtime # None
  <2>1. Observing(p)' => next = "look"
    BY <1>3 DEF Observing, At
  <2> QED BY <1>5, <2>1 DEF Shape, OnlyServiceMonitors
<1>7. Shape'
  BY <1>1, <1>3, <1>4, <1>5, <1>6, ShapeFrom
<1> QED BY <1>3, <1>5, <1>7 DEF Start

-----------------------------------------------------------------------------
(***************************************************************************)
(* What each step does to the process that makes it.                       *)
(***************************************************************************)
LEMMA ReadMetaFacts ==
    ASSUME Shape, NEW p \in Procs, ReadMeta(p)
    PROVE  /\ Shape' /\ Elsewhere(p)
           /\ pc[p] = "meta" /\ pc'[p] = "probe"
           /\ loc'[p].enrolled = meta'.enrolled /\ loc'[p].runtime = meta'.runtime
           /\ loc'[p].ids = loc[p].ids /\ loc'[p].writes = <<>>
<1>0. TypeOK /\ loc[p] \in LocType /\ meta \in MetaType
  BY DEF Shape, TypeOK, IdentityTypeOK
<1>1. /\ pc[p] = "meta" /\ pc' = [pc EXCEPT ![p] = "probe"] /\ meta' = Migrated(meta)
      /\ UNCHANGED <<owned, at, moves, faults, targets, pending, seen, quarantine>>
  BY DEF ReadMeta, Goto
<1>2. PICK k : k = [loc[p] EXCEPT !.enrolled = meta'.enrolled, !.runtime = meta.runtime]
  OBVIOUS
<1>3. loc' = [loc EXCEPT ![p] = k]
  BY <1>0, <1>2 DEF ReadMeta, TypeOK
<1>4. meta' \in MetaType /\ meta'.runtime = meta.runtime
  BY <1>0, <1>1, MigrationStep
<1>5. meta'.enrolled \in Fingerprints \cup {None} /\ meta.runtime \in Fingerprints \cup {None}
  BY <1>0, <1>4 DEF MetaType, Fingerprints
<1>6. /\ k \in LocType /\ k.enrolled = meta'.enrolled /\ k.runtime = meta.runtime
      /\ k.ids = loc[p].ids /\ k.writes = loc[p].writes
  BY <1>0, <1>2, <1>5 DEF LocType
<1>7. /\ loc' \in [Procs -> LocType] /\ loc'[p] = k
      /\ \A q \in Procs \ {p} : loc'[q] = loc[q]
  BY <1>0, <1>3, <1>6 DEF TypeOK
<1>8. /\ pc' \in [Procs -> Points] /\ pc'[p] = "probe"
      /\ \A q \in Procs \ {p} : pc'[q] = pc[q]
  BY <1>0, <1>1 DEF TypeOK, Points
<1>9. TypeOK' /\ Elsewhere(p)
  BY <1>0, <1>1, <1>4, <1>7, <1>8 DEF TypeOK, IdentityTypeOK, Elsewhere
<1>10. loc[p].writes = <<>>
  BY <1>1 DEF Shape, OnlyServiceMonitors
<1>11. Shape'
  BY <1>6, <1>7, <1>8, <1>9, <1>10, ShapeFrom DEF Observing, At
<1> QED BY <1>1, <1>4, <1>6, <1>7, <1>8, <1>9, <1>10, <1>11

\* What was read last at a path.
LEMMA SeesFacts ==
    ASSUME TypeOK, NEW p \in Procs, NEW path \in Paths, NEW id \in Readable(path),
           Sees(p, path, id)
    PROVE  /\ id \in owned \cup {None} /\ id \in Modems \cup {None}
           /\ seen' \in [Procs -> [Paths -> Modems \cup {None}]]
           /\ \A q \in Procs \ {p} : seen'[q] = seen[q]
           /\ id # None => seen'[p][path] = id
           /\ \A i \in Paths : i # path => seen'[p][i] = seen[p][i]
<1>1. id \in owned \cup {None} /\ owned \subseteq Modems
  BY DEF TypeOK, Readable
<1>2. CASE id = None
  BY <1>1, <1>2 DEF Sees, TypeOK
<1>3. CASE id # None
  <2>1. seen' = [seen EXCEPT ![p][path] = id] /\ id \in Modems
    BY <1>1, <1>3 DEF Sees
  <2>2. seen[p] \in [Paths -> Modems \cup {None}]
    BY DEF TypeOK
  <2> QED BY <1>1, <2>1, <2>2 DEF TypeOK
<1> QED BY <1>2, <1>3

LEMMA ProbeFacts ==
    ASSUME Shape, NEW p \in Procs, ProbeConfigured(p)
    PROVE  /\ Shape' /\ Elsewhere(p)
           /\ pc[p] = "probe" /\ pc'[p] = "judge"
           /\ loc'[p].id \in owned \cup {None}
           /\ loc'[p].id # None => seen'[p][Configured] = loc'[p].id
           /\ loc'[p].enrolled = loc[p].enrolled /\ loc'[p].runtime = loc[p].runtime
           /\ loc'[p].ids = loc[p].ids /\ loc'[p].writes = <<>>
<1>0. TypeOK /\ loc[p] \in LocType /\ Configured \in Paths
  BY IdentityStoreAssumption DEF Shape, TypeOK
<1>1. /\ pc[p] = "probe" /\ pc' = [pc EXCEPT ![p] = "judge"]
      /\ UNCHANGED <<owned, at, moves, faults, targets, pending, identityVars>>
  BY DEF ProbeConfigured, Goto
<1>2. PICK id \in Readable(Configured) : /\ loc' = [loc EXCEPT ![p].id = id]
                                         /\ Sees(p, Configured, id)
  BY DEF ProbeConfigured
<1>3. /\ id \in owned \cup {None} /\ id \in Modems \cup {None}
      /\ seen' \in [Procs -> [Paths -> Modems \cup {None}]]
      /\ \A q \in Procs \ {p} : seen'[q] = seen[q]
      /\ id # None => seen'[p][Configured] = id
  BY <1>0, <1>2, SeesFacts
<1>4. PICK k : k = [loc[p] EXCEPT !.id = id]
  OBVIOUS
<1>5. loc' = [loc EXCEPT ![p] = k]
  BY <1>0, <1>2, <1>4 DEF TypeOK
<1>6. /\ k \in LocType /\ k.id = id /\ k.enrolled = loc[p].enrolled
      /\ k.runtime = loc[p].runtime /\ k.ids = loc[p].ids /\ k.writes = loc[p].writes
  BY <1>0, <1>3, <1>4 DEF LocType
<1>7. /\ loc' \in [Procs -> LocType] /\ loc'[p] = k
      /\ \A q \in Procs \ {p} : loc'[q] = loc[q]
  BY <1>0, <1>5, <1>6 DEF TypeOK
<1>8. /\ pc' \in [Procs -> Points] /\ pc'[p] = "judge"
      /\ \A q \in Procs \ {p} : pc'[q] = pc[q]
  BY <1>0, <1>1 DEF TypeOK, Points
<1>9. TypeOK' /\ Elsewhere(p)
  BY <1>0, <1>1, <1>3, <1>7, <1>8 DEF TypeOK, IdentityTypeOK, identityVars, Elsewhere
<1>10. loc[p].writes = <<>>
  BY <1>1 DEF Shape, OnlyServiceMonitors
<1>11. Shape'
  BY <1>6, <1>7, <1>8, <1>9, <1>10, ShapeFrom DEF Observing, At
<1> QED BY <1>1, <1>3, <1>6, <1>7, <1>8, <1>9, <1>10, <1>11

\* A decision of p with its targets and writes, or its way to the candidates.
LEMMA JudgeFacts ==
    ASSUME Shape, NEW p \in Procs, JudgeConfigured(p)
    PROVE  LET e == loc[p].enrolled
               id == loc[p].id
           IN
           /\ Shape' /\ Elsewhere(p)
           /\ pc[p] = "judge" /\ loc'[p].ids = loc[p].ids
           /\ loc'[p].id = id
           /\ loc'[p].enrolled = e /\ loc'[p].runtime = loc[p].runtime
           /\ UNCHANGED <<targets, seen, meta, quarantine>>
           /\ \/ /\ id = None /\ pc'[p] = "list" /\ loc'[p].writes = <<>>
                 /\ loc'[p].mismatch
                      = Quarantined(e, quarantine[Configured], pending[p][Configured])
                 /\ pending' = pending
              \/ /\ id # None /\ e \notin {None, id}
                 /\ pc'[p] = "write" /\ loc'[p].next = "list"
                 /\ loc'[p].writes = <<Mark(Configured, e)>> /\ loc'[p].mismatch
                 /\ \A path \in Paths : pending'[p][path] = IF path = Configured THEN e
                                                            ELSE pending[p][path]
              \/ /\ id # None /\ e \in {None, id}
                 /\ pc'[p] = "write" /\ loc'[p].next = "publish"
                 /\ loc'[p].writes = IF e = None THEN <<Clear(Configured), Enroll(id)>>
                                     ELSE <<Clear(Configured)>>
                 /\ loc'[p].choice = Targets(Configured, Configured)
                 /\ pending' = pending
<1> DEFINE l == loc[p]
           other == l.id # None /\ l.enrolled \notin {None, l.id}
           known == Quarantined(l.enrolled, quarantine[Configured], pending[p][Configured])
           C == ConfiguredChoice(l.enrolled, l.id)
<1>0. TypeOK /\ l \in LocType /\ Configured \in Paths
  BY IdentityStoreAssumption DEF Shape, TypeOK
<1>1. /\ pc[p] = "judge"
      /\ UNCHANGED <<owned, at, moves, faults, targets, seen, meta, quarantine>>
      /\ \/ /\ l.id = None /\ UNCHANGED pending
            /\ WriteThen(p, [l EXCEPT !.mismatch = known], <<>>, "list")
         \/ /\ other /\ pending' = [pending EXCEPT ![p][Configured] = l.enrolled]
            /\ WriteThen(p, [l EXCEPT !.mismatch = TRUE],
                         <<Mark(Configured, l.enrolled)>>, "list")
         \/ /\ l.id # None /\ ~other /\ UNCHANGED pending
            /\ WriteThen(p, [l EXCEPT !.choice = C.targets], C.writes, "publish")
  BY DEF JudgeConfigured, identityVars
<1>2. /\ l.enrolled \in Fingerprints \cup {None} /\ l.id \in Modems \cup {None}
  BY <1>0, LocFacts
<1>3. known \in BOOLEAN
  BY DEF Quarantined
<1>4. ASSUME NEW k \in LocType, NEW ws \in Seq(WriteType), NEW next \in {"list", "publish"},
             WriteThen(p, k, ws, next),
             k.id = l.id, k.enrolled = l.enrolled, k.runtime = l.runtime, k.ids = l.ids,
             pending' \in [Procs -> [Paths -> Fingerprints \cup {None}]],
             \A q \in Procs \ {p} : pending'[q] = pending[q]
      PROVE  /\ Shape' /\ Elsewhere(p)
             /\ pc'[p] = IF ws = <<>> THEN next ELSE "write"
             /\ loc'[p].next = next /\ loc'[p].writes = ws
             /\ loc'[p].ids = l.ids /\ loc'[p].id = l.id
             /\ loc'[p].enrolled = l.enrolled /\ loc'[p].runtime = l.runtime
             /\ loc'[p].mismatch = k.mismatch /\ loc'[p].choice = k.choice
  <2>0. next \in WriteNext
    BY <1>4 DEF WriteNext
  <2>1. /\ pc' \in [Procs -> Points] /\ loc' \in [Procs -> LocType]
        /\ \A q \in Procs \ {p} : pc'[q] = pc[q] /\ loc'[q] = loc[q]
        /\ pc'[p] = IF ws = <<>> THEN next ELSE "write"
        /\ loc'[p].writes = ws /\ loc'[p].next = next
        /\ loc'[p].enrolled = k.enrolled /\ loc'[p].runtime = k.runtime
        /\ loc'[p].id = k.id /\ loc'[p].ids = k.ids
        /\ loc'[p].mismatch = k.mismatch /\ loc'[p].choice = k.choice
    BY <1>0, <1>4, <2>0, GoesOn
  <2>2. TypeOK'
    BY <1>0, <1>1, <1>4, <2>1 DEF TypeOK, IdentityTypeOK
  <2>3. Elsewhere(p)
    BY <1>1, <1>4, <2>1 DEF Elsewhere
  <2>4. Shape'
    BY <2>0, <2>1, <2>2, <2>3, ShapeFrom DEF Observing, At
  <2> QED BY <1>4, <2>1, <2>3, <2>4
<1>5. CASE /\ l.id = None /\ UNCHANGED pending
           /\ WriteThen(p, [l EXCEPT !.mismatch = known], <<>>, "list")
  <2>1. PICK k : k = [l EXCEPT !.mismatch = known]
    OBVIOUS
  <2>2. /\ k \in LocType /\ k.id = l.id /\ k.enrolled = l.enrolled /\ k.runtime = l.runtime
        /\ k.ids = l.ids /\ k.mismatch = known
    BY <1>0, <1>3, <2>1 DEF LocType
  <2>3. WriteThen(p, k, <<>>, "list") /\ <<>> \in Seq(WriteType)
    BY <1>5, <2>1
  <2>4. /\ pending' \in [Procs -> [Paths -> Fingerprints \cup {None}]]
        /\ \A q \in Procs \ {p} : pending'[q] = pending[q]
    BY <1>0, <1>5 DEF TypeOK
  <2>5. /\ Shape' /\ Elsewhere(p) /\ pc'[p] = "list"
        /\ loc'[p].writes = <<>> /\ loc'[p].ids = l.ids /\ loc'[p].id = l.id
        /\ loc'[p].enrolled = l.enrolled /\ loc'[p].runtime = l.runtime
        /\ loc'[p].mismatch = known
    BY <1>4, <2>2, <2>3, <2>4
  <2> QED BY <1>1, <1>5, <2>5
<1>6. CASE /\ other /\ pending' = [pending EXCEPT ![p][Configured] = l.enrolled]
           /\ WriteThen(p, [l EXCEPT !.mismatch = TRUE],
                        <<Mark(Configured, l.enrolled)>>, "list")
  <2>1. PICK k : k = [l EXCEPT !.mismatch = TRUE]
    OBVIOUS
  <2>2. /\ k \in LocType /\ k.id = l.id /\ k.enrolled = l.enrolled /\ k.runtime = l.runtime
        /\ k.ids = l.ids /\ k.mismatch = TRUE
    BY <1>0, <2>1 DEF LocType
  <2>3. PICK ws : ws = <<Mark(Configured, l.enrolled)>>
    OBVIOUS
  <2>4. l.enrolled \in Fingerprints
    BY <1>2, <1>6
  <2>5. ws \in Seq(WriteType) /\ ws # <<>> /\ WriteThen(p, k, ws, "list")
    BY <1>0, <1>6, <2>1, <2>3, <2>4, WriteForms
  <2>6. /\ pending' \in [Procs -> [Paths -> Fingerprints \cup {None}]]
        /\ \A q \in Procs \ {p} : pending'[q] = pending[q]
        /\ \A path \in Paths : pending'[p][path] = IF path = Configured THEN l.enrolled
                                                   ELSE pending[p][path]
    <3>1. pending[p] \in [Paths -> Fingerprints \cup {None}]
      BY <1>0 DEF TypeOK
    <3> QED BY <1>0, <1>6, <2>4, <3>1 DEF TypeOK
  <2>7. /\ Shape' /\ Elsewhere(p) /\ pc'[p] = "write" /\ loc'[p].next = "list"
        /\ loc'[p].writes = ws /\ loc'[p].ids = l.ids /\ loc'[p].id = l.id
        /\ loc'[p].enrolled = l.enrolled /\ loc'[p].runtime = l.runtime
        /\ loc'[p].mismatch = TRUE
    BY <1>4, <2>2, <2>5, <2>6
  <2> QED BY <1>1, <1>6, <2>3, <2>6, <2>7
<1>7. CASE /\ l.id # None /\ ~other /\ UNCHANGED pending
           /\ WriteThen(p, [l EXCEPT !.choice = C.targets], C.writes, "publish")
  <2>1. /\ C.targets = Targets(Configured, Configured)
        /\ C.writes = IF l.enrolled = None THEN <<Clear(Configured), Enroll(l.id)>>
                      ELSE <<Clear(Configured)>>
    BY DEF ConfiguredChoice, Choice
  <2>2. PICK k : k = [l EXCEPT !.choice = C.targets]
    OBVIOUS
  <2>3. C.targets \in TargetsType
    BY <1>0, <2>1 DEF Targets, TargetsType
  <2>4. /\ k \in LocType /\ k.id = l.id /\ k.enrolled = l.enrolled /\ k.runtime = l.runtime
        /\ k.ids = l.ids /\ k.choice = C.targets
    BY <1>0, <2>2, <2>3 DEF LocType
  <2>5. PICK ws : ws = C.writes
    OBVIOUS
  <2>6. ws \in Seq(WriteType) /\ ws # <<>>
    <3>1. l.id \in Modems
      BY <1>2, <1>7
    <3>2. Clear(Configured) \in WriteType /\ Enroll(l.id) \in WriteType
      BY <1>0, <3>1, WriteForms
    <3> QED BY <2>1, <2>5, <3>2
  <2>7. WriteThen(p, k, ws, "publish")
    BY <1>7, <2>2, <2>5
  <2>8. /\ pending' \in [Procs -> [Paths -> Fingerprints \cup {None}]]
        /\ \A q \in Procs \ {p} : pending'[q] = pending[q]
    BY <1>0, <1>7 DEF TypeOK
  <2>9. /\ Shape' /\ Elsewhere(p) /\ pc'[p] = "write" /\ loc'[p].next = "publish"
        /\ loc'[p].writes = ws /\ loc'[p].ids = l.ids /\ loc'[p].id = l.id
        /\ loc'[p].enrolled = l.enrolled /\ loc'[p].runtime = l.runtime
        /\ loc'[p].choice = k.choice
    BY <1>4, <2>4, <2>6, <2>7, <2>8
  <2> QED BY <1>1, <1>7, <2>1, <2>4, <2>5, <2>9
<1> QED BY <1>1, <1>5, <1>6, <1>7

LEMMA ListFacts ==
    ASSUME Shape, NEW p \in Procs, ListPaths(p)
    PROVE  /\ Shape' /\ Elsewhere(p)
           /\ pc[p] = "list" /\ pc'[p] = "scan"
           /\ loc'[p].enrolled = loc[p].enrolled /\ loc'[p].runtime = loc[p].runtime
           /\ loc'[p].id = loc[p].id /\ loc'[p].mismatch = loc[p].mismatch
           /\ loc'[p].ids = loc[p].ids /\ loc'[p].writes = <<>>
           /\ UNCHANGED <<targets, pending, seen, identityVars>>
<1>0. TypeOK /\ loc[p] \in LocType
  BY DEF Shape, TypeOK
<1>1. /\ pc[p] = "list" /\ pc' = [pc EXCEPT ![p] = "scan"]
      /\ UNCHANGED <<owned, at, moves, targets, pending, seen, identityVars>>
      /\ faults' \in 0..MaxFaults
  BY <1>0, ModemIdentityAssumption DEF ListPaths, Goto, TypeOK
<1>2. PICK k \in LocType :
        /\ loc' = [loc EXCEPT ![p] = k]
        /\ k.enrolled = loc[p].enrolled /\ k.runtime = loc[p].runtime
        /\ k.id = loc[p].id /\ k.mismatch = loc[p].mismatch
        /\ k.ids = loc[p].ids /\ k.writes = loc[p].writes
  <2>1. CASE loc' = [loc EXCEPT ![p].left = {path \in Paths : at[path] # None}]
    <3>1. PICK k : k = [loc[p] EXCEPT !.left = {path \in Paths : at[path] # None}]
      OBVIOUS
    <3>2. /\ k \in LocType
          /\ k.enrolled = loc[p].enrolled /\ k.runtime = loc[p].runtime
          /\ k.id = loc[p].id /\ k.mismatch = loc[p].mismatch
          /\ k.ids = loc[p].ids /\ k.writes = loc[p].writes
      BY <1>0, <3>1 DEF LocType
    <3>3. loc' = [loc EXCEPT ![p] = k]
      BY <1>0, <2>1, <3>1 DEF TypeOK
    <3> QED BY <3>2, <3>3
  <2>2. CASE loc' = loc
    <3>1. loc' = [loc EXCEPT ![p] = loc[p]]
      BY <1>0, <2>2 DEF TypeOK
    <3> QED BY <1>0, <3>1
  <2> QED BY <2>1, <2>2 DEF ListPaths
<1>7. /\ loc' \in [Procs -> LocType] /\ loc'[p] = k
      /\ \A q \in Procs \ {p} : loc'[q] = loc[q]
  BY <1>0, <1>2 DEF TypeOK
<1>8. /\ pc' \in [Procs -> Points] /\ pc'[p] = "scan"
      /\ \A q \in Procs \ {p} : pc'[q] = pc[q]
  BY <1>0, <1>1 DEF TypeOK, Points
<1>9. TypeOK' /\ Elsewhere(p)
  BY <1>0, <1>1, <1>7, <1>8 DEF TypeOK, IdentityTypeOK, identityVars, Elsewhere
<1>10. loc[p].writes = <<>>
  BY <1>1 DEF Shape, OnlyServiceMonitors
<1>11. Shape'
  BY <1>2, <1>7, <1>8, <1>9, <1>10, ShapeFrom DEF Observing, At
<1> QED BY <1>1, <1>2, <1>7, <1>8, <1>9, <1>10, <1>11

LEMMA CandidateFacts ==
    ASSUME Shape, NEW p \in Procs, ProbeCandidate(p)
    PROVE  /\ Shape' /\ Elsewhere(p)
           /\ pc[p] = "scan" /\ pc'[p] = "scan"
           /\ loc'[p].enrolled = loc[p].enrolled /\ loc'[p].runtime = loc[p].runtime
           /\ loc'[p].id = loc[p].id /\ loc'[p].mismatch = loc[p].mismatch
           /\ loc'[p].writes = <<>>
           /\ UNCHANGED <<targets, pending, identityVars>>
           /\ \E path \in Paths :
                /\ DOMAIN loc'[p].ids = DOMAIN loc[p].ids \cup {path}
                /\ loc'[p].ids[path] \in owned \cup {None}
                /\ loc'[p].ids[path] # None => seen'[p][path] = loc'[p].ids[path]
                /\ \A i \in DOMAIN loc[p].ids :
                     i # path => loc'[p].ids[i] = loc[p].ids[i]
                /\ \A i \in Paths : i # path => seen'[p][i] = seen[p][i]
<1>0. TypeOK /\ loc[p] \in LocType
  BY DEF Shape, TypeOK
<1>1. /\ pc[p] = "scan" /\ UNCHANGED <<owned, at, moves, faults, pc, targets, pending, identityVars>>
  BY DEF ProbeCandidate
<1>a. PICK path \in loc[p].left : \E id \in Readable(path) :
        /\ loc' = [loc EXCEPT ![p].left = @ \ {path},
                              ![p].ids = [i \in DOMAIN @ \cup {path} |->
                                            IF i = path THEN id ELSE @[i]]]
        /\ Sees(p, path, id)
  BY DEF ProbeCandidate
<1>2. PICK id \in Readable(path) :
        /\ loc' = [loc EXCEPT ![p].left = @ \ {path},
                              ![p].ids = [i \in DOMAIN @ \cup {path} |->
                                            IF i = path THEN id ELSE @[i]]]
        /\ Sees(p, path, id)
  BY <1>a
<1>3. path \in Paths /\ loc[p].ids \in Ids
  BY <1>0, LocFacts
<1>4. /\ id \in owned \cup {None} /\ id \in Modems \cup {None}
      /\ seen' \in [Procs -> [Paths -> Modems \cup {None}]]
      /\ \A q \in Procs \ {p} : seen'[q] = seen[q]
      /\ id # None => seen'[p][path] = id
      /\ \A i \in Paths : i # path => seen'[p][i] = seen[p][i]
  BY <1>0, <1>2, <1>3, SeesFacts
<1>5. PICK ids : ids = [i \in DOMAIN loc[p].ids \cup {path} |->
                          IF i = path THEN id ELSE loc[p].ids[i]]
  OBVIOUS
<1>6. /\ ids \in Ids /\ DOMAIN ids = DOMAIN loc[p].ids \cup {path} /\ ids[path] = id
      /\ \A i \in DOMAIN loc[p].ids : i # path => ids[i] = loc[p].ids[i]
  <2>1. DOMAIN loc[p].ids \cup {path} \in SUBSET Paths
    BY <1>3, IdsFacts
  <2>2. ids \in [DOMAIN loc[p].ids \cup {path} -> Modems \cup {None}]
    BY <1>3, <1>4, <1>5, IdsFacts
  <2>3. ids \in Ids
    BY <2>1, <2>2, IdsFacts
  <2> QED BY <1>5, <2>3
<1>7. PICK k : k = [loc[p] EXCEPT !.left = loc[p].left \ {path}, !.ids = ids]
  OBVIOUS
<1>8. loc' = [loc EXCEPT ![p] = k]
  BY <1>0, <1>2, <1>5, <1>7 DEF TypeOK, LocType
<1>9. loc[p].left \ {path} \in SUBSET Paths
  BY <1>0, LocFacts
<1>10. /\ k \in LocType /\ k.ids = ids /\ k.enrolled = loc[p].enrolled
       /\ k.runtime = loc[p].runtime /\ k.id = loc[p].id /\ k.mismatch = loc[p].mismatch
       /\ k.writes = loc[p].writes
  BY <1>0, <1>6, <1>7, <1>9 DEF LocType, Ids
<1>11. /\ loc' \in [Procs -> LocType] /\ loc'[p] = k
       /\ \A q \in Procs \ {p} : loc'[q] = loc[q]
  BY <1>0, <1>8, <1>10 DEF TypeOK
<1>12. TypeOK' /\ Elsewhere(p)
  BY <1>0, <1>1, <1>4, <1>11 DEF TypeOK, IdentityTypeOK, identityVars, Elsewhere
<1>13. loc[p].writes = <<>> /\ pc'[p] = "scan"
  BY <1>1 DEF Shape, OnlyServiceMonitors
<1>14. Shape'
  BY <1>10, <1>11, <1>12, <1>13, ShapeFrom DEF Observing, At
<1> QED BY <1>1, <1>3, <1>4, <1>6, <1>10, <1>11, <1>12, <1>13, <1>14

LEMMA ChooseFacts ==
    ASSUME Shape, NEW p \in Procs, Choose(p)
    PROVE  /\ Shape' /\ Elsewhere(p)
           /\ pc[p] = "scan" /\ pc'[p] \in {"publish", "write"} /\ loc'[p].next = "publish"
           /\ loc'[p].enrolled = loc[p].enrolled /\ loc'[p].runtime = loc[p].runtime
           /\ loc'[p].id = loc[p].id /\ loc'[p].ids = loc[p].ids
           /\ UNCHANGED <<targets, pending, seen, identityVars>>
           /\ \E C : /\ ChoiceFits(loc[p].enrolled, loc[p].runtime, loc[p].mismatch,
                                   loc[p].ids, C)
                     /\ loc'[p].choice = C.targets /\ loc'[p].writes = C.writes
<1>0. TypeOK /\ loc[p] \in LocType
  BY DEF Shape, TypeOK
<1>1. PICK C : C = CandidateChoice(loc[p].enrolled, loc[p].runtime, loc[p].mismatch,
                                   loc[p].ids)
  OBVIOUS
<1>2. ChoiceFits(loc[p].enrolled, loc[p].runtime, loc[p].mismatch, loc[p].ids, C)
  BY <1>0, <1>1, LocFacts, CandidateFits
<1>3. C.targets \in TargetsType /\ C.writes \in Seq(WriteType)
  BY <1>0, <1>2, LocFacts, ChoiceWritesFit
<1>4. PICK ws \in Seq(WriteType) : ws = C.writes
  BY <1>3
<1>5. PICK k : k = [loc[p] EXCEPT !.choice = C.targets]
  OBVIOUS
<1>6. /\ pc[p] = "scan" /\ WriteThen(p, k, ws, "publish")
      /\ UNCHANGED <<owned, at, moves, faults, targets, pending, seen, identityVars>>
  BY <1>1, <1>4, <1>5 DEF Choose
<1>7. /\ k \in LocType /\ k.choice = C.targets /\ k.enrolled = loc[p].enrolled
      /\ k.runtime = loc[p].runtime /\ k.id = loc[p].id /\ k.ids = loc[p].ids
  BY <1>0, <1>3, <1>5 DEF LocType
<1>8. "publish" \in WriteNext
  BY DEF WriteNext
<1>9. /\ pc' \in [Procs -> Points] /\ loc' \in [Procs -> LocType]
      /\ \A q \in Procs \ {p} : pc'[q] = pc[q] /\ loc'[q] = loc[q]
      /\ pc'[p] = IF ws = <<>> THEN "publish" ELSE "write"
      /\ loc'[p].writes = ws /\ loc'[p].next = "publish"
      /\ loc'[p].enrolled = k.enrolled /\ loc'[p].runtime = k.runtime
      /\ loc'[p].id = k.id /\ loc'[p].ids = k.ids
      /\ loc'[p].choice = k.choice
  BY <1>0, <1>6, <1>7, <1>8, GoesOn
<1>10. TypeOK' /\ Elsewhere(p)
  BY <1>0, <1>6, <1>9 DEF TypeOK, IdentityTypeOK, identityVars, Elsewhere
<1>11. Shape'
  BY <1>8, <1>9, <1>10, ShapeFrom DEF Observing, At
<1> QED BY <1>2, <1>4, <1>6, <1>7, <1>9, <1>10, <1>11

LEMMA PublishFacts ==
    ASSUME Shape, NEW p \in Procs, Publish(p)
    PROVE  /\ Shape' /\ Elsewhere(p)
           /\ pc[p] = "publish" /\ loc'[p] = Start
           /\ targets'[p] = loc[p].choice
           /\ pc'[p] \in {"done", "monitor", "idle"}
           /\ pc'[p] = "monitor" => p = Service
           /\ UNCHANGED <<pending, seen, identityVars>>
<1>0. TypeOK /\ loc[p] \in LocType
  BY DEF Shape, TypeOK
<1>1. PICK point : point = CASE p # Service -> "done"
                             [] p = Service /\ loc[p].choice.runtime # None -> "monitor"
                             [] OTHER -> "idle"
  OBVIOUS
<1>2. /\ point \in {"done", "monitor", "idle"}
      /\ point = "monitor" => p = Service /\ loc[p].choice.runtime # None
  BY <1>1
<1>3. /\ pc[p] = "publish" /\ pc' = [pc EXCEPT ![p] = point]
      /\ targets' = [targets EXCEPT ![p] = loc[p].choice]
      /\ loc' = [loc EXCEPT ![p] = Start]
      /\ UNCHANGED <<owned, at, moves, faults, pending, seen, identityVars>>
  BY <1>1 DEF Publish, Goto
<1>4. loc[p].choice \in TargetsType
  BY <1>0, LocFacts
<1>5. /\ loc' \in [Procs -> LocType] /\ loc'[p] = Start
      /\ \A q \in Procs \ {p} : loc'[q] = loc[q]
  BY <1>0, <1>3, StartType DEF TypeOK
<1>6. /\ targets' \in [Procs -> TargetsType] /\ targets'[p] = loc[p].choice
      /\ \A q \in Procs \ {p} : targets'[q] = targets[q]
  BY <1>0, <1>3, <1>4 DEF TypeOK
<1>7. /\ pc' \in [Procs -> Points] /\ pc'[p] = point
      /\ \A q \in Procs \ {p} : pc'[q] = pc[q]
  BY <1>0, <1>2, <1>3 DEF TypeOK, Points
<1>8. TypeOK' /\ Elsewhere(p)
  BY <1>0, <1>3, <1>5, <1>6, <1>7 DEF TypeOK, IdentityTypeOK, identityVars, Elsewhere
<1>9. Shape'
  BY <1>2, <1>5, <1>6, <1>7, <1>8, StartType, ShapeFrom DEF Observing, At
<1> QED BY <1>2, <1>3, <1>5, <1>6, <1>7, <1>8, <1>9

\* One write of the store.
LEMMA WriteStepFacts ==
    ASSUME Shape, NEW p \in Procs, Write(p)
    PROVE  LET w == Head(loc[p].writes)
               rest == Tail(loc[p].writes)
           IN  /\ Shape' /\ Elsewhere(p)
               /\ pc[p] = "write" /\ loc[p].writes # <<>>
               /\ loc[p].writes \in Seq(WriteType)
               /\ w \in WriteType /\ rest \in Seq(WriteType)
               /\ loc[p].next \in WriteNext
               /\ pc'[p] = IF rest = <<>> THEN loc[p].next ELSE "write"
               /\ loc'[p].writes = rest /\ loc'[p].next = loc[p].next
               /\ loc'[p].enrolled = loc[p].enrolled /\ loc'[p].runtime = loc[p].runtime
               /\ loc'[p].id = loc[p].id /\ loc'[p].mismatch = loc[p].mismatch
               /\ loc'[p].ids = loc[p].ids /\ loc'[p].choice = loc[p].choice
               /\ meta' = MetaAfter(meta, w) /\ quarantine' = QuarantineAfter(quarantine, w)
               /\ UNCHANGED <<targets, seen, owned>>
               /\ \A path \in Paths : pending'[p][path] =
                    IF Settles(p, w) /\ path = w.path THEN None ELSE pending[p][path]
<1>0. TypeOK /\ loc[p] \in LocType
  BY DEF Shape, TypeOK
<1>1. PICK w : w = Head(loc[p].writes)
  OBVIOUS
<1>2. PICK rest : rest = Tail(loc[p].writes)
  OBVIOUS
<1>3. /\ pc[p] = "write" /\ meta' = MetaAfter(meta, w)
      /\ quarantine' = QuarantineAfter(quarantine, w)
      /\ pending' = IF Settles(p, w) THEN [pending EXCEPT ![p][w.path] = None] ELSE pending
      /\ WriteThen(p, loc[p], rest, loc[p].next)
      /\ UNCHANGED <<owned, at, moves, faults, targets, seen>>
  BY <1>1, <1>2 DEF Write
<1>4. loc[p].writes # <<>> /\ loc[p].next \in WriteNext /\ loc[p].writes \in Seq(WriteType)
  BY <1>0, <1>3, LocFacts DEF Shape, OnlyServiceMonitors, WriteNext
<1>5. w \in WriteType /\ rest \in Seq(WriteType)
  BY <1>1, <1>2, <1>4
<1>6. /\ pc' \in [Procs -> Points] /\ loc' \in [Procs -> LocType]
      /\ \A q \in Procs \ {p} : pc'[q] = pc[q] /\ loc'[q] = loc[q]
      /\ pc'[p] = IF rest = <<>> THEN loc[p].next ELSE "write"
      /\ loc'[p].writes = rest /\ loc'[p].next = loc[p].next
      /\ loc'[p].enrolled = loc[p].enrolled /\ loc'[p].runtime = loc[p].runtime
      /\ loc'[p].id = loc[p].id /\ loc'[p].mismatch = loc[p].mismatch
      /\ loc'[p].ids = loc[p].ids /\ loc'[p].choice = loc[p].choice
  BY <1>0, <1>3, <1>4, <1>5, GoesOn
<1>7. meta' \in MetaType /\ quarantine' \in QuarantineType
  BY <1>0, <1>3, <1>5, MetaStep, QuarantineStep DEF TypeOK, IdentityTypeOK, QuarantineType
<1>8. /\ pending' \in [Procs -> [Paths -> Fingerprints \cup {None}]]
      /\ \A q \in Procs \ {p} : pending'[q] = pending[q]
      /\ \A path \in Paths : pending'[p][path] =
           IF Settles(p, w) /\ path = w.path THEN None ELSE pending[p][path]
  <2>1. pending[p] \in [Paths -> Fingerprints \cup {None}]
    BY <1>0 DEF TypeOK
  <2>2. CASE Settles(p, w)
    <3>1. pending' = [pending EXCEPT ![p] = [pending[p] EXCEPT ![w.path] = None]]
      BY <1>0, <1>3, <2>2 DEF TypeOK
    <3> QED BY <1>0, <2>1, <2>2, <3>1 DEF TypeOK
  <2>3. CASE ~Settles(p, w)
    BY <1>0, <1>3, <2>3 DEF TypeOK
  <2> QED BY <2>2, <2>3
<1>9. TypeOK' /\ Elsewhere(p)
  BY <1>0, <1>3, <1>6, <1>7, <1>8
     DEF TypeOK, IdentityTypeOK, QuarantineType, Elsewhere
<1>10. Observing(p)' => p = Service /\ targets'[p].runtime # None
  <2>1. Observing(p)' => Observing(p)
    BY <1>3, <1>6 DEF Observing, At
  <2> QED BY <1>3, <2>1 DEF Shape, OnlyServiceMonitors
<1>11. Shape'
  <2>1. pc'[p] # "write" => loc'[p].writes = <<>>
    BY <1>6
  <2>2. loc[p].next # "write"
    BY <1>4 DEF WriteNext
  <2>3. pc'[p] = "write" => loc'[p].writes # <<>> /\ loc'[p].next \in WriteNext
    BY <1>4, <1>6, <2>2
  <2> QED BY <1>9, <1>10, <2>1, <2>3, ShapeFrom
<1> QED BY <1>1, <1>2, <1>3, <1>4, <1>5, <1>6, <1>8, <1>9, <1>11

\* An observation goes on with the monitored path it has.
Looks(p) ==
    /\ targets' \in [Procs -> TargetsType] /\ targets'[p].runtime = targets[p].runtime
    /\ pending' \in [Procs -> [Paths -> Fingerprints \cup {None}]]
    /\ seen' \in [Procs -> [Paths -> Modems \cup {None}]]
    /\ \A q \in Procs \ {p} : /\ targets'[q] = targets[q] /\ pending'[q] = pending[q]
                             /\ seen'[q] = seen[q]
    /\ UNCHANGED <<owned, at, moves, faults, meta, quarantine>>

LEMMA LookFrom ==
    ASSUME Shape, NEW p \in Procs, pc[p] \in {"look", "lookRuntime"}, Looks(p),
           NEW k \in LocType, NEW ws \in Seq(WriteType), NEW next \in {"lookRuntime", "monitor"},
           WriteThen(p, k, ws, next)
    PROVE  /\ Shape' /\ Elsewhere(p) /\ p = Service /\ targets[p].runtime # None
           /\ pc'[p] = IF ws = <<>> THEN next ELSE "write"
           /\ loc'[p].writes = ws /\ loc'[p].next = next
           /\ loc'[p].enrolled = k.enrolled /\ loc'[p].runtime = k.runtime
           /\ loc'[p].id = k.id /\ loc'[p].ids = k.ids
           /\ loc'[p].choice = k.choice /\ loc'[p].action = k.action
<1>0. TypeOK /\ next \in WriteNext /\ next # "write"
  BY DEF Shape, WriteNext
<1>1. p = Service /\ targets[p].runtime # None
  BY DEF Shape, OnlyServiceMonitors, Observing, At
<1>2. /\ pc' \in [Procs -> Points] /\ loc' \in [Procs -> LocType]
      /\ \A q \in Procs \ {p} : pc'[q] = pc[q] /\ loc'[q] = loc[q]
      /\ pc'[p] = IF ws = <<>> THEN next ELSE "write"
      /\ loc'[p].writes = ws /\ loc'[p].next = next
      /\ loc'[p].enrolled = k.enrolled /\ loc'[p].runtime = k.runtime
      /\ loc'[p].id = k.id /\ loc'[p].ids = k.ids
      /\ loc'[p].choice = k.choice /\ loc'[p].action = k.action
  BY <1>0, GoesOn
<1>3. TypeOK' /\ Elsewhere(p)
  BY <1>0, <1>2 DEF TypeOK, IdentityTypeOK, Looks, Elsewhere
<1>4. Shape'
  BY <1>0, <1>1, <1>2, <1>3, ShapeFrom DEF Looks
<1> QED BY <1>1, <1>2, <1>3, <1>4

LEMMA RevokeFacts ==
    ASSUME TypeOK, NEW p \in Procs, NEW path \in Paths, Revoke(p, path)
    PROVE  /\ targets' \in [Procs -> TargetsType]
           /\ targets'[p].runtime = targets[p].runtime /\ targets'[p].action = None
           /\ pending' \in [Procs -> [Paths -> Fingerprints \cup {None}]]
           /\ \A q \in Procs \ {p} : targets'[q] = targets[q] /\ pending'[q] = pending[q]
           /\ \A i \in Paths : pending'[p][i] = IF i = path THEN meta.enrolled
                                                ELSE pending[p][i]
<1>1. targets[p] \in TargetsType /\ pending[p] \in [Paths -> Fingerprints \cup {None}]
  BY DEF TypeOK
<1>2. meta.enrolled \in Fingerprints \cup {None}
  BY DEF TypeOK, IdentityTypeOK, MetaType
<1>3. PICK t : t = [targets[p] EXCEPT !.action = None]
  OBVIOUS
<1>4. t \in TargetsType /\ t.runtime = targets[p].runtime /\ t.action = None
  BY <1>1, <1>3 DEF TargetsType
<1>5. targets' = [targets EXCEPT ![p] = t]
  BY <1>3 DEF Revoke, TypeOK
<1>6. pending' = [pending EXCEPT ![p] = [pending[p] EXCEPT ![path] = meta.enrolled]]
  BY DEF Revoke, TypeOK
<1> QED BY <1>1, <1>2, <1>4, <1>5, <1>6 DEF TypeOK

LEMMA LookAtActionFacts ==
    ASSUME Shape, NEW p \in Procs, LookAtAction(p)
    PROVE  LET act == targets[p].action
               e == meta.enrolled
           IN  /\ Shape' /\ Elsewhere(p) /\ p = Service /\ targets[p].runtime # None
               /\ pc[p] = "look" /\ pc'[p] \in {"lookRuntime", "write"}
               /\ loc'[p].next = "lookRuntime"
               /\ loc'[p].enrolled = loc[p].enrolled /\ loc'[p].runtime = loc[p].runtime
               /\ loc'[p].id = loc[p].id /\ loc'[p].ids = loc[p].ids
               /\ loc'[p].choice = loc[p].choice
               /\ UNCHANGED <<owned, meta, quarantine>>
               /\ targets'[p].runtime = targets[p].runtime
               /\ \/ loc'[p].writes = <<>> /\ UNCHANGED <<targets, pending>>
                  \/ /\ act \in Paths /\ e \in Fingerprints
                     /\ loc'[p].writes = <<Mark(act, e)>>
                     /\ targets'[p].action = None
                     /\ \A i \in Paths : pending'[p][i] = IF i = act THEN e ELSE pending[p][i]
                  \/ \E id \in owned : /\ e = None /\ loc'[p].writes = <<Enroll(id)>>
                                       /\ UNCHANGED <<targets, pending>>
<1> DEFINE act == targets[p].action
           e == meta.enrolled
<1>0. TypeOK /\ loc[p] \in LocType /\ targets[p] \in TargetsType
  BY DEF Shape, TypeOK
<1>1. PICK l : l = [loc[p] EXCEPT !.action = act]
  OBVIOUS
<1>2. act \in Paths \cup {None} /\ e \in Fingerprints \cup {None} /\ owned \subseteq Modems
  BY <1>0 DEF TargetsType, TypeOK, IdentityTypeOK, MetaType
<1>3. /\ l \in LocType /\ l.enrolled = loc[p].enrolled /\ l.runtime = loc[p].runtime
      /\ l.id = loc[p].id /\ l.ids = loc[p].ids /\ l.choice = loc[p].choice
  BY <1>0, <1>1, <1>2 DEF LocType
<1>4. /\ pc[p] = "look" /\ pc[p] \in {"look", "lookRuntime"}
      /\ UNCHANGED <<owned, at, moves, faults, meta, quarantine>>
  BY DEF LookAtAction, identityVars
<1>a. "lookRuntime" \in {"lookRuntime", "monitor"}
  OBVIOUS
<1>5. /\ targets \in [Procs -> TargetsType]
      /\ pending \in [Procs -> [Paths -> Fingerprints \cup {None}]]
      /\ seen \in [Procs -> [Paths -> Modems \cup {None}]]
  BY <1>0 DEF TypeOK
<1>6. <<>> \in Seq(WriteType)
  OBVIOUS
<1>7. CASE WriteThen(p, l, <<>>, "lookRuntime") /\ UNCHANGED <<targets, pending, seen>>
  <2>1. Looks(p)
    BY <1>4, <1>5, <1>7 DEF Looks
  <2>2. /\ Shape' /\ Elsewhere(p) /\ p = Service /\ targets[p].runtime # None
        /\ pc'[p] = "lookRuntime"
        /\ loc'[p].writes = <<>> /\ loc'[p].next = "lookRuntime"
        /\ loc'[p].enrolled = l.enrolled /\ loc'[p].runtime = l.runtime
        /\ loc'[p].id = l.id /\ loc'[p].ids = l.ids
        /\ loc'[p].choice = l.choice
    BY <1>3, <1>4, <1>6, <1>7, <1>a, <2>1, LookFrom
  <2> QED BY <1>3, <1>4, <1>7, <2>2
<1>8. CASE act # None /\ \E id \in Readable(act) :
               /\ Sees(p, act, id)
               /\ \/ /\ id # None /\ e \notin {None, id}
                     /\ Revoke(p, act)
                     /\ WriteThen(p, l, <<Mark(act, e)>>, "lookRuntime")
                  \/ /\ id = None \/ e \in {None, id}
                     /\ WriteThen(p, l, IF id # None /\ e = None THEN <<Enroll(id)>> ELSE <<>>,
                                  "lookRuntime")
                     /\ UNCHANGED <<targets, pending>>
  <2>1. PICK id \in Readable(act) :
               /\ Sees(p, act, id)
               /\ \/ /\ id # None /\ e \notin {None, id}
                     /\ Revoke(p, act)
                     /\ WriteThen(p, l, <<Mark(act, e)>>, "lookRuntime")
                  \/ /\ id = None \/ e \in {None, id}
                     /\ WriteThen(p, l, IF id # None /\ e = None THEN <<Enroll(id)>> ELSE <<>>,
                                  "lookRuntime")
                     /\ UNCHANGED <<targets, pending>>
    BY <1>8
  <2>2. act \in Paths
    BY <1>2, <1>8
  <2>3. /\ id \in owned \cup {None}
        /\ seen' \in [Procs -> [Paths -> Modems \cup {None}]]
        /\ \A q \in Procs \ {p} : seen'[q] = seen[q]
    BY <1>0, <2>1, <2>2, SeesFacts
  <2>4. CASE /\ e # None /\ Revoke(p, act)
             /\ WriteThen(p, l, <<Mark(act, e)>>, "lookRuntime")
    <3>1. e \in Fingerprints /\ <<Mark(act, e)>> \in Seq(WriteType)
      BY <1>2, <2>2, <2>4, WriteForms
    <3>2. /\ targets' \in [Procs -> TargetsType]
          /\ targets'[p].runtime = targets[p].runtime /\ targets'[p].action = None
          /\ pending' \in [Procs -> [Paths -> Fingerprints \cup {None}]]
          /\ \A q \in Procs \ {p} : targets'[q] = targets[q] /\ pending'[q] = pending[q]
          /\ \A i \in Paths : pending'[p][i] = IF i = act THEN e ELSE pending[p][i]
      BY <1>0, <2>2, <2>4, RevokeFacts
    <3>3. PICK ws \in Seq(WriteType) : ws = <<Mark(act, e)>>
      BY <3>1
    <3>5. WriteThen(p, l, ws, "lookRuntime")
      BY <2>4, <3>3
    <3>6. Looks(p)
      BY <1>4, <2>3, <3>2 DEF Looks
    <3>4. /\ Shape' /\ Elsewhere(p) /\ p = Service /\ targets[p].runtime # None
          /\ pc'[p] = IF ws = <<>> THEN "lookRuntime" ELSE "write"
          /\ loc'[p].writes = ws /\ loc'[p].next = "lookRuntime"
          /\ loc'[p].enrolled = l.enrolled /\ loc'[p].runtime = l.runtime
          /\ loc'[p].id = l.id /\ loc'[p].ids = l.ids
          /\ loc'[p].choice = l.choice
      BY <1>3, <1>4, <1>a, <3>5, <3>6, LookFrom
    <3> QED BY <1>3, <1>4, <2>2, <3>1, <3>2, <3>3, <3>4
  <2>5. CASE /\ id # None /\ e = None /\ UNCHANGED <<targets, pending>>
             /\ WriteThen(p, l, <<Enroll(id)>>, "lookRuntime")
    <3>1. id \in Modems /\ id \in owned /\ <<Enroll(id)>> \in Seq(WriteType)
      BY <1>2, <2>3, <2>5, WriteForms
    <3>3. PICK ws \in Seq(WriteType) : ws = <<Enroll(id)>>
      BY <3>1
    <3>5. WriteThen(p, l, ws, "lookRuntime")
      BY <2>5, <3>3
    <3>6. Looks(p)
      BY <1>4, <1>5, <2>3, <2>5 DEF Looks
    <3>4. /\ Shape' /\ Elsewhere(p) /\ p = Service /\ targets[p].runtime # None
          /\ pc'[p] = IF ws = <<>> THEN "lookRuntime" ELSE "write"
          /\ loc'[p].writes = ws /\ loc'[p].next = "lookRuntime"
          /\ loc'[p].enrolled = l.enrolled /\ loc'[p].runtime = l.runtime
          /\ loc'[p].id = l.id /\ loc'[p].ids = l.ids
          /\ loc'[p].choice = l.choice
      BY <1>3, <1>4, <1>a, <3>5, <3>6, LookFrom
    <3> QED BY <1>3, <1>4, <2>5, <3>1, <3>3, <3>4
  <2>6. CASE /\ UNCHANGED <<targets, pending>> /\ WriteThen(p, l, <<>>, "lookRuntime")
    <3>6. Looks(p)
      BY <1>4, <1>5, <2>3, <2>6 DEF Looks
    <3>4. /\ Shape' /\ Elsewhere(p) /\ p = Service /\ targets[p].runtime # None
          /\ pc'[p] = "lookRuntime"
          /\ loc'[p].writes = <<>> /\ loc'[p].next = "lookRuntime"
          /\ loc'[p].enrolled = l.enrolled /\ loc'[p].runtime = l.runtime
          /\ loc'[p].id = l.id /\ loc'[p].ids = l.ids
          /\ loc'[p].choice = l.choice
      BY <1>3, <1>4, <1>6, <1>a, <2>6, <3>6, LookFrom
    <3> QED BY <1>3, <1>4, <2>6, <3>4
  <2> QED BY <2>1, <2>4, <2>5, <2>6
<1>9. \/ WriteThen(p, l, <<>>, "lookRuntime") /\ UNCHANGED <<targets, pending, seen>>
      \/ /\ act # None
         /\ \E id \in Readable(act) :
               /\ Sees(p, act, id)
               /\ \/ /\ id # None /\ e \notin {None, id}
                     /\ Revoke(p, act)
                     /\ WriteThen(p, l, <<Mark(act, e)>>, "lookRuntime")
                  \/ /\ id = None \/ e \in {None, id}
                     /\ WriteThen(p, l, IF id # None /\ e = None THEN <<Enroll(id)>> ELSE <<>>,
                                  "lookRuntime")
                     /\ UNCHANGED <<targets, pending>>
  BY <1>1 DEF LookAtAction
<1> QED BY <1>7, <1>8, <1>9

LEMMA LookAtRuntimeFacts ==
    ASSUME Shape, NEW p \in Procs, LookAtRuntime(p)
    PROVE  LET run == targets[p].runtime
               e == meta.enrolled
           IN  /\ Shape' /\ Elsewhere(p) /\ p = Service /\ run \in Paths
               /\ pc[p] = "lookRuntime" /\ pc'[p] \in {"monitor", "write"}
               /\ loc'[p].next = "monitor"
               /\ loc'[p].enrolled = loc[p].enrolled /\ loc'[p].runtime = loc[p].runtime
               /\ loc'[p].id = loc[p].id /\ loc'[p].ids = loc[p].ids
               /\ loc'[p].choice = loc[p].choice
               /\ UNCHANGED <<owned, meta, quarantine>>
               /\ targets'[p].runtime = run
               /\ \/ loc'[p].writes = <<>> /\ UNCHANGED <<targets, pending>>
                  \/ \E id \in owned :
                       /\ e \in Fingerprints
                       /\ loc'[p].writes = <<Mark(run, e), Ensure(id), ObserveRuntime(id)>>
                       /\ targets'[p].action = None
                       /\ \A i \in Paths : pending'[p][i] = IF i = run THEN e ELSE pending[p][i]
                  \/ \E id \in owned : /\ e = None /\ loc'[p].writes = <<Enroll(id)>>
                                       /\ UNCHANGED <<targets, pending>>
                  \/ \E id \in owned : /\ loc'[p].writes = <<Ensure(id), ObserveRuntime(id)>>
                                       /\ UNCHANGED <<targets, pending>>
<1> DEFINE run == targets[p].runtime
           e == meta.enrolled
           l == loc[p]
           adopt(id) == <<Ensure(id), ObserveRuntime(id)>>
<1>0. TypeOK /\ l \in LocType /\ targets[p] \in TargetsType
  BY DEF Shape, TypeOK
<1>1. /\ pc[p] = "lookRuntime" /\ pc[p] \in {"look", "lookRuntime"}
      /\ UNCHANGED <<owned, at, moves, faults, meta, quarantine>>
  BY DEF LookAtRuntime, identityVars
<1>2. run \in Paths /\ e \in Fingerprints \cup {None} /\ owned \subseteq Modems
  <2>1. run # None
    BY <1>1 DEF Shape, OnlyServiceMonitors, Observing, At
  <2> QED BY <1>0, <2>1 DEF TargetsType, TypeOK, IdentityTypeOK, MetaType
<1>3. PICK id \in Readable(run) :
         /\ Sees(p, run, id)
         /\ \/ /\ id # None /\ l.action = run /\ e \notin {None, id}
               /\ Revoke(p, run)
               /\ WriteThen(p, l, <<Mark(run, e)>> \o adopt(id), "monitor")
            \/ /\ id = None \/ l.action # run \/ e \in {None, id}
               /\ WriteThen(p, l,
                    CASE id # None /\ l.action = run /\ e = None -> <<Enroll(id)>>
                      [] id # None /\ l.action # run /\ meta.runtime # id -> adopt(id)
                      [] OTHER -> <<>>, "monitor")
               /\ UNCHANGED <<targets, pending>>
  BY DEF LookAtRuntime
<1>4. /\ id \in owned \cup {None}
      /\ seen' \in [Procs -> [Paths -> Modems \cup {None}]]
      /\ \A q \in Procs \ {p} : seen'[q] = seen[q]
  BY <1>0, <1>2, <1>3, SeesFacts
<1>5. /\ targets \in [Procs -> TargetsType]
      /\ pending \in [Procs -> [Paths -> Fingerprints \cup {None}]]
  BY <1>0 DEF TypeOK
<1>6. ASSUME NEW ws \in Seq(WriteType), WriteThen(p, l, ws, "monitor"),
             targets' \in [Procs -> TargetsType], targets'[p].runtime = run,
             pending' \in [Procs -> [Paths -> Fingerprints \cup {None}]],
             \A q \in Procs \ {p} : targets'[q] = targets[q] /\ pending'[q] = pending[q]
      PROVE  /\ Shape' /\ Elsewhere(p) /\ p = Service
             /\ pc'[p] = IF ws = <<>> THEN "monitor" ELSE "write"
             /\ loc'[p].writes = ws /\ loc'[p].next = "monitor"
             /\ loc'[p].enrolled = l.enrolled /\ loc'[p].runtime = l.runtime
             /\ loc'[p].id = l.id /\ loc'[p].ids = l.ids
             /\ loc'[p].choice = l.choice
  <2>1. Looks(p) /\ "monitor" \in {"lookRuntime", "monitor"}
    BY <1>1, <1>4, <1>6 DEF Looks
  <2>2. WriteThen(p, l, ws, "monitor")
    BY <1>6
  <2> HIDE DEF l
  <2> QED BY <1>0, <1>1, <2>1, <2>2, LookFrom
<1>7. CASE /\ id # None /\ e # None /\ Revoke(p, run)
           /\ WriteThen(p, l, <<Mark(run, e)>> \o adopt(id), "monitor")
  <2>1. id \in owned /\ id \in Modems /\ e \in Fingerprints
    BY <1>2, <1>4, <1>7
  <2>2. PICK a \in WriteType, b \in WriteType, c \in WriteType :
          a = Mark(run, e) /\ b = Ensure(id) /\ c = ObserveRuntime(id)
    BY <1>2, <2>1, WriteForms
  <2>3. <<a>> \o <<b, c>> = <<a, b, c>> /\ <<a, b, c>> \in Seq(WriteType)
    <3>1. <<a>> \in Seq(WriteType) /\ <<b, c>> \in Seq(WriteType) /\ <<a, b, c>> \in Seq(WriteType)
      OBVIOUS
    <3>2. /\ Len(<<a>>) = 1 /\ Len(<<b, c>>) = 2 /\ <<a>>[1] = a
          /\ <<b, c>>[1] = b /\ <<b, c>>[2] = c
      OBVIOUS
    <3>3. PICK s : s = <<a>> \o <<b, c>>
      OBVIOUS
    <3>4. /\ s \in Seq(WriteType) /\ Len(s) = 3
          /\ \A i \in 1..3 : s[i] = IF i <= 1 THEN <<a>>[i] ELSE <<b, c>>[i - 1]
      BY <3>1, <3>2, <3>3, ConcatProperties
    <3>5. s[1] = a /\ s[2] = b /\ s[3] = c
      BY <3>2, <3>4
    <3>6. s = <<a, b, c>>
      BY <3>1, <3>4, <3>5
    <3> QED BY <3>1, <3>3, <3>6
  <2>4. WriteThen(p, l, <<a, b, c>>, "monitor")
    BY <1>7, <2>2, <2>3
  <2>5. /\ targets' \in [Procs -> TargetsType]
        /\ targets'[p].runtime = run /\ targets'[p].action = None
        /\ pending' \in [Procs -> [Paths -> Fingerprints \cup {None}]]
        /\ \A q \in Procs \ {p} : targets'[q] = targets[q] /\ pending'[q] = pending[q]
        /\ \A i \in Paths : pending'[p][i] = IF i = run THEN e ELSE pending[p][i]
    BY <1>0, <1>2, <1>7, RevokeFacts
  <2>6. /\ Shape' /\ Elsewhere(p) /\ p = Service
        /\ pc'[p] \in {"monitor", "write"}
        /\ loc'[p].writes = <<a, b, c>> /\ loc'[p].next = "monitor"
        /\ loc'[p].enrolled = l.enrolled /\ loc'[p].runtime = l.runtime
        /\ loc'[p].id = l.id /\ loc'[p].ids = l.ids
        /\ loc'[p].choice = l.choice
    BY <1>6, <2>3, <2>4, <2>5
  <2> QED BY <1>1, <1>2, <2>1, <2>2, <2>5, <2>6
<1>8. CASE /\ id # None /\ e = None /\ UNCHANGED <<targets, pending>>
           /\ WriteThen(p, l, <<Enroll(id)>>, "monitor")
  <2>1. id \in owned /\ <<Enroll(id)>> \in Seq(WriteType)
    BY <1>2, <1>4, <1>8, WriteForms
  <2>2. PICK ws : ws = <<Enroll(id)>>
    OBVIOUS
  <2>3. /\ Shape' /\ Elsewhere(p) /\ p = Service
        /\ pc'[p] \in {"monitor", "write"}
        /\ loc'[p].writes = ws /\ loc'[p].next = "monitor"
        /\ loc'[p].enrolled = l.enrolled /\ loc'[p].runtime = l.runtime
        /\ loc'[p].id = l.id /\ loc'[p].ids = l.ids
        /\ loc'[p].choice = l.choice
    BY <1>5, <1>6, <1>8, <2>1, <2>2
  <2> QED BY <1>1, <1>2, <1>8, <2>1, <2>2, <2>3
<1>9. CASE /\ id # None /\ UNCHANGED <<targets, pending>>
           /\ WriteThen(p, l, adopt(id), "monitor")
  <2>1. id \in owned /\ adopt(id) \in Seq(WriteType)
    BY <1>2, <1>4, <1>9, WriteForms
  <2>2. PICK ws : ws = adopt(id)
    OBVIOUS
  <2>3. /\ Shape' /\ Elsewhere(p) /\ p = Service
        /\ pc'[p] \in {"monitor", "write"}
        /\ loc'[p].writes = ws /\ loc'[p].next = "monitor"
        /\ loc'[p].enrolled = l.enrolled /\ loc'[p].runtime = l.runtime
        /\ loc'[p].id = l.id /\ loc'[p].ids = l.ids
        /\ loc'[p].choice = l.choice
    BY <1>5, <1>6, <1>9, <2>1, <2>2
  <2> QED BY <1>1, <1>2, <1>9, <2>1, <2>2, <2>3
<1>10. CASE UNCHANGED <<targets, pending>> /\ WriteThen(p, l, <<>>, "monitor")
  <2>1. <<>> \in Seq(WriteType)
    OBVIOUS
  <2>3. /\ Shape' /\ Elsewhere(p) /\ p = Service
        /\ pc'[p] \in {"monitor", "write"}
        /\ loc'[p].writes = <<>> /\ loc'[p].next = "monitor"
        /\ loc'[p].enrolled = l.enrolled /\ loc'[p].runtime = l.runtime
        /\ loc'[p].id = l.id /\ loc'[p].ids = l.ids
        /\ loc'[p].choice = l.choice
    BY <1>5, <1>6, <1>10, <2>1
  <2> QED BY <1>1, <1>2, <1>10, <2>3
<1> QED BY <1>3, <1>7, <1>8, <1>9, <1>10

LEMMA WriteFailsFacts ==
    ASSUME Shape, NEW p \in Procs, WriteFails(p)
    PROVE  /\ Shape' /\ Elsewhere(p) /\ loc'[p] = Start
           /\ pc[p] = "write" /\ pc'[p] \in {"monitor", "idle", "done"}
           /\ pc'[p] = "monitor" => Observing(p)
           /\ p = Service => pc'[p] # "done"
           /\ targets'[p] \in {targets[p], NoTargets}
           /\ UNCHANGED <<owned, pending, seen, identityVars>>
<1>0. TypeOK /\ targets[p] \in TargetsType
  BY DEF Shape, TypeOK
<1>1. PICK point : point = CASE ~Resolving(p) -> "monitor"
                             [] Resolving(p) /\ p = Service -> "idle"
                             [] OTHER -> "done"
  OBVIOUS
<1>2. PICK t : t = IF Resolving(p) THEN NoTargets ELSE targets[p]
  OBVIOUS
<1>3. /\ pc[p] = "write" /\ faults < MaxFaults /\ faults' = faults + 1
      /\ pc' = [pc EXCEPT ![p] = point]
      /\ loc' = [loc EXCEPT ![p] = Start]
      /\ UNCHANGED <<owned, at, moves, pending, seen, identityVars>>
  BY <1>1 DEF WriteFails, Goto
<1>4. targets' = [targets EXCEPT ![p] = t]
  BY <1>0, <1>2 DEF WriteFails, TypeOK
<1>5. /\ point \in {"monitor", "idle", "done"} /\ (point = "monitor" => ~Resolving(p))
      /\ p = Service => point # "done"
  BY <1>1
<1>6. ~Resolving(p) => Observing(p)
  <2>1. loc[p].next \in WriteNext
    BY <1>3 DEF Shape, OnlyServiceMonitors, WriteNext
  <2> QED BY <1>3, <2>1 DEF Resolving, WriteNext, Observing, At
<1>7. t \in TargetsType /\ t \in {targets[p], NoTargets}
  BY <1>0, <1>2 DEF NoTargets, Targets, TargetsType
<1>8. /\ loc' \in [Procs -> LocType] /\ loc'[p] = Start
      /\ \A q \in Procs \ {p} : loc'[q] = loc[q]
  BY <1>0, <1>3, StartType DEF TypeOK
<1>9. /\ targets' \in [Procs -> TargetsType] /\ targets'[p] = t
      /\ \A q \in Procs \ {p} : targets'[q] = targets[q]
  BY <1>0, <1>4, <1>7 DEF TypeOK
<1>10. /\ pc' \in [Procs -> Points] /\ pc'[p] = point
       /\ \A q \in Procs \ {p} : pc'[q] = pc[q]
  BY <1>0, <1>3, <1>5 DEF TypeOK, Points
<1>11. faults' \in 0..MaxFaults
  BY <1>0, <1>3, ModemIdentityAssumption DEF TypeOK
<1>12. TypeOK' /\ Elsewhere(p)
  BY <1>0, <1>3, <1>8, <1>9, <1>10, <1>11
     DEF TypeOK, IdentityTypeOK, identityVars, Elsewhere
<1>13. Observing(p)' => p = Service /\ targets'[p].runtime # None
  <2>1. ASSUME Observing(p)' PROVE p = Service /\ targets'[p].runtime # None
    <3>1. pc'[p] = "monitor"
      BY <1>5, <1>10, <2>1 DEF Observing, At
    <3>2. Observing(p) /\ t = targets[p]
      BY <1>2, <1>5, <1>6, <1>10, <3>1
    <3> QED BY <1>9, <3>2 DEF Shape, OnlyServiceMonitors
  <2> QED BY <2>1
<1>14. Shape'
  BY <1>5, <1>8, <1>10, <1>12, <1>13, StartType, ShapeFrom
<1> QED BY <1>3, <1>5, <1>6, <1>7, <1>8, <1>9, <1>10, <1>12, <1>14

LEMMA CrashFacts ==
    ASSUME Shape, NEW p \in Procs, Crash(p)
    PROVE  /\ Shape' /\ Elsewhere(p) /\ loc'[p] = Start /\ pc'[p] = "idle"
           /\ targets'[p] = NoTargets
           /\ \A path \in Paths : pending'[p][path] = None
           /\ UNCHANGED <<owned, identityVars>>
<1>0. TypeOK
  BY DEF Shape
<1>1. /\ faults < MaxFaults /\ faults' = faults + 1
      /\ pc' = [pc EXCEPT ![p] = "idle"]
      /\ loc' = [loc EXCEPT ![p] = Start]
      /\ targets' = [targets EXCEPT ![p] = NoTargets]
      /\ pending' = [pending EXCEPT ![p] = Nowhere]
      /\ seen' = [seen EXCEPT ![p] = Nowhere]
      /\ UNCHANGED <<owned, at, moves, identityVars>>
  BY DEF Crash, Goto
<1>2. /\ NoTargets \in TargetsType /\ "idle" \in Points
      /\ Nowhere \in [Paths -> Fingerprints \cup {None}]
      /\ Nowhere \in [Paths -> Modems \cup {None}] /\ \A path \in Paths : Nowhere[path] = None
  BY DEF NoTargets, Targets, TargetsType, Points, Nowhere
<1>3. /\ loc' \in [Procs -> LocType] /\ loc'[p] = Start
      /\ \A q \in Procs \ {p} : loc'[q] = loc[q]
  BY <1>0, <1>1, StartType DEF TypeOK
<1>4. /\ targets' \in [Procs -> TargetsType] /\ targets'[p] = NoTargets
      /\ \A q \in Procs \ {p} : targets'[q] = targets[q]
  BY <1>0, <1>1, <1>2 DEF TypeOK
<1>5. /\ pc' \in [Procs -> Points] /\ pc'[p] = "idle"
      /\ \A q \in Procs \ {p} : pc'[q] = pc[q]
  BY <1>0, <1>1, <1>2 DEF TypeOK
<1>6. /\ pending' \in [Procs -> [Paths -> Fingerprints \cup {None}]] /\ pending'[p] = Nowhere
      /\ seen' \in [Procs -> [Paths -> Modems \cup {None}]]
      /\ \A q \in Procs \ {p} : pending'[q] = pending[q] /\ seen'[q] = seen[q]
  BY <1>0, <1>1, <1>2 DEF TypeOK
<1>7. faults' \in 0..MaxFaults
  BY <1>0, <1>1, ModemIdentityAssumption DEF TypeOK
<1>8. TypeOK' /\ Elsewhere(p)
  BY <1>0, <1>1, <1>3, <1>4, <1>5, <1>6, <1>7
     DEF TypeOK, IdentityTypeOK, identityVars, Elsewhere
<1>9. Shape'
  BY <1>3, <1>5, <1>8, StartType, ShapeFrom DEF Observing, At
<1> QED BY <1>1, <1>2, <1>3, <1>4, <1>5, <1>6, <1>8, <1>9

LEMMA MoveFacts ==
    ASSUME Shape, NEW m \in Modems, Move(m)
    PROVE  Shape' /\ UNCHANGED <<owned, procVars, identityVars>>
<1>0. TypeOK
  BY DEF Shape
<1> DEFINE off == [path \in Paths |-> IF at[path] = m THEN None ELSE at[path]]
<1>1. /\ m \in owned /\ moves < MaxMoves /\ moves' = moves + 1
      /\ UNCHANGED <<owned, faults, procVars, identityVars>>
      /\ at' = off \/ \E path \in Paths : at' = [off EXCEPT ![path] = m]
  BY DEF Move
<1>2. off \in [Paths -> owned \cup {None}]
  BY <1>0 DEF TypeOK
<1>3. at' \in [Paths -> owned \cup {None}]
  <2> HIDE DEF off
  <2> QED BY <1>1, <1>2
<1>4. moves' \in 0..MaxMoves
  BY <1>0, <1>1, ModemIdentityAssumption DEF TypeOK
<1>5. TypeOK'
  BY <1>0, <1>1, <1>3, <1>4 DEF TypeOK, IdentityTypeOK, identityVars, procVars
<1>6. OnlyServiceMonitors'
  BY <1>1 DEF Shape, OnlyServiceMonitors, Observing, At, procVars
<1> QED BY <1>1, <1>5, <1>6 DEF Shape

\* A retry, as the three places where one begins make it.
LEMMA RetrySteps ==
    ASSUME Shape, NEW p \in Procs
    PROVE  /\ BeginResolve(p) => pc[p] = "idle" /\ Retries(p, "meta")
           /\ LoseMonitor(p) => pc[p] = "monitor" /\ Retries(p, "meta")
           /\ BeginObserve(p) => pc[p] = "monitor" /\ Observing(p) /\ Retries(p, "look")
<1>0. faults \in 0..MaxFaults /\ MaxFaults \in Nat
  BY ModemIdentityAssumption DEF Shape, TypeOK
<1>1. BeginResolve(p) => pc[p] = "idle" /\ Retries(p, "meta")
  BY <1>0 DEF BeginResolve, Retries
<1>2. ASSUME LoseMonitor(p) PROVE pc[p] = "monitor" /\ Retries(p, "meta")
  <2>1. faults' \in 0..MaxFaults
    <3>1. faults' = faults \/ (faults < MaxFaults /\ faults' = faults + 1)
      BY <1>2 DEF LoseMonitor
    <3> QED BY <1>0, <3>1
  <2> QED BY <1>2, <2>1 DEF LoseMonitor, Retries
<1>3. BeginObserve(p) => pc[p] = "monitor" /\ Observing(p) /\ Retries(p, "look")
  BY <1>0 DEF BeginObserve, Retries, Observing, At
<1> QED BY <1>1, <1>2, <1>3

-----------------------------------------------------------------------------
(***************************************************************************)
(* Type correctness, commands or not.                                      *)
(***************************************************************************)
LEMMA ShapeStep == Shape /\ [Next]_vars => Shape'
<1> SUFFICES ASSUME Shape, [Next]_vars PROVE Shape'
  OBVIOUS
<1>1. CASE UNCHANGED vars
  BY <1>1 DEF Shape, TypeOK, IdentityTypeOK, OnlyServiceMonitors, Observing, At,
              vars, procVars, identityVars
<1>2. ASSUME NEW m \in Modems, Move(m) PROVE Shape'
  BY <1>2, MoveFacts
<1>3. ASSUME NEW p \in Procs,
             Resolve(p) \/ Observe(p) \/ LoseMonitor(p) \/ WriteFails(p) \/ Crash(p)
      PROVE  Shape'
  <2>1. CASE BeginResolve(p) \/ LoseMonitor(p)
    BY <2>1, RetrySteps, RetriesFacts
  <2>2. CASE BeginObserve(p)
    BY <2>2, RetrySteps, RetriesFacts
  <2>3. CASE ReadMeta(p)
    BY <2>3, ReadMetaFacts
  <2>4. CASE ProbeConfigured(p)
    BY <2>4, ProbeFacts
  <2>5. CASE JudgeConfigured(p)
    BY <2>5, JudgeFacts
  <2>6. CASE ListPaths(p)
    BY <2>6, ListFacts
  <2>7. CASE ProbeCandidate(p)
    BY <2>7, CandidateFacts
  <2>8. CASE Choose(p)
    BY <2>8, ChooseFacts
  <2>9. CASE Publish(p)
    BY <2>9, PublishFacts
  <2>10. CASE Write(p)
    BY <2>10, WriteStepFacts
  <2>11. CASE LookAtAction(p)
    BY <2>11, LookAtActionFacts
  <2>12. CASE LookAtRuntime(p)
    BY <2>12, LookAtRuntimeFacts
  <2>13. CASE WriteFails(p)
    BY <2>13, WriteFailsFacts
  <2>14. CASE Crash(p)
    BY <2>14, CrashFacts
  <2> QED BY <1>3, <2>1, <2>2, <2>3, <2>4, <2>5, <2>6, <2>7, <2>8, <2>9, <2>10, <2>11,
             <2>12, <2>13, <2>14 DEF Resolve, Observe
<1> QED BY <1>1, <1>2, <1>3 DEF Next

\* Whatever is plugged in and out, read or not read, written or not written,
\* by the service and any number of commands on the same database, the state
\* keeps its type (the worker and `send' of src/src/runtime.rs).
THEOREM IdentityTypes == Spec => []TypeOK
<1>1. Shape => TypeOK
  BY DEF Shape
<1> QED BY <1>1, InitShape, ShapeStep, PTL DEF Spec

-----------------------------------------------------------------------------
(***************************************************************************)
(* The namespace of the messages, commands or not.                         *)
(***************************************************************************)
Named(m) == m.namespace # None \/ m.enrolled # None \/ m.runtime # None

LEMMA NamedFacts ==
    /\ DedupeNamespace # None <=> Named(meta)
    /\ DedupeNamespace' # None <=> Named(meta')
BY DEF DedupeNamespace, Named

LEMMA NamedSteps ==
    ASSUME NEW m \in MetaType
    PROVE  /\ Named(m) => Named(Migrated(m))
           /\ \A w \in WriteType : \/ Named(m) \/ w.op \in {"enroll", "ensure"} =>
                                     Named(MetaAfter(m, w))
<1>1. Named(m) => Named(Migrated(m))
  BY MigrationStep, IdentityStoreAssumption DEF Named
<1>2. ASSUME NEW w \in WriteType, Named(m) \/ w.op \in {"enroll", "ensure"}
      PROVE  Named(MetaAfter(m, w))
  <2>1. /\ w.op = "enroll" => w.id # None
        /\ w.op = "ensure" => w.id # None
        /\ w.op = "observe" => w.id # None
    BY WriteFacts, IdentityStoreAssumption
  <2>2. w.op \in {"mark", "clear", "enroll", "ensure", "observe"}
    BY WriteFacts
  <2>3. CASE w.op \in {"mark", "clear"}
    BY <1>2, <2>3, MetaStep
  <2>4. CASE w.op = "enroll"
    BY <2>1, <2>4, MetaStep DEF Named
  <2>5. CASE w.op = "observe"
    BY <2>1, <2>5, MetaStep DEF Named
  <2>6. CASE w.op = "ensure"
    BY <2>1, <2>6, MetaStep DEF Named
  <2> QED BY <2>2, <2>3, <2>4, <2>5, <2>6
<1> QED BY <1>1, <1>2

\* The writes to make, the next one and the rest.
LEMMA QueueFacts ==
    ASSUME NEW ws \in Seq(WriteType), ws # <<>>
    PROVE  /\ 1 \in DOMAIN ws /\ ws[1] = Head(ws)
           /\ \A i \in DOMAIN ws : i = 1 \/ (i - 1 \in DOMAIN Tail(ws) /\ ws[i] = Tail(ws)[i - 1])
           /\ \A i \in DOMAIN Tail(ws) : i \in Nat \ {0} /\ i + 1 \in DOMAIN ws
                                         /\ Tail(ws)[i] = ws[i + 1]
           /\ Len(Tail(ws)) = Len(ws) - 1 /\ Len(ws) \in Nat \ {0}
<1>1. Len(ws) \in Nat \ {0} /\ DOMAIN ws = 1..Len(ws)
  OBVIOUS
<1>2. Tail(ws) \in Seq(WriteType) /\ Len(Tail(ws)) = Len(ws) - 1
  BY <1>1
<1>3. DOMAIN Tail(ws) = 1..(Len(ws) - 1)
  BY <1>2
<1>4. \A i \in 1..(Len(ws) - 1) : Tail(ws)[i] = ws[i + 1]
  BY <1>1
<1>5. ws[1] = Head(ws)
  BY <1>1
<1> QED BY <1>1, <1>2, <1>3, <1>4, <1>5

NamedAt(p) ==
    /\ loc[p].enrolled # None \/ loc[p].runtime # None => Named(meta)
    /\ Deciding(p) /\ loc[p].choice.runtime # None =>
         Named(meta) \/ \E i \in DOMAIN loc[p].writes : loc[p].writes[i].op \in {"enroll", "ensure"}
    /\ targets[p].runtime # None => Named(meta)

NamedInv == Shape /\ \A p \in Procs : NamedAt(p)

LEMMA NamedMeaning ==
    (\A p \in Procs : NamedAt(p)) <=> NamespaceFollows /\ MonitoringHasNamespace
BY NamedFacts DEF NamedAt, NamespaceFollows, MonitoringHasNamespace, Queued

LEMMA NamedFrom ==
    ASSUME NamedInv, NEW p \in Procs, Shape', Elsewhere(p),
           Named(meta) => Named(meta'), NamedAt(p)'
    PROVE  NamedInv'
<1>1. ASSUME NEW q \in Procs, q # p PROVE NamedAt(q)'
  <2>1. pc'[q] = pc[q] /\ loc'[q] = loc[q] /\ targets'[q] = targets[q]
    BY <1>1 DEF Elsewhere
  <2>2. NamedAt(q)
    BY DEF NamedInv
  <2> QED BY <2>1, <2>2 DEF NamedAt, Deciding, At
<1>2. \A q \in Procs : NamedAt(q)'
  BY <1>1
<1> QED BY <1>2 DEF NamedInv

LEMMA NamedInit == Init => NamedInv
<1> SUFFICES ASSUME Init PROVE NamedInv
  OBVIOUS
<1>1. \A p \in Procs : /\ pc[p] = "idle" /\ loc[p].enrolled = None /\ loc[p].runtime = None
                       /\ targets[p].runtime = None
  BY DEF Init, Start, NoTargets, Targets
<1> QED BY <1>1, InitShape DEF NamedInv, NamedAt, Deciding, At

LEMMA NamedStep == NamedInv /\ [Next]_vars => NamedInv'
<1> SUFFICES ASSUME NamedInv, [Next]_vars PROVE NamedInv'
  OBVIOUS
<1>0. Shape /\ meta \in MetaType
  BY DEF NamedInv, Shape, TypeOK, IdentityTypeOK
<1>1. ASSUME UNCHANGED <<procVars, identityVars>>, Shape' PROVE NamedInv'
  BY <1>1 DEF NamedInv, NamedAt, Named, Deciding, At, procVars, identityVars
<1>2. CASE UNCHANGED vars
  BY <1>0, <1>1, <1>2, ShapeStep DEF vars
<1>3. ASSUME NEW m \in Modems, Move(m) PROVE NamedInv'
  BY <1>0, <1>1, <1>3, MoveFacts
<1>4. ASSUME NEW p \in Procs,
             Resolve(p) \/ Observe(p) \/ LoseMonitor(p) \/ WriteFails(p) \/ Crash(p)
      PROVE  NamedInv'
  <2>0. NamedAt(p)
    BY DEF NamedInv
  <2>a. ASSUME loc'[p].enrolled \in {loc[p].enrolled, None},
               loc'[p].runtime \in {loc[p].runtime, None}, ~Deciding(p)',
               targets'[p].runtime \in {targets[p].runtime, None}, meta' = meta,
               Shape', Elsewhere(p)
        PROVE  NamedInv'
    BY <2>0, <2>a, NamedFrom DEF NamedAt
  <2>b. Start.enrolled = None /\ Start.runtime = None /\ NoTargets.runtime = None
    BY DEF Start, NoTargets, Targets
  <2>1. CASE BeginResolve(p) \/ LoseMonitor(p)
    <3>1. Retries(p, "meta")
      BY <1>0, <2>1, RetrySteps
    <3>2. /\ Shape' /\ Elsewhere(p) /\ pc'[p] \in {"meta", "write"} /\ loc'[p].next = "meta"
          /\ loc'[p].enrolled = None /\ loc'[p].runtime = None
      BY <1>0, <3>1, RetriesFacts
    <3> QED BY <2>a, <3>1, <3>2 DEF Retries, identityVars, Deciding, At
  <2>2. CASE BeginObserve(p)
    <3>1. Retries(p, "look") /\ Observing(p)
      BY <1>0, <2>2, RetrySteps
    <3>2. /\ Shape' /\ Elsewhere(p) /\ pc'[p] \in {"look", "write"} /\ loc'[p].next = "look"
          /\ loc'[p].enrolled = None /\ loc'[p].runtime = None
      BY <1>0, <3>1, RetriesFacts
    <3> QED BY <2>a, <3>1, <3>2 DEF Retries, identityVars, Deciding, At
  <2>3. CASE ReadMeta(p)
    <3>1. /\ Shape' /\ Elsewhere(p) /\ pc'[p] = "probe"
          /\ loc'[p].enrolled = meta'.enrolled /\ loc'[p].runtime = meta'.runtime
      BY <1>0, <2>3, ReadMetaFacts
    <3>2. meta' = Migrated(meta) /\ targets' = targets
      BY <2>3 DEF ReadMeta
    <3>3. Named(meta) => Named(meta')
      BY <1>0, <3>2, NamedSteps
    <3>4. NamedAt(p)'
      BY <2>0, <3>1, <3>2, <3>3 DEF NamedAt, Named, Deciding, At
    <3> QED BY <3>1, <3>3, <3>4, NamedFrom
  <2>4. CASE ProbeConfigured(p)
    <3>1. /\ Shape' /\ Elsewhere(p) /\ pc'[p] = "judge"
          /\ loc'[p].enrolled = loc[p].enrolled /\ loc'[p].runtime = loc[p].runtime
      BY <1>0, <2>4, ProbeFacts
    <3>2. targets' = targets /\ meta' = meta
      BY <2>4 DEF ProbeConfigured, identityVars
    <3> QED BY <2>a, <3>1, <3>2 DEF Deciding, At
  <2>5. CASE JudgeConfigured(p)
    <3>1. /\ Shape' /\ Elsewhere(p) /\ meta' = meta /\ targets' = targets
          /\ loc'[p].enrolled = loc[p].enrolled /\ loc'[p].runtime = loc[p].runtime
      BY <1>0, <2>5, JudgeFacts
    <3>2. CASE ~Deciding(p)'
      BY <2>a, <3>1, <3>2
    <3>3. CASE Deciding(p)'
      <4>1. loc'[p].writes = IF loc[p].enrolled = None
                             THEN <<Clear(Configured), Enroll(loc[p].id)>>
                             ELSE <<Clear(Configured)>>
        BY <1>0, <2>5, <3>3, JudgeFacts DEF Deciding, At
      <4>2. CASE loc[p].enrolled # None
        BY <2>0, <3>1, <4>2, NamedFrom DEF NamedAt
      <4>3. CASE loc[p].enrolled = None
        <5>1. 2 \in DOMAIN loc'[p].writes /\ loc'[p].writes[2].op = "enroll"
          BY <4>1, <4>3 DEF Enroll
        <5>2. NamedAt(p)'
          BY <2>0, <3>1, <5>1 DEF NamedAt
        <5> QED BY <3>1, <5>2, NamedFrom
      <4> QED BY <4>2, <4>3
    <3> QED BY <3>2, <3>3
  <2>6. CASE ListPaths(p)
    <3>1. /\ Shape' /\ Elsewhere(p) /\ pc'[p] = "scan"
          /\ loc'[p].enrolled = loc[p].enrolled /\ loc'[p].runtime = loc[p].runtime
          /\ targets' = targets /\ meta' = meta
      BY <1>0, <2>6, ListFacts DEF identityVars
    <3> QED BY <2>a, <3>1 DEF Deciding, At
  <2>7. CASE ProbeCandidate(p)
    <3>1. /\ Shape' /\ Elsewhere(p) /\ pc'[p] = "scan"
          /\ loc'[p].enrolled = loc[p].enrolled /\ loc'[p].runtime = loc[p].runtime
          /\ targets' = targets /\ meta' = meta
      BY <1>0, <2>7, CandidateFacts DEF identityVars
    <3> QED BY <2>a, <3>1 DEF Deciding, At
  <2>8. CASE Choose(p)
    <3>1. /\ Shape' /\ Elsewhere(p) /\ targets' = targets /\ meta' = meta
          /\ loc'[p].enrolled = loc[p].enrolled /\ loc'[p].runtime = loc[p].runtime
      BY <1>0, <2>8, ChooseFacts DEF identityVars
    <3>2. PICK C : /\ ChoiceFits(loc[p].enrolled, loc[p].runtime, loc[p].mismatch,
                                 loc[p].ids, C)
                   /\ loc'[p].choice = C.targets /\ loc'[p].writes = C.writes
      BY <1>0, <2>8, ChooseFacts
    <3>3. C.targets.runtime # None =>
            \/ loc[p].enrolled # None \/ loc[p].runtime # None
            \/ \E i \in DOMAIN C.writes : C.writes[i].op \in {"enroll", "ensure"}
      <4>1. SUFFICES ASSUME C.targets.runtime # None, loc[p].enrolled = None,
                            loc[p].runtime = None
                     PROVE  1 \in DOMAIN C.writes /\ C.writes[1].op \in {"enroll", "ensure"}
        OBVIOUS
      <4>2. \/ C.writes = <<Ensure(Local)>>
            \/ \E x \in Modems : C.writes = <<Ensure(x)>>
            \/ \E x \in Modems : C.writes = <<Ensure(x), ObserveRuntime(x)>>
            \/ \E x \in Modems : C.writes = <<Enroll(x)>>
        BY <3>2, <4>1 DEF ChoiceFits
      <4>3. PICK ws : ws = C.writes
        OBVIOUS
      <4>4. \/ \E w : ws = <<w>> /\ w.op \in {"enroll", "ensure"}
            \/ \E w, v : ws = <<w, v>> /\ w.op \in {"enroll", "ensure"}
        <5>1. \A x : Ensure(x).op = "ensure" /\ Enroll(x).op = "enroll"
          BY DEF Ensure, Enroll
        <5> QED BY <4>2, <4>3, <5>1
      <4> QED BY <4>3, <4>4
    <3>4. NamedAt(p)'
      BY <2>0, <3>1, <3>2, <3>3 DEF NamedAt
    <3> QED BY <3>1, <3>4, NamedFrom
  <2>9. CASE Publish(p)
    <3>1. /\ Shape' /\ Elsewhere(p) /\ loc'[p] = Start /\ targets'[p] = loc[p].choice
          /\ pc[p] = "publish" /\ pc'[p] \in {"done", "monitor", "idle"} /\ meta' = meta
      BY <1>0, <2>9, PublishFacts DEF identityVars
    <3>2. loc[p].writes = <<>> /\ DOMAIN <<>> = {}
      BY <1>0, <3>1 DEF Shape, OnlyServiceMonitors
    <3>3. loc[p].choice.runtime # None => Named(meta)
      BY <2>0, <3>1, <3>2 DEF NamedAt, Deciding, At
    <3>4. NamedAt(p)'
      BY <2>b, <3>1, <3>3 DEF NamedAt, Deciding, At
    <3> QED BY <3>1, <3>4, NamedFrom
  <2>10. CASE Write(p)
    <3>1. PICK ws, w, rest : ws = loc[p].writes /\ w = Head(ws) /\ rest = Tail(ws)
      OBVIOUS
    <3>2. /\ Shape' /\ Elsewhere(p) /\ ws \in Seq(WriteType) /\ ws # <<>> /\ w \in WriteType
          /\ loc'[p].writes = rest /\ loc'[p].next = loc[p].next
          /\ pc[p] = "write" /\ pc'[p] = IF rest = <<>> THEN loc[p].next ELSE "write"
          /\ loc'[p].enrolled = loc[p].enrolled /\ loc'[p].runtime = loc[p].runtime
          /\ loc'[p].choice = loc[p].choice /\ targets' = targets
          /\ meta' = MetaAfter(meta, w)
      BY <1>0, <2>10, <3>1, WriteStepFacts
    <3>3. Named(meta) \/ w.op \in {"enroll", "ensure"} => Named(meta')
      BY <1>0, <3>2, NamedSteps
    <3>4. Deciding(p)' => Deciding(p)
      BY <3>2 DEF Deciding, At
    <3>5. ASSUME NEW i \in DOMAIN ws, ws[i].op \in {"enroll", "ensure"}
          PROVE  Named(meta') \/ \E j \in DOMAIN rest : rest[j].op \in {"enroll", "ensure"}
      <4>1. i = 1 \/ (i - 1 \in DOMAIN rest /\ ws[i] = rest[i - 1])
        BY <3>1, <3>2, QueueFacts
      <4>2. ws[1] = w
        BY <3>1, <3>2, QueueFacts
      <4> QED BY <3>3, <3>5, <4>1, <4>2
    <3>6. NamedAt(p)'
      BY <2>0, <3>1, <3>2, <3>3, <3>4, <3>5 DEF NamedAt
    <3> QED BY <3>2, <3>3, <3>6, NamedFrom
  <2>11. CASE LookAtAction(p)
    <3>1. /\ Shape' /\ Elsewhere(p) /\ pc'[p] \in {"lookRuntime", "write"}
          /\ loc'[p].next = "lookRuntime" /\ targets'[p].runtime = targets[p].runtime
          /\ loc'[p].enrolled = loc[p].enrolled /\ loc'[p].runtime = loc[p].runtime
          /\ meta' = meta
      BY <1>0, <2>11, LookAtActionFacts
    <3> QED BY <2>a, <3>1 DEF Deciding, At
  <2>12. CASE LookAtRuntime(p)
    <3>1. /\ Shape' /\ Elsewhere(p) /\ pc'[p] \in {"monitor", "write"}
          /\ loc'[p].next = "monitor" /\ targets'[p].runtime = targets[p].runtime
          /\ loc'[p].enrolled = loc[p].enrolled /\ loc'[p].runtime = loc[p].runtime
          /\ meta' = meta
      BY <1>0, <2>12, LookAtRuntimeFacts
    <3> QED BY <2>a, <3>1 DEF Deciding, At
  <2>13. CASE WriteFails(p)
    <3>1. /\ Shape' /\ Elsewhere(p) /\ loc'[p] = Start /\ pc'[p] \in {"monitor", "idle", "done"}
          /\ targets'[p] \in {targets[p], NoTargets} /\ meta' = meta
      BY <1>0, <2>13, WriteFailsFacts DEF identityVars
    <3> QED BY <2>a, <2>b, <3>1 DEF Deciding, At
  <2>14. CASE Crash(p)
    <3>1. /\ Shape' /\ Elsewhere(p) /\ loc'[p] = Start /\ pc'[p] = "idle"
          /\ targets'[p] = NoTargets /\ meta' = meta
      BY <1>0, <2>14, CrashFacts DEF identityVars
    <3> QED BY <2>a, <2>b, <3>1 DEF Deciding, At
  <2> QED BY <1>4, <2>1, <2>2, <2>3, <2>4, <2>5, <2>6, <2>7, <2>8, <2>9, <2>10, <2>11,
             <2>12, <2>13, <2>14 DEF Resolve, Observe
<1> QED BY <1>2, <1>3, <1>4 DEF Next

\* While any process monitors a path, received messages have a namespace to
\* be stored under: a resolution stores one before it publishes the path, and
\* no later write removes it (resolve_monitor_path, ensure_modem_dedupe_namespace).
THEOREM MonitoredIsNamed == Spec => [](MonitoringHasNamespace /\ NamespaceFollows)
<1>1. NamedInv => MonitoringHasNamespace /\ NamespaceFollows
  BY NamedMeaning DEF NamedInv
<1> QED BY <1>1, NamedInit, NamedStep, PTL DEF Spec

-----------------------------------------------------------------------------
(***************************************************************************)
(* A service alone on its database.                                        *)
(***************************************************************************)
Founded == /\ KnowsOwned /\ MismatchesAreCurrent /\ DecidesOnMeta
           /\ WritesAreFounded /\ TargetsAreClear
ServiceInv == Shape /\ Founded

LEMMA ServiceIsAProcess ==
    /\ Service \in Procs
    /\ Clis = {} => Procs = {Service}
BY DEF Procs

LEMMA OpsDiffer ==
    /\ \A path, id : Mark(path, id).op = "mark" /\ Mark(path, id).path = path
                     /\ Mark(path, id).id = id
    /\ \A path : Clear(path).op = "clear" /\ Clear(path).path = path
    /\ \A id : /\ Enroll(id).op = "enroll" /\ Enroll(id).id = id
               /\ Ensure(id).op = "ensure" /\ Ensure(id).id = id
               /\ ObserveRuntime(id).op = "observe" /\ ObserveRuntime(id).id = id
BY DEF Mark, Clear, Enroll, Ensure, ObserveRuntime

\* With nothing left to write there is nothing to show of the writes.
LEMMA NoQueue ==
    /\ loc[Service].writes = <<>> => Queued(Service) = {} /\ WritesAreFounded
    /\ loc'[Service].writes = <<>> => Queued(Service)' = {} /\ WritesAreFounded'
<1>1. DOMAIN <<>> = {}
  OBVIOUS
<1> QED BY <1>1 DEF Queued, WritesAreFounded

\* Nothing that the rest of the invariant speaks of changes with the modems.
LEMMA FoundedStutters ==
    ASSUME Founded, UNCHANGED <<owned, procVars, identityVars>>
    PROVE  Founded'
BY DEF Founded, KnowsOwned, MismatchesAreCurrent, DecidesOnMeta, WritesAreFounded,
       TargetsAreClear, NoMismatch, Against, Queued, Observing, Deciding, At,
       procVars, identityVars

LEMMA FoundedInit == Init => Founded
<1> SUFFICES ASSUME Init PROVE Founded
  OBVIOUS
<1>1. /\ pc[Service] = "idle" /\ loc[Service] = Start /\ targets[Service] = NoTargets
      /\ \A path \in Paths : quarantine[path] = None /\ pending[Service][path] = None
      /\ meta.enrolled \in owned \cup {None, Legacy} /\ meta.runtime \in owned \cup {None}
  BY ServiceIsAProcess DEF Init, Nowhere
<1>2. /\ Start.writes = <<>> /\ Start.id = None /\ DOMAIN Start.ids = {}
      /\ Start.choice.action = None /\ NoTargets.action = None
  BY DEF Start, NoIds, NoTargets, Targets
<1>3. Queued(Service) = {} /\ WritesAreFounded
  BY <1>1, <1>2, NoQueue
<1>4. KnowsOwned
  BY <1>1, <1>2, <1>3 DEF KnowsOwned
<1>5. MismatchesAreCurrent
  BY <1>1, <1>3 DEF MismatchesAreCurrent, Against
<1>6. DecidesOnMeta
  BY <1>1, <1>2 DEF DecidesOnMeta, At
<1>7. TargetsAreClear
  BY <1>1 DEF TargetsAreClear, Observing, Deciding, At
<1> QED BY <1>3, <1>4, <1>5, <1>6, <1>7 DEF Founded

\* A retry stores again what is remembered.
LEMMA FoundedRetries ==
    ASSUME ServiceInv, NEW next \in {"meta", "look"}, Retries(Service, next),
           next = "look" => Observing(Service)
    PROVE  Founded'
<1>0. Shape /\ TypeOK /\ Service \in Procs
  BY ServiceIsAProcess DEF ServiceInv, Shape
<1>1. /\ pc'[Service] \in {next, "write"} /\ loc'[Service].next = next
      /\ loc'[Service].writes = PendingWrites(Service)
      /\ loc'[Service].id = None /\ loc'[Service].ids = NoIds
  BY <1>0, RetriesFacts
<1>2. UNCHANGED <<owned, targets, pending, seen, meta, quarantine>>
  BY DEF Retries, identityVars
<1>3. PICK ws : ws = PendingWrites(Service)
  OBVIOUS
<1>4. /\ ws \in Seq(WriteType)
      /\ \A i \in DOMAIN ws : \E path \in Paths :
           /\ pending[Service][path] # None
           /\ ws[i] = Mark(path, pending[Service][path])
  BY <1>0, <1>3, PendingFacts
<1>5. \A i \in DOMAIN ws :
        /\ ws[i].op = "mark" /\ ws[i].path \in Paths
        /\ ws[i].id = pending[Service][ws[i].path] /\ ws[i].id # None
  BY <1>4, OpsDiffer
<1>6. Queued(Service)' = {ws[i] : i \in DOMAIN ws}
  BY <1>1, <1>3 DEF Queued
<1>7. \A w \in Queued(Service)' :
        /\ w.op = "mark" /\ w.path \in Paths
        /\ w.id = pending[Service][w.path] /\ w.id # None
  BY <1>5, <1>6
<1>8. DOMAIN loc'[Service].ids = {}
  BY <1>1 DEF NoIds
<1>9. /\ KnowsOwned /\ MismatchesAreCurrent /\ DecidesOnMeta /\ TargetsAreClear
  BY DEF ServiceInv, Founded
<1>10. KnowsOwned'
  BY <1>1, <1>2, <1>7, <1>8, <1>9 DEF KnowsOwned
<1>11. MismatchesAreCurrent'
  BY <1>2, <1>7, <1>9 DEF MismatchesAreCurrent, Against
<1>12. next = "look" => meta.enrolled # Legacy
  BY <1>9 DEF DecidesOnMeta, Observing, At
<1>13. DecidesOnMeta'
  BY <1>1, <1>2, <1>8, <1>12 DEF DecidesOnMeta, At
<1>14. WritesAreFounded'
  <2>1. \A i \in DOMAIN ws : ws[i].op = "mark" /\ ws[i] # Ensure(Local)
    BY <1>5, OpsDiffer
  <2> QED BY <1>1, <1>3, <2>1 DEF WritesAreFounded
<1>15. TargetsAreClear'
  <2>1. ~Deciding(Service)' /\ (Observing(Service)' => Observing(Service))
    BY <1>1 DEF Deciding, Observing, At
  <2>2. targets[Service].action \in Paths \cup {None}
    BY <1>0 DEF TypeOK, TargetsType
  <2>3. Observing(Service) /\ targets[Service].action # None =>
          /\ quarantine[targets[Service].action] = None
          /\ pending[Service][targets[Service].action] = None
    BY <1>9 DEF TargetsAreClear, NoMismatch
  <2> QED BY <1>2, <1>7, <2>1, <2>3 DEF TargetsAreClear, NoMismatch
<1> QED BY <1>10, <1>11, <1>13, <1>14, <1>15 DEF Founded

LEMMA FoundedReadMeta ==
    ASSUME ServiceInv, ReadMeta(Service)
    PROVE  Founded'
<1>0. Shape /\ TypeOK /\ Service \in Procs /\ meta \in MetaType
  BY ServiceIsAProcess DEF ServiceInv, Shape, TypeOK, IdentityTypeOK
<1>1. /\ pc[Service] = "meta" /\ pc'[Service] = "probe"
      /\ loc'[Service].enrolled = meta'.enrolled /\ loc'[Service].runtime = meta'.runtime
      /\ loc'[Service].ids = loc[Service].ids /\ loc'[Service].writes = <<>>
  BY <1>0, ReadMetaFacts
<1>2. meta' = Migrated(meta) /\ UNCHANGED <<owned, targets, pending, seen, quarantine>>
  BY DEF ReadMeta
<1>3. loc'[Service].id = loc[Service].id
  <2>1. loc' = [loc EXCEPT ![Service] =
                  [loc[Service] EXCEPT !.enrolled = meta'.enrolled, !.runtime = meta.runtime]]
    BY <1>0 DEF ReadMeta, TypeOK
  <2> QED BY <1>0, <2>1 DEF TypeOK, LocType
<1>4. /\ meta'.enrolled # Legacy /\ meta'.runtime = meta.runtime
      /\ meta.enrolled # Legacy => meta'.enrolled = meta.enrolled
      /\ meta.enrolled = Legacy => meta'.enrolled = None
  BY <1>0, <1>2, MigrationStep
<1>5. /\ KnowsOwned /\ MismatchesAreCurrent /\ DecidesOnMeta
  BY DEF ServiceInv, Founded
<1>6. Queued(Service)' = {} /\ WritesAreFounded'
  BY <1>1, NoQueue
<1>7. KnowsOwned'
  <2>1. \A path \in DOMAIN loc'[Service].ids : loc'[Service].ids[path] \in owned \cup {None}
    BY <1>1, <1>5 DEF KnowsOwned
  <2> QED BY <1>2, <1>3, <1>4, <1>5, <1>6, <2>1 DEF KnowsOwned
<1>8. MismatchesAreCurrent'
  <2>1. \A path \in Paths : /\ Against(quarantine[path]) /\ Against(pending[Service][path])
    BY <1>5 DEF MismatchesAreCurrent
  <2> QED BY <1>2, <1>4, <1>6, <2>1 DEF MismatchesAreCurrent, Against
<1>9. DOMAIN loc'[Service].ids = {}
  BY <1>1, <1>5 DEF DecidesOnMeta, At
<1>10. DecidesOnMeta'
  BY <1>1, <1>4, <1>9 DEF DecidesOnMeta, At
<1>11. TargetsAreClear'
  BY <1>1 DEF TargetsAreClear, Observing, Deciding, At
<1> QED BY <1>6, <1>7, <1>8, <1>10, <1>11 DEF Founded

LEMMA FoundedProbe ==
    ASSUME ServiceInv, ProbeConfigured(Service)
    PROVE  Founded'
<1>0. Shape /\ Service \in Procs
  BY ServiceIsAProcess DEF ServiceInv
<1>1. /\ pc[Service] = "probe" /\ pc'[Service] = "judge"
      /\ loc'[Service].id \in owned \cup {None}
      /\ loc'[Service].id # None => seen'[Service][Configured] = loc'[Service].id
      /\ loc'[Service].enrolled = loc[Service].enrolled
      /\ loc'[Service].runtime = loc[Service].runtime
      /\ loc'[Service].ids = loc[Service].ids /\ loc'[Service].writes = <<>>
  BY <1>0, ProbeFacts
<1>2. UNCHANGED <<owned, targets, pending, meta, quarantine>>
  BY DEF ProbeConfigured, identityVars
<1>3. /\ KnowsOwned /\ MismatchesAreCurrent /\ DecidesOnMeta
  BY DEF ServiceInv, Founded
<1>4. Queued(Service)' = {} /\ WritesAreFounded'
  BY <1>1, NoQueue
<1>5. KnowsOwned'
  <2>1. \A path \in DOMAIN loc'[Service].ids : loc'[Service].ids[path] \in owned \cup {None}
    BY <1>1, <1>3 DEF KnowsOwned
  <2> QED BY <1>1, <1>2, <1>3, <1>4, <2>1 DEF KnowsOwned
<1>6. MismatchesAreCurrent'
  BY <1>2, <1>3, <1>4 DEF MismatchesAreCurrent, Against
<1>7. /\ DOMAIN loc'[Service].ids = {} /\ meta.enrolled # Legacy
      /\ loc[Service].enrolled = meta.enrolled /\ loc[Service].runtime = meta.runtime
  BY <1>1, <1>3 DEF DecidesOnMeta, At
<1>8. DecidesOnMeta'
  BY <1>1, <1>2, <1>7 DEF DecidesOnMeta, At
<1>9. TargetsAreClear'
  BY <1>1 DEF TargetsAreClear, Observing, Deciding, At
<1> QED BY <1>4, <1>5, <1>6, <1>8, <1>9 DEF Founded

LEMMA FoundedJudge ==
    ASSUME ServiceInv, JudgeConfigured(Service)
    PROVE  Founded'
<1>0. Shape /\ TypeOK /\ Service \in Procs /\ Configured \in Paths
  BY ServiceIsAProcess, IdentityStoreAssumption DEF ServiceInv, Shape
<1> DEFINE e == loc[Service].enrolled
           id == loc[Service].id
<1>1. /\ pc[Service] = "judge" /\ loc'[Service].ids = loc[Service].ids
      /\ loc'[Service].id = id
      /\ loc'[Service].enrolled = e /\ loc'[Service].runtime = loc[Service].runtime
      /\ UNCHANGED <<targets, seen, meta, quarantine>>
      /\ \/ /\ id = None /\ pc'[Service] = "list" /\ loc'[Service].writes = <<>>
            /\ loc'[Service].mismatch
                 = Quarantined(e, quarantine[Configured], pending[Service][Configured])
            /\ pending' = pending
         \/ /\ id # None /\ e \notin {None, id}
            /\ pc'[Service] = "write" /\ loc'[Service].next = "list"
            /\ loc'[Service].writes = <<Mark(Configured, e)>> /\ loc'[Service].mismatch
            /\ \A path \in Paths : pending'[Service][path] =
                 IF path = Configured THEN e ELSE pending[Service][path]
         \/ /\ id # None /\ e \in {None, id}
            /\ pc'[Service] = "write" /\ loc'[Service].next = "publish"
            /\ loc'[Service].writes = IF e = None THEN <<Clear(Configured), Enroll(id)>>
                                      ELSE <<Clear(Configured)>>
            /\ loc'[Service].choice = Targets(Configured, Configured)
            /\ pending' = pending
  BY <1>0, JudgeFacts
<1>2. owned' = owned
  BY DEF JudgeConfigured
<1>3. /\ KnowsOwned /\ MismatchesAreCurrent /\ DecidesOnMeta
  BY DEF ServiceInv, Founded
<1>4. /\ DOMAIN loc'[Service].ids = {} /\ meta.enrolled # Legacy
      /\ e = meta.enrolled /\ loc[Service].runtime = meta.runtime
      /\ id # None => seen[Service][Configured] = id
  BY <1>1, <1>3 DEF DecidesOnMeta, At
<1>5. \A path \in Paths : Against(quarantine[path]) /\ Against(pending[Service][path])
  BY <1>3 DEF MismatchesAreCurrent
<1>6. /\ meta.enrolled \in owned \cup {None, Legacy} /\ meta.runtime \in owned \cup {None}
      /\ id \in owned \cup {None}
  BY <1>3 DEF KnowsOwned
<1> HIDE DEF e, id
<1>7. CASE /\ id = None /\ pc'[Service] = "list" /\ loc'[Service].writes = <<>>
           /\ loc'[Service].mismatch
                = Quarantined(e, quarantine[Configured], pending[Service][Configured])
           /\ pending' = pending
  <2>1. Queued(Service)' = {} /\ WritesAreFounded'
    BY <1>7, NoQueue
  <2>2. KnowsOwned'
    BY <1>1, <1>2, <1>4, <1>6, <2>1 DEF KnowsOwned
  <2>3. MismatchesAreCurrent'
    BY <1>1, <1>5, <1>7, <2>1 DEF MismatchesAreCurrent, Against
  <2>4. ~loc'[Service].mismatch =>
          quarantine[Configured] = None /\ pending[Service][Configured] = None
    BY <1>0, <1>4, <1>5, <1>7 DEF Quarantined, Against
  <2>5. DecidesOnMeta'
    BY <1>1, <1>4, <1>7, <2>4 DEF DecidesOnMeta, At
  <2>6. TargetsAreClear'
    BY <1>7 DEF TargetsAreClear, Observing, Deciding, At
  <2> QED BY <2>1, <2>2, <2>3, <2>5, <2>6 DEF Founded
<1>8. CASE /\ id # None /\ e \notin {None, id}
           /\ pc'[Service] = "write" /\ loc'[Service].next = "list"
           /\ loc'[Service].writes = <<Mark(Configured, e)>> /\ loc'[Service].mismatch
           /\ \A path \in Paths : pending'[Service][path] =
                IF path = Configured THEN e ELSE pending[Service][path]
  <2>0. DOMAIN loc'[Service].writes = {1} /\ loc'[Service].writes[1] = Mark(Configured, e)
    BY <1>8
  <2>1. Queued(Service)' = {Mark(Configured, e)}
    BY <2>0 DEF Queued
  <2>2. KnowsOwned'
    BY <1>1, <1>2, <1>4, <1>6, <2>1, OpsDiffer DEF KnowsOwned
  <2>3. MismatchesAreCurrent'
    BY <1>1, <1>4, <1>5, <1>8, <2>1, OpsDiffer DEF MismatchesAreCurrent, Against
  <2>4. WritesAreFounded'
    BY <2>0, OpsDiffer DEF WritesAreFounded
  <2>5. DecidesOnMeta'
    BY <1>1, <1>4, <1>8 DEF DecidesOnMeta, At
  <2>6. TargetsAreClear'
    BY <1>8 DEF TargetsAreClear, Observing, Deciding, At
  <2> QED BY <2>2, <2>3, <2>4, <2>5, <2>6 DEF Founded
<1>9. CASE /\ id # None /\ e \in {None, id}
           /\ pc'[Service] = "write" /\ loc'[Service].next = "publish"
           /\ loc'[Service].writes = IF e = None THEN <<Clear(Configured), Enroll(id)>>
                                     ELSE <<Clear(Configured)>>
           /\ loc'[Service].choice = Targets(Configured, Configured)
           /\ pending' = pending
  <2>0. /\ loc'[Service].writes # <<>> /\ 1 \in DOMAIN loc'[Service].writes
        /\ loc'[Service].writes[1] = Clear(Configured)
        /\ Head(loc'[Service].writes) = Clear(Configured)
        /\ \A i \in DOMAIN loc'[Service].writes :
             i = 1 \/ (/\ e = None /\ i = 2 /\ Len(loc'[Service].writes) = 2
                       /\ loc'[Service].writes[i] = Enroll(id))
    <3>1. CASE e = None
      <4>1. loc'[Service].writes = <<Clear(Configured), Enroll(id)>>
        BY <1>9, <3>1
      <4> QED BY <3>1, <4>1
    <3>2. CASE e # None
      <4>1. loc'[Service].writes = <<Clear(Configured)>>
        BY <1>9, <3>2
      <4> QED BY <4>1
    <3> QED BY <3>1, <3>2
  <2>1. \A w \in Queued(Service)' : w = Clear(Configured) \/ w = Enroll(id)
    BY <2>0 DEF Queued
  <2>2. KnowsOwned'
    BY <1>1, <1>2, <1>4, <1>6, <1>9, <2>1, OpsDiffer DEF KnowsOwned
  <2>3. MismatchesAreCurrent'
    BY <1>1, <1>5, <1>9, <2>1, OpsDiffer DEF MismatchesAreCurrent, Against
  <2>4. WritesAreFounded'
    BY <1>1, <1>4, <1>9, <2>0, OpsDiffer DEF WritesAreFounded, At
  <2>5. DecidesOnMeta'
    BY <1>1, <1>4, <1>9 DEF DecidesOnMeta, At
  <2>6. TargetsAreClear'
    <3>1. ~Observing(Service)' /\ loc'[Service].choice.action = Configured
      BY <1>9 DEF Observing, At, Targets
    <3> QED BY <2>0, <2>1, <3>1, OpsDiffer DEF TargetsAreClear
  <2> QED BY <2>2, <2>3, <2>4, <2>5, <2>6 DEF Founded
<1> QED BY <1>1, <1>7, <1>8, <1>9

LEMMA FoundedList ==
    ASSUME ServiceInv, ListPaths(Service)
    PROVE  Founded'
<1>0. Shape /\ Service \in Procs
  BY ServiceIsAProcess DEF ServiceInv
<1>1. /\ pc[Service] = "list" /\ pc'[Service] = "scan"
      /\ loc'[Service].enrolled = loc[Service].enrolled
      /\ loc'[Service].runtime = loc[Service].runtime
      /\ loc'[Service].id = loc[Service].id /\ loc'[Service].mismatch = loc[Service].mismatch
      /\ loc'[Service].ids = loc[Service].ids /\ loc'[Service].writes = <<>>
      /\ UNCHANGED <<targets, pending, seen, meta, quarantine>>
  BY <1>0, ListFacts DEF identityVars
<1>2. owned' = owned
  BY DEF ListPaths
<1>3. /\ KnowsOwned /\ MismatchesAreCurrent /\ DecidesOnMeta
  BY DEF ServiceInv, Founded
<1>4. Queued(Service)' = {} /\ WritesAreFounded'
  BY <1>1, NoQueue
<1>5. /\ DOMAIN loc'[Service].ids = {} /\ meta.enrolled # Legacy
      /\ loc[Service].enrolled = meta.enrolled /\ loc[Service].runtime = meta.runtime
      /\ ~loc[Service].mismatch =>
            quarantine[Configured] = None /\ pending[Service][Configured] = None
  BY <1>1, <1>3 DEF DecidesOnMeta, At
<1>6. KnowsOwned'
  BY <1>1, <1>2, <1>3, <1>4, <1>5 DEF KnowsOwned
<1>7. MismatchesAreCurrent'
  BY <1>1, <1>3, <1>4 DEF MismatchesAreCurrent, Against
<1>8. DecidesOnMeta'
  BY <1>1, <1>5 DEF DecidesOnMeta, At
<1>9. TargetsAreClear'
  BY <1>1 DEF TargetsAreClear, Observing, Deciding, At
<1> QED BY <1>4, <1>6, <1>7, <1>8, <1>9 DEF Founded

LEMMA FoundedCandidate ==
    ASSUME ServiceInv, ProbeCandidate(Service)
    PROVE  Founded'
<1>0. Shape /\ TypeOK /\ Service \in Procs /\ loc[Service] \in LocType
  BY ServiceIsAProcess DEF ServiceInv, Shape, TypeOK
<1>1. /\ pc[Service] = "scan" /\ pc'[Service] = "scan"
      /\ loc'[Service].enrolled = loc[Service].enrolled
      /\ loc'[Service].runtime = loc[Service].runtime
      /\ loc'[Service].id = loc[Service].id /\ loc'[Service].mismatch = loc[Service].mismatch
      /\ loc'[Service].writes = <<>>
      /\ UNCHANGED <<targets, pending, meta, quarantine>>
  BY <1>0, CandidateFacts DEF identityVars
<1>2. PICK path \in Paths :
        /\ DOMAIN loc'[Service].ids = DOMAIN loc[Service].ids \cup {path}
        /\ loc'[Service].ids[path] \in owned \cup {None}
        /\ loc'[Service].ids[path] # None => seen'[Service][path] = loc'[Service].ids[path]
        /\ \A i \in DOMAIN loc[Service].ids :
             i # path => loc'[Service].ids[i] = loc[Service].ids[i]
        /\ \A i \in Paths : i # path => seen'[Service][i] = seen[Service][i]
  BY <1>0, CandidateFacts
<1>3. owned' = owned
  BY DEF ProbeCandidate
<1>4. /\ KnowsOwned /\ MismatchesAreCurrent /\ DecidesOnMeta
  BY DEF ServiceInv, Founded
<1>5. Queued(Service)' = {} /\ WritesAreFounded'
  BY <1>1, NoQueue
<1>6. DOMAIN loc[Service].ids \subseteq Paths
  BY <1>0, LocFacts, IdsFacts
<1>7. KnowsOwned'
  <2>1. \A i \in DOMAIN loc'[Service].ids : loc'[Service].ids[i] \in owned \cup {None}
    BY <1>2, <1>4 DEF KnowsOwned
  <2> QED BY <1>1, <1>3, <1>4, <1>5, <2>1 DEF KnowsOwned
<1>8. MismatchesAreCurrent'
  BY <1>1, <1>4, <1>5 DEF MismatchesAreCurrent, Against
<1>9. /\ meta.enrolled # Legacy
      /\ loc[Service].enrolled = meta.enrolled /\ loc[Service].runtime = meta.runtime
      /\ ~loc[Service].mismatch =>
            quarantine[Configured] = None /\ pending[Service][Configured] = None
      /\ \A i \in DOMAIN loc[Service].ids : loc[Service].ids[i] # None =>
            seen[Service][i] = loc[Service].ids[i]
  BY <1>1, <1>4 DEF DecidesOnMeta, At
<1>10. \A i \in DOMAIN loc'[Service].ids : loc'[Service].ids[i] # None =>
         seen'[Service][i] = loc'[Service].ids[i]
  BY <1>2, <1>6, <1>9
<1>11. DecidesOnMeta'
  BY <1>1, <1>9, <1>10 DEF DecidesOnMeta, At
<1>12. TargetsAreClear'
  BY <1>1 DEF TargetsAreClear, Observing, Deciding, At
<1> QED BY <1>5, <1>7, <1>8, <1>11, <1>12 DEF Founded

\* A decision stands if its writes are founded and its target is clear.
LEMMA FoundedChoose ==
    ASSUME ServiceInv, Choose(Service)
    PROVE  Founded'
<1>0. Shape /\ TypeOK /\ Service \in Procs /\ loc[Service] \in LocType /\ owned \subseteq Modems
  BY ServiceIsAProcess DEF ServiceInv, Shape, TypeOK
<1>1. /\ pc[Service] = "scan" /\ pc'[Service] \in {"publish", "write"}
      /\ loc'[Service].next = "publish"
      /\ loc'[Service].id = loc[Service].id /\ loc'[Service].ids = loc[Service].ids
      /\ UNCHANGED <<targets, pending, seen, meta, quarantine>>
  BY <1>0, ChooseFacts DEF identityVars
<1>2. PICK C : /\ ChoiceFits(loc[Service].enrolled, loc[Service].runtime,
                             loc[Service].mismatch, loc[Service].ids, C)
               /\ loc'[Service].choice = C.targets /\ loc'[Service].writes = C.writes
  BY <1>0, ChooseFacts
<1>3. owned' = owned
  BY DEF Choose
<1>4. /\ KnowsOwned /\ MismatchesAreCurrent /\ DecidesOnMeta
  BY DEF ServiceInv, Founded
<1>5. /\ meta.enrolled # Legacy
      /\ loc[Service].enrolled = meta.enrolled /\ loc[Service].runtime = meta.runtime
      /\ ~loc[Service].mismatch =>
            quarantine[Configured] = None /\ pending[Service][Configured] = None
      /\ \A i \in DOMAIN loc[Service].ids : loc[Service].ids[i] # None =>
            seen[Service][i] = loc[Service].ids[i]
  BY <1>1, <1>4 DEF DecidesOnMeta, At
<1>6. PICK ws, act : ws = C.writes /\ act = C.targets.action
  OBVIOUS
<1>7. \A x : FoundIn(loc[Service].ids, x) => x \in owned \cup {None}
  BY <1>4 DEF KnowsOwned, FoundIn
<1>8. act # None /\ act = Configured /\ ~loc[Service].mismatch => NoMismatch(act)
  BY <1>5 DEF NoMismatch
<1>9. Local \notin Modems /\ None \notin Modems
  BY IdentityStoreAssumption
<1>a. \/ ws = <<>> /\ (act # None => NoMismatch(act))
      \/ \E path : /\ ws = <<Clear(path)>> /\ act = path /\ meta.enrolled = seen[Service][path]
      \/ \E x \in owned : ws = <<Ensure(x)>> /\ (act # None => NoMismatch(act))
      \/ /\ ws = <<Ensure(Local)>> /\ meta.enrolled = None /\ meta.runtime = None
         /\ act # None => NoMismatch(act)
      \/ \E x \in owned : ws = <<Ensure(x), ObserveRuntime(x)>> /\ act = None
      \/ \E x \in owned : /\ ws = <<Enroll(x)>> /\ meta.enrolled = None
                          /\ act # None => NoMismatch(act)
  BY <1>2, <1>5, <1>6, <1>7, <1>8, <1>9 DEF ChoiceFits
<1> DEFINE Good ==
         /\ \A i \in DOMAIN ws : /\ ws[i].op # "mark"
                                 /\ ws[i].op \in {"enroll", "ensure", "observe"} =>
                                      ws[i].id \in owned \cup {Local}
                                 /\ ws[i].op = "enroll" => meta.enrolled = None /\ i = Len(ws)
                                 /\ ws[i].op = "clear" =>
                                      i = 1 /\ meta.enrolled \in {None, seen[Service][ws[i].path]}
                                 /\ ws[i] = Ensure(Local) =>
                                      i = 1 /\ meta.enrolled = None /\ meta.runtime = None
         /\ act = None \/ NoMismatch(act) \/ (ws # <<>> /\ Head(ws) = Clear(act))
<1>b. Good
  <2>1. CASE ws = <<>> /\ (act # None => NoMismatch(act))
    BY <2>1
  <2>2. ASSUME NEW path, ws = <<Clear(path)>>, act = path, meta.enrolled = seen[Service][path]
        PROVE  Good
    <3>1. DOMAIN ws = {1} /\ ws[1] = Clear(path) /\ Head(ws) = Clear(path) /\ ws # <<>>
      BY <2>2
    <3> QED BY <2>2, <3>1, OpsDiffer
  <2>3. ASSUME NEW x \in owned, ws = <<Ensure(x)>>, act # None => NoMismatch(act)
        PROVE  Good
    <3>1. DOMAIN ws = {1} /\ ws[1] = Ensure(x)
      BY <2>3
    <3>2. Ensure(x) # Ensure(Local)
      BY <1>0, <1>9, OpsDiffer
    <3> QED BY <2>3, <3>1, <3>2, OpsDiffer
  <2>4. ASSUME ws = <<Ensure(Local)>>, meta.enrolled = None, meta.runtime = None,
               act # None => NoMismatch(act)
        PROVE  Good
    <3>1. DOMAIN ws = {1} /\ ws[1] = Ensure(Local)
      BY <2>4
    <3> QED BY <2>4, <3>1, OpsDiffer
  <2>5. ASSUME NEW x \in owned, ws = <<Ensure(x), ObserveRuntime(x)>>, act = None
        PROVE  Good
    <3>1. DOMAIN ws = {1, 2} /\ ws[1] = Ensure(x) /\ ws[2] = ObserveRuntime(x)
      BY <2>5
    <3>2. Ensure(x) # Ensure(Local) /\ ObserveRuntime(x) # Ensure(Local)
      BY <1>0, <1>9, OpsDiffer
    <3>3. /\ ws[1].op = "ensure" /\ ws[1].id = x
          /\ ws[2].op = "observe" /\ ws[2].id = x
      BY <3>1, OpsDiffer
    <3>4. ASSUME NEW i \in DOMAIN ws
          PROVE  /\ ws[i].op \in {"ensure", "observe"} /\ ws[i].id \in owned
                 /\ ws[i] # Ensure(Local)
      <4>1. i = 1 \/ i = 2
        BY <3>1
      <4> QED BY <3>1, <3>2, <3>3, <4>1
    <3> QED BY <2>5, <3>4
  <2>6. ASSUME NEW x \in owned, ws = <<Enroll(x)>>, meta.enrolled = None,
               act # None => NoMismatch(act)
        PROVE  Good
    <3>1. DOMAIN ws = {1} /\ ws[1] = Enroll(x) /\ Len(ws) = 1
      BY <2>6
    <3> QED BY <2>6, <3>1, OpsDiffer
  <2> HIDE DEF Good
  <2> QED BY <1>a, <2>1, <2>2, <2>3, <2>4, <2>5, <2>6
<1>c. Queued(Service)' = {ws[i] : i \in DOMAIN ws}
  BY <1>2, <1>6 DEF Queued
<1>d. \A w \in Queued(Service)' : /\ w.op # "mark"
                                  /\ w.op \in {"enroll", "ensure", "observe"} =>
                                       w.id \in owned \cup {Local}
  BY <1>b, <1>c
<1>10. KnowsOwned'
  <2>1. \A i \in DOMAIN loc'[Service].ids : loc'[Service].ids[i] \in owned \cup {None}
    BY <1>1, <1>4 DEF KnowsOwned
  <2> QED BY <1>1, <1>3, <1>4, <1>d, <2>1 DEF KnowsOwned
<1>11. MismatchesAreCurrent'
  BY <1>1, <1>4, <1>d DEF MismatchesAreCurrent, Against
<1>12. DecidesOnMeta'
  BY <1>1, <1>5 DEF DecidesOnMeta, At
<1>13. WritesAreFounded'
  BY <1>1, <1>2, <1>6, <1>b DEF WritesAreFounded, At
<1>14. TargetsAreClear'
  <2>1. ~Observing(Service)'
    BY <1>1 DEF Observing, At
  <2>2. act = None \/ NoMismatch(act)' \/ (ws # <<>> /\ Head(ws) = Clear(act))
    BY <1>1, <1>b DEF NoMismatch
  <2> QED BY <1>2, <1>6, <1>d, <2>1, <2>2 DEF TargetsAreClear
<1> QED BY <1>10, <1>11, <1>12, <1>13, <1>14 DEF Founded

LEMMA FoundedPublish ==
    ASSUME ServiceInv, Publish(Service)
    PROVE  Founded'
<1>0. Shape /\ Service \in Procs
  BY ServiceIsAProcess DEF ServiceInv
<1>1. /\ pc[Service] = "publish" /\ loc'[Service] = Start
      /\ targets'[Service] = loc[Service].choice
      /\ pc'[Service] \in {"done", "monitor", "idle"}
      /\ UNCHANGED <<pending, seen, meta, quarantine>>
  BY <1>0, PublishFacts DEF identityVars
<1>2. owned' = owned
  BY DEF Publish
<1>3. /\ KnowsOwned /\ MismatchesAreCurrent /\ DecidesOnMeta /\ TargetsAreClear
  BY DEF ServiceInv, Founded
<1>4. Start.writes = <<>> /\ Start.id = None /\ DOMAIN Start.ids = {}
  BY DEF Start, NoIds
<1>5. Queued(Service)' = {} /\ WritesAreFounded'
  BY <1>1, <1>4, NoQueue
<1>6. KnowsOwned'
  BY <1>1, <1>2, <1>3, <1>4, <1>5 DEF KnowsOwned
<1>7. MismatchesAreCurrent'
  BY <1>1, <1>3, <1>5 DEF MismatchesAreCurrent, Against
<1>8. DecidesOnMeta'
  BY <1>1, <1>3, <1>4 DEF DecidesOnMeta, At
<1>9. TargetsAreClear'
  <2>1. loc[Service].writes = <<>>
    BY <1>0, <1>1 DEF Shape, OnlyServiceMonitors
  <2>2. loc[Service].choice.action = None \/ NoMismatch(loc[Service].choice.action)
    BY <1>1, <1>3, <2>1 DEF TargetsAreClear, Deciding, At
  <2>3. ~Deciding(Service)'
    BY <1>1 DEF Deciding, At
  <2> QED BY <1>1, <1>5, <2>2, <2>3 DEF TargetsAreClear, NoMismatch
<1> QED BY <1>5, <1>6, <1>7, <1>8, <1>9 DEF Founded

\* A step that forgets what it was about: a failed write, a crash.
LEMMA FoundedForgets ==
    ASSUME ServiceInv, loc'[Service] = Start, pc'[Service] \in {"monitor", "idle"},
           pc'[Service] = "monitor" => Observing(Service),
           targets'[Service] \in {targets[Service], NoTargets},
           \A path \in Paths : pending'[Service][path] \in {pending[Service][path], None},
           UNCHANGED <<owned, identityVars>>
    PROVE  Founded'
<1>1. /\ KnowsOwned /\ MismatchesAreCurrent /\ DecidesOnMeta /\ TargetsAreClear
  BY DEF ServiceInv, Founded
<1>2. Start.writes = <<>> /\ Start.id = None /\ DOMAIN Start.ids = {}
  BY DEF Start, NoIds
<1>3. Queued(Service)' = {} /\ WritesAreFounded'
  BY <1>2, NoQueue
<1>4. KnowsOwned'
  BY <1>1, <1>2, <1>3 DEF KnowsOwned, identityVars
<1>5. MismatchesAreCurrent'
  BY <1>1, <1>3 DEF MismatchesAreCurrent, Against, identityVars
<1>6. DecidesOnMeta'
  <2>1. pc'[Service] = "monitor" => meta.enrolled # Legacy
    BY <1>1 DEF DecidesOnMeta, Observing, At
  <2> QED BY <1>2, <2>1 DEF DecidesOnMeta, At, identityVars
<1>7. TargetsAreClear'
  <2>1. ~Deciding(Service)' /\ (Observing(Service)' => pc'[Service] = "monitor")
    BY DEF Deciding, Observing, At
  <2>0. PICK act : act = targets'[Service].action
    OBVIOUS
  <2>2. ASSUME Observing(Service)', act # None
        PROVE  quarantine'[act] = None /\ pending'[Service][act] = None
    <3>1. NoTargets.action = None
      BY DEF NoTargets, Targets
    <3>2. Observing(Service) /\ targets'[Service] = targets[Service]
      BY <2>0, <2>1, <2>2, <3>1
    <3>3. quarantine[act] = None /\ pending[Service][act] = None
      BY <1>1, <2>0, <2>2, <3>2 DEF TargetsAreClear, NoMismatch
    <3>4. act \in Paths
      BY <2>0, <2>2, <3>2, ServiceIsAProcess DEF ServiceInv, Shape, TypeOK, TargetsType
    <3> QED BY <3>3, <3>4 DEF identityVars
  <2> QED BY <1>3, <2>0, <2>1, <2>2 DEF TargetsAreClear, NoMismatch
<1> QED BY <1>3, <1>4, <1>5, <1>6, <1>7 DEF Founded

LEMMA FoundedLookAtAction ==
    ASSUME ServiceInv, LookAtAction(Service)
    PROVE  Founded'
<1>0. Shape /\ TypeOK /\ Service \in Procs /\ owned \subseteq Modems
  BY ServiceIsAProcess DEF ServiceInv, Shape, TypeOK
<1> DEFINE act == targets[Service].action
           e == meta.enrolled
<1>1. /\ pc[Service] = "look" /\ pc'[Service] \in {"lookRuntime", "write"}
      /\ loc'[Service].next = "lookRuntime"
      /\ loc'[Service].id = loc[Service].id /\ loc'[Service].ids = loc[Service].ids
      /\ UNCHANGED <<owned, meta, quarantine>>
  BY <1>0, LookAtActionFacts
<1>2. \/ loc'[Service].writes = <<>> /\ UNCHANGED <<targets, pending>>
      \/ /\ act \in Paths /\ e \in Fingerprints
         /\ loc'[Service].writes = <<Mark(act, e)>>
         /\ targets'[Service].action = None
         /\ \A i \in Paths : pending'[Service][i] = IF i = act THEN e ELSE pending[Service][i]
      \/ \E id \in owned : /\ e = None /\ loc'[Service].writes = <<Enroll(id)>>
                           /\ UNCHANGED <<targets, pending>>
  BY <1>0, LookAtActionFacts
<1>3. /\ KnowsOwned /\ MismatchesAreCurrent /\ DecidesOnMeta /\ TargetsAreClear
  BY DEF ServiceInv, Founded
<1>4. e # Legacy
  BY <1>1, <1>3 DEF DecidesOnMeta, At
<1>5. DecidesOnMeta'
  BY <1>1, <1>4 DEF DecidesOnMeta, At
<1>6. act # None => NoMismatch(act)
  BY <1>1, <1>3 DEF TargetsAreClear, Observing, At
<1>7. \A i \in DOMAIN loc'[Service].ids : loc'[Service].ids[i] \in owned \cup {None}
  BY <1>1, <1>3 DEF KnowsOwned
<1>8. ~Deciding(Service)'
  BY <1>1 DEF Deciding, At
<1>9. \A path \in Paths : Against(quarantine[path]) /\ Against(pending[Service][path])
  BY <1>3 DEF MismatchesAreCurrent
<1>10. CASE loc'[Service].writes = <<>> /\ UNCHANGED <<targets, pending>>
  <2>1. Queued(Service)' = {} /\ WritesAreFounded'
    BY <1>10, NoQueue
  <2>2. KnowsOwned'
    BY <1>1, <1>3, <1>7, <2>1 DEF KnowsOwned
  <2>3. MismatchesAreCurrent'
    BY <1>1, <1>9, <1>10, <2>1 DEF MismatchesAreCurrent, Against
  <2>4. TargetsAreClear'
    BY <1>1, <1>6, <1>8, <1>10, <2>1 DEF TargetsAreClear, NoMismatch
  <2> QED BY <1>5, <2>1, <2>2, <2>3, <2>4 DEF Founded
<1>11. CASE /\ act \in Paths /\ e \in Fingerprints
            /\ loc'[Service].writes = <<Mark(act, e)>>
            /\ targets'[Service].action = None
            /\ \A i \in Paths : pending'[Service][i] = IF i = act THEN e
                                                       ELSE pending[Service][i]
  <2>1. DOMAIN loc'[Service].writes = {1} /\ loc'[Service].writes[1] = Mark(act, e)
    BY <1>11
  <2>2. Queued(Service)' = {Mark(act, e)}
    BY <2>1 DEF Queued
  <2>3. KnowsOwned'
    BY <1>1, <1>3, <1>7, <2>2, OpsDiffer DEF KnowsOwned
  <2>4. MismatchesAreCurrent'
    <3>1. \A w \in Queued(Service)' : w.id = e
      BY <2>2, OpsDiffer
    <3> QED BY <1>1, <1>4, <1>9, <1>11, <3>1 DEF MismatchesAreCurrent, Against
  <2>5. WritesAreFounded'
    BY <2>1, OpsDiffer DEF WritesAreFounded
  <2>6. TargetsAreClear'
    BY <1>8, <1>11 DEF TargetsAreClear
  <2> QED BY <1>5, <2>3, <2>4, <2>5, <2>6 DEF Founded
<1>12. ASSUME NEW id \in owned, e = None, loc'[Service].writes = <<Enroll(id)>>,
              UNCHANGED <<targets, pending>>
       PROVE  Founded'
  <2>1. /\ DOMAIN loc'[Service].writes = {1} /\ loc'[Service].writes[1] = Enroll(id)
        /\ Len(loc'[Service].writes) = 1
    BY <1>12
  <2>2. Queued(Service)' = {Enroll(id)}
    BY <2>1 DEF Queued
  <2>3. KnowsOwned'
    BY <1>1, <1>3, <1>7, <2>2, OpsDiffer DEF KnowsOwned
  <2>4. MismatchesAreCurrent'
    BY <1>1, <1>9, <1>12, <2>2, OpsDiffer DEF MismatchesAreCurrent, Against
  <2>5. WritesAreFounded'
    BY <1>1, <1>12, <2>1, OpsDiffer DEF WritesAreFounded, At
  <2>6. TargetsAreClear'
    BY <1>1, <1>6, <1>8, <1>12, <2>2, OpsDiffer DEF TargetsAreClear, NoMismatch
  <2> QED BY <1>5, <2>3, <2>4, <2>5, <2>6 DEF Founded
<1> QED BY <1>2, <1>10, <1>11, <1>12

LEMMA FoundedLookAtRuntime ==
    ASSUME ServiceInv, LookAtRuntime(Service)
    PROVE  Founded'
<1>0. Shape /\ TypeOK /\ Service \in Procs /\ owned \subseteq Modems /\ Local \notin Modems
  BY ServiceIsAProcess, IdentityStoreAssumption DEF ServiceInv, Shape, TypeOK
<1> DEFINE run == targets[Service].runtime
           act == targets[Service].action
           e == meta.enrolled
<1>1. /\ pc[Service] = "lookRuntime" /\ pc'[Service] \in {"monitor", "write"}
      /\ loc'[Service].next = "monitor" /\ run \in Paths
      /\ loc'[Service].id = loc[Service].id /\ loc'[Service].ids = loc[Service].ids
      /\ UNCHANGED <<owned, meta, quarantine>>
  BY <1>0, LookAtRuntimeFacts
<1>2. \/ loc'[Service].writes = <<>> /\ UNCHANGED <<targets, pending>>
      \/ \E id \in owned :
           /\ e \in Fingerprints
           /\ loc'[Service].writes = <<Mark(run, e), Ensure(id), ObserveRuntime(id)>>
           /\ targets'[Service].action = None
           /\ \A i \in Paths : pending'[Service][i] = IF i = run THEN e
                                                      ELSE pending[Service][i]
      \/ \E id \in owned : /\ e = None /\ loc'[Service].writes = <<Enroll(id)>>
                           /\ UNCHANGED <<targets, pending>>
      \/ \E id \in owned : /\ loc'[Service].writes = <<Ensure(id), ObserveRuntime(id)>>
                           /\ UNCHANGED <<targets, pending>>
  BY <1>0, LookAtRuntimeFacts
<1>3. /\ KnowsOwned /\ MismatchesAreCurrent /\ DecidesOnMeta /\ TargetsAreClear
  BY DEF ServiceInv, Founded
<1>4. e # Legacy
  BY <1>1, <1>3 DEF DecidesOnMeta, At
<1>5. DecidesOnMeta'
  BY <1>1, <1>4 DEF DecidesOnMeta, At
<1>6. act # None => NoMismatch(act)
  BY <1>1, <1>3 DEF TargetsAreClear, Observing, At
<1>7. \A i \in DOMAIN loc'[Service].ids : loc'[Service].ids[i] \in owned \cup {None}
  BY <1>1, <1>3 DEF KnowsOwned
<1>8. ~Deciding(Service)' /\ ~At(Service, {"idle", "meta", "list"})'
  BY <1>1 DEF Deciding, At
<1>9. \A path \in Paths : Against(quarantine[path]) /\ Against(pending[Service][path])
  BY <1>3 DEF MismatchesAreCurrent
<1>10. CASE loc'[Service].writes = <<>> /\ UNCHANGED <<targets, pending>>
  <2>1. Queued(Service)' = {} /\ WritesAreFounded'
    BY <1>10, NoQueue
  <2>2. KnowsOwned'
    BY <1>1, <1>3, <1>7, <2>1 DEF KnowsOwned
  <2>3. MismatchesAreCurrent'
    BY <1>1, <1>9, <1>10, <2>1 DEF MismatchesAreCurrent, Against
  <2>4. TargetsAreClear'
    BY <1>1, <1>6, <1>8, <1>10, <2>1 DEF TargetsAreClear, NoMismatch
  <2> QED BY <1>5, <2>1, <2>2, <2>3, <2>4 DEF Founded
<1>11. ASSUME NEW id \in owned, e \in Fingerprints,
              loc'[Service].writes = <<Mark(run, e), Ensure(id), ObserveRuntime(id)>>,
              targets'[Service].action = None,
              \A i \in Paths : pending'[Service][i] = IF i = run THEN e
                                                      ELSE pending[Service][i]
       PROVE  Founded'
  <2>1. /\ DOMAIN loc'[Service].writes = {1, 2, 3} /\ loc'[Service].writes[1] = Mark(run, e)
        /\ loc'[Service].writes[2] = Ensure(id)
        /\ loc'[Service].writes[3] = ObserveRuntime(id)
    BY <1>11
  <2>2. \A i \in DOMAIN loc'[Service].writes :
          LET w == loc'[Service].writes[i]
          IN  /\ w.op \in {"mark", "ensure", "observe"} /\ w # Ensure(Local)
              /\ w.op = "mark" => w.id = e
              /\ w.op \in {"ensure", "observe"} => w.id \in owned
    <3>1. Mark(run, e) # Ensure(Local) /\ Ensure(id) # Ensure(Local)
          /\ ObserveRuntime(id) # Ensure(Local)
      BY <1>0, OpsDiffer
    <3>2. ASSUME NEW i \in DOMAIN loc'[Service].writes PROVE i = 1 \/ i = 2 \/ i = 3
      BY <2>1
    <3> QED BY <2>1, <3>1, <3>2, OpsDiffer
  <2>3. \A w \in Queued(Service)' :
          /\ w.op = "mark" => w.id = e
          /\ w.op \in {"enroll", "ensure", "observe"} => w.id \in owned
    BY <2>2 DEF Queued
  <2>4. KnowsOwned'
    BY <1>1, <1>3, <1>7, <2>3 DEF KnowsOwned
  <2>5. MismatchesAreCurrent'
    BY <1>1, <1>4, <1>9, <1>11, <2>3 DEF MismatchesAreCurrent, Against
  <2>6. WritesAreFounded'
    BY <1>8, <2>2 DEF WritesAreFounded
  <2>7. TargetsAreClear'
    BY <1>8, <1>11 DEF TargetsAreClear
  <2> QED BY <1>5, <2>4, <2>5, <2>6, <2>7 DEF Founded
<1>12. ASSUME NEW id \in owned, e = None, loc'[Service].writes = <<Enroll(id)>>,
              UNCHANGED <<targets, pending>>
       PROVE  Founded'
  <2>1. /\ DOMAIN loc'[Service].writes = {1} /\ loc'[Service].writes[1] = Enroll(id)
        /\ Len(loc'[Service].writes) = 1
    BY <1>12
  <2>2. Queued(Service)' = {Enroll(id)}
    BY <2>1 DEF Queued
  <2>3. KnowsOwned'
    BY <1>1, <1>3, <1>7, <2>2, OpsDiffer DEF KnowsOwned
  <2>4. MismatchesAreCurrent'
    BY <1>1, <1>9, <1>12, <2>2, OpsDiffer DEF MismatchesAreCurrent, Against
  <2>5. WritesAreFounded'
    BY <1>1, <1>8, <1>12, <2>1, OpsDiffer DEF WritesAreFounded
  <2>6. TargetsAreClear'
    BY <1>1, <1>6, <1>8, <1>12, <2>2, OpsDiffer DEF TargetsAreClear, NoMismatch
  <2> QED BY <1>5, <2>3, <2>4, <2>5, <2>6 DEF Founded
<1>13. ASSUME NEW id \in owned, loc'[Service].writes = <<Ensure(id), ObserveRuntime(id)>>,
              UNCHANGED <<targets, pending>>
       PROVE  Founded'
  <2>1. /\ DOMAIN loc'[Service].writes = {1, 2} /\ loc'[Service].writes[1] = Ensure(id)
        /\ loc'[Service].writes[2] = ObserveRuntime(id)
    BY <1>13
  <2>2. \A i \in DOMAIN loc'[Service].writes :
          LET w == loc'[Service].writes[i]
          IN  w.op \in {"ensure", "observe"} /\ w # Ensure(Local) /\ w.id \in owned
    <3>1. Ensure(id) # Ensure(Local) /\ ObserveRuntime(id) # Ensure(Local)
      BY <1>0, OpsDiffer
    <3>2. ASSUME NEW i \in DOMAIN loc'[Service].writes PROVE i = 1 \/ i = 2
      BY <2>1
    <3> QED BY <2>1, <3>1, <3>2, OpsDiffer
  <2>3. \A w \in Queued(Service)' : w.op \in {"ensure", "observe"} /\ w.id \in owned
    BY <2>2 DEF Queued
  <2>4. KnowsOwned'
    BY <1>1, <1>3, <1>7, <2>3 DEF KnowsOwned
  <2>5. MismatchesAreCurrent'
    BY <1>1, <1>9, <1>13, <2>3 DEF MismatchesAreCurrent, Against
  <2>6. WritesAreFounded'
    BY <1>8, <2>2 DEF WritesAreFounded
  <2>7. TargetsAreClear'
    BY <1>1, <1>6, <1>8, <1>13, <2>3 DEF TargetsAreClear, NoMismatch
  <2> QED BY <1>5, <2>4, <2>5, <2>6, <2>7 DEF Founded
<1> QED BY <1>2, <1>10, <1>11, <1>12, <1>13

\* What one write of the service changes, and what is left to write.
LEMMA ServiceWrites ==
    ASSUME ServiceInv, Write(Service), NEW ws, ws = loc[Service].writes,
           NEW w, w = Head(ws), NEW rest, rest = Tail(ws)
    PROVE  /\ w \in WriteType /\ w \in Queued(Service) /\ meta \in MetaType
           /\ meta' = MetaAfter(meta, w)
           /\ w.op = "enroll" => /\ meta.enrolled = None /\ DOMAIN rest = {}
                                 /\ meta'.enrolled = w.id /\ meta'.runtime = meta.runtime
           /\ w.op = "observe" => meta'.enrolled = meta.enrolled /\ meta'.runtime = w.id
           /\ w.op \in {"mark", "clear", "ensure"} =>
                meta'.enrolled = meta.enrolled /\ meta'.runtime = meta.runtime
           /\ w.op \in {"enroll", "observe"} => w.id \in owned
           /\ w.op = "clear" => meta.enrolled \in {None, seen[Service][w.path]}
           /\ w.op = "ensure" => w.id \in owned \/ (meta.enrolled = None /\ meta.runtime = None)
           /\ At(Service, {"idle", "meta", "list"}) => w.op = "mark"
           /\ \A j \in DOMAIN rest : /\ rest[j] \in Queued(Service) /\ rest[j].op # "clear"
                                     /\ rest[j] # Ensure(Local)
                                     /\ rest[j].op = "enroll" => j = Len(rest)
                                     /\ At(Service, {"idle", "meta", "list"}) =>
                                          rest[j].op = "mark"
           /\ \A path \in Paths :
                /\ quarantine'[path] = IF w.op = "mark" /\ path = w.path THEN w.id
                                       ELSE IF w.op = "clear" /\ path = w.path THEN None
                                       ELSE quarantine[path]
                /\ pending'[Service][path] \in {pending[Service][path], None}
                /\ w.op = "clear" /\ path = w.path => pending'[Service][path] = None
           /\ UNCHANGED <<targets, seen, owned>>
<1>0. Shape /\ TypeOK /\ Service \in Procs /\ owned \subseteq Modems
  BY ServiceIsAProcess DEF ServiceInv, Shape, TypeOK
<1>1. meta \in MetaType /\ quarantine \in QuarantineType
  BY <1>0 DEF TypeOK, IdentityTypeOK, QuarantineType
<1>2. /\ ws \in Seq(WriteType) /\ ws # <<>> /\ w \in WriteType /\ rest \in Seq(WriteType)
      /\ meta' = MetaAfter(meta, w) /\ quarantine' = QuarantineAfter(quarantine, w)
      /\ UNCHANGED <<targets, seen, owned>>
      /\ \A path \in Paths : pending'[Service][path] =
           IF Settles(Service, w) /\ path = w.path THEN None ELSE pending[Service][path]
  BY <1>0, WriteStepFacts
<1>3. KnowsOwned /\ WritesAreFounded
  BY DEF ServiceInv, Founded
<1>4. /\ 1 \in DOMAIN ws /\ ws[1] = w
      /\ \A j \in DOMAIN rest : j \in Nat \ {0} /\ j + 1 \in DOMAIN ws /\ rest[j] = ws[j + 1]
      /\ Len(rest) = Len(ws) - 1 /\ Len(ws) \in Nat \ {0}
  BY <1>2, QueueFacts
<1>5. \A i \in DOMAIN ws :
          /\ ws[i].op = "enroll" => meta.enrolled = None /\ i = Len(ws)
          /\ ws[i].op = "clear" => i = 1 /\ meta.enrolled \in {None, seen[Service][ws[i].path]}
          /\ ws[i] = Ensure(Local) => i = 1 /\ meta.enrolled = None /\ meta.runtime = None
          /\ At(Service, {"idle", "meta", "list"}) => ws[i].op = "mark"
  BY <1>3 DEF WritesAreFounded
<1>6. \A i \in DOMAIN ws : ws[i] \in Queued(Service)
  BY DEF Queued
<1>7. \A x \in Queued(Service) : x.op \in {"enroll", "ensure", "observe"} =>
        x.id \in owned \cup {Local}
  BY <1>3 DEF KnowsOwned
<1>8. w.op = "enroll" => /\ meta.enrolled = None /\ DOMAIN rest = {}
                         /\ meta'.enrolled = w.id /\ meta'.runtime = meta.runtime
  <2>1. ASSUME w.op = "enroll" PROVE meta.enrolled = None /\ DOMAIN rest = {}
    <3>1. meta.enrolled = None /\ 1 = Len(ws)
      BY <1>4, <1>5, <2>1
    <3>2. Len(rest) = 0
      BY <1>4, <3>1
    <3>3. rest = <<>>
      BY <1>2, <3>2
    <3> QED BY <3>1, <3>3
  <2> QED BY <1>1, <1>2, <2>1, MetaStep
<1>9. /\ w.op = "observe" => meta'.enrolled = meta.enrolled /\ meta'.runtime = w.id
      /\ w.op \in {"mark", "clear", "ensure"} =>
                meta'.enrolled = meta.enrolled /\ meta'.runtime = meta.runtime
  BY <1>1, <1>2, MetaStep
<1>10. w.op \in {"enroll", "observe"} => w.id \in owned
  <2>1. w.op \in {"enroll", "observe"} => w.id \in Modems /\ w.id # Local
    BY <1>2, WriteFacts, IdentityStoreAssumption
  <2> QED BY <1>4, <1>6, <1>7, <2>1
<1>11. w.op = "clear" => meta.enrolled \in {None, seen[Service][w.path]}
  BY <1>4, <1>5
<1>12. w.op = "ensure" => w.id \in owned \/ (meta.enrolled = None /\ meta.runtime = None)
  <2>1. w.op = "ensure" => w = Ensure(w.id) /\ w.id \in owned \cup {Local}
    BY <1>2, <1>4, <1>6, <1>7, WriteFacts
  <2> QED BY <1>4, <1>5, <2>1
<1>13. \A j \in DOMAIN rest : /\ rest[j] \in Queued(Service) /\ rest[j].op # "clear"
                              /\ rest[j] # Ensure(Local)
                              /\ rest[j].op = "enroll" => j = Len(rest)
                              /\ At(Service, {"idle", "meta", "list"}) => rest[j].op = "mark"
  <2>1. ASSUME NEW j \in DOMAIN rest
        PROVE  /\ rest[j] \in Queued(Service) /\ rest[j].op # "clear"
               /\ rest[j] # Ensure(Local)
               /\ rest[j].op = "enroll" => j = Len(rest)
               /\ At(Service, {"idle", "meta", "list"}) => rest[j].op = "mark"
    <3>1. j \in Nat /\ j + 1 # 1 /\ j + 1 \in DOMAIN ws /\ rest[j] = ws[j + 1]
      BY <1>4
    <3> QED BY <1>4, <1>5, <1>6, <3>1
  <2> QED BY <2>1
<1>14. \A path \in Paths :
         /\ quarantine'[path] = IF w.op = "mark" /\ path = w.path THEN w.id
                                ELSE IF w.op = "clear" /\ path = w.path THEN None
                                ELSE quarantine[path]
         /\ pending'[Service][path] \in {pending[Service][path], None}
         /\ w.op = "clear" /\ path = w.path => pending'[Service][path] = None
  <2>1. w.op = "clear" => Settles(Service, w)
    BY DEF Settles
  <2>2. \A path \in Paths : quarantine'[path] =
          IF w.op = "mark" /\ path = w.path THEN w.id
          ELSE IF w.op = "clear" /\ path = w.path THEN None
          ELSE quarantine[path]
    BY <1>1, <1>2, QuarantineStep
  <2>3. \A path \in Paths :
          /\ pending'[Service][path] \in {pending[Service][path], None}
          /\ w.op = "clear" /\ path = w.path => pending'[Service][path] = None
    BY <1>2, <2>1
  <2> QED BY <2>2, <2>3
<1>15. w \in Queued(Service) /\ (At(Service, {"idle", "meta", "list"}) => w.op = "mark")
  BY <1>4, <1>5, <1>6
<1> QED BY <1>1, <1>2, <1>8, <1>9, <1>10, <1>11, <1>12, <1>13, <1>14, <1>15

LEMMA FoundedWrite ==
    ASSUME ServiceInv, Write(Service)
    PROVE  Founded'
<1>1. PICK ws, w, rest : ws = loc[Service].writes /\ w = Head(ws) /\ rest = Tail(ws)
  OBVIOUS
<1>2. /\ w \in WriteType /\ w \in Queued(Service)
      /\ w.op = "enroll" => /\ meta.enrolled = None /\ DOMAIN rest = {}
                            /\ meta'.enrolled = w.id /\ meta'.runtime = meta.runtime
      /\ w.op = "observe" => meta'.enrolled = meta.enrolled /\ meta'.runtime = w.id
      /\ w.op \in {"mark", "clear", "ensure"} =>
           meta'.enrolled = meta.enrolled /\ meta'.runtime = meta.runtime
      /\ w.op \in {"enroll", "observe"} => w.id \in owned
      /\ At(Service, {"idle", "meta", "list"}) => w.op = "mark"
      /\ \A j \in DOMAIN rest : /\ rest[j] \in Queued(Service) /\ rest[j].op # "clear"
                                /\ rest[j] # Ensure(Local)
                                /\ rest[j].op = "enroll" => j = Len(rest)
                                /\ At(Service, {"idle", "meta", "list"}) =>
                                     rest[j].op = "mark"
      /\ \A path \in Paths :
           /\ quarantine'[path] = IF w.op = "mark" /\ path = w.path THEN w.id
                                  ELSE IF w.op = "clear" /\ path = w.path THEN None
                                  ELSE quarantine[path]
           /\ pending'[Service][path] \in {pending[Service][path], None}
           /\ w.op = "clear" /\ path = w.path => pending'[Service][path] = None
      /\ UNCHANGED <<targets, seen, owned>>
  BY <1>1, ServiceWrites
<1>3. /\ Service \in Procs /\ Shape /\ TypeOK /\ owned \subseteq Modems /\ Legacy \notin Modems
      /\ None \notin Modems /\ loc[Service] \in LocType
  BY ServiceIsAProcess, IdentityStoreAssumption DEF ServiceInv, Shape, TypeOK
<1>4. /\ pc[Service] = "write" /\ loc[Service].next \in WriteNext /\ ws # <<>>
      /\ pc'[Service] = IF rest = <<>> THEN loc[Service].next ELSE "write"
      /\ loc'[Service].writes = rest /\ loc'[Service].next = loc[Service].next
      /\ loc'[Service].enrolled = loc[Service].enrolled
      /\ loc'[Service].runtime = loc[Service].runtime
      /\ loc'[Service].id = loc[Service].id /\ loc'[Service].mismatch = loc[Service].mismatch
      /\ loc'[Service].ids = loc[Service].ids /\ loc'[Service].choice = loc[Service].choice
  BY <1>1, <1>3, WriteStepFacts
<1>5. w.op \in {"mark", "clear", "enroll", "ensure", "observe"}
  BY <1>2, WriteFacts
<1>6. /\ KnowsOwned /\ MismatchesAreCurrent /\ DecidesOnMeta /\ TargetsAreClear
  BY DEF ServiceInv, Founded
<1>7. Queued(Service)' = {rest[j] : j \in DOMAIN rest} /\ Queued(Service)' \subseteq Queued(Service)
  BY <1>2, <1>4 DEF Queued
<1>8. KnowsOwned'
  <2>1. meta'.enrolled \in owned \cup {None, Legacy} /\ meta'.runtime \in owned \cup {None}
    BY <1>2, <1>5, <1>6 DEF KnowsOwned
  <2>2. \A i \in DOMAIN loc'[Service].ids : loc'[Service].ids[i] \in owned \cup {None}
    BY <1>4, <1>6 DEF KnowsOwned
  <2>3. \A x \in Queued(Service)' : x.op \in {"enroll", "ensure", "observe"} =>
          x.id \in owned \cup {Local}
    BY <1>6, <1>7 DEF KnowsOwned
  <2> QED BY <1>2, <1>4, <1>6, <2>1, <2>2, <2>3 DEF KnowsOwned
<1>9. MismatchesAreCurrent'
  <2>1. \A path \in Paths : Against(quarantine[path]) /\ Against(pending[Service][path])
    BY <1>6 DEF MismatchesAreCurrent
  <2>2. \A x \in Queued(Service) : x.op = "mark" => Against(x.id)
    BY <1>6 DEF MismatchesAreCurrent
  <2>3. CASE w.op = "enroll"
    <3>1. Queued(Service)' = {}
      BY <1>2, <1>7, <2>3
    <3>2. \A path \in Paths : quarantine[path] = None /\ pending[Service][path] = None
      BY <1>2, <2>1, <2>3 DEF Against
    <3> QED BY <1>2, <2>3, <3>1, <3>2 DEF MismatchesAreCurrent, Against
  <2>4. CASE w.op # "enroll"
    <3>1. meta'.enrolled = meta.enrolled
      BY <1>2, <1>5, <2>4
    <3> QED BY <1>2, <1>7, <2>1, <2>2, <3>1 DEF MismatchesAreCurrent, Against
  <2> QED BY <2>3, <2>4
<1>10. /\ ~At(Service, {"idle", "meta"})' => ~At(Service, {"idle", "meta"})
       /\ At(Service, {"probe", "judge", "list", "scan"})' => At(Service, {"list"})
       /\ ~At(Service, {"judge"})' /\ ~At(Service, {"scan"})'
       /\ At(Service, {"meta", "probe", "judge", "list"})' => At(Service, {"meta", "list"})
       /\ At(Service, {"list", "scan"})' => At(Service, {"list"})
       /\ At(Service, {"idle", "meta", "list"})' => At(Service, {"idle", "meta", "list"})
       /\ Observing(Service)' => Observing(Service)
       /\ Deciding(Service)' => Deciding(Service)
  BY <1>4 DEF At, Observing, Deciding, WriteNext
<1>11. DecidesOnMeta'
  <2>1. ~At(Service, {"idle", "meta"})' => meta'.enrolled # Legacy
    <3>1. ~At(Service, {"idle", "meta"})' => meta.enrolled # Legacy
      BY <1>6, <1>10 DEF DecidesOnMeta
    <3> QED BY <1>2, <1>3, <1>5, <3>1
  <2>2. At(Service, {"list"}) => /\ loc[Service].enrolled = meta.enrolled
                                 /\ loc[Service].runtime = meta.runtime
                                 /\ w.op = "mark" /\ loc[Service].mismatch
    <3>1. At(Service, {"list"}) =>
            /\ At(Service, {"probe", "judge", "list", "scan"})
            /\ At(Service, {"idle", "meta", "list"}) /\ At(Service, {"list", "scan"})
      BY DEF At
    <3> QED BY <1>1, <1>2, <1>3, <1>4, <1>6, <3>1, LocFacts DEF DecidesOnMeta
  <2>3. At(Service, {"meta", "list"}) => DOMAIN loc[Service].ids = {}
    BY <1>6 DEF DecidesOnMeta, At
  <2>4. At(Service, {"probe", "judge", "list", "scan"})' =>
          loc'[Service].enrolled = meta'.enrolled /\ loc'[Service].runtime = meta'.runtime
    BY <1>2, <1>4, <1>10, <2>2
  <2>5. At(Service, {"list", "scan"})' => loc'[Service].mismatch
    BY <1>4, <1>10, <2>2
  <2>6. At(Service, {"meta", "probe", "judge", "list"})' => DOMAIN loc'[Service].ids = {}
    BY <1>4, <1>10, <2>3
  <2> QED BY <1>10, <2>1, <2>4, <2>5, <2>6 DEF DecidesOnMeta
<1>12. WritesAreFounded'
  <2>1. ASSUME NEW j \in DOMAIN rest, rest[j].op = "enroll"
        PROVE  meta'.enrolled = None /\ j = Len(rest)
    <3>1. w.op # "enroll"
      BY <1>2, <2>1
    <3>2. meta'.enrolled = meta.enrolled
      BY <1>2, <1>5, <3>1
    <3>3. meta.enrolled = None
      <4>1. PICK i \in DOMAIN ws : ws[i] = rest[j]
        BY <1>1, <1>2, <2>1 DEF Queued
      <4> QED BY <1>1, <2>1, <4>1 DEF ServiceInv, Founded, WritesAreFounded
    <3> QED BY <1>2, <2>1, <3>2, <3>3
  <2> QED BY <1>2, <1>4, <1>10, <2>1 DEF WritesAreFounded
<1>13. TargetsAreClear'
  <2>1. PICK act, choice : act = targets[Service].action /\ choice = loc[Service].choice.action
    OBVIOUS
  <2>2. act \in Paths \cup {None} /\ choice \in Paths \cup {None}
    <3>1. targets[Service] \in TargetsType /\ loc[Service].choice \in TargetsType
      BY <1>3, LocFacts DEF TypeOK
    <3> QED BY <2>1, <3>1 DEF TargetsType
  <2>3. targets'[Service].action = act /\ loc'[Service].choice.action = choice
    BY <1>2, <1>4, <2>1
  <2>4. ASSUME Observing(Service)', act # None
        PROVE  /\ quarantine'[act] = None /\ pending'[Service][act] = None
               /\ \A x \in Queued(Service)' : x.op = "mark" => x.path # act
    <3>1. /\ quarantine[act] = None /\ pending[Service][act] = None
          /\ \A x \in Queued(Service) : x.op = "mark" => x.path # act
      BY <1>6, <1>10, <2>1, <2>4 DEF TargetsAreClear, NoMismatch
    <3> QED BY <1>2, <1>7, <2>2, <2>4, <3>1
  <2>5. ASSUME Deciding(Service)'
        PROVE  /\ \A x \in Queued(Service)' : x.op # "mark"
               /\ choice # None => quarantine'[choice] = None /\ pending'[Service][choice] = None
    <3>1. /\ \A x \in Queued(Service) : x.op # "mark"
          /\ \/ choice = None
             \/ quarantine[choice] = None /\ pending[Service][choice] = None
             \/ w = Clear(choice)
      BY <1>1, <1>6, <1>10, <2>1, <2>5 DEF TargetsAreClear, NoMismatch
    <3>2. w = Clear(choice) => w.op = "clear" /\ w.path = choice
      BY OpsDiffer
    <3> QED BY <1>2, <1>7, <2>2, <3>1, <3>2
  <2> QED BY <2>3, <2>4, <2>5 DEF TargetsAreClear, NoMismatch
<1> QED BY <1>8, <1>9, <1>11, <1>12, <1>13 DEF Founded

LEMMA FoundedStep ==
    ASSUME Clis = {}
    PROVE  ServiceInv /\ [Next]_vars => ServiceInv'
<1> SUFFICES ASSUME ServiceInv, [Next]_vars PROVE ServiceInv'
  OBVIOUS
<1>0. Shape /\ Shape' /\ Founded /\ Service \in Procs
  BY ShapeStep, ServiceIsAProcess DEF ServiceInv
<1>1. CASE UNCHANGED vars
  BY <1>0, <1>1, FoundedStutters DEF vars, ServiceInv
<1>2. ASSUME NEW m \in Modems, Move(m) PROVE ServiceInv'
  BY <1>0, <1>2, MoveFacts, FoundedStutters DEF ServiceInv
<1>3. ASSUME Resolve(Service) \/ Observe(Service) \/ LoseMonitor(Service)
             \/ WriteFails(Service) \/ Crash(Service)
      PROVE  ServiceInv'
  <2>1. CASE BeginResolve(Service) \/ LoseMonitor(Service)
    <3>1. Retries(Service, "meta")
      BY <1>0, <2>1, RetrySteps
    <3> QED BY <1>0, <3>1, FoundedRetries DEF ServiceInv
  <2>2. CASE BeginObserve(Service)
    <3>1. Retries(Service, "look") /\ Observing(Service)
      BY <1>0, <2>2, RetrySteps
    <3> QED BY <1>0, <3>1, FoundedRetries DEF ServiceInv
  <2>3. CASE ReadMeta(Service)
    BY <1>0, <2>3, FoundedReadMeta DEF ServiceInv
  <2>4. CASE ProbeConfigured(Service)
    BY <1>0, <2>4, FoundedProbe DEF ServiceInv
  <2>5. CASE JudgeConfigured(Service)
    BY <1>0, <2>5, FoundedJudge DEF ServiceInv
  <2>6. CASE ListPaths(Service)
    BY <1>0, <2>6, FoundedList DEF ServiceInv
  <2>7. CASE ProbeCandidate(Service)
    BY <1>0, <2>7, FoundedCandidate DEF ServiceInv
  <2>8. CASE Choose(Service)
    BY <1>0, <2>8, FoundedChoose DEF ServiceInv
  <2>9. CASE Publish(Service)
    BY <1>0, <2>9, FoundedPublish DEF ServiceInv
  <2>10. CASE Write(Service)
    BY <1>0, <2>10, FoundedWrite DEF ServiceInv
  <2>11. CASE LookAtAction(Service)
    BY <1>0, <2>11, FoundedLookAtAction DEF ServiceInv
  <2>12. CASE LookAtRuntime(Service)
    BY <1>0, <2>12, FoundedLookAtRuntime DEF ServiceInv
  <2>13. CASE WriteFails(Service)
    <3>1. /\ loc'[Service] = Start /\ pc'[Service] \in {"monitor", "idle"}
          /\ pc'[Service] = "monitor" => Observing(Service)
          /\ targets'[Service] \in {targets[Service], NoTargets}
          /\ UNCHANGED <<owned, pending, identityVars>>
      BY <1>0, <2>13, WriteFailsFacts
    <3> QED BY <1>0, <3>1, FoundedForgets DEF ServiceInv
  <2>14. CASE Crash(Service)
    <3>1. /\ loc'[Service] = Start /\ pc'[Service] \in {"monitor", "idle"}
          /\ pc'[Service] # "monitor"
          /\ targets'[Service] \in {targets[Service], NoTargets}
          /\ \A path \in Paths : pending'[Service][path] \in {pending[Service][path], None}
          /\ UNCHANGED <<owned, identityVars>>
      BY <1>0, <2>14, CrashFacts
    <3> QED BY <1>0, <3>1, FoundedForgets DEF ServiceInv
  <2> QED BY <1>3, <2>1, <2>2, <2>3, <2>4, <2>5, <2>6, <2>7, <2>8, <2>9, <2>10, <2>11,
             <2>12, <2>13, <2>14 DEF Resolve, Observe
<1> QED BY <1>1, <1>2, <1>3, ServiceIsAProcess DEF Next

\* The target of actions has no mismatch, so it is not a quarantined path.
LEMMA ClearNeverActs == Shape /\ TargetsAreClear => QuarantinedNeverActs
<1> SUFFICES ASSUME Shape, TargetsAreClear PROVE QuarantinedNeverActs
  OBVIOUS
<1> QED BY DEF TargetsAreClear, NoMismatch, QuarantinedNeverActs, Observing, At

\* With a service alone on its database, its targets are safe: received
\* messages have a namespace, and control actions (enable, disable, reset) go
\* to no path known to have held another modem than the enrolled one, through
\* moved modems, unreadable identities, failed writes and crashes
\* (resolve_monitor_path, observe_runtime_identity).
THEOREM TargetsSafe ==
    ASSUME Clis = {}
    PROVE  Spec => []TargetsAreSafe
<1>1. Init => ServiceInv /\ NamedInv
  BY InitShape, FoundedInit, NamedInit DEF ServiceInv
<1>2. ServiceInv /\ NamedInv /\ [Next]_vars => (ServiceInv /\ NamedInv)'
  BY FoundedStep, NamedStep
<1>3. ServiceInv /\ NamedInv => TargetsAreSafe
  BY NamedMeaning, ClearNeverActs
     DEF ServiceInv, Founded, NamedInv, Shape, TargetsAreSafe
<1> QED BY <1>1, <1>2, <1>3, PTL DEF Spec

-----------------------------------------------------------------------------
(***************************************************************************)
(* What is remembered of the modem is given up only for cause.             *)
(***************************************************************************)
\* Only a write and the migration of an earlier version change the tables.
LEMMA WhoWrites ==
    ASSUME Clis = {}, ServiceInv, [Next]_vars
    PROVE  \/ UNCHANGED identityVars
           \/ /\ pc[Service] = "meta" /\ meta' = Migrated(meta) /\ quarantine' = quarantine
           \/ Write(Service)
<1>0. Shape
  BY DEF ServiceInv
<1>1. CASE UNCHANGED vars
  BY <1>1 DEF vars
<1>2. ASSUME NEW m \in Modems, Move(m) PROVE UNCHANGED identityVars
  BY <1>0, <1>2, MoveFacts
<1>3. ASSUME Resolve(Service) \/ Observe(Service) \/ LoseMonitor(Service)
             \/ WriteFails(Service) \/ Crash(Service),
             ~Write(Service), ~ReadMeta(Service)
      PROVE  UNCHANGED identityVars
  BY <1>3 DEF Resolve, Observe, BeginResolve, LoseMonitor, BeginObserve, ProbeConfigured,
              JudgeConfigured, ListPaths, ProbeCandidate, Choose, Publish, LookAtAction,
              LookAtRuntime, WriteFails, Crash
<1>4. ASSUME ReadMeta(Service)
      PROVE  pc[Service] = "meta" /\ meta' = Migrated(meta) /\ quarantine' = quarantine
  BY <1>4 DEF ReadMeta
<1> QED BY <1>1, <1>2, <1>3, <1>4, ServiceIsAProcess DEF Next, Resolve

\* The namespace of one modem, after each write and after the migration.
LEMMA NamespaceKept ==
    ASSUME NEW m \in MetaType, NEW n \in MetaType, NEW w \in WriteType, NEW id \in Modems,
           meta = m, meta' = n, n = MetaAfter(m, w),
           m.enrolled \in {None, id}, m.runtime \in {None, id},
           w.op \in {"enroll", "observe"} => w.id = id,
           w.op = "enroll" => m.enrolled = None,
           w.op = "ensure" => w.id = id \/ (m.enrolled = None /\ m.runtime = None),
           DedupeNamespace # None
    PROVE  DedupeNamespace' = DedupeNamespace
<1>0. id # None
  BY IdentityStoreAssumption
<1>1. DedupeNamespace = IF m.namespace # None THEN m.namespace
                        ELSE IF m.enrolled # None THEN m.enrolled ELSE m.runtime
  BY DEF DedupeNamespace
<1>2. DedupeNamespace' = IF n.namespace # None THEN n.namespace
                         ELSE IF n.enrolled # None THEN n.enrolled ELSE n.runtime
  BY DEF DedupeNamespace
<1>3. CASE w.op \in {"mark", "clear"}
  BY <1>1, <1>2, <1>3, MetaStep
<1>4. CASE w.op = "enroll"
  <2>1. n.enrolled = w.id /\ n.runtime = m.runtime /\ n.namespace = m.namespace
    BY <1>4, MetaStep
  <2> QED BY <1>0, <1>1, <1>2, <1>4, <2>1
<1>5. CASE w.op = "observe"
  <2>1. n.enrolled = m.enrolled /\ n.runtime = w.id /\ n.namespace = m.namespace
    BY <1>5, MetaStep
  <2> QED BY <1>0, <1>1, <1>2, <1>5, <2>1
<1>6. CASE w.op = "ensure"
  <2>1. /\ n.enrolled = m.enrolled /\ n.runtime = m.runtime
        /\ n.namespace = IF m.namespace = None THEN w.id ELSE m.namespace
    BY <1>6, MetaStep
  <2> QED BY <1>0, <1>1, <1>2, <1>6, <2>1
<1> QED BY <1>3, <1>4, <1>5, <1>6, WriteFacts

LEMMA NamespaceMigrated ==
    ASSUME NEW m \in MetaType, meta = m, meta' = Migrated(m)
    PROVE  DedupeNamespace' = DedupeNamespace
<1>1. PICK n : n = meta'
  OBVIOUS
<1>2. /\ m.enrolled # Legacy => n = m
      /\ m.enrolled = Legacy => n.namespace = IF m.namespace = None THEN Legacy ELSE m.namespace
  BY <1>1, MigrationStep
<1>3. DedupeNamespace = IF m.namespace # None THEN m.namespace
                        ELSE IF m.enrolled # None THEN m.enrolled ELSE m.runtime
  BY DEF DedupeNamespace
<1>4. DedupeNamespace' = IF n.namespace # None THEN n.namespace
                         ELSE IF n.enrolled # None THEN n.enrolled ELSE n.runtime
  BY <1>1 DEF DedupeNamespace
<1> QED BY <1>2, <1>3, <1>4, IdentityStoreAssumption

LEMMA IdentityStep ==
    ASSUME Clis = {}, ServiceInv, [Next]_vars
    PROVE  ReleasedByIdentity /\ EnrollmentIsStable /\ KeepsNamespace
<1>0. /\ Shape /\ TypeOK /\ meta \in MetaType /\ Service \in Procs /\ owned \subseteq Modems
      /\ Legacy \notin Modems
  BY ServiceIsAProcess, IdentityStoreAssumption
     DEF ServiceInv, Shape, TypeOK, IdentityTypeOK
<1>1. CASE UNCHANGED identityVars
  BY <1>1 DEF identityVars, ReleasedByIdentity, EnrollmentIsStable, KeepsNamespace,
              DedupeNamespace
<1>2. CASE pc[Service] = "meta" /\ meta' = Migrated(meta) /\ quarantine' = quarantine
  <2>1. meta.enrolled # Legacy => meta' = meta
    BY <1>0, <1>2, MigrationStep
  <2>2. PICK m \in MetaType : m = meta
    BY <1>0
  <2>3. DedupeNamespace' = DedupeNamespace
    BY <1>2, <2>2, NamespaceMigrated
  <2> QED BY <1>0, <1>2, <2>1, <2>3 DEF ReleasedByIdentity, EnrollmentIsStable, KeepsNamespace
<1>3. CASE Write(Service)
  <2>1. PICK ws, w, rest : ws = loc[Service].writes /\ w = Head(ws) /\ rest = Tail(ws)
    OBVIOUS
  <2>2. /\ w \in WriteType /\ meta' = MetaAfter(meta, w)
        /\ w.op = "enroll" => meta.enrolled = None
        /\ w.op \in {"mark", "clear", "ensure", "observe"} => meta'.enrolled = meta.enrolled
        /\ w.op \in {"enroll", "observe"} => w.id \in owned
        /\ w.op = "clear" => meta.enrolled \in {None, seen[Service][w.path]}
        /\ w.op = "ensure" => w.id \in owned \/ (meta.enrolled = None /\ meta.runtime = None)
        /\ At(Service, {"idle", "meta", "list"}) => w.op = "mark"
        /\ \A path \in Paths :
             quarantine'[path] = IF w.op = "mark" /\ path = w.path THEN w.id
                                 ELSE IF w.op = "clear" /\ path = w.path THEN None
                                 ELSE quarantine[path]
    BY <1>3, <2>1, ServiceWrites
  <2>3. w.op \in {"mark", "clear", "enroll", "ensure", "observe"}
    BY <2>2, WriteFacts
  <2>4. w.op = "mark" => w.id # None
    BY <2>2, WriteFacts, IdentityStoreAssumption DEF Fingerprints
  <2>5. ReleasedByIdentity
    BY <1>0, <2>2, <2>4 DEF ReleasedByIdentity
  <2>6. EnrollmentIsStable
    <3>1. None \notin Modems
      BY IdentityStoreAssumption
    <3> QED BY <2>2, <2>3, <3>1 DEF EnrollmentIsStable
  <2>7. KeepsNamespace
    <3>1. SUFFICES ASSUME Cardinality(owned) = 1, DedupeNamespace # None
                   PROVE  DedupeNamespace' = DedupeNamespace
      BY DEF KeepsNamespace
    <3>2. PICK m, n : m = meta /\ n = meta'
      OBVIOUS
    <3>3. m \in MetaType /\ n = MetaAfter(m, w) /\ n \in MetaType
      BY <1>0, <2>2, <3>2, MetaStep
    <3>4. PICK id : owned = {id}
      <4>1. IsFiniteSet(owned)
        BY <1>0, FS_Subset, ModemIdentityAssumption DEF TypeOK
      <4> QED BY <3>1, <4>1, FS_Singleton
    <3>5. id \in Modems
      BY <1>0, <3>4
    <3>6. KnowsOwned /\ DecidesOnMeta
      BY DEF ServiceInv, Founded
    <3>7. CASE w.op = "mark"
      BY <1>0, <2>2, <3>7, MetaStep DEF DedupeNamespace
    <3>8. CASE w.op # "mark"
      <4>1. ~At(Service, {"idle", "meta"})
        BY <2>2, <3>8 DEF At
      <4>2. meta.enrolled # Legacy
        BY <3>6, <4>1 DEF DecidesOnMeta
      <4>3. m.enrolled \in {None, id} /\ m.runtime \in {None, id}
        BY <3>2, <3>4, <3>6, <4>2 DEF KnowsOwned
      <4>4. /\ w.op \in {"enroll", "observe"} => w.id = id
            /\ w.op = "enroll" => m.enrolled = None
            /\ w.op = "ensure" => w.id = id \/ (m.enrolled = None /\ m.runtime = None)
        BY <2>2, <3>2, <3>4
      <4> QED BY <2>2, <3>1, <3>2, <3>3, <3>5, <4>3, <4>4, NamespaceKept
    <3> QED BY <3>7, <3>8
  <2> QED BY <2>5, <2>6, <2>7
<1> QED BY <1>1, <1>2, <1>3, WhoWrites

\* With a service alone on its database, a quarantine ends only after the
\* enrolled modem was read at that path, an enrolled modem is never replaced,
\* and with one physical modem the namespace of the dedupe keys never changes,
\* so no message is stored twice after a reconnect (clear_identity_mismatch,
\* migrate_legacy_modem_fingerprint, ensure_modem_dedupe_namespace).
THEOREM IdentityKept ==
    ASSUME Clis = {}
    PROVE  Spec => IdentityIsKept
<1>1. Init => ServiceInv
  BY InitShape, FoundedInit DEF ServiceInv
<1>2. ServiceInv /\ [Next]_vars => ServiceInv'
  BY FoundedStep
<1>3. ServiceInv /\ [Next]_vars =>
        [ReleasedByIdentity /\ EnrollmentIsStable /\ KeepsNamespace]_vars
  BY IdentityStep
<1> QED BY <1>1, <1>2, <1>3, PTL DEF Spec, IdentityIsKept
===========================================================================
