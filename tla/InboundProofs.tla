--------------------------- MODULE InboundProofs ---------------------------
(***************************************************************************)
(* Theorems about module Inbound, for every number of messages, permits,   *)
(* restarts, faults and deletions: the type invariant, that a subscription *)
(* with nothing left to do has missed no message, and, while the dedupe    *)
(* namespace of the database cannot change, that a message is stored once  *)
(* and never in two rows, and that the worker implements InboundPromise.   *)
(***************************************************************************)
EXTENDS Inbound, FiniteSetTheorems, TLAPS

-----------------------------------------------------------------------------
(***************************************************************************)
(* Writes made one after the other.  A resolution makes at most three.     *)
(***************************************************************************)
\* The function that MetaWritten computes with exists, and is the expected one.
LEMMA MetaSteps ==
    ASSUME NEW m, NEW writes, Len(writes) \in 0..3
    PROVE  MetaWritten(m, writes) =
             IF Len(writes) = 0 THEN m
             ELSE IF Len(writes) = 1 THEN MetaAfter(m, writes[1])
             ELSE IF Len(writes) = 2 THEN MetaAfter(MetaAfter(m, writes[1]), writes[2])
             ELSE MetaAfter(MetaAfter(MetaAfter(m, writes[1]), writes[2]), writes[3])
<1> DEFINE N == Len(writes)
           one == MetaAfter(m, writes[1])
           two == MetaAfter(one, writes[2])
           three == MetaAfter(two, writes[3])
           P(f) == f = [n \in 0..N |-> IF n = 0 THEN m
                                       ELSE MetaAfter(f[n - 1], writes[n])]
           g == [n \in 0..N |-> IF n = 0 THEN m ELSE IF n = 1 THEN one
                                ELSE IF n = 2 THEN two ELSE three]
           h == CHOOSE f : P(f)
<1>1. MetaWritten(m, writes) = h[N]
  BY DEF MetaWritten
<1>2. P(g)
  <2> SUFFICES ASSUME NEW n \in 0..N
      PROVE  g[n] = IF n = 0 THEN m ELSE MetaAfter(g[n - 1], writes[n])
    OBVIOUS
  <2>1. n = 0 \/ n = 1 \/ n = 2 \/ n = 3
    <3>1. N \in 0..3
      OBVIOUS
    <3> HIDE DEF N
    <3> QED BY <3>1
  <2>2. n # 0 => n - 1 \in 0..N
    OBVIOUS
  <2>3. CASE n = 0
    BY <2>3
  <2>4. CASE n = 1
    <3>1. g[n] = one /\ g[n - 1] = m
      BY <2>2, <2>4
    <3> QED BY <3>1, <2>4
  <2>5. CASE n = 2
    <3>1. g[n] = two /\ g[n - 1] = one
      BY <2>2, <2>5
    <3> QED BY <3>1, <2>5
  <2>6. CASE n = 3
    <3>1. g[n] = three /\ g[n - 1] = two
      BY <2>2, <2>6
    <3> QED BY <3>1, <2>6
  <2> QED BY <2>1, <2>3, <2>4, <2>5, <2>6
<1>3. P(h)
  BY <1>2
<1> HIDE DEF h
<1>4. \A n \in 0..N : h[n] = IF n = 0 THEN m ELSE MetaAfter(h[n - 1], writes[n])
  BY <1>3
<1>5. h[0] = m
  BY <1>4
<1>6. N >= 1 => h[1] = one
  BY <1>4, <1>5
<1>7. N >= 2 => h[2] = two
  BY <1>4, <1>6
<1>8. N >= 3 => h[3] = three
  BY <1>4, <1>7
<1> QED BY <1>1, <1>5, <1>6, <1>7, <1>8

\* Every write keeps the types of what it changes.
QuarantineType == [Paths -> Fingerprints \cup {None}]

LEMMA QuarantineSteps ==
    ASSUME NEW q \in QuarantineType, NEW writes, Len(writes) \in 0..3,
           \A n \in 1..Len(writes) :
             writes[n].op = "mark" => writes[n].id \in Fingerprints
    PROVE  QuarantineWritten(q, writes) \in QuarantineType
<1> DEFINE N == Len(writes)
           one == QuarantineAfter(q, writes[1])
           two == QuarantineAfter(one, writes[2])
           three == QuarantineAfter(two, writes[3])
           P(f) == f = [n \in 0..N |-> IF n = 0 THEN q
                                       ELSE QuarantineAfter(f[n - 1], writes[n])]
           g == [n \in 0..N |-> IF n = 0 THEN q ELSE IF n = 1 THEN one
                                ELSE IF n = 2 THEN two ELSE three]
           h == CHOOSE f : P(f)
<1>1. QuarantineWritten(q, writes) = h[N]
  BY DEF QuarantineWritten
<1>2. P(g)
  <2> SUFFICES ASSUME NEW n \in 0..N
      PROVE  g[n] = IF n = 0 THEN q ELSE QuarantineAfter(g[n - 1], writes[n])
    OBVIOUS
  <2>1. n = 0 \/ n = 1 \/ n = 2 \/ n = 3
    <3>1. N \in 0..3
      OBVIOUS
    <3> HIDE DEF N
    <3> QED BY <3>1
  <2>2. n # 0 => n - 1 \in 0..N
    OBVIOUS
  <2>3. CASE n = 0
    BY <2>3
  <2>4. CASE n = 1
    <3>1. g[n] = one /\ g[n - 1] = q
      BY <2>2, <2>4
    <3> QED BY <3>1, <2>4
  <2>5. CASE n = 2
    <3>1. g[n] = two /\ g[n - 1] = one
      BY <2>2, <2>5
    <3> QED BY <3>1, <2>5
  <2>6. CASE n = 3
    <3>1. g[n] = three /\ g[n - 1] = two
      BY <2>2, <2>6
    <3> QED BY <3>1, <2>6
  <2> QED BY <2>1, <2>3, <2>4, <2>5, <2>6
<1>3. P(h)
  BY <1>2
<1> HIDE DEF h
<1>4. \A n \in 0..N : h[n] = IF n = 0 THEN q ELSE QuarantineAfter(h[n - 1], writes[n])
  BY <1>3
<1>5. \A n \in 1..N : h[n - 1] \in QuarantineType => h[n] \in QuarantineType
  <2> SUFFICES ASSUME NEW n \in 1..N, h[n - 1] \in QuarantineType
      PROVE  h[n] \in QuarantineType
    OBVIOUS
  <2>1. h[n] = QuarantineAfter(h[n - 1], writes[n])
    BY <1>4
  <2> QED BY <2>1 DEF QuarantineAfter, QuarantineType
<1>6. h[0] \in QuarantineType
  BY <1>4
<1>7. N >= 1 => h[1] \in QuarantineType
  BY <1>5, <1>6
<1>8. N >= 2 => h[2] \in QuarantineType
  BY <1>5, <1>7
<1>9. N >= 3 => h[3] \in QuarantineType
  BY <1>5, <1>8
<1> QED BY <1>1, <1>6, <1>7, <1>8, <1>9
-----------------------------------------------------------------------------
(***************************************************************************)
(* The writes of a resolution.                                             *)
(***************************************************************************)
\* The choice among the candidates, of which there is one.
LEMMA CandidateWrites ==
    ASSUME NEW e, NEW r, NEW barred, NEW again, NEW ids,
           ids = [path \in {Configured} |-> again]
    PROVE  CandidateChoice(e, r, barred, ids).writes =
             IF again # None /\ again = e THEN <<Clear(Configured)>>
             ELSE IF again # None /\ again = r THEN <<Ensure(r)>>
             ELSE SoleChoice(e, r, barred, Configured, again).writes
<1> DEFINE With(id) == {path \in DOMAIN ids : id # None /\ ids[path] = id}
<1>1. DOMAIN ids = {Configured} /\ ids[Configured] = again
  OBVIOUS
<1>2. \A id : With(id) = IF id # None /\ again = id THEN {Configured} ELSE {}
  OBVIOUS
<1>3. Cardinality({Configured}) = 1
  BY FS_Singleton
<1>4. (CHOOSE x \in {Configured} : TRUE) = Configured
  OBVIOUS
<1>5. {Configured} # {}
  OBVIOUS
<1> DEFINE kept == IF ~barred /\ Configured \in DOMAIN ids /\ ids[Configured] = None
                   THEN Configured ELSE None
           C == CandidateChoice(e, r, barred, ids)
<1>6. C = IF With(e) # {} THEN
            IF Cardinality(With(e)) > 1 THEN Choice(Targets(None, kept), <<>>)
            ELSE Choice(Targets(CHOOSE x \in With(e) : TRUE, CHOOSE x \in With(e) : TRUE),
                        <<Clear(CHOOSE x \in With(e) : TRUE)>>)
          ELSE IF With(r) # {} THEN
            IF Cardinality(With(r)) > 1 THEN Choice(Targets(None, kept), <<>>)
            ELSE Choice(Targets(CHOOSE x \in With(r) : TRUE, kept), <<Ensure(r)>>)
          ELSE IF Cardinality(DOMAIN ids) # 1 THEN Choice(Targets(None, kept), <<>>)
          ELSE SoleChoice(e, r, barred, CHOOSE x \in DOMAIN ids : TRUE,
                          ids[CHOOSE x \in DOMAIN ids : TRUE])
  BY DEF CandidateChoice
<1> HIDE DEF With, kept, C
<1>7. CASE again # None /\ again = e
  <2>1. With(e) = {Configured}
    BY <1>2, <1>7
  <2>2. ~(Cardinality(With(e)) > 1) /\ With(e) # {}
    BY <2>1, <1>3, <1>5
  <2>3. C.writes = <<Clear(Configured)>>
    BY <1>6, <2>1, <2>2, <1>4 DEF Choice
  <2> QED BY <2>3, <1>7 DEF C
<1>8. CASE ~(again # None /\ again = e) /\ again # None /\ again = r
  <2>1. With(e) = {} /\ With(r) = {Configured}
    BY <1>2, <1>8
  <2>2. ~(Cardinality(With(r)) > 1) /\ With(r) # {}
    BY <2>1, <1>3, <1>5
  <2>3. C.writes = <<Ensure(r)>>
    BY <1>6, <2>1, <2>2 DEF Choice
  <2> QED BY <2>3, <1>8 DEF C
<1>9. CASE ~(again # None /\ again = e) /\ ~(again # None /\ again = r)
  <2>1. With(e) = {} /\ With(r) = {}
    BY <1>2, <1>9
  <2>2. C = SoleChoice(e, r, barred, Configured, again)
    BY <1>6, <2>1, <1>1, <1>3, <1>4
  <2> QED BY <2>2, <1>9 DEF C
<1> QED BY <1>7, <1>8, <1>9

\* The writes a resolution may lead to: those of the configured path, those of
\* a candidate known by its identity, and those of the only candidate.
ChoiceWrites(m) ==
    {<<>>, <<Clear(Configured)>>}
      \cup {<<Clear(Configured), Enroll(x)>> : x \in IF m.enrolled = None THEN Modems ELSE {}}
      \cup {<<Enroll(x)>> : x \in IF m.enrolled = None THEN Modems ELSE {}}
      \cup {<<Ensure(x)>> : x \in Modems}
      \cup (IF m.enrolled = None /\ m.runtime = None THEN {<<Ensure(Local)>>} ELSE {})
      \cup {<<Ensure(x), ObserveRuntime(x)>> : x \in Modems}

Resolution(m, id, other, barred, ids) ==
    IF id # None /\ ~other THEN ConfiguredChoice(m.enrolled, id)
    ELSE CandidateChoice(m.enrolled, m.runtime, barred, ids)

\* With nothing known before, a namespace follows from them.
NamesModem(writes) ==
    \/ \E x \in Modems : writes \in {<<Enroll(x)>>, <<Clear(Configured), Enroll(x)>>,
                                      <<Ensure(x), ObserveRuntime(x)>>}
    \/ \E x \in Modems \cup {Local} : writes = <<Ensure(x)>>

WritesFit(m, writes) ==
    /\ writes \in ChoiceWrites(m)
    /\ m.enrolled = None /\ m.runtime = None => NamesModem(writes)

LEMMA WritesOfChoice ==
    ASSUME NEW m \in MetaType, NEW id \in Modems \cup {None}, NEW again \in Modems \cup {None},
           NEW other, NEW barred, NEW ids, ids = [path \in {Configured} |-> again]
    PROVE  WritesFit(m, Resolution(m, id, other, barred, ids).writes)
<1> DEFINE C == Resolution(m, id, other, barred, ids)
<1> SUFFICES WritesFit(m, C.writes)
  OBVIOUS
<1> HIDE DEF C
<1>1. m.runtime \in Modems \cup {None}
  BY DEF MetaType
<1>2. CASE id # None /\ ~other
  <2>1. C.writes = IF m.enrolled = None THEN <<Clear(Configured), Enroll(id)>>
                   ELSE <<Clear(Configured)>>
    BY <1>2 DEF ConfiguredChoice, Choice, Resolution, C
  <2>2. id \in Modems
    BY <1>2
  <2>3. CASE m.enrolled = None
    <3>1. C.writes = <<Clear(Configured), Enroll(id)>>
      BY <2>1, <2>3
    <3> QED BY <2>2, <2>3, <3>1 DEF ChoiceWrites, WritesFit, NamesModem
  <2>4. CASE m.enrolled # None
    <3>1. C.writes = <<Clear(Configured)>>
      BY <2>1, <2>4
    <3> QED BY <2>4, <3>1 DEF ChoiceWrites, WritesFit, NamesModem
  <2> QED BY <2>3, <2>4
<1>3. CASE ~(id # None /\ ~other)
  <2>1. C.writes = IF again # None /\ again = m.enrolled THEN <<Clear(Configured)>>
                   ELSE IF again # None /\ again = m.runtime THEN <<Ensure(m.runtime)>>
                   ELSE SoleChoice(m.enrolled, m.runtime, barred, Configured,
                                   again).writes
    BY <1>3, CandidateWrites DEF Resolution, C
  <2>2. CASE again # None /\ again = m.enrolled
    BY <2>1, <2>2 DEF ChoiceWrites, WritesFit, NamesModem
  <2>3. CASE again # None /\ again # m.enrolled /\ again = m.runtime
    <3>1. C.writes = <<Ensure(again)>> /\ again \in Modems /\ m.runtime # None
      BY <2>1, <2>3
    <3> QED BY <3>1 DEF ChoiceWrites, WritesFit, NamesModem
  <2>4. CASE ~(again # None /\ again = m.enrolled) /\ ~(again # None /\ again = m.runtime)
    <3> DEFINE W == SoleChoice(m.enrolled, m.runtime, barred, Configured, again).writes
    <3>1. C.writes = W
      BY <2>1, <2>4
    <3>2. CASE again = None
      <4>1. W = IF m.enrolled = None /\ m.runtime = None THEN <<Ensure(Local)>> ELSE <<>>
        BY <3>2 DEF SoleChoice, FallbackNamespace, Choice
      <4>2. Local \in Modems \cup {Local}
        OBVIOUS
      <4> HIDE DEF W
      <4> QED BY <3>1, <4>1 DEF ChoiceWrites, WritesFit, NamesModem
    <3>3. CASE again # None
      <4>1. again \in Modems
        BY <3>3
      <4>2. \/ W = <<Ensure(again), ObserveRuntime(again)>>
            \/ m.enrolled = None /\ W = <<Enroll(again)>>
        BY <3>3 DEF SoleChoice, Choice
      <4> HIDE DEF W
      <4> QED BY <3>1, <4>1, <4>2 DEF ChoiceWrites, WritesFit, NamesModem
    <3> QED BY <3>2, <3>3
  <2> QED BY <2>2, <2>3, <2>4
<1> QED BY <1>2, <1>3

-----------------------------------------------------------------------------
(***************************************************************************)
(* What a resolution leaves.                                               *)
(***************************************************************************)
\* A mark before the writes of the choice changes nothing in meta, and all of
\* them together keep the types.
LEMMA PrefixedWrites ==
    ASSUME NEW m, NEW writes \in ChoiceWrites(m), NEW prefix,
           \/ prefix = <<>>
           \/ \E e \in Fingerprints : prefix = <<Mark(Configured, e)>>
    PROVE  /\ MetaWritten(m, prefix \o writes) = MetaWritten(m, writes)
           /\ \A q \in QuarantineType :
                QuarantineWritten(q, prefix \o writes) \in QuarantineType
<1>1. \/ writes = <<>>
      \/ \E w : writes = <<w>> /\ w.op # "mark"
      \/ \E v, w : writes = <<v, w>> /\ v.op # "mark" /\ w.op # "mark"
  BY DEF ChoiceWrites, Clear, Enroll, Ensure, ObserveRuntime
<1>2. CASE prefix = <<>>
  <2>1. prefix \o writes = writes
    BY <1>1, <1>2
  <2>2. Len(writes) \in 0..3 /\ \A n \in 1..Len(writes) : writes[n].op # "mark"
    <3>1. CASE writes = <<>>
      BY <3>1
    <3>2. CASE \E w : writes = <<w>> /\ w.op # "mark"
      BY <3>2
    <3>3. CASE \E v, w : writes = <<v, w>> /\ v.op # "mark" /\ w.op # "mark"
      <4>1. PICK v, w : writes = <<v, w>> /\ v.op # "mark" /\ w.op # "mark"
        BY <3>3
      <4>2. Len(writes) = 2 /\ writes[1] = v /\ writes[2] = w
        BY <4>1
      <4> QED BY <4>1, <4>2
    <3> QED BY <1>1, <3>1, <3>2, <3>3
  <2>3. \A q \in QuarantineType : QuarantineWritten(q, writes) \in QuarantineType
    BY <2>2, QuarantineSteps
  <2> QED BY <2>1, <2>3
<1>3. CASE \E e \in Fingerprints : prefix = <<Mark(Configured, e)>>
  <2>1. PICK e \in Fingerprints : prefix = <<Mark(Configured, e)>>
    BY <1>3
  <2> DEFINE k == Mark(Configured, e)
             all == prefix \o writes
  <2>2. MetaAfter(m, k) = m /\ k.op = "mark" /\ k.id = e
    BY DEF MetaAfter, Mark
  <2>3. prefix = <<k>>
    BY <2>1
  <2> HIDE DEF k
  <2>4. CASE writes = <<>>
    <3>1. all = <<k>> /\ Len(all) = 1 /\ all[1] = k /\ Len(writes) = 0
      BY <2>3, <2>4
    <3> HIDE DEF all
    <3>2. MetaWritten(m, all) = m
      BY <3>1, <2>2, MetaSteps
    <3>3. MetaWritten(m, writes) = m
      BY <3>1, MetaSteps
    <3>4. \A n \in 1..Len(all) : all[n].op = "mark" => all[n].id \in Fingerprints
      BY <3>1, <2>2
    <3>5. \A q \in QuarantineType : QuarantineWritten(q, all) \in QuarantineType
      BY <3>1, <3>4, QuarantineSteps
    <3> QED BY <3>2, <3>3, <3>5 DEF all
  <2>5. CASE \E w : writes = <<w>> /\ w.op # "mark"
    <3>0. PICK w : writes = <<w>> /\ w.op # "mark"
      BY <2>5
    <3>1. Len(all) = 2 /\ all[1] = k /\ all[2] = w /\ Len(writes) = 1 /\ writes[1] = w
      BY <2>3, <3>0
    <3> HIDE DEF all
    <3>2. MetaWritten(m, all) = MetaAfter(m, w)
      BY <3>1, <2>2, MetaSteps
    <3>3. MetaWritten(m, writes) = MetaAfter(m, w)
      BY <3>1, MetaSteps
    <3>4. \A n \in 1..Len(all) : all[n].op = "mark" => all[n].id \in Fingerprints
      BY <3>0, <3>1, <2>2
    <3>5. \A q \in QuarantineType : QuarantineWritten(q, all) \in QuarantineType
      BY <3>1, <3>4, QuarantineSteps
    <3> QED BY <3>2, <3>3, <3>5 DEF all
  <2>6. CASE \E v, w : writes = <<v, w>> /\ v.op # "mark" /\ w.op # "mark"
    <3>0. PICK v, w : writes = <<v, w>> /\ v.op # "mark" /\ w.op # "mark"
      BY <2>6
    <3>1. /\ Len(all) = 3 /\ all[1] = k /\ all[2] = v /\ all[3] = w
          /\ Len(writes) = 2 /\ writes[1] = v /\ writes[2] = w
      BY <2>3, <3>0
    <3> HIDE DEF all
    <3>2. MetaWritten(m, all) = MetaAfter(MetaAfter(m, v), w)
      <4>1. MetaWritten(m, all)
              = MetaAfter(MetaAfter(MetaAfter(m, all[1]), all[2]), all[3])
        BY <3>1, MetaSteps
      <4>2. MetaAfter(m, all[1]) = m
        BY <3>1, <2>2
      <4> QED BY <4>1, <4>2, <3>1
    <3>3. MetaWritten(m, writes) = MetaAfter(MetaAfter(m, v), w)
      BY <3>1, MetaSteps
    <3>4. \A n \in 1..Len(all) : all[n].op = "mark" => all[n].id \in Fingerprints
      BY <3>0, <3>1, <2>2
    <3>5. \A q \in QuarantineType : QuarantineWritten(q, all) \in QuarantineType
      BY <3>1, <3>4, QuarantineSteps
    <3> QED BY <3>2, <3>3, <3>5 DEF all
  <2> QED BY <1>1, <2>4, <2>5, <2>6
<1> QED BY <1>2, <1>3

\* What may become of meta: it keeps what it knows, or the modem is enrolled,
\* or a namespace is ensured, or the modem is adopted with its namespace.
Ensured(m, x) == IF m.namespace = None THEN x ELSE m.namespace
MetaOutcome(m, n) ==
    \/ n = m /\ (m.enrolled # None \/ m.runtime # None)
    \/ m.enrolled = None /\ \E x \in Modems : n = [m EXCEPT !.enrolled = x]
    \/ \E x \in Modems : n = [m EXCEPT !.namespace = Ensured(m, x)]
    \/ /\ m.enrolled = None /\ m.runtime = None
       /\ n = [m EXCEPT !.namespace = Ensured(m, Local)]
    \/ \E x \in Modems : n = [m EXCEPT !.namespace = Ensured(m, x), !.runtime = x]

LEMMA OutcomeOfWrites ==
    ASSUME NEW m \in MetaType, NEW writes, WritesFit(m, writes)
    PROVE  MetaOutcome(m, MetaWritten(m, writes))
<1>1. CASE writes \in {<<>>, <<Clear(Configured)>>}
  <2>1. m.enrolled # None \/ m.runtime # None
    BY <1>1 DEF WritesFit, NamesModem, Clear, Enroll, Ensure
  <2>2. MetaAfter(m, Clear(Configured)) = m
    BY DEF MetaAfter, Clear
  <2>3. MetaWritten(m, writes) = m
    <3>1. CASE writes = <<>>
      <4>1. Len(writes) = 0
        BY <3>1
      <4> QED BY <4>1, MetaSteps
    <3>2. CASE writes = <<Clear(Configured)>>
      <4>1. Len(writes) = 1 /\ writes[1] = Clear(Configured)
        BY <3>2
      <4> QED BY <4>1, <2>2, MetaSteps
    <3> QED BY <1>1, <3>1, <3>2
  <2> QED BY <2>1, <2>3 DEF MetaOutcome
<1>2. CASE \E x \in Modems : m.enrolled = None /\ writes = <<Clear(Configured), Enroll(x)>>
  <2>1. PICK x \in Modems : m.enrolled = None /\ writes = <<Clear(Configured), Enroll(x)>>
    BY <1>2
  <2>2. Len(writes) = 2 /\ writes[1] = Clear(Configured) /\ writes[2] = Enroll(x)
    BY <2>1
  <2>3. MetaAfter(m, Clear(Configured)) = m
    BY DEF MetaAfter, Clear
  <2>4. MetaAfter(m, Enroll(x)) = [m EXCEPT !.enrolled = x]
    BY DEF MetaAfter, Enroll
  <2>5. MetaWritten(m, writes) = [m EXCEPT !.enrolled = x]
    BY <2>2, <2>3, <2>4, MetaSteps
  <2> QED BY <2>1, <2>5 DEF MetaOutcome
<1>3. CASE \E x \in Modems : m.enrolled = None /\ writes = <<Enroll(x)>>
  <2>1. PICK x \in Modems : m.enrolled = None /\ writes = <<Enroll(x)>>
    BY <1>3
  <2>2. Len(writes) = 1 /\ writes[1] = Enroll(x)
    BY <2>1
  <2>4. MetaAfter(m, Enroll(x)) = [m EXCEPT !.enrolled = x]
    BY DEF MetaAfter, Enroll
  <2>5. MetaWritten(m, writes) = [m EXCEPT !.enrolled = x]
    BY <2>2, <2>4, MetaSteps
  <2> QED BY <2>1, <2>5 DEF MetaOutcome
<1>0. \A x : MetaAfter(m, Ensure(x)) = [m EXCEPT !.namespace = Ensured(m, x)]
  <2> SUFFICES ASSUME NEW x
      PROVE  MetaAfter(m, Ensure(x)) = [m EXCEPT !.namespace = Ensured(m, x)]
    OBVIOUS
  <2>1. CASE m.namespace = None
    BY <2>1 DEF MetaAfter, Ensure, Ensured
  <2>2. CASE m.namespace # None
    <3>1. MetaAfter(m, Ensure(x)) = m
      BY <2>2 DEF MetaAfter, Ensure
    <3>2. [m EXCEPT !.namespace = m.namespace] = m
      BY DEF MetaType
    <3> QED BY <2>2, <3>1, <3>2 DEF Ensured
  <2> QED BY <2>1, <2>2
<1>4. CASE \E x \in Modems : writes = <<Ensure(x)>>
  <2>1. PICK x \in Modems : writes = <<Ensure(x)>>
    BY <1>4
  <2>2. Len(writes) = 1 /\ writes[1] = Ensure(x)
    BY <2>1
  <2>3. MetaWritten(m, writes) = [m EXCEPT !.namespace = Ensured(m, x)]
    BY <2>2, <1>0, MetaSteps
  <2> QED BY <2>3 DEF MetaOutcome
<1>5. CASE m.enrolled = None /\ m.runtime = None /\ writes = <<Ensure(Local)>>
  <2>2. Len(writes) = 1 /\ writes[1] = Ensure(Local)
    BY <1>5
  <2>3. MetaWritten(m, writes) = [m EXCEPT !.namespace = Ensured(m, Local)]
    BY <2>2, <1>0, MetaSteps
  <2> QED BY <1>5, <2>3 DEF MetaOutcome
<1>6. CASE \E x \in Modems : writes = <<Ensure(x), ObserveRuntime(x)>>
  <2>1. PICK x \in Modems : writes = <<Ensure(x), ObserveRuntime(x)>>
    BY <1>6
  <2>2. Len(writes) = 2 /\ writes[1] = Ensure(x) /\ writes[2] = ObserveRuntime(x)
    BY <2>1
  <2> DEFINE n == [m EXCEPT !.namespace = Ensured(m, x)]
  <2>3. MetaAfter(n, ObserveRuntime(x)) = [m EXCEPT !.namespace = Ensured(m, x), !.runtime = x]
    BY DEF MetaAfter, ObserveRuntime, MetaType
  <2>4. MetaWritten(m, writes) = MetaAfter(n, ObserveRuntime(x))
    BY <2>2, <1>0, MetaSteps
  <2> QED BY <2>3, <2>4 DEF MetaOutcome
<1> QED
  <2>1. writes \in ChoiceWrites(m)
    BY DEF WritesFit
  <2> QED BY <2>1, <1>1, <1>2, <1>3, <1>4, <1>5, <1>6 DEF ChoiceWrites

\* The namespace the outcome stands for.
NamespaceOf(m) ==
    CASE m.namespace # None -> m.namespace
      [] m.namespace = None /\ m.enrolled # None -> m.enrolled
      [] OTHER -> m.runtime

LEMMA OutcomeKeepsType ==
    ASSUME NEW m \in MetaType, NEW n, MetaOutcome(m, n)
    PROVE  n \in MetaType /\ NamespaceOf(n) # None
<1>0. \A x \in Modems \cup {Local} : Ensured(m, x) \in Namespaces /\ x # None
  BY IdentityStoreAssumption DEF Ensured, MetaType, Namespaces, Fingerprints
<1>1. CASE n = m /\ (m.enrolled # None \/ m.runtime # None)
  BY <1>1 DEF NamespaceOf
<1>2. CASE m.enrolled = None /\ \E x \in Modems : n = [m EXCEPT !.enrolled = x]
  <2>1. PICK x \in Modems : n = [m EXCEPT !.enrolled = x]
    BY <1>2
  <2>2. n \in MetaType
    BY <2>1 DEF MetaType, Fingerprints
  <2>3. n.enrolled # None
    BY <2>1, <1>0 DEF MetaType
  <2> QED BY <2>2, <2>3 DEF NamespaceOf
<1>3. CASE \E x \in Modems : n = [m EXCEPT !.namespace = Ensured(m, x)]
  <2>1. PICK x \in Modems : n = [m EXCEPT !.namespace = Ensured(m, x)]
    BY <1>3
  <2>2. n \in MetaType
    BY <2>1, <1>0 DEF MetaType
  <2>3. n.namespace # None
    BY <2>1, <1>0, IdentityStoreAssumption DEF MetaType, Namespaces, Fingerprints
  <2> QED BY <2>2, <2>3 DEF NamespaceOf
<1>4. CASE n = [m EXCEPT !.namespace = Ensured(m, Local)]
  <2>2. n \in MetaType
    BY <1>4, <1>0 DEF MetaType
  <2>3. n.namespace # None
    BY <1>4, <1>0, IdentityStoreAssumption DEF MetaType, Namespaces, Fingerprints
  <2> QED BY <2>2, <2>3 DEF NamespaceOf
<1>5. CASE \E x \in Modems : n = [m EXCEPT !.namespace = Ensured(m, x), !.runtime = x]
  <2>1. PICK x \in Modems : n = [m EXCEPT !.namespace = Ensured(m, x), !.runtime = x]
    BY <1>5
  <2>2. n \in MetaType
    BY <2>1, <1>0 DEF MetaType
  <2>3. n.namespace # None
    BY <2>1, <1>0, IdentityStoreAssumption DEF MetaType, Namespaces, Fingerprints
  <2> QED BY <2>2, <2>3 DEF NamespaceOf
<1> QED BY <1>1, <1>2, <1>3, <1>4, <1>5 DEF MetaOutcome

\* With one modem, or a namespace of its own in the table, the namespace of
\* the keys does not change once there is one.
OneModem == \A m1, m2 \in Modems : m1 = m2
HasNamespace(m) == m.namespace # None \/ m.enrolled = Legacy

LEMMA OutcomeKeepsNamespace ==
    ASSUME NEW m \in MetaType, m.enrolled # Legacy, NEW n, MetaOutcome(m, n),
           OneModem \/ m.namespace # None, NamespaceOf(m) # None
    PROVE  NamespaceOf(n) = NamespaceOf(m) /\ (m.namespace # None => n.namespace # None)
<1>1. n \in MetaType
  BY OutcomeKeepsType
<1>2. CASE m.namespace # None
  <2>1. n.namespace = m.namespace
    BY <1>2 DEF MetaOutcome, MetaType, Ensured
  <2> QED BY <1>2, <2>1 DEF NamespaceOf
<1>3. CASE m.namespace = None
  <2>1. OneModem
    BY <1>3
  <2>2. NamespaceOf(m) \in Modems
    BY <1>3 DEF NamespaceOf, MetaType, Fingerprints
  <2>3. NamespaceOf(n) \in Modems
    <3>1. CASE n = m
      BY <2>2, <3>1
    <3>2. CASE \E x \in Modems : n = [m EXCEPT !.enrolled = x]
      <4>1. PICK x \in Modems : n = [m EXCEPT !.enrolled = x]
        BY <3>2
      <4>2. n.namespace = None /\ n.enrolled = x /\ x # None
        BY <4>1, <1>3, IdentityStoreAssumption DEF MetaType
      <4> QED BY <4>2 DEF NamespaceOf
    <3>3. CASE \E x \in Modems : n = [m EXCEPT !.namespace = Ensured(m, x)]
      <4>1. PICK x \in Modems : n = [m EXCEPT !.namespace = Ensured(m, x)]
        BY <3>3
      <4>2. n.namespace = x /\ x # None
        BY <4>1, <1>3, IdentityStoreAssumption DEF MetaType, Ensured
      <4> QED BY <4>2 DEF NamespaceOf
    <3>4. CASE \E x \in Modems : n = [m EXCEPT !.namespace = Ensured(m, x), !.runtime = x]
      <4>1. PICK x \in Modems : n = [m EXCEPT !.namespace = Ensured(m, x), !.runtime = x]
        BY <3>4
      <4>2. n.namespace = x /\ x # None
        BY <4>1, <1>3, IdentityStoreAssumption DEF MetaType, Ensured
      <4> QED BY <4>2 DEF NamespaceOf
    <3>5. ~(m.enrolled = None /\ m.runtime = None)
      BY <1>3 DEF NamespaceOf
    <3> QED BY <3>1, <3>2, <3>3, <3>4, <3>5 DEF MetaOutcome
  <2> QED BY <1>3, <2>1, <2>2, <2>3 DEF OneModem
<1> QED BY <1>2, <1>3

\* The migration of the fingerprint of an earlier version keeps the namespace.
LEMMA MigrationKeeps ==
    ASSUME NEW m \in MetaType
    PROVE  /\ Migrated(m) \in MetaType /\ Migrated(m).enrolled # Legacy
           /\ NamespaceOf(Migrated(m)) = NamespaceOf(m)
           /\ HasNamespace(m) => Migrated(m).namespace # None
<1>1. CASE m.enrolled = Legacy
  <2>1. Migrated(m) = [m EXCEPT !.enrolled = None,
                                !.namespace = IF m.namespace = None THEN Legacy ELSE m.namespace]
    BY <1>1 DEF Migrated
  <2>2. /\ Migrated(m).enrolled = None
        /\ Migrated(m).namespace = IF m.namespace = None THEN Legacy ELSE m.namespace
    BY <2>1 DEF MetaType
  <2>3. Migrated(m) \in MetaType
    BY <2>1 DEF MetaType, Namespaces, Fingerprints
  <2>4. Legacy # None
    BY IdentityStoreAssumption
  <2> QED BY <1>1, <2>2, <2>3, <2>4 DEF NamespaceOf
<1>2. CASE m.enrolled # Legacy
  BY <1>2 DEF Migrated, HasNamespace
<1> QED BY <1>1, <1>2

\* One resolution with a modem at the path.
LEMMA ResolutionResult ==
    ASSUME IdentityTypeOK, NEW id \in Modems \cup {None}, NEW again \in Modems \cup {None},
           ResolveWith(Migrated(meta), id, again)
    PROVE  /\ meta' \in MetaType /\ quarantine' \in QuarantineType
           /\ NamespaceOf(meta') # None
           /\ rows' = Backfilled(NamespaceOf(meta'))
           /\ NamespaceOf(meta) # None /\ (OneModem \/ HasNamespace(meta)) =>
                /\ NamespaceOf(meta') = NamespaceOf(meta)
                /\ OneModem \/ HasNamespace(meta')
<1> DEFINE m == Migrated(meta)
           known == Quarantined(m.enrolled, quarantine[Configured], None)
           other == id # None /\ m.enrolled \notin {None, id}
           barred == known \/ other
           ids == [path \in {Configured} |-> again]
           W == Resolution(m, id, other, barred, ids).writes
           prefix == IF other THEN <<Mark(Configured, m.enrolled)>> ELSE <<>>
<1>1. /\ m \in MetaType /\ m.enrolled # Legacy
      /\ NamespaceOf(m) = NamespaceOf(meta)
      /\ HasNamespace(meta) => m.namespace # None
  BY MigrationKeeps DEF IdentityTypeOK
<1>2. /\ meta' = MetaWritten(m, prefix \o W)
      /\ quarantine' = QuarantineWritten(quarantine, prefix \o W)
      /\ rows' = Backfilled(DedupeNamespace')
  BY DEF ResolveWith, Resolution
<1>3. DedupeNamespace' = NamespaceOf(meta')
  BY DEF DedupeNamespace, NamespaceOf
<1>4. other => m.enrolled \in Fingerprints
  BY <1>1 DEF MetaType
<1>5. prefix = <<>> \/ \E e \in Fingerprints : prefix = <<Mark(Configured, e)>>
  BY <1>4
<1> HIDE DEF m, known, other, barred, ids
<1>6. ids = [path \in {Configured} |-> again]
  BY DEF ids
<1>7. WritesFit(m, W)
  BY <1>1, <1>6, WritesOfChoice
<1> HIDE DEF W, prefix
<1>8. W \in ChoiceWrites(m)
  BY <1>7 DEF WritesFit
<1>9. quarantine \in QuarantineType
  BY DEF IdentityTypeOK, QuarantineType
<1>10. /\ MetaWritten(m, prefix \o W) = MetaWritten(m, W)
       /\ QuarantineWritten(quarantine, prefix \o W) \in QuarantineType
  BY <1>5, <1>8, <1>9, PrefixedWrites
<1>11. MetaOutcome(m, meta')
  BY <1>1, <1>2, <1>7, <1>10, OutcomeOfWrites
<1>12. meta' \in MetaType /\ NamespaceOf(meta') # None
  BY <1>1, <1>11, OutcomeKeepsType
<1>13. ASSUME NamespaceOf(meta) # None, OneModem \/ HasNamespace(meta)
       PROVE  /\ NamespaceOf(meta') = NamespaceOf(meta)
              /\ OneModem \/ HasNamespace(meta')
  <2>1. OneModem \/ m.namespace # None
    BY <1>1, <1>13
  <2>2. /\ NamespaceOf(meta') = NamespaceOf(m)
        /\ m.namespace # None => meta'.namespace # None
    BY <1>1, <1>11, <1>13, <2>1, OutcomeKeepsNamespace
  <2> QED BY <1>1, <2>1, <2>2 DEF HasNamespace
<1> QED BY <1>2, <1>3, <1>10, <1>12, <1>13

-----------------------------------------------------------------------------
(***************************************************************************)
(* The type invariant.                                                     *)
(***************************************************************************)
LEMMA TaskFacts ==
    ASSUME TypeOK, NEW t \in Tasks
    PROVE  /\ task[t] \in TaskType \cup {Free}
           /\ task[t].step \in {"read", "key", "insert", "free"}
           /\ task[t].step = "free" <=> task[t] = Free
           /\ task[t].step # "free" => task[t].sms \in Sms
           /\ task[t].step \in {"read", "key"} => task[t].key = None
           /\ task[t].step = "insert" => task[t].key \in Namespaces
BY DEF TypeOK, TaskType, Free

LEMMA AnnounceFacts ==
    ASSUME signals \in Seq(Sms \cup {Gone}), NEW x \in Sms \cup {Gone}, Announce(x)
    PROVE  /\ signals' \in Seq(Sms \cup {Gone})
           /\ \A y : Listed(y) => Listed(y)'
           /\ matched => Listed(x)'
<1>1. CASE ~matched
  <2>1. signals' = signals
    BY <1>1 DEF Announce
  <2> QED BY <1>1, <2>1 DEF Listed
<1>2. CASE matched
  <2>1. signals' = Append(signals, x)
    BY <1>2 DEF Announce
  <2>2. /\ signals' \in Seq(Sms \cup {Gone})
        /\ Len(signals') = Len(signals) + 1 /\ Len(signals) \in Nat
        /\ signals'[Len(signals) + 1] = x
        /\ \A i \in 1..Len(signals) : signals'[i] = signals[i]
    BY <2>1
  <2>3. DOMAIN signals = 1..Len(signals) /\ DOMAIN signals' = 1..Len(signals')
    BY <2>2
  <2> QED BY <2>2, <2>3 DEF Listed
<1> QED BY <1>1, <1>2

LEMMA TailFacts ==
    ASSUME signals \in Seq(Sms \cup {Gone}), signals # <<>>, signals' = Tail(signals)
    PROVE  /\ signals' \in Seq(Sms \cup {Gone}) /\ Head(signals) \in Sms \cup {Gone}
           /\ \A y : Listed(y) /\ y # Head(signals) => Listed(y)'
<1>1. /\ signals' \in Seq(Sms \cup {Gone}) /\ Head(signals) \in Sms \cup {Gone}
      /\ Len(signals) \in Nat \ {0} /\ Len(signals') = Len(signals) - 1
      /\ \A i \in 1..Len(signals') : signals'[i] = signals[i + 1]
      /\ Head(signals) = signals[1]
  OBVIOUS
<1>2. DOMAIN signals = 1..Len(signals) /\ DOMAIN signals' = 1..Len(signals')
  BY <1>1
<1>3. ASSUME NEW y, Listed(y), y # Head(signals)
      PROVE  Listed(y)'
  <2>1. PICK i \in 1..Len(signals) : signals[i] = y
    BY <1>2, <1>3 DEF Listed
  <2>2. i # 1
    BY <1>1, <1>3, <2>1
  <2>3. i - 1 \in 1..Len(signals') /\ signals'[i - 1] = y
    BY <1>1, <2>1, <2>2
  <2> QED BY <1>2, <2>3 DEF Listed
<1> QED BY <1>1, <1>3

LEMMA NoSignals == <<>> \in Seq(Sms \cup {Gone})
OBVIOUS

LEMMA InitTypes == Init => TypeOK
<1> SUFFICES ASSUME Init PROVE TypeOK
  OBVIOUS
<1> USE InboundAssumption, IdentityStoreAssumption
<1>1. IdentityTypeOK
  BY DEF Init, IdentityTypeOK
<1>2. rows \subseteq Row
  BY DEF Init, Row
<1>3. inserted \in [Sms -> Nat]
  BY DEF Init
<1>4. arrived \in [Sms -> {"no", "partial", "complete", "joined"}]
  BY DEF Init
<1>5. task \in [Tasks -> TaskType \cup {Free}]
  BY DEF Init
<1>6. signals \in Seq(Sms \cup {Gone})
  BY NoSignals DEF Init
<1>7. swaps \in 0..MaxSwaps /\ faults \in 0..MaxFaults /\ deletes \in 0..MaxDeletes
  BY DEF Init
<1>8. /\ plugged \in Modems \cup {None} /\ pc = "resolve" /\ matched \in BOOLEAN
      /\ initial \subseteq Sms /\ failed \in Nat /\ gaveUp \subseteq Sms
  BY DEF Init
<1> QED BY <1>1, <1>2, <1>3, <1>4, <1>5, <1>6, <1>7, <1>8 DEF TypeOK

\* The steps of the surroundings and of the worker.
LEMMA EnvironmentTypes ==
    ASSUME TypeOK,
           \/ \E s \in Sms : Arrive(s) \/ Complete(s) \/ Delete(s)
           \/ Swap \/ Restart \/ Crash
    PROVE  TypeOK'
<1> USE InboundAssumption
<1>1. ASSUME NEW s \in Sms, Arrive(s)  PROVE TypeOK'
  <2>1. signals' \in Seq(Sms \cup {Gone})
    BY <1>1, AnnounceFacts DEF Arrive, TypeOK
  <2>2. arrived' \in [Sms -> {"no", "partial", "complete", "joined"}]
    BY <1>1 DEF Arrive, TypeOK
  <2> QED BY <1>1, <2>1, <2>2 DEF Arrive, TypeOK, IdentityTypeOK, storeVars, identityVars
<1>2. ASSUME NEW s \in Sms, Complete(s)  PROVE TypeOK'
  BY <1>2 DEF Complete, TypeOK, IdentityTypeOK, storeVars, identityVars, subVars
<1>3. ASSUME NEW s \in Sms, Delete(s)  PROVE TypeOK'
  <2>1. rows' \subseteq Row
    BY <1>3 DEF Delete, TypeOK
  <2>2. deletes' \in 0..MaxDeletes
    BY <1>3 DEF Delete, TypeOK
  <2> QED
    BY <1>3, <2>1, <2>2 DEF Delete, TypeOK, IdentityTypeOK, envVars, identityVars, subVars
<1>4. ASSUME Swap  PROVE TypeOK'
  <2>1. signals' \in Seq(Sms \cup {Gone})
    BY <1>4, AnnounceFacts DEF Swap, TypeOK
  <2>2. plugged' \in Modems \cup {None} /\ swaps' \in 0..MaxSwaps
    BY <1>4 DEF Swap, TypeOK
  <2> QED BY <1>4, <2>1, <2>2 DEF Swap, TypeOK, IdentityTypeOK, storeVars, identityVars
<1>5. ASSUME Restart  PROVE TypeOK'
  <2>1. signals' \in Seq(Sms \cup {Gone})
    BY <1>5, AnnounceFacts DEF Restart, TypeOK
  <2>2. faults' \in 0..MaxFaults
    BY <1>5 DEF Restart, TypeOK
  <2> QED
    BY <1>5, <2>1, <2>2 DEF Restart, TypeOK, IdentityTypeOK, envVars, storeVars, identityVars
<1>6. ASSUME Crash  PROVE TypeOK'
  <2>1. faults' \in 0..MaxFaults /\ task' \in [Tasks -> TaskType \cup {Free}]
    BY <1>6 DEF Crash, TypeOK
  <2> QED
    BY <1>6, <2>1, NoSignals DEF Crash, TypeOK, IdentityTypeOK, envVars, storeVars, identityVars
<1> QED BY <1>1, <1>2, <1>3, <1>4, <1>5, <1>6

LEMMA SpawnFacts ==
    ASSUME TypeOK, NEW s \in Sms, Spawn(s)
    PROVE  /\ task' \in [Tasks -> TaskType \cup {Free}]
           /\ \E t \in Tasks : task[t] = Free /\ task'[t].sms = s
           /\ \A t \in Tasks : task[t] # Free => task'[t] = task[t]
           /\ \A t \in Tasks : task'[t].step = "insert" => task'[t] = task[t]
<1>1. PICK t \in Tasks : /\ task[t] = Free
                         /\ task' = [task EXCEPT ![t] = [sms |-> s, step |-> "read",
                                                         key |-> None]]
  BY DEF Spawn
<1>2. /\ task'[t] = [sms |-> s, step |-> "read", key |-> None]
      /\ \A u \in Tasks : u # t => task'[u] = task[u]
  BY <1>1 DEF TypeOK
<1>3. [sms |-> s, step |-> "read", key |-> None] \in TaskType
  BY DEF TaskType
<1>4. task' \in [Tasks -> TaskType \cup {Free}]
  BY <1>1, <1>3 DEF TypeOK
<1> QED BY <1>1, <1>2, <1>4

LEMMA BackfilledRows ==
    ASSUME TypeOK, NEW ns \in Namespaces
    PROVE  /\ Backfilled(ns) \subseteq Row
           /\ \A r \in Backfilled(ns) : \E q \in rows :
                q.sms = r.sms /\ r.key \in {ns, q.key} /\ (q.key = None => r \in rows \/ r.key = ns)
           /\ \A q \in rows : \E r \in Backfilled(ns) : q.sms = r.sms
<1>1. \A q \in rows : /\ q.sms \in Sms /\ q.key \in Namespaces \cup {None}
                      /\ [q EXCEPT !.key = ns] \in Row
                      /\ [q EXCEPT !.key = ns].sms = q.sms
                      /\ [q EXCEPT !.key = ns].key = ns
  BY DEF TypeOK, Row
<1> QED BY <1>1 DEF Backfilled, TypeOK

LEMMA ResolveFacts ==
    ASSUME TypeOK, NEW id \in {None, plugged}, NEW again \in {None, plugged},
           plugged # None, ResolveWith(Migrated(meta), id, again)
    PROVE  /\ IdentityTypeOK'
           /\ DedupeNamespace' \in Namespaces /\ DedupeNamespace' # None
           /\ rows' = Backfilled(DedupeNamespace')
           /\ DedupeNamespace # None /\ (OneModem \/ HasNamespace(meta)) =>
                /\ DedupeNamespace' = DedupeNamespace
                /\ OneModem \/ HasNamespace(meta')
<1>1. id \in Modems \cup {None} /\ again \in Modems \cup {None}
  BY DEF TypeOK
<1>2. IdentityTypeOK
  BY DEF TypeOK
<1>3. DedupeNamespace' = NamespaceOf(meta') /\ DedupeNamespace = NamespaceOf(meta)
  BY DEF DedupeNamespace, NamespaceOf
<1>4. /\ meta' \in MetaType /\ quarantine' \in QuarantineType
      /\ NamespaceOf(meta') # None
      /\ rows' = Backfilled(NamespaceOf(meta'))
      /\ NamespaceOf(meta) # None /\ (OneModem \/ HasNamespace(meta)) =>
           /\ NamespaceOf(meta') = NamespaceOf(meta)
           /\ OneModem \/ HasNamespace(meta')
  BY <1>1, <1>2, ResolutionResult
<1>5. IdentityTypeOK'
  BY <1>4 DEF IdentityTypeOK, QuarantineType
<1>6. NamespaceOf(meta') \in Namespaces
  BY <1>4 DEF NamespaceOf, MetaType, Namespaces, Fingerprints
<1> QED BY <1>3, <1>4, <1>5, <1>6

LEMMA WorkerTypes ==
    ASSUME TypeOK, Worker \/ SubscribeFails \/ DrainInWait
    PROVE  TypeOK'
<1> USE InboundAssumption
<1>1. ASSUME Resolve  PROVE TypeOK'
  <2>1. CASE plugged = None
    BY <1>1, <2>1
       DEF Resolve, TypeOK, IdentityTypeOK, envVars, subVars, identityVars
  <2>2. CASE plugged # None
    <3>1. PICK id \in {None, plugged}, again \in {None, plugged} :
            ResolveWith(Migrated(meta), id, again)
      BY <1>1, <2>2 DEF Resolve
    <3>2. /\ IdentityTypeOK' /\ DedupeNamespace' \in Namespaces
          /\ rows' = Backfilled(DedupeNamespace')
      BY <2>2, <3>1, ResolveFacts
    <3>3. rows' \subseteq Row
      BY <3>2, BackfilledRows
    <3> QED BY <1>1, <3>2, <3>3 DEF Resolve, TypeOK, envVars, subVars
  <2> QED BY <2>1, <2>2
<1>2. ASSUME EndWait  PROVE TypeOK'
  BY <1>2 DEF EndWait, TypeOK, IdentityTypeOK, envVars, subVars, storeVars, identityVars
<1>3. ASSUME DrainInWait  PROVE TypeOK'
  BY <1>3 DEF DrainInWait, TypeOK, IdentityTypeOK, envVars, subVars, storeVars, identityVars
<1>4. ASSUME Subscribe  PROVE TypeOK'
  BY <1>4 DEF Subscribe, TypeOK, IdentityTypeOK, envVars, storeVars, identityVars
<1>5. ASSUME List  PROVE TypeOK'
  BY <1>5 DEF List, TypeOK, IdentityTypeOK, envVars, storeVars, identityVars
<1>6. ASSUME SubscribeFails  PROVE TypeOK'
  <2>1. faults' \in 0..MaxFaults
    BY <1>6 DEF SubscribeFails, TypeOK
  <2> QED
    BY <1>6, <2>1, NoSignals DEF SubscribeFails, Lose, TypeOK, IdentityTypeOK, envVars, storeVars,
                      identityVars
<1>7. ASSUME SpawnInitial  PROVE TypeOK'
  <2>1. PICK s \in initial : Spawn(s) /\ initial' = initial \ {s}
    BY <1>7 DEF SpawnInitial
  <2>2. task' \in [Tasks -> TaskType \cup {Free}]
    BY <2>1, SpawnFacts DEF TypeOK
  <2> QED
    BY <1>7, <2>1, <2>2 DEF SpawnInitial, TypeOK, IdentityTypeOK, envVars, storeVars,
                            identityVars
<1>8. ASSUME SpawnSignal  PROVE TypeOK'
  <2>1. signals' \in Seq(Sms \cup {Gone}) /\ Head(signals) \in Sms
    BY <1>8, TailFacts DEF SpawnSignal, TypeOK
  <2>2. task' \in [Tasks -> TaskType \cup {Free}]
    BY <1>8, <2>1, SpawnFacts DEF SpawnSignal
  <2> QED
    BY <1>8, <2>1, <2>2 DEF SpawnSignal, TypeOK, IdentityTypeOK, envVars, storeVars,
                            identityVars
<1>9. ASSUME StreamEnds  PROVE TypeOK'
  BY <1>9, NoSignals DEF StreamEnds, Lose, TypeOK, IdentityTypeOK, envVars, storeVars, identityVars
<1>10. ASSUME JoinFailed  PROVE TypeOK'
  <2>1. failed' \in Nat
    BY <1>10 DEF JoinFailed, TypeOK
  <2> QED
    BY <1>10, <2>1, NoSignals DEF JoinFailed, Lose, TypeOK, IdentityTypeOK, envVars, storeVars,
                                  identityVars
<1> QED BY <1>1, <1>2, <1>3, <1>4, <1>5, <1>6, <1>7, <1>8, <1>9, <1>10 DEF Worker

\* A step of a task.
LEMMA TaskTypes ==
    ASSUME TypeOK, NEW t \in Tasks, Child(t) \/ GiveUp(t) \/ ReadFails(t)
    PROVE  TypeOK'
<1> USE InboundAssumption
<1>1. ASSUME ReadText(t)  PROVE TypeOK'
  <2>1. task[t].step = "read" /\ task[t] \in TaskType
    BY <1>1 DEF ReadText, Working, TypeOK, Free
  <2>2. [task[t] EXCEPT !.step = "key"] \in TaskType
    BY <2>1 DEF TaskType
  <2>3. task' \in [Tasks -> TaskType \cup {Free}]
    BY <1>1, <2>2 DEF ReadText, TypeOK
  <2> QED
    BY <1>1, <2>3 DEF ReadText, TypeOK, IdentityTypeOK, envVars, subVars, storeVars,
                      identityVars
<1>2. ASSUME ReadKey(t)  PROVE TypeOK'
  <2>1. task[t].step = "key" /\ task[t] \in TaskType
    BY <1>2 DEF ReadKey, Working, TypeOK, Free
  <2>2. DedupeNamespace \in Namespaces
    BY <1>2 DEF ReadKey, DedupeNamespace, TypeOK, IdentityTypeOK, MetaType, Namespaces,
                Fingerprints
  <2>3. [task[t] EXCEPT !.step = "insert", !.key = DedupeNamespace] \in TaskType
    BY <2>1, <2>2 DEF TaskType
  <2>4. task' = [task EXCEPT ![t] = [task[t] EXCEPT !.step = "insert",
                                                    !.key = DedupeNamespace]]
    BY <1>2 DEF ReadKey, TypeOK
  <2>5. task' \in [Tasks -> TaskType \cup {Free}]
    BY <2>3, <2>4 DEF TypeOK
  <2> QED
    BY <1>2, <2>5 DEF ReadKey, TypeOK, IdentityTypeOK, envVars, subVars, storeVars,
                      identityVars
<1>3. ASSUME Insert(t)  PROVE TypeOK'
  <2>1. task[t].step = "insert"
    BY <1>3 DEF Insert, Working
  <2>2. task[t].sms \in Sms /\ task[t].key \in Namespaces
    BY <2>1, TaskFacts
  <2>3. rows' \subseteq Row /\ inserted' \in [Sms -> Nat]
    <3>1. CASE IsNew(task[t].sms, task[t].key)
      <4>1. /\ rows' = rows \cup {[sms |-> task[t].sms, key |-> task[t].key]}
            /\ inserted' = [inserted EXCEPT ![task[t].sms] = @ + 1]
        BY <1>3, <3>1 DEF Insert
      <4> QED BY <2>2, <4>1 DEF TypeOK, Row
    <3>2. CASE ~IsNew(task[t].sms, task[t].key)
      BY <1>3, <3>2 DEF Insert, TypeOK, storeVars
    <3> QED BY <3>1, <3>2
  <2>4. task' \in [Tasks -> TaskType \cup {Free}]
    BY <1>3 DEF Insert, TypeOK
  <2> QED
    BY <1>3, <2>3, <2>4 DEF Insert, TypeOK, IdentityTypeOK, envVars, subVars, identityVars
<1>4. ASSUME GiveUp(t)  PROVE TypeOK'
  <2>1. task[t].step = "read"
    BY <1>4 DEF GiveUp, Working
  <2>2. task[t].sms \in Sms
    BY <2>1, TaskFacts
  <2>4. task' \in [Tasks -> TaskType \cup {Free}]
    BY <1>4 DEF GiveUp, TypeOK
  <2> QED
    BY <1>4, <2>2, <2>4 DEF GiveUp, TypeOK, IdentityTypeOK, envVars, subVars, storeVars,
                            identityVars
<1>5. ASSUME ReadFails(t)  PROVE TypeOK'
  <2>1. faults' \in 0..MaxFaults /\ failed' \in Nat
    BY <1>5 DEF ReadFails, TypeOK
  <2>4. task' \in [Tasks -> TaskType \cup {Free}]
    BY <1>5 DEF ReadFails, TypeOK
  <2> QED
    BY <1>5, <2>1, <2>4 DEF ReadFails, TypeOK, IdentityTypeOK, envVars, subVars, storeVars,
                            identityVars
<1> QED BY <1>1, <1>2, <1>3, <1>4, <1>5 DEF Child

LEMMA StutterTypes == TypeOK /\ UNCHANGED vars => TypeOK'
BY DEF TypeOK, IdentityTypeOK, vars, envVars, subVars, storeVars, identityVars

\* Every variable of the inbound worker keeps its type.
THEOREM InboundTypes == Spec => []TypeOK
<1>1. TypeOK /\ [Next]_vars => TypeOK'
  BY EnvironmentTypes, WorkerTypes, TaskTypes, StutterTypes DEF Next
<1> QED BY InitTypes, <1>1, PTL DEF Spec

-----------------------------------------------------------------------------
(***************************************************************************)
(* A message that a subscription has to deal with is with someone until it *)
(* is stored.                                                              *)
(***************************************************************************)
FollowedInv == TypeOK /\ RowsAreInserted /\ Followed

LEMMA RowsStep ==
    ASSUME TypeOK, RowsAreInserted, [Next]_vars
    PROVE  RowsAreInserted'
<1>1. CASE UNCHANGED storeVars
  BY <1>1 DEF RowsAreInserted, Stored, storeVars
<1>2. ASSUME NEW s \in Sms, Delete(s)  PROVE RowsAreInserted'
  BY <1>2 DEF Delete, RowsAreInserted, Stored
<1>3. ASSUME Resolve  PROVE RowsAreInserted'
  <2>1. CASE UNCHANGED rows
    BY <1>3, <2>1 DEF Resolve, RowsAreInserted, Stored
  <2>2. CASE plugged # None
    <3>1. PICK id \in {None, plugged}, again \in {None, plugged} :
            ResolveWith(Migrated(meta), id, again)
      BY <1>3, <2>2 DEF Resolve
    <3>2. DedupeNamespace' \in Namespaces /\ rows' = Backfilled(DedupeNamespace')
      BY <2>2, <3>1, ResolveFacts
    <3>3. \A r \in rows' : \E q \in rows : q.sms = r.sms
      BY <3>2, BackfilledRows
    <3>4. inserted' = inserted
      BY <1>3 DEF Resolve
    <3> QED BY <3>3, <3>4 DEF RowsAreInserted, Stored
  <2> QED BY <1>3, <2>1, <2>2 DEF Resolve
<1>4. ASSUME NEW t \in Tasks, Insert(t)  PROVE RowsAreInserted'
  <2>1. task[t].sms \in Sms
    BY <1>4, TaskFacts DEF Insert, Working
  <2>2. CASE IsNew(task[t].sms, task[t].key)
    <3>1. /\ rows' = rows \cup {[sms |-> task[t].sms, key |-> task[t].key]}
          /\ inserted' = [inserted EXCEPT ![task[t].sms] = @ + 1]
      BY <1>4, <2>2 DEF Insert
    <3>2. \A s \in Sms : inserted'[s] = IF s = task[t].sms THEN inserted[s] + 1
                                        ELSE inserted[s]
      BY <3>1 DEF TypeOK
    <3>3. \A s \in Sms : inserted[s] \in Nat
      BY DEF TypeOK
    <3>4. \A s \in Sms : Stored(s)' => Stored(s) \/ s = task[t].sms
      BY <3>1 DEF Stored
    <3> QED BY <3>2, <3>3, <3>4 DEF RowsAreInserted
  <2>3. CASE ~IsNew(task[t].sms, task[t].key)
    BY <1>4, <2>3 DEF Insert, RowsAreInserted, Stored, storeVars
  <2> QED BY <2>2, <2>3
<1>5. \/ UNCHANGED storeVars \/ Resolve
      \/ \E s \in Sms : Delete(s)
      \/ \E t \in Tasks : Insert(t)
  BY DEF Next, vars, Arrive, Complete, Swap, Restart, Crash, Worker, EndWait, Subscribe, List,
         SpawnInitial, SpawnSignal, StreamEnds, JoinFailed, SubscribeFails, DrainInWait, Child,
         ReadText, ReadKey, GiveUp, ReadFails
<1> QED BY <1>1, <1>2, <1>3, <1>4, <1>5

\* A step outside the worker disturbs nobody who has a message, and a message
\* or a loss that a subscription is there to hear of is announced.
LEMMA FollowedOutside ==
    ASSUME FollowedInv,
           \/ \E s \in Sms : Arrive(s) \/ Complete(s) \/ Delete(s)
           \/ Swap \/ Restart
    PROVE  Followed'
<1> USE InboundAssumption
<1>0. TypeOK /\ Followed
  BY DEF FollowedInv
<1>1. ASSUME NEW x \in Sms, Arrive(x)  PROVE Followed'
  <2>1. (\A y : Listed(y) => Listed(y)') /\ (matched => Listed(x)')
    BY <1>0, <1>1, AnnounceFacts DEF Arrive, TypeOK
  <2>2. UNCHANGED <<plugged, pc, matched, initial, task, failed, inserted>>
    BY <1>1 DEF Arrive, storeVars
  <2>3. \A s \in Sms : s # x => arrived'[s] = arrived[s]
    BY <1>0, <1>1 DEF Arrive, TypeOK
  <2> QED BY <1>0, <2>1, <2>2, <2>3 DEF Followed
<1>2. ASSUME NEW x \in Sms, Complete(x)  PROVE Followed'
  <2>1. UNCHANGED <<plugged, pc, matched, signals, initial, task, failed, inserted>>
    BY <1>2 DEF Complete, storeVars, subVars
  <2>2. \A s \in Sms : arrived'[s] = "complete" => arrived[s] = "complete"
    BY <1>0, <1>2 DEF Complete, TypeOK
  <2> QED BY <1>0, <2>1, <2>2 DEF Followed, Listed
<1>3. ASSUME NEW x \in Sms, Delete(x)  PROVE Followed'
  BY <1>0, <1>3 DEF Delete, Followed, Listed, envVars, subVars
<1>4. ASSUME Swap  PROVE Followed'
  <2>1. UNCHANGED <<arrived, pc, matched, initial, task, failed, inserted>>
    BY <1>4 DEF Swap, storeVars
  <2>2. CASE plugged = None
    BY <1>0, <1>4, <2>1, <2>2 DEF Swap, Followed, Listed
  <2>3. CASE plugged # None
    <3>1. (\A y : Listed(y) => Listed(y)') /\ (matched => Listed(Gone)')
      BY <1>0, <1>4, <2>3, AnnounceFacts DEF Swap, TypeOK
    <3> QED BY <1>0, <2>1, <3>1 DEF Followed
  <2> QED BY <2>2, <2>3
<1>5. ASSUME Restart  PROVE Followed'
  <2>1. \A y : Listed(y) => Listed(y)'
    BY <1>0, <1>5, AnnounceFacts DEF Restart, TypeOK
  <2> QED BY <1>0, <1>5, <2>1 DEF Restart, Followed, envVars, storeVars
<1> QED BY <1>1, <1>2, <1>3, <1>4, <1>5

\* The worker lists everything its modem holds, and hands on what it takes.
LEMMA FollowedWorker ==
    ASSUME FollowedInv, Worker \/ SubscribeFails \/ DrainInWait \/ Crash
    PROVE  Followed'
<1> USE InboundAssumption
<1>0. TypeOK /\ Followed
  BY DEF FollowedInv
<1>1. CASE pc' \notin {"list", "run"}
  BY <1>1 DEF Followed
<1>2. ASSUME Subscribe  PROVE Followed'
  BY <1>2 DEF Subscribe, Followed, envVars
<1>3. ASSUME List  PROVE Followed'
  <2>1. /\ pc = "list" /\ plugged # None /\ initial' = {s \in Sms : Home[s] = plugged /\ HasText(s)}
        /\ UNCHANGED <<plugged, arrived, matched>>
    BY <1>3 DEF List, envVars
  <2>2. \A s \in Sms : plugged = Home[s] /\ arrived[s] = "complete" => s \in initial'
    BY <2>1 DEF HasText
  <2> QED BY <1>0, <2>1, <2>2 DEF Followed
<1>4. ASSUME SpawnInitial  PROVE Followed'
  <2>1. PICK x \in initial : Spawn(x) /\ initial' = initial \ {x}
    BY <1>4 DEF SpawnInitial
  <2>2. /\ \E t \in Tasks : task[t] = Free /\ task'[t].sms = x
        /\ \A t \in Tasks : task[t] # Free => task'[t] = task[t]
    BY <1>0, <2>1, SpawnFacts DEF TypeOK
  <2>3. \A t \in Tasks, s \in Sms : task[t].sms = s => task[t] # Free
    BY DEF Free
  <2>4. UNCHANGED <<plugged, arrived, pc, matched, signals, failed, inserted>>
    BY <1>4 DEF SpawnInitial, envVars, storeVars
  <2> QED BY <1>0, <2>1, <2>2, <2>3, <2>4 DEF Followed, Listed
<1>5. ASSUME SpawnSignal  PROVE Followed'
  <2> DEFINE x == Head(signals)
  <2>1. /\ signals' \in Seq(Sms \cup {Gone}) /\ x \in Sms
        /\ \A y : Listed(y) /\ y # x => Listed(y)'
    BY <1>0, <1>5, TailFacts DEF SpawnSignal, TypeOK
  <2>2. /\ \E t \in Tasks : task[t] = Free /\ task'[t].sms = x
        /\ \A t \in Tasks : task[t] # Free => task'[t] = task[t]
    BY <1>0, <1>5, <2>1, SpawnFacts DEF SpawnSignal
  <2>3. \A t \in Tasks, s \in Sms : task[t].sms = s => task[t] # Free
    BY DEF Free
  <2>4. UNCHANGED <<plugged, arrived, pc, matched, initial, failed, inserted>> /\ x # Gone
    BY <1>5 DEF SpawnSignal, envVars, storeVars
  <2> HIDE DEF x
  <2> QED BY <1>0, <2>1, <2>2, <2>3, <2>4 DEF Followed
<1>6. \/ pc' \notin {"list", "run"}
      \/ Subscribe \/ List \/ SpawnInitial \/ SpawnSignal
  BY DEF Worker, Resolve, EndWait, StreamEnds, JoinFailed, Lose, SubscribeFails, DrainInWait,
         Crash
<1> QED BY <1>1, <1>2, <1>3, <1>4, <1>5, <1>6

\* A task ends by storing its message, by failing, or without a text.
LEMMA FollowedTasks ==
    ASSUME FollowedInv, NEW t \in Tasks, Child(t) \/ GiveUp(t) \/ ReadFails(t)
    PROVE  Followed'
<1> USE InboundAssumption
<1>0. TypeOK /\ Followed /\ RowsAreInserted
  BY DEF FollowedInv
<1>1. UNCHANGED <<plugged, arrived, pc, matched, signals, initial>>
  BY DEF Child, ReadText, ReadKey, Insert, GiveUp, ReadFails, envVars, subVars
<1>2. \A u \in Tasks : u # t => task'[u] = task[u]
  BY <1>0 DEF Child, ReadText, ReadKey, Insert, GiveUp, ReadFails, TypeOK
<1>3. ASSUME \/ ReadText(t) \/ ReadKey(t)  PROVE Followed'
  <2>1. task'[t].sms = task[t].sms
    <3>1. task[t].step \in {"read", "key"}
      BY <1>3 DEF ReadText, ReadKey, Working
    <3>2. task[t] \in TaskType
      BY <1>0, <3>1, TaskFacts DEF Free
    <3> QED BY <1>0, <1>3, <3>2 DEF ReadText, ReadKey, TypeOK, TaskType
  <2>2. failed' = failed /\ inserted' = inserted
    BY <1>3 DEF ReadText, ReadKey, storeVars
  <2> QED BY <1>0, <1>1, <1>2, <2>1, <2>2 DEF Followed, Listed
<1>4. ASSUME ReadFails(t)  PROVE Followed'
  <2>1. failed' > 0
    BY <1>0, <1>4 DEF ReadFails, TypeOK
  <2> QED BY <1>0, <1>1, <2>1 DEF Followed, Listed
<1>5. ASSUME GiveUp(t)  PROVE Followed'
  <2>1. arrived[task[t].sms] = "partial" /\ failed' = failed /\ inserted' = inserted
    BY <1>5 DEF GiveUp, storeVars
  <2> QED BY <1>0, <1>1, <1>2, <2>1 DEF Followed, Listed
<1>6. ASSUME Insert(t)  PROVE Followed'
  <2> DEFINE x == task[t].sms
  <2>1. x \in Sms
    BY <1>0, <1>6, TaskFacts DEF Insert, Working
  <2>2. inserted'[x] > 0 /\ \A s \in Sms : s # x => inserted'[s] = inserted[s]
    <3>1. CASE IsNew(x, task[t].key)
      <4>1. inserted' = [inserted EXCEPT ![x] = @ + 1]
        BY <1>6, <3>1 DEF Insert
      <4> QED BY <1>0, <2>1, <4>1 DEF TypeOK
    <3>2. CASE ~IsNew(x, task[t].key)
      <4>1. inserted' = inserted
        BY <1>6, <3>2 DEF Insert, storeVars
      <4>2. Stored(x)
        BY <3>2 DEF IsNew, Stored
      <4> QED BY <1>0, <2>1, <4>1, <4>2 DEF RowsAreInserted
    <3> QED BY <3>1, <3>2
  <2>3. failed' = failed
    BY <1>6 DEF Insert
  <2>4. \A s \in Sms, u \in Tasks : s # x /\ task[u].sms = s => task'[u].sms = s
    BY <1>2
  <2>5. inserted'[x] # 0
    BY <2>2
  <2> HIDE DEF x
  <2> QED BY <1>0, <1>1, <2>2, <2>3, <2>4, <2>5 DEF Followed, Listed
<1> QED BY <1>3, <1>4, <1>5, <1>6 DEF Child

LEMMA FollowedStep == FollowedInv /\ [Next]_vars => FollowedInv'
<1> SUFFICES ASSUME FollowedInv, [Next]_vars
    PROVE  FollowedInv'
  OBVIOUS
<1>0. TypeOK /\ RowsAreInserted
  BY DEF FollowedInv
<1>1. TypeOK'
  BY <1>0, EnvironmentTypes, WorkerTypes, TaskTypes, StutterTypes DEF Next
<1>2. RowsAreInserted'
  BY <1>0, RowsStep
<1>3. CASE UNCHANGED vars
  <2>1. Followed'
    BY <1>3 DEF FollowedInv, Followed, Listed, vars, envVars, subVars, storeVars
  <2> QED BY <1>1, <1>2, <2>1 DEF FollowedInv
<1>4. CASE Next
  <2>1. Followed'
    BY <1>4, FollowedOutside, FollowedWorker, FollowedTasks DEF Next
  <2> QED BY <1>1, <1>2, <2>1 DEF FollowedInv
<1> QED BY <1>3, <1>4

LEMMA FollowedInit == Init => FollowedInv
<1> SUFFICES ASSUME Init PROVE FollowedInv
  OBVIOUS
<1>1. TypeOK
  BY InitTypes
<1>2. Followed
  BY DEF Init, Followed
<1>3. RowsAreInserted
  BY DEF Init, RowsAreInserted, Stored
<1> QED BY <1>1, <1>2, <1>3 DEF FollowedInv

\* When a subscription has nothing left to do, no message that its modem
\* announced complete is missing from the store.
THEOREM NothingIsMissed == Spec => []NothingMissed
<1>1. FollowedInv => NothingMissed
  <2> SUFFICES ASSUME FollowedInv, Quiet, NEW s \in Sms, plugged = Home[s],
                      arrived[s] = "complete"
      PROVE  inserted[s] > 0
    BY DEF NothingMissed
  <2>1. /\ pc = "run" /\ initial = {} /\ failed = 0 /\ \A t \in Tasks : task[t] = Free
        /\ signals = <<>>
    BY DEF Quiet
  <2>2. \A x : ~Listed(x)
    BY <2>1 DEF Listed
  <2>3. \A t \in Tasks : task[t].sms # s
    BY <2>1, InboundAssumption DEF Free
  <2>4. inserted[s] # 0
    BY <2>1, <2>2, <2>3 DEF FollowedInv, Followed
  <2>5. inserted[s] \in Nat
    BY DEF FollowedInv, TypeOK
  <2> QED BY <2>4, <2>5
<1> QED BY FollowedInit, FollowedStep, <1>1, PTL DEF Spec

-----------------------------------------------------------------------------
(***************************************************************************)
(* One key for all rows, and so one row for a message.                     *)
(*                                                                         *)
(* The keys contain the dedupe namespace.  It stays what it is if there is *)
(* only one modem, or once the namespace has a row of its own in meta: a   *)
(* database of an earlier version gets one when its fingerprint is         *)
(* migrated.  Otherwise another modem brings another namespace, and run    *)
(* inbound_swap shows the message that is then stored twice.               *)
(***************************************************************************)
NamespaceIsFixed == OneModem \/ \A m \in InitialMeta : HasNamespace(m)

KeyInv ==
    /\ TypeOK
    /\ OneModem \/ HasNamespace(meta)
    /\ OneKey
    /\ InsertsAreCounted

\* The steps that touch neither the rows nor what their keys are made of.
LEMMA KeyKept ==
    ASSUME KeyInv, TypeOK', UNCHANGED <<rows, inserted, deletes, meta>>,
           pc = "resolve" /\ Unkeyed =>
             pc' = "resolve" /\ \A t \in Tasks : task'[t] = Free,
           \A t \in Tasks : task'[t].step = "insert" =>
             task'[t] = task[t] \/ task'[t].key = DedupeNamespace
    PROVE  KeyInv'
<1>1. DedupeNamespace' = DedupeNamespace
  BY DEF DedupeNamespace
<1>2. CASE Unkeyed
  <2>1. Unkeyed'
    BY <1>2 DEF Unkeyed
  <2> QED BY <2>1 DEF KeyInv, OneKey, InsertsAreCounted, Stored, HasNamespace
<1>3. CASE Keyed
  <2>1. Keyed'
    BY <1>1, <1>3 DEF Keyed
  <2> QED BY <2>1 DEF KeyInv, OneKey, InsertsAreCounted, Stored, HasNamespace
<1> QED BY <1>2, <1>3 DEF KeyInv, OneKey

LEMMA KeyResolve ==
    ASSUME KeyInv, TypeOK', Resolve
    PROVE  KeyInv'
<1>0. TypeOK /\ (OneModem \/ HasNamespace(meta)) /\ OneKey /\ InsertsAreCounted
  BY DEF KeyInv
<1>1. UNCHANGED <<task, inserted, deletes>>
  BY DEF Resolve
<1>2. CASE plugged = None
  <2>1. pc' = "resolve" /\ UNCHANGED <<rows, meta>>
    BY <1>2 DEF Resolve, identityVars
  <2>2. \A t \in Tasks : Unkeyed => task'[t] = Free
    BY <1>1 DEF Unkeyed
  <2> QED BY <1>1, <2>1, <2>2, KeyKept
<1>3. CASE plugged # None
  <2>1. PICK id \in {None, plugged}, again \in {None, plugged} :
          ResolveWith(Migrated(meta), id, again)
    BY <1>3 DEF Resolve
  <2> DEFINE ns == DedupeNamespace'
  <2>2. /\ ns \in Namespaces /\ ns # None /\ rows' = Backfilled(ns)
        /\ DedupeNamespace # None => ns = DedupeNamespace /\ (OneModem \/ HasNamespace(meta'))
    BY <1>0, <1>3, <2>1, ResolveFacts
  <2>3. OneModem \/ HasNamespace(meta)'
    <3>1. CASE OneModem
      BY <3>1
    <3>2. CASE HasNamespace(meta)
      <4>1. DedupeNamespace # None
        BY <3>2, <1>0, IdentityStoreAssumption
           DEF HasNamespace, DedupeNamespace, TypeOK, IdentityTypeOK, MetaType
      <4> QED BY <4>1, <2>2
    <3> QED BY <1>0, <3>1, <3>2
  <2>4. /\ \A r \in rows' : r.key = ns
        /\ \A t \in Tasks : task[t].step = "insert" => task[t].key = ns
    <3>1. CASE Unkeyed
      <4>1. \A r \in rows : r.key = None
        BY <3>1 DEF Unkeyed
      <4>2. \A r \in rows : [r EXCEPT !.key = ns] \notin rows /\ [r EXCEPT !.key = ns].key = ns
        <5> SUFFICES ASSUME NEW r \in rows
            PROVE  [r EXCEPT !.key = ns] \notin rows /\ [r EXCEPT !.key = ns].key = ns
          OBVIOUS
        <5> HIDE DEF ns
        <5>1. [r EXCEPT !.key = ns].key = ns
          BY <1>0 DEF TypeOK, Row
        <5> QED BY <2>2, <4>1, <5>1
      <4>3. \A r \in rows' : r.key = ns
        BY <2>2, <4>1, <4>2 DEF Backfilled
      <4>4. \A t \in Tasks : task[t].step # "insert"
        BY <3>1 DEF Unkeyed, Free
      <4> QED BY <4>3, <4>4
    <3>2. CASE Keyed
      <4>1. ns = DedupeNamespace /\ DedupeNamespace # None
        BY <2>2, <3>2 DEF Keyed
      <4>2. \A r \in rows : r.key = DedupeNamespace
        BY <3>2 DEF Keyed
      <4>3. rows' = rows
        <5> HIDE DEF ns
        <5>1. \A r \in rows : (IF r.key = None /\ [r EXCEPT !.key = ns] \notin rows
                              THEN [r EXCEPT !.key = ns] ELSE r) = r
          BY <4>1, <4>2
        <5>2. rows' \subseteq rows /\ rows \subseteq rows'
          BY <2>2, <5>1 DEF Backfilled
        <5> QED BY <5>2
      <4> QED BY <4>1, <4>2, <4>3, <3>2 DEF Keyed
    <3> QED BY <1>0, <3>1, <3>2 DEF OneKey
  <2>5. Keyed'
    BY <1>1, <2>2, <2>4 DEF Keyed
  <2>6. \A s \in Sms : Stored(s) => Stored(s)'
    <3> HIDE DEF ns
    <3>1. \A q \in rows : \E r \in rows' : q.sms = r.sms
      BY <1>0, <2>2, BackfilledRows
    <3> QED BY <3>1 DEF Stored
  <2>7. InsertsAreCounted'
    BY <1>0, <1>1, <2>6 DEF InsertsAreCounted, TypeOK
  <2> QED BY <2>3, <2>5, <2>7 DEF KeyInv, OneKey
<1> QED BY <1>2, <1>3

LEMMA KeyDelete ==
    ASSUME KeyInv, TypeOK', NEW x \in Sms, Delete(x)
    PROVE  KeyInv'
<1>0. TypeOK /\ (OneModem \/ HasNamespace(meta)) /\ OneKey /\ InsertsAreCounted
  BY DEF KeyInv
<1>1. /\ rows' \subseteq rows /\ deletes' = deletes + 1
      /\ UNCHANGED <<pc, task, meta, inserted>>
      /\ \A s \in Sms : s # x /\ Stored(s) => Stored(s)'
  BY DEF Delete, identityVars, Stored
<1>2. DedupeNamespace' = DedupeNamespace
  BY <1>1 DEF DedupeNamespace
<1>3. OneKey'
  BY <1>0, <1>1, <1>2 DEF OneKey, Unkeyed, Keyed
<1>4. InsertsAreCounted'
  <2> SUFFICES ASSUME NEW s \in Sms
      PROVE  inserted'[s] <= deletes' + (IF Stored(s)' THEN 1 ELSE 0)
    BY DEF InsertsAreCounted
  <2>1. inserted[s] \in Nat /\ deletes \in Nat
    BY <1>0, InboundAssumption DEF TypeOK
  <2>2. inserted[s] <= deletes + (IF Stored(s) THEN 1 ELSE 0)
    BY <1>0 DEF InsertsAreCounted
  <2>3. CASE s = x
    BY <1>1, <2>1, <2>2, <2>3
  <2>4. CASE s # x
    BY <1>1, <2>1, <2>2, <2>4
  <2> QED BY <2>3, <2>4
<1> QED BY <1>0, <1>1, <1>3, <1>4 DEF KeyInv, HasNamespace

\* With one key for all rows, a new key is a message that has no row.
LEMMA NewIsUnstored ==
    ASSUME KeyInv, NEW t \in Tasks, Working(t, "insert"), IsNew(task[t].sms, task[t].key)
    PROVE  task[t].sms \in Sms /\ ~Stored(task[t].sms)
<1>0. TypeOK /\ OneKey
  BY DEF KeyInv
<1>1. task[t].step = "insert" /\ task[t].sms \in Sms
  BY <1>0, TaskFacts DEF Working
<1>2. Keyed
  BY <1>0, <1>1 DEF OneKey, Unkeyed, Free
<1>3. ASSUME NEW r \in rows, r.sms = task[t].sms  PROVE FALSE
  <2>1. r.key = task[t].key
    BY <1>1, <1>2 DEF Keyed
  <2>2. r = [sms |-> task[t].sms, key |-> task[t].key]
    BY <1>0, <1>3, <2>1 DEF TypeOK, Row
  <2> QED BY <2>2 DEF IsNew
<1> QED BY <1>1, <1>3 DEF Stored

\* A message is inserted if it has no row: all rows have the one key.
LEMMA KeyInsert ==
    ASSUME KeyInv, TypeOK', NEW t \in Tasks, Insert(t)
    PROVE  KeyInv'
<1>0. TypeOK /\ (OneModem \/ HasNamespace(meta)) /\ OneKey /\ InsertsAreCounted
  BY DEF KeyInv
<1>9. task[t].step = "insert" /\ task[t].sms \in Sms
  BY <1>0, TaskFacts DEF Insert, Working
<1>10. PICK x \in Sms, key \in {task[t].key} : x = task[t].sms
  BY <1>9
<1>1. task[t].step = "insert" /\ x = task[t].sms /\ key = task[t].key
  BY <1>9, <1>10
<1>2. Keyed
  <2>1. task[t] # Free
    BY <1>1 DEF Free
  <2> QED BY <1>0, <2>1 DEF OneKey, Unkeyed
<1>3. key = DedupeNamespace
  BY <1>1, <1>2 DEF Keyed
<1>4. /\ UNCHANGED <<deletes, meta>>
      /\ \A u \in Tasks : task'[u] = IF u = t THEN Free ELSE task[u]
  BY <1>0 DEF Insert, identityVars, TypeOK
<1>5. DedupeNamespace' = DedupeNamespace
  BY <1>4 DEF DedupeNamespace
<1>6. CASE ~IsNew(x, key)
  <2>1. UNCHANGED <<rows, inserted>>
    BY <1>1, <1>6 DEF Insert, storeVars
  <2>2. Keyed'
    BY <1>2, <1>4, <1>5, <2>1 DEF Keyed, Free
  <2> QED BY <1>0, <1>4, <2>1, <2>2
          DEF KeyInv, OneKey, InsertsAreCounted, Stored, HasNamespace
<1>7. CASE IsNew(x, key)
  <2>1. /\ rows' = rows \cup {[sms |-> x, key |-> key]}
        /\ inserted' = [inserted EXCEPT ![x] = @ + 1]
    BY <1>1, <1>7 DEF Insert
  <2>2. ~Stored(x)
    BY <1>1, <1>7, NewIsUnstored DEF Insert
  <2>3. Keyed'
    BY <1>2, <1>3, <1>4, <1>5, <2>1 DEF Keyed, Free
  <2>4. InsertsAreCounted'
    <3> SUFFICES ASSUME NEW s \in Sms
        PROVE  inserted'[s] <= deletes + (IF Stored(s)' THEN 1 ELSE 0)
      BY <1>4 DEF InsertsAreCounted
    <3>1. inserted[s] \in Nat /\ deletes \in Nat
      BY <1>0, InboundAssumption DEF TypeOK
    <3>2. inserted[s] <= deletes + (IF Stored(s) THEN 1 ELSE 0)
      BY <1>0 DEF InsertsAreCounted
    <3>3. CASE s = x
      <4>1. Stored(x)'
        <5>1. [sms |-> x, key |-> key] \in rows'
          BY <2>1
        <5>2. \E r \in rows' : r.sms = x
          BY <5>1
        <5> QED BY <5>2 DEF Stored
      <4>2. inserted'[x] = inserted[x] + 1
        BY <1>0, <1>1, <2>1 DEF TypeOK
      <4> QED BY <2>2, <3>1, <3>2, <3>3, <4>1, <4>2
    <3>4. CASE s # x
      <4>1. inserted'[s] = inserted[s]
        BY <1>0, <2>1, <3>4 DEF TypeOK
      <4>2. Stored(s) => Stored(s)'
        BY <2>1 DEF Stored
      <4> QED BY <3>1, <3>2, <4>1, <4>2
    <3> QED BY <3>3, <3>4
  <2> QED BY <1>0, <1>4, <2>3, <2>4 DEF KeyInv, OneKey, HasNamespace
<1> QED BY <1>6, <1>7

LEMMA KeyStep ==
    ASSUME KeyInv, [Next]_vars
    PROVE  KeyInv'
<1>0. TypeOK
  BY DEF KeyInv
<1>1. TypeOK'
  BY <1>0, EnvironmentTypes, WorkerTypes, TaskTypes, StutterTypes DEF Next
<1>2. CASE Resolve
  BY <1>1, <1>2, KeyResolve
<1>3. CASE \E s \in Sms : Delete(s)
  BY <1>1, <1>3, KeyDelete
<1>4. CASE \E t \in Tasks : Insert(t)
  BY <1>1, <1>4, KeyInsert
<1>5. CASE \/ UNCHANGED vars \/ Swap \/ Restart \/ DrainInWait
           \/ \E s \in Sms : Arrive(s) \/ Complete(s)
           \/ SubscribeFails \/ EndWait \/ Subscribe \/ List \/ StreamEnds \/ JoinFailed
  <2>1. UNCHANGED <<rows, inserted, deletes, meta, task>>
    BY <1>5 DEF vars, Swap, Restart, DrainInWait, Arrive, Complete, SubscribeFails, EndWait,
                Subscribe, List, StreamEnds, JoinFailed, storeVars, identityVars
  <2>2. pc = "resolve" => pc' = "resolve"
    BY <1>5 DEF vars, Swap, Restart, DrainInWait, Arrive, Complete, SubscribeFails, EndWait,
                Subscribe, List, StreamEnds, JoinFailed, envVars
  <2>3. Unkeyed => \A t \in Tasks : task'[t] = Free
    BY <2>1 DEF Unkeyed
  <2> QED BY <1>1, <2>1, <2>2, <2>3, KeyKept
<1>6. CASE Crash
  <2>1. /\ UNCHANGED <<rows, inserted, deletes, meta>> /\ pc' = "resolve"
        /\ \A t \in Tasks : task'[t] = Free
    BY <1>6 DEF Crash, storeVars, identityVars
  <2>2. \A t \in Tasks : task'[t].step # "insert"
    BY <2>1 DEF Free
  <2> QED BY <1>1, <2>1, <2>2, KeyKept
<1>7. CASE SpawnInitial \/ SpawnSignal
  <2>1. UNCHANGED <<rows, inserted, deletes, meta, pc>> /\ pc = "run"
    BY <1>7 DEF SpawnInitial, SpawnSignal, storeVars, identityVars
  <2>2. \E s \in Sms : Spawn(s)
    <3>1. CASE SpawnInitial
      BY <1>0, <3>1 DEF SpawnInitial, TypeOK
    <3>2. CASE SpawnSignal
      BY <1>0, <3>2, TailFacts DEF SpawnSignal, TypeOK
    <3> QED BY <1>7, <3>1, <3>2
  <2>3. \A t \in Tasks : task'[t].step = "insert" => task'[t] = task[t]
    BY <1>0, <2>2, SpawnFacts
  <2> QED BY <1>1, <2>1, <2>3, KeyKept
<1>8. CASE \E t \in Tasks : ReadText(t) \/ ReadKey(t) \/ GiveUp(t) \/ ReadFails(t)
  <2>1. PICK t \in Tasks : ReadText(t) \/ ReadKey(t) \/ GiveUp(t) \/ ReadFails(t)
    BY <1>8
  <2>2. UNCHANGED <<rows, inserted, deletes, meta, pc>> /\ task[t].step \in {"read", "key"}
    BY <2>1 DEF ReadText, ReadKey, GiveUp, ReadFails, Working, storeVars, identityVars
  <2>3. \A u \in Tasks : u # t => task'[u] = task[u]
    BY <1>0, <2>1 DEF ReadText, ReadKey, GiveUp, ReadFails, TypeOK
  <2>4. ~Unkeyed
    BY <2>2 DEF Unkeyed, Free
  <2>5. task'[t].step = "insert" => task'[t].key = DedupeNamespace
    <3>1. task[t] \in TaskType
      BY <1>0, <2>2, TaskFacts DEF Free
    <3>2. CASE ReadText(t)
      BY <1>0, <3>1, <3>2 DEF ReadText, TypeOK, TaskType
    <3>3. CASE ReadKey(t)
      BY <1>0, <3>1, <3>3 DEF ReadKey, TypeOK, TaskType
    <3>4. CASE GiveUp(t) \/ ReadFails(t)
      BY <1>0, <3>4 DEF GiveUp, ReadFails, TypeOK, Free
    <3> QED BY <2>1, <3>2, <3>3, <3>4
  <2> QED BY <1>1, <2>2, <2>3, <2>4, <2>5, KeyKept
<1> QED BY <1>2, <1>3, <1>4, <1>5, <1>6, <1>7, <1>8 DEF Next, Worker, Child

LEMMA KeyInit ==
    ASSUME NamespaceIsFixed, Init
    PROVE  KeyInv
<1>1. TypeOK
  BY InitTypes
<1>2. OneModem \/ HasNamespace(meta)
  BY DEF NamespaceIsFixed, Init
<1>3. Unkeyed
  BY DEF Init, Unkeyed
<1>4. InsertsAreCounted
  <2> SUFFICES ASSUME NEW s \in Sms
      PROVE  inserted[s] <= deletes + (IF Stored(s) THEN 1 ELSE 0)
    BY DEF InsertsAreCounted
  <2>1. deletes = 0 /\ inserted[s] = IF s \in Old THEN 1 ELSE 0
    BY DEF Init
  <2>2. s \in Old => Stored(s)
    <3>1. s \in Old => [sms |-> s, key |-> None] \in rows
      BY DEF Init
    <3> QED BY <3>1 DEF Stored
  <2> QED BY <2>1, <2>2
<1> QED BY <1>1, <1>2, <1>3, <1>4 DEF KeyInv, OneKey

\* A received message is inserted once, and once more for each deletion,
\* however often it is listed or announced.
THEOREM InboundStoredOnce ==
    ASSUME NamespaceIsFixed
    PROVE  Spec => []StoredOnce
<1>1. Init => KeyInv
  BY KeyInit
<1>2. KeyInv /\ [Next]_vars => KeyInv'
  BY KeyStep
<1>3. KeyInv => StoredOnce
  <2> SUFFICES ASSUME KeyInv, NEW s \in Sms
      PROVE  inserted[s] <= 1 + deletes
    BY DEF StoredOnce
  <2>1. inserted[s] \in Nat /\ deletes \in Nat
    BY InboundAssumption DEF KeyInv, TypeOK
  <2>2. inserted[s] <= deletes + (IF Stored(s) THEN 1 ELSE 0)
    BY DEF KeyInv, InsertsAreCounted
  <2> QED BY <2>1, <2>2
<1> QED BY <1>1, <1>2, <1>3, PTL DEF Spec

-----------------------------------------------------------------------------
(***************************************************************************)
(* The text of a message comes first: a task goes on from the text to the  *)
(* key and from the key to the row, and no text is ever lost again.        *)
(***************************************************************************)
LEMMA ArrivedChanges ==
    ASSUME [Next]_vars
    PROVE  UNCHANGED arrived \/ \E x \in Sms : Arrive(x) \/ Complete(x)
BY DEF Next, vars, envVars, Delete, Swap, Restart, Crash, Worker, Resolve, EndWait, Subscribe,
       List, SpawnInitial, SpawnSignal, StreamEnds, JoinFailed, SubscribeFails, DrainInWait,
       Child, ReadText, ReadKey, Insert, GiveUp, ReadFails

LEMMA TextStays ==
    ASSUME TypeOK, [Next]_vars
    PROVE  \A s \in Sms : HasText(s) => HasText(s)'
<1>1. CASE UNCHANGED arrived
  BY <1>1 DEF HasText
<1>2. ASSUME NEW x \in Sms, Arrive(x) \/ Complete(x)
      PROVE  \A s \in Sms : HasText(s) => HasText(s)'
  <2>1. /\ arrived[x] \in {"no", "partial"}
        /\ \A s \in Sms : s # x => arrived'[s] = arrived[s]
    BY <1>2 DEF Arrive, Complete, TypeOK
  <2> QED BY <2>1 DEF HasText
<1> QED BY <1>1, <1>2, ArrivedChanges

\* A message on its way to the store was on it before, or was just read.
TasksKept(t) ==
    \A u \in Tasks : task'[u].step \in {"key", "insert"} =>
      \/ task[u].step \in {"key", "insert"} /\ task'[u].sms = task[u].sms
      \/ u = t /\ HasText(task'[u].sms)

LEMMA TasksRead ==
    ASSUME TypeOK, [Next]_vars
    PROVE  \E t : TasksKept(t)
<1>1. CASE UNCHANGED task
  BY <1>1 DEF TasksKept
<1>2. CASE Crash
  BY <1>2 DEF Crash, TasksKept, Free
<1>3. ASSUME NEW s, Spawn(s)  PROVE \E t : TasksKept(t)
  <2>1. PICK t \in Tasks :
          task' = [task EXCEPT ![t] = [sms |-> s, step |-> "read", key |-> None]]
    BY <1>3 DEF Spawn
  <2>2. /\ task'[t].step = "read"
        /\ \A u \in Tasks : u # t => task'[u] = task[u]
    BY <2>1 DEF TypeOK
  <2> QED BY <2>2 DEF TasksKept
<1>4. ASSUME NEW t \in Tasks, ReadText(t)  PROVE TasksKept(t)
  <2>1. /\ HasText(task[t].sms)
        /\ \A u \in Tasks : u # t => task'[u] = task[u]
    BY <1>4 DEF ReadText, TypeOK
  <2>2. task[t] \in TaskType
    BY <1>4, TaskFacts DEF ReadText, Working, Free
  <2>3. task'[t].sms = task[t].sms
    BY <1>4, <2>2 DEF ReadText, TypeOK, TaskType
  <2> QED BY <2>1, <2>3 DEF TasksKept
<1>5. ASSUME NEW t \in Tasks, ReadKey(t)  PROVE TasksKept(t)
  <2>1. \A u \in Tasks : u # t => task'[u] = task[u]
    BY <1>5 DEF ReadKey, TypeOK
  <2>2. task[t] \in TaskType /\ task[t].step = "key"
    BY <1>5, TaskFacts DEF ReadKey, Working, Free
  <2>3. task'[t].sms = task[t].sms
    BY <1>5, <2>2 DEF ReadKey, TypeOK, TaskType
  <2> QED BY <2>1, <2>2, <2>3 DEF TasksKept
<1>6. ASSUME NEW t \in Tasks, Insert(t) \/ GiveUp(t) \/ ReadFails(t)  PROVE TasksKept(t)
  <2>1. /\ task'[t] = Free
        /\ \A u \in Tasks : u # t => task'[u] = task[u]
    BY <1>6 DEF Insert, GiveUp, ReadFails, TypeOK
  <2> QED BY <2>1 DEF TasksKept, Free
<1>7. \/ UNCHANGED task \/ Crash \/ \E s : Spawn(s)
      \/ \E t \in Tasks : ReadText(t) \/ ReadKey(t) \/ Insert(t) \/ GiveUp(t) \/ ReadFails(t)
  BY DEF Next, vars, Arrive, Complete, Delete, Swap, Restart, Worker, Resolve, EndWait,
         Subscribe, List, SpawnInitial, SpawnSignal, StreamEnds, JoinFailed, SubscribeFails,
         DrainInWait, Child
<1> QED BY <1>1, <1>2, <1>3, <1>4, <1>5, <1>6, <1>7

\* What becomes of the rows: they are given keys, one message leaves them, or
\* one enters them.
SameStored == \A s \in Sms : Stored(s)' <=> Stored(s)

LEMMA RowsChange ==
    ASSUME TypeOK, [Next]_vars
    PROVE  \/ SameStored /\ UNCHANGED inserted
           \/ \E x \in Sms : Delete(x)
           \/ \E t \in Tasks : Insert(t) /\ IsNew(task[t].sms, task[t].key)
<1>1. CASE UNCHANGED storeVars
  BY <1>1 DEF SameStored, Stored, storeVars
<1>2. CASE Resolve
  <2>1. inserted' = inserted
    BY <1>2 DEF Resolve
  <2>2. CASE UNCHANGED rows
    BY <2>1, <2>2 DEF SameStored, Stored
  <2>3. CASE plugged # None
    <3>1. PICK id \in {None, plugged}, again \in {None, plugged} :
            ResolveWith(Migrated(meta), id, again)
      BY <1>2, <2>3 DEF Resolve
    <3>2. DedupeNamespace' \in Namespaces /\ rows' = Backfilled(DedupeNamespace')
      BY <2>3, <3>1, ResolveFacts
    <3>3. /\ \A r \in rows' : \E q \in rows : q.sms = r.sms
          /\ \A q \in rows : \E r \in rows' : q.sms = r.sms
      BY <3>2, BackfilledRows
    <3> QED BY <2>1, <3>3 DEF SameStored, Stored
  <2> QED BY <1>2, <2>2, <2>3 DEF Resolve
<1>3. ASSUME NEW t \in Tasks, Insert(t)
      PROVE  IsNew(task[t].sms, task[t].key) \/ UNCHANGED storeVars
  BY <1>3 DEF Insert
<1>4. \/ UNCHANGED storeVars \/ Resolve
      \/ \E s \in Sms : Delete(s)
      \/ \E t \in Tasks : Insert(t)
  BY DEF Next, vars, Arrive, Complete, Swap, Restart, Crash, Worker, EndWait, Subscribe, List,
         SpawnInitial, SpawnSignal, StreamEnds, JoinFailed, SubscribeFails, DrainInWait, Child,
         ReadText, ReadKey, GiveUp, ReadFails
<1> QED BY <1>1, <1>2, <1>3, <1>4

TextInv == TypeOK /\ TextFirst

LEMMA TextInit == Init => TextInv
<1> SUFFICES ASSUME Init PROVE TextInv
  OBVIOUS
<1>1. \A r \in rows : HasText(r.sms)
  BY InboundAssumption DEF Init, HasText
<1>2. \A t \in Tasks : task[t].step \notin {"key", "insert"}
  BY DEF Init, Free
<1> QED BY <1>1, <1>2, InitTypes DEF TextInv, TextFirst

LEMMA TextStep == TextInv /\ [Next]_vars => TextInv'
<1> SUFFICES ASSUME TextInv, [Next]_vars
    PROVE  TextInv'
  OBVIOUS
<1>0. /\ TypeOK
      /\ \A r \in rows : HasText(r.sms)
      /\ \A t \in Tasks : task[t].step \in {"key", "insert"} => HasText(task[t].sms)
  BY DEF TextInv, TextFirst
<1>1. TypeOK'
  BY <1>0, EnvironmentTypes, WorkerTypes, TaskTypes, StutterTypes DEF Next
<1>2. \A s \in Sms : HasText(s) => HasText(s)'
  BY <1>0, TextStays
<1>3. \A t \in Tasks : task'[t].step \in {"key", "insert"} => HasText(task'[t].sms)
  <2>1. PICK t : TasksKept(t)
    BY <1>0, TasksRead
  <2> QED BY <1>0, <2>1 DEF TasksKept
<1>4. \A t \in Tasks : task'[t].step \in {"key", "insert"} => HasText(task[t].sms)'
  <2> SUFFICES ASSUME NEW t \in Tasks, task'[t].step \in {"key", "insert"}
      PROVE  HasText(task[t].sms)'
    OBVIOUS
  <2>1. task'[t].sms \in Sms
    BY <1>1 DEF TypeOK, TaskType, Free
  <2>2. HasText(task'[t].sms)
    BY <1>3
  <2> QED BY <1>2, <2>1, <2>2 DEF HasText
<1>5. \A s \in Sms : Stored(s)' => HasText(s)
  <2>1. \A s \in Sms : Stored(s) => HasText(s)
    BY <1>0 DEF Stored
  <2>2. CASE SameStored
    BY <2>1, <2>2 DEF SameStored
  <2>3. ASSUME NEW x \in Sms, Delete(x)
        PROVE  \A s \in Sms : Stored(s)' => Stored(s)
    BY <2>3 DEF Delete, Stored
  <2>4. ASSUME NEW t \in Tasks, Insert(t), IsNew(task[t].sms, task[t].key)
        PROVE  \A s \in Sms : Stored(s)' => Stored(s) \/ HasText(s)
    <3>1. rows' = rows \cup {[sms |-> task[t].sms, key |-> task[t].key]}
      BY <2>4 DEF Insert
    <3>2. \A s \in Sms : Stored(s)' => Stored(s) \/ s = task[t].sms
      BY <3>1 DEF Stored
    <3>3. HasText(task[t].sms)
      BY <1>0, <2>4 DEF Insert, Working
    <3> QED BY <3>2, <3>3
  <2> QED BY <1>0, <2>1, <2>2, <2>3, <2>4, RowsChange
<1>6. \A r \in rows' : r.sms \in Sms /\ HasText(r.sms)
  BY <1>1, <1>5 DEF TypeOK, Row, Stored
<1>7. \A r \in rows' : HasText(r.sms)'
  BY <1>2, <1>6 DEF HasText
<1> QED BY <1>1, <1>4, <1>7 DEF TextInv, TextFirst

-----------------------------------------------------------------------------
(***************************************************************************)
(* The promise of module InboundPromise: the text of a message comes, the  *)
(* message enters the store, or it leaves the store; every other step does *)
(* nothing that a user sees.                                               *)
(***************************************************************************)
ReceivedNow == {s \in Sms : HasText(s)}
StoredNow == {s \in Sms : Stored(s)}

LEMMA ReceptionInit == Init => Reception!PromiseInit
<1> SUFFICES ASSUME Init PROVE Reception!PromiseInit
  OBVIOUS
<1>1. {s \in Sms : HasText(s)} = Old
  BY InboundAssumption DEF Init, HasText
<1>2. {s \in Sms : Stored(s)} = Old
  <2>1. \A r \in rows : r.sms \in Old
    BY DEF Init
  <2>2. \A s \in Old : [sms |-> s, key |-> None] \in rows
    BY DEF Init
  <2>3. \A s \in Old : \E r \in rows : r.sms = s
    BY <2>2
  <2> QED BY <2>1, <2>3, InboundAssumption DEF Stored
<1>3. inserted = [s \in Sms |-> IF s \in Old THEN 1 ELSE 0]
  BY DEF Init
<1> QED BY <1>1, <1>2, <1>3 DEF Reception!PromiseInit

\* A step of the store that changes nothing a user sees may come with a text.
LEMMA TextArrives ==
    ASSUME TypeOK, [Next]_vars, SameStored, UNCHANGED inserted
    PROVE  Reception!PromiseNext \/ UNCHANGED Reception!promiseVars
<1>1. StoredNow' = StoredNow
  BY DEF SameStored, StoredNow
<1>2. CASE \A s \in Sms : HasText(s)' <=> HasText(s)
  <2>1. ReceivedNow' = ReceivedNow
    BY <1>2 DEF ReceivedNow
  <2> QED BY <1>1, <2>1 DEF Reception!promiseVars, ReceivedNow, StoredNow
<1>3. ASSUME NEW s \in Sms, HasText(s)', ~HasText(s)  PROVE Reception!PromiseNext
  <2>1. ~UNCHANGED arrived
    BY <1>3 DEF HasText
  <2>2. PICK x \in Sms : Arrive(x) \/ Complete(x)
    BY <2>1, ArrivedChanges
  <2>3. \A r \in Sms : r # x => arrived'[r] = arrived[r]
    BY <2>2 DEF Arrive, Complete, TypeOK
  <2>4. \A r \in Sms : r # s => (HasText(r)' <=> HasText(r))
    BY <1>3, <2>3 DEF HasText
  <2>5. ReceivedNow' = ReceivedNow \cup {s} /\ s \notin ReceivedNow
    BY <1>3, <2>4 DEF ReceivedNow
  <2>6. Reception!Receive(s)
    BY <1>1, <2>5 DEF Reception!Receive, ReceivedNow, StoredNow
  <2> QED BY <2>6 DEF Reception!PromiseNext
<1> QED BY <1>2, <1>3, TextStays

LEMMA ReceptionStep ==
    ASSUME KeyInv, TextInv, [Next]_vars
    PROVE  [Reception!PromiseNext]_Reception!promiseVars
<1>0. TypeOK /\ TextFirst
  BY DEF TextInv
<1>1. CASE SameStored /\ UNCHANGED inserted
  BY <1>0, <1>1, TextArrives
<1>2. ASSUME NEW x \in Sms, Delete(x)  PROVE Reception!PromiseNext
  <2>1. UNCHANGED <<arrived, inserted>>
    BY <1>2 DEF Delete, envVars
  <2>2. \A s \in Sms : Stored(s)' <=> Stored(s) /\ s # x
    BY <1>2 DEF Delete, Stored
  <2>3. StoredNow' = StoredNow \ {x} /\ x \in StoredNow
    BY <1>2, <2>2 DEF Delete, StoredNow, Stored
  <2>4. ReceivedNow' = ReceivedNow
    BY <2>1 DEF ReceivedNow, HasText
  <2>5. Reception!Forget(x)
    BY <2>1, <2>3, <2>4 DEF Reception!Forget, ReceivedNow, StoredNow
  <2> QED BY <2>5 DEF Reception!PromiseNext
<1>3. ASSUME NEW t \in Tasks, Insert(t), IsNew(task[t].sms, task[t].key)
      PROVE  Reception!PromiseNext
  <2>1. PICK x : x = task[t].sms
    OBVIOUS
  <2>2. x \in Sms /\ ~Stored(x)
    BY <1>3, <2>1, NewIsUnstored DEF Insert
  <2>3. HasText(x)
    BY <1>0, <1>3, <2>1 DEF TextFirst, Insert, Working
  <2>4. /\ rows' = rows \cup {[sms |-> x, key |-> task[t].key]}
        /\ inserted' = [inserted EXCEPT ![x] = @ + 1]
        /\ arrived' = arrived
    BY <1>3, <2>1 DEF Insert, envVars
  <2>5. \A s \in Sms : Stored(s)' <=> Stored(s) \/ s = x
    <3>1. PICK r : r = [sms |-> x, key |-> task[t].key]
      OBVIOUS
    <3>2. r.sms = x /\ rows' = rows \cup {r}
      BY <2>4, <3>1
    <3> QED BY <3>2 DEF Stored
  <2>6. StoredNow' = StoredNow \cup {x} /\ x \in ReceivedNow \ StoredNow
    BY <2>2, <2>3, <2>5 DEF StoredNow, ReceivedNow
  <2>7. ReceivedNow' = ReceivedNow
    BY <2>4 DEF ReceivedNow, HasText
  <2>8. Reception!Store(x)
    BY <2>4, <2>6, <2>7 DEF Reception!Store, ReceivedNow, StoredNow
  <2> QED BY <2>2, <2>8 DEF Reception!PromiseNext
<1> QED BY <1>0, <1>1, <1>2, <1>3, RowsChange

\* In a database whose namespace cannot change, the worker implements
\* InboundPromise: whatever is listed, announced, lost, crashed or swapped, a
\* message is stored and forwarded only with its text, in one step, and again
\* only after it was deleted.
THEOREM ReceptionKept ==
    ASSUME NamespaceIsFixed
    PROVE  Spec => KeepsReception
<1>1. Init => KeyInv
  BY KeyInit
<1>2. KeyInv /\ [Next]_vars => KeyInv'
  BY KeyStep
<1>3. KeyInv /\ TextInv /\ [Next]_vars => [Reception!PromiseNext]_Reception!promiseVars
  BY ReceptionStep
<1> QED
  BY <1>1, <1>2, <1>3, TextInit, TextStep, ReceptionInit,
     PTL DEF Spec, KeepsReception, Reception!PromiseSpec

-----------------------------------------------------------------------------
\* The reception is complete: types, no message missed, none in two rows or
\* without its text.
THEOREM ReceptionHolds ==
    ASSUME NamespaceIsFixed
    PROVE  Spec => []ReceptionIsComplete
<1>1. Init => KeyInv
  BY KeyInit
<1>2. KeyInv /\ [Next]_vars => KeyInv'
  BY KeyStep
<1>3. KeyInv => NoTwin
  <2> SUFFICES ASSUME KeyInv, NEW r1 \in rows, NEW r2 \in rows, r1.sms = r2.sms
      PROVE  r1 = r2
    BY DEF NoTwin
  <2>1. r1.key = r2.key
    BY DEF KeyInv, OneKey, Unkeyed, Keyed
  <2>2. r1 \in Row /\ r2 \in Row
    BY DEF KeyInv, TypeOK
  <2> QED BY <2>1, <2>2 DEF Row
<1>4. FollowedInv /\ KeyInv /\ TextInv /\ NothingMissed => ReceptionIsComplete
  BY <1>3 DEF FollowedInv, KeyInv, TextInv, ReceptionIsComplete
<1> QED
  BY <1>1, <1>2, <1>4, FollowedInit, FollowedStep, TextInit, TextStep, NothingIsMissed,
     PTL DEF Spec
===========================================================================
