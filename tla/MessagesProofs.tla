--------------------------- MODULE MessagesProofs ---------------------------
(***************************************************************************)
(* Theorems about modules Conversations and Paging, for any phone numbers, *)
(* timestamps and number of messages: the summaries that the triggers keep *)
(* are what a recount would give, pins go with their conversations, and    *)
(* the pages of a reading show every message once.                         *)
(***************************************************************************)
EXTENDS Conversations, Paging, TLAPS, FiniteSetTheorems, WellFoundedInduction

(***************************************************************************)
(* The first element of a finite set                                       *)
(***************************************************************************)
\* R orders S strictly and totally.
StrictlyOrders(R, S) ==
    /\ \A i \in S : <<i, i>> \notin R
    /\ \A i, j, k \in S : <<i, j>> \in R /\ <<j, k>> \in R => <<i, k>> \in R
    /\ \A i, j \in S : i # j => <<i, j>> \in R \/ <<j, i>> \in R

\* A strict order that is total on a finite set has a first element there.
LEMMA HasFirst ==
    ASSUME NEW S, IsFiniteSet(S), S # {}, NEW R, StrictlyOrders(R, S)
    PROVE  \E i \in S : \A j \in S : i # j => <<i, j>> \in R
<1> DEFINE Ahead(i) == {k \in S : <<k, i>> \in R}
           T == {Ahead(i) : i \in S}
<1>1. T \subseteq SUBSET S /\ T # {}
  <2>1. \A i \in S : Ahead(i) \in SUBSET S
    OBVIOUS
  <2>2. PICK i \in S : TRUE
    OBVIOUS
  <2>3. Ahead(i) \in T
    BY <2>2
  <2>4. \A x \in T : \E j \in S : x = Ahead(j)
    OBVIOUS
  <2> HIDE DEF Ahead, T
  <2> QED
    BY <2>1, <2>3, <2>4
<1>2. FiniteSubsetsOf(S) = SUBSET S
  BY FS_FiniteSubsetsOfFinite
<1>3. IsWellFoundedOn(StrictSubsetOrdering(S), SUBSET S)
  BY <1>2, FS_StrictSubsetOrderingWellFounded
<1> HIDE DEF T
<1>4. PICK x \in T : \A y \in T : <<y, x>> \notin StrictSubsetOrdering(S)
  BY <1>1, <1>3, WFMin
<1>5. PICK i \in S : x = Ahead(i)
  BY DEF T
<1>6. \A k \in S : <<k, i>> \notin R
  <2> SUFFICES ASSUME NEW k \in S, <<k, i>> \in R
               PROVE  FALSE
    OBVIOUS
  <2>1. Ahead(k) \subseteq Ahead(i) /\ Ahead(k) # Ahead(i)
    BY DEF StrictlyOrders
  <2>2. Ahead(k) \in T
    BY DEF T
  <2>3. <<Ahead(k), x>> \in StrictSubsetOrdering(S)
    BY <1>5, <2>1 DEF StrictSubsetOrdering
  <2> QED
    BY <1>4, <2>2, <2>3
<1> QED
  BY <1>6 DEF StrictlyOrders

(***************************************************************************)
(* The queries of the triggers                                             *)
(***************************************************************************)
Rows == [Ids -> MessageRow \cup {NoMessage}]

\* l is the first message of p in the order of list_conversations.
IsLast(rows, p, l) ==
    /\ l \in Of(rows, p)
    /\ \A j \in Of(rows, p) : l # j => Newer(rows, l, j)

\* Ids are finite, and so is what a query selects.
LEMMA SelectionsFinite ==
    ASSUME ConversationsAssumption, NEW S \in SUBSET Ids
    PROVE  IsFiniteSet(S) /\ Cardinality(S) \in Nat
<1>1. MaxId \in Int /\ 1 \in Int
  BY DEF ConversationsAssumption
<1>2. IsFiniteSet(Ids)
  BY <1>1, FS_Interval DEF Ids
<1>3. IsFiniteSet(S)
  BY <1>2, FS_Subset
<1> QED
  BY <1>3, FS_CardinalityType

\* One element more, and one less.
LEMMA OneMore ==
    ASSUME NEW S, IsFiniteSet(S), NEW x
    PROVE  /\ x \notin S => Cardinality(S \cup {x}) = Cardinality(S) + 1
           /\ x \in S => Cardinality(S \ {x}) = Cardinality(S) - 1
BY FS_AddElement, FS_RemoveElement

\* Messages are compared by an integer key and an integer id.
LEMMA KeysOf ==
    ASSUME ConversationsAssumption, NEW rows \in Rows, NEW p
    PROVE  /\ Of(rows, p) \subseteq Ids
           /\ UnreadOf(rows, p) \subseteq Of(rows, p)
           /\ \A i \in Of(rows, p) :
                i \in Int /\ rows[i] \in MessageRow /\ rows[i].at \in Int
<1>1. \A i \in Of(rows, p) : i \in Ids /\ rows[i].there
  BY DEF Of
<1>2. \A i \in Of(rows, p) : rows[i] \in MessageRow
  BY <1>1 DEF Rows, NoMessage
<1>3. \A r \in MessageRow : r.at \in Int
  BY DEF MessageRow, ConversationsAssumption
<1>4. \A i \in Ids : i \in Int
  BY DEF Ids
<1> QED
  BY <1>1, <1>2, <1>3, <1>4 DEF UnreadOf

\* A conversation with a message has a last one, and LastOf is it.
LEMMA LastExists ==
    ASSUME ConversationsAssumption, NEW rows \in Rows, NEW p,
           Of(rows, p) # {}
    PROVE  IsLast(rows, p, LastOf(rows, p))
<1> DEFINE S == Of(rows, p)
           R == {ij \in S \X S : Newer(rows, ij[1], ij[2])}
<1>1. IsFiniteSet(S)
  BY KeysOf, SelectionsFinite
<1>2. \A i \in S : <<i, i>> \notin R
  BY KeysOf DEF Newer
<1>3. \A i, j, k \in S : <<i, j>> \in R /\ <<j, k>> \in R => <<i, k>> \in R
  BY KeysOf DEF Newer
<1>4. \A i, j \in S : i # j => <<i, j>> \in R \/ <<j, i>> \in R
  BY KeysOf DEF Newer
<1> HIDE DEF S, R
<1>9. StrictlyOrders(R, S)
  BY <1>2, <1>3, <1>4 DEF StrictlyOrders
<1>5. \E i \in S : \A j \in S : i # j => <<i, j>> \in R
  BY <1>1, <1>9, HasFirst DEF S
<1>6. \E i \in S : \A j \in S : i # j => Newer(rows, i, j)
  BY <1>5 DEF R
<1> QED
  BY <1>6 DEF S, IsLast, LastOf, NewestIn

\* There is only one.
LEMMA LastUnique ==
    ASSUME ConversationsAssumption, NEW rows \in Rows, NEW p, NEW l,
           IsLast(rows, p, l)
    PROVE  l = LastOf(rows, p)
<1>1. Of(rows, p) # {}
  BY DEF IsLast
<1>2. IsLast(rows, p, LastOf(rows, p))
  BY <1>1, LastExists
<1> QED
  BY <1>2, KeysOf DEF IsLast, Newer

\* A recount looks at the messages of the conversation only.
LEMMA SameRecount ==
    ASSUME ConversationsAssumption, NEW A \in Rows, NEW B \in Rows, NEW p,
           Of(A, p) = Of(B, p),
           \A i \in Of(A, p) : A[i] = B[i]
    PROVE  Recount(A, p) = Recount(B, p)
<1>1. UnreadOf(A, p) = UnreadOf(B, p)
  BY DEF UnreadOf
<1>2. LastOf(A, p) = LastOf(B, p)
  <2>1. CASE Of(A, p) = {}
    BY <2>1 DEF LastOf
  <2>2. CASE Of(A, p) # {}
    <3>1. IsLast(A, p, LastOf(A, p))
      BY <2>2, LastExists
    <3>2. IsLast(B, p, LastOf(A, p))
      BY <3>1 DEF IsLast, Newer
    <3> QED
      BY <3>2, LastUnique
  <2> QED
    BY <2>1, <2>2
<1> QED
  BY <1>1, <1>2 DEF Recount

\* What a recount says of an empty conversation, and of one that is not.
LEMMA RecountTyped ==
    ASSUME ConversationsAssumption, NEW rows \in Rows, NEW p
    PROVE  /\ Recount(rows, p) \in SummaryRow
           /\ Recount(rows, p).total \in Nat
           /\ Recount(rows, p).total = 0 <=> Of(rows, p) = {}
           /\ Of(rows, p) = {} => Recount(rows, p) = NoSummary
<1>1. /\ Cardinality(Of(rows, p)) \in Nat
      /\ Cardinality(UnreadOf(rows, p)) \in Nat
      /\ Cardinality(Of(rows, p)) = 0 <=> Of(rows, p) = {}
  BY KeysOf, SelectionsFinite, FS_EmptySet
<1>2. LastOf(rows, p) \in 0..MaxId
  <2>1. CASE Of(rows, p) = {}
    BY <2>1 DEF LastOf, ConversationsAssumption
  <2>2. CASE Of(rows, p) # {}
    BY <2>2, LastExists, KeysOf DEF IsLast, Ids, ConversationsAssumption
  <2> QED
    BY <2>1, <2>2
<1>3. Of(rows, p) = {} => UnreadOf(rows, p) = {} /\ LastOf(rows, p) = 0
  BY DEF UnreadOf, LastOf
<1> QED
  BY <1>1, <1>2, <1>3, FS_EmptySet DEF Recount, SummaryRow, NoSummary
(***************************************************************************)
(* The table after a statement                                             *)
(***************************************************************************)
With(rows, i, r) == [rows EXCEPT ![i] = r]

Marked(rows, S, read) ==
    [i \in Ids |-> IF i \in S THEN [rows[i] EXCEPT !.read = read]
                   ELSE rows[i]]

Changing(rows, S, read) ==
    {i \in S : rows[i].inbound /\ rows[i].read # read}

\* new has row r under the free id i, and is rows otherwise.
OnlyAdds(rows, i, r, new) ==
    /\ new \in Rows /\ new[i] = r
    /\ i \notin Of(rows, r.phone)
    /\ Of(new, r.phone) = Of(rows, r.phone) \cup {i}
    /\ \A q : \A j \in Of(rows, q) : new[j] = rows[j]
    /\ \A q : q # r.phone => Of(new, q) = Of(rows, q)
    /\ UnreadOf(new, r.phone) =
         IF Counts(r) THEN UnreadOf(rows, r.phone) \cup {i}
         ELSE UnreadOf(rows, r.phone)

\* A new row joins its own conversation and no other.
LEMMA AddedRow ==
    ASSUME ConversationsAssumption, NEW rows \in Rows, NEW r \in MessageRow,
           NEW i \in Ids, ~rows[i].there,
           NEW new, new = With(rows, i, r)
    PROVE  OnlyAdds(rows, i, r, new)
<1>1. new \in Rows /\ new[i] = r /\ r.there
  BY DEF Rows, MessageRow, With
<1>2. \A j \in Ids : j # i => new[j] = rows[j]
  BY DEF Rows, With
<1>3. \A q : i \notin Of(rows, q)
  BY DEF Of
<1>4. Of(new, r.phone) = Of(rows, r.phone) \cup {i}
  BY <1>1, <1>2 DEF Of
<1>5. \A q : q # r.phone => Of(new, q) = Of(rows, q)
  BY <1>1, <1>2, <1>3 DEF Of
<1>6. \A q : \A j \in Of(rows, q) : new[j] = rows[j]
  BY <1>2, <1>3, KeysOf
<1>7. UnreadOf(new, r.phone) =
        IF Counts(r) THEN UnreadOf(rows, r.phone) \cup {i}
        ELSE UnreadOf(rows, r.phone)
  BY <1>1, <1>3, <1>4, <1>6 DEF UnreadOf
<1> QED
  BY <1>1, <1>3, <1>4, <1>5, <1>6, <1>7 DEF OnlyAdds

\* rest lacks row i and is rows otherwise.
OnlyRemoves(rows, i, rest) ==
    /\ rest \in Rows /\ ~rest[i].there
    /\ i \in Of(rows, rows[i].phone) /\ rows[i].phone \in Phones
    /\ Of(rest, rows[i].phone) = Of(rows, rows[i].phone) \ {i}
    /\ \A j \in Ids : j # i => rest[j] = rows[j]
    /\ \A q : q # rows[i].phone => Of(rest, q) = Of(rows, q)
    /\ UnreadOf(rest, rows[i].phone) =
         IF Counts(rows[i]) THEN UnreadOf(rows, rows[i].phone) \ {i}
         ELSE UnreadOf(rows, rows[i].phone)

\* A deleted row leaves its own conversation and no other.
LEMMA RemovedRow ==
    ASSUME ConversationsAssumption, NEW rows \in Rows, NEW i \in Ids,
           rows[i].there, NEW rest, rest = With(rows, i, NoMessage)
    PROVE  OnlyRemoves(rows, i, rest)
<1>1. rest \in Rows /\ ~rest[i].there
  BY DEF Rows, NoMessage, With
<1>2. \A j \in Ids : j # i => rest[j] = rows[j]
  BY DEF Rows, With
<1>3. i \in Of(rows, rows[i].phone)
  BY DEF Of
<1>4. rows[i].phone \in Phones
  BY <1>3, KeysOf DEF MessageRow
<1>5. Of(rest, rows[i].phone) = Of(rows, rows[i].phone) \ {i}
  BY <1>1, <1>2 DEF Of
<1>6. \A q : q # rows[i].phone => Of(rest, q) = Of(rows, q)
  BY <1>1, <1>2 DEF Of
<1>7. UnreadOf(rest, rows[i].phone) =
        IF Counts(rows[i]) THEN UnreadOf(rows, rows[i].phone) \ {i}
        ELSE UnreadOf(rows, rows[i].phone)
  <2>1. \A j \in Of(rest, rows[i].phone) : rest[j] = rows[j]
    BY <1>2, <1>5, KeysOf
  <2> QED
    BY <1>3, <1>5, <2>1 DEF UnreadOf
<1> QED
  BY <1>1, <1>2, <1>3, <1>4, <1>5, <1>6, <1>7 DEF OnlyRemoves

\* new differs from rows only in the marks of messages of p: those changed
\* are read now, or no longer.
OnlyMarks(rows, p, new, changed, read) ==
    /\ new \in Rows
    /\ \A i \in Ids : new[i].there <=> rows[i].there
    /\ \A q : Of(new, q) = Of(rows, q)
    /\ \A q : \A i \in Of(rows, q) : new[i].at = rows[i].at
    /\ \A q : q # p => \A i \in Of(rows, q) : new[i] = rows[i]
    /\ changed \subseteq Ids
    /\ read => /\ changed \subseteq UnreadOf(rows, p)
               /\ UnreadOf(new, p) = UnreadOf(rows, p) \ changed
    /\ ~read => /\ changed \cap UnreadOf(rows, p) = {}
                /\ UnreadOf(new, p) = UnreadOf(rows, p) \cup changed

\* Marking messages S of one conversation moves those whose mark changes
\* into or out of its unread ones, and changes nothing else.
LEMMA MarkedRows ==
    ASSUME ConversationsAssumption, NEW rows \in Rows, NEW p,
           NEW S \in SUBSET Of(rows, p), NEW read \in BOOLEAN,
           NEW new, new = Marked(rows, S, read),
           NEW changed, changed = Changing(rows, S, read)
    PROVE  OnlyMarks(rows, p, new, changed, read)
<1>1. \A i \in S : i \in Ids /\ rows[i] \in MessageRow /\ rows[i].phone = p
  BY KeysOf DEF Of
<1>2. \A i \in S : /\ new[i] \in MessageRow
                   /\ new[i].there = rows[i].there
                   /\ new[i].phone = rows[i].phone
                   /\ new[i].at = rows[i].at
                   /\ new[i].inbound = rows[i].inbound
                   /\ new[i].read = read
  BY <1>1 DEF MessageRow, Marked
<1>3. \A i \in Ids : i \notin S => new[i] = rows[i]
  BY DEF Marked
<1>4. new \in Rows
  BY <1>2 DEF Rows, Marked
<1>5. \A q : Of(new, q) = Of(rows, q)
  BY <1>2, <1>3 DEF Of
<1>6. \A q : \A i \in Of(rows, q) : new[i].at = rows[i].at
  BY <1>2, <1>3, KeysOf
<1>7. \A q : q # p => \A i \in Of(rows, q) : new[i] = rows[i]
  BY <1>1, <1>3 DEF Of
<1>8. \A r \in MessageRow : r.read \in BOOLEAN /\ r.inbound \in BOOLEAN
  BY DEF MessageRow
<1>9. changed \subseteq Ids
  BY <1>1 DEF Changing
<1>10. ASSUME read
       PROVE  /\ changed \subseteq UnreadOf(rows, p)
              /\ UnreadOf(new, p) = UnreadOf(rows, p) \ changed
  <2>1. changed \subseteq UnreadOf(rows, p)
    BY <1>1, <1>8, <1>10 DEF UnreadOf, Counts, Changing
  <2>2. UnreadOf(new, p) = UnreadOf(rows, p) \ changed
    <3>1. \A i \in Of(rows, p) :
            Counts(new[i]) <=> Counts(rows[i]) /\ i \notin changed
      BY <1>1, <1>2, <1>3, <1>8, <1>10, KeysOf DEF Counts, Changing
    <3> QED
      BY <1>5, <3>1 DEF UnreadOf
  <2> QED
    BY <2>1, <2>2
<1>11. ASSUME ~read
       PROVE  /\ changed \cap UnreadOf(rows, p) = {}
              /\ UnreadOf(new, p) = UnreadOf(rows, p) \cup changed
  <2>1. changed \cap UnreadOf(rows, p) = {}
    BY <1>1, <1>8, <1>11 DEF UnreadOf, Counts, Changing
  <2>2. UnreadOf(new, p) = UnreadOf(rows, p) \cup changed
    <3>1. \A i \in Of(rows, p) :
            Counts(new[i]) <=> Counts(rows[i]) \/ i \in changed
      BY <1>1, <1>2, <1>3, <1>8, <1>11, KeysOf DEF Counts, Changing
    <3>2. changed \subseteq Of(rows, p)
      BY DEF Changing
    <3> QED
      BY <1>5, <3>1, <3>2 DEF UnreadOf
  <2> QED
    BY <2>1, <2>2
<1> QED
  BY <1>2, <1>3, <1>4, <1>5, <1>6, <1>7, <1>9, <1>10, <1>11 DEF OnlyMarks

(***************************************************************************)
(* The inductive invariant of Conversations                                *)
(***************************************************************************)
\* Before the migration there are no summaries to be exact, and nothing
\* deletes; a pin without messages was left by an earlier version.
ConversationsInv ==
    /\ ConversationsTypeOK
    /\ SummariesExact
    /\ \A p \in pins : Of(row, p) # {} \/ p \in strays
    /\ ~backfilled => doomed = {}

\* A database as it is opened.
LEMMA ConversationsInitInv ==
    ASSUME ConversationsAssumption, ConversationsInit
    PROVE  ConversationsInv
<1>1. \A i \in Ids : i >= nextId => ~row[i].there
  <2>1. ASSUME NEW i \in Ids, i >= nextId
        PROVE  i \notin {1, 2}
    BY <2>1 DEF ConversationsInit, Ids, ConversationsAssumption
  <2> QED
    BY <2>1 DEF ConversationsInit, OldRows
<1>2. nextId \in 1..MaxId + 1
  BY DEF ConversationsInit, ConversationsAssumption
<1>3. summary \in [Phones -> SummaryRow]
  BY DEF ConversationsInit, SummaryRow, NoSummary, ConversationsAssumption
<1>4. row \in [Ids -> MessageRow \cup {NoMessage}]
  BY DEF ConversationsInit, OldRows
<1>5. pins \subseteq Phones /\ strays \subseteq Phones
  BY DEF ConversationsInit
<1>6. ConversationsTypeOK
  BY <1>1, <1>2, <1>3, <1>4, <1>5 DEF ConversationsInit, ConversationsTypeOK
<1> QED
  BY <1>6 DEF ConversationsInit, ConversationsInv, SummariesExact
\* What every step of a ready database relies on.
LEMMA InvFacts ==
    ASSUME ConversationsAssumption, ConversationsInv
    PROVE  /\ row \in Rows
           /\ backfilled =>
                \A p \in Phones : /\ summary[p] = Recount(row, p)
                                  /\ Listed(p) <=> Of(row, p) # {}
<1>1. row \in Rows
  BY DEF ConversationsInv, ConversationsTypeOK, Rows
<1> QED
  BY <1>1, RecountTyped DEF ConversationsInv, SummariesExact, Listed

\* f says of every conversation what a recount of rows says.
IsRecount(f, rows) ==
    /\ f \in [Phones -> SummaryRow]
    /\ \A q \in Phones : f[q] = Recount(rows, q)

\* A step that makes every summary a recount has typed summaries.
LEMMA SummariesTyped ==
    ASSUME ConversationsAssumption, NEW rows \in Rows, NEW f,
           f = [p \in Phones |-> Recount(rows, p)]
    PROVE  f \in [Phones -> SummaryRow]
BY RecountTyped

\* The triggers change one summary and keep the function.
LEMMA OneSummary ==
    ASSUME ConversationsAssumption, ConversationsInv, backfilled,
           NEW rows \in Rows, NEW p \in Phones, NEW s, NEW f,
           f = With(summary, p, s),
           s = Recount(rows, p),
           \A q \in Phones : q # p => Recount(rows, q) = Recount(row, q)
    PROVE  IsRecount(f, rows)
<1>1. summary \in [Phones -> SummaryRow]
  BY DEF ConversationsInv, ConversationsTypeOK
<1>2. \A q \in Phones : f[q] = Recount(rows, q)
  BY <1>1, InvFacts DEF With
<1>3. \A q \in Phones : f[q] \in SummaryRow
  BY <1>2, RecountTyped
<1> QED
  BY <1>1, <1>2, <1>3 DEF With, IsRecount

\* The insert trigger gives what a recount with the new row gives.
LEMMA InsertTriggerExact ==
    ASSUME ConversationsAssumption, ConversationsInv, backfilled,
           NEW r \in MessageRow, NEW i \in Ids, ~row[i].there,
           NEW new, new = With(row, i, r)
    PROVE  IsRecount(InsertTrigger(new, i), new)
<1> DEFINE p == r.phone
           s == summary[p]
           S == Of(row, p)
           U == UnreadOf(row, p)
           u == IF Counts(r) THEN 1 ELSE 0
           next == IF S = {} THEN [total |-> 1, unread |-> u, last |-> i]
                   ELSE [total |-> s.total + 1, unread |-> s.unread + u,
                         last |-> IF Newer(new, i, s.last) THEN i
                                  ELSE s.last]
<1> HIDE DEF next
<1>1. row \in Rows /\ p \in Phones
  BY InvFacts DEF MessageRow
<1>2. /\ new \in Rows /\ new[i] = r
      /\ i \notin S
      /\ Of(new, p) = S \cup {i}
      /\ \A q : \A j \in Of(row, q) : new[j] = row[j]
      /\ \A q : q # p => Of(new, q) = Of(row, q)
      /\ UnreadOf(new, p) = IF Counts(r) THEN U \cup {i} ELSE U
  <2>1. OnlyAdds(row, i, r, new)
    BY <1>1, AddedRow
  <2> QED
    BY <2>1 DEF OnlyAdds
<1>3. s = Recount(row, p) /\ (Listed(p) <=> S # {})
  BY <1>1, InvFacts
<1>4. InsertTrigger(new, i) = With(summary, p, next)
  BY <1>2, <1>3 DEF InsertTrigger, One, With, next
<1>5. \A q \in Phones : q # p => Recount(new, q) = Recount(row, q)
  BY <1>1, <1>2, SameRecount
<1>6. IsFiniteSet(S) /\ IsFiniteSet(U) /\ i \notin U
  BY <1>1, <1>2, KeysOf, SelectionsFinite
<1>7. Cardinality(Of(new, p)) = Cardinality(S) + 1
  BY <1>2, <1>6, OneMore
<1>8. Cardinality(UnreadOf(new, p)) = Cardinality(U) + u
  <2>1. Cardinality(U) \in Nat
    BY <1>6, FS_CardinalityType
  <2>2. Cardinality(U \cup {i}) = Cardinality(U) + 1
    BY <1>6, OneMore
  <2> QED
    BY <1>2, <2>1, <2>2
<1>9. next = Recount(new, p)
  <2>1. CASE S = {}
    <3>1. U = {}
      BY <1>1, <2>1, KeysOf
    <3>2. Cardinality(S) = 0 /\ Cardinality(U) = 0
      BY <2>1, <3>1, FS_EmptySet
    <3>3. IsLast(new, p, i)
      BY <1>2, <2>1 DEF IsLast
    <3>4. i = LastOf(new, p)
      BY <1>2, <3>3, LastUnique
    <3> QED
      BY <1>7, <1>8, <2>1, <3>2, <3>4 DEF Recount, next
  <2>2. CASE S # {}
    <3>1. s.last = LastOf(row, p)
      BY <1>3 DEF Recount
    <3>2. IsLast(row, p, s.last)
      BY <1>1, <2>2, <3>1, LastExists
    <3>3. \A j \in Of(new, p) : j \in Int /\ new[j].at \in Int
      BY <1>2, KeysOf
    <3>4. s.last \in S /\ s.last # i
      BY <1>2, <3>2 DEF IsLast
    <3>5. \A j \in S : s.last # j => Newer(new, s.last, j)
      BY <1>2, <3>2 DEF IsLast, Newer
    <3>6. IsLast(new, p, IF Newer(new, i, s.last) THEN i ELSE s.last)
      <4>1. CASE Newer(new, i, s.last)
        <5>1. \A j \in S : Newer(new, i, j)
          BY <1>2, <3>3, <3>4, <3>5, <4>1 DEF Newer
        <5> QED
          BY <1>2, <4>1, <5>1 DEF IsLast
      <4>2. CASE ~Newer(new, i, s.last)
        <5>1. Newer(new, s.last, i)
          BY <1>2, <3>3, <3>4, <4>2 DEF Newer
        <5> QED
          BY <1>2, <3>4, <3>5, <4>2, <5>1 DEF IsLast
      <4> QED
        BY <4>1, <4>2
    <3>7. (IF Newer(new, i, s.last) THEN i ELSE s.last) = LastOf(new, p)
      BY <1>2, <3>6, LastUnique
    <3>8. s.total = Cardinality(S) /\ s.unread = Cardinality(U)
      BY <1>3 DEF Recount
    <3> QED
      BY <1>7, <1>8, <2>2, <3>7, <3>8 DEF Recount, next
  <2> QED
    BY <2>1, <2>2
<1> QED
  BY <1>1, <1>2, <1>4, <1>5, <1>9, OneSummary

\* The read trigger gives what a recount of the marked rows gives.
LEMMA ReadTriggerExact ==
    ASSUME ConversationsAssumption, ConversationsInv, backfilled,
           NEW p \in Phones, NEW S \in SUBSET Of(row, p), NEW read \in BOOLEAN,
           NEW new, new = Marked(row, S, read)
    PROVE  /\ new \in Rows
           /\ \A i \in Ids : new[i].there <=> row[i].there
           /\ \A q : Of(new, q) = Of(row, q)
           /\ IsRecount(ReadTrigger(p, S, read), new)
<1> DEFINE changed == Changing(row, S, read)
           U == UnreadOf(row, p)
           s == summary[p]
           next == [s EXCEPT !.unread =
                      IF read THEN @ - Cardinality(changed)
                      ELSE @ + Cardinality(changed)]
<1> HIDE DEF next
<1>1. row \in Rows
  BY InvFacts
<1>2. /\ new \in Rows
      /\ \A i \in Ids : new[i].there <=> row[i].there
      /\ \A q : Of(new, q) = Of(row, q)
      /\ \A q : \A i \in Of(row, q) : new[i].at = row[i].at
      /\ \A q : q # p => \A i \in Of(row, q) : new[i] = row[i]
      /\ changed \subseteq Ids
      /\ read => changed \subseteq U /\ UnreadOf(new, p) = U \ changed
      /\ ~read => changed \cap U = {} /\ UnreadOf(new, p) = U \cup changed
  <2>1. OnlyMarks(row, p, new, changed, read)
    BY <1>1, MarkedRows
  <2> QED
    BY <2>1 DEF OnlyMarks
<1>3. s = Recount(row, p) /\ (Listed(p) <=> Of(row, p) # {})
  BY InvFacts
<1>4. \A q \in Phones : q # p => Recount(new, q) = Recount(row, q)
  BY <1>1, <1>2, SameRecount
<1>5. LastOf(new, p) = LastOf(row, p)
  <2>1. CASE Of(row, p) = {}
    BY <1>2, <2>1 DEF LastOf
  <2>2. CASE Of(row, p) # {}
    <3>1. IsLast(row, p, LastOf(row, p))
      BY <1>1, <2>2, LastExists
    <3>2. IsLast(new, p, LastOf(row, p))
      BY <1>2, <3>1 DEF IsLast, Newer
    <3> QED
      BY <1>2, <3>2, LastUnique
  <2> QED
    BY <2>1, <2>2
<1>6. CASE Listed(p)
  <2>1. ReadTrigger(p, S, read) = With(summary, p, next)
    <3>1. summary \in [Phones -> SummaryRow]
      BY DEF ConversationsInv, ConversationsTypeOK
    <3> QED
      BY <1>6, <3>1 DEF ReadTrigger, SummaryRow, Changing, With, next
  <2>2. IsFiniteSet(U) /\ Cardinality(U) \in Nat
    BY <1>1, KeysOf, SelectionsFinite
  <2>4. IsFiniteSet(changed) /\ Cardinality(changed) \in Nat
    BY <1>2, SelectionsFinite
  <2> HIDE DEF changed, U
  <2>5. Cardinality(UnreadOf(new, p)) =
          IF read THEN Cardinality(U) - Cardinality(changed)
          ELSE Cardinality(U) + Cardinality(changed)
    <3>1. CASE read
      <4>1. changed \subseteq U /\ UnreadOf(new, p) = U \ changed
        BY <1>2, <3>1
      <4>2. U \cap changed = changed
        BY <4>1
      <4>3. Cardinality(U \ changed) = Cardinality(U) - Cardinality(U \cap changed)
        BY <2>2, <2>4, FS_Difference
      <4> QED
        BY <3>1, <4>1, <4>2, <4>3
    <3>2. CASE ~read
      <4>1. U \cap changed = {} /\ UnreadOf(new, p) = U \cup changed
        BY <1>2, <3>2
      <4>2. Cardinality(U \cup changed) =
              Cardinality(U) + Cardinality(changed) - Cardinality(U \cap changed)
        BY <2>2, <2>4, FS_Union
      <4>3. Cardinality(U \cap changed) = 0
        BY <4>1, FS_EmptySet
      <4> QED
        BY <2>2, <2>4, <3>2, <4>1, <4>2, <4>3
    <3> QED
      BY <3>1, <3>2
  <2>6. next = Recount(new, p)
    BY <1>2, <1>3, <1>5, <2>5 DEF Recount, U, next
  <2>7. IsRecount(ReadTrigger(p, S, read), new)
    <3>1. new \in Rows
      BY <1>2
    <3> HIDE DEF s
    <3> QED
      BY <1>4, <2>1, <2>6, <3>1, OneSummary
  <2> QED
    BY <1>2, <2>7
<1>7. CASE ~Listed(p)
  <2>1. Of(row, p) = {} /\ Of(new, p) = {}
    BY <1>2, <1>3, <1>7
  <2>2. Recount(new, p) = Recount(row, p)
    BY <1>1, <1>2, <2>1, RecountTyped
  <2>3. ReadTrigger(p, S, read) = summary
    BY <1>7 DEF ReadTrigger
  <2>4. summary \in [Phones -> SummaryRow]
    BY DEF ConversationsInv, ConversationsTypeOK
  <2> QED
    BY <1>2, <1>4, <2>2, <2>3, <2>4, InvFacts DEF IsRecount
<1> QED
  BY <1>6, <1>7

\* The delete trigger gives what a recount without the row gives.
LEMMA DeleteTriggerExact ==
    ASSUME ConversationsAssumption, ConversationsInv, backfilled,
           NEW i \in Ids, row[i].there,
           NEW rest, rest = With(row, i, NoMessage)
    PROVE  IsRecount(DeleteTrigger(i), rest)
<1> DEFINE p == row[i].phone
           s == summary[p]
           S == Of(row, p)
           U == UnreadOf(row, p)
           u == IF Counts(row[i]) THEN 1 ELSE 0
           next == IF s.total = 1 THEN NoSummary
                   ELSE [total |-> s.total - 1, unread |-> s.unread - u,
                         last |-> IF s.last = i THEN LastOf(rest, p)
                                  ELSE s.last]
<1> HIDE DEF next
<1>1. row \in Rows
  BY InvFacts
<1>2. /\ rest \in Rows
      /\ i \in S /\ p \in Phones
      /\ Of(rest, p) = S \ {i}
      /\ \A j \in Ids : j # i => rest[j] = row[j]
      /\ \A q : q # p => Of(rest, q) = Of(row, q)
      /\ UnreadOf(rest, p) = IF Counts(row[i]) THEN U \ {i} ELSE U
  <2>1. OnlyRemoves(row, i, rest)
    BY <1>1, RemovedRow
  <2> QED
    BY <2>1 DEF OnlyRemoves
<1>3. s = Recount(row, p) /\ Listed(p)
  BY <1>2, InvFacts
<1>4. DeleteTrigger(i) = With(summary, p, next)
  BY <1>3 DEF DeleteTrigger, One, With, next
<1>5. \A q \in Phones : q # p => Recount(rest, q) = Recount(row, q)
  <2>1. \A q : q # p => \A j \in Of(row, q) : j \in Ids /\ j # i
    BY DEF Of
  <2> QED
    BY <1>1, <1>2, <2>1, SameRecount
<1>6. /\ IsFiniteSet(S) /\ IsFiniteSet(U)
      /\ Cardinality(S) \in Nat /\ Cardinality(U) \in Nat
  BY <1>1, KeysOf, SelectionsFinite
<1>7. Cardinality(Of(rest, p)) = Cardinality(S) - 1
  BY <1>2, <1>6, OneMore
<1>8. Cardinality(UnreadOf(rest, p)) = Cardinality(U) - u
  <2>1. Counts(row[i]) => i \in U
    BY <1>2 DEF UnreadOf
  <2>2. Counts(row[i]) => Cardinality(U \ {i}) = Cardinality(U) - 1
    BY <1>6, <2>1, OneMore
  <2> QED
    BY <1>2, <1>6, <2>2
<1>9. /\ s.total = Cardinality(S) /\ s.unread = Cardinality(U)
      /\ s.last = LastOf(row, p)
  BY <1>3 DEF Recount
<1>10. next = Recount(rest, p)
  <2>1. CASE s.total = 1
    <3>1. Cardinality(Of(rest, p)) = 0
      BY <1>7, <1>9, <2>1
    <3>2. Of(rest, p) = {}
      BY <1>2, <3>1, RecountTyped DEF Recount
    <3> QED
      BY <1>2, <2>1, <3>2, RecountTyped DEF next
  <2>2. CASE s.total # 1
    <3>1. CASE s.last = i
      BY <1>7, <1>8, <1>9, <2>2, <3>1 DEF Recount, next
    <3>2. CASE s.last # i
      <4>1. IsLast(row, p, s.last)
        BY <1>1, <1>2, <1>9, LastExists
      <4>2. \A j \in Of(rest, p) : j \in Ids /\ j # i /\ j \in S
        BY <1>2, <1>1, KeysOf
      <4>3. s.last \in Of(rest, p)
        BY <1>2, <3>2, <4>1 DEF IsLast
      <4>4. IsLast(rest, p, s.last)
        BY <1>2, <4>1, <4>2, <4>3 DEF IsLast, Newer
      <4>5. s.last = LastOf(rest, p)
        BY <1>2, <4>4, LastUnique
      <4> QED
        BY <1>7, <1>8, <1>9, <2>2, <3>2, <4>5 DEF Recount, next
    <3> QED
      BY <3>1, <3>2
  <2> QED
    BY <2>1, <2>2
<1> QED
  BY <1>2, <1>4, <1>5, <1>10, OneSummary
\* Only the first step of an old database changes it before the migration.
LEMMA MigrateInv ==
    ASSUME ConversationsAssumption, ConversationsInv, Migrate
    PROVE  ConversationsInv'
<1>1. row \in Rows
  BY InvFacts
<1>2. summary' \in [Phones -> SummaryRow]
  BY <1>1, SummariesTyped DEF Migrate
<1>3. \A p \in Phones : summary'[p] = Recount(row', p)
  BY DEF Migrate
<1> QED
  BY <1>2, <1>3
  DEF Migrate, ConversationsInv, ConversationsTypeOK, SummariesExact

\* A message is inserted.
LEMMA InsertInv ==
    ASSUME ConversationsAssumption, ConversationsInv,
           NEW r \in MessageRow, Insert(r)
    PROVE  ConversationsInv'
<1>1. nextId \in Ids /\ ~row[nextId].there
  BY DEF ConversationsInv, ConversationsTypeOK, Insert, Ids,
         ConversationsAssumption
<1>2. row \in Rows /\ backfilled
  BY InvFacts DEF Insert, Ready
<1>3. row' = With(row, nextId, r)
  BY DEF Insert, With
<1>4. /\ row' \in Rows /\ row'[nextId] = r
      /\ Of(row', r.phone) = Of(row, r.phone) \cup {nextId}
      /\ \A q : q # r.phone => Of(row', q) = Of(row, q)
  <2>1. OnlyAdds(row, nextId, r, row')
    BY <1>1, <1>2, <1>3, AddedRow
  <2> QED
    BY <2>1 DEF OnlyAdds
<1>5. IsRecount(summary', row')
  BY <1>1, <1>2, <1>3, InsertTriggerExact DEF Insert
<1>6. ConversationsTypeOK'
  <2>1. \A i \in Ids : i >= nextId + 1 => ~row'[i].there
    BY <1>1 DEF Insert, ConversationsInv, ConversationsTypeOK, Ids,
                ConversationsAssumption
  <2>2. nextId + 1 \in 1..MaxId + 1
    BY <1>1 DEF Ids, ConversationsAssumption
  <2>3. doomed = {}
    BY DEF Insert, Ready
  <2> QED
    BY <1>4, <1>5, <2>1, <2>2, <2>3
    DEF ConversationsInv, ConversationsTypeOK, Insert, Rows, IsRecount
<1>7. SummariesExact'
  BY <1>5 DEF SummariesExact, IsRecount
<1>8. \A p \in pins : Of(row', p) # {} \/ p \in strays
  BY <1>4 DEF ConversationsInv
<1> QED
  BY <1>2, <1>6, <1>7, <1>8 DEF ConversationsInv, Insert

\* Messages of one conversation are marked.
LEMMA MarkInv ==
    ASSUME ConversationsAssumption, ConversationsInv, Ready,
           NEW p \in Phones, NEW S \in SUBSET Of(row, p), NEW read \in BOOLEAN,
           SetRead(S, read),
           summary' = ReadTrigger(p, S, read),
           UNCHANGED <<nextId, pins, doomed, backfilled, strays>>
    PROVE  ConversationsInv'
<1>1. row \in Rows /\ backfilled /\ row' = Marked(row, S, read)
  BY InvFacts DEF Ready, SetRead, Marked
<1>2. /\ row' \in Rows
      /\ \A i \in Ids : row'[i].there <=> row[i].there
      /\ \A q : Of(row', q) = Of(row, q)
      /\ IsRecount(summary', row')
  BY <1>1, ReadTriggerExact
<1>3. ConversationsTypeOK'
  BY <1>2 DEF ConversationsInv, ConversationsTypeOK, Rows, Ready, IsRecount
<1>4. SummariesExact'
  BY <1>2 DEF SummariesExact, IsRecount
<1>5. \A q \in pins : Of(row', q) # {} \/ q \in strays
  BY <1>2 DEF ConversationsInv
<1> QED
  BY <1>1, <1>3, <1>4, <1>5 DEF ConversationsInv

\* A row of a running deletion goes.
LEMMA DeleteRowInv ==
    ASSUME ConversationsAssumption, ConversationsInv, NEW i \in Ids,
           DeleteRow(i)
    PROVE  ConversationsInv'
<1>1. row \in Rows /\ backfilled /\ row[i].there
  BY InvFacts DEF DeleteRow, ConversationsInv, ConversationsTypeOK
<1>2. row' = With(row, i, NoMessage)
  BY DEF DeleteRow, With
<1>3. /\ row' \in Rows /\ ~row'[i].there
      /\ \A j \in Ids : j # i => row'[j] = row[j]
      /\ \A q : q # row[i].phone => Of(row', q) = Of(row, q)
  <2>1. OnlyRemoves(row, i, row')
    BY <1>1, <1>2, RemovedRow
  <2> QED
    BY <2>1 DEF OnlyRemoves
<1>4. IsRecount(summary', row')
  BY <1>1, <1>2, DeleteTriggerExact DEF DeleteRow
<1>5. pins' = IF Of(row', row[i].phone) = {} THEN pins \ {row[i].phone}
              ELSE pins
  BY DEF DeleteRow, PinsAfterDelete
<1>6. ConversationsTypeOK'
  <2>1. \A j \in Ids : j >= nextId => ~row'[j].there
    BY <1>3 DEF ConversationsInv, ConversationsTypeOK
  <2>2. doomed' \in SUBSET {j \in Ids : row'[j].there}
    BY <1>3 DEF ConversationsInv, ConversationsTypeOK, DeleteRow
  <2> QED
    BY <1>3, <1>4, <1>5, <2>1, <2>2
    DEF ConversationsInv, ConversationsTypeOK, DeleteRow, Rows, IsRecount
<1>7. SummariesExact'
  BY <1>4 DEF SummariesExact, IsRecount
<1>8. \A p \in pins' : Of(row', p) # {} \/ p \in strays
  BY <1>3, <1>5 DEF ConversationsInv
<1> QED
  BY <1>1, <1>6, <1>7, <1>8 DEF ConversationsInv, DeleteRow

\* Steps that change neither rows nor summaries.
LEMMA QuietInv ==
    ASSUME ConversationsInv, backfilled,
           UNCHANGED <<row, nextId, summary, backfilled, strays>>,
           doomed' \in SUBSET {i \in Ids : row[i].there},
           \A p \in pins' : p \in pins \/ Of(row, p) # {},
           pins' \subseteq Phones
    PROVE  ConversationsInv'
BY DEF ConversationsInv, ConversationsTypeOK, SummariesExact

\* Every step keeps the invariant.
LEMMA ConversationsStep ==
    ASSUME ConversationsAssumption, ConversationsInv,
           [ConversationsNext]_conversationVars
    PROVE  ConversationsInv'
<1>1. CASE Migrate
  BY <1>1, MigrateInv
<1>2. ASSUME NEW r \in MessageRow, Insert(r)
      PROVE  ConversationsInv'
  BY <1>2, InsertInv
<1>3. ASSUME NEW i \in Ids, NEW read \in BOOLEAN, MarkMessage(i, read)
      PROVE  ConversationsInv'
  <2>1. i \in Of(row, row[i].phone) /\ row \in Rows
    BY <1>3, InvFacts DEF MarkMessage, Of
  <2>2. row[i].phone \in Phones
    BY <2>1, KeysOf DEF MessageRow
  <2> QED
    BY <1>3, <2>1, <2>2, MarkInv DEF MarkMessage
<1>4. ASSUME NEW p \in Phones, MarkConversation(p)
      PROVE  ConversationsInv'
  <2>1. UnreadOf(row, p) \in SUBSET Of(row, p) /\ TRUE \in BOOLEAN
    BY DEF UnreadOf
  <2> QED
    BY <1>4, <2>1, MarkInv DEF MarkConversation
<1>5. ASSUME NEW p \in Phones, DeleteConversation(p)
      PROVE  ConversationsInv'
  <2>1. doomed' \in SUBSET {i \in Ids : row[i].there}
    BY <1>5 DEF DeleteConversation, Of
  <2>2. pins' \subseteq pins /\ pins \subseteq Phones
    BY <1>5 DEF DeleteConversation, ConversationsInv, ConversationsTypeOK
  <2> QED
    BY <1>5, <2>1, <2>2, QuietInv DEF DeleteConversation, Ready
<1>6. ASSUME NEW p \in Phones, NEW pinned \in BOOLEAN, SetPinned(p, pinned)
      PROVE  ConversationsInv'
  <2>1. Of(row, p) # {}
    BY <1>6, InvFacts DEF SetPinned, Ready
  <2>2. pins' \subseteq pins \cup {p}
    BY <1>6 DEF SetPinned
  <2>3. pins \subseteq Phones /\ doomed' \in SUBSET {i \in Ids : row[i].there}
    BY <1>6 DEF SetPinned, ConversationsInv, ConversationsTypeOK
  <2> QED
    BY <1>6, <2>1, <2>2, <2>3, QuietInv DEF SetPinned, Ready
<1>7. ASSUME NEW S \in SUBSET Ids, DeleteMessages(S)
      PROVE  ConversationsInv'
  <2>1. doomed' \in SUBSET {i \in Ids : row[i].there}
    BY <1>7 DEF DeleteMessages
  <2>2. pins' = pins /\ pins \subseteq Phones
    BY <1>7 DEF DeleteMessages, ConversationsInv, ConversationsTypeOK
  <2> QED
    BY <1>7, <2>1, <2>2, QuietInv DEF DeleteMessages, Ready
<1>8. ASSUME NEW i \in Ids, DeleteRow(i)
      PROVE  ConversationsInv'
  BY <1>8, DeleteRowInv
<1>9. CASE UNCHANGED conversationVars
  BY <1>9
  DEF conversationVars, ConversationsInv, ConversationsTypeOK, SummariesExact
<1> QED
  BY <1>1, <1>2, <1>3, <1>4, <1>5, <1>6, <1>7, <1>8, <1>9
  DEF ConversationsNext

\* The invariant holds in every reachable state.
THEOREM ConversationsInvariant == ConversationsSpec => []ConversationsInv
<1>1. ConversationsInit => ConversationsInv
  BY ConversationsInitInv, ConversationsAssumption
<1>2. ConversationsInv /\ [ConversationsNext]_conversationVars
        => ConversationsInv'
  BY ConversationsStep, ConversationsAssumption
<1> QED
  BY <1>1, <1>2, PTL DEF ConversationsSpec

\* Whatever was inserted, read, pinned or deleted before, and in the middle
\* of a deletion, each summary is what a recount of the table would give.
THEOREM SummariesAreExact == ConversationsSpec => []SummariesExact
<1>1. ConversationsInv => SummariesExact
  BY DEF ConversationsInv
<1> QED
  BY <1>1, ConversationsInvariant, PTL

\* No pin outlives its conversation, except those an earlier version left.
THEOREM PinsAreLive == ConversationsSpec => []PinsLive
<1>1. ConversationsInv => PinsLive
  BY DEF ConversationsInv, PinsLive
<1> QED
  BY <1>1, ConversationsInvariant, PTL

(***************************************************************************)
(* Pages                                                                   *)
(***************************************************************************)
\* Every id in use has an integer key.
LEMMA PageKeys ==
    ASSUME PagingAssumption, PagingTypeOK
    PROVE  /\ \A i \in PageIds : i \in Int /\ key[i] \in Int
           /\ held \subseteq PageIds
<1>1. PageIds \subseteq Nat /\ Keys \subseteq Int
  BY DEF PagingAssumption
<1>2. key \in [PageIds -> Keys]
  BY DEF PagingTypeOK
<1>3. held \subseteq PageIds
  BY DEF PagingTypeOK
<1>4. \A i \in PageIds : i \in Int
  BY <1>1
<1>5. \A i \in PageIds : key[i] \in Int
  BY <1>1, <1>2
<1> QED
  BY <1>3, <1>4, <1>5

\* Finitely many messages have a first and a last one in the order of their
\* keys and ids.
LEMMA LeastKey ==
    ASSUME NEW S, IsFiniteSet(S), S # {}, NEW k,
           \A i \in S : i \in Int /\ k[i] \in Int
    PROVE  /\ \E i \in S : \A j \in S :
                i # j => k[j] > k[i] \/ (k[j] = k[i] /\ j > i)
           /\ \E i \in S : \A j \in S :
                i # j => k[i] > k[j] \/ (k[i] = k[j] /\ i > j)
<1> DEFINE Less(i, j) == k[j] > k[i] \/ (k[j] = k[i] /\ j > i)
           R == {ij \in S \X S : Less(ij[1], ij[2])}
           Q == {ij \in S \X S : Less(ij[2], ij[1])}
<1>1. \A i \in S : <<i, i>> \notin R /\ <<i, i>> \notin Q
  OBVIOUS
<1>2. \A i, j, l \in S : <<i, j>> \in R /\ <<j, l>> \in R => <<i, l>> \in R
  OBVIOUS
<1>3. \A i, j, l \in S : <<i, j>> \in Q /\ <<j, l>> \in Q => <<i, l>> \in Q
  OBVIOUS
<1>4. \A i, j \in S : i # j => <<i, j>> \in R \/ <<j, i>> \in R
  OBVIOUS
<1>5. \A i, j \in S : i # j => <<i, j>> \in Q \/ <<j, i>> \in Q
  OBVIOUS
<1> HIDE DEF R, Q
<1>6. StrictlyOrders(R, S) /\ StrictlyOrders(Q, S)
  BY <1>1, <1>2, <1>3, <1>4, <1>5 DEF StrictlyOrders
<1>7. \E i \in S : \A j \in S : i # j => <<i, j>> \in R
  BY <1>6, HasFirst
<1>8. \E i \in S : \A j \in S : i # j => <<i, j>> \in Q
  BY <1>6, HasFirst
<1>9. \E i \in S : \A j \in S :
        i # j => k[j] > k[i] \/ (k[j] = k[i] /\ j > i)
  BY <1>7 DEF R
<1>10. \E i \in S : \A j \in S :
         i # j => k[i] > k[j] \/ (k[i] = k[j] /\ i > j)
  BY <1>8 DEF Q
<1> QED
  BY <1>9, <1>10

\* A page that is not empty has a last message, which all others precede.
LEMMA LastOfPageIsLast ==
    ASSUME PagingAssumption, PagingTypeOK, NEW S, S \subseteq PageIds,
           IsFiniteSet(S), S # {}
    PROVE  /\ LastOfPage(S) \in S
           /\ \A j \in S : LastOfPage(S) # j => Before(j, LastOfPage(S))
<1>1. \A i \in S : i \in Int /\ key[i] \in Int
  BY PageKeys
<1>2. \E i \in S : \A j \in S :
        i # j => key[j] > key[i] \/ (key[j] = key[i] /\ j > i)
  BY <1>1, LeastKey
<1>3. \E i \in S : \A j \in S : i # j => Before(j, i)
  BY <1>2 DEF Before
<1> QED
  BY <1>3 DEF LastOfPage
\* The first page of S is full, or it is all of S; nothing in it comes after
\* anything left out.
LEMMA PageFacts ==
    ASSUME PagingAssumption, PagingTypeOK, NEW S, S \subseteq PageIds
    PROVE  /\ Page(S) \subseteq S /\ IsFiniteSet(Page(S))
           /\ \A i \in S \ Page(S), j \in Page(S) : Before(j, i)
           /\ Page(S) = S \/ Cardinality(Page(S)) = PageSize
<1> DEFINE Earlier(i) == {j \in S : Before(j, i)}
<1>1. IsFiniteSet(S)
  BY FS_Subset DEF PagingAssumption
<1>2. \A i \in S : i \in Int /\ key[i] \in Int
  BY PageKeys
<1>3. \A i : IsFiniteSet(Earlier(i)) /\ Cardinality(Earlier(i)) \in Nat
  BY <1>1, FS_Subset, FS_CardinalityType
<1>4. Page(S) = {i \in S : Cardinality(Earlier(i)) < PageSize}
  BY DEF Page
<1>5. PageSize \in Nat /\ PageSize > 0
  BY DEF PagingAssumption
<1>6. \A i, j \in S : i # j => Before(i, j) \/ Before(j, i)
  BY <1>2 DEF Before
<1>7. \A i, j \in S : Before(i, j) => Earlier(i) \subseteq Earlier(j)
  <2>1. \A h, i, j \in S : Before(h, i) /\ Before(i, j) => Before(h, j)
    BY <1>2 DEF Before
  <2> QED
    BY <2>1
<1> HIDE DEF Earlier
<1>8. Page(S) \subseteq S /\ IsFiniteSet(Page(S))
  BY <1>1, <1>4, FS_Subset
<1>9. ASSUME NEW i \in S \ Page(S), NEW j \in Page(S)
      PROVE  Before(j, i)
  <2>1. SUFFICES ASSUME Before(i, j)
                 PROVE  FALSE
    BY <1>6, <1>8
  <2>2. Cardinality(Earlier(i)) <= Cardinality(Earlier(j))
    BY <1>3, <1>7, <1>8, <2>1, FS_Subset
  <2> QED
    BY <1>3, <1>4, <1>5, <2>2
<1>10. ASSUME Page(S) # S
       PROVE  Cardinality(Page(S)) = PageSize
  <2>1. S \ Page(S) # {} /\ IsFiniteSet(S \ Page(S))
    BY <1>1, <1>8, <1>10, FS_Difference
  <2>2. PICK m \in S \ Page(S) : \A j \in S \ Page(S) :
          m # j => key[m] > key[j] \/ (key[m] = key[j] /\ m > j)
    BY <1>2, <2>1, LeastKey
  <2>3. Earlier(m) \subseteq Page(S)
    <3>1. \A j \in S : Before(j, m) => j # m /\ ~Before(m, j)
      BY <1>2 DEF Before
    <3>2. \A j \in S \ Page(S) : m # j => Before(m, j)
      BY <2>2 DEF Before
    <3> QED
      BY <3>1, <3>2 DEF Earlier
  <2>4. Cardinality(Earlier(m)) >= PageSize
    BY <1>3, <1>4, <1>5
  <2>5. Cardinality(Page(S)) \in Nat /\ Cardinality(Page(S)) >= PageSize
    <3>1. Cardinality(Page(S)) \in Nat
      BY <1>8, FS_CardinalityType
    <3>2. Cardinality(Earlier(m)) <= Cardinality(Page(S))
      BY <1>8, <2>3, FS_Subset
    <3> QED
      BY <1>3, <1>5, <2>4, <3>1, <3>2
  <2>6. Page(S) # {}
    BY <1>5, <2>5, FS_EmptySet
  <2>7. PICK l \in Page(S) : \A j \in Page(S) :
          l # j => key[j] > key[l] \/ (key[j] = key[l] /\ j > l)
    BY <1>2, <1>8, <2>6, LeastKey
  <2>8. Page(S) \ {l} \subseteq Earlier(l)
    BY <1>8, <2>7 DEF Earlier, Before
  <2>9. Cardinality(Page(S) \ {l}) <= Cardinality(Earlier(l))
    BY <1>3, <2>8, FS_Subset
  <2>10. Cardinality(Page(S) \ {l}) = Cardinality(Page(S)) - 1
    BY <1>8, <2>7, FS_RemoveElement
  <2>11. Cardinality(Earlier(l)) < PageSize
    BY <1>4, <2>7
  <2> QED
    BY <1>3, <1>5, <2>5, <2>9, <2>10, <2>11
<1> QED
  BY <1>8, <1>9, <1>10

\* A page moves the cursor to its end; the pages so far stay before it.
LEMMA ReadPageInv ==
    ASSUME PagingAssumption, PagesInv, ReadPage
    PROVE  PagesInv'
<1> DEFINE S == Selected
           P == Page(S)
           l == LastOfPage(P)
<1>1. PagingTypeOK /\ held \subseteq PageIds
  BY PageKeys DEF PagesInv
<1>2. S \subseteq held /\ S \subseteq PageIds
  BY <1>1 DEF Selected
<1>3. \A i \in PageIds : i \in Int /\ key[i] \in Int
  BY <1>1, PageKeys
<1>4. /\ P \subseteq S /\ IsFiniteSet(P)
      /\ \A i \in S \ P, j \in P : Before(j, i)
      /\ P = S \/ Cardinality(P) = PageSize
  BY <1>1, <1>2, PageFacts
<1>5. /\ got' = got \cup P
      /\ again' = again \cup (got \cap P)
      /\ cursor' = IF P = {} THEN cursor ELSE [id |-> l, key |-> key[l]]
      /\ reading' = IF Cardinality(P) = PageSize THEN "yes" ELSE "end"
      /\ UNCHANGED <<held, key, used, base>>
  BY DEF ReadPage
<1>6. P # {} => l \in P /\ \A j \in P : l # j => Before(j, l)
  BY <1>1, <1>2, <1>4, LastOfPageIsLast
<1> HIDE DEF l, P
<1>7. cursor # NoCursor => /\ cursor.id \in PageIds
                           /\ cursor.key \in Int
  BY <1>1 DEF PagingTypeOK, Cursors, PagingAssumption
<1>8. got \cap P = {}
  <2>1. CASE cursor = NoCursor
    BY <2>1 DEF PagesInv
  <2>2. CASE cursor # NoCursor
    BY <1>4, <2>2 DEF PagesInv, Selected
  <2> QED
    BY <2>1, <2>2
<1>9. PagingTypeOK'
  <2>1. P \subseteq used
    BY <1>1, <1>2, <1>4 DEF PagingTypeOK
  <2>2. cursor' \in Cursors \cup {NoCursor}
    BY <1>1, <1>2, <1>4, <1>5, <1>6 DEF PagingTypeOK, Cursors
  <2> QED
    BY <1>1, <1>5, <2>1, <2>2 DEF PagingTypeOK
<1>10. again' = {}
  BY <1>5, <1>8 DEF PagesInv
<1>11. cursor' = NoCursor => got' = {}
  BY <1>2, <1>4, <1>5, <1>6 DEF PagesInv, NoCursor, PagingAssumption
<1>12. ASSUME cursor' # NoCursor, NEW i \in got'
       PROVE  ~Past(i, cursor.key, cursor.id)'
  <2>1. CASE P = {}
    BY <1>5, <1>12, <2>1 DEF PagesInv, Past
  <2>2. CASE P # {}
    <3>1. cursor'.id = l /\ cursor'.key = key[l] /\ l \in PageIds /\ l \in S
      BY <1>2, <1>4, <1>5, <1>6, <2>2
    <3>2. CASE i \in P
      BY <1>2, <1>3, <1>4, <1>5, <1>6, <2>2, <3>1, <3>2 DEF Before, Past
    <3>3. CASE i \in got
      <4>1. cursor # NoCursor /\ i \in PageIds
        BY <1>1, <3>3 DEF PagesInv, PagingTypeOK
      <4>2. Past(l, cursor.key, cursor.id) /\ ~Past(i, cursor.key, cursor.id)
        BY <3>1, <3>3, <4>1 DEF PagesInv, Selected
      <4>3. cursor.id \in Int /\ cursor.key \in Int
        BY <1>3, <1>7, <4>1
      <4> QED
        BY <1>3, <1>5, <3>1, <4>1, <4>2, <4>3 DEF Past
    <3> QED
      BY <1>5, <1>12, <3>2, <3>3
  <2> QED
    BY <2>1, <2>2
<1>13. ASSUME NEW i \in base \cap held
       PROVE  i \in got \/ i \in S
  BY <1>13 DEF PagesInv, Selected
<1>14. ASSUME cursor' # NoCursor, NEW i \in (base \cap held)'
       PROVE  i \in got' \/ Past(i, cursor.key, cursor.id)'
  <2>1. i \in base \cap held /\ i \in PageIds
    BY <1>1, <1>5, <1>14
  <2>2. CASE P = {}
    BY <1>5, <1>14, <2>1, <2>2 DEF PagesInv, Past
  <2>3. CASE P # {} /\ i \in S \ P
    <3>1. Before(l, i) /\ l \in PageIds
      BY <1>2, <1>4, <1>6, <2>3
    <3>2. cursor'.id = l /\ cursor'.key = key[l] /\ key' = key
      BY <1>5, <2>3
    <3> QED
      BY <3>1, <3>2 DEF Before, Past
  <2> QED
    BY <1>5, <1>13, <2>1, <2>2, <2>3
<1>15. PagesComplete'
  <2>1. SUFFICES ASSUME reading' = "end"
                 PROVE  (base \cap held)' \subseteq got'
    BY DEF PagesComplete
  <2>2. P = S
    BY <1>4, <1>5, <2>1
  <2> QED
    BY <1>5, <1>13, <2>2
<1> QED
  BY <1>9, <1>10, <1>11, <1>12, <1>14, <1>15 DEF PagesInv

\* Every step keeps the invariant.
LEMMA PagesStep ==
    ASSUME PagingAssumption, PagesInv, [PagingNext]_pagingVars
    PROVE  PagesInv'
<1>1. ASSUME NEW i \in PageIds, Arrive(i)
      PROVE  PagesInv'
  <2>1. PagingTypeOK' /\ i \notin base
    BY <1>1 DEF PagesInv, PagingTypeOK, Arrive
  <2> QED
    BY <1>1, <2>1 DEF PagesInv, PagesComplete, Arrive, Past
<1>2. ASSUME NEW i \in PageIds, RemoveMessage(i)
      PROVE  PagesInv'
  <2>1. PagingTypeOK'
    BY <1>2 DEF PagesInv, PagingTypeOK, RemoveMessage
  <2> QED
    BY <1>2, <2>1 DEF PagesInv, PagesComplete, RemoveMessage, Past
<1>3. CASE Open
  <2>1. PagingTypeOK'
    BY <1>3 DEF PagesInv, PagingTypeOK, Open
  <2> QED
    BY <1>3, <2>1 DEF PagesInv, PagesComplete, Open
<1>4. CASE ReadPage
  BY <1>4, ReadPageInv
<1>5. CASE CursorFails
  <2>1. PagingTypeOK'
    BY <1>5 DEF PagesInv, PagingTypeOK, CursorFails
  <2> QED
    BY <1>5, <2>1 DEF PagesInv, PagesComplete, CursorFails, Past
<1>6. CASE UNCHANGED pagingVars
  BY <1>6 DEF pagingVars, PagesInv, PagingTypeOK, PagesComplete, Past
<1> QED
  BY <1>1, <1>2, <1>3, <1>4, <1>5, <1>6 DEF PagingNext

\* The invariant of a reading holds in every reachable state.
THEOREM PagesInvariant == PagingSpec => []PagesInv
<1>1. PagingInit => PagesInv
  BY PagingAssumption
  DEF PagingInit, PagesInv, PagingTypeOK, PagesComplete, PagingAssumption
<1>2. PagesInv /\ [PagingNext]_pagingVars => PagesInv'
  BY PagesStep, PagingAssumption
<1> QED
  BY <1>1, <1>2, PTL DEF PagingSpec

\* No reading shows a message twice, whatever comes and goes meanwhile.
THEOREM PagesShowOnce == PagingSpec => []PagesOnce
<1>1. PagesInv => PagesOnce
  BY DEF PagesInv, PagesOnce
<1> QED
  BY <1>1, PagesInvariant, PTL

\* A reading that ended showed all that was there from its begin to its end.
THEOREM PagesShowAll == PagingSpec => []PagesComplete
<1>1. PagesInv => PagesComplete
  BY DEF PagesInv
<1> QED
  BY <1>1, PagesInvariant, PTL

\* The list of conversations and its pins agree with the messages table
\* (the triggers on messages).
THEOREM SummariesAlwaysMatch == ConversationsSpec => []SummariesMatch
BY SummariesAreExact, PinsAreLive, PTL DEF SummariesMatch

\* A reading shows each message that stays exactly once (query_messages).
THEOREM PagesAlwaysCoverOnce == PagingSpec => []PagesCoverOnce
BY PagesShowOnce, PagesShowAll, PTL DEF PagesCoverOnce
=============================================================================
