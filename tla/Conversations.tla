--------------------------- MODULE Conversations ---------------------------
(***************************************************************************)
(* The messages table, the summary of every conversation and the pins      *)
(* (src/src/storage/mod.rs, storage/messages.rs, storage/retention.rs,     *)
(* storage/migrations.rs).  The summaries are never recounted: triggers    *)
(* adjust them row by row, whatever statement changed the rows.            *)
(*                                                                         *)
(* Every action but DeleteRow is one transaction.  A statement that        *)
(* deletes several rows fires the trigger after each of them, so a         *)
(* deletion is DeleteMessages, DeleteConversation or RunRetention, which   *)
(* decide what goes, and a DeleteRow for each row; the database is locked  *)
(* meanwhile (doomed # {}).                                                *)
(*                                                                         *)
(* Abstractions.  A timestamp is its sort key, COALESCE(julianday(         *)
(* timestamp), julianday(created_at)).  Which rows DELETE_BLOCKED_SQL      *)
(* protects is the matter of modules Outbound and Delivery: here any set   *)
(* of rows may be free to go.  Calls that fail change nothing and have no  *)
(* action.  Texts, favourites and the other columns do not matter here.    *)
(***************************************************************************)
EXTENDS Integers, FiniteSets

CONSTANTS
    Phones,         \* phone numbers: a conversation is the rows of one
    Times,          \* sort keys
    MaxId           \* bound on AUTOINCREMENT ids, which are never reused

ASSUME ConversationsAssumption ==
    /\ Times \subseteq Int
    /\ MaxId \in Nat

Ids == 1..MaxId

VARIABLES
    row,            \* row[i]: the messages row i
    nextId,         \* the next AUTOINCREMENT id
    summary,        \* summary[p]: the conversation_summaries row of p
    pins,           \* phone numbers in conversation_pins
    doomed,         \* rows a running deletion still has to delete
    backfilled,     \* meta has conversation_summaries_backfilled
    strays          \* pins without a message that an earlier version left

conversationVars ==
    <<row, nextId, summary, pins, doomed, backfilled, strays>>

\* A row, what the triggers look at: its conversation, its sort key, whether
\* it is inbound and whether read_at is set.  An id not in use has no row.
MessageRow == [there: {TRUE}, phone: Phones, at: Times, inbound: BOOLEAN,
               read: BOOLEAN]
NoMessage == [there |-> FALSE]

\* last = 0 and total = 0: p has no summary row.
SummaryRow == [total: Int, unread: Int, last: 0..MaxId]
NoSummary == [total |-> 0, unread |-> 0, last |-> 0]
Listed(p) == summary[p].total # 0

\* Every state has these types.
ConversationsTypeOK ==
    /\ row \in [Ids -> MessageRow \cup {NoMessage}]
    /\ nextId \in 1..MaxId + 1
    /\ \A i \in Ids : i >= nextId => ~row[i].there
    /\ summary \in [Phones -> SummaryRow]
    /\ pins \subseteq Phones
    /\ doomed \in SUBSET {i \in Ids : row[i].there}
    /\ backfilled \in BOOLEAN
    /\ strays \subseteq Phones

----------------------------------------------------------------------------
(***************************************************************************)
(* The queries of the triggers and of the backfill.                        *)
(***************************************************************************)
Of(rows, p) == {i \in Ids : rows[i].there /\ rows[i].phone = p}

Counts(r) == r.inbound /\ ~r.read

UnreadOf(rows, p) == {i \in Of(rows, p) : Counts(rows[i])}

\* ORDER BY the sort key DESC, id DESC: i comes before j.
Newer(rows, i, j) == \/ rows[i].at > rows[j].at
                     \/ rows[i].at = rows[j].at /\ i > j

\* ... LIMIT 1.
NewestIn(rows, S) ==
    CHOOSE i \in S : \A j \in S : i # j => Newer(rows, i, j)
LastOf(rows, p) ==
    IF Of(rows, p) = {} THEN 0 ELSE NewestIn(rows, Of(rows, p))

\* COUNT(*), SUM(...) and the latest id of the backfill.
Recount(rows, p) == [total  |-> Cardinality(Of(rows, p)),
                     unread |-> Cardinality(UnreadOf(rows, p)),
                     last   |-> LastOf(rows, p)]

One(condition) == IF condition THEN 1 ELSE 0

\* A mutant: the message stored last is taken for the last message.
InsertTriggerLastWins(rows, i) ==
    LET p == rows[i].phone
        s == summary[p]
    IN  [summary EXCEPT ![p] =
            [total |-> s.total + 1, unread |-> s.unread + One(Counts(rows[i])),
             last |-> i]]

\* messages_insert_conversation_summary
InsertTrigger(rows, i) ==
    LET p == rows[i].phone
        s == summary[p]
        u == One(Counts(rows[i]))
    IN  [summary EXCEPT ![p] =
            IF ~Listed(p) THEN [total |-> 1, unread |-> u, last |-> i]
            ELSE [total |-> s.total + 1, unread |-> s.unread + u,
                  last |-> IF Newer(rows, i, s.last) THEN i ELSE s.last]]

\* messages_update_read_conversation_summary, for the rows S of conversation
\* p of which a statement sets read_at to `read': each row whose read_at
\* changes adjusts the count.
ReadTrigger(p, S, read) ==
    LET changed == {i \in S : row[i].inbound /\ row[i].read # read}
    IN  IF ~Listed(p) THEN summary
        ELSE [summary EXCEPT ![p].unread =
                 IF read THEN @ - Cardinality(changed)
                 ELSE @ + Cardinality(changed)]

\* messages_delete_conversation_summary: the counts, the last message, and
\* the row itself once it counts nothing.
DeleteTrigger(i) ==
    LET p == row[i].phone
        s == summary[p]
        rest == [row EXCEPT ![i] = NoMessage]
    IN  IF ~Listed(p) THEN summary
        ELSE [summary EXCEPT ![p] =
                IF s.total = 1 THEN NoSummary
                ELSE [total  |-> s.total - 1,
                      unread |-> s.unread - One(Counts(row[i])),
                      last   |-> IF s.last = i THEN LastOf(rest, p)
                                 ELSE s.last]]

\* A mutant, the trigger as it was before migrations.rs replaced it.
PinsAfterDeleteOld(i) == pins

\* ... and the pin of a conversation that has no message left.
PinsAfterDelete(i) ==
    LET p == row[i].phone
        rest == [row EXCEPT ![i] = NoMessage]
    IN  IF Of(rest, p) = {} THEN pins \ {p} ELSE pins

----------------------------------------------------------------------------
(***************************************************************************)
(* A new database, or one of a version that kept no summaries.  Such a     *)
(* version may have left the pin of a conversation that it deleted.        *)
(***************************************************************************)
OldRows == {rows \in [Ids -> MessageRow \cup {NoMessage}] :
              \A i \in Ids : rows[i].there => i \in {1, 2}}

ConversationsInit ==
    /\ row \in OldRows
    /\ nextId = IF MaxId < 3 THEN MaxId + 1 ELSE 3
    /\ summary = [p \in Phones |-> NoSummary]
    /\ pins \in SUBSET Phones
    /\ doomed = {}
    /\ backfilled = FALSE
    /\ strays = {p \in pins : Of(row, p) = {}}

\* MessageStore::open runs the migrations first; nothing else touches the
\* database before they are committed.  Opening it again changes nothing.
Migrate ==
    /\ ~backfilled
    /\ backfilled' = TRUE
    /\ summary' = [p \in Phones |-> Recount(row, p)]
    /\ UNCHANGED <<row, nextId, pins, doomed, strays>>

Ready == backfilled /\ doomed = {}

\* insert_message_on, by a receive or by create_claimed_outbound.
Insert(r) ==
    /\ Ready
    /\ nextId <= MaxId
    /\ row' = [row EXCEPT ![nextId] = r]
    /\ nextId' = nextId + 1
    /\ summary' = InsertTrigger(row', nextId)
    /\ UNCHANGED <<pins, doomed, backfilled, strays>>

SetRead(S, read) ==
    row' = [i \in Ids |-> IF i \in S THEN [row[i] EXCEPT !.read = read]
                          ELSE row[i]]

\* mark_read, mark_unread
MarkMessage(i, read) ==
    /\ Ready
    /\ row[i].there
    /\ SetRead({i}, read)
    /\ summary' = ReadTrigger(row[i].phone, {i}, read)
    /\ UNCHANGED <<nextId, pins, doomed, backfilled, strays>>

\* mark_conversation_read
MarkConversation(p) ==
    /\ Ready
    /\ SetRead(UnreadOf(row, p), TRUE)
    /\ summary' = ReadTrigger(p, UnreadOf(row, p), TRUE)
    /\ UNCHANGED <<nextId, pins, doomed, backfilled, strays>>

\* set_conversation_pinned
SetPinned(p, pinned) ==
    /\ Ready
    /\ Listed(p)
    /\ pins' = IF pinned THEN pins \cup {p} ELSE pins \ {p}
    /\ UNCHANGED <<row, nextId, summary, doomed, backfilled, strays>>

\* delete_messages, after every id was found and none was blocked; and the
\* statements of a retention batch.
DeleteMessages(S) ==
    /\ Ready
    /\ S # {}
    /\ \A i \in S : row[i].there
    /\ doomed' = S
    /\ UNCHANGED <<row, nextId, summary, pins, backfilled, strays>>

\* delete_conversation
DeleteConversation(p) ==
    /\ Ready
    /\ Of(row, p) # {}
    /\ pins' = pins \ {p}
    /\ doomed' = Of(row, p)
    /\ UNCHANGED <<row, nextId, summary, backfilled, strays>>

DeleteRow(i) ==
    /\ i \in doomed
    /\ row' = [row EXCEPT ![i] = NoMessage]
    /\ doomed' = doomed \ {i}
    /\ summary' = DeleteTrigger(i)
    /\ pins' = PinsAfterDelete(i)
    /\ UNCHANGED <<nextId, backfilled, strays>>

ConversationsNext ==
    \/ Migrate
    \/ \E r \in MessageRow : Insert(r)
    \/ \E i \in Ids, read \in BOOLEAN : MarkMessage(i, read)
    \/ \E p \in Phones : MarkConversation(p) \/ DeleteConversation(p)
    \/ \E p \in Phones, pinned \in BOOLEAN : SetPinned(p, pinned)
    \/ \E S \in SUBSET Ids : DeleteMessages(S)
    \/ \E i \in Ids : DeleteRow(i)

ConversationsSpec ==
    ConversationsInit /\ [][ConversationsNext]_conversationVars

----------------------------------------------------------------------------
(***************************************************************************)
(* Properties.                                                             *)
(***************************************************************************)
\* Whatever sequence of inserts, reads and deletions went before, and at
\* every row of a running deletion, the stored summary of a conversation is
\* what a recount would give: the count, the unread inbound messages and the
\* message that comes last (list_conversations joins on it, so a wrong one
\* hides the conversation).
SummariesExact ==
    backfilled => \A p \in Phones : summary[p] = Recount(row, p)

\* A pin goes with its conversation: none is left that would pin a later
\* conversation with the same number, except those an earlier version left.
PinsLive ==
    backfilled => \A p \in pins : Of(row, p) # {} \/ p \in strays

\* What the list of conversations shows is what the table holds: a summary
\* agrees with its rows, a pin with a conversation (the triggers on messages).
SummariesMatch ==
    /\ SummariesExact
    /\ PinsLive
============================================================================
