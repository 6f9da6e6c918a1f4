------------------------------- MODULE Paging -------------------------------
(***************************************************************************)
(* Reading a conversation page by page while messages come and go          *)
(* (src/src/storage/messages.rs, query_messages).  A page is one query,    *)
(* newest first; the next one asks for what comes before the last message  *)
(* of this one, which it names by its timestamp and its id.  Nothing is    *)
(* kept between two pages but that cursor.                                 *)
(*                                                                         *)
(* Abstractions.  Of a filter only the phone number is modelled, by        *)
(* keeping the messages of one number; a filter on a column that an update *)
(* changes, such as read_at, promises nothing over several pages.  A       *)
(* timestamp is its sort key.  A malformed timestamp has none, and the     *)
(* message is sorted by created_at.                                        *)
(***************************************************************************)
EXTENDS Integers, FiniteSets

CONSTANTS
    Keys,           \* sort keys, julian days
    PageIds,        \* message ids
    PageSize,       \* LIMIT, at most 500
    Malformed       \* ids of messages whose timestamp is malformed

ASSUME PagingAssumption ==
    /\ Keys \subseteq Int
    /\ PageIds \subseteq Nat \ {0}
    /\ IsFiniteSet(PageIds)
    /\ PageSize \in Nat \ {0}
    /\ Malformed \subseteq PageIds

VARIABLES
    held,           \* messages in the table
    key,            \* key[i]: the sort key of message i, if held or once held
    used,           \* ids that were given out
    cursor,         \* the last message of the last page
    reading,        \* "no", "yes", "end" or "failed"
    got,            \* messages that the pages of this reading held
    again,          \* messages that came a second time in this reading
    base            \* messages there at the start of this reading

pagingVars == <<held, key, used, cursor, reading, got, again, base>>

NoCursor == [id |-> 0, key |-> 0]
Cursors == [id: PageIds, key: Keys]

\* Every state has these types.
PagingTypeOK ==
    /\ held \subseteq used
    /\ used \subseteq PageIds
    /\ key \in [PageIds -> Keys]
    /\ cursor \in Cursors \cup {NoCursor}
    /\ reading \in {"no", "yes", "end", "failed"}
    /\ got \subseteq used
    /\ again \subseteq used
    /\ base \subseteq used

\* A mutant: the messages of the cursor's second are taken as read.
PastByTime(i, k, c) == key[i] < k

\* A mutant: the cursor's own message is in the next page.
PastOrEqual(i, k, c) == key[i] < k \/ (key[i] = k /\ i <= c)

----------------------------------------------------------------------------
\* What comes after (i, at) in the order ORDER BY key DESC, id DESC.
Past(i, k, c) == key[i] < k \/ (key[i] = k /\ i < c)

\* COALESCE(julianday(?1), ...): a timestamp without a sort key leaves the
\* lookup of the message the cursor names.
Resolvable(c) == c.id \notin Malformed \/ c.id \in held

\* The rows a page is taken from.
Selected == IF cursor = NoCursor THEN held
            ELSE {i \in held : Past(i, cursor.key, cursor.id)}

Before(i, j) == key[i] > key[j] \/ (key[i] = key[j] /\ i > j)

\* LIMIT: the first PageSize of S.
Page(S) == {i \in S : Cardinality({j \in S : Before(j, i)}) < PageSize}

LastOfPage(S) == CHOOSE i \in S : \A j \in S : i # j => Before(j, i)

----------------------------------------------------------------------------
PagingInit ==
    /\ used \in SUBSET PageIds
    /\ held = used
    /\ key \in [PageIds -> Keys]
    /\ cursor = NoCursor
    /\ reading = "no"
    /\ got = {} /\ again = {} /\ base = {}

\* An insert: ids grow, sort keys may be anything (a late SMS is old).
Arrive(i) ==
    /\ i \in PageIds \ used
    /\ \A j \in used : j < i
    /\ used' = used \cup {i}
    /\ held' = held \cup {i}
    /\ UNCHANGED <<key, cursor, reading, got, again, base>>

\* delete_messages, delete_conversation, run_retention
RemoveMessage(i) ==
    /\ i \in held
    /\ held' = held \ {i}
    /\ UNCHANGED <<key, used, cursor, reading, got, again, base>>

Open ==
    /\ reading # "yes"
    /\ reading' = "yes"
    /\ cursor' = NoCursor
    /\ got' = {} /\ again' = {}
    /\ base' = held
    /\ UNCHANGED <<held, key, used>>

\* list_messages.  The reader stops at a page that is not full.
ReadPage ==
    /\ reading = "yes"
    /\ cursor = NoCursor \/ Resolvable(cursor)
    /\ LET page == Page(Selected)
       IN  /\ got' = got \cup page
           /\ again' = again \cup (got \cap page)
           /\ IF page = {} THEN cursor' = cursor
              ELSE LET last == LastOfPage(page)
                   IN  cursor' = [id |-> last, key |-> key[last]]
           /\ reading' = IF Cardinality(page) = PageSize THEN "yes" ELSE "end"
    /\ UNCHANGED <<held, key, used, base>>

\* InvalidMessageCursor, answered as a bad request: the reader gives up.
CursorFails ==
    /\ reading = "yes"
    /\ cursor # NoCursor
    /\ ~Resolvable(cursor)
    /\ reading' = "failed"
    /\ UNCHANGED <<held, key, used, cursor, got, again, base>>

PagingNext ==
    \/ \E i \in PageIds : Arrive(i) \/ RemoveMessage(i)
    \/ Open
    \/ ReadPage
    \/ CursorFails

PagingSpec == PagingInit /\ [][PagingNext]_pagingVars

----------------------------------------------------------------------------
\* No message comes twice in a reading, whatever was inserted or deleted
\* between its pages, the message the cursor names included.
PagesOnce == again = {}

\* A reading that came to its end had every message that was there when it
\* began and still is.
PagesComplete == reading = "end" => base \cap held \subseteq got

\* The inductive invariant: no message of the pages so far comes after the
\* cursor, and what a page has still to show does.
PagesInv ==
    /\ PagingTypeOK
    /\ again = {}
    /\ cursor = NoCursor => got = {}
    /\ cursor # NoCursor =>
         /\ \A i \in got : ~Past(i, cursor.key, cursor.id)
         /\ \A i \in base \cap held :
              i \in got \/ Past(i, cursor.key, cursor.id)
    /\ PagesComplete

\* A reading page by page shows each message that stays exactly once
\* (query_messages with a cursor).
PagesCoverOnce ==
    /\ PagesOnce
    /\ PagesComplete
=============================================================================
