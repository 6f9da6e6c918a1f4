---------------------------- MODULE EventStream ----------------------------
(***************************************************************************)
(* How a change of the database reaches an open dashboard: the operation   *)
(* commits and then publishes an event (src/src/messaging.rs), the event   *)
(* waits in the broadcast ring (events.rs), the stream forwards it after   *)
(* it has checked the session (api/messages.rs, events), and the dashboard *)
(* reads the database again a moment after an event or after its fallback  *)
(* interval (frontend/src/components/messages/message-console.tsx).  It    *)
(* never applies the payload of an event to what it shows, which is two    *)
(* things: the messages of the view (a phone and a filter), whose reads    *)
(* have a version, and the list of conversations, whose reads have none.   *)
(*                                                                         *)
(* Abstractions.  The database is the number of the last commit.  A read   *)
(* holds the last commit from when it was asked, its answer is of that or  *)
(* of any later one: the server reads some time in between.  A read of the *)
(* messages is one, although the dashboard may fetch several pages; older  *)
(* pages that are scrolled to, the results that an operation of the        *)
(* dashboard shows before it reads again, and links to one message are     *)
(* left out.  A phone is selected.  The error handler, which asks whether  *)
(* the session still holds, changes nothing here.                          *)
(***************************************************************************)
EXTENDS Integers, FiniteSets

CONSTANTS
    RingSize,       \* capacity of the broadcast channel (256)
    MaxChanges,     \* bound on commits
    MaxLosses       \* bound on closed streams, failed reads and changes of
                    \* the view

ASSUME EventStreamAssumption ==
    /\ RingSize \in Nat \ {0}
    /\ MaxChanges \in Nat /\ MaxLosses \in Nat

VARIABLES
    rev,            \* the last commit
    unsent,         \* commits whose event is still to be published
    ring,           \* events the receiver has not taken
    lagged,         \* events were dropped for it
    connected,      \* the event stream is open
    session,        \* the session of the dashboard is valid
    timer,          \* a refresh is scheduled
    reads,          \* reads of messages on their way
    shown,          \* the commit whose messages of the view are shown
    lost,           \* the last commit that no event or read will tell it of
    losses,         \* of the bounded things, those that happened
    operation,      \* whose view an operation under way was begun in (bound:
                    \* one, from the start)
    listReads,      \* reads of the conversations on their way, by the commit
                    \* they were begun at
    listed,         \* the commit whose conversations are shown
    open            \* the dashboard is on the screen

streamVars == <<rev, unsent, ring, lagged, connected, session, timer, reads,
                shown, lost, losses, operation, listReads, listed, open>>
ownVars == <<operation, listReads, listed, open>>

Nothing == 0 - 1        \* shown: no messages of the view

\* A read of messages is for the view, or for the one that an operation was
\* begun in before the view was changed.
Reads == [to: {"view", "other"}, since: 0..MaxChanges]

\* Every state has these types.
EventStreamTypeOK ==
    /\ rev \in 0..MaxChanges
    /\ unsent \subseteq 1..MaxChanges
    /\ ring \in 0..RingSize
    /\ {lagged, connected, session, timer, open} \subseteq BOOLEAN
    /\ reads \subseteq Reads
    /\ shown \in Nothing..MaxChanges
    /\ lost \in 0..MaxChanges
    /\ losses \in 0..MaxLosses
    /\ operation \in {"none", "view", "other"}
    /\ listReads \subseteq 0..MaxChanges
    /\ listed \in 0..MaxChanges

AtLeast(a, b) == IF a > b THEN a ELSE b

----------------------------------------------------------------------------
StreamInit ==
    /\ rev = 0 /\ unsent = {} /\ ring = 0 /\ lagged = FALSE
    /\ connected = TRUE /\ session = TRUE
    /\ timer = FALSE /\ reads = {} /\ shown = 0
    /\ lost = 0 /\ losses = 0 /\ operation \in {"none", "view"}
    /\ listReads = {} /\ listed = 0 /\ open = TRUE

\* A mutant: the event goes out before the transaction.
ChangeAfterPublish ==
    /\ rev < MaxChanges
    /\ rev' = rev + 1
    /\ UNCHANGED <<unsent, ring, lagged, connected, session, timer, reads,
                   shown, lost, losses, ownVars>>

\* The transaction of an operation of Messaging.
Change ==
    /\ rev < MaxChanges
    /\ rev' = rev + 1
    /\ unsent' = unsent \cup {rev'}
    /\ UNCHANGED <<ring, lagged, connected, session, timer, reads, shown, lost,
                   losses, ownVars>>

\* Retention, or a command of another process: a commit without an event.
ChangeSilently ==
    /\ rev < MaxChanges
    /\ rev' = rev + 1
    /\ lost' = rev'
    /\ UNCHANGED <<unsent, ring, lagged, connected, session, timer, reads,
                   shown, losses, ownVars>>

\* A mutant: a full ring drops nothing.
PublishEventUnbounded(c) ==
    /\ c \in unsent
    /\ unsent' = unsent \ {c}
    /\ IF connected
       THEN /\ ring' = ring + 1
            /\ lagged' = (lagged \/ ring = RingSize)
            /\ lost' = lost
       ELSE /\ lost' = AtLeast(lost, c)
            /\ UNCHANGED <<ring, lagged>>
    /\ UNCHANGED <<rev, connected, session, timer, reads, shown, losses,
                   ownVars>>

\* EventBus::send.  A full ring drops its oldest event, not the new one.
PublishEvent(c) ==
    /\ c \in unsent
    /\ unsent' = unsent \ {c}
    /\ IF connected
       THEN /\ ring' = IF ring = RingSize THEN ring ELSE ring + 1
            /\ lagged' = (lagged \/ ring = RingSize)
            /\ lost' = lost
       ELSE /\ lost' = AtLeast(lost, c)
            /\ UNCHANGED <<ring, lagged>>
    /\ UNCHANGED <<rev, connected, session, timer, reads, shown, losses,
                   ownVars>>

\* The browser gives its request up: the future of the handler is dropped
\* between the store's answer and the event.
AbandonEvent(c) ==
    /\ c \in unsent
    /\ losses < MaxLosses
    /\ losses' = losses + 1
    /\ unsent' = unsent \ {c}
    /\ lost' = AtLeast(lost, c)
    /\ UNCHANGED <<rev, ring, lagged, connected, session, timer, reads, shown,
                   ownVars>>

\* The stream learns that it lags and goes on with the oldest event kept.
SkipLag ==
    /\ connected
    /\ lagged
    /\ lagged' = FALSE
    /\ UNCHANGED <<rev, unsent, ring, connected, session, timer, reads, shown,
                   lost, losses, ownVars>>

\* An event is forwarded if the session still holds; the dashboard schedules
\* a refresh.
Forward ==
    /\ connected /\ ~lagged /\ ring > 0 /\ session
    /\ ring' = ring - 1
    /\ timer' = TRUE
    /\ UNCHANGED <<rev, unsent, lagged, connected, session, reads, shown, lost,
                   losses, ownVars>>

CloseStream ==
    /\ connected' = FALSE
    /\ ring' = 0
    /\ lagged' = FALSE
    /\ lost' = IF ring > 0 THEN rev ELSE lost
    /\ UNCHANGED <<rev, unsent, session, timer, reads, shown, ownVars>>

\* The tick of the revalidation, or the check before an event.
EndStream == connected /\ ~session /\ CloseStream /\ losses' = losses

\* The connection breaks; EventSource opens a new one if the session holds.
Break ==
    /\ connected
    /\ losses < MaxLosses
    /\ losses' = losses + 1
    /\ CloseStream

Subscribe ==
    /\ ~connected /\ session /\ open
    /\ connected' = TRUE
    /\ UNCHANGED <<rev, unsent, ring, lagged, session, timer, reads, shown,
                   lost, losses, ownVars>>

Logout ==
    /\ session
    /\ session' = FALSE
    /\ UNCHANGED <<rev, unsent, ring, lagged, connected, timer, reads, shown,
                   lost, losses, ownVars>>

\* A mutant: the interval runs while the stream is open.
FallbackWhileConnected ==
    /\ connected
    /\ open /\ ~timer
    /\ timer' = TRUE
    /\ UNCHANGED <<rev, unsent, ring, lagged, connected, session, reads, shown,
                   lost, losses, ownVars>>

\* setInterval(..., FALLBACK_REFRESH_INTERVAL_MS)
Fallback ==
    /\ open /\ ~timer
    /\ timer' = TRUE
    /\ UNCHANGED <<rev, unsent, ring, lagged, connected, session, reads, shown,
                   lost, losses, ownVars>>

\* A mutant: the version is not compared, an earlier read is answered as well.
ReadMessagesUnversioned(to) == reads' = reads \cup {[to |-> to, since |-> rev]}

\* A new read of messages, whose version makes an earlier one void: the answer
\* to that is dropped.
ReadMessages(to) == reads' = {[to |-> to, since |-> rev]}

\* A new read of the conversations.
ReadList == listReads' = listReads \cup {rev}

\* The timeout of scheduleRefresh.
Refresh ==
    /\ timer
    /\ timer' = FALSE
    /\ ReadMessages("view")
    /\ ReadList
    /\ UNCHANGED <<rev, unsent, ring, lagged, connected, session, shown, lost,
                   losses, operation, listed, open>>

\* Another phone or filter: the effects are cleaned up, the timeout, the
\* interval and the stream with them, and the messages are read at once; the
\* conversations are not.
ChangeView ==
    /\ open
    /\ losses < MaxLosses
    /\ losses' = losses + 1
    /\ connected' = FALSE /\ ring' = 0 /\ lagged' = FALSE
    /\ timer' = FALSE
    /\ ReadMessages("view")
    /\ shown' = Nothing
    /\ operation' = IF operation = "none" THEN "none" ELSE "other"
    /\ UNCHANGED <<rev, unsent, session, lost, listReads, listed, open>>

\* An operation of the dashboard reads again when it is answered, for the view
\* it was begun in: a reload for another view voids the read for this one.
Reload ==
    /\ open /\ operation # "none"
    /\ operation' = "none"
    /\ ReadMessages(operation)
    /\ ReadList
    /\ lost' = IF operation = "other" THEN rev ELSE lost
    /\ UNCHANGED <<rev, unsent, ring, lagged, connected, session, timer, shown,
                   losses, listed, open>>

\* A pin, a favourite or a deleted conversation; an operation that failed
\* reads nothing.
ReloadList ==
    /\ open /\ operation # "none"
    /\ operation' = "none"
    /\ ReadList \/ UNCHANGED listReads
    /\ UNCHANGED <<rev, unsent, ring, lagged, connected, session, timer, reads,
                   shown, lost, losses, listed, open>>

\* loadMessagesForPhone; the version does not tell whose messages they are.
Answer(r) ==
    /\ r \in reads
    /\ session
    /\ reads' = reads \ {r}
    /\ \/ r.to = "view" /\ shown' \in r.since..rev /\ lost' = lost
       \/ r.to = "other" /\ shown' = Nothing /\ lost' = rev
    /\ UNCHANGED <<rev, unsent, ring, lagged, connected, session, timer,
                   losses, ownVars>>

ReadFails(r) ==
    /\ r \in reads
    /\ session
    /\ losses < MaxLosses
    /\ losses' = losses + 1
    /\ reads' = reads \ {r}
    /\ lost' = rev
    /\ UNCHANGED <<rev, unsent, ring, lagged, connected, session, timer,
                   shown, ownVars>>

\* loadConversations: any answer is shown, also one that is late.  Another
\* read begun at the same commit may still be on its way.
AnswerList(since) ==
    /\ since \in listReads
    /\ session
    /\ listed' \in since..rev
    /\ listReads' \in {listReads, listReads \ {since}}
    /\ UNCHANGED <<rev, unsent, ring, lagged, connected, session, timer, reads,
                   shown, lost, losses, operation, open>>

ListReadFails(since) ==
    /\ since \in listReads
    /\ session
    /\ losses < MaxLosses
    /\ losses' = losses + 1
    /\ listReads' = listReads \ {since}
    /\ UNCHANGED <<rev, unsent, ring, lagged, connected, session, timer, reads,
                   shown, lost, operation, listed, open>>

\* notifyUnauthorized: of a 401 the dashboard gives way to the login, and its
\* timers and its stream go with it.
Unauthorized ==
    /\ ~session
    /\ reads # {} \/ listReads # {}
    /\ open' = FALSE
    /\ timer' = FALSE /\ reads' = {} /\ listReads' = {}
    /\ connected' = FALSE /\ ring' = 0 /\ lagged' = FALSE
    /\ lost' = rev
    /\ UNCHANGED <<rev, unsent, session, shown, losses, operation, listed>>

StreamNext ==
    \/ Change \/ ChangeSilently
    \/ \E c \in 1..MaxChanges : PublishEvent(c) \/ AbandonEvent(c)
    \/ SkipLag \/ Forward \/ EndStream \/ Break \/ Subscribe \/ Logout
    \/ Fallback \/ Refresh
    \/ ChangeView \/ Reload \/ ReloadList
    \/ \E r \in Reads : Answer(r) \/ ReadFails(r)
    \/ \E since \in 0..MaxChanges : AnswerList(since) \/ ListReadFails(since)
    \/ Unauthorized

StreamSpec == StreamInit /\ [][StreamNext]_streamVars

\* The timers of the browser fire, and requests are answered: the newest not
\* each time later than the next refresh, which the fallback brings after 30
\* seconds.  Of the reads of the conversations each is answered.
StreamFairness ==
    /\ WF_streamVars(Fallback)
    /\ WF_streamVars(Refresh)
    /\ WF_streamVars(\E r \in Reads : r.to # "view" /\ Answer(r))
    /\ SF_streamVars(\E r \in Reads : r.to = "view" /\ Answer(r))
    /\ \A since \in 0..MaxChanges :
         WF_streamVars(AnswerList(since) /\ since \notin listReads')

----------------------------------------------------------------------------
\* The oldest messages that the read for the view on its way can bring, or
\* else those that are shown.
Coming == LET asked == {r \in reads : r.to = "view"}
          IN  IF asked = {} THEN shown
              ELSE (CHOOSE r \in asked : TRUE).since

RefreshDue == timer \/ ring > 0 \/ unsent # {}

\* A commit that has an event is not missed: as long as the messages shown are
\* behind it and no read that brings it is on its way, a refresh that will is
\* due, even when the ring overflowed and its own event was dropped, and when
\* the view was changed while a refresh was scheduled.  The exception is a last
\* commit that was lost, which is left to the fallback: one without an event,
\* or whose event was given up or met no stream, or one before a read that
\* failed or that a reload for another view made void.
NoMissedRefresh == Coming = rev \/ lost = rev \/ RefreshDue

\* The messages of a view never go back: an answer that is late does not
\* replace a newer.  They go when the view is changed, or when a reload for
\* another view shows its own.
ShownOnlyGrows == shown' >= shown \/ shown' = Nothing

\* Whatever got lost, a dashboard whose session holds shows the last commit
\* in the end, in both of its parts.  For changes without an event, and for a
\* list that a late answer took back or that a change of the view left behind,
\* this is the fallback's doing.
EventuallyShown == <>[](session => shown = rev /\ listed = rev)

\* The messages of the view keep up with the database and never go back: what
\* the ring drops and what overlapping reads answer late does not matter
\* (events, scheduleRefresh, loadMessagesForPhone).
ViewKeepsUp == [][NoMissedRefresh' /\ ShownOnlyGrows]_streamVars
=============================================================================
