# A TLA+ model of sms-relayed

sms-relayed receives SMS messages from ModemManager over the system D-Bus, keeps
them in SQLite, forwards them to chat and push channels, and sends SMS for a web
dashboard and a command line. This directory holds TLA+ modules that model the
parts of it that must be right under interleaving, crashes and unreliable
peers, TLC configurations that check them on small instances, and proofs that
TLAPS checks for every instance. Paths below are relative to `src/`, the root of
the repository; the Rust code is in `src/src/`.

`PROJECT.json` is the machine-readable index: which definition models which
lines, which run checks which property, which mutation of the model each
property catches, and the list of hazards the properties answer.

## 1. Inventory

The service is one process (`src/runtime.rs`) of tokio tasks around one SQLite
database. Command line calls (`src/main.rs`, `src/cli.rs`) are further processes
on the same database; an installation may also run two services for a while.

### Outbound messaging — `src/messaging.rs`, `src/storage/messages.rs`

* State: a `messages` row with status, `outbound_phase`
  (created, prepared, send_started, uncertain, unknown, none), owner UUID, lease,
  next attempt, modem path, a pending update event; `outbound_idempotency`.
* Operations: `send` (insert or replay by idempotency key, then a detached
  finalizer: create the modem object, record its path, commit `send_started`, call
  Send, store the verdict, publish and acknowledge the event); the recovery worker
  (replay pending events, claim the due row, inspect the modem object, finish, send
  or defer); heartbeats; deletion; pruning of keys.
* Interacts with: ModemManager (D-Bus calls with a 30 s timeout), the store
  (one immediate transaction per step), the event bus.
* Hard: two owners of one row; a crash between any two steps; a Send whose answer
  is lost or late; a modem restart that reuses object paths.
* Correct when: a message is sent at most once; a stored verdict is true and final;
  an idempotency key sends once; every verdict is announced; every message gets one.

### Forward delivery queue — `src/delivery/`, `src/storage/deliveries.rs`, `src/storage/attempts.rs`

* State: one `forward_deliveries` row per message and channel profile (state,
  attempt count, next attempt, lease token and deadline); attempt samples; the
  in-memory wakeup.
* Operations: insert with the message, notify, claim a batch under a lease token,
  attempt concurrently, complete by compare-and-swap on the token, retry with
  backoff, give up after a day, recover expired leases, sleep until a wakeup, the
  next deadline or the safety scan.
* Interacts with: `Messaging::receive` (which fills it), the HTTP channels,
  configuration (profiles come and go), deletion and retention.
* Hard: late owners, lost wakeups, crashes between an accepted request and its
  completion, failing tasks inside a batch.
* Correct when: no delivery is lost, given up without a cause, or marked
  successful without having been accepted; without faults each is made once.

### Message store and conversations — `src/storage/mod.rs`, `src/storage/messages.rs`

* State: `messages`, `conversation_summaries`, `conversation_pins`; triggers keep
  the summaries row by row.
* Operations: insert, mark a message or a conversation read, delete messages or a
  conversation, retention, pin, list page by page behind a cursor, migrate.
* Hard: incremental summaries against the table they summarise, within statements
  that delete several rows; late and malformed timestamps; a client that pages while
  rows come and go.
* Correct when: every summary equals what would be computed from the table, a pin
  has a conversation, and a reading shows each message that stays exactly once.

### Inbound worker, modem identity — `src/inbound.rs`, `src/dbus/inbound.rs`, `src/storage/metadata.rs`

* State: the D-Bus subscription, at most 16 concurrent children, the stored modem
  fingerprint, its history and the dedupe namespace.
* Operations: subscribe and list what the modem stores, take `Added` signals, read
  an SMS with retries, insert it once (by dedupe key) with its deliveries, reconnect,
  select the modem path, quarantine on an identity mismatch.
* Hard: signals before the listing ends, a restart that lists the same messages
  again, modem swaps, children that fail.
* Correct when: each SMS received while subscribed is stored, and stored once.

### D-Bus connection cache — `src/dbus/connection.rs`, `src/dbus/outbound.rs`

* State: one lazily opened connection that all senders share.
* Operations: get or open it, call, discard it if it is still the one that failed.
* Hard: a late failure on an old connection; an answer that does not come.
* Correct when: a caller discards only its own connection, and a Send that may have
  gone out is never reported as refused.

### Modem service — `src/modem.rs`, `src/modem/ims.rs`, `src/modem/ims/qmi.rs`

* State: health cache and refresh lock; action lock, reset times per session; the
  capabilities of mmcli; QMI client ids in the modem.
* Operations: public health; enable, disable, reset; a status out of up to six calls
  of mmcli; an IMS probe of up to five QMI queries, each with its own client id.
* Hard: callers that wait for a lock, are dropped at an await, or read while another
  one refreshes; a modem that changes between two calls; calls that fail.
* Correct when: answers are as recent as the cache promises, refreshes and resets
  keep their distance, a verdict rests on all that is known, ids go back.

### HTTP API — `src/api/`, `src/storage/auth_sessions.rs`, `src/events.rs`

* State: sessions in the database, failed logins per address; the configuration
  file, the lock of a save, one scheduled restart; the broadcast ring of 256 events.
* Operations: log in, verify, log out, start with a password; preview and save a
  configuration, restart; subscribe, forward events, skip what was dropped; read messages
  and the list of conversations again after events, operations and an interval.
* Hard: limits at their boundary; restarts with other passwords; two browsers and a
  handler that is dropped; a slow subscriber, answers out of order.
* Correct when: a token that ended never works again; guesses are bounded and only
  those who guess are locked out; a save replaces what its preview showed; a scheduled
  restart ends; the dashboard comes to show the last change, and the messages it shows do
  not go back.

### Forwarding channels — `src/forward/`, `src/delivery/dispatcher.rs`

* State: none; one attempt makes one request, WeCom two.
* Hard: answers that are successes by status and refusals by body, or do not parse.
* Correct when: a success was taken by the provider, and a delivery is given up only
  when the channel does not have the message.

### Update, configuration, reports — `src/update.rs`, `src/config.rs`, `src/wizard.rs`, `src/monitoring.rs`

* State: the installed binaries and temporary files beside them; the file
  `config.toml`; the time of the last report of each error code.
* Hard: an update that is killed, runs twice or meets a bad release; content that is
  accepted and refused later; a restart that fails half-way; threads that take a mutex in another order than they
  read the time.
* Correct when: an installed binary is whole and verified, and a service reported restarted runs it;
  accepted content starts; reports keep their distance and none is lost for ever.

### The rest

| Part | State | Why it is not modelled |
| --- | --- | --- |
| Retention (`src/storage/retention.rs`, `runtime.rs`) | none of its own | an action of the stores it deletes from |
| Export, codes, templates, assets | none | text conversions |
| Dashboard, beyond when it reads | its view | presentation |
| Installer, CI, documents | none | scripts and prose |

## 2. Modules

| Module | Models | Uses |
| --- | --- | --- |
| `OutboundStore` | the transactions of `storage/messages.rs` and `storage/retention.rs` on outbound rows and keys | |
| `ModemSms` | ModemManager's SMS objects as `dbus/outbound.rs` uses them (external) | |
| `Outbound` | finalizers, recovery workers, crashes, the modem, operators | both |
| `OutboundPromise` | what the user is promised about a message, without owners, leases or phases | |
| `OutboundProofs` | theorems about `Outbound`: types, keys, events and verdicts, and the refinement of `OutboundPromise` | `Outbound`, TLAPS |
| `DeliveryStore` | the transactions on `forward_deliveries` and the samples | |
| `Delivery` | intake, wakeups, workers, their tasks, channels, crashes | `DeliveryStore` |
| `DeliveryProofs` | theorems about `Delivery` | `Delivery`, TLAPS |
| `IdentityStore` | the transactions on the `meta` table, and the pure choice of paths in `resolve_monitor_path` | |
| `ModemIdentity` | resolution, observation and quarantine, modems that move, one-shot commands | `IdentityStore` |
| `IdentityProofs` | theorems about `ModemIdentity` | `ModemIdentity`, TLAPS |
| `Inbound` | subscription, listing, tasks, reconnects, dedupe keys, modems that are swapped | `IdentityStore`, `InboundPromise` |
| `InboundPromise` | abstract specification: a message is stored with its text, forwarded in the same step, and leaves only by deletion | |
| `InboundProofs` | theorems about `Inbound` and the refinement of `InboundPromise` | `Inbound`, TLAPS |
| `Conversations` | messages, their summaries and pins, triggers, migration | |
| `Paging` | a reading page by page while messages come and go | |
| `MessagesProofs` | theorems about `Conversations` and `Paging` | both, TLAPS |
| `EventStream` | commits, the ring, the stream, the reads of a dashboard | |
| `ConfigSave` | saving a configuration and the scheduled restart | |
| `Configuration` | what validate accepts and what becomes of a start | |
| `Sessions`, `LoginLimiter` | login sessions across restarts; the limit on failed logins | |
| `ModemHealth`, `ModemActions` | the health cache; commands and the reset limit | |
| `ModemStatus`, `ImsProbe`, `QmiClient` | one status, one IMS probe, one QMI query after another | |
| `DbusSender` | the shared connection and the reading of answers | |
| `ForwardAttempt` | one attempt of each of the six kinds of channel | |
| `DeliveryLease`, `RecoverySchedule` | time: how long a claimed row stays in the worker, whose turn it is in recovery | |
| `Update` | runs of the self-update command | |
| `Reporting` | the throttle of failure reports | |
| `ModemProofs` | theorems about `QmiClient`, `ModemHealth`, `ModemActions`, `DbusSender`, `ImsProbe`, `ModemStatus` | these, TLAPS |
| `ServiceProofs` | theorems about `ConfigSave`, `Configuration`, `ForwardAttempt`, `Update`, `EventStream`, `Sessions`, `LoginLimiter`, `Reporting`, `DeliveryLease`, `RecoverySchedule` | these, TLAPS |
| `MCOutbound`, `MCDelivery`, `MCModemIdentity`, `MCInbound` | instances for TLC | |
| `MCComponents` | the eighteen smaller components side by side, for TLC | all of them |
| `ComponentsProofs` | theorem that all of them keep to their types | `MCComponents`, `MessagesProofs`, `ModemProofs`, `ServiceProofs` |

### How `ModemIdentity` and `Inbound` correspond to the code

`IdentityStore` has the rows of `meta` that concern the modem and, as pure
operators, the two decisions of `resolve_monitor_path`: what the identity of the
configured path means (`ConfiguredChoice`) and which of the listed paths is taken
(`CandidateChoice`). A decision yields the targets and the list of writes that come
before them.

`ModemIdentity` runs these decisions in small steps. `pc` is the place in
`resolve_monitor_path` or `observe_runtime_identity`; every write is a step that may
fail, and between any two steps modems may be renumbered (`Move`) and another process
may act. `pending` is the in-memory record of mismatches whose write has not
succeeded yet, `seen` a history variable of the identities a process has read, and
`owned` the modems that exist at all in a behaviour, which makes one run cover a
single modem as well as two.
Two coarse steps: the reads of `meta` at the start of a resolution, and the read
of one identity together with its comparison in an observation.

`Inbound` has one path, at which modems are swapped, and makes a resolution one
step, with the same operators. Its detail is the subscription: the match rules
(`matched`), the undelivered signals, the listed messages, the permits and what the
task that holds each does. `inserted` counts the insertions of a message, each of
which is also forwarded. A message is a model value and its dedupe key the pair of
message and namespace.

### How the smaller components correspond to the code

Each is a module of its own with the state and the handlers of one source file, or of
one object in it; a comment at its head says what is abstracted. Where time matters
(`LoginLimiter`, `ModemHealth`, `ModemActions`, `DeliveryLease`, `RecoverySchedule`,
`Reporting`) it is a clock in units, `Instant::now()`, moved by an action of its own.

* `Conversations` has the triggers as operators on rows (`InsertTrigger`,
  `ReadTrigger`, `DeleteTrigger`) and fires them row by row: a statement that deletes
  several rows is a choice of rows (`doomed`) and a `DeleteRow` for each, since a
  trigger sees the rows that are still there. `strays` are pins without a conversation
  that an earlier version left, `backfilled` is set by the migration.
* `Paging` is one query per page and nothing between two pages but the cursor.
* `EventStream` follows a commit to the screen: `unsent`, `ring`, `connected`, `timer`,
  and the two things a dashboard shows. The messages of the view (`shown`) come from
  reads with a version (`reads`: a new one voids an earlier one), the conversations
  (`listed`) from reads that have none (`listReads`). `ChangeView` is another phone or
  filter: the effects are cleaned up, the scheduled refresh with them. `operation` is a
  send, deletion or mark of the dashboard, which reads again when it is answered, for the
  view it was begun in. `lost` is the last commit that no event or read will tell it of.
* `ConfigSave` lets a handler be dropped at each await. One that is dropped while it
  waits for the commit leaves it on its way and the lock free (`orphans`); what is written
  beside the lock, by such a commit or by an editor, is noted where it hits: in `intruders`
  for a save that has checked its revision, in `overtaken` for a commit on its way.
* `Sessions` serves one process after another on the same rows, with passwords that
  may change and change back; `refused` is a history variable.
* `ModemHealth` has the age of an answer (`given`) and callers that are dropped while
  they wait or refresh; `ModemActions` the times of the resets that went out.
* `ModemStatus` and `ImsProbe` let every call give any answer, the modem changes
  meanwhile; `QmiClient` lets releases overlap later queries.
* `DbusSender` numbers connections; `transmits` is what the modem really does.
* `ForwardAttempt` has `taken`, what the provider really did, beside the answer.
* `LoginLimiter` lets a call read the clock (`stamp`) and reach the mutex later, with
  other calls in between; `MaxStall` is the longest time that takes.
* `DeliveryLease` lets an attempt last the timeout of each of its requests and marks the
  rows that waited for one longer than one request (`late`); `RecoverySchedule` marks the
  messages that waited for a turn not short for them (`crowded`).
* `Update` has the file at each place as the build it holds, or torn bytes. A restart is
  a job of the service manager (`jobs`) that stops the service (`Down`), starts what is
  installed or fails, and may outlive the run; `owing` are the runs that replaced a binary
  and were not told of a restart.
* `Configuration` judges a record of facts by `validate`, by the wizard and by the
  start, which opens the database and the listeners as well.

`MCComponents` runs one of them in each behaviour (`part`) and leaves the others at a
state of rest, which keeps their state spaces apart: the run explores their sum.

### How `Outbound` corresponds to the code

Each process has an owner UUID: a request's finalizer
(`run_new_outbound`) or one incarnation of `run_outbound_worker`. `pc` is the
place between two awaits at which the process stands; each action is one store
transaction, one D-Bus call leaving, or one answer arriving. `job` is what the
process remembers: the message, the path, what to do next. A crash may come at
every place.

Abstractions. Owners, keys and contents are model values. A lease is the flag
`live`, a retry deadline the flag `due`: a deadline passes at some point, no
sooner than it was set, and a lease whose owner still runs lapses only as a
fault (a stalled process, a clock that jumps). The five tries of
`finish_outbound` are one store call that fails or does not (`StoreFails`).
An explicit ModemManager error means the text was not transmitted: that is
external and assumed. Requests with different contents differ in number or
body. Branches for a prepared row without a path
(`messaging.rs:433-442`, `522-532`) cannot be reached from what the code itself
writes and are left out. A one-shot process publishes to its own event bus; the
model counts an event as announced by whoever published it, as the code
acknowledges it.

### How `Delivery` corresponds to the code

A worker is one run of the service: its `DeliveryWorker`, tasks and intake.
`pc` walks through `DeliveryWorker::run` and `process_delivery_batch`; a task
walks through `process_delivery_inner`, with its snapshot of the attempt count and
its token. `permit` is tokio's `Notify`.

Abstractions. `BatchSize` is a parameter (the code: concurrency times four); a
claim takes any due rows up to it, not the longest due. Sample pruning to the
newest five of a profile is left out, samples are counted. Rows with timestamps
that do not parse are left out, the code never writes any. Lease tokens come from
a finite set, each fresh while it is in use, as UUIDs are.

## 3. What the runs check

* `outbound_recovery` (`MCOutboundRecovery.cfg`, `AcknowledgedWasAnnounced`,
  `KeepsPromise`, `EverySendConcludes`): Two requests for one message, its finalizer
  and two recovery workers with up to two crashes, failed calls or leases that lapse
  under a running owner: verdicts are truthful, final and announced, the whole
  implements OutboundPromise, and under fair scheduling every message gets a verdict
  unless the modem holds it unsent.
* `outbound_keys` (`MCOutboundKeys.cfg`, `SafetyInv`, `AtMostOneSend`,
  `KeysAreHonoured`, `VerdictsHold`): Two requests that dispute an idempotency key
  and one without key, three texts, a worker, a fault and a modem that restarts and
  reuses its object paths: a key sends once through deletion, pruning and recovery,
  replays answer with their own message, and verdicts stay truthful except for a
  Send that hit a reused path.
* `outbound_misfire` (`MCOutboundMisfire.cfg`, `RecoverySendsItsOwn`): must fail. A
  modem restart between the inspection and the Send makes recovery send the object
  of another message.
* `delivery_queue` (`MCDeliveryQueue.cfg`, `SafetyInv`, `AttemptsAreAccounted`,
  `NoMissedWakeup`, `OutcomesHold`, `EventuallyResolved`): One delivery, two
  overlapping runs of the service and a crash, failed store call, lost answer or
  outrun lease: outcomes are truthful, counted, sampled, final and given for a
  cause, however late an owner completes, no wakeup is missed, and under fair
  scheduling the delivery is resolved or deleted even if the channel never gives a
  definite answer.
* `delivery_channels` (`MCDeliveryChannels.cfg`, `OnceWithoutFaults`): Two channels
  worked on in parallel, one of which is missing from the configuration of the
  second of two overlapping runs: with nothing failing, each channel takes the
  message at most once and what it took is neither retried nor given up.
* `identity_service` (`MCIdentityService.cfg`, `TargetsAreSafe`, `IdentityIsKept`,
  `FindsTheModem`): Up to two modems appear, leave and swap between two paths while
  the service resolves, observes, loses identities, fails to write and restarts:
  control actions never go to a quarantined path, only the enrolled identity lifts a
  quarantine, no other modem is enrolled, a single modem keeps its dedupe namespace,
  and one that stays alone is monitored in the end.
* `identity_commands` (`MCIdentityCommands.cfg`, `NamespaceIsStable`): must fail. A
  one-shot command enrolls the modem while the service, which found nothing enrolled
  and cannot read the identity, falls back to a local namespace: that one replaces
  the namespace of the enrolled modem.
* `identity_seen` (`MCIdentitySeen.cfg`, `ActsOnSeenModem`): must fail. An identity
  read only while the candidates are scanned is not quarantined: when it becomes
  unreadable later, the path of the other modem is a target of control actions
  again.
* `inbound_reconnect` (`MCInboundReconnect.cfg`, `ReceptionIsComplete`,
  `KeepsReception`, `EventuallyStored`): A message stored by an earlier version and
  one that may come in parts, two permits, a modem that leaves and returns, a failed
  call, restart or crash and a deletion: the worker implements InboundPromise, each
  message is stored once, with its text and in one row, a subscription that is quiet
  has missed none, and all that the modem holds are stored in the end.
* `inbound_swap` (`MCInboundSwap.cfg`, `StoredOnce`): must fail. The modem is
  replaced by another: a message of the first one is stored and forwarded a second
  time under the namespace of the second.
* `inbound_multipart` (`MCInboundMultipart.cfg`, `NoPartMissed`): must fail. A
  message whose first part came before the subscription and whose last part came
  after the listing is neither listed nor announced.
* `components` (`MCComponents.cfg`, `ComponentsTypeOK`, `SummariesMatch`,
  `PagesCoverOnce`, `SessionsEnd`, `LimitIsFair`, `CommandsTakeTurns`,
  `StatusIsEarned`, `GapsAreTold`, `IdsComeBack`, `VerdictsAgree`,
  `LeaseCoversTheBatch`, `EveryoneGetsATurn`, `UpdateIsWhole`, `ReportsThrottled`,
  `ViewKeepsUp`, `EventuallyShown`, `SavesAreChecked`, `RestartComesToAnEnd`,
  `HealthIsRecent`, `SenderIsHonest`, `AcceptedRuns`): The eighteen smaller
  components, each by itself: a behaviour runs one of them. Conversation summaries,
  paging, the event stream, saving the configuration and restarting, sessions, the
  login limit, the health cache, modem commands, the modem status, the IMS probe and
  its QMI client, the D-Bus sender, one forwarding attempt, the time of a lease, the
  turns of recovery, self-update, accepting a configuration, failure reports.

`CHECK_DEADLOCK FALSE` is set where an instance ends: all processes have
finished or crashed and the bounds on restarts and faults are used up. In
`components` it is set because most parts end: a probe or an attempt is over, a
clock is at its bound.

A property of a run is often a conjunction of named parts, each stated with its own
comment in the module (`VerdictsHold`: `SentIsTruthful`, `FailedIsTruthful` and
`NoSendAfterVerdict`, for instance). `PROJECT.json` has a mutation of the model for
each property, and one for most of its parts. Where a part is an invariant and
another an action, the property is one box over both, the invariant primed: it is
judged after every step. `KeepsPromise` stands in `outbound_recovery` for all that
it implies there: verdicts are true, final, and no Send follows a verdict.

### Bounds

* `MaxFaults` counts crashes, failed store calls, failed D-Bus calls, lost answers
  and leases that lapse under a running owner. Each hazard of the list needs at most
  two of them together (one to create the second owner, one to disturb it), and the
  recovery run allows two. The larger instances allow one; the
  theorems of section 4 hold for any number.
* Two workers are enough for a late owner and its successor, with a finalizer as
  third party. Two messages are enough for a path that is reused, and one path for
  reusing it. Two requests under the key are enough to dispute it; that both the
  answer of the first is replayed and a different text is refused is shown by
  `outbound_recovery` and `outbound_keys` together.
* Two lease tokens are enough for one delivery and one fault: one may be with a late
  owner, the other with the current one.
* `MaxAttempts` bounds the attempts of a delivery before it is old; once it is old
  the next transient failure ends it, so the bound never blocks the resolution.
* `MaxId`, `MaxPath`, `MaxModemRestarts` bound the sequences.
* `MaxMoves` and `MaxSwaps` bound how often modems move: away and back, or a swap in two
  moves, are the cases that matter. Two paths are enough for a configured and another
  one. `MaxFaults` counts failed writes and listings, restarts of ModemManager and
  crashes. Two permits stand for the 16: two tasks may hold the same message while the
  worker waits for a permit. One deletion is enough for a message to come back.

* `components`: three messages at two times, one number, are enough for a newest
  message to be deleted, a late one to arrive and a conversation to end and begin
  again; pages of one message and a malformed timestamp put every boundary between
  two of three. A ring of one event overflows at the second of two commits; one
  operation of the dashboard, and one lost event, failed read or change of view. Two
  browsers, one write by another process and one crash, failed restart or dropped
  request. Two sessions at a time of four tokens and two passwords; two failures in
  a window of three in three ticks, so that two windows meet, by two calls that may
  be held up for one. The health cache is fresh for 2, stale up to 4, a refresh
  takes up to 2, in eight ticks; resets at a distance of 3 with calls of 1, in four.
  Three QMI queries, two connections and one loss of all of them, two callers each.
  Two slots, a lease floor of 3, four waves, a timeout of 2 and attempts of up to
  two requests, so that leases do lapse; four unresolved messages, a deferral of 3
  and turns of up to 3, so that a turn may be short for the third message and not
  for the fourth, or for neither. Two updaters, two releases published while they
  run, each good or one that ships another build under a checksum of its own
  (releases with missing or ambiguous assets, or without a commit, are left to the
  theorem). Two rewrites of the configuration out of all combinations of the facts
  that matter. Two threads and two codes, two ticks.

### Fairness

Only what the runtime gives: tokio polls every task, the worker loop is infinite,
every D-Bus or HTTP call ends with an answer or a timeout, deadlines pass, the modem
finishes a transmission one way or the other. Nothing is assumed of operators,
of crashes (they are never fair) or of channels: in `delivery_queue` only the
transient answer is ever due, so a channel that never gives a definite answer
is covered. A crashed service is not restarted by fairness; a second worker is
started by it. In `identity_service` the worker takes its steps and notices, in the end,
that its modem object is gone, although it observes identities in between; in
`inbound_reconnect` tasks and the worker are scheduled, a call to a missing modem
fails and the wait for a text ends. In `components` two parts have liveness. For the
stream: the fallback interval of the dashboard fires, a timer that is set ends, and
reads are answered; the one for the view is, if it is asked for again and again (strong
fairness, since a newer one replaces it and it may fail), and each of the conversations
is; nothing is assumed of the ring or the stream. For the restart: the scheduled task
runs after its delay, and a call of systemctl returns or ends the process. No
fairness is assumed of browsers, logins, commands, updaters or other writers.

### What was found

`outbound_misfire` shows a disagreement between a test and the code. The test
`recovery_does_not_send_a_reused_modem_path_with_different_contents`
(`src/src/messaging.rs:1554`) says that recovery does not send the object of
another message when the modem reused its path. The code compares the contents
before it commits `send_started` and calls Send (`messaging.rs:473`), so a
ModemManager restart between the two makes it send the other object. The
counterexample is a short trace of one worker and one restart. `SentIsTruthful` and
`FailedIsTruthful` name this one exception (`misfired`).

`identity_seen`: the watchdog document
(`docs/specs/simadmin/03-modem-watchdog-and-recovery.md:111`) says that a change of
identity detected at the configured path withdraws the action target and stores a
mismatch. That is what happens when the first read of the path succeeds. When it comes
back empty and the scan of the candidates reads the other identity
(`inbound.rs:603`), nothing is stored, and a later resolution without a readable
identity makes the path an action target again.

`identity_commands`: the service finds nothing enrolled and cannot read the identity
of the modem, so it is going to create a local dedupe namespace. Before it writes it,
a `send` command on the same database reads the identity and enrolls the modem. The
explicit local namespace then replaces the one of the enrolled modem
(`inbound.rs:561`, `:689`), which the test
`temporary_identity_loss_keeps_the_existing_inbound_dedupe_namespace`
(`inbound.rs:1885`) rules out for one process.

`inbound_swap`: the implementation notes
(`docs/plans/2026-07-12-001-fix-forwarding-dedup-latency-impl-tasks.md:27`, `:30`)
make the fingerprint of the modem part of a message's identity. The code uses one
namespace for all modems and changes it when another modem is monitored, so messages
of the first modem are stored and forwarded a second time. In `identity_service`
`IdentityIsKept` shows that this needs a second modem: with one modem and one
process no order of failures changes it.

`inbound_multipart`: a message whose first part is announced before the match rule
exists and whose last part comes after the listing is neither signalled nor listed
(`dbus/inbound.rs:215`); it is stored only when some later subscription lists it.
That the Added signal comes with the first part is taken from the polling for an
empty text in `inbound.rs:514` and from the test of the state in the listing.

Met on the way and not checked by a run of their own:

* The dedupe key is deleted with the message, and received messages are never deleted
  from the modem, so the next subscription stores and forwards a deleted message
  again. `StoredOnce` allows one more insertion for each deletion.
* Two outbound messages with the same number and text are told apart by their object
  path only. After a ModemManager restart recovery takes the object of the one at a
  reused path for that of the other; the runs therefore use different texts.
* After a failed restart the update command advises to run it again
  (`update.rs:230`). A second run finds the installed binary current and ends without
  a restart, so the service stays on the old build, or stopped if the restart failed
  half-way; in `Update` the first run stays in `owing`. A killed run leaves its temporary
  file, a failed one may (`update.rs:473` ignores the error of the removal). Two
  concurrent runs may also install the older of two releases last.
* A lease is 90 s plus four request timeouts (`delivery/worker.rs:275`), a batch may take
  five waves, and an attempt of WeCom makes two requests. With the default timeout of
  30 s that is 300 s against 210 s; the delivery is then claimed again and made twice,
  which `Delivery` shows to be harmless but for the duplicate. A timeout of 90 s or more
  has the same effect for every channel. `LeaseCoversTheBatch` says that nothing else
  makes a lease lapse: for a timeout below the 90 s, only attempts that outlast the
  timeout of one request.
* An inspection in recovery may take 10 s on a modem that does not answer (two D-Bus
  calls of 5 s), and a message is put off for 5 s: with three unresolved messages the
  third may wait behind the first two for as long as that lasts. `EveryoneGetsATurn`
  names the turns that do this (`Short`).
* Three things pass `config check` and the wizard and end the service at its start:
  `enable_ipv6` with a specific IPv4 address or a host name (`api/mod.rs:277`), an address
  that the host cannot bind, and a database that cannot be opened; with the API disabled
  also a blank `database_path`, which `validate` then does not look at
  (`config.rs:691`, `runtime.rs:27`). `AcceptedRuns` names them and says that nothing
  else that is accepted does.
* A browser that goes away while its save is being committed leaves the commit on its
  way and the lock free (`api/config.rs:207`). Another browser may then save with success
  and have it undone by the late commit. `SavesAreChecked` excepts this by name
  (`overtaken`), as it does what is written beside the lock under a save (`intruders`).
* Reads of the conversation list have no version (`message-console.tsx:407`): of two that
  overlap the later answer wins, and the list may go back. A change of phone or filter
  cancels a scheduled refresh (`message-console.tsx:539`) and reads the messages but not
  the list. A reload that an operation began for another view voids the read of this one
  and shows its own messages. All three last until the next refresh, at the latest the
  fallback's after 30 s (`EventuallyShown`); `ViewKeepsUp` is about the messages of the
  view.
* A failed login is judged by a time read before the mutex (`api/auth.rs:106`), so a call
  that was held up takes a lock from then on: the limit on guesses holds for stretches of
  the window less such a hold-up, not for the whole window.
* An IMS probe that finds voice available over a technology it does not recognise leaves
  the status of voice unknown without a warning or a reason (`modem/ims.rs:190`, `:413`);
  values that the answer of the serving system leaves out are silent, too.
* The wizard takes a configuration it cannot read for a missing one (`main.rs`,
  `load().ok()`) and overwrites it; the wizard and an editor also write around the
  lock of a save.
* Every event restarts the 100 ms timer of the dashboard's refresh
  (`message-console.tsx:506`), and so does the fallback interval: a steady stream of
  events puts the refresh off for as long as it lasts.
* Commands to the modem do not touch the health cache (`modem.rs:1105`): the health
  from before a reset is answered until it is stale.
* The hardening plan
  (`docs/plans/2026-07-11-001-perf-long-running-relay-hardening-plan.md:113`, `:265`)
  rules out monitoring a modem of unknown or different identity; the later code selects
  the only modem there is, for reception only (`inbound.rs:667`).

## 4. What is proved

Eight modules hold theorems, for every value of the constants that the named
assumptions allow (any number of messages, owners, workers, modems, paths, profiles,
tokens, callers, connections, updaters, faults). Where a run checks a component's
inductive invariant (`SafetyInv` in `outbound_keys` and `delivery_queue`,
`TargetsAreSafe` and `ReceptionIsComplete`), the theorem and the run are about the same
formula.

* `OutboundProofs!TypeCorrect`: Every reachable state of the outbound component is
  typed.
* `OutboundProofs!InvariantHolds`: The inductive invariant of the outbound
  component: who may still call Send, and which phases, owners and paths go
  together.
* `OutboundProofs!SendAtMostOnce` (`AtMostOneSend`): No message is handed to the
  modem by Send more than once, for any number of messages, workers, faults and
  modem restarts.
* `DeliveryProofs!InvariantHolds`: The inductive invariant of the delivery queue:
  lease tokens, the attempts counted and the tasks that hold a lease.
* `DeliveryProofs!TypeCorrect`: Every reachable state of the delivery component is
  typed.
* `DeliveryProofs!SuccessIsTruthful`: A delivery recorded as succeeded was accepted
  by its channel.
* `DeliveryProofs!OutcomesCounted`: The attempt count of a delivery is the number of
  outcomes the store accepted for it.
* `DeliveryProofs!ResolvedForGood`: A delivery that succeeded or failed never
  changes its state again.
* `DeliveryProofs!OutcomesAlwaysHold` (`OutcomesHold`): The three before together: a
  success was accepted, the count is of outcomes, what is resolved stays so.
* `DeliveryProofs!SafetyHolds` (`SafetyInv`): The inductive invariant behind the
  properties of the queue: whose tasks work on which rows, why they give up, the
  faults that pay for missing samples, and what a sleeping run has seen.
* `DeliveryProofs!AttemptsAccounted` (`AttemptsAreAccounted`): A delivery is given
  up only for a cause, and an answered attempt leaves one sample unless a fault
  dropped it, for any number of runs, slots and lapsed leases.
* `DeliveryProofs!OnceHolds` (`OnceWithoutFaults`): Without a fault every channel
  takes a message at most once, and what it took is neither retried nor given up.
* `DeliveryProofs!WakeupsHold` (`NoMissedWakeup`): A worker that goes to sleep as
  the only run has seen every waiting delivery or will be notified of it.
* `OutboundProofs!SafetyHolds` (`SafetyInv`): The inductive invariant of the
  outbound component with the verdicts of messages and keys.
* `OutboundProofs!KeysHonoured` (`KeysAreHonoured`): An idempotency key names one
  request and one message, through restarts, races and retries.
* `OutboundProofs!AcknowledgedAnnounced` (`AcknowledgedWasAnnounced`): A message
  whose creation was acknowledged has been announced to the event stream.
* `OutboundProofs!FailuresTruthful`: A message recorded as failed was not
  transmitted.
* `OutboundProofs!SentTruthful`: A message recorded as sent was transmitted, if SMS
  objects of different requests can be told apart or the modem does not restart.
* `OutboundProofs!VerdictsAreFinal` (`VerdictsHold`): Under the same hypothesis a
  verdict is given by what happened and not taken back.
* `OutboundProofs!PromiseKept` (`KeepsPromise`): The outbound component implements
  the abstract promise, as long as the modem does not restart and hand out its paths
  again.
* `InboundProofs!InboundTypes`: Every reachable state of the inbound worker is
  typed.
* `InboundProofs!NothingIsMissed`: A subscription that has nothing left to do has
  stored every complete message its modem holds, whatever was swapped, restarted,
  lost or deleted before.
* `InboundProofs!InboundStoredOnce`: A message is stored once, and once more for
  each deletion at most, in a database whose dedupe namespace cannot change.
* `InboundProofs!ReceptionHolds` (`ReceptionIsComplete`): Under the same hypothesis
  reception is complete, with one row for each message and its text in it.
* `InboundProofs!ReceptionKept` (`KeepsReception`): Under the same hypothesis the
  inbound worker implements the abstract promise of reception: a message is stored
  with its text, stored and forwarded in one step, and gone only by a deletion,
  through reconnects, crashes and failed tasks.
* `IdentityProofs!IdentityTypes`: Every reachable state of the identity component is
  typed, with any number of one-shot commands.
* `IdentityProofs!MonitoredIsNamed`: No process monitors a modem while the database
  has no dedupe namespace, commands or not.
* `IdentityProofs!TargetsSafe` (`TargetsAreSafe`): A service alone on its database
  has no action target with a mismatch known or about to be stored, and decides on
  what the meta table holds.
* `IdentityProofs!IdentityKept` (`IdentityIsKept`): For such a service the enrolled
  modem stays, the namespace stays while there is one modem, and a mismatch is
  cleared only after the enrolled identity was read there.
* `MessagesProofs!ConversationsInvariant`: The inductive invariant of the
  conversation summaries, with the state inside a deletion of several rows.
* `MessagesProofs!SummariesAreExact`: Every stored summary is the one counted from
  the table, for any rows, timestamps and statements.
* `MessagesProofs!SummariesAlwaysMatch` (`SummariesMatch`): With it, and with every
  pin on a conversation that has messages: the list of conversations shows what the
  table holds.
* `MessagesProofs!PagesShowOnce`: No message is shown on two pages of one reading.
* `MessagesProofs!PagesShowAll`: A reading that ends has shown every message that
  was there throughout.
* `MessagesProofs!PagesAlwaysCoverOnce` (`PagesCoverOnce`): The two before together:
  a reading shows each message that stays exactly once.
* `ModemProofs!QmiIdsComeBack` (`IdsComeBack`): A client id stays allocated only
  while its query or its release runs, or was cut off.
* `ModemProofs!HealthAnswersRecent`: No caller is told of a health older than a
  refresh takes and a result is fresh or, while a refresh runs, may be stale.
* `ModemProofs!HealthAlwaysRecent` (`HealthIsRecent`): With it, and refreshes only
  when the last result is no longer fresh: the cache bounds the age of answers and
  the load on the modem.
* `ModemProofs!ActionsOneCommand`: At most one command to the modem is under way.
* `ModemProofs!ActionsResetsSpaced`: Two resets of one session are apart by the
  limit, less the time that the search for mmcli takes.
* `ModemProofs!CommandsAlwaysTakeTurns` (`CommandsTakeTurns`): The two before
  together: one command at a time, resets at their distance.
* `ModemProofs!SendersNeverLie`: A Send that is reported refused was not
  transmitted.
* `ModemProofs!CondemnedStaysGone`: A connection that a caller gave up on is not
  handed out again.
* `ModemProofs!SendersAreHonest` (`SenderIsHonest`): With both, and a failing caller
  removing only the connection it failed on: callers may trust the answer and the
  connection they share.
* `ModemProofs!ProbeTellsGaps` (`GapsAreTold`): Each part of an IMS probe that
  stayed unknown is named by the query that did not give it, and a status that
  stayed unknown is explained by a part that it rests on, whichever queries fail,
  are cut off or are not understood. Excepted is the status of voice when its
  technology is what the code did not recognise; values of the serving system are
  not covered.
* `ModemProofs!StatusAlwaysEarned` (`StatusIsEarned`): A status put together from
  several calls, each of which may fail or find a changed modem, has the level of
  all that is known, and only reasons that hold.
* `ServiceProofs!ConfigSavesAreChecked` (`SavesAreChecked`): Every save of the
  service replaces the content its preview showed, for any number of browsers and
  dropped requests, with two exceptions, both named: editors, and commits whose
  request was dropped while it waited for them, write beside the lock, and such a
  commit may undo a later save.
* `ServiceProofs!AttemptVerdictsAgree` (`VerdictsAgree`): A success is only of what
  the provider took and a giving up only of what it refused, a redirect answered by
  a webhook apart, for all six kinds of channel.
* `ServiceProofs!UpdateRestartsReachTheService`: Once every run that replaced a
  binary has been told of a restart, the service runs the binary that is installed
  where its manager looks: for any number of runs, restarts that fail with the
  service down, and jobs of the manager that outlive the run which asked for them.
  Runs that failed, were killed or found no manager may leave the old build running,
  or nothing.
* `ServiceProofs!UpdateAlwaysWhole` (`UpdateIsWhole`): With it, a binary that is
  found is a whole build, and one that its release really describes: for any number
  of runs killed at any steps, and whatever temporary files they leave.
* `ServiceProofs!StreamMissesNoRefresh`: Whenever the messages shown are behind the
  last commit, a read that brings it is on its way or a refresh that will is due,
  through overflows of the ring and changes of the view, unless that commit had no
  event that met a stream, or its read failed or was made void by a reload for
  another view; these are left to the fallback.
* `ServiceProofs!StreamShownOnlyGrows`: The messages of a view never go back to an
  older state, in whatever order overlapping reads are answered; they go when the
  view is changed or a reload for another one shows its own. The list of
  conversations has no version and is not covered.
* `ServiceProofs!StreamKeepsUp` (`ViewKeepsUp`): The two before together: the
  messages of the view keep up and never go back.
* `ServiceProofs!EndedStaysEnded` (`SessionsEnd`): A token that was refused once is
  never accepted again, through restarts with any passwords, and the rows never
  exceed their cap.
* `ServiceProofs!ReportsAreThrottled` (`ReportsThrottled`): Reports of one error
  code keep the interval, and a failure is silenced only beside a report of its
  code, for any number of threads.
* `ServiceProofs!AcceptedContentRuns` (`AcceptedRuns`): Content that the wizard or
  the check accepted starts and runs, for every configuration and any number of
  rewrites, unless its database cannot be opened or its address cannot be served,
  and these two end as they are said to; IPv6 is served, beside IPv4, where it is
  asked for.
* `ServiceProofs!GuessesAreLimited` (`LimitIsFair`): However calls that have read
  the clock overtake each other on the way to the mutex, no stretch as long as the
  window, less the longest time a call is held up, holds more than twice the limit
  less two wrong guesses of an address, and nobody is locked out but by enough
  guesses of its own; for any limit, window, hold-up and number of clients and
  calls.
* `ServiceProofs!LeaseCovers` (`LeaseCoversTheBatch`): With a timeout shorter than
  the fixed part of the lease, a claimed row outlives its lease only if its own
  attempt, or one that kept a slot while it waited, lasted longer than one request
  may; for any number of slots, waves, rows and requests of an attempt.
* `ServiceProofs!TurnsComeRound` (`EveryoneGetsATurn`): A due message has its turn
  within the turns of those with smaller ids and one other, unless it waits for a
  turn that is not short for it; the first two are never kept from theirs. For any
  deferral, length of turns and number of unresolved messages.
* `ComponentsProofs!ComponentsTyped` (`ComponentsTypeOK`): Every small component
  keeps its state in its types and its counters within their bounds, for every value
  of the constants.

The argument for `AtMostOneSend`. As it stands it is not inductive: a process
may be about to call Send. The invariant `SendOnce` adds that a process standing
before the call (`Armed`) is the only one for its message and the message was not
sent yet (`ArmedOnce`); that a message which was sent, or has an armed process, no
longer shows a phase from which `begin_outbound_send` succeeds (`SpentShows`);
that no owner is about to write such a phase back (`RetreatIsSafe`: only a sender
that never called, or a recovery that claimed the row as prepared, writes
`prepared`); and that rows of unknown outcome have no owner. `FreshIds` says that ids
the sequence has not given out left no trace. The proof goes through the actions,
one lemma for each group and one step for each action.

The verdicts, on top of that (`SafetyInv`). `KeyInv`: an id is made for one request,
and a key leads to the messages of one lineage and one text. `AnnounceInv`: who is
about to acknowledge an event has published it. `PathInv`: objects, paths and rows go
together, and while the daemon has not restarted a path is that of one message.
`AirInv`: what may still be transmitted; a message recorded as failed, or about to be by
its owner, is neither on the air nor on its way there, unless a Send has hit another
message's object (`misfired`, the finding of `outbound_misfire`). `SentInv`: who is about
to store `sent` knows that the message went out. That last step needs recovery to
recognise the right object, so `SentTruthful`, `VerdictsAreFinal` and `SafetyHolds` take
the hypothesis `Distinguishable`: ModemManager does not restart, or no two requests have
the same number and text. Without it the property is false, see below under what was
met on the way.

The refinement. `Fate` reads the promise's verdict off a row; each action of `Outbound`
either leaves the fates, the Sends and the transmissions alone, or is one action of
`OutboundPromise`. `PromiseKept` is stated for a modem that does not restart: with a
restart a Send may hit another message's object, which is a step the promise does not
have and `outbound_misfire` shows.

The argument for `Delivery`. A row has a lease token exactly while it is in
flight (`LeasesOK`), deliveries exist only with their message (`NoOrphans`),
while a task's lease stands the attempt count is the one it claimed
(`SnapshotsOK`), and a task about to store a success saw the channel accept
(`VerdictsOK`). From these follow `SucceededWasAccepted` and `CountsEveryOutcome`;
`ResolvedIsFinal` follows step by step, since claims and recovery only touch
waiting rows and expired leases, and completion compares the token.

`SafetyInv` of the queue adds four things. Tasks belong to a run that is up, and a token
is with one claim (`TasksOK`). A task about to give up has its cause, and so has a row
given up (`CausesOK`, `GivenUpForCause`). Every answered attempt has left a sample, will
leave one, or is paid for by a fault (`SamplesOK`): the count of faults is an upper bound
of what is missing. And while there was no fault each lease is held, by one task that
knows it, and what a channel took is known to that task (`Undisturbed`), which gives
`OnceWithoutFaults`. A worker about to sleep as the only run has every waiting delivery
in its deadline, a permit, or a notification that is on its way (`Watched`); it has no
tasks, so that without a fault nothing is in flight.

The argument for `Inbound`. A message of the subscribed modem that is complete and not
stored is with someone (`Followed`): still to be listed, announced by a signal, in a task,
or in a task that failed, which ends the subscription; the signal that the modem is gone
stands for all of them. So a subscription with nothing left to do has missed nothing,
whatever happened before: `NothingIsMissed` needs no hypothesis. That a message has one
row needs one key: either no modem was found yet and nothing has a key, or all rows and
tasks have the namespace of the database (`OneKey`), and each insertion but one has its
deletion (`InsertsAreCounted`). `InboundStoredOnce` and `ReceptionHolds` have the
hypothesis `NamespaceIsFixed`: there is one modem, or the database has a namespace of
its own from the start. `inbound_swap` shows what happens otherwise.

`ReceptionKept`: `Inbound` implements `InboundPromise`, with the complete messages
for those received, the rows for those stored and `inserted` for what was forwarded. A
row, or a task about to insert one, has its text (`TextFirst`), since a task reads the text
before it inserts and a message that is complete stays so. A step then does nothing to
messages, rows and counts, or one of three things (`RowsChange`): a part completes a
message, a task inserts a message that is not stored (`NewIsUnstored`, which rests on
the one key and so on `NamespaceIsFixed`), or the operator deletes a row.

The argument for `ModemIdentity`. The first part is what can be queued at which point of
a resolution (`OnlyServiceMonitors`, with the types). That what is monitored has a
namespace needs no hypothesis, since meta is never emptied: every write keeps a namespace
that is there, and a target is published after the writes of its choice
(`NamespaceFollows`). For the rest the service must be alone on its database
(`Clis = {}`, no command resolves at the same time): then what it read of meta at the
start of a resolution still holds when it writes (`DecidesOnMeta`), modems are enrolled
only by the last of its writes and only when none is, a mismatch is cleared by the first
(`WritesAreFounded`), all mismatches are with the enrolled modem
(`MismatchesAreCurrent`), and the target of actions has none (`TargetsAreClear`). With a
command beside it the decision may be stale, as `identity_commands` shows.

The arguments for the smaller components:

* `Conversations`: the invariant holds at every row of a running deletion, since the
  trigger sees the table without the row. The lemmas say how the counts and the
  newest message change with one row, for each trigger; pins are alive or strays
  after every `DeleteRow`, because the trigger on the last row takes them along.
* `Paging`: what has been shown comes before the cursor and what stays and was not
  shown after it (`PagesInv`). The order by time and id is total, and the cursor goes
  on to name its place when its row is deleted, or the reading fails.
* `ModemHealth` (`HealthInv`): a cached result was read by a refresh that kept its
  time, the last refresh ended when the cache says, and a caller that refreshes
  holds the lock.
* `ModemActions` (`ActionsInv`): whoever is past the admission holds the lock, every
  reset that went out has an entry, and an entry is dropped only after the limit.
* `DbusSender` (`SenderInv`): a call under way is on a connection that was opened, and
  the cached one is not among those a caller gave up.
* `ConfigSave` (`SaveInv`): a browser that has checked holds the lock, and the file is
  still its base unless an intruder wrote meanwhile; the base of a commit on its way is
  the file unless it was overtaken.
* `ForwardAttempt` (`AttemptInv`): each step of an attempt says what the provider can
  have done by then; one case for each kind of channel.
* `Update` (`UpdateInv`, `RestartInv`): the catalog holds the releases 1 to n, and a
  verified temporary file agrees with checksum and version. A run owes a restart from the
  replacement until it is told of one; if all that owe one have had their service started,
  it runs what is installed, since a later replacement would owe one of its own.
* `EventStream` (`StreamInv`): at most one read of messages counts, and it brings nothing
  older than what is shown; when the last commit is neither shown nor coming nor lost,
  then the timer runs, an event is in the ring, or its own is still to be published.
* `QmiClient`: `IdsComeBack` is inductive as it stands.
* `ImsProbe` (`ImsInv`): while the probe goes on, a part that is unknown and was asked for
  has the name of its query among the blockers or warnings, and the end turns blockers
  into reasons or warnings. A status is unknown only if a part that it rests on is, but
  for the unrecognised technology.
* `ModemStatus` (`StatusInv`): until the SIM has been asked, the level and the reasons in
  JSON are those that classify gives the report put together so far (`InFull`); after it
  the reasons may be fewer, the level is the same (`PutTogether`). A failure leaves its
  reason and nothing else.
* `Sessions` (`SessionsInv`): while a process serves, the verifier is that of its
  password; every row was issued under the verifier's password, no two are of one token,
  none is of a refused token. The lemmas say that insertion in order of expiry, eviction
  and removal keep this of a list.
* `Configuration` (`ConfigInv`): content called accepted is valid. The rest is one step,
  for every record of facts: what the wizard and an editor make of a configuration is one
  (`WizardConfigs`, `EditedConfigs`), and a start goes by the file (`StartsRight`).
* `LoginLimiter` (`LimiterInv`): an entry stands for a window that a guess began
  (`WindowedBy`); its times are stamps, which lag behind the guesses by no more than a call
  is held up. It counts the guesses since, and of those before at most MaxFailures - 2 lie
  within its reach, which is the sure part of a window. A client without an entry has as
  few, so that a window which begins and the stretch before it never hold more than
  2 * MaxFailures - 2.
* `Reporting` (`ReportsInv`): LAST_REPORTS is the latest report of each code. Threads that
  come with an earlier time than the last report are silenced beside it.
* `DeliveryLease` (`LeaseInv`): a slot has a chance for each wave it can still begin in the
  time that all waves take, while no attempt outlasts one request (`Chances`); the rows
  waiting are never more than the chances. A tick takes no chance away while rows wait,
  since then every slot is busy, and a row that begins uses up one. With no chance left
  there is no row, and with one left the lease still has the time of an attempt. An attempt
  that lasts longer marks the batch (`slow`), of which nothing is claimed then.
* `RecoverySchedule` (`ScheduleInv`): while the turns it waits for are short for it, the
  time a message waited is at most that of the turns of the smaller ids it `WaitsFor`,
  those settled or put off since it became due, and of the turn that is on. Each is among
  them once: its deferral has not passed while the others have their turns.

The types of all of them (`ComponentsTyped`), about the specification of the run
`components`, where each component starts or rests and moves alone. Most types are part of
the invariants above. Added are the bounds of counters, the state no property speaks of, the
`UpdateBounds` of the files around an update (a build that was published, torn bytes or
none), and the stream at rest, which is logged out and so no state the stream starts in.

Theorems of the form ASSUME ... PROVE take the assumption on the constants, which TLC
evaluates in the run `components`, as their premise.

Only model-checked:

* Everything under fairness: `EverySendConcludes`, `EventuallyResolved`, `FindsTheModem`,
  `EventuallyStored`, `EventuallyShown`, `RestartComesToAnEnd`. Liveness is out of the
  prover's reach.

Every other property of a passing run, each safety invariant and each action property, is
stated by a theorem of the table.

## 5. Plan

Done: the outbound component, the delivery queue, modem identity and the inbound
worker; the message store with paging, the event stream, configuration and restart,
sessions and logins, the modem service, the D-Bus sender, forwarding attempts,
the two timed models, self-update and failure reports; the abstract
specifications of the outbound and of the inbound path, and the proofs of section 4.

Left, as the code grows: the parsing of D-Bus properties in `dbus/inbound.rs:215`, where one
unreadable SMS fails the whole subscription, so that `Inbound` could tell it from other
losses of the connection; favourites and search in `Conversations`; the order by due time
and the pruning of samples in `DeliveryStore`.

## 6. Not modelled

* Text and byte formats: PDU and GSM text, the output of mmcli and QMI values, TOML,
  request bodies and signatures of channels, templates, codes, exports, assets. They
  are sequential conversions without state; where a verdict depends on one, the model
  has the facts it yields.
* HTTP, hashing and cryptography: a proof is what it is computed from, a checksum
  agrees or not, a request is answered, refused or lost.
* Argument parsing, prompts, logging, the reporting backend, the installer, scripts
  and pipelines.
* The dashboard beyond when it reads: forms and views are presentation.
* Composition of the small components with the large ones. They share no state but
  the database row or the file that each models itself; the joints are named in the
  modules (what `Delivery` takes a lease and an attempt to be is the matter of
  `DeliveryLease` and `ForwardAttempt`, what `Outbound` takes an answer to be that of
  `DbusSender`).
* Real time elsewhere than in the modules named for it: deadlines are flags.
