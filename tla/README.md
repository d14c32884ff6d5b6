# A TLA+ model of matrix-bridge-slack

This directory models, model-checks and proves properties of the bridge in
`src/` (Rust, about 18 000 lines). It covers the parts whose difficulty is the
order in which things happen: approvals, the room table and its cache, the relay
of messages in both directions, the connection to Slack, and the smaller services
(presence, emoji, names, profiles, membership, the stores and their back ends).
Paths below are relative to `src/src/`.

Contents: [the system](#the-system) - [modules](#modules-and-the-code) -
[runs](#runs) - [proofs](#proofs) - [findings](#findings) -
[not modelled](#what-is-not-modelled) - [plan](#plan).

## The system

One process, a multi-threaded tokio runtime. Its actors are

* **Matrix tasks**: the web server serves appservice transactions
  (`matrix.rs`, `matrix/event_handler.rs`; the events of one transaction in
  order, errors swallowed, transactions possibly concurrent) and the
  provisioning HTTP API (`web/provisioning.rs`). Any number run at once.
* **the Slack loop** (`slack.rs` `socket_mode_loop`): one task that reads the
  socket, acks each envelope and *then* handles it, one at a time.
* **spawned tasks**: a backfill for each new bridge, timers of kicks.
* **the ticker** of `BridgeCore::start`, which works off the presence queue.

What they share: the database (each operation atomic, a handler's sequence of
operations not), `room_cache`, the approval coordinator's map, some further
caches, the presence queue, and the two outside services, whose calls fail,
are delayed, or succeed without an answer.

| component | state | operations | correct if |
|---|---|---|---|
| approval coordinator `bridge/provisioning.rs` | map channel -> oneshot sender; the waiting calls | `ask_bridge_permission`, `mark_approval` | an answer reaches the newest request of its channel and no other, nobody is left waiting, no stale entry |
| room registry and cache `bridge.rs`, `cache.rs`, `db/*` | table `room_mappings`, `room_cache` (TTL), room aliases | bridge / unbridge from Matrix, Slack and HTTP, cached lookups, removal on encryption | one to one; within the limit; an unbridge removes what it says; the cache is not stale |
| message relay `bridge.rs`, `slack.rs`, `bridge/logic.rs` | table `message_mappings` | new, edited, deleted Slack messages | an event is never taken for another message's; edits and deletions arrive |
| backfill `bridge/backfill.rs` | its position in the history | `backfill_channel` | history is bridged once |
| Matrix redactions `bridge.rs` | - | `handle_matrix_redaction` | deletes only what was redacted |
| Matrix to Slack messages `matrix.rs`, `matrix/event_handler.rs`, `bridge/message_flow.rs`, `slack.rs` | `send_lock`; the transaction at hand | transactions, send, edit, upload | order and count of what Slack shows; no failure takes another event along |
| socket mode `slack.rs`, `main.rs` | connection, `login_state`, back-off, gateway task | login, reconnect, ack, dispatch, stop | every event handled in the end, none of the bridge's own; shutdown ends and is final |
| permission cache `slack.rs` | user -> permissions (TTL) | `resolve_permissions` | what is cached was looked up |
| presence queue `bridge/presence_handler.rs` | queue, one entry per user | enqueue, process | the newest presence wins (nothing feeds the queue yet) |
| channel queue `bridge/queue.rs` | a mutex per channel | `enqueue` | a channel's tasks exclude each other and keep an order (not used yet) |
| emoji store and handler `emoji.rs` | table `emoji_mappings` | add, remove, rename | a name shows Slack's image |
| names and topics `bridge.rs` | `room_mappings`, room state | rename, topic, purpose, archive, both ways | both sides agree, echoes end |
| membership `bridge.rs` | who is in which room | joins, leaves, kick, ban, unban | ghosts are where users are; moderators are told the truth |
| user sync `bridge/user_sync.rs` | table `user_mappings`, the ghost's profile | `on_user_update`, `handle_slack_user_update` | the ghost follows Slack (the first is not called yet) |
| blocker `bridge/blocker.rs` | state, active users | pause, resume, check | a pause holds (no blocker is kept by the bridge) |
| stores `db/*` | four tables, three back ends, pools | 32 operations, written three times | callers cannot tell the back ends apart; upserts hold |
| admin notifier `admin.rs` | an error counter | | not used by the bridge |
| parsers, embeds, media, config, metrics | none | pure functions and I/O | covered by unit tests |

Interactions worth a model: `!slack bridge` waits in the coordinator for a Slack
moderator whose answer arrives on the Slack loop; bridging writes the table the
cache copies and spawns the backfill; the backfill and the Slack loop write the
same message mappings, which redactions read and delete.

The hazards this gives rise to are in `PROJECT.json`, each at its line, with the
properties that watch it or the reason why none does.

## Modules and the code

| module | models | kind |
|---|---|---|
| `BridgePermission` | what the caller of the coordinator relies on | abstract specification |
| `Provisioning` | `bridge/provisioning.rs` | component |
| `ProvisioningProofs` | | theorems about `Provisioning` |
| `RoomBridge` | bridging, unbridging, cached lookups: `bridge.rs`, `web/provisioning.rs`, `cache.rs`, the room store | component |
| `RoomRegistry` | what those who bridge and unbridge rooms rely on | abstract specification |
| `RoomBridgeProofs` | | theorems about `RoomBridge`, and that it implements `RoomRegistry` |
| `MessageRelay` | relay, backfill, redactions: `bridge.rs`, `slack.rs`, `bridge/backfill.rs`, the message store | component |
| `MessageRelayProofs` | | theorems about `MessageRelay` |
| `SocketMode` | login, gateway, own-event filter, permissions, shutdown: `slack.rs`, `main.rs` | component |
| `SocketModeProofs` | | theorems about `SocketMode` |
| `Outbound` | transactions and what becomes of their events: `matrix.rs`, `matrix/event_handler.rs`, `bridge.rs`, `bridge/message_flow.rs`, `slack.rs` | component |
| `OutboundProofs` | | theorems about `Outbound` |
| `PresenceQueue` | `bridge/presence_handler.rs` and the ticker | component |
| `ChannelQueue` | `bridge/queue.rs` | component |
| `EmojiStore` | `emoji.rs` over the three back ends | component |
| `RoomMeta` | names, topics and archiving of one channel and its room: `bridge.rs` | component |
| `UserSync` | one user, its row and its ghost: `bridge/user_sync.rs`, `bridge.rs` | component |
| `BridgeBlocker` | `bridge/blocker.rs` | component |
| `MessageStore` | the statements of an upsert and the pool: `db/sqlite.rs`, `db/postgres.rs`, `db/mysql.rs` | component |
| `Backends` | the four stores on each back end: `db/*`, migrations | component |
| `Membership` | ghosts of one user, and moderation of one guest: `bridge.rs`, `matrix.rs` | component |
| `Services` | the nine components that share no state, side by side | composition |
| `PeopleProofs` | | theorems about the `PresenceQueue`, `UserSync`, `Membership` and `BridgeBlocker` of `Services` |
| `TableProofs` | | theorems about its `MessageStore`, `EmojiStore` and `Backends` |
| `ServicesProofs` | | theorems about its `ChannelQueue` and `RoomMeta`, and about all of it |
| `MCServices` | small instances of `Services` | instance |
| other `MC...` | instances for TLC | |

Granularity. A step is the work between two awaits that touch shared state; a
lock held without an await inside makes one step. A read that begins a handler
and whose result is not read again has no step of its own, since the handler
might as well have started later. `Provisioning`, `RoomBridge`, `MessageRelay` and
`Outbound` have a `Crash` that keeps exactly what the database and the outside
services remember; the others have failing calls, and in `SocketMode` the end of
the process is a step-by-step shutdown.

**Provisioning.** One `r` of `Requests` is one call of `ask_bridge_permission`.
`pc[r]` goes `idle, prompting, waiting, (expired,) done`; `expired` is the
moment between the timer's firing and the removal of the entry, when an answer
can still be applied. `oneshot[r]` is the fate of the sender, `pending` the map,
`newest` history. Time is abstracted to "the timer may fire"; `TimerFires`
requires that no decision is there, since `tokio::time::timeout` polls the
receiver first. That a request made again after it returned is another `r` is
the bound on requests.

**RoomBridge.** `task[t]` is the handler that a task runs, as a record of
operation, place and the data it carries across awaits; the operation decides
where the shared steps (`CheckChannel`, `Insert`, `ReadRow`, `Fill`, `Delete`,
`Evict`) lead. `rows` is `room_mappings` with its UNIQUE columns, `cache` is
`room_cache`, `aliases` the aliases that `create_room` takes and the unbridge
drops. The wait for a moderator is the single step `Permission`, which is what
`BridgePermission` allows: it comes after an unbounded time, with a yes or a no.
`raced` and `since` are history and decide nothing. `Served` is the set of
request kinds that arrive, so that a run can ask about some of them.

**MessageRelay.** One channel and one room. `slack` is the channel as Slack has
it, `socket` the envelopes outstanding, `loop`, `fill[f]` and `redactor` the
handlers at work, `mapping` the table `message_mappings`, `events` the Matrix
timeline. Who bridges and unbridges is RoomBridge's business, here it just
happens. `OwnMsgs` are messages the bridge posted under the bot's own name,
which happens when Slack refuses a customised sender: those carry a `user` and
are not skipped by the backfill. `Relation` is what `apply_message_relation_mappings`
leaves in `edit_of`: the event its message is mapped to, or, if there is none, the Slack
timestamp it was given (`Dangling`), which is then sent as the event an `m.replace`
replaces. `Faulty` switches failures, lost acks and restarts on; `clean` is history.

**SocketMode.** `starter` is the task of `SlackClient::start` with its doubling
wait, `gw` the gateway task (`socket_mode_loop`) with the event it has in hand,
`conn` and `inbox` the connection and the frames on it, `main` the life of the
process, `lock` the mutex `login_state`. Slack is `pending` (not known to be
acked), `sent` and `acks` (on their way). An envelope is acked, then its payload's type is
looked at, then it is dispatched, its sender's permissions resolved (`fetch`, `cache`) and
forwarded; own events are filtered by type. `Unmarked` are the events whose payload Slack
may send with another type than the code asks for, or without an event; whether it does is
decided when the payload is read first, and `passed` are those that went no further. Which
type Slack gives them is not in the repository (see [findings](#findings)), so both are
modelled. `abort()` ends a task at its next await, which is why the
starter may go on for a step, or to its end, after `stop` took the lock.
A read error or a close ends a connection; a disconnect payload changes nothing
until Slack closes it (`draining`).

**Outbound.** `next` and `waiting` are the homeserver's transaction and the task it
waits for; `task[r]` is a request of the web server with its position in the
transaction and the `parts` left to send of the event at that position. `Handle` decides
what becomes of an event each time it is delivered: dropped because it is over the age
limit by now (`tooOld`), given up because its room could not be looked up (`unread`, an
error that `on_transaction` only logs), or planned. Time is abstracted to "it may be over
the limit, and then stays so"; a ghost's event, of which nothing is sent either way, is
dropped at once. `Plans` is the control of `handle_matrix_message`: a text, a file and then its text, the URL in
the file's place, an edit, a notice for a kick. `Sent`, `Refused` and `AnswerLost`
are the outcomes of a call under `send_lock`; `AfterError` says what the code tries
next. A retry starts a second handler beside or in place of the first.

**The services.** `Services` puts nine components side by side that share no state with
the rest or with each other: an instance of each over variables of its own, and `part`,
which says whose steps a behaviour takes. Nothing is lost by that, since no property
relates two of them, and the assumptions the theorems need are stated there once.
`PresenceQueue`: `queue` and the entry in hand during the PUT.
`ChannelQueue`: a mutex per channel with its waiting line; the runtime starts spawned
tasks in any order. `EmojiStore`: the feed of `emoji_changed`, the step of the one
handler, and the rows under their UNIQUE columns on each back end; an event that is not
`usable` (an alias, no value, no name) ends where `handle_emoji_change` ends it, and an
emoji added by one is `lost`. `RoomMeta`: the
name on either side as a text and the number of times the pattern and the archive
prefix have been applied to it; `namePrefix` says whether one is configured, `stamped`
(history) whether the channel was archived since Slack last renamed it; unarchiving
reaches no handler; `loop` and `txn` are the two handlers, `envelopes`
and `events` what they have yet to handle. `UserSync`: the row, the ghost and its
member event, three handlers. `BridgeBlocker`: checks that count before they lock. `MessageStore`: upserts
and deletes as the statements they are. `Backends`: each call is made to three copies
of the tables at once, and the answers compared. `Membership`: rooms bridged and
unbridged while a handler goes through the list it took. Where the bridge has no
caller for an operation, the module's header says so and any caller may call it.

Definitions named in a comment as *faults* (`ReturnSwapped`, `EvictForgets`, ...)
are slips a programmer could make; no specification uses them. Substituted for
the definition after them, each makes TLC report the property it is paired with
in `PROJECT.json`, which shows that the property depends on the code.

## Runs

| run | checks | shows | size |
|---|---|---|---|
| `provisioning` | type, 4 invariants, liveness, refinement | see the comments on the properties | 3 requests, 2 channels; 160 000 states |
| `provisioning_approved` | `ApprovedIsNotTimedOut` | violated | same |
| `room_bridge` | type, one to one, staleness, deletions | table and cache stay in step but for two windows | 2 tasks and the Slack loop, 1 + 1 rooms, 2 channels, 2 rows ever inserted, limit 1; 1.5 million states |
| `room_limit` | `LimitOvershootBounded`, `ImplementsRegistry` | two tasks exceed the limit by at most one row; each request changes a one-to-one relation at one moment, in the way it asked for, or not at all (`RoomRegistry`) | 2 tasks that bridge and, when a room is encrypted, unbridge; 3 rooms, 3 channels, 3 rows ever inserted, limit 1; 151 000 states |
| `room_unbridge` | `UnbridgeIsTrue` | violated | 1 room, 2 channels |
| `room_created` | `CreatedMeansBridged` | violated | 3 rooms, 2 channels, limit 1 |
| `message_relay` | type, relations, causes, agreement | three writers, two messages | 2 messages (one the bridge's own), 3 events, 1 envelope outstanding, 1 redaction by a user, 1 backfill; 2.9 million states |
| `relay_once` | `BridgedOnce` | violated, without any fault | 2 messages, 1 backfill |
| `socket_mode` | type, 4 invariants, 2 liveness properties | login, gateway and shutdown race; see the comments on the properties | 2 events (a user's message, whose payload may be of another type, and a reaction of the bot's), each sent twice at most, 1 frame in flight, waits 2 and 4; 137 300 states |
| `outbound` | 3 invariants, liveness | duplicates, order and loss have the causes named only | 2 transactions of 3 and 2 events of four shapes, any of which may grow too old, 2 tasks, 2 faults; 568 168 states |
| `outbound_edits` | `EditsReachSlack` | violated, without any fault | 2 events |
| `services` | the type invariants and one property of each of nine components | what each property excuses is all that happens | see `MCServices`; 1.4 million states |

Why the bounds are enough. Three requests let one be superseded twice, and let a
superseded one remove the entry of its successor while a third waits; the second channel
shows that channels do not interfere. Two rows ever inserted let a room be bridged,
unbridged and bridged again, which is what a stale entry needs; two Matrix tasks and the
Slack loop give every pair of handlers, and two of them against a third. Three rooms and
channels are one more than the overshoot that `LimitOvershootBounded` allows, and three
rows ever inserted are enough to break it. In the relay, three events are a message, its
edit and a backfilled copy, or the events of two messages; one envelope outstanding
besides the one being handled (and the one a `chat.delete` of the bridge adds) lets edit
or delete follow a message closely, and a delete on Matrix get ahead of an edit. In
`socket_mode` an event that is sent twice can be acked with the ack lost and come again
on another connection; the two waits let the back-off double and reach its limit; the
bot's event shows what the filter must know and when. In `outbound` the transactions
have every shape but an edit, which has its own run, and a text after a medium, so that
a failed upload has something to be late for; two faults let a lost answer meet a retry.
In `services` four renames and archivings let a channel be archived twice with a rename on
either side; elsewhere three changes let a value return to what it was with another in between,
three concurrent calls let a third see what two have done to each other, and five calls
of a store insert, move and collide; the texts hold a pair that differs in case, one too
long for MySQL, and one that two columns share. `NewRooms` and the constants that begin
with `Max` are bounds of the model only (but `MaxRetry`, which is the code's, and
`MaxSends`, which is Slack's); a step that would exceed one is not taken. The theorems
hold for all of their values.

Symmetry (tasks, channels, rooms) is used in the runs of `RoomBridge`, which
check no liveness. Deadlock is not checked: each system may come to rest when
its bounds are used up or nobody asks for anything.

Fairness. `FairSpec` of Provisioning has weak fairness of each call's own steps:
the runtime polls ready tasks, timers fire, and Slack answers or refuses the
prompt. That last part is an assumption, since the HTTP client is built without
a timeout. Nobody is assumed to ask, to approve or to deny. `FairSpec` of
SocketMode has weak fairness of the starter, the gateway and the shutdown, again the
runtime's, and strong fairness of what Slack must grant in the end for anything to
arrive: `auth.test`, `apps.connections.open`, the connection and the delivery of what
is pending; Slack closes a connection after its disconnect payload. `FairSpec` of
Outbound has weak fairness of each task's steps and strong fairness of `TakeLock`,
since tokio's mutex is first come, first served; the homeserver keeps delivering, and
faults are bounded. The services are checked for safety only.

## Proofs

`ProvisioningProofs` proves, for every set of requests and channels, all safety
properties of the run `provisioning` and the refinement; the only assumption is
`NoneIsNoRequest`. `GrantsAreApproved`, that a call is granted only by an approval sent
to that very call, is a theorem only: the runs check it as part of the refinement. None
of the properties is inductive by itself. `IInv` adds to their conjunction how the
call's place, its channel and its sender belong together: an idle call has an unused
sender; a sender is open only while the call is active; a call that lost its sender
without an answer has a rival, that is, another call has asked for the same channel.
This last part is what carries `CancelledOnlyByRival` through the removals by channel
id. The steps are proved per action (`AskStep`, `PollStep`, `MarkStep`, ...); the two
removals share `RemoveStep`, and `RivalKept` says that rivals never go away.

`Refinement` maps a call to *idle, asked, granted, refused* and the approvals
spent to the calls whose sender carried one. Every step is a step of
`BridgePermission` or a stutter: prompts, timers, removals and denials stutter,
`MarkApplied` with an approval is `Approve`, because by the invariant the call
in the map is active and not yet approved, and a restart is a `Refuse` of all
the calls in flight at once. RoomBridge's step `Permission` relies on no more
than this.

`RoomBridgeProofs` proves all the properties of the runs `room_bridge` and
`room_limit` for any sets of rooms and channels, any finite set of tasks
(`TasksFinite`: the runtime never has infinitely many requests in hand) and any
limit. `IInv` adds to type correctness and `OneToOne` what each handler has
established where it stands (`HandlerOK`), in terms of two ideas. A copy of a row
is *known* if its id is below the counter and names, in the table, that row or
nothing: AUTOINCREMENT never reuses an id, so a stale copy is harmless except by
being gone, which is `RemovesWhatItSaw`. A copy is *excused* if its row is in the
table, or a task has yet to evict its room, or an eviction found it on its way
into the cache; the cache holds excused copies only, which is `CacheIsExcused`.
Most actions are instances of `MoveStep` (the handler goes on, table and cache
stay); `InsertStep`, `FillStep`, `DeleteStep`, `EvictStep`, `ExpireStep` and
`CrashStep` are the others. `SlackIsToldTheTruth` adds that the Slack loop handles
one event at a time (`SlackOK`). `OvershootIsBounded` counts rows together with
the tasks that have passed `check_room_limit` and not yet inserted
(`AdmittedBounded`): a step keeps that sum from growing, or starts below the
limit, or trades such a task for a row (`AdmissionStep`).

`RegistryRefinement`, in the same module, shows that `RoomBridge` implements
`RoomRegistry`: a one-to-one relation of rooms and channels that a request changes at one
moment, by making the bridge it asked for or by taking away one of the room or channel it
named. The mapping forgets ids, cache and aliases, and sees of a handler only what it may
yet do to the table (`YetWanted`). `Serves` is what `IInv` lacks for that: the copy of a
row that a handler carries is one of a bridge of the room, or the channel, that its
request named. `Insert` is then `Make`, a `Delete` that finds its row is `Take`, one that
finds none gives up, and all other steps of a handler stutter (`HandlerRefines`). What the
registry does not promise, because the code does not keep it (`UnbridgeIsTrue`), is that
an unbridge that is answered has taken anything away.

`MessageRelayProofs` proves all the properties of the run `message_relay`, for any number
of messages, backfills, events and redactions. Each handler acts on what it read some
awaits before, so `IInv` adds what it still knows (`LoopKnows`, `FillKnows`,
`RedactorKnows`): the event in its hands was sent for the message in its hands, a
message whose deletion is on its way is gone, an event handed to the redactor was
redacted by a user. `KnowledgeStays` says that no step of another party takes that
away, because events are only added and what is gone never comes back.

`QuietMeansInSync` speaks of the moment when nothing is under way, and its invariant
(`InStep`) of every moment while nothing has failed: a message is mapped to its newest
event, unless the loop is about to map it or the message is gone and that event
redacted (`NewestMapped`); a message that is there has an event, or one on its way
(`ThereRelayed`); of one that is gone the deletion is on its way, in hand or done
(`GoneRemoved`). That needs the order of the envelopes, a deletion being the last that
Slack says of a message (`Ordered`, `DeleteIsLast`), and that backfill has had nothing to
do (`FillsIdle`), since `clean` excludes a fill that found something. The lemmas
`OneMoreEnvelope` and `NextEnvelope` say what a queue mentions before and after a step;
the induction then goes by handler. `DanglingIsExcused` needs more of the order
(`Follows`): while nothing has failed, an edit comes after its message, and the row of a
message that had one is missing only because the message is gone; so an edit finds a
mapping unless the bridge has removed the message from Slack on a user's redaction.

`SocketModeProofs` proves all safety properties of the run `socket_mode`, and that a
handler runs at most as often as its event was acked. `IInv` is `TypeOK` with
`LoginOK` (who holds `login_state`; a gateway implies a login and that the bot is
known), `InboxOK` (a frame is there once, and not yet acked), `CountOK` (handled, acked
and sent, in this order, with one between them while an event is in hand; an event acked
and not handled is in hand, dropped or in `passed`), `EchoOK`
and `PermOK` (what the lookup under way will find). Assumptions: the bot is not one
of the users, events have a type and a cause, the bounds are naturals.

`OutboundProofs` proves the three safety properties of the run `outbound` and type
correctness, for transactions of any length and any number of tasks and faults. One
assumption is about the environment: `EventsNumbered`, events are numbered in the
order in which the homeserver sends them. The invariant: what lies behind a task's
position is on Slack or given up (`SettledOK`; given up is refused twice, without its
room, or too old, and stays so); before the first retry one task works
(`Alone`) and the channel holds only what it has passed or its own event's parts
(`Behind`); what is left of an event's parts is not there yet (`Unposted`), from which
nothing is there twice (`Once`). `SendShape` gives the three outcomes of a call one
form, which all parts of the induction use.

`PeopleProofs`, `TableProofs` and `ServicesProofs` prove all ten properties of the run
`services` for `Services`. Of each part `X` a section proves `X!Spec => []X!Property`, by
lemmas per action, and then, since a behaviour of `Services` is one of `X` (the lemma
`XAlone`), the property of `Services`. The assumptions are those of `Services`: the bounds
are naturals, `Calls` and `Rooms` are finite and there is a room, and the text that stands
for a column without one is none of the texts (`NullIsNoText`). `RoomForFaults` is about
the model only: `RoomMeta` counts as a fault that Slack refuses to rename an archived
channel, so its bound is not zero.
What has to be added to each property to make it inductive:

* `PresenceLossExcused`: a user has one entry in the queue at most, and an entry older
  than the user's newest update is queued or in hand only if the user is in `raced`; so
  the newest of anybody else is in the queue, in hand, shown or refused.
* `ProfileFollowsSlack`: a user has one row at most. While `on_user_update` is at work,
  what it has planned is what the event asks for but for what the row hides (`Planned`),
  and what it has passed is done (`Achieved`).
* `MembershipExplained`: the last event on its way that says whether the user is in a
  channel agrees with Slack (`FeedTells`); with none on its way the event in hand does
  (`JobTells`); with neither, the ghost (`GhostTells`). A kick has each bridged room among
  those it has done, has to do, or could not (`Reaches`).
* `PauseHolds`: a paused bridge in another state than `Paused` has been overruled.
* `UpsertHeld`: ids are not used again, so an UPDATE by id meets its message's row or
  none; answers are numbered.
* `EmojiFollowsSlack`: the events of the feed lead, one by one, from the emoji that the
  table has once the event in hand is handled to those of the workspace. This is a
  statement about a sequence of contents (`History`), one for each place in the feed,
  that an event extends at one end and the handler shortens at the other. A name without
  a row because it was added as an alias carries that along through its renames.
* `StoresAgree`: each call does on the table of a back end what `OneCopy` does, and on
  tables that are twins (the same rows but for ids, which MySQL and PostgreSQL spend on
  refused inserts too) `OneCopy` does alike, if nothing excuses the call.
* `TurnsInOrder`: a channel keeps one mutex and shares it with no other, a mutex serves
  those that asked for it, the holder first, and a task stands behind those that had
  asked when it was enqueued.
* `NamesFollowSlack`: the last rename on its way carries the channel's name
  (`LastIsCurrent`); with none on its way the room, and the name that is about to get the
  prefix, has that name or one that Slack has yet to be told (`RoomFollows`, `RoomAhead`).
  Behind the archiving of an archived channel comes no rename, and behind the rename of a
  channel not archived since comes no archiving (`ArchivedLast`), so that the one handled
  last decides on the prefix (`PrefixFollows`). A name is formatted at most once (`Layers`),
  which bounds the echoes.

`HandlersFollowAcks`, `OutboundTypeCorrect` and `TasksExclude` state invariants that no
run checks. Every invariant of a passing run is stated by a theorem.

Only model-checked: the liveness properties (`EveryRequestReturns`,
`EveryEventHandled`, `ShutdownEnds`, `EveryTxnAnswered`), since fairness and ENABLED
are out of the prover's reach.

Two definitions were given another form so that they could be reasoned about:
`Without` of `PresenceQueue` takes the one entry of a user out of the queue, which is
what `retain` does there because a user has one entry at most (the type invariant now
says so); `Make` of `Backends` takes the call as a function of the back end. And one was
wrong: `MayPart` did not name the query by a column `v` whose values differ in case only,
which MySQL answers differently. No run had such values; the proof of `StoresAgree` did
not go through without it.

## Findings

Five statements of the repository that the code does not keep; the runs that
show them and the lines are in `PROJECT.json`.

1. A moderator is told that the bridge has been approved although the request
   has timed out (`provisioning_approved`): the timer fires, the answer takes
   the entry and is sent to nobody, then the entry would have been removed.
2. "This room has been unbridged" although its row is still there
   (`room_unbridge`): a lookup reads a row, the row is deleted and evicted, the
   lookup puts it in the cache; the room is bridged again; the next unbridge
   deletes by the id of the cached row.
3. `201 Created` with `"ok": true` for a request the room limit refused
   (`room_created`).
4. The backfill's check for messages already bridged does not see a message the
   Slack loop is just relaying, which then appears twice (`relay_once`).
5. The README names edits among what the bridge does through Slack's Web API; an
   edit made on Matrix is sent with the Matrix event's id as Slack's time stamp,
   refused, logged and lost (`outbound_edits`).

The models also reach states that nothing in the repository calls wrong, so that
no property is stated about them: the limit does not apply to bridges made from
Slack; a failed insert leaves the new room and its alias behind, and an unbridge
from Slack leaves the alias, after which the channel cannot be bridged from
Slack again; deleting an edited message redacts only the edit; the backfill
relays the bridge's own messages; a redelivered envelope is bridged again. An edit of a
message without a mapping is sent as an `m.replace` of the Slack timestamp, which is no
event; the test at `bridge/logic.rs:130` fixes that `edit_of` stays as it is
(`RelationsStayInMessage` excuses it only where the mapping may be missing). An event of
Matrix whose room cannot be looked up is logged and answered for, and one that was young
at first is dropped for its age if its transaction is delivered again late
(`AnsweredMeansSent`). Whatever Slack sends whose `payload.type` is not `events_api` is
acked and then passed over without a word (`slack.rs:673`). In Slack's socket mode that is
the type of the envelope, and the payload in it has the type `event_callback`; the
repository has no recorded envelope or test that tells which the code meets. If it meets
the latter, no event is ever handled, and the models of what comes after describe a
loop that never gets one: `LossExcused` and `EveryEventHandled` excuse exactly the events
passed over so, and the other modules start from an event that was not. Of the
services: an "offline" presence the homeserver refused is dropped, and an older
presence that is queued again removes a newer one (`PresenceLossExcused`); a check
that has counted too many users overrules a pause ordered meanwhile (`PauseHolds`);
the tasks of a channel are ordered by who first asks for the mutex, not by the calls,
though a test is named `channel_queue_processes_in_order` (`TurnsInOrder`); a kick, ban
or unban that a homeserver refuses counts as done (`ModerationTold`); an emoji that is an
alias is not stored, though the comment at `emoji.rs:130` says the reference is, nor is
one added without a value (`EmojiFollowsSlack`); an archived channel's room gets a prefix
only if `delete_options.name_prefix` is configured, which by default it is not, keeps it
when the channel is unarchived, and gets another when it is archived again
(`NamesFollowSlack`); the row that
`on_user_update` compares with is never updated by it (`ProfileFollowsSlack`); a name
freed by a rename and used again loses an emoji, not the same one on each back end
(`EmojiFollowsSlack`); MySQL ignores case where the others do not, and refuses long
texts (`StoresAgree`). Each property states exactly these exceptions. Met while
reading, outside the models: a redacted reaction is only logged.

## What is not modelled

What messages say, how they are parsed and rendered, attachments and media,
configuration and the command line, metrics, health and lookups: pure functions
or I/O, whose data is out of a model checker's reach and which have unit tests.
Typing, read receipts and reactions are single calls without state. The admin
notifier and `backfill_thread` have no caller, and `get_or_upload_emoji` is reached only
from text conversions that nobody calls. Replies and
threads only select a text; they are abstracted from `MessageRelay` and `Outbound`, as
are the pages of a backfill. The appservice SDK (transaction scheduling, what a clone
of the client shares) and the web server are external and appear only as the freedom
of the Matrix tasks: whether two sends that impersonate different ghosts through
clones of one client can be confused is not visible in this source.

## Plan

Done: the modules above. What is left, in the order of what it would add:

1. an at-least-once channel that `SocketMode` implements, and the order that `ChannelQueue`
   promises as an abstract queue;
2. `MessageRelay` over `SocketMode` instead of its own queue of envelopes;
3. a history of several pages in the backfill, and `backfill_thread`, once they are
   called.
