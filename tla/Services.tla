------------------------------ MODULE Services ------------------------------
(***************************************************************************)
(* The components that share no state with the rest or with each other,    *)
(* side by side: the presence queue, the channel queue, the emoji table,   *)
(* the name of a room, the profile of a user, the blocker, the message     *)
(* table, the membership of a user, and the stores of the three back ends. *)
(* The variable part says which of them a behaviour is about; the others   *)
(* stay in an initial state.                                               *)
(***************************************************************************)
EXTENDS Integers, FiniteSets

CONSTANTS
    People, BotUser, DisablePresence, MaxPresences,     \* PresenceQueue
    Channels, NumTasks,                                 \* ChannelQueue
    EmojiNames, LongNames, MaxEmojiEvents,              \* EmojiStore
    RoomTexts, MaxRenames,                              \* RoomMeta
    ProfileNames, Avatars, MaxProfiles,                 \* UserSync
    Checks, UserLimit, MaxUsers, MaxOrders,             \* BridgeBlocker
    Calls, Messages, PoolSize,                          \* MessageStore
    Rooms, Notify, MaxEvents, MaxMoves,                 \* Membership
    TextsA, TextsB, TextsV, Folded, Long, MaxCalls,     \* Backends
    MaxFaults                                           \* bound on the faults of each

ASSUME BoundsAreNat ==
    /\ NumTasks \in Nat /\ UserLimit \in Nat
    /\ {MaxPresences, MaxEmojiEvents, MaxRenames, MaxProfiles, MaxUsers, MaxOrders,
        MaxEvents, MaxMoves, MaxCalls, MaxFaults} \subseteq Nat
ASSUME CallsFinite == IsFiniteSet(Calls)
ASSUME RoomsFinite == IsFiniteSet(Rooms) /\ Rooms # {}
\* RoomMeta counts as a fault that Slack refuses to rename an archived channel.
ASSUME RoomForFaults == MaxFaults # 0

VARIABLES
    part,
    queue, handler, entry, ghosts, shown, pChanges, pFaults, newest, raced, refused,
    queues, waiting, task, channel, mutex, made, asked,
    backend, eSlack, count, feed, eStep, job, found, table, eFaults, lost,
    subject, purpose, rSlack, archived, stamped, namePrefix, room, rRow, envelopes, events, loop, txn,
    renames, rFaults,
    uSlack, uChanges, uRow, ghost, member, uStep, event, todo, uFaults, synced, believed,
    users, state, activeUsers, check, counted, orders, paused, overruled,
    rows, nextId, call, kind, msg, seen, turn, deleted,
    mapped, onSlack, gIn, guest, gFeed, gJob, at, gTodo, failed, reply, gEvents, moves, gFaults,
    astray, spared,
    store, tables, answer, held, calls, excused

pVars == <<queue, handler, entry, ghosts, shown, pChanges, pFaults, newest, raced, refused>>
qVars == <<queues, waiting, task, channel, mutex, made, asked>>
eVars == <<backend, eSlack, count, feed, eStep, job, found, table, eFaults, lost>>
rVars == <<subject, purpose, rSlack, archived, stamped, namePrefix, room, rRow, envelopes, events, loop,
           txn, renames, rFaults>>
uVars == <<uSlack, uChanges, uRow, ghost, member, uStep, event, todo, uFaults, synced, believed>>
bVars == <<users, state, activeUsers, check, counted, orders, paused, overruled>>
mVars == <<rows, nextId, call, kind, msg, seen, turn, deleted>>
gVars == <<mapped, onSlack, gIn, guest, gFeed, gJob, at, gTodo, failed, reply, gEvents, moves,
           gFaults, astray, spared>>
sVars == <<store, tables, answer, held, calls, excused>>

P == INSTANCE PresenceQueue WITH Users <- People, BotId <- BotUser, MaxChanges <- MaxPresences,
        changes <- pChanges, faults <- pFaults
Q == INSTANCE ChannelQueue
E == INSTANCE EmojiStore WITH Names <- EmojiNames, MaxEvents <- MaxEmojiEvents,
        slack <- eSlack, step <- eStep, faults <- eFaults
R == INSTANCE RoomMeta WITH Texts <- RoomTexts, slack <- rSlack, row <- rRow, faults <- rFaults
U == INSTANCE UserSync WITH Names <- ProfileNames, MaxChanges <- MaxProfiles,
        slack <- uSlack, changes <- uChanges, row <- uRow, step <- uStep, faults <- uFaults
B == INSTANCE BridgeBlocker
M == INSTANCE MessageStore
G == INSTANCE Membership WITH ghost <- gIn, feed <- gFeed, job <- gJob, todo <- gTodo,
        events <- gEvents, faults <- gFaults
S == INSTANCE Backends WITH table <- tables

\* A column without a text is not one with the text Null.
ASSUME NullIsNoText == S!Null \notin TextsA \cup TextsB

Parts == {"presence", "queue", "emoji", "room", "user", "blocker", "messages", "members", "stores"}

vars == <<part, pVars, qVars, eVars, rVars, uVars, bVars, mVars, gVars, sVars>>

Init ==
    /\ part \in Parts
    /\ P!Init /\ Q!Init /\ E!Init /\ R!Init /\ U!Init /\ B!Init /\ M!Init /\ G!Init /\ S!Init

Next ==
    \/ part = "presence" /\ P!Next
       /\ UNCHANGED <<part, qVars, eVars, rVars, uVars, bVars, mVars, gVars, sVars>>
    \/ part = "queue" /\ Q!Next
       /\ UNCHANGED <<part, pVars, eVars, rVars, uVars, bVars, mVars, gVars, sVars>>
    \/ part = "emoji" /\ E!Next
       /\ UNCHANGED <<part, pVars, qVars, rVars, uVars, bVars, mVars, gVars, sVars>>
    \/ part = "room" /\ R!Next
       /\ UNCHANGED <<part, pVars, qVars, eVars, uVars, bVars, mVars, gVars, sVars>>
    \/ part = "user" /\ U!Next
       /\ UNCHANGED <<part, pVars, qVars, eVars, rVars, bVars, mVars, gVars, sVars>>
    \/ part = "blocker" /\ B!Next
       /\ UNCHANGED <<part, pVars, qVars, eVars, rVars, uVars, mVars, gVars, sVars>>
    \/ part = "messages" /\ M!Next
       /\ UNCHANGED <<part, pVars, qVars, eVars, rVars, uVars, bVars, gVars, sVars>>
    \/ part = "members" /\ G!Next
       /\ UNCHANGED <<part, pVars, qVars, eVars, rVars, uVars, bVars, mVars, sVars>>
    \/ part = "stores" /\ S!Next
       /\ UNCHANGED <<part, pVars, qVars, eVars, rVars, uVars, bVars, mVars, gVars>>

Spec == Init /\ [][Next]_vars
-----------------------------------------------------------------------------
\* What is to hold of a part is looked at in its own behaviours.
Of(p, holds) == part = p => holds

\* The type invariant of each part.
TypeOK ==
    /\ Of("presence", P!TypeOK) /\ Of("queue", Q!TypeOK) /\ Of("emoji", E!TypeOK)
    /\ Of("room", R!TypeOK) /\ Of("user", U!TypeOK) /\ Of("blocker", B!TypeOK)
    /\ Of("messages", M!TypeOK) /\ Of("members", G!TypeOK) /\ Of("stores", S!TypeOK)

\* PresenceQueue: a presence is lost in the two cases named there only.
PresenceLossExcused == Of("presence", P!PresenceLossExcused)
\* ChannelQueue: a task is overtaken only before it has asked for its mutex.
TurnsInOrder == Of("queue", Q!TurnsInOrder)
\* EmojiStore: the table follows Slack, but for names lost to a clash of ids.
EmojiFollowsSlack == Of("emoji", E!EmojiFollowsSlack)
\* RoomMeta: renames and archivings that cross end in one name, and no echo runs away.
NamesFollowSlack == Of("room", R!NamesFollowSlack)
\* UserSync: a ghost is behind Slack only where the row hid the change.
ProfileFollowsSlack == Of("user", U!ProfileFollowsSlack)
\* BridgeBlocker: a pause holds until it is resumed or overruled by the limit.
PauseHolds == Of("blocker", B!PauseHolds)
\* MessageStore: an upsert answered Ok is in the table.
UpsertHeld == Of("messages", M!UpsertHeld)
\* Backends: no caller can tell which back end it has, but in the cases named there.
StoresAgree == Of("stores", S!StoresAgree)
\* Membership: ghosts are where their users are, and moderators are told the truth,
\* but for the exceptions named there.
MembershipExplained == Of("members", G!GhostFollowsSlack /\ G!ModerationTold)
=============================================================================
