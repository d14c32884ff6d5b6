------------------------------ MODULE RoomMeta ------------------------------
(***************************************************************************)
(* The name of one bridged channel and its room, or their topic: a         *)
(* behaviour is about one of the two.  A rename on Slack comes through the *)
(* socket loop (handle_slack_channel_update), which formats it with        *)
(* channel.name_pattern and sets it as the bot, between awaits; a rename   *)
(* on Matrix comes in a transaction (handle_matrix_room_name) and is       *)
(* passed to conversations.rename; each side reports the other's change    *)
(* back, Slack's as a channel_rename event, as a message of the subtype    *)
(* channel_name, or as both.  Archiving a channel puts delete_options.     *)
(* name_prefix, where one is configured, in front of its room's name; the  *)
(* event of its unarchiving is not handled.  A topic takes the same ways   *)
(* as a name, is not formatted and has no column in the row; a purpose set *)
(* on Slack becomes the topic.                                             *)
(* The socket loop and the transactions handle one event at a time each,   *)
(* and run side by side.  A name is the text a person chose, with the      *)
(* number of times the pattern and the prefix have been applied to it.     *)
(***************************************************************************)
EXTENDS Integers, Sequences

CONSTANTS
    Texts,              \* names people choose
    MaxRenames,         \* bound on the renames and archivings by people
    MaxFaults           \* bound on failed calls and refused renames

MaxLayers == 2          \* bound on what the pattern adds to a name
Name == [text : Texts, pattern : 0..MaxLayers, prefix : Nat]
Chosen(t) == [text |-> t, pattern |-> 0, prefix |-> 0]
NoName == Chosen("none")
NoPurpose == "none"

VARIABLES
    subject,    \* "name" or "topic"
    slack,      \* name or topic of the channel
    purpose,    \* its purpose, NoPurpose until a person sets one
    archived,   \* is the channel archived?
    stamped,    \* history: has it been archived since Slack last renamed it?
    namePrefix, \* is delete_options.name_prefix configured?
    room,       \* m.room.name or m.room.topic of the room
    row,        \* slack_channel_name of the room mapping
    envelopes,  \* events on their way to the socket loop
    events,     \* events of that type on their way in transactions
    loop,       \* the socket loop: event in hand and await it is at
    txn,        \* handle_matrix_room_name: name in hand and await it is at
    renames, faults

vars == <<subject, purpose, slack, archived, stamped, namePrefix, room, row, envelopes, events, loop,
          txn, renames, faults>>
-----------------------------------------------------------------------------
NameOrNone == Name \cup {NoName}
LoopSteps == {"idle", "rename", "compare", "set", "update", "archive", "notice", "read", "prefix"}

TypeOK ==
    /\ slack \in Name /\ room \in Name /\ row \in Name
    /\ subject \in {"name", "topic"} /\ purpose \in Texts \cup {NoPurpose}
    /\ {archived, stamped, namePrefix} \subseteq BOOLEAN
    /\ envelopes \in Seq([kind : {"rename", "archive"}, name : Name])
    /\ events \in Seq([by : {"person", "bot"}, name : Name])
    /\ loop \in [at : LoopSteps, name : NameOrNone]
    /\ txn \in [at : {"idle", "rename"}, name : NameOrNone]
    /\ renames \in 0..MaxRenames
    /\ faults \in 0..MaxFaults

IdleAt == [at |-> "idle", name |-> NoName]
Formatted(n) == IF subject = "name" THEN [n EXCEPT !.pattern = @ + 1] ELSE n

Init ==
    /\ subject \in {"name", "topic"} /\ purpose = NoPurpose
    /\ \E t \in Texts : slack = Chosen(t) /\ room = Formatted(Chosen(t)) /\ row = Chosen(t)
    /\ archived = FALSE /\ stamped = FALSE /\ namePrefix \in BOOLEAN
    /\ envelopes = <<>> /\ events = <<>>
    /\ loop = IdleAt /\ txn = IdleAt
    /\ renames = 0 /\ faults = 0
-----------------------------------------------------------------------------
(* Slack and the homeserver. *)

SlackIsNamed(n) ==
    /\ slack' = n
    /\ stamped' = (stamped /\ n = slack)
    /\ LET told == [kind |-> "rename", name |-> n] IN
       IF n = slack THEN envelopes' = envelopes
       ELSE \/ envelopes' = Append(envelopes, told)
            \/ subject = "name" /\ envelopes' = envelopes \o <<told, told>>

RoomIsNamed(n, by) ==
    /\ room' = n
    /\ events' = Append(events, [by |-> by, name |-> n])

Renamed == renames < MaxRenames /\ renames' = renames + 1

PersonRenamesChannel(t) ==
    /\ Renamed /\ ~archived /\ slack # Chosen(t)
    /\ SlackIsNamed(Chosen(t))
    /\ UNCHANGED <<subject, purpose, archived, namePrefix, room, row, events, loop, txn, faults>>

PersonRenamesRoom(t) ==
    /\ Renamed
    /\ RoomIsNamed(Chosen(t), "person")
    /\ UNCHANGED <<subject, purpose, slack, archived, stamped, namePrefix, row, envelopes, loop,
                   txn, faults>>

PersonSetsPurpose(t) ==
    /\ Renamed /\ subject = "topic" /\ purpose # t
    /\ purpose' = t
    /\ envelopes' = Append(envelopes, [kind |-> "rename", name |-> Chosen(t)])
    /\ UNCHANGED <<subject, slack, archived, stamped, namePrefix, room, row, events, loop, txn,
                   faults>>

PersonArchives ==
    /\ Renamed /\ subject = "name" /\ ~archived
    /\ archived' = TRUE /\ stamped' = TRUE
    /\ envelopes' = Append(envelopes, [kind |-> "archive", name |-> slack])
    /\ UNCHANGED <<subject, purpose, slack, namePrefix, room, row, events, loop, txn, faults>>

\* channel_unarchive is among the events the socket loop ignores.
PersonUnarchives ==
    /\ archived /\ archived' = FALSE
    /\ UNCHANGED <<subject, purpose, slack, stamped, namePrefix, room, row, envelopes, events,
                   loop, txn, renames, faults>>
-----------------------------------------------------------------------------
(* handle_slack_channel_update and handle_slack_channel_archive. *)

LoopAt(at, name) == loop' = [at |-> at, name |-> name]
Fault == faults < MaxFaults /\ faults' = faults + 1

\* The socket loop takes an event; the room mapping is looked up first.
TakeEnvelope ==
    /\ loop.at = "idle" /\ envelopes # <<>>
    /\ envelopes' = Tail(envelopes)
    /\ LoopAt(Head(envelopes).kind, Head(envelopes).name)
    /\ UNCHANGED <<subject, purpose, slack, archived, stamped, namePrefix, room, row, events, txn,
                   renames, faults>>

MappingFound ==
    /\ \/ loop.at = "rename" /\ LoopAt("compare", Formatted(loop.name))
       \/ loop.at = "archive" /\ LoopAt("notice", loop.name)
    /\ UNCHANGED <<subject, purpose, slack, archived, stamped, namePrefix, room, row, envelopes,
                   events, txn, renames, faults>>

\* get_room_name, get_room_topic: an error reads as no name, which differs from any.
Compared ==
    /\ loop.at = "compare"
    /\ \/ room = loop.name /\ loop' = IdleAt /\ UNCHANGED faults
       \/ room # loop.name /\ LoopAt("set", loop.name) /\ UNCHANGED faults
       \/ Fault /\ LoopAt("set", loop.name)
    /\ UNCHANGED <<subject, purpose, slack, archived, stamped, namePrefix, room, row, envelopes,
                   events, txn, renames>>

\* set_room_name or set_room_topic, as the bot; an error ends the handler.
NameSet ==
    /\ loop.at = "set"
    /\ RoomIsNamed(loop.name, "bot")
    /\ IF subject = "name" THEN LoopAt("update", loop.name) ELSE loop' = IdleAt
    /\ UNCHANGED <<subject, purpose, slack, archived, stamped, namePrefix, row, envelopes, txn,
                   renames, faults>>

\* update_room_mapping stores the name Slack gave.
RowUpdated ==
    /\ loop.at = "update"
    /\ row' = [loop.name EXCEPT !.pattern = @ - 1]
    /\ loop' = IdleAt
    /\ UNCHANGED <<subject, purpose, slack, archived, stamped, namePrefix, room, envelopes, events,
                   txn, renames, faults>>

\* The notice; an error ends the handler, and so does a configuration without a prefix.
NoticeSent ==
    /\ loop.at = "notice"
    /\ IF namePrefix THEN LoopAt("read", loop.name) ELSE loop' = IdleAt
    /\ UNCHANGED <<subject, purpose, slack, archived, stamped, namePrefix, room, row, envelopes,
                   events, txn, renames, faults>>

\* get_room_state_event: the name that will get the prefix.
NameRead ==
    /\ loop.at = "read"
    /\ LoopAt("prefix", room)
    /\ UNCHANGED <<subject, purpose, slack, archived, stamped, namePrefix, room, row, envelopes,
                   events, txn, renames, faults>>

\* The prefixed name is set; an error is ignored.
PrefixSet ==
    /\ loop.at = "prefix"
    /\ RoomIsNamed([loop.name EXCEPT !.prefix = @ + 1], "bot")
    /\ loop' = IdleAt
    /\ UNCHANGED <<subject, purpose, slack, archived, stamped, namePrefix, row, envelopes, txn,
                   renames, faults>>

LoopFails ==
    /\ loop.at \notin {"idle", "compare"} /\ Fault
    /\ loop' = IdleAt
    /\ UNCHANGED <<subject, purpose, slack, archived, stamped, namePrefix, room, row, envelopes,
                   events, txn, renames>>
-----------------------------------------------------------------------------
(* handle_matrix_room_name, handle_matrix_room_topic. *)

TakesAnyEvent ==    \* a fault: the bot's own events are not filtered
    /\ txn.at = "idle" /\ events # <<>>
    /\ events' = Tail(events)
    /\ txn' = [at |-> "rename", name |-> Head(events).name]
    /\ UNCHANGED <<subject, purpose, slack, archived, stamped, namePrefix, room, row, envelopes,
                   loop, renames, faults>>

\* Events of namespaced users, the bot's among them, are dropped.
TakeEvent ==
    /\ txn.at = "idle" /\ events # <<>>
    /\ events' = Tail(events)
    /\ txn' = IF Head(events).by = "bot" THEN txn
              ELSE [at |-> "rename", name |-> Head(events).name]
    /\ UNCHANGED <<subject, purpose, slack, archived, stamped, namePrefix, room, row, envelopes,
                   loop, renames, faults>>

\* rename_conversation, set_conversation_topic.
ChannelRenamed ==
    /\ txn.at = "rename" /\ ~archived
    /\ SlackIsNamed(txn.name)
    /\ txn' = IdleAt
    /\ UNCHANGED <<subject, purpose, archived, namePrefix, room, row, events, loop, renames,
                   faults>>

\* Slack refuses the name, or the channel is archived: only a warning.
RenameRefused ==
    /\ txn.at = "rename"
    /\ \/ Fault
       \/ archived /\ faults = MaxFaults /\ UNCHANGED faults
    /\ txn' = IdleAt
    /\ UNCHANGED <<subject, purpose, slack, archived, stamped, namePrefix, room, row, envelopes,
                   events, loop, renames>>

Next ==
    \/ \E t \in Texts : PersonRenamesChannel(t) \/ PersonRenamesRoom(t) \/ PersonSetsPurpose(t)
    \/ PersonArchives \/ PersonUnarchives
    \/ TakeEnvelope \/ MappingFound \/ Compared \/ NameSet \/ RowUpdated
    \/ NoticeSent \/ NameRead \/ PrefixSet \/ LoopFails
    \/ TakeEvent \/ ChannelRenamed \/ RenameRefused

Spec == Init /\ [][Next]_vars
-----------------------------------------------------------------------------
Quiet == loop = IdleAt /\ txn = IdleAt /\ envelopes = <<>> /\ events = <<>>

\* However the renames on both sides, the archiving and the unarchiving cross, once every
\* event has been handled and no call failed, room and channel have the same text, the
\* name of an archived channel's room has the prefix if one is configured, and no echo of
\* the bridge's own renames has carried the pattern to Slack.  A name keeps the prefix
\* until Slack renames the channel, archived or not: it has one only if the channel has
\* been archived since.  The same holds of the topic, but that a purpose may have taken
\* its place in the room.
NamesFollowSlack ==
    /\ slack.pattern = 0
    /\ Quiet /\ faults = 0 => /\ room.text \in {slack.text, purpose}
                              /\ archived /\ namePrefix => room.prefix > 0
                              /\ room.prefix > 0 => namePrefix /\ stamped
=============================================================================
