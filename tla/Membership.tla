----------------------------- MODULE Membership -----------------------------
(***************************************************************************)
(* Who is in the bridged rooms of a workspace: the ghost of one Slack user *)
(* (handle_slack_member_joined_channel and its kin) and one Matrix user    *)
(* that Slack moderators kick, ban and unban with `!matrix` commands.  The *)
(* socket loop handles one event at a time and goes through the rooms one  *)
(* request at a time; rooms are bridged and unbridged and people come and  *)
(* go meanwhile.  invite, kick, ban and unban of matrix.rs return Ok when  *)
(* the homeserver refuses: only a request that got no answer is an error.  *)
(* Nothing calls the handlers of a whole workspace yet, such as            *)
(* handle_slack_guild_delete: their calls come through the same feed here. *)
(***************************************************************************)
EXTENDS Naturals, Sequences, FiniteSets

CONSTANTS
    Rooms,          \* rooms of the workspace that can be bridged, one per channel
    Notify,         \* not bridge.disable_join_leave_notifications
    MaxEvents,      \* bound on what happens on Slack
    MaxMoves,       \* bound on what people do on Matrix
    MaxFaults       \* bound on refused or failed requests

Commands == {"kick", "ban", "unban"}
ChannelEvents == {"join", "leave"}
TeamEvents == {"team_join", "team_leave", "team_delete"}
NoReply == [action |-> "none", failed |-> 0]

VARIABLES
    mapped,     \* rooms with a row in room_mappings
    onSlack,    \* channels the Slack user is in
    ghost,      \* rooms its ghost is invited to
    guest,      \* where the Matrix user is "out", "in" or "banned"
    feed,       \* events on their way to the socket loop
    job,        \* the event in hand
    at,         \* await of its handler
    todo,       \* rooms the handler still has to go to
    failed,     \* rooms of a command whose request failed
    reply,      \* the last answer to a moderator
    events, moves, faults,
    astray,     \* history: rooms where the ghost has not been set by the last channel event
    spared      \* history: rooms a command has not reached, or the user has come to since

vars == <<mapped, onSlack, ghost, guest, feed, job, at, todo, failed, reply,
          events, moves, faults, astray, spared>>
-----------------------------------------------------------------------------
Event == [kind : Commands \cup ChannelEvents \cup TeamEvents, room : Rooms]

TypeOK ==
    /\ mapped \subseteq Rooms /\ onSlack \subseteq Rooms /\ ghost \subseteq Rooms
    /\ guest \in [Rooms -> {"out", "in", "banned"}]
    /\ feed \in Seq(Event)
    /\ at \in {"idle", "list", "ghost", "delete", "moderate", "reply"}
    /\ at # "idle" => job \in Event
    /\ todo \subseteq Rooms /\ (todo # {} => at \in {"ghost", "delete", "moderate"})
    /\ failed \subseteq Rooms
    /\ reply \in [action : Commands \cup {"none"}, failed : 0..Cardinality(Rooms)]
    /\ events \in 0..MaxEvents /\ moves \in 0..MaxMoves /\ faults \in 0..MaxFaults
    /\ astray \subseteq Rooms /\ spared \subseteq Rooms

Init ==
    /\ mapped \in SUBSET Rooms
    /\ onSlack = {} /\ ghost = {} /\ guest = [r \in Rooms |-> "out"]
    /\ feed = <<>> /\ job = <<>> /\ at = "idle" /\ todo = {} /\ failed = {}
    /\ reply = NoReply
    /\ events = 0 /\ moves = 0 /\ faults = 0
    /\ astray = {} /\ spared = {}
-----------------------------------------------------------------------------
(* Slack. *)

Happens(kind, r) ==
    /\ events < MaxEvents /\ events' = events + 1
    /\ feed' = Append(feed, [kind |-> kind, room |-> r])
    /\ UNCHANGED <<mapped, ghost, guest, job, at, todo, failed, reply, moves, faults,
                   astray, spared>>

JoinsChannel(r) == r \notin onSlack /\ onSlack' = onSlack \cup {r} /\ Happens("join", r)
LeavesChannel(r) == r \in onSlack /\ onSlack' = onSlack \ {r} /\ Happens("leave", r)
NoRoom == CHOOSE r \in Rooms : TRUE       \* of no interest in an event of the workspace
JoinsTeam == onSlack = {} /\ UNCHANGED onSlack /\ Happens("team_join", NoRoom)
LeavesTeam ==
    /\ onSlack # {} /\ onSlack' = {}
    /\ \E kind \in {"team_leave", "team_delete"} : Happens(kind, NoRoom)
Orders(r) == UNCHANGED onSlack /\ \E kind \in Commands : Happens(kind, r)
-----------------------------------------------------------------------------
(* The handlers. *)

Finish == at' = "idle" /\ job' = <<>> /\ todo' = {}

\* A handler goes through rooms, if there are any.
GoesTo(place, rooms) ==
    IF rooms = {} THEN Finish ELSE at' = place /\ todo' = rooms /\ job' = Head(feed)

\* The handler's first await: the row of the channel, or all rows of the workspace.
Take ==
    /\ at = "idle" /\ feed # <<>>
    /\ feed' = Tail(feed)
    /\ LET e == Head(feed) IN
       CASE e.kind \in ChannelEvents -> GoesTo("ghost", IF Notify THEN mapped \cap {e.room} ELSE {})
         [] e.kind \in {"team_join", "team_leave"} -> GoesTo("ghost", IF Notify THEN mapped ELSE {})
         [] e.kind = "team_delete" -> GoesTo("delete", mapped)
         [] e.kind \in Commands ->
                IF e.room \in mapped THEN at' = "list" /\ job' = e /\ todo' = {} ELSE Finish
    /\ UNCHANGED <<mapped, onSlack, ghost, guest, failed, reply, events, moves, faults,
                   astray, spared>>

\* One room done.
Past(r, last) ==
    /\ todo' = todo \ {r}
    /\ IF todo = {r} THEN at' = last /\ job' = (IF last = "idle" THEN <<>> ELSE job)
                     ELSE UNCHANGED <<at, job>>

Fault == faults < MaxFaults /\ faults' = faults + 1

\* invite_ghost_to_room, invite_user_to_room, kick_ghost_from_room, kick_user_from_room.
GhostSet(r) ==
    /\ at = "ghost" /\ r \in todo
    /\ ghost' = IF job.kind \in {"join", "team_join"} THEN ghost \cup {r} ELSE ghost \ {r}
    /\ astray' = IF job.kind = "team_join" /\ r \notin onSlack THEN astray \cup {r}
                 ELSE IF job.kind = "team_join" THEN astray ELSE astray \ {r}
    /\ Past(r, "idle")
    /\ UNCHANGED <<mapped, onSlack, guest, feed, failed, reply, events, moves, faults, spared>>

\* Refused, or no answer: a warning, or the error of a handler that ends here anyway.
GhostFails(r) ==
    /\ at = "ghost" /\ r \in todo /\ Fault
    /\ Past(r, "idle")
    /\ UNCHANGED <<mapped, onSlack, ghost, guest, feed, failed, reply, events, moves, astray, spared>>

\* handle_slack_guild_delete calls handle_slack_channel_delete, which looks the row up again.
RowDeleted(r) ==
    /\ at = "delete" /\ r \in todo
    /\ \/ mapped' = mapped \ {r} /\ UNCHANGED faults
       \/ Fault /\ UNCHANGED mapped
    /\ Past(r, "idle")
    /\ UNCHANGED <<onSlack, ghost, guest, feed, failed, reply, events, moves, astray, spared>>

ListsOwnRoom ==     \* a fault: a command reaches the room it was given in only
    /\ at = "list" /\ at' = "moderate"
    /\ todo' = {job.room} /\ failed' = {} /\ reply' = NoReply /\ spared' = {}
    /\ UNCHANGED <<mapped, onSlack, ghost, guest, feed, job, events, moves, faults, astray>>

\* get_rooms_by_guild; without any row left, the room of the channel's own, now gone.
ListsRooms ==
    /\ at = "list" /\ at' = "moderate"
    /\ todo' = IF mapped = {} THEN {job.room} ELSE mapped
    /\ failed' = {} /\ reply' = NoReply /\ spared' = {}
    /\ UNCHANGED <<mapped, onSlack, ghost, guest, feed, job, events, moves, faults, astray>>

AfterCommand(action, membership) ==
    CASE action = "kick" -> IF membership = "in" THEN "out" ELSE membership
      [] action = "ban" -> "banned"
      [] action = "unban" -> IF membership = "banned" THEN "out" ELSE membership

\* kick_user_from_room, ban_user_from_room, unban_user_from_room: done.
Moderated(r) ==
    /\ at = "moderate" /\ r \in todo
    /\ guest' = [guest EXCEPT ![r] = AfterCommand(job.kind, @)]
    /\ Past(r, "reply")
    /\ UNCHANGED <<mapped, onSlack, ghost, feed, failed, reply, events, moves, faults, astray, spared>>

\* The homeserver refuses (Ok all the same), or does not answer (counted as failed).
ModerationFails(r) ==
    /\ at = "moderate" /\ r \in todo /\ Fault
    /\ \/ spared' = spared \cup {r} /\ UNCHANGED failed
       \/ failed' = failed \cup {r} /\ UNCHANGED spared
    /\ Past(r, "reply")
    /\ UNCHANGED <<mapped, onSlack, ghost, guest, feed, reply, events, moves, astray>>

Replies ==
    /\ at = "reply"
    /\ reply' = [action |-> job.kind, failed |-> Cardinality(failed)]
    /\ Finish /\ failed' = {}
    /\ UNCHANGED <<mapped, onSlack, ghost, guest, feed, events, moves, faults, astray, spared>>
-----------------------------------------------------------------------------
(* Matrix: commands in transactions, people, moderators of a room. *)

Move == moves < MaxMoves /\ moves' = moves + 1

Bridges(r) ==
    /\ Move /\ r \notin mapped /\ mapped' = mapped \cup {r}
    /\ astray' = astray \cup {r} /\ spared' = spared \cup {r}
    /\ UNCHANGED <<onSlack, ghost, guest, feed, job, at, todo, failed, reply, events, faults>>

Unbridges(r) ==
    /\ Move /\ r \in mapped /\ mapped' = mapped \ {r}
    /\ UNCHANGED <<onSlack, ghost, guest, feed, job, at, todo, failed, reply, events, faults,
                   astray, spared>>

GuestJoins(r) ==
    /\ Move /\ guest[r] = "out" /\ guest' = [guest EXCEPT ![r] = "in"]
    /\ spared' = spared \cup {r}
    /\ UNCHANGED <<mapped, onSlack, ghost, feed, job, at, todo, failed, reply, events, faults,
                   astray>>

\* handle_matrix_member: the Slack channel gets a notice, the user stays in it.
GhostKicked(r) ==
    /\ Move /\ r \in ghost /\ ghost' = ghost \ {r}
    /\ astray' = astray \cup {r}
    /\ UNCHANGED <<mapped, onSlack, guest, feed, job, at, todo, failed, reply, events, faults,
                   spared>>

Next ==
    \/ \E r \in Rooms :
          \/ JoinsChannel(r) \/ LeavesChannel(r) \/ Orders(r)
          \/ GhostSet(r) \/ GhostFails(r) \/ RowDeleted(r) \/ Moderated(r) \/ ModerationFails(r)
          \/ Bridges(r) \/ Unbridges(r) \/ GuestJoins(r) \/ GhostKicked(r)
    \/ JoinsTeam \/ LeavesTeam \/ Take \/ ListsRooms \/ Replies

Spec == Init /\ [][Next]_vars
-----------------------------------------------------------------------------
\* With every event handled and no request refused, the ghost is in the rooms of the
\* user's channels and in no other, but for rooms bridged after the user had come,
\* rooms whose moderators put the ghost out, and those handle_slack_guild_member_add
\* invites it to, which are all rooms of the workspace (bridge.rs:2727).
GhostFollowsSlack ==
    at = "idle" /\ feed = <<>> /\ faults = 0 /\ Notify =>
        \A r \in mapped \ astray : r \in ghost <=> r \in onSlack

\* A moderator told that a user was kicked or banned, with no failure, finds the user in
\* no bridged room, except where the user has come back, the room was bridged after the
\* command had listed the rooms, or the homeserver refused, which counts as done
\* (matrix.rs:811, bridge.rs:2170).
ModerationTold ==
    reply.action \in {"kick", "ban"} /\ reply.failed = 0 =>
        \A r \in mapped \ spared : guest[r] # "in"
=============================================================================
