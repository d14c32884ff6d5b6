------------------------------ MODULE UserSync ------------------------------
(***************************************************************************)
(* One Slack user, the row user_mappings keeps of it, its ghost, and the   *)
(* ghost's member event in one bridged room. Three handlers want to keep   *)
(* them in step with Slack: BridgeCore::handle_slack_user_update, which    *)
(* the socket loop calls and which changes the row alone;                  *)
(* handle_slack_guild_member_update, which changes the row's avatar and    *)
(* the member event; and UserSyncHandler::on_user_update                   *)
(* (bridge/user_sync.rs), which creates the row, compares it with the      *)
(* change and passes on what differs. It writes the row with id 0, which   *)
(* no row has, so a row it has created is never brought up to date by it.  *)
(* Nobody calls the last two yet: MemberUpdate and Sync stand for any      *)
(* caller that passes them the changes one by one.                         *)
(***************************************************************************)
EXTENDS Integers, FiniteSets

CONSTANTS
    Names,          \* display names on Slack
    Avatars,        \* image URLs on Slack
    MaxChanges,     \* bound on the changes of the user
    MaxFaults       \* bound on failed requests

None == "none"
Raw(n) == [name |-> n, tag |-> FALSE]
\* ghosts.username_pattern, by default ":username#:tag".
Displayed(n) == [name |-> n, tag |-> TRUE]
DisplayNames == {Raw(n) : n \in Names} \cup {Displayed(n) : n \in Names}
AvatarOrNone == Avatars \cup {None}
Nameless == Raw(None)

VARIABLES
    slack,      \* name and avatar on Slack
    changes,    \* changes on Slack so far
    row,        \* the row of user_mappings, as a set
    ghost,      \* the ghost's profile: name and avatar
    member,     \* its m.room.member event: what the last write held
    step,       \* await of the handler
    event,      \* name and avatar the handler was called with
    todo,       \* UserState: create_user, displayname, avatar_url, remove_avatar
    faults,
    synced,     \* history: what the last complete on_user_update was called with
    believed    \* history: fields it left alone, since the row had them already

vars == <<slack, changes, row, ghost, member, step, event, todo, faults, synced, believed>>
-----------------------------------------------------------------------------
Profile == [name : DisplayNames \cup {Nameless}, avatar : AvatarOrNone]
OnSlack == [name : Names, avatar : AvatarOrNone]
Todo == [create : BOOLEAN, name : DisplayNames \cup {Nameless}, avatar : AvatarOrNone,
         remove : BOOLEAN]
Steps == {"idle", "update", "write", "register", "name", "avatar", "remove", "rooms",
          "member_name", "member_avatar", "member_row",
          "roles"}

TypeOK ==
    /\ slack \in OnSlack
    /\ changes \in 0..MaxChanges
    /\ row \subseteq Profile /\ Cardinality(row) <= 1
    /\ ghost \in Profile /\ member \in Profile
    /\ step \in Steps
    /\ event \in OnSlack
    /\ todo \in Todo
    /\ faults \in 0..MaxFaults
    /\ synced \subseteq OnSlack
    /\ believed \subseteq {"name", "avatar"}

NoProfile == [name |-> Nameless, avatar |-> None]
Nothing == [create |-> FALSE, name |-> Nameless, avatar |-> None, remove |-> FALSE]

Init ==
    /\ slack \in OnSlack /\ changes = 0
    /\ row = {} /\ ghost = NoProfile /\ member = NoProfile
    /\ step = "idle" /\ event = slack /\ todo = Nothing
    /\ faults = 0 /\ synced = {} /\ believed = {}
-----------------------------------------------------------------------------
\* The user changes the profile; the handlers are called before the next change.
Changes(p) ==
    /\ step = "idle" /\ event = slack
    /\ changes < MaxChanges /\ p # slack
    /\ changes' = changes + 1 /\ slack' = p
    /\ UNCHANGED <<row, ghost, member, step, event, todo, faults, synced, believed>>

\* update_user_mapping: an AsChangeset leaves a column alone that is None.
UpdatedRow(r, name, avatar) ==
    [name |-> name, avatar |-> IF avatar = None THEN r.avatar ELSE avatar]

\* handle_slack_user_update: a user without a row is ignored.
Update ==
    /\ step = "idle" /\ event # slack
    /\ event' = slack
    /\ step' = IF row = {} THEN "idle" ELSE "update"
    /\ UNCHANGED <<slack, changes, row, ghost, member, todo, faults, synced, believed>>

RowInserted ==      \* a fault: an INSERT instead of the UPDATE
    /\ step = "update" /\ step' = "idle"
    /\ row' = row \cup {UpdatedRow(r, Raw(event.name), event.avatar) : r \in row}
    /\ UNCHANGED <<slack, changes, ghost, member, event, todo, faults, synced, believed>>

RowUpdated ==
    /\ step = "update" /\ step' = "idle"
    /\ row' = {UpdatedRow(r, Raw(event.name), event.avatar) : r \in row}
    /\ UNCHANGED <<slack, changes, ghost, member, event, todo, faults, synced, believed>>

\* handle_slack_guild_member_update, for a user with a row: the row gets the avatar, the
\* nick is not used, and the roles replace the whole member event in each room.
MemberUpdate ==
    /\ step = "idle" /\ row # {} /\ event # slack
    /\ event' = slack /\ step' = "member_row"
    /\ UNCHANGED <<slack, changes, row, ghost, member, todo, faults, synced, believed>>

MemberRowUpdated ==
    /\ step = "member_row" /\ step' = "roles"
    /\ row' = {UpdatedRow(r, r.name, event.avatar) : r \in row}
    /\ UNCHANGED <<slack, changes, ghost, member, event, todo, faults, synced, believed>>

RolesSet ==
    /\ step = "roles" /\ step' = "idle"
    /\ \/ member' = NoProfile /\ UNCHANGED faults
       \/ faults < MaxFaults /\ faults' = faults + 1 /\ UNCHANGED member
    /\ UNCHANGED <<slack, changes, row, ghost, event, todo, synced, believed>>

ComparesUsername(r, e) ==   \* a fault: the plain name is compared, not the displayed one
    [create |-> FALSE,
     name   |-> IF r.name.name # e.name THEN Displayed(e.name) ELSE Nameless,
     avatar |-> IF e.avatar # r.avatar THEN e.avatar ELSE None,
     remove |-> e.avatar = None /\ r.avatar # None]

\* get_user_update_state for a user with a row: what differs from it.
Differences(r, e) ==
    [create |-> FALSE,
     name   |-> IF Displayed(e.name) # r.name THEN Displayed(e.name) ELSE Nameless,
     avatar |-> IF e.avatar # r.avatar THEN e.avatar ELSE None,
     remove |-> e.avatar = None /\ r.avatar # None]

\* get_user_update_state, as the first step of on_user_update.
Sync ==
    /\ step = "idle" /\ step' = "write"
    /\ event' = slack
    /\ \/ /\ row = {} /\ believed' = {}
          /\ todo' = [create |-> TRUE, name |-> Displayed(slack.name), avatar |-> slack.avatar,
                      remove |-> FALSE]
       \/ \E r \in row :
          /\ todo' = Differences(r, slack)
          /\ believed' = {f \in {"name", "avatar"} :
                            \/ f = "name" /\ r.name = Displayed(slack.name)
                            \/ f = "avatar" /\ r.avatar = slack.avatar}
    /\ synced' = {}
    /\ UNCHANGED <<slack, changes, row, ghost, member, faults>>

\* apply_state_to_profile: the new row; an update of row 0 changes nothing.
Written ==
    /\ step = "write" /\ step' = "register"
    /\ row' = IF todo.create THEN {[name |-> todo.name, avatar |-> todo.avatar]} ELSE row
    /\ UNCHANGED <<slack, changes, ghost, member, event, todo, faults, synced, believed>>

\* ensure_ghost_user_registered sets a name it is given, too, and ignores the answers.
Registered ==
    /\ step = "register" /\ step' = "name"
    /\ \/ UNCHANGED ghost
       \/ todo.name # Nameless /\ ghost' = [ghost EXCEPT !.name = todo.name]
    /\ UNCHANGED <<slack, changes, row, member, event, todo, faults, synced, believed>>

\* A request of the profile, if there is something to set; an error is a warning.
Request(at, to, needed, effect) ==
    /\ step = at /\ step' = to
    /\ \/ ~needed /\ UNCHANGED <<ghost, member, faults>>
       \/ needed /\ effect /\ UNCHANGED faults
       \/ needed /\ faults < MaxFaults /\ faults' = faults + 1 /\ UNCHANGED <<ghost, member>>
    /\ UNCHANGED <<slack, changes, row, event, todo, synced, believed>>

NameSet == Request("name", "avatar", todo.name # Nameless,
    ghost' = [ghost EXCEPT !.name = todo.name] /\ UNCHANGED member)

AvatarSet == Request("avatar", "remove", todo.avatar # None,
    ghost' = [ghost EXCEPT !.avatar = todo.avatar] /\ UNCHANGED member)

AvatarRemoved == Request("remove", "rooms", todo.remove,
    ghost' = [ghost EXCEPT !.avatar = None] /\ UNCHANGED member)

\* update_state_for_guilds, unless only an avatar has gone.
RoomsListed ==
    /\ step = "rooms"
    /\ step' = IF todo.name # Nameless \/ todo.avatar # None THEN "member_name" ELSE "idle"
    /\ synced' = IF step' = "idle" THEN {event} ELSE synced
    /\ UNCHANGED <<slack, changes, row, ghost, member, event, todo, faults, believed>>

\* apply_state_to_room: each write replaces the whole member event, and an error of
\* the first is the end of the second.
MemberNameSet ==
    /\ step = "member_name"
    /\ \/ todo.name = Nameless /\ step' = "member_avatar" /\ UNCHANGED <<member, faults, synced>>
       \/ /\ todo.name # Nameless /\ step' = "member_avatar"
          /\ member' = [name |-> todo.name, avatar |-> None]
          /\ UNCHANGED <<faults, synced>>
       \/ /\ todo.name # Nameless /\ faults < MaxFaults
          /\ faults' = faults + 1 /\ step' = "idle" /\ synced' = {event}
          /\ UNCHANGED member
    /\ UNCHANGED <<slack, changes, row, ghost, event, todo, believed>>

MemberAvatarSet ==
    /\ step = "member_avatar" /\ step' = "idle"
    /\ synced' = {event}
    /\ \/ todo.avatar = None /\ UNCHANGED <<member, faults>>
       \/ todo.avatar # None /\ UNCHANGED faults
          /\ member' = [name |-> Nameless, avatar |-> todo.avatar]
       \/ todo.avatar # None /\ faults < MaxFaults /\ faults' = faults + 1 /\ UNCHANGED member
    /\ UNCHANGED <<slack, changes, row, ghost, event, todo, believed>>

\* A query fails: the handler ends there.
QueryFails ==
    /\ step \in {"update", "member_row", "roles", "write", "rooms"} /\ faults < MaxFaults
    /\ faults' = faults + 1 /\ step' = "idle"
    /\ UNCHANGED <<slack, changes, row, ghost, member, event, todo, synced, believed>>

Next ==
    \/ \E p \in OnSlack : Changes(p)
    \/ Update \/ RowUpdated \/ MemberUpdate \/ MemberRowUpdated \/ RolesSet
    \/ Sync \/ Written \/ Registered \/ NameSet \/ AvatarSet \/ AvatarRemoved
    \/ RoomsListed \/ MemberNameSet \/ MemberAvatarSet \/ QueryFails

Spec == Init /\ [][Next]_vars
-----------------------------------------------------------------------------
\* After on_user_update has run without a failure, the ghost shows the name and the
\* avatar it was called with, but for a field the row has held already.  The row is
\* not brought up to date by on_user_update (id 0, user_sync.rs:143), and is without
\* the ghost by handle_slack_user_update: a field that returns to its first value, or
\* that another handler has stored, is taken for unchanged and the ghost keeps its own.
ProfileFollowsSlack == faults = 0 => \A e \in synced :
    /\ ghost.name # Displayed(e.name) => "name" \in believed
    /\ ghost.avatar # e.avatar => "avatar" \in believed
=============================================================================
