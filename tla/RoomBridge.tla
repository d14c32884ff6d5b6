----------------------------- MODULE RoomBridge -----------------------------
(***************************************************************************)
(* How rooms are bridged and unbridged (bridge.rs, web/provisioning.rs and *)
(* the room store).  The table room_mappings is the truth; room_cache      *)
(* holds copies of its rows for a while; the handlers that change the one  *)
(* and read or invalidate the other run concurrently.  Each step below is  *)
(* the work between two awaits; a read that comes first in a handler, or   *)
(* whose result the handler reads again later, has no step of its own.     *)
(*                                                                         *)
(* Matrix commands and provisioning requests are served by any task of     *)
(* Tasks; Slack commands by the one task that reads the socket.            *)
(***************************************************************************)
EXTENDS Integers, FiniteSets

CONSTANTS
    Tasks,          \* tasks serving Matrix transactions and web requests
    SlackLoop,      \* the task that handles Slack events one at a time
    Rooms,          \* Matrix rooms that exist already
    NewRooms,       \* rooms the homeserver may create for the bridge
    Channels,       \* Slack channels
    Served,         \* the kinds of request that arrive
    RoomLimit,      \* limits.room_count, negative for no limit
    UnsetAlias,     \* channel.delete_options.unset_room_alias
    MaxId,          \* bound: rows ever inserted
    NONE

Request == {"bridge", "web_bridge", "unbridge", "encrypt", "read",
            "slack_bridge", "slack_unbridge"}

ASSUME LimitIsInt == RoomLimit \in Int
ASSUME MaxIdIsNat == MaxId \in Nat
ASSUME TasksFinite == IsFiniteSet(Tasks)
ASSUME SlackLoopApart == SlackLoop \notin Tasks
ASSUME ServedAreRequests == Served \subseteq Request
ASSUME UnsetAliasIsBool == UnsetAlias \in BOOLEAN

AllTasks == Tasks \cup {SlackLoop}
AllRooms == Rooms \cup NewRooms
Row == [id : 1..MaxId, room : AllRooms, chan : Channels]

VARIABLES
    rows,           \* table room_mappings
    nextId,         \* its AUTOINCREMENT counter: ids are never used again
    cache,          \* cache[r]: the row room_cache holds for room r, or NONE
    task,           \* task[t]: the handler t runs, where it stands, its inputs
    created,        \* rooms of NewRooms the homeserver has created
    aliases,        \* channels c for which the alias #_slack_c is taken
    raced,          \* history: rows a cache fill carried across their eviction
    http            \* status of the provisioning response the last step sent

vars == <<rows, nextId, cache, task, created, aliases, raced, http>>

Op == Request \cup {"none"}
At == {"done", "ask", "chan", "insert", "create", "lookup", "db_read", "fill",
       "alias", "delete", "evict"}
Task == [op : Op, at : At, room : AllRooms \cup {NONE}, chan : Channels \cup {NONE},
         row : Row \cup {NONE}, since : 0..MaxId + 1]

TypeOK ==
    /\ rows \in SUBSET Row
    /\ nextId \in 1..MaxId + 1
    /\ cache \in [AllRooms -> Row \cup {NONE}]
    /\ task \in [AllTasks -> Task]
    /\ created \in SUBSET NewRooms
    /\ aliases \in SUBSET Channels
    /\ raced \in SUBSET Row
    /\ http \in {NONE, 201, 400, 500}

Idle == [op |-> "none", at |-> "done", room |-> NONE, chan |-> NONE,
         row |-> NONE, since |-> 0]

Init ==
    /\ rows = {}
    /\ nextId = 1
    /\ cache = [r \in AllRooms |-> NONE]
    /\ task = [t \in AllTasks |-> Idle]
    /\ created = {}
    /\ aliases = {}
    /\ raced = {}
    /\ http = NONE

-----------------------------------------------------------------------------
RowsOfRoom(r) == {w \in rows : w.room = r}
RowsOfChannel(c) == {w \in rows : w.chan = c}

(* The handler of task t goes on from state `new`.                         *)
Continue(t, new) ==
    /\ task' = [task EXCEPT ![t] = new]
    /\ http' = NONE

Goto(t, place) == Continue(t, [task[t] EXCEPT !.at = place])

(* create_bridge renders every reply without the words "problem" and       *)
(* "already" as 201 Created with "ok": true.                               *)
HttpStatus(reply) ==
    CASE reply \in {"already", "problem"} -> 400 [] reply = "error" -> 500 [] OTHER -> 201

(* Faults: see the remark in module Provisioning.                          *)
AnswerKeepsTask(t, op, reply) ==
    /\ task' = [task EXCEPT ![t] = [Idle EXCEPT !.op = reply]]
    /\ http' = IF op = "web_bridge" THEN HttpStatus(reply) ELSE NONE

(* The handler, which op names, returns `reply`.                           *)
Answer(t, op, reply) ==
    /\ task' = [task EXCEPT ![t] = Idle]
    /\ http' = IF op = "web_bridge" THEN HttpStatus(reply) ELSE NONE

OverLimitByOne == RoomLimit >= 0 /\ Cardinality(rows) > RoomLimit

(* check_room_limit                                                        *)
OverLimit == RoomLimit >= 0 /\ Cardinality(rows) >= RoomLimit

-----------------------------------------------------------------------------
(* `!slack bridge` in a room without a row: request_bridge_matrix_room     *)
(* checks limit and channel, which bridge_matrix_room will do again, and   *)
(* waits for a moderator.                                                  *)
RequestBridge(t, r, c) ==
    /\ task[t].at = "done"
    /\ RowsOfRoom(r) = {} /\ ~OverLimit /\ RowsOfChannel(c) = {}
    /\ Continue(t, [Idle EXCEPT !.op = "bridge", !.at = "ask", !.room = r, !.chan = c])
    /\ UNCHANGED <<rows, nextId, cache, created, aliases, raced>>

(* bridge_matrix_room begins with check_room_limit.                        *)
EnterBridge(t, h) ==
    IF OverLimit THEN Answer(t, h.op, "limit")
    ELSE Continue(t, [h EXCEPT !.at = "chan"])

(* ask_bridge_permission returns: module Provisioning says when it may.    *)
Permission(t) ==
    /\ task[t].at = "ask"
    /\ EnterBridge(t, task[t]) \/ Answer(t, "bridge", "refused")
    /\ UNCHANGED <<rows, nextId, cache, created, aliases, raced>>

(* POST to the provisioning API needs nobody's permission.                 *)
WebBridge(t, r, c) ==
    /\ task[t].at = "done"
    /\ EnterBridge(t, [Idle EXCEPT !.op = "web_bridge", !.room = r, !.chan = c])
    /\ UNCHANGED <<rows, nextId, cache, created, aliases, raced>>

(* get_room_by_slack_channel, then get_channel at Slack, which may not     *)
(* know the channel.                                                       *)
CheckChannel(t) ==
    /\ task[t].at = "chan"
    /\ IF RowsOfChannel(task[t].chan) # {} THEN Answer(t, task[t].op, "already")
       ELSE Goto(t, "insert") \/ Answer(t, task[t].op, "problem")
    /\ UNCHANGED <<rows, nextId, cache, created, aliases, raced>>

InsertTrustsCheck(t) ==
    LET w == [id |-> nextId, room |-> task[t].room, chan |-> task[t].chan]
    IN  /\ task[t].at = "insert"
        /\ nextId <= MaxId
        /\ rows' = rows \cup {w}
        /\ nextId' = nextId + 1
        /\ Answer(t, task[t].op, "bridged")
        /\ UNCHANGED <<cache, created, aliases, raced>>

(* create_room_mapping: the UNIQUE columns refuse a second row for a room  *)
(* or for a channel, and the handler then fails.                           *)
Insert(t) ==
    LET w == [id |-> nextId, room |-> task[t].room, chan |-> task[t].chan]
    IN  /\ task[t].at = "insert"
        /\ IF RowsOfRoom(w.room) \cup RowsOfChannel(w.chan) # {}
           THEN /\ Answer(t, task[t].op, "error")
                /\ UNCHANGED <<rows, nextId>>
           ELSE /\ nextId <= MaxId
                /\ rows' = rows \cup {w}
                /\ nextId' = nextId + 1
                /\ Answer(t, task[t].op, "bridged")
        /\ UNCHANGED <<cache, created, aliases, raced>>

(* `!matrix bridge`: request_bridge_slack_channel asks neither the limit   *)
(* nor a moderator, and has the homeserver create the room, with an alias  *)
(* named for the channel, before there is a row.                           *)
SlackBridge(c) ==
    /\ task[SlackLoop].at = "done"
    /\ RowsOfChannel(c) = {}
    /\ Continue(SlackLoop, [Idle EXCEPT !.op = "slack_bridge", !.at = "create", !.chan = c])
    /\ UNCHANGED <<rows, nextId, cache, created, aliases, raced>>

CreateRoom(n) ==
    LET c == task[SlackLoop].chan
    IN  /\ task[SlackLoop].at = "create"
        /\ c \notin aliases
        /\ created' = created \cup {n}
        /\ aliases' = aliases \cup {c}
        /\ Continue(SlackLoop, [task[SlackLoop] EXCEPT !.at = "insert", !.room = n])
        /\ UNCHANGED <<rows, nextId, cache, raced>>

-----------------------------------------------------------------------------
(* get_room_mapping_cached: a hit goes on with the cached row, a miss      *)
(* reads the table, and the row read is put in the cache after the await.  *)
(* The handlers of member, name, topic, power level, redaction, reaction,  *)
(* typing and receipt events ("read") change none of this state after it.  *)
AfterLookup(t, op, h) ==
    IF op = "read" THEN Answer(t, op, "handled")
    ELSE Continue(t, [h EXCEPT !.at = IF op = "unbridge" THEN "alias" ELSE "delete"])

LookupFor(t, h) ==
    IF cache[h.room] # NONE THEN AfterLookup(t, h.op, [h EXCEPT !.row = cache[h.room]])
    ELSE Continue(t, [h EXCEPT !.at = "db_read"])

CachedEvent(t, op, r) ==
    /\ task[t].at = "done"
    /\ LookupFor(t, [Idle EXCEPT !.op = op, !.room = r])
    /\ UNCHANGED <<rows, nextId, cache, created, aliases, raced>>

(* `!slack unbridge` in a room with a row, or DELETE of a row's id: the    *)
(* row is read to know the room, and unbridge_matrix_room looks it up      *)
(* again.  `since` is history: rows with a smaller id were there then.     *)
RequestUnbridge(t, r) ==
    /\ task[t].at = "done"
    /\ RowsOfRoom(r) # {}
    /\ Continue(t, [Idle EXCEPT !.op = "unbridge", !.at = "lookup", !.room = r,
                                !.since = nextId])
    /\ UNCHANGED <<rows, nextId, cache, created, aliases, raced>>

Lookup(t) ==
    /\ task[t].at = "lookup"
    /\ LookupFor(t, task[t])
    /\ UNCHANGED <<rows, nextId, cache, created, aliases, raced>>

ReadRow(t) ==
    /\ task[t].at = "db_read"
    /\ \/ RowsOfRoom(task[t].room) = {} /\ Answer(t, task[t].op, "not_bridged")
       \/ \E w \in RowsOfRoom(task[t].room) :
             Continue(t, [task[t] EXCEPT !.at = "fill", !.row = w])
    /\ UNCHANGED <<rows, nextId, cache, created, aliases, raced>>

Fill(t) ==
    /\ task[t].at = "fill"
    /\ cache' = [cache EXCEPT ![task[t].room] = task[t].row]
    /\ AfterLookup(t, task[t].op, task[t])
    /\ UNCHANGED <<rows, nextId, created, aliases, raced>>

(* unbridge_matrix_room ignores the outcome of delete_room_alias.          *)
DropAlias(t) ==
    /\ task[t].at = "alias"
    /\ \/ UNCHANGED aliases
       \/ UnsetAlias /\ aliases' = aliases \ {task[t].row.chan}
    /\ Goto(t, "delete")
    /\ UNCHANGED <<rows, nextId, cache, created, raced>>

DeleteByChannel(t) ==
    /\ task[t].at = "delete"
    /\ rows' = {w \in rows : w.chan # task[t].row.chan}
    /\ Goto(t, "evict")
    /\ UNCHANGED <<nextId, cache, created, aliases, raced>>

DeleteByRoomAsked(t) ==
    /\ task[t].at = "delete"
    /\ rows' = {w \in rows : w.room # task[t].room}
    /\ Goto(t, "evict")
    /\ UNCHANGED <<nextId, cache, created, aliases, raced>>

(* delete_room_mapping(mapping.id)                                         *)
Delete(t) ==
    /\ task[t].at = "delete"
    /\ rows' = {w \in rows : w.id # task[t].row.id}
    /\ Goto(t, "evict")
    /\ UNCHANGED <<nextId, cache, created, aliases, raced>>

EvictForgets(t) ==
    /\ task[t].at = "evict"
    /\ Answer(t, task[t].op, "unbridged")
    /\ UNCHANGED <<rows, nextId, cache, created, aliases, raced>>

(* room_cache.remove, and the answer.  Whoever is about to fill the cache  *)
(* for this room does so with a row read before this point.                *)
Evict(t) ==
    LET r == task[t].row.room
        fillers == {q \in AllTasks : task[q].at = "fill" /\ task[q].room = r}
    IN  /\ task[t].at = "evict"
        /\ cache' = [cache EXCEPT ![r] = NONE]
        /\ raced' = raced \cup {task[q].row : q \in fillers}
        /\ Answer(t, task[t].op, "unbridged")
        /\ UNCHANGED <<rows, nextId, created, aliases>>

(* `!matrix unbridge`: the row is the one that was read from the table     *)
(* when the message arrived.                                               *)
SlackUnbridge(c) ==
    /\ task[SlackLoop].at = "done"
    /\ \E w \in RowsOfChannel(c) :
          Continue(SlackLoop, [Idle EXCEPT !.op = "slack_unbridge", !.at = "delete",
                                           !.chan = c, !.row = w, !.since = nextId])
    /\ UNCHANGED <<rows, nextId, cache, created, aliases, raced>>

-----------------------------------------------------------------------------
(* A database or HTTP call fails, or create_room is refused, and ends the  *)
(* handler.  The cache operations cannot fail.                             *)
Fail(t) ==
    /\ task[t].at \notin {"done", "lookup", "fill", "evict"}
    /\ Answer(t, task[t].op, "error")
    /\ UNCHANGED <<rows, nextId, cache, created, aliases, raced>>

(* An entry reaches its TTL.                                               *)
Expire(r) ==
    /\ cache[r] # NONE
    /\ cache' = [cache EXCEPT ![r] = NONE]
    /\ http' = NONE
    /\ UNCHANGED <<rows, nextId, task, created, aliases, raced>>

(* The process restarts: only the database and the homeserver remember.    *)
Crash ==
    /\ \E t \in AllTasks : task[t].at # "done"
    /\ task' = [t \in AllTasks |-> Idle]
    /\ cache' = [r \in AllRooms |-> NONE]
    /\ raced' = {}
    /\ http' = NONE
    /\ UNCHANGED <<rows, nextId, created, aliases>>

TaskStep(t) ==
    \/ Permission(t)
    \/ CheckChannel(t)
    \/ Insert(t)
    \/ Lookup(t)
    \/ ReadRow(t)
    \/ Fill(t)
    \/ DropAlias(t)
    \/ Delete(t)
    \/ Evict(t)

MatrixRequest(t, r) ==
    \/ \E c \in Channels : \/ "bridge" \in Served /\ RequestBridge(t, r, c)
                           \/ "web_bridge" \in Served /\ WebBridge(t, r, c)
    \/ \E op \in Served \cap {"encrypt", "read"} : CachedEvent(t, op, r)
    \/ "unbridge" \in Served /\ RequestUnbridge(t, r)

SlackRequest(c) ==
    \/ "slack_bridge" \in Served /\ SlackBridge(c)
    \/ "slack_unbridge" \in Served /\ SlackUnbridge(c)

Next ==
    \/ \E t \in Tasks, r \in Rooms \cup created : MatrixRequest(t, r)
    \/ \E c \in Channels : SlackRequest(c)
    \/ \E n \in NewRooms \ created : CreateRoom(n)
    \/ \E t \in AllTasks : TaskStep(t) \/ Fail(t)
    \/ \E r \in AllRooms : Expire(r)
    \/ Crash

Spec == Init /\ [][Next]_vars

-----------------------------------------------------------------------------
(* The table is one to one, however the check-then-insert of the bridging  *)
(* handlers interleave.                                                    *)
OneToOne ==
    \A v, w \in rows : v.id = w.id \/ v.room = w.room \/ v.chan = w.chan => v = w

(* The cache outlives its row in two ways only: the handler that deleted   *)
(* the row has yet to evict it, or a lookup had read the row before the    *)
(* eviction and filled the cache after it.  Every path that deletes a row  *)
(* evicts, and in that order.                                              *)
StaleOnlyByRace ==
    \A r \in AllRooms :
        \/ cache[r] \in rows \cup raced \cup {NONE}
        \/ \E t \in AllTasks : task[t].at = "evict" /\ task[t].row.room = r

(* A handler removes the row it was shown and no other: an unbridge that   *)
(* works from a stale copy cannot take down a bridge made since.           *)
DeletesOnlyWhatWasSeen ==
    [][\A w \in rows \ rows' :
          \E t \in AllTasks : task[t].at = "delete" /\ task[t].row = w]_vars

(* No row that was there when `!matrix unbridge` arrived is left for the   *)
(* channel once Slack is told that it has been unbridged.                  *)
SlackUnbridgeIsTrue ==
    [][Evict(SlackLoop) => \A w \in RowsOfChannel(task[SlackLoop].chan) :
                              w.id >= task[SlackLoop].since]_vars

(* The limit is checked before an await and relied on after it, so it can  *)
(* be exceeded, but by fewer rows than there are tasks to bridge rooms.    *)
(* Bridging from Slack checks no limit and so is left out.                 *)
LimitOvershootBounded ==
    RoomLimit >= 0 /\ Tasks # {} /\ "slack_bridge" \notin Served =>
        Cardinality(rows) < RoomLimit + Cardinality(Tasks)

-----------------------------------------------------------------------------
(* What the handler h may yet do to the table.                             *)
YetWanted(h) ==
    IF h.at \in {"ask", "chan", "insert", "create"}
    THEN [kind |-> "make", chan |-> h.chan,
          room |-> IF h.op = "slack_bridge" THEN NONE ELSE h.room]
    ELSE IF h.at \in {"lookup", "db_read", "fill", "alias", "delete"} /\ h.op # "read"
    THEN [kind |-> "take", room |-> h.room, chan |-> h.chan]
    ELSE [kind |-> "none", room |-> NONE, chan |-> NONE]

Registry == INSTANCE RoomRegistry
    WITH Tasks <- AllTasks, Rooms <- AllRooms,
         bridges <- {[room |-> w.room, chan |-> w.chan] : w \in rows},
         wanted <- [t \in AllTasks |-> YetWanted(task[t])]

(* Whatever the cache holds and however handlers interleave, each request  *)
(* changes the relation of rooms and channels at one moment, in the way it *)
(* asked for, or not at all: a copy of a row that is gone never takes down *)
(* a bridge of another room.                                               *)
ImplementsRegistry == Registry!Spec

-----------------------------------------------------------------------------
(* "This room has been unbridged" (bridge.rs:1352): no row that was there  *)
(* when `!slack unbridge` or the provisioning request arrived is left.     *)
UnbridgeIsTrue ==
    [][\A t \in Tasks : Evict(t) /\ task[t].op = "unbridge" =>
          \A w \in RowsOfRoom(task[t].room) : w.id >= task[t].since]_vars

(* A 201 means that the room and the channel asked for are now bridged.    *)
CreatedMeansBridged ==
    [][http' = 201 => rows' # rows]_vars
=============================================================================
