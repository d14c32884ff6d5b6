---------------------------- MODULE PresenceQueue ----------------------------
(***************************************************************************)
(* The queue of presence updates (bridge/presence_handler.rs) and the      *)
(* ticker of BridgeCore::start that empties it, one entry per tick.  A     *)
(* user has one place in the queue, a newer presence takes it over, and    *)
(* every presence but "offline" is queued again once it has been sent, so  *)
(* that the homeserver does not let it expire.  The request to the         *)
(* homeserver is awaited with the entry out of the queue: a presence that  *)
(* arrives meanwhile is replaced by the old one when that is queued again. *)
(* Nothing in slack.rs calls enqueue_slack_presence yet: Changes stands    *)
(* for any caller.                                                         *)
(***************************************************************************)
EXTENDS Integers, Sequences

CONSTANTS
    Users,
    BotId,              \* the user PresenceHandler drops; the bridge passes None
    DisablePresence,    \* bridge.disable_presence
    MaxChanges,         \* bound on the presences Slack reports
    MaxFaults           \* bound on failed requests

States == {"online", "dnd", "idle", "offline"}
Entry == [user : Users, state : States, num : 1..MaxChanges]

VARIABLES
    queue,      \* the VecDeque of PresenceHandler
    handler,    \* process_next: "idle", or awaiting set_presence or the registration
    entry,      \* the presence process_next has popped
    ghosts,     \* users whose ghost the homeserver knows
    shown,      \* presence the homeserver shows for each ghost: state and change
    changes,    \* presences reported so far
    faults,
    newest,     \* history: last change of each user, 0 for none
    raced,      \* history: users whose last change met an older one in the handler
    refused     \* history: users whose last change was an "offline" that failed

vars == <<queue, handler, entry, ghosts, shown, changes, faults, newest, raced, refused>>
-----------------------------------------------------------------------------
Shown == [state : {"none", "online", "unavailable", "offline"}, num : 0..MaxChanges]

TypeOK ==
    /\ queue \in Seq(Entry)
    /\ \A i, j \in DOMAIN queue : queue[i].user = queue[j].user => i = j
    /\ handler \in {"idle", "setting", "registering"}
    /\ handler # "idle" => entry \in Entry
    /\ ghosts \subseteq Users
    /\ shown \in [Users -> Shown]
    /\ changes \in 0..MaxChanges
    /\ faults \in 0..MaxFaults
    /\ newest \in [Users -> 0..MaxChanges]
    /\ raced \subseteq Users
    /\ refused \subseteq Users

Init ==
    /\ queue = <<>> /\ handler = "idle" /\ entry = <<>>
    /\ ghosts = {} /\ shown = [u \in Users |-> [state |-> "none", num |-> 0]]
    /\ changes = 0 /\ faults = 0
    /\ newest = [u \in Users |-> 0] /\ raced = {} /\ refused = {}
-----------------------------------------------------------------------------
\* VecDeque::retain: the entry of u leaves, and with TypeOK there is only one.
Without(q, u) ==
    IF \E i \in DOMAIN q : q[i].user = u
    THEN LET i == CHOOSE i \in DOMAIN q : q[i].user = u
         IN  SubSeq(q, 1, i - 1) \o SubSeq(q, i + 1, Len(q))
    ELSE q

EnqueuedInFront(q, e) ==      \* a fault: a presence already queued keeps its place and value
    IF \E i \in DOMAIN q : q[i].user = e.user THEN q ELSE Append(q, e)

\* PresenceHandler::enqueue_user.
Enqueued(q, e) == IF e.user = BotId THEN q ELSE Append(Without(q, e.user), e)

\* map_presence: "dnd" is shown as online, with a prefix to the status message.
MatrixPresence(state) ==
    CASE state \in {"online", "dnd"} -> "online"
      [] state = "idle"              -> "unavailable"
      [] state = "offline"           -> "offline"

ShouldDrop(state) == state = "offline"

\* BridgeCore::enqueue_slack_presence, called with a new presence of u.
Changes(u, s) ==
    /\ changes < MaxChanges
    /\ changes' = changes + 1
    /\ queue' = Enqueued(queue, [user |-> u, state |-> s, num |-> changes + 1])
    /\ newest' = [newest EXCEPT ![u] = changes + 1]
    /\ raced' = IF handler # "idle" /\ entry.user = u /\ ~ShouldDrop(entry.state)
                THEN raced \cup {u} ELSE raced \ {u}
    /\ refused' = refused \ {u}
    /\ UNCHANGED <<handler, entry, ghosts, shown, faults>>

\* A tick of BridgeCore::start: process_next takes the first entry, if any.
Tick ==
    /\ ~DisablePresence /\ handler = "idle" /\ queue # <<>>
    /\ entry' = Head(queue) /\ queue' = Tail(queue)
    /\ handler' = "setting"
    /\ UNCHANGED <<ghosts, shown, changes, faults, newest, raced, refused>>

\* The end of process_next: the entry goes back to the queue, unless it is "offline".
Requeue ==
    /\ queue' = IF ShouldDrop(entry.state) THEN queue ELSE Enqueued(queue, entry)
    /\ handler' = "idle" /\ entry' = <<>>

\* The homeserver accepts the presence of a ghost it knows.
PresenceSet ==
    /\ handler = "setting" /\ entry.user \in ghosts
    /\ shown' = [shown EXCEPT ![entry.user] =
                    [state |-> MatrixPresence(entry.state), num |-> entry.num]]
    /\ Requeue
    /\ UNCHANGED <<ghosts, changes, faults, newest, raced, refused>>

\* An "offline" that has not been set is gone all the same.
Refused == refused' = IF ShouldDrop(entry.state) /\ newest[entry.user] = entry.num
                      THEN refused \cup {entry.user} ELSE refused

\* M_FORBIDDEN: the ghost is not registered yet.
PresenceForbidden ==
    /\ handler = "setting" /\ entry.user \notin ghosts
    /\ handler' = "registering"
    /\ Refused
    /\ UNCHANGED <<queue, entry, ghosts, shown, changes, faults, newest, raced>>

\* Any other error is only a warning.
PresenceFails ==
    /\ handler = "setting" /\ faults < MaxFaults
    /\ faults' = faults + 1
    /\ Refused /\ Requeue
    /\ UNCHANGED <<ghosts, shown, changes, newest, raced>>

\* ensure_ghost_user_registered ignores the answers: the ghost may not be there.
Registers ==
    /\ handler = "registering"
    /\ \/ ghosts' = ghosts \cup {entry.user} /\ UNCHANGED faults
       \/ faults < MaxFaults /\ faults' = faults + 1 /\ UNCHANGED ghosts
    /\ Requeue
    /\ UNCHANGED <<shown, changes, newest, raced, refused>>

Next == \/ \E u \in Users, s \in States : Changes(u, s)
        \/ Tick \/ PresenceSet \/ PresenceForbidden \/ PresenceFails \/ Registers

Spec == Init /\ [][Next]_vars
-----------------------------------------------------------------------------
NewestOf(u) == {e \in Entry : e.user = u /\ e.num = newest[u]}
Queued(u) == \E i \in DOMAIN queue : queue[i] \in NewestOf(u)
InHand(u) == handler # "idle" /\ entry \in NewestOf(u)

\* The newest presence of a user is shown, queued or being sent, with two
\* exceptions only: it arrived while an older presence of that user, to be queued
\* again, was being sent (presence_handler.rs:135 then removes it), or it is an
\* "offline" the homeserver did not take (presence_handler.rs:134 drops it).
PresenceLossExcused == \A u \in Users \ {BotId} :
    newest[u] # 0 /\ u \notin raced \cup refused
        => shown[u].num = newest[u] \/ Queued(u) \/ InHand(u)
=============================================================================
