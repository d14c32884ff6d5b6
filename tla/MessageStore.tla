---------------------------- MODULE MessageStore ----------------------------
(***************************************************************************)
(* The table message_mappings under concurrent calls.  All three back ends *)
(* run an upsert as a SELECT and an UPDATE or INSERT of its own, without a *)
(* transaction, in a blocking task with a connection: SQLite opens one,    *)
(* PostgreSQL and MySQL wait for one of the pool and fail after a timeout. *)
(* slack_message_id is UNIQUE.  MessageRelay takes an upsert for one step; *)
(* here it is two, for the callers that may interleave in between.         *)
(***************************************************************************)
EXTENDS Integers, FiniteSets

CONSTANTS
    Calls,          \* calls of the store, one statement sequence each
    Messages,       \* Slack message ids
    PoolSize        \* connections

\* What the theorems assume of the constants.
Bounds == IsFiniteSet(Calls)

Kinds == {"upsert", "delete"}
Stages == {"new", "connected", "update", "insert", "ok", "error"}
MaxId == Cardinality(Calls)

VARIABLES
    rows,       \* message_mappings: id, message, and the call whose values it has
    nextId,
    call,       \* stage of each call
    kind,       \* what each call does
    msg,        \* to which message
    seen,       \* id of the row its SELECT has returned, 0 for none
    turn,       \* history: for the upserts answered Ok, in which order; 0 for the others
    deleted     \* history: calls whose message has been deleted since their SELECT

vars == <<rows, nextId, call, kind, msg, seen, turn, deleted>>
-----------------------------------------------------------------------------
Row == [id : 1..MaxId, msg : Messages, by : Calls]

TypeOK ==
    /\ rows \subseteq Row
    /\ nextId \in 1..MaxId + 1
    /\ call \in [Calls -> Stages]
    /\ kind \in [Calls -> Kinds]
    /\ msg \in [Calls -> Messages]
    /\ seen \in [Calls -> 0..MaxId]
    /\ turn \in [Calls -> 0..MaxId]
    /\ deleted \subseteq Calls

Init ==
    /\ rows = {} /\ nextId = 1
    /\ call = [c \in Calls |-> "new"]
    /\ kind \in [Calls -> Kinds]
    /\ msg \in [Calls -> Messages]
    /\ seen = [c \in Calls |-> 0]
    /\ turn = [c \in Calls |-> 0] /\ deleted = {}
-----------------------------------------------------------------------------
HasConnection == {c \in Calls : call[c] \in {"connected", "update", "insert"}}
Goes(c, stage) == call' = [call EXCEPT ![c] = stage]
Turns == {turn[c] : c \in Calls} \ {0}
Answers(c) == Goes(c, "ok") /\ turn' = [turn EXCEPT ![c] = Cardinality(Turns) + 1]

\* with_connection: pool.get, or establish_connection.
Connects(c) ==
    /\ call[c] = "new"
    /\ Cardinality(HasConnection) < PoolSize
    /\ Goes(c, "connected")
    /\ UNCHANGED <<rows, nextId, kind, msg, seen, turn, deleted>>

\* No connection in time: DatabaseError::Connection.
TimesOut(c) ==
    /\ call[c] = "new"
    /\ Cardinality(HasConnection) >= PoolSize
    /\ Goes(c, "error")
    /\ UNCHANGED <<rows, nextId, kind, msg, seen, turn, deleted>>

\* The SELECT of upsert_message_mapping.
Selects(c) ==
    /\ call[c] = "connected" /\ kind[c] = "upsert"
    /\ \/ \E r \in rows :
            /\ r.msg = msg[c]
            /\ seen' = [seen EXCEPT ![c] = r.id] /\ Goes(c, "update")
       \/ /\ \A r \in rows : r.msg # msg[c]
          /\ UNCHANGED seen /\ Goes(c, "insert")
    /\ deleted' = deleted \ {c}
    /\ UNCHANGED <<rows, nextId, kind, msg, turn>>

\* UPDATE .. WHERE id = seen: Ok, even if no row has that id any more.
Updates(c) ==
    /\ call[c] = "update"
    /\ rows' = {IF r.id = seen[c] THEN [r EXCEPT !.by = c] ELSE r : r \in rows}
    /\ Answers(c)
    /\ UNCHANGED <<nextId, kind, msg, seen, deleted>>

InsertIgnored(c) ==     \* a fault: INSERT OR IGNORE
    /\ call[c] = "insert"
    /\ rows' = IF \E r \in rows : r.msg = msg[c] THEN rows
               ELSE rows \cup {[id |-> nextId, msg |-> msg[c], by |-> c]}
    /\ nextId' = IF rows' = rows THEN nextId ELSE nextId + 1
    /\ Answers(c)
    /\ UNCHANGED <<kind, msg, seen, deleted>>

\* INSERT: refused when another call has inserted the message meanwhile.
Inserts(c) ==
    /\ call[c] = "insert"
    /\ IF \E r \in rows : r.msg = msg[c]
       THEN Goes(c, "error") /\ UNCHANGED <<rows, nextId, turn>>
       ELSE /\ rows' = rows \cup {[id |-> nextId, msg |-> msg[c], by |-> c]}
            /\ nextId' = nextId + 1
            /\ Answers(c)
    /\ UNCHANGED <<kind, msg, seen, deleted>>

\* delete_by_slack_message_id: one statement.
Deletes(c) ==
    /\ call[c] = "connected" /\ kind[c] = "delete"
    /\ rows' = {r \in rows : r.msg # msg[c]}
    /\ deleted' = deleted \cup {d \in Calls : msg[d] = msg[c]}
    /\ Goes(c, "ok")
    /\ UNCHANGED <<nextId, kind, msg, seen, turn>>

Next == \E c \in Calls : \/ Connects(c) \/ TimesOut(c)
                         \/ Selects(c) \/ Updates(c) \/ Inserts(c) \/ Deletes(c)

Spec == Init /\ [][Next]_vars
-----------------------------------------------------------------------------
\* A message whose upsert was answered Ok has a row with the values of that upsert or
\* of one answered after it, unless a delete of the message came after its SELECT.  An
\* upsert that loses its race against another fails; it is not lost silently
\* (sqlite.rs:578, postgres.rs:530, mysql.rs:544).
UpsertHeld == \A c \in Calls :
    kind[c] = "upsert" /\ call[c] = "ok" /\ c \notin deleted
        => \E r \in rows : r.msg = msg[c] /\ turn[r.by] >= turn[c]
=============================================================================
