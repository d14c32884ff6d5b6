------------------------------ MODULE Backends ------------------------------
(***************************************************************************)
(* The four stores of the bridge (db/stores/mod.rs) in their three back    *)
(* ends, side by side: every call is made to SQLite, PostgreSQL and MySQL  *)
(* at once, and the question is whether a caller can tell which of them it *)
(* has.  The implementations are written out three times in the source,    *)
(* and so they are here, each from its own file and over the constraints   *)
(* of its own migration.                                                   *)
(*                                                                         *)
(* All tables have the shape [id, a, b, v]:                                *)
(*   rooms     a matrix_room_id    b slack_channel_id  v slack_channel_name*)
(*   users     a slack_user_id     b matrix_user_id    v slack_avatar      *)
(*   messages  a slack_message_id  b matrix_event_id   v matrix_room_id    *)
(*   emoji     a slack_emoji_id    b emoji_name        v mxc_url           *)
(* MySQL compares texts by its collation, which ignores case, and refuses  *)
(* a text that is longer than its VARCHAR; the others do neither.  A call  *)
(* is atomic here (MessageStore has the steps of an upsert).               *)
(***************************************************************************)
EXTENDS Naturals, FiniteSets

CONSTANTS
    TextsA, TextsB, TextsV,     \* texts of the columns a, b and v
    Folded,     \* Folded[x]: what MySQL's collation takes the text x for
    Long,       \* texts longer than MySQL's columns for them
    MaxCalls    \* bound on the calls

BackEnds == {"sqlite", "postgres", "mysql"}
Stores == {"rooms", "users", "messages", "emoji"}
Null == "null"      \* no avatar

VARIABLES
    store,      \* the store this behaviour is about
    table,      \* table[e]: the table of back end e, and the id it gives next
    answer,     \* answer[e]: whether the last call was answered Ok, and with which rows
    held,       \* held[e]: the row the caller has kept from a lookup, as a set
    calls,      \* calls so far
    excused     \* history: a call was made on which the back ends may part

vars == <<store, table, answer, held, calls, excused>>

Row == [id : 0..MaxCalls, a : TextsA \cup TextsB, b : TextsA \cup TextsB,
        v : TextsV \cup {Null}]

TypeOK ==
    /\ store \in Stores
    /\ \A e \in BackEnds :
          /\ table[e].rows \subseteq Row /\ table[e].next \in 1..MaxCalls + 1
          /\ \A r, s \in table[e].rows : r.id = s.id => r = s
          /\ answer[e].ok \in BOOLEAN /\ answer[e].rows \subseteq Row
          /\ held[e] \subseteq Row /\ Cardinality(held[e]) <= 1
    /\ calls \in 0..MaxCalls /\ excused \in BOOLEAN

Init ==
    /\ store \in Stores
    /\ table = [e \in BackEnds |-> [rows |-> {}, next |-> 1]]
    /\ answer = [e \in BackEnds |-> [ok |-> TRUE, rows |-> {}]]
    /\ held = [e \in BackEnds |-> {}]
    /\ calls = 0 /\ excused = FALSE
-----------------------------------------------------------------------------
(* What the migrations declare UNIQUE. *)

SqliteUnique == [rooms |-> {"a", "b"}, users |-> {"a", "b"}, messages |-> {"a"}, emoji |-> {"a"}]
PostgresUnique == [rooms |-> {"a", "b"}, users |-> {"a", "b"}, messages |-> {"a"}, emoji |-> {"a"}]
MysqlUnique == [rooms |-> {"a", "b"}, users |-> {"a", "b"}, messages |-> {"a"}, emoji |-> {"a"}]

Unique(e) == CASE e = "sqlite" -> SqliteUnique[store] [] e = "postgres" -> PostgresUnique[store]
               [] e = "mysql" -> MysqlUnique[store]

(* SQL on a table t of back end e: the table after it, whether it went well, the rows read. *)

Same(e, x, y) == IF e = "mysql" THEN Folded[x] = Folded[y] ELSE x = y
Where(e, t, col, x) == {r \in t.rows : Same(e, r[col], x)}
WithId(t, id) == {r \in t.rows : r.id = id}

Select(t, rows) == [table |-> t, ok |-> TRUE, rows |-> rows]
Delete(t, rows) == [table |-> [t EXCEPT !.rows = @ \ rows], ok |-> TRUE, rows |-> {}]
Error(t) == [table |-> t, ok |-> FALSE, rows |-> {}]

TooLong(e, r) == e = "mysql" /\ {r.a, r.b, r.v} \cap Long # {}
Clashes(e, r, rows) == \E s \in rows : \E col \in Unique(e) : Same(e, r[col], s[col])

\* A refused INSERT uses an id up, but on SQLite.
Insert(e, t, c) ==
    LET r == [id |-> t.next, a |-> c.a, b |-> c.b, v |-> c.v]
        after == [t EXCEPT !.next = @ + 1]
    IN  IF TooLong(e, r) \/ Clashes(e, r, t.rows)
        THEN Error(IF e = "sqlite" THEN t ELSE after)
        ELSE [table |-> [after EXCEPT !.rows = @ \cup {r}], ok |-> TRUE, rows |-> {}]

\* UPDATE the columns in cols; a Null is left out of the changes.
Update(e, t, rows, c, cols) ==
    LET Set(r) == [col \in DOMAIN r |-> IF col \in cols /\ c[col] # Null THEN c[col] ELSE r[col]]
        rest == t.rows \ rows
    IN  IF \E r \in rows : TooLong(e, Set(r)) \/ Clashes(e, Set(r), rest) THEN Error(t)
        ELSE [table |-> [t EXCEPT !.rows = rest \cup {Set(r) : r \in rows}], ok |-> TRUE, rows |-> {}]
-----------------------------------------------------------------------------
(* SQLite *)

SqliteRooms(t, c) ==
    CASE c.op = "by a"   -> Select(t, Where("sqlite", t, "a", c.a))
      [] c.op = "by b"   -> Select(t, Where("sqlite", t, "b", c.b))
      [] c.op = "by id"  -> Select(t, WithId(t, c.id))
      [] c.op = "all"    -> Select(t, t.rows)
      [] c.op = "create" -> Insert("sqlite", t, c)
      [] c.op = "update" -> Update("sqlite", t, WithId(t, c.id), c, {"a", "b", "v"})
      [] c.op = "delete" -> Delete(t, WithId(t, c.id))

SqliteUsers(t, c) ==
    CASE c.op = "by a"   -> Select(t, Where("sqlite", t, "a", c.a))
      [] c.op = "by b"   -> Select(t, Where("sqlite", t, "b", c.b))
      [] c.op = "all"    -> Select(t, t.rows)
      [] c.op = "create" -> Insert("sqlite", t, c)
      [] c.op = "update" -> Update("sqlite", t, WithId(t, c.id), c, {"v"})
      [] c.op = "delete" -> Delete(t, WithId(t, c.id))

SqliteMessages(t, c) ==
    CASE c.op = "by a"     -> Select(t, Where("sqlite", t, "a", c.a))
      [] c.op = "by b"     -> Select(t, Where("sqlite", t, "b", c.b))
      [] c.op = "upsert"   ->
             LET found == Where("sqlite", t, "a", c.a) IN
             IF found # {} THEN Update("sqlite", t, found, c, {"b", "v"}) ELSE Insert("sqlite", t, c)
      [] c.op = "delete a" -> Delete(t, Where("sqlite", t, "a", c.a))
      [] c.op = "delete b" -> Delete(t, Where("sqlite", t, "b", c.b))

\* Its upsert looks for the name.
SqliteEmoji(t, c) ==
    CASE c.op = "by a"     -> Select(t, Where("sqlite", t, "a", c.a))
      [] c.op = "by b"     -> Select(t, Where("sqlite", t, "b", c.b))
      [] c.op = "by v"     -> Select(t, Where("sqlite", t, "v", c.v))
      [] c.op = "create"   -> Insert("sqlite", t, c)
      [] c.op = "update"   -> Update("sqlite", t, Where("sqlite", t, "a", c.a), c, {"b", "v"})
      [] c.op = "upsert"   ->
             LET found == Where("sqlite", t, "b", c.b) IN
             IF found # {} THEN Update("sqlite", t, found, c, {"v"})
                           ELSE Insert("sqlite", t, [c EXCEPT !.a = c.b])
      [] c.op = "rename"   -> Update("sqlite", t, Where("sqlite", t, "b", c.a), c, {"b"})
      [] c.op = "delete a" -> Delete(t, Where("sqlite", t, "a", c.a))
-----------------------------------------------------------------------------
(* PostgreSQL *)

PostgresRooms(t, c) ==
    CASE c.op = "by a"   -> Select(t, Where("postgres", t, "a", c.a))
      [] c.op = "by b"   -> Select(t, Where("postgres", t, "b", c.b))
      [] c.op = "by id"  -> Select(t, WithId(t, c.id))
      [] c.op = "all"    -> Select(t, t.rows)
      [] c.op = "create" -> Insert("postgres", t, c)
      [] c.op = "update" -> Update("postgres", t, WithId(t, c.id), c, {"a", "b", "v"})
      [] c.op = "delete" -> Delete(t, WithId(t, c.id))

PostgresUsers(t, c) ==
    CASE c.op = "by a"   -> Select(t, Where("postgres", t, "a", c.a))
      [] c.op = "by b"   -> Select(t, Where("postgres", t, "b", c.b))
      [] c.op = "all"    -> Select(t, t.rows)
      [] c.op = "create" -> Insert("postgres", t, c)
      [] c.op = "update" -> Update("postgres", t, WithId(t, c.id), c, {"v"})
      [] c.op = "delete" -> Delete(t, WithId(t, c.id))

PostgresMessages(t, c) ==
    CASE c.op = "by a"     -> Select(t, Where("postgres", t, "a", c.a))
      [] c.op = "by b"     -> Select(t, Where("postgres", t, "b", c.b))
      [] c.op = "upsert"   ->
             LET found == Where("postgres", t, "a", c.a) IN
             IF found # {} THEN Update("postgres", t, found, c, {"b", "v"}) ELSE Insert("postgres", t, c)
      [] c.op = "delete a" -> Delete(t, Where("postgres", t, "a", c.a))
      [] c.op = "delete b" -> Delete(t, Where("postgres", t, "b", c.b))

\* Its upsert is an INSERT .. ON CONFLICT (slack_emoji_id) DO UPDATE.
PostgresEmoji(t, c) ==
    CASE c.op = "by a"     -> Select(t, Where("postgres", t, "a", c.a))
      [] c.op = "by b"     -> Select(t, Where("postgres", t, "b", c.b))
      [] c.op = "by v"     -> Select(t, Where("postgres", t, "v", c.v))
      [] c.op = "create"   -> Insert("postgres", t, c)
      [] c.op = "update"   -> Update("postgres", t, Where("postgres", t, "a", c.a), c, {"b", "v"})
      [] c.op = "upsert"   ->
             LET clash == Where("postgres", t, "a", c.b) IN
             IF clash # {} THEN Update("postgres", t, clash, c, {"b", "v"})
                           ELSE Insert("postgres", t, [c EXCEPT !.a = c.b])
      [] c.op = "rename"   -> Update("postgres", t, Where("postgres", t, "b", c.a), c, {"b"})
      [] c.op = "delete a" -> Delete(t, Where("postgres", t, "a", c.a))
-----------------------------------------------------------------------------
(* MySQL *)

MysqlRoomsByRoom(t, c) ==   \* a fault: the UPDATE and DELETE look for the room, not the id
    CASE c.op = "by a"   -> Select(t, Where("mysql", t, "a", c.a))
      [] c.op = "by b"   -> Select(t, Where("mysql", t, "b", c.b))
      [] c.op = "by id"  -> Select(t, WithId(t, c.id))
      [] c.op = "all"    -> Select(t, t.rows)
      [] c.op = "create" -> Insert("mysql", t, c)
      [] c.op = "update" -> Update("mysql", t, Where("mysql", t, "a", c.a), c, {"a", "b", "v"})
      [] c.op = "delete" -> Delete(t, Where("mysql", t, "a", c.a))

MysqlRooms(t, c) ==
    CASE c.op = "by a"   -> Select(t, Where("mysql", t, "a", c.a))
      [] c.op = "by b"   -> Select(t, Where("mysql", t, "b", c.b))
      [] c.op = "by id"  -> Select(t, WithId(t, c.id))
      [] c.op = "all"    -> Select(t, t.rows)
      [] c.op = "create" -> Insert("mysql", t, c)
      [] c.op = "update" -> Update("mysql", t, WithId(t, c.id), c, {"a", "b", "v"})
      [] c.op = "delete" -> Delete(t, WithId(t, c.id))

MysqlUsers(t, c) ==
    CASE c.op = "by a"   -> Select(t, Where("mysql", t, "a", c.a))
      [] c.op = "by b"   -> Select(t, Where("mysql", t, "b", c.b))
      [] c.op = "all"    -> Select(t, t.rows)
      [] c.op = "create" -> Insert("mysql", t, c)
      [] c.op = "update" -> Update("mysql", t, WithId(t, c.id), c, {"v"})
      [] c.op = "delete" -> Delete(t, WithId(t, c.id))

MysqlMessages(t, c) ==
    CASE c.op = "by a"     -> Select(t, Where("mysql", t, "a", c.a))
      [] c.op = "by b"     -> Select(t, Where("mysql", t, "b", c.b))
      [] c.op = "upsert"   ->
             LET found == Where("mysql", t, "a", c.a) IN
             IF found # {} THEN Update("mysql", t, found, c, {"b", "v"}) ELSE Insert("mysql", t, c)
      [] c.op = "delete a" -> Delete(t, Where("mysql", t, "a", c.a))
      [] c.op = "delete b" -> Delete(t, Where("mysql", t, "b", c.b))

\* Its upsert is an INSERT .. ON DUPLICATE KEY UPDATE.
MysqlEmoji(t, c) ==
    CASE c.op = "by a"     -> Select(t, Where("mysql", t, "a", c.a))
      [] c.op = "by b"     -> Select(t, Where("mysql", t, "b", c.b))
      [] c.op = "by v"     -> Select(t, Where("mysql", t, "v", c.v))
      [] c.op = "create"   -> Insert("mysql", t, c)
      [] c.op = "update"   -> Update("mysql", t, Where("mysql", t, "a", c.a), c, {"b", "v"})
      [] c.op = "upsert"   ->
             LET clash == Where("mysql", t, "a", c.b) IN
             IF clash # {} THEN Update("mysql", t, clash, c, {"b", "v"})
                           ELSE Insert("mysql", t, [c EXCEPT !.a = c.b])
      [] c.op = "rename"   -> Update("mysql", t, Where("mysql", t, "b", c.a), c, {"b"})
      [] c.op = "delete a" -> Delete(t, Where("mysql", t, "a", c.a))
-----------------------------------------------------------------------------
(* The callers. *)

Sqlite(t, c) == CASE store = "rooms"    -> SqliteRooms(t, c)    [] store = "users" -> SqliteUsers(t, c)
                  [] store = "messages" -> SqliteMessages(t, c) [] store = "emoji" -> SqliteEmoji(t, c)
Postgres(t, c) == CASE store = "rooms"    -> PostgresRooms(t, c)    [] store = "users" -> PostgresUsers(t, c)
                    [] store = "messages" -> PostgresMessages(t, c) [] store = "emoji" -> PostgresEmoji(t, c)
Mysql(t, c) == CASE store = "rooms"    -> MysqlRooms(t, c)    [] store = "users" -> MysqlUsers(t, c)
                 [] store = "messages" -> MysqlMessages(t, c) [] store = "emoji" -> MysqlEmoji(t, c)

Run(e, c) == CASE e = "sqlite" -> Sqlite(table[e], c) [] e = "postgres" -> Postgres(table[e], c)
               [] e = "mysql" -> Mysql(table[e], c)

\* Calls by key, and calls with the id of the row kept from a lookup.  An update of a room
\* hands the row back with another name, one of a user has id 0 if it comes from user_sync.
KeyOps == CASE store = "rooms"    -> {"by a", "by b", "all", "create"}
            [] store = "users"    -> {"by a", "by b", "all", "create"}
            [] store = "messages" -> {"by a", "by b", "upsert", "delete a", "delete b"}
            [] store = "emoji"    -> {"by a", "by b", "by v", "create", "update", "upsert",
                                      "rename", "delete a"}
IdOps == CASE store = "rooms" -> {"by id", "update", "delete"} [] store = "users" -> {"update", "delete"}
           [] OTHER -> {}

\* The columns a call by key has arguments for.
Arguments(op) ==
    CASE op = "all" -> {}
      [] op \in {"by a", "delete a"} -> {"a"}
      [] op \in {"by b", "delete b"} -> {"b"}
      [] op = "by v" -> {"v"}
      [] op = "rename" -> {"a", "b"}
      [] op = "upsert" /\ store = "emoji" -> {"b", "v"}
      [] OTHER -> {"a", "b", "v"}

Values(op, col, texts) == IF col \in Arguments(op) THEN texts ELSE {Null}

\* Texts MySQL takes for one another or does not take, and an emoji whose id is one name and
\* whose name is another, with an upsert of either (EmojiStore says what becomes of those).
MayPart(c) ==
    \/ \E r \in table["sqlite"].rows : \E x \in {c.a, c.b} \ {Null} : \E y \in {r.a, r.b} :
          x # y /\ Folded[x] = Folded[y]
    \/ c.op = "by v" /\ \E r \in table["sqlite"].rows : c.v # r.v /\ Folded[c.v] = Folded[r.v]
    \/ {c.a, c.b, c.v} \cap Long # {}
    \/ /\ store = "emoji" /\ c.op = "upsert"
       /\ \E r \in table["sqlite"].rows : r.a # r.b /\ c.b \in {r.a, r.b}

\* One call to the three back ends: call[e] is that to e.
Make(call) ==
    LET op == call["sqlite"].op IN
    /\ ~excused /\ calls < MaxCalls
    /\ calls' = calls + 1
    /\ \E did \in {[e \in BackEnds |-> Run(e, call[e])]} :
       /\ table' = [e \in BackEnds |-> did[e].table]
       /\ answer' = [e \in BackEnds |-> [ok |-> did[e].ok, rows |-> did[e].rows]]
       /\ held' = IF op \in {"by a", "by b"} /\ store \in {"rooms", "users"}
                  THEN [e \in BackEnds |-> did[e].rows] ELSE held
    /\ excused' = MayPart(call["sqlite"])
    /\ UNCHANGED store

ByKey(op, a, b, v) ==
    Make([e \in BackEnds |-> [op |-> op, id |-> 0, a |-> a, b |-> b, v |-> v]])

ByHeldRow(op, v) ==
    LET row(e) == CHOOSE r \in held[e] : TRUE
    IN  /\ op \in IdOps /\ \A e \in BackEnds : held[e] # {}
        /\ Make([e \in BackEnds |-> [op |-> op, id |-> row(e).id, a |-> row(e).a, b |-> row(e).b, v |-> v]])

UserSyncUpdate(a, b, v) == store = "users" /\ ByKey("update", a, b, v)

Next ==
    \/ \E op \in KeyOps : \E a \in Values(op, "a", TextsA), b \in Values(op, "b", TextsB),
                              v \in Values(op, "v", TextsV) : ByKey(op, a, b, v)
    \/ \E v \in TextsV \cup {Null}, op \in IdOps : (v = Null => store = "users") /\ ByHeldRow(op, v)
    \/ \E a \in TextsA, b \in TextsB, v \in TextsV : UserSyncUpdate(a, b, v)

Spec == Init /\ [][Next]_vars
-----------------------------------------------------------------------------
Content(rows) == {[a |-> r.a, b |-> r.b, v |-> r.v] : r \in rows}

\* A caller cannot tell the back ends apart: they answer every sequence of calls
\* alike and hold the same rows but for their ids, as long as no text is too long
\* for MySQL or differs from a stored one in its case only, and no emoji is named
\* like one that was renamed.
StoresAgree == ~excused => \A e \in BackEnds :
    /\ Content(table[e].rows) = Content(table["sqlite"].rows)
    /\ answer[e].ok = answer["sqlite"].ok
    /\ Content(answer[e].rows) = Content(answer["sqlite"].rows)
=============================================================================
