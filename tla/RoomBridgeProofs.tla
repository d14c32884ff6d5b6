-------------------------- MODULE RoomBridgeProofs --------------------------
(***************************************************************************)
(* The safety properties of RoomBridge, for any sets of tasks, rooms and   *)
(* channels and any limit.  IInv says in addition what each handler may    *)
(* rely on between two awaits: above all that the copy of a row it holds   *)
(* can be wrong only by being gone, because ids are never used again.      *)
(* The refinement of RoomRegistry is at the end.                            *)
(***************************************************************************)
EXTENDS RoomBridge, FiniteSetTheorems, TLAPS

(* A copy of a row: if its id is still in the table, it is that row.       *)
Known(w) == w \in Row /\ w.id < nextId /\ \A v \in rows : v.id = w.id => v = w

(* The row w is in the table, or is accounted for by StaleOnlyByRace.      *)
Excused(w) ==
    \/ w \in rows \cup raced
    \/ \E q \in AllTasks : task[q].at = "evict" /\ task[q].row.room = w.room

(* What the handler of task t has established when it stands where it does.*)
HandlerOK(t) ==
    /\ task[t].at \in {"ask", "chan", "insert", "create"} => task[t].chan \in Channels
    /\ task[t].at \in {"ask", "chan", "insert", "lookup", "db_read", "fill"} =>
          task[t].room \in AllRooms
    /\ task[t].at \in {"fill", "alias", "delete", "evict"} => Known(task[t].row)
    /\ task[t].at = "fill" => task[t].row.room = task[t].room /\ Excused(task[t].row)

RowsOK == \A w \in rows : w.id < nextId

HandlersOK == \A t \in AllTasks : HandlerOK(t)

CacheOK == \A r \in AllRooms :
    cache[r] # NONE => cache[r].room = r /\ Known(cache[r]) /\ Excused(cache[r])

(* The part of TypeOK about the response to the provisioning client.       *)
HttpTyped == http \in {NONE, 201, 400, 500}

IInv == TypeOK /\ RowsOK /\ OneToOne /\ HandlersOK /\ CacheOK

-----------------------------------------------------------------------------
LEMMA InitIInv == Init => IInv
  BY MaxIdIsNat
  DEF Init, IInv, TypeOK, RowsOK, OneToOne, HandlersOK, HandlerOK, CacheOK, Idle, Task,
      Op, At, Request

(* A copy keeps its meaning when rows go, or come with a new id.           *)
LEMMA KnownKept ==
  ASSUME IInv, nextId' \in Nat, nextId <= nextId',
         \A w \in rows' : w \in rows \/ w.id = nextId,
         NEW u, Known(u)
  PROVE  Known(u)'
<1>1. u.id \in Nat /\ nextId \in Nat
  BY MaxIdIsNat DEF Known, Row, IInv, TypeOK
<1> QED BY <1>1 DEF Known

(* An excuse lasts while no row goes and no eviction is made.              *)
LEMMA ExcusedKept ==
  ASSUME IInv, NEW t \in AllTasks, NEW h, task' = [task EXCEPT ![t] = h],
         task[t].at # "evict", rows \subseteq rows', raced \subseteq raced',
         NEW u, Excused(u)
  PROVE  Excused(u)'
<1>1. CASE u \in rows \cup raced
  BY <1>1 DEF Excused
<1>2. ASSUME NEW q \in AllTasks, task[q].at = "evict", task[q].row.room = u.room
      PROVE  Excused(u)'
  <2>1. task'[q] = task[q]
    BY <1>2 DEF IInv, TypeOK
  <2> QED BY <1>2, <2>1 DEF Excused
<1> QED BY <1>1, <1>2 DEF Excused

(* So the other handlers keep what they have established, and so does t if *)
(* it goes on in a state h that is right after the step.                   *)
LEMMA HandlersKept ==
  ASSUME IInv, NEW t \in AllTasks, NEW h, task' = [task EXCEPT ![t] = h],
         \A u \in Row : Known(u) => Known(u)',
         \A u \in Row : Excused(u) => Excused(u)',
         h.at \in {"ask", "chan", "insert", "create"} => h.chan \in Channels,
         h.at \in {"ask", "chan", "insert", "lookup", "db_read", "fill"} =>
            h.room \in AllRooms,
         h.at \in {"fill", "alias", "delete", "evict"} => Known(h.row)',
         h.at = "fill" => h.row.room = h.room /\ Excused(h.row)'
  PROVE  HandlersOK'
<1> SUFFICES ASSUME NEW s \in AllTasks PROVE HandlerOK(s)'
  BY DEF HandlersOK, HandlerOK, Known, Excused
<1>1. CASE s = t
  <2>1. task'[s] = h
    BY <1>1 DEF IInv, TypeOK
  <2> QED BY <2>1 DEF HandlerOK, Known, Excused
<1>2. CASE s # t
  <2>1. task'[s] = task[s] /\ HandlerOK(s)
    BY <1>2 DEF IInv, TypeOK, HandlersOK
  <2>2. Known(task[s].row) => task[s].row \in Row
    BY DEF Known
  <2> QED BY <2>1, <2>2 DEF HandlerOK, Known, Excused
<1> QED BY <1>1, <1>2

(* And the cache keeps its excuses if the step leaves it alone.            *)
LEMMA CacheKept ==
  ASSUME IInv, cache' = cache,
         \A u \in Row : Known(u) => Known(u)',
         \A u \in Row : Excused(u) => Excused(u)'
  PROVE  CacheOK'
<1> SUFFICES ASSUME NEW r \in AllRooms, cache[r] # NONE
             PROVE  cache[r].room = r /\ Known(cache[r])' /\ Excused(cache[r])'
  BY DEF CacheOK, Known, Excused
<1> DEFINE c == cache[r]
<1>1. c.room = r /\ Known(c) /\ Excused(c)
  BY DEF IInv, CacheOK
<1>2. c \in Row
  BY DEF IInv, TypeOK
<1> QED BY <1>1, <1>2 DEF Known, Excused

(* A handler goes on and touches neither table nor cache.  The state it    *)
(* goes on with must be one it may have with the table as it is.           *)
LEMMA MoveStep ==
  ASSUME IInv, NEW t \in AllTasks, NEW h \in Task,
         task' = [task EXCEPT ![t] = h],
         UNCHANGED <<rows, nextId, cache, raced>>,
         created' \in SUBSET NewRooms, aliases' \in SUBSET Channels,
         HttpTyped',
         task[t].at # "evict",
         h.at \in {"ask", "chan", "insert", "create"} => h.chan \in Channels,
         h.at \in {"ask", "chan", "insert", "lookup", "db_read", "fill"} =>
            h.room \in AllRooms,
         h.at \in {"fill", "alias", "delete", "evict"} => Known(h.row),
         h.at = "fill" => h.row.room = h.room /\ Excused(h.row)
  PROVE  IInv'
<1>1. TypeOK'
  BY DEF IInv, TypeOK, HttpTyped
<1>2. RowsOK' /\ OneToOne'
  BY DEF IInv, RowsOK, OneToOne
<1>3. \A u \in Row : Known(u) => Known(u)'
  BY DEF Known
<1>4. \A u \in Row : Excused(u) => Excused(u)'
  BY ExcusedKept
<1>5. h.at \in {"fill", "alias", "delete", "evict"} => Known(h.row)'
  BY DEF Known
<1>6. h.at = "fill" => Excused(h.row)'
  BY <1>4 DEF Known
<1>7. HandlersOK' /\ CacheOK'
  BY <1>3, <1>4, <1>5, <1>6, HandlersKept, CacheKept
<1> QED BY <1>1, <1>2, <1>7 DEF IInv

-----------------------------------------------------------------------------
LEMMA IdleIsTask == Idle \in Task
  BY MaxIdIsNat DEF Idle, Task, Op, At, Request

(* Every answer carries one of the three statuses, or none.                *)
LEMMA HttpStatusTyped ==
  ASSUME NEW op, NEW reply
  PROVE  (IF op = "web_bridge" THEN HttpStatus(reply) ELSE NONE) \in {NONE, 201, 400, 500}
  BY DEF HttpStatus

(* A handler that returns before it has anything to evict.                 *)
LEMMA AnswerStep ==
  ASSUME IInv, NEW t \in AllTasks, NEW op, NEW reply, Answer(t, op, reply),
         task[t].at # "evict",
         UNCHANGED <<rows, nextId, cache, created, aliases, raced>>
  PROVE  IInv'
<1>1. PICK h \in Task : h = Idle
  BY IdleIsTask
<1>2. task' = [task EXCEPT ![t] = h] /\ HttpTyped'
  BY <1>1, HttpStatusTyped DEF Answer, HttpTyped
<1>3. h.at = "done"
  BY <1>1 DEF Idle
<1>4. created' \in SUBSET NewRooms /\ aliases' \in SUBSET Channels
  BY DEF IInv, TypeOK
<1>5. UNCHANGED <<rows, nextId, cache, raced>>
  OBVIOUS
<1> QED BY <1>2, <1>3, <1>4, <1>5, MoveStep

LEMMA RequestBridgeStep ==
  ASSUME IInv, NEW t \in AllTasks, NEW r \in AllRooms, NEW c \in Channels,
         RequestBridge(t, r, c)
  PROVE  IInv'
<1>0. PICK h : h = [Idle EXCEPT !.op = "bridge", !.at = "ask", !.room = r, !.chan = c]
  OBVIOUS
<1>1. h \in Task /\ h.at = "ask" /\ h.room = r /\ h.chan = c
  BY <1>0, IdleIsTask DEF Task, Op, At, Request
<1>2. /\ task' = [task EXCEPT ![t] = h] /\ HttpTyped' /\ task[t].at = "done"
      /\ UNCHANGED <<rows, nextId, cache, created, aliases, raced>>
  BY <1>0 DEF RequestBridge, Continue, HttpTyped
<1>3. created' \in SUBSET NewRooms /\ aliases' \in SUBSET Channels
  BY <1>2 DEF IInv, TypeOK
<1> QED BY <1>1, <1>2, <1>3, MoveStep

LEMMA EnterBridgeStep ==
  ASSUME IInv, NEW t \in AllTasks, NEW h \in Task, EnterBridge(t, h),
         task[t].at # "evict", h.room \in AllRooms, h.chan \in Channels,
         UNCHANGED <<rows, nextId, cache, created, aliases, raced>>
  PROVE  IInv'
<1>1. CASE Answer(t, h.op, "limit")
  BY <1>1, AnswerStep
<1>2. CASE Continue(t, [h EXCEPT !.at = "chan"])
  <2> DEFINE g == [h EXCEPT !.at = "chan"]
  <2>1. g \in Task /\ g.at = "chan" /\ g.room = h.room /\ g.chan = h.chan
    BY DEF Task, At
  <2>2. task' = [task EXCEPT ![t] = g] /\ HttpTyped'
    BY <1>2 DEF Continue, HttpTyped
  <2>3. created' \in SUBSET NewRooms /\ aliases' \in SUBSET Channels
    BY DEF IInv, TypeOK
  <2> HIDE DEF g
  <2> QED BY <2>1, <2>2, <2>3, MoveStep
<1> QED BY <1>1, <1>2 DEF EnterBridge

LEMMA PermissionStep ==
  ASSUME IInv, NEW t \in AllTasks, Permission(t)
  PROVE  IInv'
<1>1. task[t] \in Task /\ HandlerOK(t) /\ task[t].at = "ask"
  BY DEF IInv, TypeOK, HandlersOK, Permission
<1>2. task[t].room \in AllRooms /\ task[t].chan \in Channels
  BY <1>1 DEF HandlerOK
<1>3. EnterBridge(t, task[t]) \/ Answer(t, "bridge", "refused")
  BY DEF Permission
<1>4. UNCHANGED <<rows, nextId, cache, created, aliases, raced>>
  BY DEF Permission
<1> QED BY <1>1, <1>2, <1>3, <1>4, EnterBridgeStep, AnswerStep

LEMMA WebBridgeStep ==
  ASSUME IInv, NEW t \in AllTasks, NEW r \in AllRooms, NEW c \in Channels,
         WebBridge(t, r, c)
  PROVE  IInv'
<1>0. PICK h : h = [Idle EXCEPT !.op = "web_bridge", !.room = r, !.chan = c]
  OBVIOUS
<1>1. h \in Task /\ h.room = r /\ h.chan = c
  BY <1>0, IdleIsTask DEF Task, Op, At, Request
<1>2. /\ EnterBridge(t, h) /\ task[t].at = "done"
      /\ UNCHANGED <<rows, nextId, cache, created, aliases, raced>>
  BY <1>0 DEF WebBridge
<1> QED BY <1>1, <1>2, EnterBridgeStep

(* The rows a handler still needs do not change when it only moves on.     *)
LEMMA GotoStep ==
  ASSUME IInv, NEW t \in AllTasks, NEW place \in {"insert", "delete"},
         Goto(t, place), UNCHANGED <<rows, nextId, cache, raced>>,
         created' \in SUBSET NewRooms, aliases' \in SUBSET Channels,
         task[t].at = IF place = "insert" THEN "chan" ELSE "alias"
  PROVE  IInv'
<1> DEFINE h == [task[t] EXCEPT !.at = place]
<1>1. task[t] \in Task /\ HandlerOK(t)
  BY DEF IInv, TypeOK, HandlersOK
<1>2. /\ h \in Task /\ h.at = place /\ h.room = task[t].room
      /\ h.chan = task[t].chan /\ h.row = task[t].row
  BY <1>1 DEF Task, At
<1>3. task' = [task EXCEPT ![t] = h] /\ HttpTyped'
  BY DEF Goto, Continue, HttpTyped
<1>4. place = "insert" => h.chan \in Channels /\ h.room \in AllRooms
  BY <1>1, <1>2 DEF HandlerOK
<1>5. place = "delete" => Known(h.row)
  <2> SUFFICES ASSUME place = "delete" PROVE Known(task[t].row)
    BY <1>2 DEF Known
  <2> QED BY <1>1 DEF HandlerOK
<1> HIDE DEF h
<1> QED BY <1>1, <1>2, <1>3, <1>4, <1>5, MoveStep

LEMMA CheckChannelStep ==
  ASSUME IInv, NEW t \in AllTasks, CheckChannel(t)
  PROVE  IInv'
<1>1. task[t].at = "chan" /\ UNCHANGED <<rows, nextId, cache, created, aliases, raced>>
  BY DEF CheckChannel
<1>2. created' \in SUBSET NewRooms /\ aliases' \in SUBSET Channels
  BY <1>1 DEF IInv, TypeOK
<1>3. CASE Goto(t, "insert")
  BY <1>1, <1>2, <1>3, GotoStep
<1>4. CASE \E reply \in {"already", "problem"} : Answer(t, task[t].op, reply)
  BY <1>1, <1>4, AnswerStep
<1> QED BY <1>3, <1>4 DEF CheckChannel

LEMMA DropAliasStep ==
  ASSUME IInv, NEW t \in AllTasks, DropAlias(t)
  PROVE  IInv'
<1>1. /\ task[t].at = "alias" /\ Goto(t, "delete")
      /\ UNCHANGED <<rows, nextId, cache, created, raced>>
  BY DEF DropAlias
<1>2. created' \in SUBSET NewRooms /\ aliases' \in SUBSET Channels
  BY <1>1 DEF IInv, TypeOK, DropAlias
<1> QED BY <1>1, <1>2, GotoStep

LEMMA SlackBridgeStep ==
  ASSUME IInv, NEW c \in Channels, SlackBridge(c)
  PROVE  IInv'
<1>0. PICK h : h = [Idle EXCEPT !.op = "slack_bridge", !.at = "create", !.chan = c]
  OBVIOUS
<1>1. h \in Task /\ h.at = "create" /\ h.chan = c
  BY <1>0, IdleIsTask DEF Task, Op, At, Request
<1>2. /\ task' = [task EXCEPT ![SlackLoop] = h] /\ HttpTyped' /\ task[SlackLoop].at = "done"
      /\ UNCHANGED <<rows, nextId, cache, created, aliases, raced>>
  BY <1>0 DEF SlackBridge, Continue, HttpTyped
<1>3. created' \in SUBSET NewRooms /\ aliases' \in SUBSET Channels /\ SlackLoop \in AllTasks
  BY <1>2 DEF IInv, TypeOK, AllTasks
<1> QED BY <1>1, <1>2, <1>3, MoveStep

LEMMA CreateRoomStep ==
  ASSUME IInv, NEW n \in NewRooms, CreateRoom(n)
  PROVE  IInv'
<1> DEFINE k == task[SlackLoop]
<1>1. SlackLoop \in AllTasks /\ k \in Task /\ HandlerOK(SlackLoop) /\ k.at = "create"
  BY DEF IInv, TypeOK, HandlersOK, CreateRoom, AllTasks
<1>2. k.chan \in Channels
  BY <1>1 DEF HandlerOK
<1>3. PICK h : h = [k EXCEPT !.at = "insert", !.room = n]
  OBVIOUS
<1>4. h \in Task /\ h.at = "insert" /\ h.room \in AllRooms /\ h.chan \in Channels
  BY <1>1, <1>2, <1>3 DEF Task, At, AllRooms
<1>5. /\ task' = [task EXCEPT ![SlackLoop] = h] /\ HttpTyped'
      /\ UNCHANGED <<rows, nextId, cache, raced>>
  BY <1>3 DEF CreateRoom, Continue, HttpTyped
<1>6. created' \in SUBSET NewRooms /\ aliases' \in SUBSET Channels
  BY <1>2 DEF IInv, TypeOK, CreateRoom
<1> QED BY <1>1, <1>4, <1>5, <1>6, MoveStep

(* A row of the table is a row whoever reads it may rely on.               *)
LEMMA RowIsKnown ==
  ASSUME IInv, NEW w \in rows
  PROVE  Known(w) /\ Excused(w)
  BY DEF IInv, TypeOK, RowsOK, OneToOne, Known, Excused

(* What a handler does with the row it was given, cached or just read.     *)
LEMMA AfterLookupMove ==
  ASSUME IInv, NEW t \in AllTasks, NEW op, NEW h \in Task, AfterLookup(t, op, h)
  PROVE  \E g \in Task : /\ task' = [task EXCEPT ![t] = g] /\ HttpTyped'
                         /\ g.at \in {"done", "alias", "delete"}
                         /\ g.at # "done" => g.row = h.row
<1>1. CASE Answer(t, op, "handled")
  <2>1. PICK g \in Task : g = Idle
    BY IdleIsTask
  <2>2. task' = [task EXCEPT ![t] = g] /\ HttpTyped'
    BY <1>1, <2>1, HttpStatusTyped DEF Answer, HttpTyped
  <2>3. g.at = "done"
    BY <2>1 DEF Idle
  <2> WITNESS g \in Task
  <2> QED BY <2>2, <2>3
<1>2. CASE Continue(t, [h EXCEPT !.at = IF op = "unbridge" THEN "alias" ELSE "delete"])
  <2>1. PICK g : g = [h EXCEPT !.at = IF op = "unbridge" THEN "alias" ELSE "delete"]
    OBVIOUS
  <2>2. g \in Task /\ g.at \in {"alias", "delete"} /\ g.row = h.row
    BY <2>1 DEF Task, At
  <2> QED BY <1>2, <2>1, <2>2 DEF Continue, HttpTyped
<1> QED BY <1>1, <1>2 DEF AfterLookup

LEMMA LookupForStep ==
  ASSUME IInv, NEW t \in AllTasks, NEW h \in Task, LookupFor(t, h),
         h.room \in AllRooms, task[t].at # "evict",
         UNCHANGED <<rows, nextId, cache, created, aliases, raced>>
  PROVE  IInv'
<1>0. created' \in SUBSET NewRooms /\ aliases' \in SUBSET Channels
  BY DEF IInv, TypeOK
<1>1. CASE cache[h.room] # NONE
  <2>1. PICK w : w = cache[h.room]
    OBVIOUS
  <2>2. w \in Row /\ Known(w)
    <3>1. Known(cache[h.room])
      BY <1>1 DEF IInv, CacheOK
    <3> QED BY <3>1, <2>1 DEF Known
  <2>3. PICK k : k = [h EXCEPT !.row = w]
    OBVIOUS
  <2>4. k \in Task /\ k.row = w
    BY <2>2, <2>3 DEF Task
  <2>5. AfterLookup(t, h.op, k)
    BY <1>1, <2>1, <2>3 DEF LookupFor
  <2>6. PICK g \in Task : /\ task' = [task EXCEPT ![t] = g] /\ HttpTyped'
                          /\ g.at \in {"done", "alias", "delete"}
                          /\ g.at # "done" => g.row = k.row
    BY <2>4, <2>5, AfterLookupMove
  <2>7. g.at \in {"fill", "alias", "delete", "evict"} => Known(g.row)
    BY <2>2, <2>4, <2>6
  <2> QED BY <1>0, <2>6, <2>7, MoveStep
<1>2. CASE cache[h.room] = NONE
  <2>1. PICK g : g = [h EXCEPT !.at = "db_read"]
    OBVIOUS
  <2>2. g \in Task /\ g.at = "db_read" /\ g.room \in AllRooms
    BY <2>1 DEF Task, At
  <2>3. task' = [task EXCEPT ![t] = g] /\ HttpTyped'
    BY <1>2, <2>1 DEF LookupFor, Continue, HttpTyped
  <2> QED BY <1>0, <2>2, <2>3, MoveStep
<1> QED BY <1>1, <1>2

LEMMA CachedEventStep ==
  ASSUME IInv, NEW t \in AllTasks, NEW op \in Op, NEW r \in AllRooms, CachedEvent(t, op, r)
  PROVE  IInv'
<1>1. PICK h : h = [Idle EXCEPT !.op = op, !.room = r]
  OBVIOUS
<1>2. h \in Task /\ h.room = r
  BY <1>1, IdleIsTask DEF Task
<1>3. /\ LookupFor(t, h) /\ task[t].at = "done"
      /\ UNCHANGED <<rows, nextId, cache, created, aliases, raced>>
  BY <1>1 DEF CachedEvent
<1> QED BY <1>2, <1>3, LookupForStep

LEMMA RequestUnbridgeStep ==
  ASSUME IInv, NEW t \in AllTasks, NEW r \in AllRooms, RequestUnbridge(t, r)
  PROVE  IInv'
<1>0. PICK h : h = [Idle EXCEPT !.op = "unbridge", !.at = "lookup", !.room = r,
                                !.since = nextId]
  OBVIOUS
<1>1. nextId \in 0..MaxId + 1
  BY MaxIdIsNat DEF IInv, TypeOK
<1>4. h \in Task /\ h.at = "lookup" /\ h.room = r
  BY <1>0, <1>1, IdleIsTask DEF Task, Op, At, Request
<1>2. /\ task' = [task EXCEPT ![t] = h] /\ HttpTyped' /\ task[t].at = "done"
      /\ UNCHANGED <<rows, nextId, cache, created, aliases, raced>>
  BY <1>0 DEF RequestUnbridge, Continue, HttpTyped
<1>3. created' \in SUBSET NewRooms /\ aliases' \in SUBSET Channels
  BY <1>2 DEF IInv, TypeOK
<1> QED BY <1>2, <1>3, <1>4, MoveStep

LEMMA LookupStep ==
  ASSUME IInv, NEW t \in AllTasks, Lookup(t)
  PROVE  IInv'
<1>1. task[t] \in Task /\ HandlerOK(t) /\ task[t].at = "lookup"
  BY DEF IInv, TypeOK, HandlersOK, Lookup
<1>2. task[t].room \in AllRooms
  BY <1>1 DEF HandlerOK
<1>3. LookupFor(t, task[t]) /\ UNCHANGED <<rows, nextId, cache, created, aliases, raced>>
  BY DEF Lookup
<1> QED BY <1>1, <1>2, <1>3, LookupForStep

LEMMA ReadRowStep ==
  ASSUME IInv, NEW t \in AllTasks, ReadRow(t)
  PROVE  IInv'
<1>1. task[t] \in Task /\ HandlerOK(t) /\ task[t].at = "db_read"
  <2>1. task[t].at = "db_read"
    BY DEF ReadRow
  <2>2. QED BY <2>1 DEF IInv, TypeOK, HandlersOK
<1>2. task[t].room \in AllRooms
  BY <1>1 DEF HandlerOK
<1>3. UNCHANGED <<rows, nextId, cache, created, aliases, raced>>
  BY DEF ReadRow
<1>4. created' \in SUBSET NewRooms /\ aliases' \in SUBSET Channels
  BY <1>3 DEF IInv, TypeOK
<1>5. CASE Answer(t, task[t].op, "not_bridged")
  BY <1>1, <1>3, <1>5, AnswerStep
<1>6. ASSUME NEW w \in RowsOfRoom(task[t].room),
             Continue(t, [task[t] EXCEPT !.at = "fill", !.row = w])
      PROVE  IInv'
  <2>1. w \in rows /\ w.room = task[t].room /\ w \in Row
    BY DEF RowsOfRoom, IInv, TypeOK
  <2>2. PICK h : h = [task[t] EXCEPT !.at = "fill", !.row = w]
    OBVIOUS
  <2>3. h \in Task /\ h.at = "fill" /\ h.row = w /\ h.room = task[t].room
    BY <1>1, <2>1, <2>2 DEF Task, At
  <2>4. Known(w) /\ Excused(w)
    BY <2>1, RowIsKnown
  <2>5. task' = [task EXCEPT ![t] = h] /\ HttpTyped'
    BY <1>6, <2>2 DEF Continue, HttpTyped
  <2> QED BY <1>1, <1>2, <1>3, <1>4, <2>1, <2>3, <2>4, <2>5, MoveStep
<1> QED BY <1>5, <1>6 DEF ReadRow

LEMMA SlackUnbridgeStep ==
  ASSUME IInv, NEW c \in Channels, SlackUnbridge(c)
  PROVE  IInv'
<1>0. SlackLoop \in AllTasks /\ task[SlackLoop].at = "done"
  BY DEF AllTasks, SlackUnbridge
<1>1. UNCHANGED <<rows, nextId, cache, created, aliases, raced>>
  BY DEF SlackUnbridge
<1>2. created' \in SUBSET NewRooms /\ aliases' \in SUBSET Channels
  BY <1>1 DEF IInv, TypeOK
<1>3. PICK w \in RowsOfChannel(c) :
         Continue(SlackLoop, [Idle EXCEPT !.op = "slack_unbridge", !.at = "delete",
                                          !.chan = c, !.row = w, !.since = nextId])
  BY DEF SlackUnbridge
<1>4. w \in rows /\ w \in Row /\ nextId \in 0..MaxId + 1
  BY MaxIdIsNat DEF RowsOfChannel, IInv, TypeOK
<1>5. PICK h : h = [Idle EXCEPT !.op = "slack_unbridge", !.at = "delete",
                                !.chan = c, !.row = w, !.since = nextId]
  OBVIOUS
<1>6. h \in Task /\ h.at = "delete" /\ h.row = w
  BY <1>4, <1>5, IdleIsTask DEF Task, Op, At, Request
<1>7. task' = [task EXCEPT ![SlackLoop] = h] /\ HttpTyped'
  BY <1>3, <1>5 DEF Continue, HttpTyped
<1>8. Known(w)
  BY <1>4, RowIsKnown
<1> QED BY <1>0, <1>1, <1>2, <1>6, <1>7, <1>8, MoveStep

LEMMA FailStep ==
  ASSUME IInv, NEW t \in AllTasks, Fail(t)
  PROVE  IInv'
<1>1. /\ task[t].at # "evict" /\ Answer(t, task[t].op, "error")
      /\ UNCHANGED <<rows, nextId, cache, created, aliases, raced>>
  BY DEF Fail
<1> QED BY <1>1, AnswerStep

-----------------------------------------------------------------------------
(* A new row gets an id above every known one, so no copy changes meaning. *)
LEMMA InsertStep ==
  ASSUME IInv, NEW t \in AllTasks, Insert(t)
  PROVE  IInv'
<1> DEFINE w == [id |-> nextId, room |-> task[t].room, chan |-> task[t].chan]
<1>1. task[t] \in Task /\ HandlerOK(t) /\ task[t].at = "insert"
  BY DEF IInv, TypeOK, HandlersOK, Insert
<1>2. task[t].room \in AllRooms /\ task[t].chan \in Channels
  BY <1>1 DEF HandlerOK
<1>3. CASE UNCHANGED <<rows, nextId>> /\ Answer(t, task[t].op, "error")
  <2>1. UNCHANGED <<rows, nextId, cache, created, aliases, raced>>
    BY <1>3 DEF Insert
  <2> QED BY <1>1, <1>3, <2>1, AnswerStep
<1>4. CASE /\ RowsOfRoom(w.room) \cup RowsOfChannel(w.chan) = {} /\ nextId <= MaxId
           /\ rows' = rows \cup {w} /\ nextId' = nextId + 1
           /\ Answer(t, task[t].op, "bridged")
  <2>1. PICK v : v = w
    OBVIOUS
  <2>2. /\ v \in Row /\ v.id = nextId /\ v.room = task[t].room /\ v.chan = task[t].chan
        /\ nextId \in Nat /\ nextId' \in 1..MaxId + 1
    BY <1>2, <1>4, <2>1, MaxIdIsNat DEF Row, IInv, TypeOK
  <2>3. rows' = rows \cup {v} /\ \A u \in rows : u.room # v.room /\ u.chan # v.chan
    BY <1>4, <2>1 DEF RowsOfRoom, RowsOfChannel
  <2>4. \A u \in rows : u \in Row /\ u.id \in Nat /\ u.id < nextId
    BY DEF IInv, TypeOK, RowsOK, Row
  <2>5. UNCHANGED <<cache, created, aliases, raced>>
    BY DEF Insert
  <2>6. PICK h \in Task : h = Idle
    BY IdleIsTask
  <2>7. h.at = "done" /\ task' = [task EXCEPT ![t] = h] /\ HttpTyped'
    BY <1>4, <2>6, HttpStatusTyped DEF Answer, HttpTyped, Idle
  <2> HIDE DEF w
  <2>8. TypeOK'
    BY <2>2, <2>3, <2>5, <2>7 DEF IInv, TypeOK, HttpTyped
  <2>9. RowsOK' /\ OneToOne'
    BY <1>4, <2>2, <2>3, <2>4 DEF IInv, RowsOK, OneToOne
  <2>10. \A u \in Row : Known(u) => Known(u)'
    BY <1>4, <2>2, <2>3, KnownKept
  <2>11. \A u \in Row : Excused(u) => Excused(u)'
    BY <1>1, <2>3, <2>5, <2>7, ExcusedKept
  <2>12. HandlersOK' /\ CacheOK'
    BY <2>5, <2>7, <2>10, <2>11, HandlersKept, CacheKept
  <2> QED BY <2>8, <2>9, <2>12 DEF IInv
<1> QED BY <1>3, <1>4 DEF Insert

(* Filling the cache after the await: the copy is excused because Evict    *)
(* excuses every copy that was on its way when it ran.                     *)
LEMMA FillStep ==
  ASSUME IInv, NEW t \in AllTasks, Fill(t)
  PROVE  IInv'
<1>1. task[t] \in Task /\ HandlerOK(t) /\ task[t].at = "fill"
  BY DEF IInv, TypeOK, HandlersOK, Fill
<1>2. PICK w : w = task[t].row
  OBVIOUS
<1>3. task[t].room \in AllRooms /\ w.room = task[t].room /\ Known(w) /\ Excused(w) /\ w \in Row
  <2>1. Known(task[t].row) /\ Excused(task[t].row)
    BY <1>1 DEF HandlerOK
  <2> QED BY <1>1, <1>2, <2>1 DEF HandlerOK, Known, Excused
<1>4. /\ cache' = [cache EXCEPT ![task[t].room] = w]
      /\ UNCHANGED <<rows, nextId, created, aliases, raced>>
  BY <1>2 DEF Fill
<1>5. PICK h \in Task : /\ task' = [task EXCEPT ![t] = h] /\ HttpTyped'
                        /\ h.at \in {"done", "alias", "delete"}
                        /\ h.at # "done" => h.row = w
  <2>1. AfterLookup(t, task[t].op, task[t])
    BY DEF Fill
  <2> QED BY <1>1, <1>2, <2>1, AfterLookupMove
<1>6. TypeOK'
  BY <1>3, <1>4, <1>5 DEF IInv, TypeOK, HttpTyped
<1>7. RowsOK' /\ OneToOne'
  BY <1>4 DEF IInv, RowsOK, OneToOne
<1>8. \A u \in Row : Excused(u) => Excused(u)'
  BY <1>1, <1>4, <1>5, ExcusedKept
<1>9. \A u \in Row : Known(u) => Known(u)'
  BY <1>4 DEF Known
<1>10. CacheOK'
  <2> SUFFICES ASSUME NEW r \in AllRooms, cache'[r] # NONE
               PROVE  cache'[r].room = r /\ Known(cache[r])' /\ Excused(cache[r])'
    BY DEF CacheOK, Known, Excused
  <2>1. PICK c : c = cache'[r]
    OBVIOUS
  <2>2. c.room = r /\ Known(c) /\ Excused(c)
    <3>1. CASE r = task[t].room
      <4>1. c = w
        BY <1>3, <1>4, <2>1, <3>1 DEF IInv, TypeOK
      <4> QED BY <1>3, <3>1, <4>1
    <3>2. CASE r # task[t].room
      <4>1. c = cache[r] /\ c # NONE
        BY <1>4, <2>1, <3>2 DEF IInv, TypeOK
      <4>2. cache[r].room = r /\ Known(cache[r]) /\ Excused(cache[r])
        BY <4>1 DEF IInv, CacheOK
      <4> QED BY <4>1, <4>2 DEF Known, Excused
    <3> QED BY <3>1, <3>2
  <2>3. Known(c)' /\ Excused(c)'
    BY <2>2, <1>8, <1>9 DEF Known
  <2> QED BY <2>1, <2>2, <2>3 DEF Known, Excused
<1>11. HandlersOK'
  BY <1>3, <1>5, <1>8, <1>9, HandlersKept
<1> QED BY <1>6, <1>7, <1>10, <1>11 DEF IInv

(* A deleted row that is still cached is excused by the task that deleted  *)
(* it, which now stands before its eviction.                               *)
LEMMA DeleteStep ==
  ASSUME IInv, NEW t \in AllTasks, Delete(t)
  PROVE  IInv'
<1>1. task[t] \in Task /\ HandlerOK(t) /\ task[t].at = "delete"
  BY DEF IInv, TypeOK, HandlersOK, Delete
<1>2. PICK w : w = task[t].row
  OBVIOUS
<1>3. Known(w) /\ w \in Row
  <2>1. Known(task[t].row)
    BY <1>1 DEF HandlerOK
  <2> QED BY <1>2, <2>1 DEF Known
<1>4. PICK h : h = [task[t] EXCEPT !.at = "evict"]
  OBVIOUS
<1>5. h \in Task /\ h.at = "evict" /\ h.row = w
  BY <1>1, <1>2, <1>4 DEF Task, At
<1>6. /\ rows' = {v \in rows : v.id # w.id} /\ task' = [task EXCEPT ![t] = h] /\ HttpTyped'
      /\ UNCHANGED <<nextId, cache, created, aliases, raced>>
  BY <1>2, <1>4 DEF Delete, Goto, Continue, HttpTyped
<1>7. TypeOK'
  BY <1>5, <1>6 DEF IInv, TypeOK, HttpTyped
<1>8. RowsOK' /\ OneToOne'
  BY <1>6 DEF IInv, RowsOK, OneToOne
<1>9. \A u \in Row : Known(u) => Known(u)'
  BY <1>6 DEF Known
<1>10. ASSUME NEW u, Excused(u) PROVE Excused(u)'
  <2>1. CASE u \in rows /\ u.id = w.id
    <3>1. u = w
      BY <1>3, <2>1 DEF Known
    <3>2. task'[t].at = "evict" /\ task'[t].row.room = u.room
      BY <1>5, <1>6, <3>1 DEF IInv, TypeOK
    <3> QED BY <3>2 DEF Excused
  <2>2. CASE u \in raced \/ (u \in rows /\ u.id # w.id)
    BY <1>6, <2>2 DEF Excused
  <2>3. ASSUME NEW q \in AllTasks, task[q].at = "evict", task[q].row.room = u.room
        PROVE  Excused(u)'
    <3>1. task'[q] = task[q]
      BY <1>1, <1>6, <2>3 DEF IInv, TypeOK
    <3> QED BY <2>3, <3>1 DEF Excused
  <2>4. CASE u \in rows \cup raced
    BY <2>1, <2>2, <2>4
  <2> QED BY <1>10, <2>3, <2>4 DEF Excused
<1>11. HandlersOK' /\ CacheOK'
  BY <1>3, <1>5, <1>6, <1>9, <1>10, HandlersKept, CacheKept
<1> QED BY <1>7, <1>8, <1>11 DEF IInv

(* Eviction ends the excuse of its task, for a room whose entry it empties *)
(* and whose copies under way it records.                                  *)
LEMMA EvictStep ==
  ASSUME IInv, NEW t \in AllTasks, Evict(t)
  PROVE  IInv'
<1>1. task[t] \in Task /\ HandlerOK(t) /\ task[t].at = "evict"
  BY DEF IInv, TypeOK, HandlersOK, Evict
<1>2. PICK x : x = task[t].row.room
  OBVIOUS
<1>3. PICK h \in Task : h = Idle
  BY IdleIsTask
<1>4. h.at = "done" /\ task' = [task EXCEPT ![t] = h] /\ HttpTyped'
  <2>1. Answer(t, task[t].op, "unbridged")
    BY DEF Evict
  <2> QED BY <1>3, <2>1, HttpStatusTyped DEF Answer, HttpTyped, Idle
<1>5. /\ cache' = [cache EXCEPT ![x] = NONE]
      /\ raced' = raced \cup {task[q].row : q \in {p \in AllTasks : task[p].at = "fill" /\ task[p].room = x}}
      /\ UNCHANGED <<rows, nextId, created, aliases>>
  BY <1>2 DEF Evict
<1>6. \A q \in AllTasks : task[q].at = "fill" => task[q].row \in Row /\ task[q].row.room = task[q].room
  BY DEF IInv, HandlersOK, HandlerOK, Known
<1>7. TypeOK'
  <2>1. raced' \in SUBSET Row
    BY <1>5, <1>6 DEF IInv, TypeOK
  <2>2. cache' \in [AllRooms -> Row \cup {NONE}]
    BY <1>5 DEF IInv, TypeOK
  <2> QED BY <1>4, <1>5, <2>1, <2>2 DEF IInv, TypeOK, HttpTyped
<1>8. RowsOK' /\ OneToOne'
  BY <1>5 DEF IInv, RowsOK, OneToOne
<1>9. ASSUME NEW u, Known(u) PROVE Known(u)'
  BY <1>5, <1>9 DEF Known
<1>10. ASSUME NEW u, Excused(u), u.room # x PROVE Excused(u)'
  <2>1. CASE u \in rows \cup raced
    BY <1>5, <2>1 DEF Excused
  <2>2. ASSUME NEW q \in AllTasks, task[q].at = "evict", task[q].row.room = u.room
        PROVE  Excused(u)'
    <3>1. task'[q] = task[q]
      BY <1>2, <1>4, <1>10, <2>2 DEF IInv, TypeOK
    <3> QED BY <2>2, <3>1 DEF Excused
  <2> QED BY <1>10, <2>1, <2>2 DEF Excused
<1>11. CacheOK'
  <2> SUFFICES ASSUME NEW r \in AllRooms, cache'[r] # NONE
               PROVE  cache'[r].room = r /\ Known(cache[r])' /\ Excused(cache[r])'
    BY DEF CacheOK, Known, Excused
  <2>1. PICK c : c = cache[r]
    OBVIOUS
  <2>2. r # x /\ cache'[r] = c
    BY <1>5, <2>1 DEF IInv, TypeOK
  <2>3. c.room = r /\ Known(c) /\ Excused(c)
    <3>1. cache[r].room = r /\ Known(cache[r]) /\ Excused(cache[r])
      BY <2>1, <2>2 DEF IInv, CacheOK
    <3> QED BY <2>1, <3>1 DEF Known, Excused
  <2>4. Known(c)' /\ Excused(c)'
    BY <2>2, <2>3, <1>9, <1>10
  <2> QED BY <2>2, <2>3, <2>4 DEF Known, Excused
<1>12. HandlersOK'
  <2> SUFFICES ASSUME NEW s \in AllTasks PROVE HandlerOK(s)'
    BY DEF HandlersOK, HandlerOK, Known, Excused
  <2>1. CASE s = t
    <3>1. task'[s].at = "done"
      BY <1>4, <2>1 DEF IInv, TypeOK
    <3> QED BY <3>1 DEF HandlerOK
  <2>2. CASE s # t
    <3>1. task'[s] = task[s] /\ HandlerOK(s)
      BY <1>4, <2>2 DEF IInv, TypeOK, HandlersOK
    <3>2. task[s].at = "fill" => Excused(task[s].row)'
      <4> SUFFICES ASSUME task[s].at = "fill" PROVE Excused(task[s].row)'
        BY DEF Excused
      <4>1. PICK w : w = task[s].row
        OBVIOUS
      <4>2. CASE w.room = x
        <5>1. w \in raced'
          BY <1>5, <1>6, <4>1, <4>2
        <5> QED BY <3>1, <4>1, <5>1 DEF Excused
      <4>3. CASE w.room # x
        <5>1. Excused(task[s].row)
          BY <3>1 DEF HandlerOK
        <5>2. Excused(w)
          BY <4>1, <5>1 DEF Excused
        <5>3. Excused(w)'
          BY <4>3, <5>2, <1>10
        <5> QED BY <3>1, <4>1, <5>3 DEF Excused
      <4> QED BY <4>2, <4>3
    <3> QED BY <3>1, <3>2, <1>9 DEF HandlerOK, Known, Excused
  <2> QED BY <2>1, <2>2
<1> QED BY <1>7, <1>8, <1>11, <1>12 DEF IInv

LEMMA ExpireStep ==
  ASSUME IInv, NEW x \in AllRooms, Expire(x)
  PROVE  IInv'
<1>1. /\ cache' = [cache EXCEPT ![x] = NONE] /\ http' = NONE
      /\ UNCHANGED <<rows, nextId, task, created, aliases, raced>>
  BY DEF Expire
<1>2. TypeOK' /\ RowsOK' /\ OneToOne'
  BY <1>1 DEF IInv, TypeOK, RowsOK, OneToOne
<1>3. CacheOK'
  BY <1>1 DEF IInv, TypeOK, CacheOK, Known, Excused
<1>4. HandlersOK'
  BY <1>1 DEF IInv, HandlersOK, HandlerOK, Known, Excused
<1> QED BY <1>2, <1>3, <1>4 DEF IInv

LEMMA CrashStep ==
  ASSUME IInv, Crash
  PROVE  IInv'
<1>1. PICK h \in Task : h = Idle
  BY IdleIsTask
<1>2. /\ task' = [t \in AllTasks |-> h] /\ cache' = [r \in AllRooms |-> NONE]
      /\ raced' = {} /\ http' = NONE /\ UNCHANGED <<rows, nextId, created, aliases>>
  BY <1>1 DEF Crash
<1>3. h.at = "done"
  BY <1>1 DEF Idle
<1>4. TypeOK' /\ RowsOK' /\ OneToOne'
  BY <1>2 DEF IInv, TypeOK, RowsOK, OneToOne
<1>5. CacheOK' /\ HandlersOK'
  BY <1>2, <1>3 DEF CacheOK, HandlersOK, HandlerOK
<1> QED BY <1>4, <1>5 DEF IInv

(* A step that changes nothing.                                            *)
LEMMA StutterStep ==
  ASSUME IInv, UNCHANGED vars
  PROVE  IInv'
  BY DEF IInv, TypeOK, RowsOK, OneToOne, HandlersOK, HandlerOK, CacheOK, Known, Excused, vars

LEMMA NextIInv == IInv /\ [Next]_vars => IInv'
<1> SUFFICES ASSUME IInv, [Next]_vars PROVE IInv'
  OBVIOUS
<1>1. Rooms \cup created \subseteq AllRooms /\ Tasks \subseteq AllTasks /\ Request \subseteq Op
  BY DEF IInv, TypeOK, AllRooms, AllTasks, Op
<1>2. ASSUME NEW t \in Tasks, NEW r \in Rooms \cup created, MatrixRequest(t, r) PROVE IInv'
  <2>1. r \in AllRooms /\ t \in AllTasks
    BY <1>1
  <2>2. ASSUME NEW c \in Channels, RequestBridge(t, r, c) PROVE IInv'
    BY <2>1, <2>2, RequestBridgeStep
  <2>3. ASSUME NEW c \in Channels, WebBridge(t, r, c) PROVE IInv'
    BY <2>1, <2>3, WebBridgeStep
  <2>4. ASSUME NEW op \in Op, CachedEvent(t, op, r) PROVE IInv'
    BY <2>1, <2>4, CachedEventStep
  <2>5. CASE RequestUnbridge(t, r)
    BY <2>1, <2>5, RequestUnbridgeStep
  <2> QED BY <1>1, <1>2, <2>2, <2>3, <2>4, <2>5 DEF MatrixRequest, Request
<1>3. ASSUME NEW c \in Channels, SlackRequest(c) PROVE IInv'
  BY <1>3, SlackBridgeStep, SlackUnbridgeStep DEF SlackRequest
<1>4. ASSUME NEW n \in NewRooms \ created, CreateRoom(n) PROVE IInv'
  BY <1>4, CreateRoomStep
<1>5. ASSUME NEW t \in AllTasks, TaskStep(t) PROVE IInv'
  BY <1>5, PermissionStep, CheckChannelStep, InsertStep, LookupStep, ReadRowStep, FillStep,
     DropAliasStep, DeleteStep, EvictStep DEF TaskStep
<1>6. ASSUME NEW t \in AllTasks, Fail(t) PROVE IInv'
  BY <1>6, FailStep
<1>7. ASSUME NEW r \in AllRooms, Expire(r) PROVE IInv'
  BY <1>7, ExpireStep
<1> QED BY <1>2, <1>3, <1>4, <1>5, <1>6, <1>7, CrashStep, StutterStep DEF Next

(* What each handler may rely on holds in every reachable state.           *)
THEOREM RegistryInvariance == Spec => []IInv
<1>1. Init => IInv
  BY InitIInv
<1>2. IInv /\ [Next]_vars => IInv'
  BY NextIInv
<1> QED BY <1>1, <1>2, PTL DEF Spec

(* Every variable keeps its type: no handler inserts, caches or evicts     *)
(* before it has the room, channel or row to do it with.                   *)
THEOREM RegistryTypeCorrect == Spec => []TypeOK
<1>1. IInv => TypeOK
  BY DEF IInv
<1> QED BY <1>1, RegistryInvariance, PTL

(* room_mappings is one to one for any number of concurrent handlers.      *)
THEOREM MappingIsOneToOne == Spec => []OneToOne
<1>1. IInv => OneToOne
  BY DEF IInv
<1> QED BY <1>1, RegistryInvariance, PTL

(* The cache outlives a row only until the eviction that its deletion owes *)
(* or through a copy that was read before that eviction.                   *)
THEOREM CacheIsExcused == Spec => []StaleOnlyByRace
<1>1. IInv => StaleOnlyByRace
  <2> SUFFICES ASSUME IInv, NEW r \in AllRooms, cache[r] # NONE
               PROVE  \/ cache[r] \in rows \cup raced
                      \/ \E t \in AllTasks : task[t].at = "evict" /\ task[t].row.room = r
    BY DEF StaleOnlyByRace
  <2>1. cache[r].room = r /\ Excused(cache[r])
    BY DEF IInv, CacheOK
  <2> QED BY <2>1 DEF Excused
<1> QED BY <1>1, RegistryInvariance, PTL

-----------------------------------------------------------------------------
(* How one step changes the table.                                         *)
LEMMA TableStep ==
  ASSUME IInv, Next
  PROVE  /\ \A w \in rows' : w \in rows \/ w.id = nextId
         /\ nextId \in Nat /\ nextId' \in Nat /\ nextId <= nextId'
         /\ rows \subseteq rows' \/ \E t \in AllTasks : Delete(t)
<1>1. nextId \in Nat
  BY MaxIdIsNat DEF IInv, TypeOK
<1>2. CASE UNCHANGED <<rows, nextId>>
  BY <1>1, <1>2
<1>3. ASSUME NEW t \in AllTasks, Insert(t), ~UNCHANGED <<rows, nextId>>
      PROVE  \E w : w.id = nextId /\ rows' = rows \cup {w} /\ nextId' = nextId + 1
  BY <1>3 DEF Insert
<1>4. ASSUME NEW t \in AllTasks, Delete(t)
      PROVE  rows' \subseteq rows /\ nextId' = nextId
  BY <1>4 DEF Delete
<1>5. \/ UNCHANGED <<rows, nextId>>
      \/ \E t \in AllTasks : Insert(t) \/ Delete(t)
  BY DEF Next, MatrixRequest, SlackRequest, TaskStep, RequestBridge, WebBridge, CachedEvent,
         RequestUnbridge, SlackBridge, SlackUnbridge, CreateRoom, Permission, CheckChannel,
         Lookup, ReadRow, Fill, DropAlias, Evict, Fail, Expire, Crash
<1> QED BY <1>1, <1>2, <1>3, <1>4, <1>5

(* A handler removes the very row it was shown: ids are not used again, so *)
(* a stale copy can match nothing but the row it is a copy of.             *)
THEOREM RemovesWhatItSaw == Spec => DeletesOnlyWhatWasSeen
<1> DEFINE Seen == \A w \in rows \ rows' :
                      \E t \in AllTasks : task[t].at = "delete" /\ task[t].row = w
<1>1. IInv /\ [Next]_vars => [Seen]_vars
  <2> SUFFICES ASSUME IInv, Next, NEW w \in rows \ rows'
               PROVE  \E t \in AllTasks : task[t].at = "delete" /\ task[t].row = w
    OBVIOUS
  <2>1. PICK t \in AllTasks : Delete(t)
    BY TableStep
  <2>2. task[t].at = "delete" /\ w.id = task[t].row.id
    BY <2>1 DEF Delete
  <2>3. Known(task[t].row)
    BY <2>2 DEF IInv, HandlersOK, HandlerOK
  <2> QED BY <2>2, <2>3 DEF Known
<1> QED BY <1>1, RegistryInvariance, PTL DEF Spec, DeletesOnlyWhatWasSeen

-----------------------------------------------------------------------------
(* The socket task: it handles one event at a time, and what its unbridge  *)
(* finds of the rows that were there at its start is the one it was shown. *)
SlackOK ==
    /\ task[SlackLoop].at \in {"done", "create", "insert", "delete", "evict"}
    /\ "slack_bridge" \notin Served => task[SlackLoop].at \notin {"create", "insert"}
    /\ task[SlackLoop].at \in {"delete", "evict"} =>
          /\ task[SlackLoop].since <= nextId
          /\ \A w \in rows :
                w.chan = task[SlackLoop].chan /\ w.id < task[SlackLoop].since =>
                   task[SlackLoop].at = "delete" /\ w = task[SlackLoop].row

LEMMA InitSlackOK == Init => SlackOK
  BY DEF Init, SlackOK, Idle, AllTasks

(* Steps of other tasks only take rows away or add one with a new id.      *)
LEMMA SlackKept ==
  ASSUME IInv, SlackOK, Next, task'[SlackLoop] = task[SlackLoop]
  PROVE  SlackOK'
<1>1. task[SlackLoop].since \in Nat
  BY DEF IInv, TypeOK, Task, AllTasks
<1>2. \A w \in rows : w.id \in Nat
  BY DEF IInv, TypeOK, Row
<1> QED BY <1>1, <1>2, TableStep DEF SlackOK

(* Each handler says where it goes next.                                   *)
LEMMA Moves ==
  ASSUME IInv, NEW t \in AllTasks, NEW h, task' = [task EXCEPT ![t] = h]
  PROVE  task'[t] = h /\ \A s \in AllTasks \ {t} : task'[s] = task[s]
  BY DEF IInv, TypeOK

(* Only the actions of a task, and a restart, change its handler.          *)
LEMMA OwnSteps ==
  ASSUME IInv, Next, NEW s \in AllTasks, task'[s] # task[s]
  PROVE  \/ TaskStep(s) \/ Fail(s) \/ Crash
         \/ s \in Tasks /\ \E r \in AllRooms : MatrixRequest(s, r)
         \/ s = SlackLoop /\ \E c \in Channels : SlackRequest(c)
         \/ s = SlackLoop /\ \E n \in NewRooms : CreateRoom(n)
<1>1. ASSUME NEW t \in AllTasks, NEW op, NEW reply, Answer(t, op, reply) PROVE s = t
  BY <1>1, Moves DEF Answer
<1>2. ASSUME NEW t \in AllTasks, NEW h, Continue(t, h) PROVE s = t
  BY <1>2, Moves DEF Continue
<1>3. ASSUME NEW t \in AllTasks, NEW h, LookupFor(t, h) PROVE s = t
  BY <1>1, <1>2, <1>3 DEF LookupFor, AfterLookup
<1>4. ASSUME NEW t \in AllTasks, NEW h, EnterBridge(t, h) PROVE s = t
  BY <1>1, <1>2, <1>4 DEF EnterBridge
<1>5. ASSUME NEW t \in AllTasks, TaskStep(t) \/ Fail(t) PROVE s = t
  BY <1>1, <1>2, <1>3, <1>4, <1>5
  DEF TaskStep, Permission, CheckChannel, Insert, Lookup, ReadRow, Fill, AfterLookup,
      DropAlias, Delete, Evict, Fail, Goto
<1>6. ASSUME NEW t \in Tasks, NEW r \in Rooms \cup created, MatrixRequest(t, r)
      PROVE  s = t /\ r \in AllRooms
  <2>1. t \in AllTasks /\ r \in AllRooms
    BY DEF AllTasks, AllRooms, IInv, TypeOK
  <2> QED BY <1>2, <1>3, <1>4, <1>6, <2>1
          DEF MatrixRequest, RequestBridge, WebBridge, CachedEvent, RequestUnbridge
<1>7. SlackLoop \in AllTasks
  BY DEF AllTasks
<1>8. ASSUME NEW c \in Channels, SlackRequest(c) PROVE s = SlackLoop
  BY <1>2, <1>7, <1>8 DEF SlackRequest, SlackBridge, SlackUnbridge
<1>9. ASSUME NEW n \in NewRooms, CreateRoom(n) PROVE s = SlackLoop
  BY <1>2, <1>7, <1>9 DEF CreateRoom
<1>10. ~ \E r \in AllRooms : Expire(r)
  BY DEF Expire
<1> QED BY <1>5, <1>6, <1>8, <1>9, <1>10 DEF Next

LEMMA SlackStep ==
  ASSUME IInv, SlackOK, Next
  PROVE  SlackOK'
<1> DEFINE k == task[SlackLoop]
<1>1. SlackLoop \in AllTasks /\ SlackLoop \notin Tasks /\ k \in Task
  BY SlackLoopApart DEF AllTasks, IInv, TypeOK
<1>2. CASE task'[SlackLoop] = k
  BY <1>2, SlackKept
<1>3. CASE k' # k
  <2>1. ASSUME NEW op, NEW reply, Answer(SlackLoop, op, reply) PROVE SlackOK'
    <3>1. PICK h : h = Idle
      OBVIOUS
    <3>2. task'[SlackLoop] = h /\ h.at = "done"
      BY <1>1, <2>1, <3>1, Moves DEF Answer, Idle
    <3> QED BY <3>2 DEF SlackOK
  <2>2. ASSUME NEW c \in Channels, SlackBridge(c), "slack_bridge" \in Served PROVE SlackOK'
    <3>1. PICK h : h = [Idle EXCEPT !.op = "slack_bridge", !.at = "create", !.chan = c]
      OBVIOUS
    <3>2. h.at = "create" /\ task'[SlackLoop] = h
      BY <1>1, <2>2, <3>1, Moves, IdleIsTask DEF SlackBridge, Continue, Task
    <3> QED BY <2>2, <3>2 DEF SlackOK
  <2>3. ASSUME NEW n \in NewRooms, CreateRoom(n) PROVE SlackOK'
    <3>1. PICK h : h = [k EXCEPT !.at = "insert", !.room = n]
      OBVIOUS
    <3>2. h.at = "insert" /\ task'[SlackLoop] = h /\ k.at = "create"
      BY <1>1, <2>3, <3>1, Moves DEF CreateRoom, Continue, Task
    <3> QED BY <3>2 DEF SlackOK
  <2>4. ASSUME NEW c \in Channels, SlackUnbridge(c) PROVE SlackOK'
    <3>1. PICK w \in RowsOfChannel(c) :
             Continue(SlackLoop, [Idle EXCEPT !.op = "slack_unbridge", !.at = "delete",
                                              !.chan = c, !.row = w, !.since = nextId])
      BY <2>4 DEF SlackUnbridge
    <3>2. PICK h : h = [Idle EXCEPT !.op = "slack_unbridge", !.at = "delete",
                                    !.chan = c, !.row = w, !.since = nextId]
      OBVIOUS
    <3>3. h.at = "delete" /\ h.chan = c /\ h.row = w /\ h.since = nextId
      BY <3>2, IdleIsTask DEF Task
    <3>4. task'[SlackLoop] = h /\ rows' = rows /\ nextId' = nextId /\ nextId \in Nat
      BY <1>1, <2>4, <3>1, <3>2, Moves, TableStep DEF SlackUnbridge, Continue
    <3>5. w \in rows /\ \A v \in rows : v.chan = c => v = w
      BY DEF RowsOfChannel, IInv, OneToOne
    <3> QED BY <3>3, <3>4, <3>5 DEF SlackOK
  <2>5. ASSUME Delete(SlackLoop) PROVE SlackOK'
    <3>1. PICK h : h = [k EXCEPT !.at = "evict"]
      OBVIOUS
    <3>2. /\ h.at = "evict" /\ h.chan = k.chan /\ h.row = k.row /\ h.since = k.since
          /\ task'[SlackLoop] = h
      BY <1>1, <2>5, <3>1, Moves DEF Delete, Goto, Continue, Task
    <3>3. k.at = "delete" /\ rows' = {w \in rows : w.id # k.row.id} /\ nextId' = nextId
      BY <2>5 DEF Delete
    <3> QED BY <3>2, <3>3 DEF SlackOK
  <2>6. CASE TaskStep(SlackLoop)
    <3>1. k.at \in {"done", "create", "insert", "delete", "evict"}
      BY DEF SlackOK
    <3>2. Insert(SlackLoop) \/ Delete(SlackLoop) \/ Evict(SlackLoop)
      BY <2>6, <3>1
      DEF TaskStep, Permission, CheckChannel, Lookup, ReadRow, Fill, DropAlias
    <3> QED BY <3>2, <2>1, <2>5 DEF Insert, Evict
  <2>7. CASE Fail(SlackLoop)
    BY <2>1, <2>7 DEF Fail
  <2>8. CASE Crash
    <3>1. task'[SlackLoop].at = "done"
      BY <1>1, <2>8 DEF Crash, Idle
    <3> QED BY <3>1 DEF SlackOK
  <2>9. ASSUME NEW c \in Channels, SlackRequest(c) PROVE SlackOK'
    BY <2>2, <2>4, <2>9 DEF SlackRequest
  <2> QED BY <1>1, <1>3, <2>3, <2>6, <2>7, <2>8, <2>9, OwnSteps
<1> QED BY <1>2, <1>3

THEOREM SlackInvariance == Spec => []SlackOK
<1>1. Init => SlackOK
  BY InitSlackOK
<1>2. IInv /\ SlackOK /\ [Next]_vars => SlackOK'
  <2>1. CASE UNCHANGED vars
    BY <2>1 DEF SlackOK, vars
  <2> QED BY <2>1, SlackStep
<1> QED BY <1>1, <1>2, RegistryInvariance, PTL DEF Spec

(* When Slack is told that the channel has been unbridged, no row that was *)
(* there when `!matrix unbridge` arrived is left for it.                   *)
THEOREM SlackIsToldTheTruth == Spec => SlackUnbridgeIsTrue
<1> DEFINE Told == Evict(SlackLoop) =>
                     \A w \in RowsOfChannel(task[SlackLoop].chan) :
                        w.id >= task[SlackLoop].since
<1>1. IInv /\ SlackOK /\ [Next]_vars => [Told]_vars
  <2> SUFFICES ASSUME IInv, SlackOK, Evict(SlackLoop),
                      NEW w \in RowsOfChannel(task[SlackLoop].chan)
               PROVE  w.id >= task[SlackLoop].since
    OBVIOUS
  <2>1. w \in rows /\ w.chan = task[SlackLoop].chan /\ w.id \in Nat
    BY DEF RowsOfChannel, IInv, TypeOK, Row
  <2>2. task[SlackLoop].since \in Nat
    BY DEF IInv, TypeOK, Task, AllTasks
  <2>3. task[SlackLoop].at = "evict"
    BY DEF Evict
  <2> QED BY <2>1, <2>2, <2>3 DEF SlackOK
<1> QED BY <1>1, RegistryInvariance, SlackInvariance, PTL DEF Spec, SlackUnbridgeIsTrue

-----------------------------------------------------------------------------
(* Tasks that have passed check_room_limit and may still insert.           *)
Admitted == {t \in AllTasks : task[t].at \in {"chan", "insert"}}

(* Every row, and every row that may yet come of a check already passed,   *)
(* is below the limit plus the number of tasks.                            *)
AdmittedBounded ==
    /\ IsFiniteSet(rows)
    /\ Cardinality(rows) + Cardinality(Admitted) < RoomLimit + Cardinality(Tasks)

LEMMA StaysOut ==
  ASSUME IInv, NEW t \in AllTasks, NEW h, task' = [task EXCEPT ![t] = h],
         h.at \in {"chan", "insert"} => task[t].at \in {"chan", "insert"}
  PROVE  Admitted' \subseteq Admitted
  BY Moves DEF Admitted

LEMMA AnswerStaysOut ==
  ASSUME IInv, NEW t \in AllTasks, NEW op, NEW reply, Answer(t, op, reply)
  PROVE  Admitted' \subseteq Admitted /\ t \notin Admitted'
<1>1. PICK h : h = Idle
  OBVIOUS
<1>2. h.at = "done" /\ task' = [task EXCEPT ![t] = h]
  BY <1>1 DEF Answer, Idle
<1> QED BY <1>2, StaysOut, Moves DEF Admitted

(* What a step does to the count: it keeps it, or it starts below the      *)
(* limit, or it trades an admitted task for a row.                         *)
Keeps == rows' \subseteq rows /\ Admitted' \subseteq Admitted

Admits == rows' = rows /\ ~OverLimit

Trades == \E t \in Admitted, w \in rows' :
             rows' = rows \cup {w} /\ Admitted' \subseteq Admitted \ {t}

LEMMA EntryStep ==
  ASSUME IInv, NEW t \in AllTasks, NEW h, EnterBridge(t, h), rows' = rows
  PROVE  Keeps \/ Admits
  BY AnswerStaysOut DEF EnterBridge, Keeps, Admits

LEMMA LookupKeeps ==
  ASSUME IInv, NEW t \in AllTasks, NEW h \in Task, LookupFor(t, h), h.room \in AllRooms,
         rows' = rows
  PROVE  Keeps
<1>1. ASSUME NEW g \in Task, NEW op, AfterLookup(t, op, g) PROVE Keeps
  <2>1. PICK k \in Task : /\ task' = [task EXCEPT ![t] = k]
                          /\ k.at \in {"done", "alias", "delete"}
    BY <1>1, AfterLookupMove
  <2>2. Admitted' \subseteq Admitted
    BY <2>1, StaysOut
  <2> QED BY <2>2 DEF Keeps
<1>2. CASE cache[h.room] # NONE
  <2>1. PICK w : w = cache[h.room]
    OBVIOUS
  <2>2. AfterLookup(t, h.op, [h EXCEPT !.row = w])
    BY <1>2, <2>1 DEF LookupFor
  <2>3. PICK g : g = [h EXCEPT !.row = w]
    OBVIOUS
  <2>4. g \in Task
    BY <2>1, <2>3 DEF IInv, TypeOK, Task
  <2> QED BY <1>1, <2>2, <2>3, <2>4
<1>3. CASE cache[h.room] = NONE
  <2>1. PICK g : g = [h EXCEPT !.at = "db_read"]
    OBVIOUS
  <2>2. g.at = "db_read" /\ task' = [task EXCEPT ![t] = g]
    BY <1>3, <2>1 DEF LookupFor, Continue, Task
  <2>3. Admitted' \subseteq Admitted
    BY <2>2, StaysOut
  <2> QED BY <2>3 DEF Keeps
<1> QED BY <1>2, <1>3

LEMMA AdmissionStep ==
  ASSUME IInv, Next, task[SlackLoop].at # "create"
  PROVE  Keeps \/ Admits \/ Trades
<1>1. ASSUME NEW t \in AllTasks, NEW op, NEW reply, Answer(t, op, reply), rows' = rows
      PROVE  Keeps
  BY <1>1, AnswerStaysOut DEF Keeps
<1>2. ASSUME NEW t \in AllTasks, NEW h, Continue(t, h), rows' \subseteq rows,
             h.at \in {"chan", "insert"} => task[t].at \in {"chan", "insert"}
      PROVE  Keeps
  BY <1>2, StaysOut DEF Continue, Keeps
<1>3. ASSUME NEW t \in AllTasks, Permission(t) PROVE Keeps \/ Admits
  BY <1>1, <1>3, EntryStep DEF Permission
<1>4. ASSUME NEW t \in AllTasks, CheckChannel(t) PROVE Keeps
  <2>1. PICK h : h = [task[t] EXCEPT !.at = "insert"]
    OBVIOUS
  <2>2. h.at = "insert" /\ task[t].at = "chan" /\ rows' = rows
    BY <1>4, <2>1 DEF CheckChannel, IInv, TypeOK, Task
  <2> QED BY <1>1, <1>2, <1>4, <2>1, <2>2 DEF CheckChannel, Goto
<1>5. ASSUME NEW t \in AllTasks, Insert(t) PROVE Keeps \/ Trades
  <2>1. t \in Admitted /\ Admitted' \subseteq Admitted \ {t}
    BY <1>5, AnswerStaysOut DEF Insert, Admitted
  <2> QED BY <1>5, <2>1 DEF Insert, Keeps, Trades
<1>6. ASSUME NEW t \in AllTasks, Lookup(t) PROVE Keeps
  <2>1. task[t] \in Task /\ HandlerOK(t)
    BY DEF IInv, TypeOK, HandlersOK
  <2> QED BY <1>6, <2>1, LookupKeeps DEF Lookup, HandlerOK
<1>7. ASSUME NEW t \in AllTasks, ReadRow(t) PROVE Keeps
  <2>1. ASSUME NEW w, Continue(t, [task[t] EXCEPT !.at = "fill", !.row = w]) PROVE Keeps
    <3>1. PICK h : h = [task[t] EXCEPT !.at = "fill", !.row = w]
      OBVIOUS
    <3>2. task[t] \in Task
      BY DEF IInv, TypeOK
    <3>3. h.at = "fill"
      BY <3>1, <3>2 DEF Task
    <3>4. rows' = rows
      BY <1>7 DEF ReadRow
    <3> QED BY <1>2, <2>1, <3>1, <3>3, <3>4
  <2> QED BY <1>1, <1>7, <2>1 DEF ReadRow
<1>8. ASSUME NEW t \in AllTasks, Fill(t) PROVE Keeps
  <2>1. PICK g \in Task : /\ task' = [task EXCEPT ![t] = g]
                          /\ g.at \in {"done", "alias", "delete"}
    <3>1. task[t] \in Task /\ AfterLookup(t, task[t].op, task[t])
      BY <1>8 DEF Fill, IInv, TypeOK
    <3> QED BY <3>1, AfterLookupMove
  <2> QED BY <1>8, <2>1, StaysOut DEF Fill, Keeps
<1>9. ASSUME NEW t \in AllTasks, NEW place \in {"delete", "evict"}, Goto(t, place),
             rows' \subseteq rows
      PROVE  Keeps
  <2>1. PICK h : h = [task[t] EXCEPT !.at = place]
    OBVIOUS
  <2>2. h.at = place
    BY <2>1 DEF IInv, TypeOK, Task
  <2> QED BY <1>2, <1>9, <2>1, <2>2 DEF Goto
<1>10. ASSUME NEW t \in AllTasks, TaskStep(t) \/ Fail(t) PROVE Keeps \/ Admits \/ Trades
  <2>1. CASE DropAlias(t)
    BY <1>9, <2>1 DEF DropAlias
  <2>2. CASE Delete(t)
    BY <1>9, <2>2 DEF Delete
  <2>3. CASE Evict(t) \/ Fail(t)
    BY <1>1, <2>3 DEF Evict, Fail
  <2> QED BY <1>3, <1>4, <1>5, <1>6, <1>7, <1>8, <1>10, <2>1, <2>2, <2>3 DEF TaskStep
<1>11. ASSUME NEW t \in Tasks, NEW r \in Rooms \cup created, MatrixRequest(t, r)
       PROVE  Keeps \/ Admits
  <2>0. t \in AllTasks /\ r \in AllRooms
    BY DEF AllTasks, AllRooms, IInv, TypeOK
  <2>1. ASSUME NEW c \in Channels, RequestBridge(t, r, c) PROVE Admits
    BY <2>1 DEF RequestBridge, Admits
  <2>2. ASSUME NEW c \in Channels, WebBridge(t, r, c) PROVE Keeps \/ Admits
    BY <2>0, <2>2, EntryStep DEF WebBridge
  <2>3. ASSUME NEW op \in Op, CachedEvent(t, op, r) PROVE Keeps
    <3>1. PICK h : h = [Idle EXCEPT !.op = op, !.room = r]
      OBVIOUS
    <3>2. h \in Task /\ h.room = r
      BY <2>0, <3>1, IdleIsTask DEF Task
    <3> QED BY <2>0, <2>3, <3>1, <3>2, LookupKeeps DEF CachedEvent
  <2>4. CASE RequestUnbridge(t, r)
    <3>1. PICK h : h = [Idle EXCEPT !.op = "unbridge", !.at = "lookup", !.room = r,
                                    !.since = nextId]
      OBVIOUS
    <3>2. h.at = "lookup"
      BY <3>1, IdleIsTask DEF Task
    <3> QED BY <1>2, <2>0, <2>4, <3>1, <3>2 DEF RequestUnbridge
  <2>5. Request \subseteq Op
    BY DEF Op
  <2> QED BY <1>11, <2>1, <2>2, <2>3, <2>4, <2>5 DEF MatrixRequest, Request
<1>12. SlackLoop \in AllTasks
  BY DEF AllTasks
<1>13. ASSUME NEW c \in Channels, SlackRequest(c) PROVE Keeps
  <2>1. CASE SlackBridge(c)
    <3>1. PICK h : h = [Idle EXCEPT !.op = "slack_bridge", !.at = "create", !.chan = c]
      OBVIOUS
    <3>2. h.at = "create"
      BY <3>1, IdleIsTask DEF Task
    <3> QED BY <1>2, <1>12, <2>1, <3>1, <3>2 DEF SlackBridge
  <2>2. ASSUME NEW w,
               Continue(SlackLoop, [Idle EXCEPT !.op = "slack_unbridge", !.at = "delete",
                                                !.chan = c, !.row = w, !.since = nextId]),
               rows' = rows
        PROVE  Keeps
    <3>1. PICK h : h = [Idle EXCEPT !.op = "slack_unbridge", !.at = "delete",
                                    !.chan = c, !.row = w, !.since = nextId]
      OBVIOUS
    <3>2. h.at = "delete"
      BY <3>1, IdleIsTask DEF Task
    <3> QED BY <1>2, <1>12, <2>2, <3>1, <3>2
  <2> QED BY <1>13, <2>1, <2>2 DEF SlackRequest, SlackUnbridge
<1>14. CASE Crash
  <2>1. Admitted' = {}
    BY <1>14 DEF Crash, Admitted, Idle
  <2> QED BY <1>14, <2>1 DEF Crash, Keeps
<1>15. ASSUME NEW r \in AllRooms, Expire(r) PROVE Keeps
  BY <1>15 DEF Expire, Keeps, Admitted
<1>16. ~ \E n \in NewRooms : CreateRoom(n)
  BY DEF CreateRoom
<1> QED BY <1>10, <1>11, <1>13, <1>14, <1>15, <1>16 DEF Next

LEMMA BoundStep ==
  ASSUME IInv, SlackOK, SlackOK', Next, AdmittedBounded, "slack_bridge" \notin Served,
         RoomLimit >= 0
  PROVE  AdmittedBounded'
<1>1. Admitted \subseteq Tasks /\ Admitted' \subseteq Tasks
  BY DEF SlackOK, Admitted, AllTasks
<1>2. /\ IsFiniteSet(Tasks) /\ IsFiniteSet(Admitted) /\ IsFiniteSet(Admitted') /\ IsFiniteSet(rows)
      /\ Cardinality(Admitted') <= Cardinality(Tasks)
  BY <1>1, TasksFinite, FS_Subset DEF AdmittedBounded
<1>3. /\ Cardinality(Tasks) \in Nat /\ Cardinality(Admitted) \in Nat
      /\ Cardinality(Admitted') \in Nat /\ Cardinality(rows) \in Nat
  BY <1>2, FS_CardinalityType
<1>4. CASE Keeps
  <2>1. IsFiniteSet(rows') /\ Cardinality(rows') <= Cardinality(rows)
    BY <1>2, <1>4, FS_Subset DEF Keeps
  <2>2. Cardinality(Admitted') <= Cardinality(Admitted)
    BY <1>2, <1>4, FS_Subset DEF Keeps
  <2>3. Cardinality(rows') \in Nat
    BY <2>1, FS_CardinalityType
  <2> QED BY <1>3, <2>1, <2>2, <2>3, LimitIsInt DEF AdmittedBounded
<1>5. CASE Admits
  <2>1. rows' = rows /\ ~OverLimit
    BY <1>5 DEF Admits
  <2>2. Cardinality(rows') + Cardinality(Admitted') < RoomLimit + Cardinality(Tasks)
    BY <1>2, <1>3, <2>1, LimitIsInt, RoomLimit >= 0 DEF OverLimit
  <2> QED BY <1>2, <2>1, <2>2 DEF AdmittedBounded
<1>6. CASE Trades
  <2>1. PICK t \in Admitted, w \in rows' : rows' = rows \cup {w} /\ Admitted' \subseteq Admitted \ {t}
    BY <1>6 DEF Trades
  <2>2. IsFiniteSet(rows') /\ Cardinality(rows') <= Cardinality(rows) + 1
    <3>1. /\ IsFiniteSet(rows \cup {w})
          /\ \/ Cardinality(rows \cup {w}) = Cardinality(rows)
             \/ Cardinality(rows \cup {w}) = Cardinality(rows) + 1
      BY <1>2, FS_AddElement
    <3> QED BY <1>3, <2>1, <3>1
  <2>3. IsFiniteSet(Admitted \ {t}) /\ Cardinality(Admitted \ {t}) = Cardinality(Admitted) - 1
    BY <1>2, FS_RemoveElement
  <2>4. Cardinality(Admitted') <= Cardinality(Admitted \ {t})
    BY <2>1, <2>3, FS_Subset
  <2>5. Cardinality(rows') \in Nat
    BY <2>2, FS_CardinalityType
  <2> QED BY <1>3, <2>2, <2>3, <2>4, <2>5, LimitIsInt DEF AdmittedBounded
<1>7. task[SlackLoop].at # "create"
  BY DEF SlackOK
<1> QED BY <1>4, <1>5, <1>6, <1>7, AdmissionStep

(* However many handlers pass check_room_limit before the first of them    *)
(* inserts, the table exceeds the limit by fewer rows than there are tasks.*)
THEOREM OvershootIsBounded == Spec => []LimitOvershootBounded
<1>1. CASE RoomLimit >= 0 /\ Tasks # {} /\ "slack_bridge" \notin Served
  <2>1. Init => AdmittedBounded
    <3> SUFFICES ASSUME Init PROVE AdmittedBounded
      OBVIOUS
    <3>1. rows = {} /\ Admitted = {}
      BY DEF Init, Admitted, Idle
    <3>2. Cardinality(Tasks) \in Nat /\ Cardinality(Tasks) # 0
      BY <1>1, TasksFinite, FS_CardinalityType, FS_EmptySet
    <3>3. IsFiniteSet(rows) /\ Cardinality(rows) = 0 /\ Cardinality(Admitted) = 0
      BY <3>1, FS_EmptySet
    <3> QED BY <1>1, <3>2, <3>3, LimitIsInt DEF AdmittedBounded
  <2>2. IInv /\ SlackOK /\ SlackOK' /\ AdmittedBounded /\ [Next]_vars => AdmittedBounded'
    <3>1. CASE UNCHANGED vars
      BY <3>1 DEF vars, AdmittedBounded, Admitted
    <3> QED BY <1>1, <3>1, BoundStep
  <2>3. SlackOK /\ AdmittedBounded => LimitOvershootBounded
    <3> SUFFICES ASSUME SlackOK, AdmittedBounded
                 PROVE  Cardinality(rows) < RoomLimit + Cardinality(Tasks)
      BY DEF LimitOvershootBounded
    <3>1. Admitted \subseteq Tasks
      BY <1>1 DEF SlackOK, Admitted, AllTasks
    <3>2. /\ Cardinality(Tasks) \in Nat /\ Cardinality(rows) \in Nat
          /\ Cardinality(Admitted) \in Nat
      BY <3>1, TasksFinite, FS_Subset, FS_CardinalityType DEF AdmittedBounded
    <3> QED BY <3>2, LimitIsInt DEF AdmittedBounded
  <2> QED BY <2>1, <2>2, <2>3, RegistryInvariance, SlackInvariance, PTL DEF Spec
<1>2. CASE ~(RoomLimit >= 0 /\ Tasks # {} /\ "slack_bridge" \notin Served)
  <2>1. LimitOvershootBounded
    BY <1>2 DEF LimitOvershootBounded
  <2> QED BY <2>1, PTL
<1> QED BY <1>1, <1>2

-----------------------------------------------------------------------------
(* The refinement: the handler of a request works on the room or on the    *)
(* channel that the request named, and the copy of a row it holds is one   *)
(* of a bridge of that room or channel.                                    *)
Serves(h) ==
    /\ h.at = "create" => h.op = "slack_bridge"
    /\ h.at \in {"alias", "delete"} => h.op # "read"
    /\ h.at \in {"lookup", "db_read"} => h.chan = NONE
    /\ h.at \in {"fill", "alias", "delete"} /\ h.op # "read" =>
          \/ h.room \in AllRooms /\ h.chan = NONE /\ h.row.room = h.room
          \/ h.room = NONE /\ h.chan \in Channels /\ h.row.chan = h.chan

AllServe == \A t \in AllTasks : Serves(task[t])

RInv == IInv /\ AllServe

(* What has to be shown of a step that leaves the table alone: what the    *)
(* handler of t may yet do is what it was, or has come, or has gone.       *)
LEMMA HandlerRefines ==
  ASSUME RInv, NEW t \in AllTasks, NEW h, task' = [task EXCEPT ![t] = h], rows' = rows,
         Serves(h),
         \/ YetWanted(h) = YetWanted(task[t])
         \/ YetWanted(h) = Registry!Nothing
         \/ YetWanted(task[t]) = Registry!Nothing /\ YetWanted(h) \in Registry!Wanted
  PROVE  AllServe' /\ [Registry!Next]_(Registry!vars)
<1>1. task'[t] = h /\ \A s \in AllTasks : s # t => task'[s] = task[s]
  BY DEF RInv, IInv, TypeOK
<1>2. AllServe'
  BY <1>1 DEF RInv, AllServe, Serves
<1> DEFINE wanted == [s \in AllTasks |-> YetWanted(task[s])]
           later == [s \in AllTasks |-> YetWanted(task'[s])]
<1>3. later = [wanted EXCEPT ![t] = YetWanted(h)]
  <2>1. ASSUME NEW s \in AllTasks
        PROVE  YetWanted(task'[s]) = IF s = t THEN YetWanted(h) ELSE YetWanted(task[s])
    BY <1>1
  <2>2. QED BY <2>1
<1>4. wanted[t] = YetWanted(task[t])
  OBVIOUS
<1>5. /\ {[room |-> w.room, chan |-> w.chan] : w \in rows'}
           = {[room |-> w.room, chan |-> w.chan] : w \in rows}
      /\ [s \in AllTasks |-> YetWanted(task[s])]' = later
  BY DEF YetWanted
<1> HIDE DEF later
<1>6. CASE YetWanted(h) = YetWanted(task[t])
  <2>1. later = wanted
    BY <1>3, <1>4, <1>6
  <2>2. QED BY <1>2, <1>5, <2>1 DEF Registry!vars
<1>7. CASE YetWanted(h) = Registry!Nothing /\ YetWanted(task[t]) # Registry!Nothing
  <2>1. Registry!GiveUp(t)
    BY <1>3, <1>4, <1>5, <1>7 DEF Registry!GiveUp, Registry!Turn
  <2>2. QED BY <1>2, <2>1 DEF Registry!Next
<1>8. CASE YetWanted(task[t]) = Registry!Nothing /\ YetWanted(h) \in Registry!Wanted
  <2>1. Registry!Want(t)
    BY <1>3, <1>4, <1>5, <1>8 DEF Registry!Want, Registry!Turn
  <2>2. QED BY <1>2, <2>1 DEF Registry!Next
<1>9. QED BY <1>6, <1>7, <1>8

LEMMA IdleWantsNothing == Serves(Idle) /\ YetWanted(Idle) = Registry!Nothing
BY DEF Serves, Idle, YetWanted, Registry!Nothing

(* An answer ends what the request wanted.                                 *)
LEMMA AnswerRefines ==
  ASSUME RInv, NEW t \in AllTasks, NEW op, NEW reply, Answer(t, op, reply), rows' = rows
  PROVE  AllServe' /\ [Registry!Next]_(Registry!vars)
<1>1. task' = [task EXCEPT ![t] = Idle]
  BY DEF Answer
<1>2. QED BY <1>1, IdleWantsNothing, HandlerRefines

(* A request that arrives.                                                 *)
LEMMA ArrivalRefines ==
  ASSUME RInv, NEW t \in AllTasks, task[t].at = "done", NEW h,
         task' = [task EXCEPT ![t] = h], rows' = rows,
         Serves(h), YetWanted(h) \in Registry!Wanted \cup {Registry!Nothing}
  PROVE  AllServe' /\ [Registry!Next]_(Registry!vars)
<1>1. YetWanted(task[t]) = Registry!Nothing
  BY DEF YetWanted, Registry!Nothing
<1>2. QED BY <1>1, HandlerRefines

LEMMA BridgeArrives ==
  ASSUME RInv, NEW t \in Tasks, NEW r \in Rooms \cup created, NEW c \in Channels,
         RequestBridge(t, r, c) \/ WebBridge(t, r, c)
  PROVE  AllServe' /\ [Registry!Next]_(Registry!vars)
<1>1. /\ t \in AllTasks /\ r \in AllRooms /\ rows' = rows /\ task[t].at = "done"
  BY DEF AllTasks, AllRooms, RInv, IInv, TypeOK, RequestBridge, WebBridge
<1>2. CASE RequestBridge(t, r, c)
  <2>1. PICK h : h = [Idle EXCEPT !.op = "bridge", !.at = "ask", !.room = r, !.chan = c]
    OBVIOUS
  <2>2. h.op = "bridge" /\ h.at = "ask" /\ h.room = r /\ h.chan = c
    BY <2>1 DEF Idle
  <2>3. Serves(h) /\ YetWanted(h) \in Registry!Wanted
    BY <1>1, <2>2 DEF Serves, YetWanted, Registry!Wanted
  <2>4. task' = [task EXCEPT ![t] = h]
    BY <1>2, <2>1 DEF RequestBridge, Continue
  <2>5. QED BY <1>1, <2>3, <2>4, ArrivalRefines
<1>3. CASE WebBridge(t, r, c)
  <2>1. PICK h : h = [[Idle EXCEPT !.op = "web_bridge", !.room = r, !.chan = c] EXCEPT !.at = "chan"]
    OBVIOUS
  <2>2. h.op = "web_bridge" /\ h.at = "chan" /\ h.room = r /\ h.chan = c
    BY <2>1 DEF Idle
  <2>3. Serves(h) /\ YetWanted(h) \in Registry!Wanted
    BY <1>1, <2>2 DEF Serves, YetWanted, Registry!Wanted
  <2>4. CASE task' = [task EXCEPT ![t] = h]
    BY <1>1, <2>3, <2>4, ArrivalRefines
  <2>5. CASE \E op, reply : Answer(t, op, reply)
    BY <1>1, <2>5, AnswerRefines
  <2>6. QED BY <1>3, <2>1, <2>4, <2>5 DEF WebBridge, EnterBridge, Continue
<1>4. QED BY <1>2, <1>3

LEMMA PermissionRefines ==
  ASSUME RInv, NEW t \in AllTasks, Permission(t)
  PROVE  AllServe' /\ [Registry!Next]_(Registry!vars)
<1>1. rows' = rows /\ task[t].at = "ask" /\ task[t] \in Task
  BY DEF Permission, RInv, IInv, TypeOK
<1>2. CASE Continue(t, [task[t] EXCEPT !.at = "chan"])
  <2>1. PICK h : h = [task[t] EXCEPT !.at = "chan"]
    OBVIOUS
  <2>2. h.at = "chan" /\ h.op = task[t].op /\ h.room = task[t].room /\ h.chan = task[t].chan
    BY <1>1, <2>1 DEF Task
  <2>3. Serves(h) /\ YetWanted(h) = YetWanted(task[t])
    BY <1>1, <2>2 DEF Serves, YetWanted
  <2>4. QED BY <1>1, <1>2, <2>1, <2>3, HandlerRefines DEF Continue
<1>3. CASE \E op, reply : Answer(t, op, reply)
  BY <1>1, <1>3, AnswerRefines
<1>4. QED BY <1>2, <1>3 DEF Permission, EnterBridge

LEMMA CheckChannelRefines ==
  ASSUME RInv, NEW t \in AllTasks, CheckChannel(t)
  PROVE  AllServe' /\ [Registry!Next]_(Registry!vars)
<1>1. rows' = rows /\ task[t].at = "chan" /\ task[t] \in Task
  BY DEF CheckChannel, RInv, IInv, TypeOK
<1>2. CASE Goto(t, "insert")
  <2>1. PICK h : h = [task[t] EXCEPT !.at = "insert"]
    OBVIOUS
  <2>2. h.at = "insert" /\ h.op = task[t].op /\ h.room = task[t].room /\ h.chan = task[t].chan
    BY <1>1, <2>1 DEF Task
  <2>3. Serves(h) /\ YetWanted(h) = YetWanted(task[t])
    BY <1>1, <2>2 DEF Serves, YetWanted
  <2>4. QED BY <1>1, <1>2, <2>1, <2>3, HandlerRefines DEF Continue, Goto
<1>3. CASE \E op, reply : Answer(t, op, reply)
  BY <1>1, <1>3, AnswerRefines
<1>4. QED BY <1>2, <1>3 DEF CheckChannel

(* The room that the homeserver has made is one of those the request may   *)
(* have meant.                                                             *)
LEMMA SlackBridgeRefines ==
  ASSUME RInv, NEW c \in Channels, SlackBridge(c)
  PROVE  AllServe' /\ [Registry!Next]_(Registry!vars)
<1>1. rows' = rows /\ task[SlackLoop].at = "done" /\ SlackLoop \in AllTasks
  BY DEF SlackBridge, AllTasks
<1>2. PICK h : h = [Idle EXCEPT !.op = "slack_bridge", !.at = "create", !.chan = c]
  OBVIOUS
<1>3. h.op = "slack_bridge" /\ h.at = "create" /\ h.chan = c
  BY <1>2 DEF Idle
<1>4. Serves(h) /\ YetWanted(h) \in Registry!Wanted
  BY <1>3 DEF Serves, YetWanted, Registry!Wanted
<1>5. task' = [task EXCEPT ![SlackLoop] = h]
  BY <1>2 DEF SlackBridge, Continue
<1>6. QED BY <1>1, <1>4, <1>5, ArrivalRefines

LEMMA CreateRoomRefines ==
  ASSUME RInv, NEW n \in NewRooms, CreateRoom(n)
  PROVE  AllServe' /\ [Registry!Next]_(Registry!vars)
<1>1. /\ rows' = rows /\ SlackLoop \in AllTasks
      /\ task[SlackLoop].at = "create" /\ task[SlackLoop] \in Task
  BY DEF CreateRoom, RInv, IInv, TypeOK, AllTasks
<1>2. task[SlackLoop].op = "slack_bridge"
  BY <1>1 DEF RInv, AllServe, Serves
<1>3. PICK h : h = [task[SlackLoop] EXCEPT !.at = "insert", !.room = n]
  OBVIOUS
<1>4. h.op = "slack_bridge" /\ h.at = "insert" /\ h.chan = task[SlackLoop].chan
  BY <1>1, <1>2, <1>3 DEF Task
<1>5. Serves(h) /\ YetWanted(h) = YetWanted(task[SlackLoop])
  BY <1>1, <1>2, <1>4 DEF Serves, YetWanted
<1>6. task' = [task EXCEPT ![SlackLoop] = h]
  BY <1>3 DEF CreateRoom, Continue
<1>7. QED BY <1>1, <1>5, <1>6, HandlerRefines

(* get_room_mapping_cached: the row is one of the room asked for, since    *)
(* the cache holds each row under its room.                                *)
LEMMA AfterLookupRefines ==
  ASSUME RInv, NEW t \in AllTasks, NEW h \in Task, rows' = rows,
         NEW op, op = h.op, AfterLookup(t, op, h),
         h.room \in AllRooms, h.chan = NONE, h.row.room = h.room,
         \/ h.op # "read" => YetWanted(task[t]) = [kind |-> "take", room |-> h.room, chan |-> NONE]
         \/ YetWanted(task[t]) = Registry!Nothing
  PROVE  AllServe' /\ [Registry!Next]_(Registry!vars)
<1>1. CASE op = "read"
  BY <1>1, AnswerRefines DEF AfterLookup
<1>2. CASE op # "read"
  <2>1. PICK g : /\ g = [h EXCEPT !.at = IF op = "unbridge" THEN "alias" ELSE "delete"]
                 /\ task' = [task EXCEPT ![t] = g]
    BY <1>2 DEF AfterLookup, Continue
  <2>2. /\ g.at \in {"alias", "delete"} /\ g.op = h.op /\ g.room = h.room
        /\ g.chan = NONE /\ g.row = h.row
    BY <2>1 DEF Task
  <2>3. Serves(g) /\ YetWanted(g) = [kind |-> "take", room |-> h.room, chan |-> NONE]
    BY <1>2, <2>2 DEF Serves, YetWanted
  <2>4. YetWanted(g) \in Registry!Wanted
    BY <2>3 DEF Registry!Wanted
  <2>5. QED BY <1>2, <2>1, <2>3, <2>4, HandlerRefines
<1>3. QED BY <1>1, <1>2

LEMMA LookupRefines ==
  ASSUME RInv, NEW t \in AllTasks, NEW h \in Task, rows' = rows, LookupFor(t, h),
         h.room \in AllRooms, h.chan = NONE, h.at \in {"done", "lookup"},
         \/ h.at = "lookup" /\ YetWanted(task[t]) = YetWanted(h)
         \/ YetWanted(task[t]) = Registry!Nothing
  PROVE  AllServe' /\ [Registry!Next]_(Registry!vars)
<1> DEFINE take == [kind |-> "take", room |-> h.room, chan |-> NONE]
<1>1. CASE cache[h.room] # NONE
  <2>1. PICK g : g = [h EXCEPT !.row = cache[h.room]] /\ AfterLookup(t, h.op, g)
    BY <1>1 DEF LookupFor
  <2>2. cache[h.room].room = h.room /\ cache[h.room] \in Row
    BY <1>1 DEF RInv, IInv, CacheOK, TypeOK
  <2>3. /\ g \in Task /\ g.op = h.op /\ g.room = h.room /\ g.chan = NONE
        /\ g.row.room = g.room
    BY <2>1, <2>2 DEF Task
  <2>4. h.at = "lookup" /\ h.op # "read" => YetWanted(h) = take
    BY DEF YetWanted
  <2>5. QED BY <2>1, <2>3, <2>4, AfterLookupRefines
<1>2. CASE cache[h.room] = NONE
  <2>1. PICK g : g = [h EXCEPT !.at = "db_read"] /\ task' = [task EXCEPT ![t] = g]
    BY <1>2 DEF LookupFor, Continue
  <2>2. g.at = "db_read" /\ g.op = h.op /\ g.room = h.room /\ g.chan = NONE
    BY <2>1 DEF Task
  <2>3. Serves(g) /\ YetWanted(g) = IF h.op = "read" THEN Registry!Nothing ELSE take
    BY <2>2 DEF Serves, YetWanted, Registry!Nothing
  <2>4. take \in Registry!Wanted
    BY DEF Registry!Wanted
  <2>5. h.at = "lookup" => YetWanted(h) = YetWanted(g)
    BY <2>2 DEF YetWanted
  <2>6. QED BY <2>1, <2>3, <2>4, <2>5, HandlerRefines
<1>3. QED BY <1>1, <1>2

LEMMA CachedEventRefines ==
  ASSUME RInv, NEW t \in AllTasks, NEW r \in AllRooms, NEW op \in Op, CachedEvent(t, op, r)
  PROVE  AllServe' /\ [Registry!Next]_(Registry!vars)
<1>1. rows' = rows /\ task[t].at = "done"
  BY DEF CachedEvent
<1>2. PICK h : h = [Idle EXCEPT !.op = op, !.room = r] /\ LookupFor(t, h)
  BY DEF CachedEvent
<1>3. h \in Task /\ h.at = "done" /\ h.room = r /\ h.chan = NONE
  BY <1>2, IdleIsTask DEF Task, Idle
<1>4. YetWanted(task[t]) = Registry!Nothing
  BY <1>1 DEF YetWanted, Registry!Nothing
<1>5. QED BY <1>1, <1>2, <1>3, <1>4, LookupRefines

LEMMA RequestUnbridgeRefines ==
  ASSUME RInv, NEW t \in AllTasks, NEW r \in AllRooms, RequestUnbridge(t, r)
  PROVE  AllServe' /\ [Registry!Next]_(Registry!vars)
<1>1. rows' = rows /\ task[t].at = "done"
  BY DEF RequestUnbridge
<1>2. PICK h : /\ h = [Idle EXCEPT !.op = "unbridge", !.at = "lookup", !.room = r,
                                   !.since = nextId]
               /\ task' = [task EXCEPT ![t] = h]
  BY DEF RequestUnbridge, Continue
<1>3. h.op = "unbridge" /\ h.at = "lookup" /\ h.room = r /\ h.chan = NONE
  BY <1>2 DEF Idle
<1>4. Serves(h) /\ YetWanted(h) \in Registry!Wanted
  BY <1>3 DEF Serves, YetWanted, Registry!Wanted
<1>5. QED BY <1>1, <1>2, <1>4, ArrivalRefines

LEMMA LookupTaskRefines ==
  ASSUME RInv, NEW t \in AllTasks, Lookup(t)
  PROVE  AllServe' /\ [Registry!Next]_(Registry!vars)
<1>1. rows' = rows /\ task[t].at = "lookup" /\ LookupFor(t, task[t]) /\ task[t] \in Task
  BY DEF Lookup, RInv, IInv, TypeOK
<1>2. task[t].room \in AllRooms /\ task[t].chan = NONE
  BY <1>1 DEF RInv, IInv, HandlersOK, HandlerOK, AllServe, Serves
<1>3. QED BY <1>1, <1>2, LookupRefines

LEMMA ReadRowRefines ==
  ASSUME RInv, NEW t \in AllTasks, ReadRow(t)
  PROVE  AllServe' /\ [Registry!Next]_(Registry!vars)
<1>1. rows' = rows /\ task[t].at = "db_read" /\ task[t] \in Task
  <2>1. rows' = rows /\ task[t].at = "db_read"
    BY DEF ReadRow
  <2>2. QED BY <2>1 DEF RInv, IInv, TypeOK
<1>2. task[t].room \in AllRooms /\ task[t].chan = NONE
  BY <1>1 DEF RInv, IInv, HandlersOK, HandlerOK, AllServe, Serves
<1>3. CASE Answer(t, task[t].op, "not_bridged")
  BY <1>1, <1>3, AnswerRefines
<1>4. ASSUME NEW w \in RowsOfRoom(task[t].room),
             Continue(t, [task[t] EXCEPT !.at = "fill", !.row = w])
      PROVE  AllServe' /\ [Registry!Next]_(Registry!vars)
  <2>1. PICK h : h = [task[t] EXCEPT !.at = "fill", !.row = w] /\ task' = [task EXCEPT ![t] = h]
    BY <1>4 DEF Continue
  <2>2. /\ h.at = "fill" /\ h.op = task[t].op /\ h.room = task[t].room /\ h.chan = NONE
        /\ h.row.room = h.room
    BY <1>1, <1>2, <2>1 DEF Task, RowsOfRoom
  <2>3. Serves(h) /\ YetWanted(h) = YetWanted(task[t])
    BY <1>1, <1>2, <2>2 DEF Serves, YetWanted
  <2>4. QED BY <1>1, <2>1, <2>3, HandlerRefines
<1>5. QED BY <1>3, <1>4 DEF ReadRow

LEMMA FillRefines ==
  ASSUME RInv, NEW t \in AllTasks, Fill(t)
  PROVE  AllServe' /\ [Registry!Next]_(Registry!vars)
<1>1. /\ rows' = rows /\ task[t].at = "fill" /\ task[t] \in Task
      /\ AfterLookup(t, task[t].op, task[t])
  BY DEF Fill, RInv, IInv, TypeOK
<1>2. CASE task[t].op = "read"
  BY <1>1, <1>2, AnswerRefines DEF AfterLookup
<1>3. CASE task[t].op # "read"
  <2>1. PICK h : /\ h = [task[t] EXCEPT !.at = IF task[t].op = "unbridge" THEN "alias" ELSE "delete"]
                 /\ task' = [task EXCEPT ![t] = h]
    BY <1>1, <1>3 DEF AfterLookup, Continue
  <2>2. /\ h.at \in {"alias", "delete"} /\ h.op = task[t].op /\ h.room = task[t].room
        /\ h.chan = task[t].chan /\ h.row = task[t].row
    BY <1>1, <2>1 DEF Task
  <2>3. Serves(task[t])
    BY DEF RInv, AllServe
  <2>4. Serves(h) /\ YetWanted(h) = YetWanted(task[t])
    BY <1>1, <1>3, <2>2, <2>3 DEF Serves, YetWanted
  <2>5. QED BY <1>1, <2>1, <2>4, HandlerRefines
<1>4. QED BY <1>2, <1>3

LEMMA DropAliasRefines ==
  ASSUME RInv, NEW t \in AllTasks, DropAlias(t)
  PROVE  AllServe' /\ [Registry!Next]_(Registry!vars)
<1>1. rows' = rows /\ task[t].at = "alias" /\ task[t] \in Task
  BY DEF DropAlias, RInv, IInv, TypeOK
<1>2. PICK h : h = [task[t] EXCEPT !.at = "delete"] /\ task' = [task EXCEPT ![t] = h]
  BY DEF DropAlias, Goto, Continue
<1>3. /\ h.at = "delete" /\ h.op = task[t].op /\ h.room = task[t].room
      /\ h.chan = task[t].chan /\ h.row = task[t].row
  BY <1>1, <1>2 DEF Task
<1>4. Serves(task[t])
  BY DEF RInv, AllServe
<1>5. Serves(h) /\ YetWanted(h) = YetWanted(task[t])
  BY <1>1, <1>3, <1>4 DEF Serves, YetWanted
<1>6. QED BY <1>1, <1>2, <1>5, HandlerRefines

(* The row that `!matrix unbridge` carries is one of the channel.          *)
LEMMA SlackUnbridgeRefines ==
  ASSUME RInv, NEW c \in Channels, SlackUnbridge(c)
  PROVE  AllServe' /\ [Registry!Next]_(Registry!vars)
<1>1. rows' = rows /\ task[SlackLoop].at = "done" /\ SlackLoop \in AllTasks
  BY DEF SlackUnbridge, AllTasks
<1>2. PICK w \in RowsOfChannel(c) :
         Continue(SlackLoop, [Idle EXCEPT !.op = "slack_unbridge", !.at = "delete",
                                          !.chan = c, !.row = w, !.since = nextId])
  BY DEF SlackUnbridge
<1>3. PICK h : /\ h = [Idle EXCEPT !.op = "slack_unbridge", !.at = "delete",
                                   !.chan = c, !.row = w, !.since = nextId]
               /\ task' = [task EXCEPT ![SlackLoop] = h]
  BY <1>2 DEF Continue
<1>4. /\ h.op = "slack_unbridge" /\ h.at = "delete" /\ h.room = NONE /\ h.chan = c
      /\ h.row = w /\ w.chan = c
  BY <1>3 DEF Idle, RowsOfChannel
<1>5. Serves(h) /\ YetWanted(h) \in Registry!Wanted
  BY <1>4 DEF Serves, YetWanted, Registry!Wanted
<1>6. QED BY <1>1, <1>3, <1>5, ArrivalRefines

-----------------------------------------------------------------------------
(* The two steps that change the relation.                                 *)
BridgesOf(S) == {[room |-> w.room, chan |-> w.chan] : w \in S}

LEMMA InsertRefines ==
  ASSUME RInv, NEW t \in AllTasks, Insert(t)
  PROVE  AllServe' /\ [Registry!Next]_(Registry!vars)
<1> DEFINE h == task[t]
           w == [id |-> nextId, room |-> h.room, chan |-> h.chan]
<1>1. /\ h.at = "insert" /\ h.room \in AllRooms /\ h.chan \in Channels
      /\ task' = [task EXCEPT ![t] = Idle]
  BY DEF Insert, Answer, RInv, IInv, HandlersOK, HandlerOK
<1>2. CASE UNCHANGED rows
  BY <1>1, <1>2, IdleWantsNothing, HandlerRefines
<1>3. CASE rows' = rows \cup {w} /\ RowsOfRoom(h.room) \cup RowsOfChannel(h.chan) = {}
  <2>0. PICK b : b = [room |-> h.room, chan |-> h.chan]
    OBVIOUS
  <2>1. task'[t] = Idle /\ \A s \in AllTasks : s # t => task'[s] = task[s]
    BY <1>1 DEF RInv, IInv, TypeOK
  <2>2. AllServe'
    BY <2>1, IdleWantsNothing DEF RInv, AllServe, Serves
  <2> DEFINE wanted == [s \in AllTasks |-> YetWanted(task[s])]
             later == [s \in AllTasks |-> YetWanted(task'[s])]
  <2>3. later = [wanted EXCEPT ![t] = Registry!Nothing]
    <3>1. ASSUME NEW s \in AllTasks
          PROVE  YetWanted(task'[s]) = IF s = t THEN Registry!Nothing ELSE YetWanted(task[s])
      BY <2>1, IdleWantsNothing
    <3>2. QED BY <3>1
  <2>4. wanted[t].kind = "make" /\ Registry!Fits(b, wanted[t])
    BY <1>1, <2>0 DEF YetWanted, Registry!Fits
  <2>5. \A x \in BridgesOf(rows) : x.room # b.room /\ x.chan # b.chan
    BY <1>3, <2>0 DEF BridgesOf, RowsOfRoom, RowsOfChannel
  <2>6. BridgesOf(rows') = BridgesOf(rows) \cup {b}
    <3>1. [room |-> w.room, chan |-> w.chan] = b
      BY <2>0
    <3> HIDE DEF w
    <3>2. QED BY <1>3, <3>1 DEF BridgesOf
  <2>7. b \in Registry!Bridge
    BY <1>1, <2>0 DEF Registry!Bridge
  <2>8. [s \in AllTasks |-> YetWanted(task[s])]' = later
    BY DEF YetWanted
  <2> HIDE DEF later
  <2>9. Registry!Make(t)
    BY <2>3, <2>4, <2>5, <2>6, <2>7, <2>8 DEF Registry!Make, Registry!Turn, BridgesOf
  <2>10. QED BY <2>2, <2>9 DEF Registry!Next
<1>4. QED BY <1>2, <1>3 DEF Insert

LEMMA DeleteRefines ==
  ASSUME RInv, NEW t \in AllTasks, Delete(t)
  PROVE  AllServe' /\ [Registry!Next]_(Registry!vars)
<1>1. task[t].at = "delete" /\ task[t] \in Task /\ Serves(task[t]) /\ Known(task[t].row)
  BY DEF Delete, RInv, IInv, TypeOK, HandlersOK, HandlerOK, AllServe
<1>2. PICK w : w = task[t].row
  OBVIOUS
<1>3. w \in Row /\ \A v \in rows : v.id = w.id => v = w
  BY <1>1, <1>2 DEF Known
<1>4. PICK h : h = [task[t] EXCEPT !.at = "evict"] /\ task' = [task EXCEPT ![t] = h]
  BY DEF Delete, Goto, Continue
<1>5. h.at = "evict" /\ Serves(h) /\ YetWanted(h) = Registry!Nothing
  <2>1. h.at = "evict"
    BY <1>1, <1>4 DEF Task
  <2>2. QED BY <2>1 DEF Serves, YetWanted, Registry!Nothing
<1>6. rows' = rows \ {w}
  BY <1>2, <1>3 DEF Delete
<1>7. CASE w \notin rows
  BY <1>4, <1>5, <1>6, <1>7, HandlerRefines
<1>8. CASE w \in rows
  <2> DEFINE b == [room |-> w.room, chan |-> w.chan]
             wanted == [s \in AllTasks |-> YetWanted(task[s])]
             later == [s \in AllTasks |-> YetWanted(task'[s])]
  <2>1. task'[t] = h /\ \A s \in AllTasks : s # t => task'[s] = task[s]
    BY <1>4 DEF RInv, IInv, TypeOK
  <2>2. AllServe'
    BY <1>5, <2>1 DEF RInv, AllServe, Serves
  <2>3. later = [wanted EXCEPT ![t] = Registry!Nothing]
    <3>1. ASSUME NEW s \in AllTasks
          PROVE  YetWanted(task'[s]) = IF s = t THEN Registry!Nothing ELSE YetWanted(task[s])
      BY <1>5, <2>1
    <3>2. QED BY <3>1
  <2>4. wanted[t].kind = "take" /\ Registry!Fits(b, wanted[t])
    BY <1>1, <1>2, <1>8 DEF YetWanted, Registry!Fits, Serves
  <2>5. b \in BridgesOf(rows)
    BY <1>8 DEF BridgesOf
  <2>6. BridgesOf(rows') = BridgesOf(rows) \ {b}
    <3>1. \A v \in rows : [room |-> v.room, chan |-> v.chan] = b => v = w
      BY <1>8 DEF RInv, IInv, OneToOne
    <3>2. QED BY <1>6, <1>8, <3>1 DEF BridgesOf
  <2>7. [s \in AllTasks |-> YetWanted(task[s])]' = later
    BY DEF YetWanted
  <2> HIDE DEF later, b
  <2>8. Registry!Take(t)
    BY <2>3, <2>4, <2>5, <2>6, <2>7 DEF Registry!Take, Registry!Turn, BridgesOf
  <2>9. QED BY <2>2, <2>8 DEF Registry!Next
<1>9. QED BY <1>7, <1>8

LEMMA EvictRefines ==
  ASSUME RInv, NEW t \in AllTasks, Evict(t)
  PROVE  AllServe' /\ [Registry!Next]_(Registry!vars)
BY AnswerRefines DEF Evict

LEMMA FailRefines ==
  ASSUME RInv, NEW t \in AllTasks, Fail(t)
  PROVE  AllServe' /\ [Registry!Next]_(Registry!vars)
BY AnswerRefines DEF Fail

(* A restart forgets what was wanted, of everybody.                        *)
LEMMA CrashRefines ==
  ASSUME RInv, Crash
  PROVE  AllServe' /\ [Registry!Next]_(Registry!vars)
<1>1. rows' = rows /\ task' = [t \in AllTasks |-> Idle]
  BY DEF Crash
<1>2. AllServe'
  BY <1>1, IdleWantsNothing DEF AllServe, Serves
<1>3. [t \in AllTasks |-> YetWanted(task[t])]' = [t \in AllTasks |-> Registry!Nothing]
  <2>1. \A t \in AllTasks : YetWanted(task'[t]) = Registry!Nothing
    BY <1>1, IdleWantsNothing
  <2>2. [t \in AllTasks |-> YetWanted(task[t])]' = [t \in AllTasks |-> YetWanted(task'[t])]
    BY DEF YetWanted
  <2>3. QED BY <2>1, <2>2
<1>4. Registry!Restart
  BY <1>1, <1>3 DEF Registry!Restart
<1>5. QED BY <1>2, <1>4 DEF Registry!Next

LEMMA NextRefines == RInv /\ [Next]_vars => AllServe' /\ [Registry!Next]_(Registry!vars)
<1> SUFFICES ASSUME RInv, [Next]_vars PROVE AllServe' /\ [Registry!Next]_(Registry!vars)
  OBVIOUS
<1>1. Rooms \cup created \subseteq AllRooms /\ Tasks \subseteq AllTasks /\ Request \subseteq Op
  BY DEF RInv, IInv, TypeOK, AllRooms, AllTasks, Op
<1>2. ASSUME NEW t \in Tasks, NEW r \in Rooms \cup created, MatrixRequest(t, r)
      PROVE  AllServe' /\ [Registry!Next]_(Registry!vars)
  <2>1. r \in AllRooms /\ t \in AllTasks
    BY <1>1
  <2>2. ASSUME NEW c \in Channels, RequestBridge(t, r, c) \/ WebBridge(t, r, c)
        PROVE  AllServe' /\ [Registry!Next]_(Registry!vars)
    BY <2>2, BridgeArrives
  <2>3. ASSUME NEW op \in Op, CachedEvent(t, op, r)
        PROVE  AllServe' /\ [Registry!Next]_(Registry!vars)
    BY <2>1, <2>3, CachedEventRefines
  <2>4. CASE RequestUnbridge(t, r)
    BY <2>1, <2>4, RequestUnbridgeRefines
  <2>5. QED BY <1>1, <1>2, <2>2, <2>3, <2>4 DEF MatrixRequest, Request
<1>3. ASSUME NEW c \in Channels, SlackRequest(c)
      PROVE  AllServe' /\ [Registry!Next]_(Registry!vars)
  BY <1>3, SlackBridgeRefines, SlackUnbridgeRefines DEF SlackRequest
<1>4. ASSUME NEW n \in NewRooms \ created, CreateRoom(n)
      PROVE  AllServe' /\ [Registry!Next]_(Registry!vars)
  BY <1>4, CreateRoomRefines
<1>5. ASSUME NEW t \in AllTasks, TaskStep(t)
      PROVE  AllServe' /\ [Registry!Next]_(Registry!vars)
  BY <1>5, PermissionRefines, CheckChannelRefines, InsertRefines, LookupTaskRefines,
     ReadRowRefines, FillRefines, DropAliasRefines, DeleteRefines, EvictRefines DEF TaskStep
<1>6. ASSUME NEW t \in AllTasks, Fail(t)
      PROVE  AllServe' /\ [Registry!Next]_(Registry!vars)
  BY <1>6, FailRefines
<1>7. CASE UNCHANGED <<rows, task>>
  BY <1>7 DEF RInv, AllServe, Serves, Registry!vars, YetWanted
<1>8. (\E r \in AllRooms : Expire(r)) \/ UNCHANGED vars => UNCHANGED <<rows, task>>
  BY DEF Expire, vars
<1>9. QED BY <1>2, <1>3, <1>4, <1>5, <1>6, <1>7, <1>8, CrashRefines DEF Next

(* Whatever the sets of tasks, rooms and channels, the handlers, the table *)
(* and the cache implement the one-to-one relation of RoomRegistry: each   *)
(* request changes it at one moment, as it asked to, or not at all.        *)
THEOREM RegistryRefinement == Spec => ImplementsRegistry
<1>1. Init => AllServe /\ Registry!Init
  <2> SUFFICES ASSUME Init PROVE AllServe /\ Registry!Init
    OBVIOUS
  <2>1. rows = {} /\ \A t \in AllTasks : task[t] = Idle
    BY DEF Init
  <2>2. QED BY <2>1, IdleWantsNothing DEF AllServe, Registry!Init
<1>2. IInv /\ AllServe /\ [Next]_vars => AllServe' /\ [Registry!Next]_(Registry!vars)
  BY NextRefines DEF RInv
<1>3. QED BY <1>1, <1>2, RegistryInvariance, PTL DEF Spec, ImplementsRegistry, Registry!Spec
=============================================================================
