---------------------------- MODULE PeopleProofs ----------------------------
(***************************************************************************)
(* The safety properties of the parts of Services that are about users:    *)
(* presences, profiles, memberships, and the limit on users; for any sets  *)
(* of users, names and rooms and any bounds on what happens.  Each part    *)
(* has the inductive invariant its section describes.                      *)
(***************************************************************************)
EXTENDS Services, Sequences, FiniteSetTheorems, SequenceTheorems, TLAPS
-----------------------------------------------------------------------------
(***************************************************************************)
(* PresenceQueue.  A user has one entry in the queue at most (OnePlace),   *)
(* and an entry older than the newest update of its user is there, or in   *)
(* hand, only for a user named in raced (QueueNews, HandNews, Dated); so   *)
(* the newest of everybody else is in the queue, in hand, shown, or        *)
(* refused (NewestKept, DropIsRefused).                                    *)
(***************************************************************************)

PresenceBounds == MaxPresences \in Nat /\ MaxFaults \in Nat

PresenceShape ==
    /\ queue \in Seq(P!Entry)
    /\ handler \in {"idle", "setting", "registering"}
    /\ handler # "idle" => entry \in P!Entry
    /\ ghosts \subseteq People
    /\ shown \in [People -> P!Shown]
    /\ pChanges \in 0..MaxPresences /\ pFaults \in 0..MaxFaults
    /\ newest \in [People -> 0..MaxPresences]
    /\ raced \subseteq People /\ refused \subseteq People

OnePlace(q) == \A i, j \in 1..Len(q) : q[i].user = q[j].user => i = j

InQueue(u) == \E i \in 1..Len(queue) : queue[i].user = u /\ queue[i].num = newest[u]
Held(u) == handler # "idle" /\ entry.user = u /\ entry.num = newest[u]

\* An entry in the queue that is not the newest of its user has won a race.
QueueNews == \A i \in 1..Len(queue) :
    /\ queue[i].user # BotUser
    /\ queue[i].num = newest[queue[i].user] \/ queue[i].user \in raced

\* The same of the entry in hand, unless it will be dropped and the newest is queued.
HandNews == handler # "idle" =>
    /\ entry.user # BotUser
    /\ \/ entry.num = newest[entry.user]
       \/ entry.user \in raced
       \/ P!ShouldDrop(entry.state) /\ InQueue(entry.user)

Dated ==
    /\ \A i \in 1..Len(queue) : queue[i].num <= pChanges
    /\ handler # "idle" => entry.num <= pChanges

\* The newest presence is somewhere, but for the two exceptions; and one that awaits the
\* registration and will be dropped is an exception already.
NewestKept == \A u \in People \ {BotUser} :
    newest[u] # 0 /\ u \notin raced \cup refused
        => shown[u].num = newest[u] \/ InQueue(u) \/ Held(u)

DropIsRefused ==
    handler = "registering" /\ P!ShouldDrop(entry.state) /\ entry.num = newest[entry.user]
        => entry.user \in refused

PresenceInv == PresenceShape /\ OnePlace(queue) /\ QueueNews /\ HandNews /\ Dated /\ NewestKept /\ DropIsRefused
-----------------------------------------------------------------------------
\* Without the entry of u, the queue has the other entries, each once.
LEMMA WithoutOne ==
  ASSUME NEW q \in Seq(P!Entry), OnePlace(q), NEW u
  PROVE  /\ P!Without(q, u) \in Seq(P!Entry)
         /\ OnePlace(P!Without(q, u))
         /\ \A k \in 1..Len(P!Without(q, u)) :
               \E j \in 1..Len(q) : P!Without(q, u)[k] = q[j] /\ q[j].user # u
         /\ \A j \in 1..Len(q) : q[j].user # u =>
               \E k \in 1..Len(P!Without(q, u)) : P!Without(q, u)[k] = q[j]
<1>0. Len(q) \in Nat /\ DOMAIN q = 1..Len(q)
  OBVIOUS
<1>1. CASE \E i \in DOMAIN q : q[i].user = u
  <2> DEFINE i == CHOOSE i \in DOMAIN q : q[i].user = u
             r == P!Without(q, u)
  <2>1. i \in 1..Len(q) /\ q[i].user = u
    BY <1>0, <1>1
  <2>2. r = SubSeq(q, 1, i - 1) \o SubSeq(q, i + 1, Len(q))
    BY <1>1 DEF P!Without
  <2> HIDE DEF i, r
  <2>3. /\ SubSeq(q, 1, i - 1) \in Seq(P!Entry) /\ SubSeq(q, i + 1, Len(q)) \in Seq(P!Entry)
        /\ Len(SubSeq(q, 1, i - 1)) = i - 1 /\ Len(SubSeq(q, i + 1, Len(q))) = Len(q) - i
        /\ \A k \in 1..(i - 1) : SubSeq(q, 1, i - 1)[k] = q[k]
        /\ \A k \in 1..(Len(q) - i) : SubSeq(q, i + 1, Len(q))[k] = q[k + i]
    BY <2>1
  <2>4. /\ r \in Seq(P!Entry) /\ Len(r) = Len(q) - 1
        /\ \A k \in 1..Len(r) : r[k] = IF k < i THEN q[k] ELSE q[k + 1]
    <3> DEFINE a == SubSeq(q, 1, i - 1)
               b == SubSeq(q, i + 1, Len(q))
    <3>1. /\ a \in Seq(P!Entry) /\ b \in Seq(P!Entry) /\ Len(a) = i - 1 /\ Len(b) = Len(q) - i
          /\ \A k \in 1..(i - 1) : a[k] = q[k]
          /\ \A k \in 1..(Len(q) - i) : b[k] = q[k + i]
          /\ r = a \o b
      BY <2>2, <2>3
    <3> HIDE DEF a, b
    <3>2. r \in Seq(P!Entry) /\ Len(r) = Len(q) - 1
      <4>1. r \in Seq(P!Entry) /\ Len(r) = Len(a) + Len(b)
        BY <3>1, ConcatProperties
      <4>2. QED BY <1>0, <2>1, <3>1, <4>1
    <3>3. ASSUME NEW k \in 1..Len(r) PROVE r[k] = IF k < i THEN q[k] ELSE q[k + 1]
      <4>1. CASE k < i
        BY <1>0, <2>1, <3>1, <3>2, <4>1
      <4>2. CASE ~(k < i)
        <5>1. r[k] = b[k - (i - 1)] /\ k - (i - 1) \in 1..(Len(q) - i)
          BY <1>0, <2>1, <3>1, <3>2, <4>2, SMTT(20)
        <5>2. QED BY <1>0, <2>1, <3>1, <4>2, <5>1
      <4>3. QED BY <4>1, <4>2
    <3>4. QED BY <3>2, <3>3
  <2>5. \A j \in 1..Len(q) : j # i => q[j].user # u
    BY <2>1 DEF OnePlace
  <2>6. \A k \in 1..Len(r) : \E j \in 1..Len(q) : r[k] = q[j] /\ j # i /\ j = IF k < i THEN k ELSE k + 1
    BY <1>0, <2>1, <2>4
  <2>7. \A j \in 1..Len(q) : j # i => \E k \in 1..Len(r) : r[k] = q[j]
    <3> SUFFICES ASSUME NEW j \in 1..Len(q), j # i PROVE \E k \in 1..Len(r) : r[k] = q[j]
      OBVIOUS
    <3>1. CASE j < i
      BY <1>0, <2>1, <2>4, <3>1
    <3>2. CASE j > i
      <4>1. j - 1 \in 1..Len(r) /\ ~(j - 1 < i) /\ j - 1 + 1 = j
        BY <1>0, <2>1, <2>4, <3>2
      <4>2. r[j - 1] = q[j]
        BY <2>4, <4>1
      <4>3. QED BY <4>1, <4>2
    <3>3. QED BY <1>0, <2>1, <3>1, <3>2
  <2>8. OnePlace(r)
    <3> SUFFICES ASSUME NEW k \in 1..Len(r), NEW l \in 1..Len(r), r[k].user = r[l].user
                 PROVE  k = l
      BY DEF OnePlace
    <3>1. (IF k < i THEN k ELSE k + 1) = (IF l < i THEN l ELSE l + 1)
      BY <2>6 DEF OnePlace
    <3>2. QED BY <2>1, <2>4, <3>1
  <2>9. QED BY <2>1, <2>4, <2>5, <2>6, <2>7, <2>8 DEF r
<1>2. CASE ~\E i \in DOMAIN q : q[i].user = u
  BY <1>0, <1>2 DEF P!Without
<1>3. QED BY <1>1, <1>2

\* Enqueued takes the place of an entry of the same user and leaves the others.
LEMMA EnqueuedOne ==
  ASSUME NEW q \in Seq(P!Entry), OnePlace(q), NEW e \in P!Entry, e.user # BotUser
  PROVE  /\ P!Enqueued(q, e) \in Seq(P!Entry)
         /\ OnePlace(P!Enqueued(q, e))
         /\ \E k \in 1..Len(P!Enqueued(q, e)) : P!Enqueued(q, e)[k] = e
         /\ \A k \in 1..Len(P!Enqueued(q, e)) : \/ P!Enqueued(q, e)[k] = e
               \/ \E j \in 1..Len(q) : P!Enqueued(q, e)[k] = q[j] /\ q[j].user # e.user
         /\ \A j \in 1..Len(q) : q[j].user # e.user =>
               \E k \in 1..Len(P!Enqueued(q, e)) : P!Enqueued(q, e)[k] = q[j]
<1> DEFINE w == P!Without(q, e.user)
<1>1. P!Enqueued(q, e) = Append(w, e)
  BY DEF P!Enqueued
<1>2. /\ w \in Seq(P!Entry) /\ OnePlace(w)
      /\ \A k \in 1..Len(w) : \E j \in 1..Len(q) : w[k] = q[j] /\ q[j].user # e.user
      /\ \A j \in 1..Len(q) : q[j].user # e.user => \E k \in 1..Len(w) : w[k] = q[j]
  <2>1. w \in Seq(P!Entry)
    BY WithoutOne
  <2>2. OnePlace(w)
    BY WithoutOne
  <2>3. \A k \in 1..Len(w) : \E j \in 1..Len(q) : w[k] = q[j] /\ q[j].user # e.user
    BY WithoutOne
  <2>4. \A j \in 1..Len(q) : q[j].user # e.user => \E k \in 1..Len(w) : w[k] = q[j]
    BY WithoutOne
  <2>5. QED BY <2>1, <2>2, <2>3, <2>4
<1> HIDE DEF w
<1>3. /\ Append(w, e) \in Seq(P!Entry) /\ Len(Append(w, e)) = Len(w) + 1 /\ Len(w) \in Nat
      /\ \A k \in 1..Len(w) : Append(w, e)[k] = w[k]
      /\ Append(w, e)[Len(w) + 1] = e
  BY <1>2
<1>4. OnePlace(Append(w, e))
  <2>1. \A k \in 1..Len(w) : w[k].user # e.user
    BY <1>2
  <2> DEFINE v == Append(w, e)
  <2>2. /\ Len(v) = Len(w) + 1 /\ Len(w) \in Nat /\ v[Len(w) + 1] = e
        /\ \A k \in 1..Len(w) : v[k] = w[k] /\ v[k].user # e.user
    BY <1>3, <2>1
  <2> HIDE DEF v
  <2>3. ASSUME NEW i \in 1..Len(v), NEW j \in 1..Len(v), v[i].user = v[j].user
        PROVE  i = j
    <3>1. /\ i \in 1..Len(w) \/ i = Len(w) + 1
          /\ j \in 1..Len(w) \/ j = Len(w) + 1
      BY <2>2
    <3>2. CASE i \in 1..Len(w) /\ j \in 1..Len(w)
      BY <1>2, <2>2, <2>3, <3>2 DEF OnePlace
    <3>3. CASE i = Len(w) + 1 \/ j = Len(w) + 1
      BY <2>2, <2>3, <3>1, <3>3
    <3>4. QED BY <3>1, <3>2, <3>3
  <2>4. OnePlace(v)
    BY <2>3 DEF OnePlace
  <2>5. QED BY <2>4 DEF v
<1>5. QED BY <1>1, <1>2, <1>3, <1>4

LEMMA PresenceInitial == PresenceBounds /\ P!Init => PresenceInv
<1> SUFFICES ASSUME PresenceBounds, P!Init PROVE PresenceInv
  OBVIOUS
<1>1. shown \in [People -> P!Shown] /\ newest \in [People -> 0..MaxPresences]
  BY DEF PresenceBounds, P!Init, P!Shown
<1>2. PresenceShape
  BY <1>1 DEF PresenceBounds, P!Init, PresenceShape
<1>3. OnePlace(queue)
  BY DEF P!Init, OnePlace
<1>4. QED BY <1>2, <1>3 DEF P!Init, PresenceInv, QueueNews, HandNews, Dated, NewestKept,
             DropIsRefused

\* A presence arrives: it is the newest, and the only one of its user in the queue.
LEMMA PresenceChangesStep ==
  ASSUME PresenceBounds, PresenceInv, NEW u \in People, NEW s \in P!States, P!Changes(u, s)
  PROVE  PresenceInv'
<1> DEFINE e == [user |-> u, state |-> s, num |-> pChanges + 1]
<1>1. /\ pChanges \in Nat /\ pChanges' = pChanges + 1 /\ pChanges' \in 1..MaxPresences
      /\ newest' = [newest EXCEPT ![u] = pChanges + 1]
      /\ queue' = P!Enqueued(queue, e)
      /\ raced' = IF handler # "idle" /\ entry.user = u /\ ~P!ShouldDrop(entry.state)
                  THEN raced \cup {u} ELSE raced \ {u}
      /\ refused' = refused \ {u}
      /\ UNCHANGED <<handler, entry, ghosts, shown, pFaults>>
  BY DEF PresenceBounds, PresenceInv, PresenceShape, P!Changes
<1>2. e \in P!Entry /\ e.user = u /\ e.num = pChanges + 1
  BY <1>1 DEF P!Entry
<1> HIDE DEF e
<1>3. newest \in [People -> 0..MaxPresences] /\ queue \in Seq(P!Entry)
  BY DEF PresenceInv, PresenceShape
<1>4. /\ newest'[u] = pChanges + 1
      /\ \A v \in People : v # u => newest'[v] = newest[v] /\ (v \in raced' <=> v \in raced)
                                 /\ (v \in refused' <=> v \in refused)
  BY <1>1, <1>3
<1>5. /\ queue' \in Seq(P!Entry) /\ OnePlace(queue')
      /\ u # BotUser => \E k \in 1..Len(queue') : queue'[k] = e
      /\ \A k \in 1..Len(queue') : \/ queue'[k] = e /\ u # BotUser
                                  \/ \E j \in 1..Len(queue) : queue'[k] = queue[j] /\ queue[j].user # u
      /\ \A j \in 1..Len(queue) : queue[j].user # u =>
                                  \E k \in 1..Len(queue') : queue'[k] = queue[j]
  <2>1. CASE u = BotUser
    <3>1. queue' = queue
      BY <1>1, <1>2, <2>1 DEF P!Enqueued
    <3>2. QED BY <1>3, <2>1, <3>1 DEF PresenceInv, QueueNews
  <2>2. CASE u # BotUser
    <3>1. OnePlace(queue) /\ e \in P!Entry /\ e.user # BotUser /\ queue' = P!Enqueued(queue, e)
      BY <1>1, <1>2, <2>2 DEF PresenceInv
    <3>2. queue' \in Seq(P!Entry)
      BY <1>3, <3>1, EnqueuedOne
    <3>3. OnePlace(queue')
      BY <1>3, <3>1, EnqueuedOne
    <3>4. \E k \in 1..Len(queue') : queue'[k] = e
      BY <1>3, <3>1, EnqueuedOne, SMTT(20)
    <3>5. \A k \in 1..Len(queue') : \/ queue'[k] = e
              \/ \E j \in 1..Len(queue) : queue'[k] = queue[j] /\ queue[j].user # e.user
      BY <1>3, <3>1, EnqueuedOne
    <3>6. \A j \in 1..Len(queue) : queue[j].user # e.user =>
              \E k \in 1..Len(queue') : queue'[k] = queue[j]
      BY <1>3, <3>1, EnqueuedOne
    <3>7. QED BY <1>2, <2>2, <3>2, <3>3, <3>4, <3>5, <3>6
  <2>3. QED BY <2>1, <2>2
<1>6. PresenceShape'
  BY <1>1, <1>5 DEF PresenceInv, PresenceShape
<1>7. \A v \in People : v # u /\ InQueue(v) => \E k \in 1..Len(queue') :
          queue'[k].user = v /\ queue'[k].num = newest'[v]
  BY <1>4, <1>5 DEF InQueue
<1>8. u # BotUser => InQueue(u)'
  BY <1>2, <1>4, <1>5 DEF InQueue
<1>9. \A v \in People : v # u /\ InQueue(v) => InQueue(v)'
  BY <1>7 DEF InQueue
<1>10. \A j \in 1..Len(queue) : queue[j].user \in People /\ queue[j].num \in Nat /\ queue[j].num <= pChanges
  <2>1. \A j \in 1..Len(queue) : queue[j] \in P!Entry
    BY <1>3
  <2>2. QED BY <2>1 DEF P!Entry, PresenceInv, Dated
<1>11. QueueNews'
  <2> SUFFICES ASSUME NEW k \in 1..Len(queue')
               PROVE  /\ queue'[k].user # BotUser
                      /\ queue'[k].num = newest'[queue'[k].user] \/ queue'[k].user \in raced'
    BY DEF QueueNews
  <2>1. CASE queue'[k] = e /\ u # BotUser
    BY <1>2, <1>4, <2>1
  <2>2. CASE \E j \in 1..Len(queue) : queue'[k] = queue[j] /\ queue[j].user # u
    <3>1. PICK j \in 1..Len(queue) : queue'[k] = queue[j] /\ queue[j].user # u
      BY <2>2
    <3>2. QED BY <1>4, <1>10, <3>1 DEF PresenceInv, QueueNews
  <2>3. QED BY <1>5, <2>1, <2>2
<1>12. Dated'
  <2>1. handler # "idle" => entry.num <= pChanges /\ entry.num \in Nat
    BY DEF PresenceInv, PresenceShape, Dated, P!Entry
  <2>2. \A k \in 1..Len(queue') : queue'[k].num <= pChanges'
    <3> SUFFICES ASSUME NEW k \in 1..Len(queue') PROVE queue'[k].num <= pChanges'
      OBVIOUS
    <3>1. CASE queue'[k] = e
      BY <1>1, <1>2, <3>1
    <3>2. CASE queue'[k] # e
      <4>1. PICK j \in 1..Len(queue) : queue'[k] = queue[j]
        BY <1>5, <3>2
      <4>2. QED BY <1>1, <1>10, <4>1
    <3>3. QED BY <3>1, <3>2
  <2>3. QED BY <1>1, <2>1, <2>2 DEF Dated
<1>16. HandNews'
  <2> SUFFICES ASSUME handler # "idle"
               PROVE  /\ entry.user # BotUser
                      /\ \/ entry.num = newest'[entry.user]
                         \/ entry.user \in raced'
                         \/ P!ShouldDrop(entry.state) /\ InQueue(entry.user)'
    BY <1>1 DEF HandNews, P!ShouldDrop
  <2>1. entry.user \in People /\ entry.user # BotUser
    BY DEF PresenceInv, PresenceShape, HandNews, P!Entry
  <2>2. CASE entry.user = u
    <3>1. InQueue(entry.user)'
      BY <1>1, <1>8, <2>1, <2>2 DEF InQueue
    <3>2. QED BY <1>1, <2>1, <2>2, <3>1
  <2>3. CASE entry.user # u
    <3>1. InQueue(entry.user) => InQueue(entry.user)'
      BY <1>1, <1>7, <2>1, <2>3 DEF InQueue
    <3>2. QED BY <1>4, <2>1, <2>3, <3>1 DEF PresenceInv, HandNews
  <2>4. QED BY <2>2, <2>3
<1>13. NewestKept'
  <2> SUFFICES ASSUME NEW v \in People \ {BotUser}, newest'[v] # 0, v \notin raced' \cup refused'
               PROVE  shown[v].num = newest'[v] \/ InQueue(v)' \/ Held(v)'
    BY <1>1 DEF NewestKept
  <2>1. CASE v = u
    BY <1>8, <2>1
  <2>2. CASE v # u
    BY <1>1, <1>4, <1>9, <2>2 DEF PresenceInv, NewestKept, Held
  <2>3. QED BY <2>1, <2>2
<1>14. DropIsRefused'
  <2> SUFFICES ASSUME handler = "registering", P!ShouldDrop(entry.state), entry.num = newest'[entry.user]
               PROVE  entry.user \in refused'
    BY <1>1 DEF DropIsRefused, P!ShouldDrop
  <2>1. entry.user \in People /\ entry.num <= pChanges /\ entry.num \in Nat
    BY DEF PresenceInv, PresenceShape, Dated, P!Entry
  <2>2. entry.user # u
    BY <1>1, <1>4, <2>1
  <2>3. QED BY <1>4, <2>1, <2>2 DEF PresenceInv, DropIsRefused
<1>15. QED BY <1>5, <1>6, <1>11, <1>12, <1>13, <1>14, <1>16 DEF PresenceInv

\* The first entry goes from the queue to the hand.
LEMMA TickStep ==
  ASSUME PresenceBounds, PresenceInv, P!Tick
  PROVE  PresenceInv'
<1>1. /\ handler = "idle" /\ handler' = "setting" /\ queue # <<>>
      /\ entry' = Head(queue) /\ queue' = Tail(queue)
      /\ UNCHANGED <<ghosts, shown, pChanges, pFaults, newest, raced, refused>>
  BY DEF P!Tick
<1>2. /\ queue \in Seq(P!Entry) /\ queue' \in Seq(P!Entry) /\ entry' = queue[1] /\ entry' \in P!Entry
      /\ 1 \in 1..Len(queue) /\ Len(queue') = Len(queue) - 1
      /\ \A k \in 1..Len(queue') : queue'[k] = queue[k + 1] /\ k + 1 \in 1..Len(queue)
  BY <1>1 DEF PresenceInv, PresenceShape
<1>3. PresenceShape'
  BY <1>1, <1>2 DEF PresenceInv, PresenceShape
<1>4. OnePlace(queue')
  <2> SUFFICES ASSUME NEW k \in 1..Len(queue'), NEW l \in 1..Len(queue'), queue'[k].user = queue'[l].user
               PROVE  k = l
    BY DEF OnePlace
  <2>1. queue[k + 1].user = queue[l + 1].user /\ k + 1 \in 1..Len(queue) /\ l + 1 \in 1..Len(queue)
    BY <1>2
  <2>3. k + 1 = l + 1
    BY <2>1 DEF PresenceInv, OnePlace
  <2>2. QED BY <2>3
<1>5. QueueNews' /\ HandNews' /\ Dated'
  BY <1>1, <1>2 DEF PresenceInv, QueueNews, HandNews, Dated
<1>6. ASSUME NEW v, InQueue(v) PROVE InQueue(v)' \/ Held(v)'
  <2>1. PICK i \in 1..Len(queue) : queue[i].user = v /\ queue[i].num = newest[v]
    BY <1>6 DEF InQueue
  <2>2. CASE i = 1
    BY <1>1, <1>2, <2>1, <2>2 DEF Held
  <2>3. CASE i # 1
    <3>1. i - 1 \in 1..Len(queue') /\ queue'[i - 1] = queue[i]
      BY <1>2, <2>3
    <3>2. QED BY <1>1, <2>1, <3>1 DEF InQueue
  <2>4. QED BY <2>2, <2>3
<1>7. NewestKept'
  BY <1>1, <1>6 DEF PresenceInv, NewestKept, Held
<1>8. QED BY <1>1, <1>3, <1>4, <1>5, <1>7 DEF PresenceInv, DropIsRefused

\* The entry goes back to the queue, or is dropped: then its user keeps its newest presence
\* in another way, or is excused.
LEMMA RequeueStep ==
  ASSUME PresenceBounds, PresenceInv, P!Requeue, handler # "idle",
         UNCHANGED <<pChanges, newest, raced>>,
         ghosts' \subseteq People, pFaults' \in 0..MaxFaults, shown' \in [People -> P!Shown],
         refused \subseteq refused', refused' \subseteq People,
         \A v \in People : v # entry.user => shown'[v] = shown[v],
         P!ShouldDrop(entry.state) /\ entry.num = newest[entry.user] =>
             shown'[entry.user].num = entry.num \/ entry.user \in refused'
  PROVE  PresenceInv'
<1> DEFINE u == entry.user
<1>1. /\ queue' = IF P!ShouldDrop(entry.state) THEN queue ELSE P!Enqueued(queue, entry)
      /\ handler' = "idle"
  BY DEF P!Requeue
<1>2. /\ entry \in P!Entry /\ queue \in Seq(P!Entry) /\ OnePlace(queue) /\ u \in People /\ u # BotUser
      /\ entry.num <= pChanges
  BY DEF PresenceInv, PresenceShape, HandNews, P!Entry, Dated
<1>3. /\ queue' \in Seq(P!Entry) /\ OnePlace(queue')
      /\ ~P!ShouldDrop(entry.state) => \E k \in 1..Len(queue') : queue'[k] = entry
      /\ \A k \in 1..Len(queue') : \/ queue'[k] = entry /\ ~P!ShouldDrop(entry.state)
            \/ \E j \in 1..Len(queue) : queue'[k] = queue[j]
      /\ \A j \in 1..Len(queue) : queue[j].user # u => \E k \in 1..Len(queue') : queue'[k] = queue[j]
  <2>1. CASE P!ShouldDrop(entry.state)
    <3>1. queue' = queue
      BY <1>1, <2>1
    <3>2. QED BY <1>2, <2>1, <3>1
  <2>2. CASE ~P!ShouldDrop(entry.state)
    <3>1. queue' = P!Enqueued(queue, entry)
      BY <1>1, <2>2
    <3>2. queue' \in Seq(P!Entry)
      BY <1>2, <3>1, EnqueuedOne
    <3>3. OnePlace(queue')
      BY <1>2, <3>1, EnqueuedOne
    <3>4. \E k \in 1..Len(queue') : queue'[k] = entry
      BY <1>2, <3>1, EnqueuedOne, SMTT(20)
    <3>5. \A k \in 1..Len(queue') : \/ queue'[k] = entry
              \/ \E j \in 1..Len(queue) : queue'[k] = queue[j] /\ queue[j].user # entry.user
      BY <1>2, <3>1, EnqueuedOne
    <3>6. \A j \in 1..Len(queue) : queue[j].user # entry.user =>
              \E k \in 1..Len(queue') : queue'[k] = queue[j]
      BY <1>2, <3>1, EnqueuedOne
    <3>7. QED BY <2>2, <3>2, <3>3, <3>4, <3>5, <3>6
  <2>3. QED BY <2>1, <2>2
<1>4. PresenceShape'
  BY <1>1, <1>3 DEF PresenceInv, PresenceShape
<1>5. QueueNews'
  BY <1>2, <1>3 DEF PresenceInv, QueueNews, HandNews
<1>6. HandNews' /\ DropIsRefused'
  BY <1>1 DEF HandNews, DropIsRefused
<1>7. Dated'
  BY <1>1, <1>2, <1>3 DEF PresenceInv, Dated
<1>8. NewestKept'
  <2> SUFFICES ASSUME NEW v \in People \ {BotUser}, newest[v] # 0, v \notin raced, v \notin refused'
               PROVE  shown'[v].num = newest'[v] \/ InQueue(v)'
    BY DEF NewestKept
  <2>1. shown[v].num = newest[v] \/ InQueue(v) \/ Held(v)
    BY DEF PresenceInv, NewestKept
  <2>2. CASE v # u
    <3>1. shown'[v] = shown[v]
      BY <2>2
    <3>2. InQueue(v) => InQueue(v)'
      BY <1>3, <2>2 DEF InQueue
    <3>3. QED BY <2>1, <2>2, <3>1, <3>2 DEF Held
  <2>3. CASE v = u /\ ~P!ShouldDrop(entry.state)
    <3>1. entry.num = newest[v]
      BY <2>3 DEF PresenceInv, HandNews
    <3>2. QED BY <1>3, <2>3, <3>1 DEF InQueue
  <2>4. CASE v = u /\ P!ShouldDrop(entry.state)
    <3>1. CASE entry.num = newest[v]
      BY <2>4, <3>1
    <3>2. CASE entry.num # newest[v]
      <4>1. InQueue(v) /\ queue' = queue
        BY <1>1, <2>4, <3>2 DEF PresenceInv, HandNews
      <4>2. QED BY <4>1 DEF InQueue
    <3>3. QED BY <3>1, <3>2
  <2>5. QED BY <2>2, <2>3, <2>4
<1>9. QED BY <1>3, <1>4, <1>5, <1>6, <1>7, <1>8 DEF PresenceInv

LEMMA PresenceAnswerStep ==
  ASSUME PresenceBounds, PresenceInv, P!PresenceSet \/ P!PresenceFails \/ P!Registers
  PROVE  PresenceInv'
<1>1. /\ ghosts \subseteq People /\ refused \subseteq People /\ pFaults \in 0..MaxFaults
      /\ shown \in [People -> P!Shown]
      /\ handler # "idle" => entry \in P!Entry /\ entry.user \in People
  BY DEF PresenceInv, PresenceShape, P!Entry
<1>2. CASE P!PresenceSet
  <2>1. handler = "setting" /\ entry \in P!Entry /\ P!Requeue
    BY <1>1, <1>2 DEF P!PresenceSet
  <2>2. [state |-> P!MatrixPresence(entry.state), num |-> entry.num] \in P!Shown
    BY <2>1 DEF P!Entry, P!Shown, P!MatrixPresence, P!States
  <2>3. /\ shown' \in [People -> P!Shown] /\ shown'[entry.user].num = entry.num
        /\ \A v \in People : v # entry.user => shown'[v] = shown[v]
    BY <1>1, <1>2, <2>1, <2>2 DEF P!PresenceSet
  <2>4. UNCHANGED <<ghosts, pChanges, pFaults, newest, raced, refused>>
    BY <1>2 DEF P!PresenceSet
  <2>5. QED BY <1>1, <2>1, <2>3, <2>4, RequeueStep
<1>3. CASE P!PresenceFails
  <2>1. /\ handler = "setting" /\ P!Requeue /\ pFaults' \in 0..MaxFaults
        /\ UNCHANGED <<ghosts, shown, pChanges, newest, raced>>
    BY <1>1, <1>3 DEF P!PresenceFails, PresenceBounds
  <2>2. /\ refused \subseteq refused' /\ refused' \subseteq People
        /\ P!ShouldDrop(entry.state) /\ entry.num = newest[entry.user] => entry.user \in refused'
    BY <1>1, <1>3, <2>1 DEF P!PresenceFails, P!Refused
  <2>3. QED BY <1>1, <2>1, <2>2, RequeueStep
<1>4. CASE P!Registers
  <2>1. /\ handler = "registering" /\ P!Requeue /\ pFaults' \in 0..MaxFaults /\ ghosts' \subseteq People
        /\ UNCHANGED <<shown, pChanges, newest, raced, refused>>
    BY <1>1, <1>4 DEF P!Registers, PresenceBounds
  <2>2. P!ShouldDrop(entry.state) /\ entry.num = newest[entry.user] => entry.user \in refused'
    BY <2>1 DEF PresenceInv, DropIsRefused
  <2>3. QED BY <1>1, <2>1, <2>2, RequeueStep
<1>5. QED BY <1>2, <1>3, <1>4

LEMMA ForbiddenStep ==
  ASSUME PresenceBounds, PresenceInv, P!PresenceForbidden
  PROVE  PresenceInv'
<1>1. /\ handler = "setting" /\ handler' = "registering"
      /\ UNCHANGED <<queue, entry, ghosts, shown, pChanges, pFaults, newest, raced>>
  BY DEF P!PresenceForbidden
<1>2. /\ refused \subseteq refused' /\ refused' \subseteq People
      /\ P!ShouldDrop(entry.state) /\ entry.num = newest[entry.user] => entry.user \in refused'
  BY <1>1 DEF PresenceInv, PresenceShape, P!Entry, P!PresenceForbidden, P!Refused
<1>3. PresenceShape' /\ OnePlace(queue') /\ QueueNews' /\ Dated'
  BY <1>1, <1>2 DEF PresenceInv, PresenceShape, QueueNews, Dated
<1>4. \A v : (InQueue(v)' <=> InQueue(v)) /\ (Held(v)' <=> Held(v))
  BY <1>1 DEF InQueue, Held
<1>5. HandNews'
  BY <1>1 DEF PresenceInv, HandNews, InQueue, P!ShouldDrop
<1>6. NewestKept' /\ DropIsRefused'
  BY <1>1, <1>2, <1>4 DEF PresenceInv, NewestKept, DropIsRefused, P!ShouldDrop
<1>7. QED BY <1>3, <1>5, <1>6 DEF PresenceInv

LEMMA PresenceInvariance == ASSUME PresenceBounds PROVE P!Spec => []PresenceInv
<1>1. P!Init => PresenceInv
  BY PresenceInitial
<1>2. PresenceInv /\ [P!Next]_(P!vars) => PresenceInv'
  <2> SUFFICES ASSUME PresenceInv, [P!Next]_(P!vars) PROVE PresenceInv'
    OBVIOUS
  <2>1. CASE UNCHANGED P!vars
    BY <2>1 DEF P!vars, PresenceInv, PresenceShape, QueueNews, HandNews, Dated, NewestKept,
       DropIsRefused,
                InQueue, Held
  <2>2. QED BY <2>1, PresenceChangesStep, TickStep, PresenceAnswerStep, ForbiddenStep DEF P!Next
<1>3. QED BY <1>1, <1>2, PTL DEF P!Spec

LEMMA LossIsKept == PresenceInv => P!TypeOK /\ P!PresenceLossExcused
<1> SUFFICES ASSUME PresenceInv PROVE P!TypeOK /\ P!PresenceLossExcused
  OBVIOUS
<1>1. queue \in Seq(P!Entry) /\ DOMAIN queue = 1..Len(queue)
  BY DEF PresenceInv, PresenceShape
<1>2. P!TypeOK
  BY <1>1 DEF PresenceInv, PresenceShape, OnePlace, P!TypeOK
<1>3. P!PresenceLossExcused
  <2> SUFFICES ASSUME NEW u \in People \ {BotUser}, newest[u] # 0, u \notin raced \cup refused
               PROVE  shown[u].num = newest[u] \/ P!Queued(u) \/ P!InHand(u)
    BY DEF P!PresenceLossExcused
  <2>1. InQueue(u) => P!Queued(u)
    BY <1>1 DEF InQueue, P!Queued, P!NewestOf
  <2>2. Held(u) => P!InHand(u)
    BY DEF Held, P!InHand, P!NewestOf, PresenceInv, PresenceShape
  <2>3. QED BY <2>1, <2>2 DEF PresenceInv, NewestKept
<1>4. QED BY <1>2, <1>3

\* The queue, the entry in hand and the counters keep their types (PresenceHandler).
LEMMA PresenceTypes == ASSUME PresenceBounds PROVE P!Spec => []P!TypeOK
  BY PresenceInvariance, LossIsKept, PTL
\* The newest presence of a user is in the queue, in hand or shown, but for those two cases
\* (presence.rs: enqueue, process).
LEMMA PresenceLosses == ASSUME PresenceBounds PROVE P!Spec => []P!PresenceLossExcused
  BY PresenceInvariance, LossIsKept, PTL

\* A behaviour of the services is one of PresenceQueue.
LEMMA PresenceAlone == Spec => P!Spec
<1>1. Init => P!Init
  BY DEF Init
<1>2. [Next]_vars => [P!Next]_(P!vars)
  BY DEF Next, vars, pVars, qVars, eVars, rVars, uVars, bVars, mVars, gVars, sVars, P!vars
<1>3. QED BY <1>1, <1>2, PTL DEF Spec, P!Spec

\* For any users and any number of updates and faults: the newest presence of a user is
\* shown, queued or being sent, unless it came while an older one, to be queued again, was
\* being sent, or is an "offline" the homeserver refused (presence_handler.rs:134, :135).
THEOREM PresenceLossIsExcused == Spec => []PresenceLossExcused
<1>1. PresenceBounds
  BY BoundsAreNat DEF PresenceBounds
<1>2. P!Spec => []P!PresenceLossExcused
  BY <1>1, PresenceLosses
<1>3. P!PresenceLossExcused => PresenceLossExcused
  BY DEF PresenceLossExcused, Of
<1>4. QED BY <1>2, <1>3, PresenceAlone, PTL
-----------------------------------------------------------------------------
(***************************************************************************)
(* UserSync.  A user has one row at most, and a bare ghost before it has   *)
(* one (OneRow, BareGhost).  While on_user_update handles an event, what   *)
(* is to be done is what the event asks for, but for the fields the row    *)
(* hides (Planned), and what the awaits passed should have done is done    *)
(* (Achieved).                                                             *)
(***************************************************************************)

ProfileBounds == MaxProfiles \in Nat /\ MaxFaults \in Nat

OneRow == uRow = {} \/ \E r \in U!Profile : uRow = {r}

ProfileShape ==
    /\ uSlack \in U!OnSlack /\ uChanges \in 0..MaxProfiles
    /\ ghost \in U!Profile /\ member \in U!Profile
    /\ uStep \in U!Steps /\ event \in U!OnSlack /\ todo \in U!Todo
    /\ uFaults \in 0..MaxFaults
    /\ synced \subseteq U!OnSlack /\ believed \subseteq {"name", "avatar"}

\* The awaits of on_user_update, and those behind the requests of the profile.
AfterRemove == {"rooms", "member_name", "member_avatar"}
AfterAvatar == AfterRemove \cup {"remove"}
AfterName == AfterAvatar \cup {"avatar"}
Syncing == AfterName \cup {"write", "register", "name"}

\* A user without a row has a bare ghost.
BareGhost == uFaults = 0 /\ uRow = {} =>
    ghost = U!NoProfile /\ uStep \in {"idle", "write"} /\ (uStep = "write" => todo.create)

\* What is to be done is what the event asks for, but for the fields believed.
Planned == uStep \in Syncing =>
    /\ synced = {}
    /\ "name" \notin believed => todo.name = U!Displayed(event.name)
    /\ "avatar" \notin believed => todo.avatar = event.avatar
    /\ "avatar" \notin believed /\ event.avatar = U!None => todo.remove \/ todo.create
    /\ todo.remove => event.avatar = U!None
    /\ todo.create => believed = {}

\* What has been done.
Achieved == uFaults = 0 =>
    /\ uStep \in AfterName /\ "name" \notin believed => ghost.name = U!Displayed(event.name)
    /\ uStep \in AfterAvatar /\ "avatar" \notin believed /\ event.avatar # U!None
          => ghost.avatar = event.avatar
    /\ uStep \in AfterRemove /\ "avatar" \notin believed => ghost.avatar = event.avatar
    /\ uStep \in Syncing /\ todo.create /\ event.avatar = U!None => ghost.avatar = U!None

ProfileInv == ProfileShape /\ OneRow /\ BareGhost /\ Planned /\ Achieved /\ U!ProfileFollowsSlack
-----------------------------------------------------------------------------
LEMMA ProfileChangesStep ==
  ASSUME ProfileBounds, ProfileInv, NEW p \in U!OnSlack, U!Changes(p)
  PROVE  ProfileInv'
<1>1. ProfileShape'
  BY DEF ProfileBounds, ProfileInv, ProfileShape, U!Steps, U!Changes
<1>2. OneRow'
  BY DEF ProfileInv, OneRow, U!Changes
<1>3. BareGhost'
  BY DEF ProfileInv, ProfileShape, BareGhost, U!Changes
<1>4. Planned'
  BY DEF ProfileInv, Planned, Syncing, AfterName, AfterAvatar, AfterRemove, U!Changes
<1>5. Achieved'
  BY DEF ProfileInv, Planned, Achieved, Syncing, AfterName, AfterAvatar, AfterRemove, U!Changes
<1>6. U!ProfileFollowsSlack'
  BY DEF ProfileInv, ProfileShape, Planned, Achieved, U!ProfileFollowsSlack, Syncing, AfterName,
     AfterAvatar, AfterRemove, U!Changes
<1>7. QED BY <1>1, <1>2, <1>3, <1>4, <1>5, <1>6 DEF ProfileInv

LEMMA ProfileUpdateStep ==
  ASSUME ProfileBounds, ProfileInv, U!Update
  PROVE  ProfileInv'
<1>1. ProfileShape'
  BY DEF ProfileBounds, ProfileInv, ProfileShape, U!Steps, U!Update
<1>2. OneRow'
  BY DEF ProfileInv, OneRow, U!Update
<1>3. BareGhost'
  BY DEF ProfileInv, ProfileShape, BareGhost, U!Update
<1>4. Planned'
  BY DEF ProfileInv, Planned, Syncing, AfterName, AfterAvatar, AfterRemove, U!Update
<1>5. Achieved'
  BY DEF ProfileInv, Planned, Achieved, Syncing, AfterName, AfterAvatar, AfterRemove, U!Update
<1>6. U!ProfileFollowsSlack'
  BY DEF ProfileInv, ProfileShape, Planned, Achieved, U!ProfileFollowsSlack, Syncing, AfterName,
     AfterAvatar, AfterRemove, U!Update
<1>7. QED BY <1>1, <1>2, <1>3, <1>4, <1>5, <1>6 DEF ProfileInv

LEMMA MemberUpdateStep ==
  ASSUME ProfileBounds, ProfileInv, U!MemberUpdate
  PROVE  ProfileInv'
<1>1. ProfileShape'
  BY DEF ProfileBounds, ProfileInv, ProfileShape, U!Steps, U!MemberUpdate
<1>2. OneRow'
  BY DEF ProfileInv, OneRow, U!MemberUpdate
<1>3. BareGhost'
  BY DEF ProfileInv, ProfileShape, BareGhost, U!MemberUpdate
<1>4. Planned'
  BY DEF ProfileInv, Planned, Syncing, AfterName, AfterAvatar, AfterRemove, U!MemberUpdate
<1>5. Achieved'
  BY DEF ProfileInv, Planned, Achieved, Syncing, AfterName, AfterAvatar, AfterRemove, U!MemberUpdate
<1>6. U!ProfileFollowsSlack'
  BY DEF ProfileInv, ProfileShape, Planned, Achieved, U!ProfileFollowsSlack, Syncing, AfterName,
     AfterAvatar, AfterRemove, U!MemberUpdate
<1>7. QED BY <1>1, <1>2, <1>3, <1>4, <1>5, <1>6 DEF ProfileInv

LEMMA ProfileRowUpdatedStep ==
  ASSUME ProfileBounds, ProfileInv, U!RowUpdated
  PROVE  ProfileInv'
<1>1. ProfileShape'
  BY DEF ProfileInv, ProfileShape, U!Steps, U!RowUpdated
<1>2. OneRow' /\ (uRow' = {} => uRow = {})
  <2>1. CASE uRow = {}
    BY <2>1 DEF OneRow, U!RowUpdated
  <2>2. CASE \E r \in U!Profile : uRow = {r}
    <3>1. PICK r \in U!Profile : uRow = {r}
      BY <2>2
    <3>2. U!UpdatedRow(r, U!Raw(event.name), event.avatar) \in U!Profile
      BY DEF ProfileInv, ProfileShape, U!OnSlack, U!Profile, U!UpdatedRow, U!DisplayNames,
         U!AvatarOrNone, U!Raw
    <3>3. uRow' = {U!UpdatedRow(r, U!Raw(event.name), event.avatar)}
      BY <3>1 DEF U!RowUpdated
    <3>4. QED BY <3>1, <3>2, <3>3 DEF OneRow
  <2>3. QED BY <2>1, <2>2 DEF ProfileInv, OneRow
<1>3. BareGhost'
  BY <1>2 DEF ProfileInv, BareGhost, U!RowUpdated
<1>4. Planned' /\ Achieved' /\ U!ProfileFollowsSlack'
  BY DEF ProfileInv, Planned, Achieved, U!ProfileFollowsSlack, Syncing, AfterName, AfterAvatar,
     AfterRemove, U!RowUpdated
<1>5. QED BY <1>1, <1>2, <1>3, <1>4 DEF ProfileInv

LEMMA MemberRowUpdatedStep ==
  ASSUME ProfileBounds, ProfileInv, U!MemberRowUpdated
  PROVE  ProfileInv'
<1>1. ProfileShape'
  BY DEF ProfileInv, ProfileShape, U!Steps, U!MemberRowUpdated
<1>2. OneRow' /\ (uRow' = {} => uRow = {})
  <2>1. CASE uRow = {}
    BY <2>1 DEF OneRow, U!MemberRowUpdated
  <2>2. CASE \E r \in U!Profile : uRow = {r}
    <3>1. PICK r \in U!Profile : uRow = {r}
      BY <2>2
    <3>2. U!UpdatedRow(r, r.name, event.avatar) \in U!Profile
      BY DEF ProfileInv, ProfileShape, U!OnSlack, U!Profile, U!UpdatedRow, U!DisplayNames,
         U!AvatarOrNone, U!Raw
    <3>3. uRow' = {U!UpdatedRow(r, r.name, event.avatar)}
      BY <3>1 DEF U!MemberRowUpdated
    <3>4. QED BY <3>1, <3>2, <3>3 DEF OneRow
  <2>3. QED BY <2>1, <2>2 DEF ProfileInv, OneRow
<1>3. BareGhost'
  BY <1>2 DEF ProfileInv, BareGhost, U!MemberRowUpdated
<1>4. Planned' /\ Achieved' /\ U!ProfileFollowsSlack'
  BY DEF ProfileInv, Planned, Achieved, U!ProfileFollowsSlack, Syncing, AfterName, AfterAvatar,
     AfterRemove, U!MemberRowUpdated
<1>5. QED BY <1>1, <1>2, <1>3, <1>4 DEF ProfileInv

LEMMA RolesSetStep ==
  ASSUME ProfileBounds, ProfileInv, U!RolesSet
  PROVE  ProfileInv'
<1>1. ProfileShape'
  BY DEF ProfileBounds, ProfileInv, ProfileShape, U!Steps, U!RolesSet, U!Profile, U!NoProfile,
     U!Nameless, U!AvatarOrNone
<1>2. OneRow'
  BY DEF ProfileInv, OneRow, U!RolesSet
<1>3. BareGhost'
  BY DEF ProfileInv, ProfileShape, BareGhost, U!RolesSet
<1>4. Planned'
  BY DEF ProfileInv, Planned, Syncing, AfterName, AfterAvatar, AfterRemove, U!RolesSet
<1>5. Achieved'
  BY DEF ProfileInv, Planned, Achieved, Syncing, AfterName, AfterAvatar, AfterRemove, U!RolesSet
<1>6. U!ProfileFollowsSlack'
  BY DEF ProfileInv, ProfileShape, Planned, Achieved, U!ProfileFollowsSlack, Syncing, AfterName,
     AfterAvatar, AfterRemove, U!RolesSet
<1>7. QED BY <1>1, <1>2, <1>3, <1>4, <1>5, <1>6 DEF ProfileInv

LEMMA SyncStep ==
  ASSUME ProfileBounds, ProfileInv, U!Sync
  PROVE  ProfileInv'
<1>1. uSlack \in U!OnSlack /\ uFaults \in 0..MaxFaults
  BY DEF ProfileInv, ProfileShape
<1>2. CASE uRow = {}
  <2>1. believed' = {} /\ todo' = [create |-> TRUE, name |-> U!Displayed(uSlack.name),
                                   avatar |-> uSlack.avatar, remove |-> FALSE]
    BY <1>2 DEF U!Sync
  <2>2. todo' \in U!Todo
    BY <1>1, <2>1 DEF U!Todo, U!OnSlack, U!DisplayNames
  <2>3. ProfileShape'
    BY <2>1, <2>2 DEF ProfileInv, ProfileShape, U!Sync, U!Steps
  <2>4. Planned' /\ BareGhost'
    BY <1>2, <2>1 DEF ProfileInv, Planned, BareGhost, U!Sync
  <2>5. Achieved'
    BY <1>2 DEF ProfileInv, BareGhost, Achieved, U!NoProfile, U!Sync, Syncing, AfterName,
       AfterAvatar, AfterRemove
  <2>6. QED BY <2>3, <2>4, <2>5 DEF ProfileInv, OneRow, U!ProfileFollowsSlack, U!Sync
<1>3. CASE uRow # {}
  <2>1. PICK r \in uRow : /\ todo' = U!Differences(r, uSlack)
                          /\ believed' = {f \in {"name", "avatar"} :
                               \/ f = "name" /\ r.name = U!Displayed(uSlack.name)
                               \/ f = "avatar" /\ r.avatar = uSlack.avatar}
    BY <1>3 DEF U!Sync
  <2>2. r \in U!Profile
    BY DEF ProfileInv, OneRow
  <2>3. todo' \in U!Todo
    BY <1>1, <2>1, <2>2 DEF U!Differences, U!Todo, U!OnSlack, U!Profile, U!DisplayNames,
       U!AvatarOrNone
  <2>4. ProfileShape'
    BY <2>1, <2>3 DEF ProfileInv, ProfileShape, U!Sync, U!Steps
  <2>5. ~todo'.create /\ (todo'.remove => uSlack.avatar = U!None)
    BY <2>1 DEF U!Differences
  <2>6. "name" \notin believed' => todo'.name = U!Displayed(uSlack.name)
    BY <2>1 DEF U!Differences
  <2>7. "avatar" \notin believed' => /\ todo'.avatar = uSlack.avatar
                                     /\ uSlack.avatar = U!None => todo'.remove
    BY <2>1 DEF U!Differences
  <2>8. Planned' /\ BareGhost'
    BY <1>3, <2>5, <2>6, <2>7 DEF Planned, BareGhost, U!Sync
  <2>9. Achieved'
    BY <2>5 DEF Achieved, U!Sync, Syncing, AfterName, AfterAvatar, AfterRemove
  <2>10. QED BY <2>4, <2>8, <2>9 DEF ProfileInv, OneRow, U!ProfileFollowsSlack, U!Sync
<1>4. QED BY <1>2, <1>3

LEMMA WrittenStep ==
  ASSUME ProfileBounds, ProfileInv, U!Written
  PROVE  ProfileInv'
<1>1. ProfileShape'
  BY DEF ProfileBounds, ProfileInv, ProfileShape, U!Steps, U!Written
<1>2. OneRow'
  BY DEF ProfileInv, OneRow, U!Written, ProfileShape, U!Profile, U!Todo
<1>3. BareGhost'
  BY DEF ProfileInv, ProfileShape, BareGhost, U!Written
<1>4. Planned'
  BY DEF ProfileInv, Planned, Syncing, AfterName, AfterAvatar, AfterRemove, U!Written
<1>5. Achieved'
  BY DEF ProfileInv, Planned, Achieved, Syncing, AfterName, AfterAvatar, AfterRemove, U!Written
<1>6. U!ProfileFollowsSlack'
  BY DEF ProfileInv, ProfileShape, Planned, Achieved, U!ProfileFollowsSlack, Syncing, AfterName,
     AfterAvatar, AfterRemove, U!Written
<1>7. QED BY <1>1, <1>2, <1>3, <1>4, <1>5, <1>6 DEF ProfileInv

LEMMA RegisteredStep ==
  ASSUME ProfileBounds, ProfileInv, U!Registered
  PROVE  ProfileInv'
<1>1. ProfileShape'
  BY DEF ProfileBounds, ProfileInv, ProfileShape, U!Steps, U!Registered, U!Profile, U!Todo
<1>2. OneRow'
  BY DEF ProfileInv, OneRow, U!Registered
<1>3. BareGhost'
  BY DEF ProfileInv, ProfileShape, BareGhost, U!Registered
<1>4. Planned'
  BY DEF ProfileInv, Planned, Syncing, AfterName, AfterAvatar, AfterRemove, U!Registered
<1>5. Achieved'
  BY DEF ProfileInv, Planned, Achieved, Syncing, AfterName, AfterAvatar, AfterRemove, U!Registered,
     ProfileShape, U!Profile, U!Todo
<1>6. U!ProfileFollowsSlack'
  BY DEF ProfileInv, ProfileShape, Planned, Achieved, U!ProfileFollowsSlack, Syncing, AfterName,
     AfterAvatar, AfterRemove, U!Registered
<1>7. QED BY <1>1, <1>2, <1>3, <1>4, <1>5, <1>6 DEF ProfileInv

LEMMA ProfileNameSetStep ==
  ASSUME ProfileBounds, ProfileInv, U!NameSet
  PROVE  ProfileInv'
<1>1. ProfileShape'
  BY DEF ProfileBounds, ProfileInv, ProfileShape, U!Steps, U!NameSet, U!Request, U!Profile, U!Todo
<1>2. OneRow'
  BY DEF ProfileInv, OneRow, U!NameSet, U!Request
<1>3. BareGhost'
  BY DEF ProfileInv, ProfileShape, BareGhost, U!NameSet, U!Request
<1>4. Planned'
  BY DEF ProfileInv, Planned, Syncing, AfterName, AfterAvatar, AfterRemove, U!NameSet, U!Request
<1>5. Achieved'
  BY DEF ProfileInv, Planned, Achieved, Syncing, AfterName, AfterAvatar, AfterRemove, U!NameSet,
     U!Request, ProfileShape, U!Profile, U!Displayed, U!Nameless, U!Raw
<1>6. U!ProfileFollowsSlack'
  BY DEF ProfileInv, ProfileShape, Planned, Achieved, U!ProfileFollowsSlack, Syncing, AfterName,
     AfterAvatar, AfterRemove, U!NameSet, U!Request
<1>7. QED BY <1>1, <1>2, <1>3, <1>4, <1>5, <1>6 DEF ProfileInv

LEMMA AvatarSetStep ==
  ASSUME ProfileBounds, ProfileInv, U!AvatarSet
  PROVE  ProfileInv'
<1>1. ProfileShape'
  BY DEF ProfileBounds, ProfileInv, ProfileShape, U!Steps, U!AvatarSet, U!Request, U!Profile, U!Todo
<1>2. OneRow'
  BY DEF ProfileInv, OneRow, U!AvatarSet, U!Request
<1>3. BareGhost'
  BY DEF ProfileInv, ProfileShape, BareGhost, U!AvatarSet, U!Request
<1>4. Planned'
  BY DEF ProfileInv, Planned, Syncing, AfterName, AfterAvatar, AfterRemove, U!AvatarSet, U!Request
<1>5. Achieved'
  <2> SUFFICES ASSUME uFaults' = 0 PROVE Achieved'
    BY DEF Achieved
  <2>1. uFaults = 0
    BY DEF ProfileInv, ProfileShape, U!AvatarSet, U!Request
  <2>0. uStep = "avatar" /\ uStep' = "remove" /\ UNCHANGED <<event, todo, believed>>
    BY DEF U!AvatarSet, U!Request
  <2>2. ghost \in U!Profile /\ todo \in U!Todo
    BY DEF ProfileInv, ProfileShape
  <2>3. CASE todo.avatar # U!None
    <3>1. ghost' = [ghost EXCEPT !.avatar = todo.avatar]
      BY <2>1, <2>3 DEF ProfileInv, ProfileShape, U!AvatarSet, U!Request
    <3>2. ghost'.name = ghost.name
      BY <2>2, <3>1 DEF U!Profile
    <3>3. ghost'.avatar = todo.avatar
      BY <2>2, <3>1 DEF U!Profile
    <3>4. QED BY <2>0, <2>1, <2>3, <3>2, <3>3 DEF ProfileInv, Planned, Achieved, Syncing,
                 AfterName, AfterAvatar, AfterRemove
  <2>4. CASE ~(todo.avatar # U!None)
    <3>1. ghost' = ghost
      BY <2>4 DEF U!AvatarSet, U!Request
    <3>2. QED BY <2>0, <2>1, <2>4, <3>1 DEF ProfileInv, Planned, Achieved, Syncing, AfterName,
                 AfterAvatar, AfterRemove
  <2>5. QED BY <2>3, <2>4
<1>6. U!ProfileFollowsSlack'
  BY DEF ProfileInv, ProfileShape, Planned, Achieved, U!ProfileFollowsSlack, Syncing, AfterName,
     AfterAvatar, AfterRemove, U!AvatarSet, U!Request
<1>7. QED BY <1>1, <1>2, <1>3, <1>4, <1>5, <1>6 DEF ProfileInv

LEMMA AvatarRemovedStep ==
  ASSUME ProfileBounds, ProfileInv, U!AvatarRemoved
  PROVE  ProfileInv'
<1>1. ProfileShape'
  BY DEF ProfileBounds, ProfileInv, ProfileShape, U!Steps, U!AvatarRemoved, U!Request, U!Profile,
     U!Todo, U!AvatarOrNone
<1>2. OneRow'
  BY DEF ProfileInv, OneRow, U!AvatarRemoved, U!Request
<1>3. BareGhost'
  BY DEF ProfileInv, ProfileShape, BareGhost, U!AvatarRemoved, U!Request
<1>4. Planned'
  BY DEF ProfileInv, Planned, Syncing, AfterName, AfterAvatar, AfterRemove, U!AvatarRemoved,
     U!Request
<1>5. Achieved'
  <2> SUFFICES ASSUME uFaults' = 0 PROVE Achieved'
    BY DEF Achieved
  <2>1. uFaults = 0
    BY DEF ProfileInv, ProfileShape, U!AvatarRemoved, U!Request
  <2>0. uStep = "remove" /\ uStep' = "rooms" /\ UNCHANGED <<event, todo, believed>>
    BY DEF U!AvatarRemoved, U!Request
  <2>2. ghost \in U!Profile /\ todo \in U!Todo
    BY DEF ProfileInv, ProfileShape
  <2>3. CASE todo.remove
    <3>1. ghost' = [ghost EXCEPT !.avatar = U!None]
      BY <2>1, <2>3 DEF ProfileInv, ProfileShape, U!AvatarRemoved, U!Request
    <3>2. ghost'.name = ghost.name
      BY <2>2, <3>1 DEF U!Profile
    <3>3. ghost'.avatar = U!None
      BY <2>2, <3>1 DEF U!Profile
    <3>4. QED BY <2>0, <2>1, <2>3, <3>2, <3>3 DEF ProfileInv, Planned, Achieved, Syncing,
                 AfterName, AfterAvatar, AfterRemove
  <2>4. CASE ~(todo.remove)
    <3>1. ghost' = ghost
      BY <2>4 DEF U!AvatarRemoved, U!Request
    <3>2. QED BY <2>0, <2>1, <2>4, <3>1 DEF ProfileInv, Planned, Achieved, Syncing, AfterName,
                 AfterAvatar, AfterRemove
  <2>5. QED BY <2>3, <2>4
<1>6. U!ProfileFollowsSlack'
  BY DEF ProfileInv, ProfileShape, Planned, Achieved, U!ProfileFollowsSlack, Syncing, AfterName,
     AfterAvatar, AfterRemove, U!AvatarRemoved, U!Request
<1>7. QED BY <1>1, <1>2, <1>3, <1>4, <1>5, <1>6 DEF ProfileInv

LEMMA RoomsListedStep ==
  ASSUME ProfileBounds, ProfileInv, U!RoomsListed
  PROVE  ProfileInv'
<1>1. ProfileShape'
  BY DEF ProfileBounds, ProfileInv, ProfileShape, U!Steps, U!RoomsListed
<1>2. OneRow'
  BY DEF ProfileInv, OneRow, U!RoomsListed
<1>3. BareGhost'
  BY DEF ProfileInv, ProfileShape, BareGhost, U!RoomsListed
<1>4. Planned'
  BY DEF ProfileInv, Planned, Syncing, AfterName, AfterAvatar, AfterRemove, U!RoomsListed
<1>5. Achieved'
  BY DEF ProfileInv, Planned, Achieved, Syncing, AfterName, AfterAvatar, AfterRemove, U!RoomsListed
<1>6. U!ProfileFollowsSlack'
  BY DEF ProfileInv, ProfileShape, Planned, Achieved, U!ProfileFollowsSlack, Syncing, AfterName,
     AfterAvatar, AfterRemove, U!RoomsListed
<1>7. QED BY <1>1, <1>2, <1>3, <1>4, <1>5, <1>6 DEF ProfileInv

LEMMA MemberNameSetStep ==
  ASSUME ProfileBounds, ProfileInv, U!MemberNameSet
  PROVE  ProfileInv'
<1>1. ProfileShape'
  BY DEF ProfileBounds, ProfileInv, ProfileShape, U!Steps, U!MemberNameSet, U!Profile, U!Todo,
     U!AvatarOrNone
<1>2. OneRow'
  BY DEF ProfileInv, OneRow, U!MemberNameSet
<1>3. BareGhost'
  BY DEF ProfileInv, ProfileShape, BareGhost, U!MemberNameSet
<1>4. Planned'
  BY DEF ProfileInv, Planned, Syncing, AfterName, AfterAvatar, AfterRemove, U!MemberNameSet
<1>5. Achieved'
  BY DEF ProfileInv, Planned, Achieved, Syncing, AfterName, AfterAvatar, AfterRemove,
     U!MemberNameSet
<1>6. U!ProfileFollowsSlack'
  BY DEF ProfileInv, ProfileShape, Planned, Achieved, U!ProfileFollowsSlack, Syncing, AfterName,
     AfterAvatar, AfterRemove, U!MemberNameSet
<1>7. QED BY <1>1, <1>2, <1>3, <1>4, <1>5, <1>6 DEF ProfileInv

LEMMA MemberAvatarSetStep ==
  ASSUME ProfileBounds, ProfileInv, U!MemberAvatarSet
  PROVE  ProfileInv'
<1>1. ProfileShape'
  BY DEF ProfileBounds, ProfileInv, ProfileShape, U!Steps, U!MemberAvatarSet, U!Profile, U!Todo,
     U!Nameless
<1>2. OneRow'
  BY DEF ProfileInv, OneRow, U!MemberAvatarSet
<1>3. BareGhost'
  BY DEF ProfileInv, ProfileShape, BareGhost, U!MemberAvatarSet
<1>4. Planned'
  BY DEF ProfileInv, Planned, Syncing, AfterName, AfterAvatar, AfterRemove, U!MemberAvatarSet
<1>5. Achieved'
  BY DEF ProfileInv, Planned, Achieved, Syncing, AfterName, AfterAvatar, AfterRemove,
     U!MemberAvatarSet
<1>6. U!ProfileFollowsSlack'
  BY DEF ProfileInv, ProfileShape, Planned, Achieved, U!ProfileFollowsSlack, Syncing, AfterName,
     AfterAvatar, AfterRemove, U!MemberAvatarSet
<1>7. QED BY <1>1, <1>2, <1>3, <1>4, <1>5, <1>6 DEF ProfileInv

LEMMA QueryFailsStep ==
  ASSUME ProfileBounds, ProfileInv, U!QueryFails
  PROVE  ProfileInv'
<1>1. ProfileShape'
  BY DEF ProfileBounds, ProfileInv, ProfileShape, U!Steps, U!QueryFails
<1>2. OneRow'
  BY DEF ProfileInv, OneRow, U!QueryFails
<1>3. BareGhost'
  BY DEF ProfileInv, ProfileShape, BareGhost, U!QueryFails
<1>4. Planned'
  BY DEF ProfileInv, Planned, Syncing, AfterName, AfterAvatar, AfterRemove, U!QueryFails
<1>5. Achieved'
  BY DEF ProfileInv, Planned, Achieved, Syncing, AfterName, AfterAvatar, AfterRemove, U!QueryFails
<1>6. U!ProfileFollowsSlack'
  BY DEF ProfileInv, ProfileShape, Planned, Achieved, U!ProfileFollowsSlack, Syncing, AfterName,
     AfterAvatar, AfterRemove, U!QueryFails
<1>7. QED BY <1>1, <1>2, <1>3, <1>4, <1>5, <1>6 DEF ProfileInv

LEMMA ProfileInitial == ProfileBounds /\ U!Init => ProfileInv
<1> SUFFICES ASSUME ProfileBounds, U!Init PROVE ProfileInv
  OBVIOUS
<1>1. ghost \in U!Profile /\ member \in U!Profile /\ todo \in U!Todo
  BY DEF U!Init, U!NoProfile, U!Nothing, U!Profile, U!Todo, U!Nameless, U!AvatarOrNone
<1>2. ProfileShape
  BY <1>1 DEF ProfileBounds, U!Init, ProfileShape, U!Steps
<1>3. QED BY <1>2 DEF U!Init, ProfileInv, OneRow, BareGhost, Planned, Achieved,
             U!ProfileFollowsSlack,
             Syncing, AfterName, AfterAvatar, AfterRemove

LEMMA ProfileInvariance == ASSUME ProfileBounds PROVE U!Spec => []ProfileInv
<1>1. U!Init => ProfileInv
  BY ProfileInitial
<1>2. ProfileInv /\ [U!Next]_(U!vars) => ProfileInv'
  <2> SUFFICES ASSUME ProfileInv, [U!Next]_(U!vars) PROVE ProfileInv'
    OBVIOUS
  <2>1. CASE \E p \in U!OnSlack : U!Changes(p)
    BY <2>1, ProfileChangesStep
  <2>2. CASE U!Update \/ U!RowUpdated \/ U!MemberUpdate \/ U!MemberRowUpdated \/ U!RolesSet \/ U!QueryFails
    BY <2>2, ProfileUpdateStep, ProfileRowUpdatedStep, MemberUpdateStep, MemberRowUpdatedStep,
       RolesSetStep,
       QueryFailsStep
  <2>3. CASE U!Sync \/ U!Written \/ U!Registered \/ U!NameSet \/ U!AvatarSet \/ U!AvatarRemoved
    BY <2>3, SyncStep, WrittenStep, RegisteredStep, ProfileNameSetStep, AvatarSetStep,
       AvatarRemovedStep
  <2>4. CASE U!RoomsListed \/ U!MemberNameSet \/ U!MemberAvatarSet
    BY <2>4, RoomsListedStep, MemberNameSetStep, MemberAvatarSetStep
  <2>5. CASE UNCHANGED U!vars
    BY <2>5 DEF U!vars, ProfileInv, ProfileShape, OneRow, BareGhost, Planned, Achieved,
       U!ProfileFollowsSlack
  <2>6. QED BY <2>1, <2>2, <2>3, <2>4, <2>5 DEF U!Next
<1>3. QED BY <1>1, <1>2, PTL DEF U!Spec

\* UserSync counts with the operators of its own copy of FiniteSets.
LEMMA ProfileCounts ==
  ASSUME NEW X
  PROVE  U!Cardinality(X) = Cardinality(X)
  BY DEF U!Cardinality, Cardinality

\* A user has one row at most; event and step keep their types (on_user_update).
LEMMA ProfileTypes == ASSUME ProfileBounds PROVE U!Spec => []U!TypeOK
<1>1. ProfileInv => U!TypeOK
  <2> SUFFICES ASSUME ProfileInv PROVE U!TypeOK
    OBVIOUS
  <2>1. uRow \subseteq U!Profile /\ Cardinality(uRow) <= 1
    <3>1. CASE uRow = {}
      BY <3>1, FS_EmptySet
    <3>2. CASE \E r \in U!Profile : uRow = {r}
      BY <3>2, FS_Singleton
    <3>3. QED BY <3>1, <3>2 DEF ProfileInv, OneRow
  <2>2. QED BY <2>1, ProfileCounts DEF ProfileInv, ProfileShape, U!TypeOK
<1>2. QED BY <1>1, ProfileInvariance, PTL

\* Ghost and member lists follow Slack but for what the row hides (user_sync.rs).
LEMMA ProfileFollowing == ASSUME ProfileBounds PROVE U!Spec => []U!ProfileFollowsSlack
<1>1. ProfileInv => U!ProfileFollowsSlack
  BY DEF ProfileInv
<1>2. QED BY <1>1, ProfileInvariance, PTL

\* A behaviour of the services is one of UserSync.
LEMMA ProfileAlone == Spec => U!Spec
<1>1. Init => U!Init
  BY DEF Init
<1>2. [Next]_vars => [U!Next]_(U!vars)
  BY DEF Next, vars, pVars, qVars, eVars, rVars, uVars, bVars, mVars, gVars, sVars, U!vars
<1>3. QED BY <1>1, <1>2, PTL DEF Spec, U!Spec

\* For any names and avatars and any number of changes: after on_user_update has run without
\* a failure, the ghost shows what it was called with, but for a field the row has held
\* already (user_sync.rs:143).
THEOREM ProfilesFollow == Spec => []ProfileFollowsSlack
<1>1. ProfileBounds
  BY BoundsAreNat DEF ProfileBounds
<1>2. U!Spec => []U!ProfileFollowsSlack
  BY <1>1, ProfileFollowing
<1>3. U!ProfileFollowsSlack => ProfileFollowsSlack
  BY DEF ProfileFollowsSlack, Of
<1>4. QED BY <1>2, <1>3, ProfileAlone, PTL
-----------------------------------------------------------------------------
(***************************************************************************)
(* Membership.  The last event on its way that says whether the user is in *)
(* a channel agrees with Slack (LastOf, FeedTells); with none on its way   *)
(* the event in hand does (JobTells); with neither, the ghost              *)
(* (GhostTells).  A kick or a ban has each room it has not reached among   *)
(* those to do, failed or spared (Reaches).                                *)
(***************************************************************************)

MemberBounds ==
    /\ IsFiniteSet(Rooms) /\ Rooms # {}
    /\ MaxEvents \in Nat /\ MaxMoves \in Nat /\ MaxFaults \in Nat

MemberShape ==
    /\ mapped \subseteq Rooms /\ onSlack \subseteq Rooms /\ gIn \subseteq Rooms
    /\ guest \in [Rooms -> {"out", "in", "banned"}]
    /\ gFeed \in Seq(G!Event)
    /\ at \in {"idle", "list", "ghost", "delete", "moderate", "reply"}
    /\ gTodo \subseteq Rooms /\ failed \subseteq Rooms
    /\ reply \in [action : G!Commands \cup {"none"}, failed : 0..Cardinality(Rooms)]
    /\ gEvents \in 0..MaxEvents /\ moves \in 0..MaxMoves /\ gFaults \in 0..MaxFaults
    /\ astray \subseteq Rooms /\ spared \subseteq Rooms

\* The await a handler is at goes with the event in hand.
MemberInHand ==
    /\ at # "idle" => gJob \in G!Event
    /\ at = "ghost" => gJob.kind \in G!ChannelEvents \cup {"team_join", "team_leave"}
    /\ at = "ghost" /\ gJob.kind \in G!ChannelEvents => gTodo \subseteq {gJob.room}
    /\ at = "delete" => gJob.kind = "team_delete"
    /\ at \in {"list", "moderate", "reply"} => gJob.kind \in G!Commands
    /\ at \in {"idle", "list", "reply"} => gTodo = {}

\* An event that says whether the user is in the channel of r, and the last such one on
\* its way.
Tells(e, r) ==
    \/ e.kind \in G!ChannelEvents /\ e.room = r
    \/ e.kind \in {"team_leave", "team_delete"}
Silent(r) == \A i \in 1..Len(gFeed) : ~Tells(gFeed[i], r)
LastOf(i, r) == Tells(gFeed[i], r) /\ \A j \in i+1..Len(gFeed) : ~Tells(gFeed[j], r)

\* The event in hand will set the ghost in r.
WillSet(r) == at \in {"ghost", "delete"} /\ r \in gTodo /\ Tells(gJob, r)

\* The last event that tells agrees with Slack: on its way, in hand, or handled.
FeedTells == \A r \in Rooms, i \in 1..Len(gFeed) :
    LastOf(i, r) => (gFeed[i].kind = "join" <=> r \in onSlack)
JobTells == \A r \in Rooms :
    Silent(r) /\ WillSet(r) => (gJob.kind = "join" <=> r \in onSlack)
GhostTells == gFaults = 0 /\ Notify => \A r \in mapped \ astray :
    Silent(r) /\ ~WillSet(r) => (r \in gIn <=> r \in onSlack)

\* A kick or a ban reaches every room that is still mapped, but for those it has to go to,
\* has failed for, or that are spared.
Reaches == at \in {"moderate", "reply"} /\ gJob.kind \in {"kick", "ban"} =>
    \A r \in mapped : guest[r] = "in" => r \in spared \cup gTodo \cup failed

MemberInv == MemberShape /\ MemberInHand /\ FeedTells /\ JobTells /\ GhostTells /\ Reaches /\ G!ModerationTold
-----------------------------------------------------------------------------
\* Membership counts with the operators of its own copy of FiniteSets.
LEMMA MemberCounts ==
  ASSUME NEW X
  PROVE  G!Cardinality(X) = Cardinality(X)
  BY DEF G!Cardinality, Cardinality

LEMMA MemberInitial == MemberBounds /\ G!Init => MemberInv
<1> SUFFICES ASSUME MemberBounds, G!Init PROVE MemberInv
  OBVIOUS
<1>1. Cardinality(Rooms) \in Nat
  BY FS_CardinalityType DEF MemberBounds
<1>2. MemberShape
  BY <1>1 DEF MemberBounds, G!Init, MemberShape, G!NoReply
<1>3. QED BY <1>2 DEF G!Init, MemberInv, MemberInHand, FeedTells, JobTells, GhostTells, WillSet,
             Reaches,
             G!ModerationTold, G!NoReply

\* Something happens on Slack, and the event for it joins the feed.
LEMMA MemberHappensStep ==
  ASSUME MemberBounds, MemberInv, NEW e \in G!Event,
         gFeed' = Append(gFeed, e), gEvents < MaxEvents, gEvents' = gEvents + 1,
         onSlack' \subseteq Rooms,
         \A r \in Rooms : IF Tells(e, r) THEN e.kind = "join" <=> r \in onSlack'
                                        ELSE r \in onSlack' <=> r \in onSlack,
         UNCHANGED <<mapped, gIn, guest, gJob, at, gTodo, failed, reply, moves, gFaults,
                     astray, spared>>
  PROVE  MemberInv'
<1>1. gFeed \in Seq(G!Event) /\ gFeed' \in Seq(G!Event) /\ Len(gFeed') = Len(gFeed) + 1
  BY DEF MemberInv, MemberShape
<1>2. (\A i \in 1..Len(gFeed) : gFeed'[i] = gFeed[i]) /\ gFeed'[Len(gFeed) + 1] = e
  BY <1>1
<1>3. MemberShape'
  BY <1>1 DEF MemberBounds, MemberInv, MemberShape
<1>4. MemberInHand' /\ Reaches' /\ G!ModerationTold'
  BY DEF MemberInv, MemberInHand, Reaches, G!ModerationTold
<1>5. \A r \in Rooms : Silent(r)' => Silent(r) /\ ~Tells(e, r)
  BY <1>1, <1>2 DEF Silent
<1>6. JobTells' /\ GhostTells'
  <2>1. \A r : WillSet(r)' <=> WillSet(r)
    BY DEF WillSet
  <2>2. JobTells'
    BY <1>5, <2>1 DEF MemberInv, JobTells
  <2>3. mapped \subseteq Rooms
    BY DEF MemberInv, MemberShape
  <2>4. GhostTells'
    BY <1>5, <2>1, <2>3 DEF MemberInv, GhostTells
  <2>5. QED BY <2>2, <2>4
<1>7. FeedTells'
  <2> SUFFICES ASSUME NEW r \in Rooms, NEW i \in 1..Len(gFeed'), LastOf(i, r)'
               PROVE  gFeed'[i].kind = "join" <=> r \in onSlack'
    BY DEF FeedTells
  <2>1. CASE i = Len(gFeed) + 1
    BY <1>2, <2>1 DEF LastOf
  <2>2. CASE i \in 1..Len(gFeed)
    <3>1. Tells(gFeed[i], r) /\ ~Tells(e, r)
      BY <1>1, <1>2, <2>2 DEF LastOf
    <3>2. \A j \in i+1..Len(gFeed) : ~Tells(gFeed[j], r)
      BY <1>1, <1>2, <2>2 DEF LastOf
    <3>3. LastOf(i, r)
      BY <3>1, <3>2 DEF LastOf
    <3>4. QED BY <1>2, <2>2, <3>1, <3>3 DEF MemberInv, FeedTells
  <2>3. QED BY <1>1, <2>1, <2>2
<1>8. QED BY <1>3, <1>4, <1>6, <1>7 DEF MemberInv

LEMMA SlackStep ==
  ASSUME MemberBounds, MemberInv,
         \/ \E r \in Rooms : G!JoinsChannel(r) \/ G!LeavesChannel(r) \/ G!Orders(r)
         \/ G!JoinsTeam \/ G!LeavesTeam
  PROVE  MemberInv'
<1> DEFINE Ev(k, r) == [kind |-> k, room |-> r]
<1>1. onSlack \subseteq Rooms /\ G!NoRoom \in Rooms
  BY DEF MemberInv, MemberShape, MemberBounds, G!NoRoom
<1>2. \A k \in G!Commands \cup G!ChannelEvents \cup G!TeamEvents, r \in Rooms : Ev(k, r) \in G!Event
  BY DEF G!Event
<1>3. ASSUME NEW r \in Rooms, G!JoinsChannel(r) PROVE MemberInv'
  <2>1. \A s \in Rooms : Tells(Ev("join", r), s) <=> s = r
    BY DEF Tells, G!ChannelEvents
  <2>2. QED BY <1>1, <1>2, <1>3, <2>1, MemberHappensStep DEF G!JoinsChannel, G!Happens,
               G!ChannelEvents
<1>4. ASSUME NEW r \in Rooms, G!LeavesChannel(r) PROVE MemberInv'
  <2>1. \A s \in Rooms : Tells(Ev("leave", r), s) <=> s = r
    BY DEF Tells, G!ChannelEvents
  <2>2. QED BY <1>1, <1>2, <1>4, <2>1, MemberHappensStep DEF G!LeavesChannel, G!Happens,
               G!ChannelEvents
<1>5. ASSUME NEW r \in Rooms, G!Orders(r) PROVE MemberInv'
  <2>1. PICK k \in G!Commands : G!Happens(k, r)
    BY <1>5 DEF G!Orders
  <2>2. \A s \in Rooms : ~Tells(Ev(k, r), s)
    BY DEF Tells, G!ChannelEvents, G!Commands
  <2>3. QED BY <1>1, <1>2, <1>5, <2>1, <2>2, MemberHappensStep DEF G!Orders, G!Happens
<1>6. CASE G!JoinsTeam
  <2>1. \A s \in Rooms : ~Tells(Ev("team_join", G!NoRoom), s)
    BY DEF Tells, G!ChannelEvents
  <2>2. QED BY <1>1, <1>2, <1>6, <2>1, MemberHappensStep DEF G!JoinsTeam, G!Happens, G!TeamEvents
<1>7. CASE G!LeavesTeam
  <2>1. PICK k \in {"team_leave", "team_delete"} : G!Happens(k, G!NoRoom)
    BY <1>7 DEF G!LeavesTeam
  <2>2. \A s \in Rooms : Tells(Ev(k, G!NoRoom), s)
    BY DEF Tells
  <2>3. QED BY <1>1, <1>2, <1>7, <2>1, <2>2, MemberHappensStep DEF G!LeavesTeam, G!Happens,
               G!TeamEvents
<1>8. QED BY <1>3, <1>4, <1>5, <1>6, <1>7

\* The loop takes the first event: what it tells is now told by the job.
LEMMA MemberTakeStep ==
  ASSUME MemberBounds, MemberInv, G!Take
  PROVE  MemberInv'
<1> DEFINE e == Head(gFeed)
<1>1. /\ gFeed \in Seq(G!Event) /\ gFeed # <<>> /\ gFeed' = Tail(gFeed) /\ gFeed' \in Seq(G!Event)
      /\ e = gFeed[1] /\ e \in G!Event /\ Len(gFeed') = Len(gFeed) - 1 /\ 1 \in 1..Len(gFeed)
      /\ \A i \in 1..Len(gFeed') : gFeed'[i] = gFeed[i + 1] /\ i + 1 \in 1..Len(gFeed)
  BY DEF MemberInv, MemberShape, G!Take
<1>2. UNCHANGED <<mapped, onSlack, gIn, guest, failed, reply, gEvents, moves, gFaults,
                  astray, spared>>
  BY DEF G!Take
<1>3. at = "idle" /\ gTodo = {} /\ mapped \subseteq Rooms
  BY DEF G!Take, MemberInv, MemberInHand, MemberShape
<1> HIDE DEF e
<1>4. \A r \in Rooms : Silent(r)' /\ ~Tells(e, r) => Silent(r)
  <2> SUFFICES ASSUME NEW r \in Rooms, Silent(r)', ~Tells(e, r), NEW i \in 1..Len(gFeed)
               PROVE  ~Tells(gFeed[i], r)
    BY DEF Silent
  <2>1. CASE i = 1
    BY <1>1, <2>1
  <2>2. CASE i # 1
    <3>1. i - 1 \in 1..Len(gFeed') /\ gFeed'[i - 1] = gFeed[i]
      BY <1>1, <2>2
    <3>2. QED BY <3>1 DEF Silent
  <2>3. QED BY <2>1, <2>2
<1>5. \A r \in Rooms : Silent(r)' /\ Tells(e, r) => (e.kind = "join" <=> r \in onSlack)
  <2> SUFFICES ASSUME NEW r \in Rooms, Silent(r)', Tells(e, r)
               PROVE  e.kind = "join" <=> r \in onSlack
    OBVIOUS
  <2>1. \A j \in 2..Len(gFeed) : j - 1 \in 1..Len(gFeed') /\ gFeed'[j - 1] = gFeed[j]
    BY <1>1
  <2>2. \A j \in 2..Len(gFeed) : ~Tells(gFeed[j], r)
    BY <2>1 DEF Silent
  <2>3. LastOf(1, r)
    BY <1>1, <2>2 DEF LastOf
  <2>4. QED BY <1>1, <2>3 DEF MemberInv, FeedTells
<1>6. FeedTells'
  <2> SUFFICES ASSUME NEW r \in Rooms, NEW i \in 1..Len(gFeed'), LastOf(i, r)'
               PROVE  gFeed'[i].kind = "join" <=> r \in onSlack'
    BY DEF FeedTells
  <2>1. i + 1 \in 1..Len(gFeed) /\ gFeed'[i] = gFeed[i + 1]
    BY <1>1
  <2>2. \A j \in i+2..Len(gFeed) : j - 1 \in i+1..Len(gFeed') /\ gFeed'[j - 1] = gFeed[j]
    BY <1>1
  <2>3. LastOf(i + 1, r)
    BY <2>1, <2>2 DEF LastOf
  <2>4. QED BY <1>2, <2>1, <2>3 DEF MemberInv, FeedTells
\* Where the handler goes, by the kind of the event.
<1>7. /\ at' \in {"idle", "list", "ghost", "delete"} /\ gTodo' \subseteq mapped
      /\ at' # "idle" => gJob' = e
      /\ at' \in {"idle", "list"} => gTodo' = {}
      /\ at' = "ghost" => e.kind \in G!ChannelEvents \cup {"team_join", "team_leave"}
      /\ at' = "ghost" /\ e.kind \in G!ChannelEvents => gTodo' \subseteq {e.room}
      /\ at' = "delete" => e.kind = "team_delete"
      /\ at' = "list" => e.kind \in G!Commands
      /\ Notify => \A r \in mapped : Tells(e, r) => at' \in {"ghost", "delete"} /\ r \in gTodo'
  <2>1. CASE e.kind \in G!ChannelEvents
    <3>1. G!GoesTo("ghost", IF Notify THEN mapped \cap {e.room} ELSE {})
      BY <2>1 DEF G!Take, e, G!ChannelEvents, G!Commands
    <3>2. QED BY <2>1, <3>1 DEF G!GoesTo, G!Finish, Tells, G!ChannelEvents, G!Commands, e
  <2>2. CASE e.kind \in {"team_join", "team_leave"}
    <3>1. G!GoesTo("ghost", IF Notify THEN mapped ELSE {})
      BY <2>2 DEF G!Take, e, G!ChannelEvents, G!Commands
    <3>2. QED BY <2>2, <3>1 DEF G!GoesTo, G!Finish, Tells, G!ChannelEvents, G!Commands, e
  <2>3. CASE e.kind = "team_delete"
    <3>1. G!GoesTo("delete", mapped)
      BY <2>3 DEF G!Take, e, G!ChannelEvents, G!Commands
    <3>2. QED BY <2>3, <3>1 DEF G!GoesTo, G!Finish, Tells, G!ChannelEvents, G!Commands, e
  <2>4. CASE e.kind \in G!Commands
    <3>1. IF e.room \in mapped THEN at' = "list" /\ gJob' = e /\ gTodo' = {} ELSE G!Finish
      BY <2>4 DEF G!Take, e, G!ChannelEvents, G!Commands
    <3>2. QED BY <2>4, <3>1 DEF G!Finish, Tells, G!ChannelEvents, G!Commands
  <2>5. QED BY <1>1, <2>1, <2>2, <2>3, <2>4 DEF G!Event, G!TeamEvents
<1>8. MemberShape'
  BY <1>1, <1>2, <1>3, <1>7 DEF MemberInv, MemberShape
<1>9. MemberInHand'
  BY <1>1, <1>7 DEF MemberInHand
<1>10. JobTells'
  BY <1>2, <1>5, <1>7 DEF JobTells, WillSet
<1>11. GhostTells'
  <2> SUFFICES ASSUME gFaults = 0, Notify, NEW r \in mapped \ astray, Silent(r)', ~WillSet(r)'
               PROVE  r \in gIn <=> r \in onSlack
    BY <1>2 DEF GhostTells
  <2>1. ~Tells(e, r)
    BY <1>7 DEF WillSet
  <2>2. Silent(r) /\ ~WillSet(r)
    BY <1>3, <1>4, <2>1 DEF WillSet
  <2>3. QED BY <2>2 DEF MemberInv, GhostTells
<1>12. Reaches' /\ G!ModerationTold'
  BY <1>2, <1>7 DEF MemberInv, Reaches, G!ModerationTold
<1>13. QED BY <1>6, <1>8, <1>9, <1>10, <1>11, <1>12 DEF MemberInv

\* One room is done with: the others stay to be gone to.
LEMMA PastOthers ==
  ASSUME NEW r, NEW last \in {"idle", "reply"}, G!Past(r, last), MemberInHand, r \in gTodo,
         at \in {"ghost", "delete", "moderate"}
  PROVE  /\ gTodo' = gTodo \ {r}
         /\ at' = IF gTodo = {r} THEN last ELSE at
         /\ at' # "idle" => gJob' = gJob
         /\ gTodo = {r} <=> gTodo' = {}
         /\ \A s : s # r => (WillSet(s)' <=> WillSet(s))
         /\ ~WillSet(r)'
<1>1. /\ gTodo' = gTodo \ {r} /\ (gTodo = {r} <=> gTodo' = {})
      /\ gTodo = {r} => at' = last
      /\ gTodo # {r} => at' = at
      /\ at' # "idle" => gJob' = gJob
  BY DEF G!Past
<1>2. QED BY <1>1 DEF WillSet

LEMMA PastInHand ==
  ASSUME MemberInv, NEW r, NEW last \in {"idle", "reply"}, G!Past(r, last), r \in gTodo,
         at \in {"ghost", "delete", "moderate"}, last = "reply" <=> at = "moderate"
  PROVE  MemberInHand'
<1>1. /\ gTodo' = gTodo \ {r} /\ at' = (IF gTodo = {r} THEN last ELSE at)
      /\ at' # "idle" => gJob' = gJob
      /\ gTodo = {r} <=> gTodo' = {}
  BY PastOthers DEF MemberInv
<1>2. QED BY <1>1 DEF MemberInv, MemberInHand

LEMMA GhostSetStep ==
  ASSUME MemberBounds, MemberInv, NEW r \in Rooms, G!GhostSet(r)
  PROVE  MemberInv'
<1>1. /\ at = "ghost" /\ r \in gTodo /\ G!Past(r, "idle")
      /\ UNCHANGED <<mapped, onSlack, guest, gFeed, failed, reply, gEvents, moves, gFaults, spared>>
  BY DEF G!GhostSet
<1>2. /\ gTodo' = gTodo \ {r} /\ at' \in {"ghost", "idle"}
      /\ at' # "idle" => gJob' = gJob
      /\ \A s : s # r => (WillSet(s)' <=> WillSet(s))
  BY <1>1, PastOthers DEF MemberInv
<1>3. \A s : Silent(s)' <=> Silent(s)
  BY <1>1 DEF Silent
<1>4. /\ \A s : s # r => (s \in gIn' <=> s \in gIn) /\ (s \in astray' <=> s \in astray)
      /\ r \in gIn' <=> gJob.kind \in {"join", "team_join"}
      /\ gJob.kind = "team_join" /\ r \notin onSlack => r \in astray'
      /\ gIn' \subseteq gIn \cup {r} /\ astray' \subseteq astray \cup {r}
  BY DEF G!GhostSet
<1>5. MemberShape'
  BY <1>1, <1>2, <1>4 DEF MemberInv, MemberShape
<1>6. MemberInHand'
  BY <1>1, PastInHand
<1>7. FeedTells'
  BY <1>1 DEF MemberInv, FeedTells, LastOf
<1>8. JobTells'
  <2> SUFFICES ASSUME NEW s \in Rooms, Silent(s)', WillSet(s)'
               PROVE  gJob'.kind = "join" <=> s \in onSlack'
    BY DEF JobTells
  <2>1. s # r /\ gJob' = gJob
    BY <1>2 DEF WillSet
  <2>2. QED BY <1>1, <1>2, <1>3, <2>1 DEF MemberInv, JobTells
<1>9. GhostTells'
  <2> SUFFICES ASSUME gFaults = 0, Notify, NEW s \in mapped \ astray', Silent(s), ~WillSet(s)'
               PROVE  s \in gIn' <=> s \in onSlack
    BY <1>1, <1>3 DEF GhostTells
  <2>1. CASE s # r
    BY <1>2, <1>4, <2>1 DEF MemberInv, GhostTells
  <2>2. CASE s = r /\ gJob.kind = "team_join"
    BY <1>4, <2>2
  <2>3. CASE s = r /\ gJob.kind # "team_join"
    <3>1. Tells(gJob, r) /\ WillSet(r)
      BY <1>1, <2>3 DEF MemberInv, MemberInHand, Tells, WillSet
    <3>2. QED BY <1>4, <2>3, <3>1 DEF MemberInv, JobTells
  <2>4. QED BY <2>1, <2>2, <2>3
<1>10. Reaches' /\ G!ModerationTold'
  BY <1>1, <1>2 DEF MemberInv, Reaches, G!ModerationTold
<1>11. QED BY <1>5, <1>6, <1>7, <1>8, <1>9, <1>10 DEF MemberInv

\* A room that was left as it was, with a fault.
LEMMA GhostFailsStep ==
  ASSUME MemberBounds, MemberInv, NEW r \in Rooms, G!GhostFails(r)
  PROVE  MemberInv'
<1>1. /\ at = "ghost" /\ r \in gTodo /\ G!Past(r, "idle") /\ gFaults' = gFaults + 1 /\ gFaults < MaxFaults
      /\ UNCHANGED <<mapped, onSlack, gIn, guest, gFeed, failed, reply, gEvents, moves, astray, spared>>
  BY DEF G!GhostFails, G!Fault
<1>2. /\ gTodo' = gTodo \ {r} /\ at' \in {"ghost", "idle"} /\ (at' # "idle" => gJob' = gJob)
      /\ \A s : s # r => (WillSet(s)' <=> WillSet(s))
      /\ ~WillSet(r)'
  BY <1>1, PastOthers DEF MemberInv
<1>3. MemberShape' /\ gFaults' # 0
  BY <1>1, <1>2 DEF MemberBounds, MemberInv, MemberShape
<1>4. MemberInHand'
  BY <1>1, PastInHand
<1>5. FeedTells' /\ (\A s : Silent(s)' <=> Silent(s))
  BY <1>1 DEF MemberInv, FeedTells, LastOf, Silent
<1>6. JobTells'
  <2> SUFFICES ASSUME NEW s \in Rooms, Silent(s)', WillSet(s)'
               PROVE  gJob'.kind = "join" <=> s \in onSlack'
    BY DEF JobTells
  <2>1. s # r /\ gJob' = gJob
    BY <1>2 DEF WillSet
  <2>2. QED BY <1>1, <1>2, <1>5, <2>1 DEF MemberInv, JobTells
<1>7. GhostTells'
  BY <1>3 DEF GhostTells
<1>8. Reaches' /\ G!ModerationTold'
  BY <1>1, <1>2 DEF MemberInv, Reaches, G!ModerationTold
<1>9. QED BY <1>3, <1>4, <1>5, <1>6, <1>7, <1>8 DEF MemberInv

LEMMA RowDeletedStep ==
  ASSUME MemberBounds, MemberInv, NEW r \in Rooms, G!RowDeleted(r)
  PROVE  MemberInv'
<1>1. /\ at = "delete" /\ r \in gTodo /\ G!Past(r, "idle")
      /\ UNCHANGED <<onSlack, gIn, guest, gFeed, failed, reply, gEvents, moves, astray, spared>>
  BY DEF G!RowDeleted
<1>2. /\ gTodo' = gTodo \ {r} /\ at' \in {"delete", "idle"} /\ (at' # "idle" => gJob' = gJob)
      /\ \A s : s # r => (WillSet(s)' <=> WillSet(s))
      /\ ~WillSet(r)'
  BY <1>1, PastOthers DEF MemberInv
<1>3. /\ mapped' \subseteq mapped
      /\ \/ mapped' = mapped \ {r} /\ gFaults' = gFaults
         \/ gFaults' = gFaults + 1 /\ gFaults < MaxFaults
  BY DEF G!RowDeleted, G!Fault
<1>4. MemberShape'
  BY <1>1, <1>2, <1>3 DEF MemberBounds, MemberInv, MemberShape
<1>5. MemberInHand'
  BY <1>1, PastInHand
<1>6. FeedTells' /\ (\A s : Silent(s)' <=> Silent(s))
  BY <1>1 DEF MemberInv, FeedTells, LastOf, Silent
<1>7. JobTells'
  <2> SUFFICES ASSUME NEW s \in Rooms, Silent(s)', WillSet(s)'
               PROVE  gJob'.kind = "join" <=> s \in onSlack'
    BY DEF JobTells
  <2>1. s # r /\ gJob' = gJob
    BY <1>2 DEF WillSet
  <2>2. QED BY <1>1, <1>2, <1>6, <2>1 DEF MemberInv, JobTells
<1>8. GhostTells'
  <2> SUFFICES ASSUME gFaults' = 0, Notify, NEW s \in mapped' \ astray', Silent(s)', ~WillSet(s)'
               PROVE  s \in gIn' <=> s \in onSlack'
    BY DEF GhostTells
  <2>1. gFaults = 0 /\ mapped' = mapped \ {r}
    BY <1>3 DEF MemberInv, MemberShape
  <2>2. s # r /\ s \in mapped \ astray /\ Silent(s) /\ ~WillSet(s)
    BY <1>1, <1>2, <1>6, <2>1
  <2>3. QED BY <1>1, <2>1, <2>2 DEF MemberInv, GhostTells
<1>9. Reaches' /\ G!ModerationTold'
  BY <1>1, <1>2, <1>3 DEF MemberInv, Reaches, G!ModerationTold
<1>10. QED BY <1>4, <1>5, <1>6, <1>7, <1>8, <1>9 DEF MemberInv

\* A step that leaves the feed, the ghost and what the handler will set alone.
LEMMA GhostsAlone ==
  ASSUME MemberInv, UNCHANGED <<gFeed, onSlack, gIn, mapped, astray>>,
         gFaults' = 0 => gFaults = 0, \A r : ~WillSet(r) /\ ~WillSet(r)'
  PROVE  FeedTells' /\ JobTells' /\ GhostTells'
<1>1. FeedTells' /\ (\A s : Silent(s)' <=> Silent(s))
  BY DEF MemberInv, FeedTells, LastOf, Silent
<1>2. JobTells'
  BY DEF JobTells
<1>3. GhostTells'
  BY <1>1 DEF MemberInv, GhostTells
<1>4. QED BY <1>1, <1>2, <1>3

LEMMA ModerateStep ==
  ASSUME MemberBounds, MemberInv,
         G!ListsRooms \/ G!Replies \/ \E r \in Rooms : G!Moderated(r) \/ G!ModerationFails(r)
  PROVE  MemberInv'
<1>1. CASE G!ListsRooms
  <2>1. /\ at = "list" /\ at' = "moderate" /\ failed' = {} /\ reply' = G!NoReply /\ spared' = {}
        /\ mapped \subseteq gTodo' /\ gTodo' \subseteq mapped \cup {gJob.room}
        /\ UNCHANGED <<mapped, onSlack, gIn, guest, gFeed, gJob, gEvents, moves, gFaults, astray>>
    BY <1>1 DEF G!ListsRooms
  <2>2. gJob \in G!Event
    BY <2>1 DEF MemberInv, MemberInHand
  <2>3. gJob.room \in Rooms /\ Cardinality(Rooms) \in Nat
    BY <2>2, FS_CardinalityType DEF G!Event, MemberBounds
  <2>4. MemberShape'
    BY <2>1, <2>3 DEF MemberInv, MemberShape, G!NoReply
  <2>5. MemberInHand' /\ Reaches' /\ G!ModerationTold'
    BY <2>1 DEF MemberInv, MemberInHand, Reaches, G!ModerationTold, G!NoReply
  <2>6. FeedTells' /\ JobTells' /\ GhostTells'
    BY <2>1, GhostsAlone DEF WillSet
  <2>7. QED BY <2>4, <2>5, <2>6 DEF MemberInv
<1>2. CASE G!Replies
  <2>1. /\ at = "reply" /\ at' = "idle" /\ gTodo' = {} /\ failed' = {}
        /\ reply' = [action |-> gJob.kind, failed |-> Cardinality(failed)]
        /\ UNCHANGED <<mapped, onSlack, gIn, guest, gFeed, gEvents, moves, gFaults, astray, spared>>
    BY <1>2, MemberCounts DEF G!Replies, G!Finish
  <2>2. gJob.kind \in G!Commands /\ gTodo = {} /\ failed \subseteq Rooms
    BY <2>1 DEF MemberInv, MemberInHand, MemberShape
  <2>3. Cardinality(failed) \in 0..Cardinality(Rooms) /\ (Cardinality(failed) = 0 => failed = {})
    BY <2>2, FS_CardinalityType, FS_Subset, FS_EmptySet DEF MemberBounds
  <2>4. MemberShape'
    BY <2>1, <2>2, <2>3 DEF MemberInv, MemberShape
  <2>5. G!ModerationTold'
    BY <2>1, <2>2, <2>3 DEF MemberInv, Reaches, G!ModerationTold
  <2>6. MemberInHand' /\ Reaches'
    BY <2>1 DEF MemberInHand, Reaches
  <2>7. FeedTells' /\ JobTells' /\ GhostTells'
    BY <2>1, GhostsAlone DEF WillSet
  <2>8. QED BY <2>4, <2>5, <2>6, <2>7 DEF MemberInv
<1>3. ASSUME NEW r \in Rooms, G!Moderated(r) \/ G!ModerationFails(r) PROVE MemberInv'
  <2>1. /\ at = "moderate" /\ r \in gTodo /\ G!Past(r, "reply")
        /\ UNCHANGED <<mapped, onSlack, gIn, gFeed, reply, gEvents, moves, astray>>
    BY <1>3 DEF G!Moderated, G!ModerationFails
  <2>2. gTodo' = gTodo \ {r} /\ at' \in {"moderate", "reply"} /\ gJob' = gJob
    BY <2>1, PastOthers DEF MemberInv
  <2>3. MemberInHand' /\ gJob.kind \in G!Commands
    BY <2>1, PastInHand DEF MemberInv, MemberInHand
  <2>4. CASE G!Moderated(r)
    <3>1. /\ guest' = [guest EXCEPT ![r] = G!AfterCommand(gJob.kind, guest[r])]
          /\ UNCHANGED <<failed, gFaults, spared>>
      BY <2>4 DEF G!Moderated
    <3>2. guest[r] \in {"out", "in", "banned"}
      BY DEF MemberInv, MemberShape
    <3>3. /\ G!AfterCommand(gJob.kind, guest[r]) \in {"out", "in", "banned"}
          /\ G!AfterCommand(gJob.kind, guest[r]) = "in" => guest[r] = "in" /\ gJob.kind = "unban"
      BY <2>3, <3>2 DEF G!AfterCommand, G!Commands
    <3>4. MemberShape'
      BY <2>1, <2>2, <3>1, <3>3 DEF MemberInv, MemberShape
    <3>5. \A s \in Rooms : guest'[s] = "in" => guest[s] = "in" /\ (s = r => gJob.kind = "unban")
      BY <3>1, <3>3 DEF MemberInv, MemberShape
    <3>6. mapped \subseteq Rooms
      BY DEF MemberInv, MemberShape
    <3>7. Reaches' /\ G!ModerationTold'
      BY <2>1, <2>2, <3>1, <3>5, <3>6 DEF MemberInv, Reaches, G!ModerationTold
    <3>8. FeedTells' /\ JobTells' /\ GhostTells'
      BY <2>1, <2>2, <3>1, GhostsAlone DEF WillSet
    <3>9. QED BY <2>3, <3>4, <3>7, <3>8 DEF MemberInv
  <2>5. CASE G!ModerationFails(r)
    <3>1. /\ guest' = guest /\ gFaults' = gFaults + 1 /\ gFaults < MaxFaults
          /\ failed \subseteq failed' /\ failed' \subseteq failed \cup {r}
          /\ spared \subseteq spared' /\ spared' \subseteq spared \cup {r}
          /\ r \in failed' \cup spared'
      BY <2>5 DEF G!ModerationFails, G!Fault
    <3>2. MemberShape' /\ gFaults' # 0
      BY <2>1, <2>2, <3>1 DEF MemberBounds, MemberInv, MemberShape
    <3>3. Reaches' /\ G!ModerationTold'
      BY <2>1, <2>2, <3>1 DEF MemberInv, Reaches, G!ModerationTold
    <3>4. FeedTells' /\ JobTells' /\ GhostTells'
      BY <2>1, <2>2, <3>2, GhostsAlone DEF WillSet
    <3>5. QED BY <2>3, <3>2, <3>3, <3>4 DEF MemberInv
  <2>6. QED BY <1>3, <2>4, <2>5
<1>4. QED BY <1>1, <1>2, <1>3

\* People on Matrix: a room that is bridged is astray and spared.
LEMMA MatrixStep ==
  ASSUME MemberBounds, MemberInv, NEW r \in Rooms,
         G!Bridges(r) \/ G!Unbridges(r) \/ G!GuestJoins(r) \/ G!GhostKicked(r)
  PROVE  MemberInv'
<1>1. /\ UNCHANGED <<onSlack, gFeed, gJob, at, gTodo, failed, reply, gEvents, gFaults>>
      /\ moves' = moves + 1 /\ moves < MaxMoves
  BY DEF G!Bridges, G!Unbridges, G!GuestJoins, G!GhostKicked, G!Move
<1>2. /\ mapped' \subseteq mapped \cup {r} /\ (r \in mapped' => r \in mapped \cup (astray' \cap spared'))
      /\ astray \subseteq astray' /\ astray' \subseteq astray \cup {r}
      /\ spared \subseteq spared' /\ spared' \subseteq spared \cup {r}
      /\ gIn' = gIn \/ (gIn' = gIn \ {r} /\ r \in astray')
      /\ guest' = guest \/ (guest' = [guest EXCEPT ![r] = "in"] /\ r \in spared')
  BY DEF G!Bridges, G!Unbridges, G!GuestJoins, G!GhostKicked
<1>3. MemberShape'
  BY <1>1, <1>2 DEF MemberBounds, MemberInv, MemberShape
<1>4. MemberInHand'
  BY <1>1 DEF MemberInv, MemberInHand
<1>5. FeedTells' /\ (\A s : Silent(s)' <=> Silent(s)) /\ (\A s : WillSet(s)' <=> WillSet(s))
  BY <1>1 DEF MemberInv, FeedTells, LastOf, Silent, WillSet
<1>6. JobTells'
  BY <1>1, <1>5 DEF MemberInv, JobTells
<1>7. GhostTells'
  <2> SUFFICES ASSUME gFaults = 0, Notify, NEW s \in mapped' \ astray', Silent(s), ~WillSet(s)
               PROVE  s \in gIn' <=> s \in onSlack
    BY <1>1, <1>5 DEF GhostTells
  <2>1. s \in mapped \ astray /\ (s \in gIn' <=> s \in gIn)
    BY <1>2
  <2>2. QED BY <2>1 DEF MemberInv, GhostTells
<1>8. \A s \in mapped' : guest'[s] = "in" => s \in spared' \/ (s \in mapped /\ guest[s] = "in")
  BY <1>2 DEF MemberInv, MemberShape
<1>9. Reaches' /\ G!ModerationTold'
  BY <1>1, <1>2, <1>8 DEF MemberInv, Reaches, G!ModerationTold
<1>10. QED BY <1>3, <1>4, <1>5, <1>6, <1>7, <1>9 DEF MemberInv

LEMMA MemberInvariance == ASSUME MemberBounds PROVE G!Spec => []MemberInv
<1>1. G!Init => MemberInv
  BY MemberInitial
<1>2. MemberInv /\ [G!Next]_(G!vars) => MemberInv'
  <2> SUFFICES ASSUME MemberInv, [G!Next]_(G!vars) PROVE MemberInv'
    OBVIOUS
  <2>1. ASSUME NEW r \in Rooms,
               G!GhostSet(r) \/ G!GhostFails(r) \/ G!RowDeleted(r)
        PROVE  MemberInv'
    BY <2>1, GhostSetStep, GhostFailsStep, RowDeletedStep
  <2>2. ASSUME NEW r \in Rooms,
               G!Bridges(r) \/ G!Unbridges(r) \/ G!GuestJoins(r) \/ G!GhostKicked(r)
        PROVE  MemberInv'
    BY <2>2, MatrixStep
  <2>3. CASE UNCHANGED G!vars
    BY <2>3 DEF G!vars, MemberInv, MemberShape, MemberInHand, FeedTells, JobTells, GhostTells,
       Reaches,
                G!ModerationTold, Silent, LastOf, WillSet
  <2>4. QED BY <2>1, <2>2, <2>3, SlackStep, MemberTakeStep, ModerateStep DEF G!Next
<1>3. QED BY <1>1, <1>2, PTL DEF G!Spec

\* What the invariant says once the feed is empty and no handler runs.
LEMMA MemberSettled == MemberInv => G!TypeOK /\ G!GhostFollowsSlack /\ G!ModerationTold
<1> SUFFICES ASSUME MemberInv PROVE G!TypeOK /\ G!GhostFollowsSlack /\ G!ModerationTold
  OBVIOUS
<1>1. G!TypeOK
  BY MemberCounts DEF MemberInv, MemberShape, MemberInHand, G!TypeOK
<1>2. G!GhostFollowsSlack
  <2> SUFFICES ASSUME at = "idle", gFeed = <<>>, gFaults = 0, Notify, NEW r \in mapped \ astray
               PROVE  r \in gIn <=> r \in onSlack
    BY DEF G!GhostFollowsSlack
  <2>1. Silent(r) /\ ~WillSet(r)
    BY DEF Silent, WillSet
  <2>2. QED BY <2>1 DEF MemberInv, GhostTells
<1>3. QED BY <1>1, <1>2 DEF MemberInv

\* Feed, job and reply keep their types (handle_slack_guild_member_*, moderation).
LEMMA MemberTypes == ASSUME MemberBounds PROVE G!Spec => []G!TypeOK
  BY MemberInvariance, MemberSettled, PTL
\* Ghosts are where their users are, and a reply tells moderators what was done.
LEMMA MemberExplanation == ASSUME MemberBounds PROVE G!Spec => [](G!GhostFollowsSlack /\ G!ModerationTold)
  BY MemberInvariance, MemberSettled, PTL

\* A behaviour of the services is one of Membership.
LEMMA MemberAlone == Spec => G!Spec
<1>1. Init => G!Init
  BY DEF Init
<1>2. [Next]_vars => [G!Next]_(G!vars)
  BY DEF Next, vars, pVars, qVars, eVars, rVars, uVars, bVars, mVars, gVars, sVars, G!vars
<1>3. QED BY <1>1, <1>2, PTL DEF Spec, G!Spec

\* For any finite set of rooms and any number of events: with every event handled and no
\* request refused, the ghost is in the rooms of its user's channels and in no other, and a
\* moderator told that a user was kicked or banned finds the user in no bridged room, but
\* for the rooms the two properties except (bridge.rs:2727, matrix.rs:811).
THEOREM MembersExplained == Spec => []MembershipExplained
<1>1. MemberBounds
  BY BoundsAreNat, RoomsFinite DEF MemberBounds
<1>2. G!Spec => [](G!GhostFollowsSlack /\ G!ModerationTold)
  BY <1>1, MemberExplanation
<1>3. (G!GhostFollowsSlack /\ G!ModerationTold) => MembershipExplained
  BY DEF MembershipExplained, Of
<1>4. QED BY <1>2, <1>3, MemberAlone, PTL
-----------------------------------------------------------------------------
(***************************************************************************)
(* BridgeBlocker.  PauseHolds is not inductive: a state that is "Limited"  *)
(* now may be lifted by the next check.  What is kept is that a paused     *)
(* bridge that is not "Paused" has been overruled (OnlyOverruled).         *)
(***************************************************************************)

OnlyOverruled == paused /\ state # "Paused" => overruled

BlockerInv == B!TypeOK /\ OnlyOverruled
-----------------------------------------------------------------------------
LEMMA BlockerInitial == B!Bounds /\ B!Init => BlockerInv
<1> SUFFICES ASSUME B!Bounds, B!Init PROVE BlockerInv
  OBVIOUS
<1>1. B!TypeOK
  <2>1. paused \in BOOLEAN /\ overruled \in BOOLEAN
    BY Zenon DEF B!Init
  <2>2. 0 \in 0..MaxUsers /\ 0 \in 0..MaxOrders
    BY DEF B!Bounds
  <2>3. QED BY <2>1, <2>2 DEF B!Init, B!TypeOK
<1>2. OnlyOverruled
  BY Zenon DEF B!Init, OnlyOverruled
<1>3. QED BY <1>1, <1>2 DEF BlockerInv

\* Counting leaves the state alone.
LEMMA CountStep ==
  ASSUME B!Bounds, BlockerInv, NEW c \in Checks, B!UsersCounted(c) \/ B!RoomsCounted(c)
  PROVE  BlockerInv'
<1>1. B!TypeOK'
  <2>1. CASE B!UsersCounted(c)
    BY <2>1 DEF B!Bounds, BlockerInv, B!TypeOK, B!UsersCounted
  <2>2. CASE B!RoomsCounted(c)
    BY <2>2 DEF B!Bounds, BlockerInv, B!TypeOK, B!RoomsCounted
  <2>3. QED BY <2>1, <2>2
<1>2. UNCHANGED <<state, paused, overruled>>
  BY DEF B!UsersCounted, B!RoomsCounted
<1>3. OnlyOverruled'
  BY <1>2 DEF BlockerInv, OnlyOverruled
<1>4. QED BY <1>1, <1>3 DEF BlockerInv

\* A check that finds too many users overrules; one that does not keeps a pause.
LEMMA CheckedStep ==
  ASSUME B!Bounds, BlockerInv, NEW c \in Checks, B!Checked(c)
  PROVE  BlockerInv'
<1>1. counted[c] \in 0..MaxUsers /\ state \in {"Active", "Paused", "Limited"}
  BY DEF BlockerInv, B!TypeOK
<1>2. state' = B!Restored(counted[c]) /\ activeUsers' = counted[c]
  BY DEF B!Checked
<1>3. state' \in {"Active", "Paused", "Limited"}
  BY <1>1, <1>2 DEF B!Restored
<1>4. overruled' = (overruled \/ counted[c] > UserLimit) /\ paused' = paused
  BY DEF B!Checked
<1>5. B!TypeOK'
  <2>1. overruled' \in BOOLEAN /\ paused' \in BOOLEAN
    BY <1>4 DEF BlockerInv, B!TypeOK
  <2>2. users' \in 0..MaxUsers /\ orders' \in 0..MaxOrders
    BY DEF BlockerInv, B!TypeOK, B!Checked
  <2>3. check' \in [Checks -> {"idle", "rooms", "write"}]
    BY DEF BlockerInv, B!TypeOK, B!Checked
  <2>4. counted' \in [Checks -> 0..MaxUsers]
    BY DEF B!Bounds, BlockerInv, B!TypeOK, B!Checked
  <2>5. QED BY <1>1, <1>2, <1>3, <2>1, <2>2, <2>3, <2>4 DEF B!TypeOK
<1>6. OnlyOverruled'
  <2>1. CASE counted[c] > UserLimit
    BY <1>4, <2>1 DEF OnlyOverruled
  <2>2. CASE ~(counted[c] > UserLimit)
    <3>1. counted[c] <= UserLimit
      BY <1>1, <2>2 DEF B!Bounds
    <3>2. state' = IF state = "Limited" THEN "Active" ELSE state
      BY <1>2, <2>2, <3>1 DEF B!Restored
    <3>3. state' # "Paused" => state # "Paused"
      BY <3>2
    <3>4. QED BY <1>4, <2>2, <3>3 DEF BlockerInv, OnlyOverruled
  <2>3. QED BY <2>1, <2>2
<1>7. QED BY <1>5, <1>6 DEF BlockerInv

LEMMA OrderStep ==
  ASSUME B!Bounds, BlockerInv, B!Pause \/ B!Resume
  PROVE  BlockerInv'
<1>1. B!TypeOK'
  <2>1. paused' \in BOOLEAN /\ overruled' \in BOOLEAN
    BY Zenon DEF B!Pause, B!Resume
  <2>2. state' \in {"Active", "Paused", "Limited"}
    BY DEF B!Pause, B!Resume
  <2>3. orders < MaxOrders /\ orders' = orders + 1
    BY DEF B!Pause, B!Resume
  <2>4. orders' \in 0..MaxOrders
    BY <2>3 DEF B!Bounds, BlockerInv, B!TypeOK
  <2>5. UNCHANGED <<users, activeUsers, check, counted>>
    BY DEF B!Pause, B!Resume
  <2>6. QED BY <2>1, <2>2, <2>4, <2>5 DEF BlockerInv, B!TypeOK
<1>2. OnlyOverruled'
  BY Zenon DEF OnlyOverruled, B!Pause, B!Resume
<1>3. QED BY <1>1, <1>2 DEF BlockerInv

LEMMA BlockerNextInv == B!Bounds /\ BlockerInv /\ [B!Next]_(B!vars) => BlockerInv'
<1> SUFFICES ASSUME B!Bounds, BlockerInv, [B!Next]_(B!vars) PROVE BlockerInv'
  OBVIOUS
<1>1. CASE \E n \in 0..MaxUsers : B!UsersChange(n)
  BY <1>1 DEF BlockerInv, B!TypeOK, OnlyOverruled, B!UsersChange
<1>2. CASE \E c \in Checks : B!UsersCounted(c) \/ B!RoomsCounted(c)
  BY <1>2, CountStep
<1>3. CASE \E c \in Checks : B!Checked(c)
  BY <1>3, CheckedStep
<1>4. CASE B!Pause \/ B!Resume
  BY <1>4, OrderStep
<1>5. CASE UNCHANGED B!vars
  BY <1>5 DEF BlockerInv, B!TypeOK, OnlyOverruled, B!vars
<1>6. QED BY <1>1, <1>2, <1>3, <1>4, <1>5 DEF B!Next

LEMMA BlockerInvariance == ASSUME B!Bounds PROVE B!Spec => []BlockerInv
<1>1. B!Init => BlockerInv
  BY BlockerInitial
<1>2. BlockerInv /\ [B!Next]_(B!vars) => BlockerInv'
  BY BlockerNextInv
<1>3. QED BY <1>1, <1>2, PTL DEF B!Spec

LEMMA OverruledIsExcused == BlockerInv => B!PauseHolds
  BY DEF BlockerInv, OnlyOverruled, B!PauseHolds, B!AcceptsNewUser
-----------------------------------------------------------------------------
\* Whatever checks run at once, the state and the counts stay within their types
\* (check_and_update, pause, resume).
LEMMA BlockerTypes == ASSUME B!Bounds PROVE B!Spec => []B!TypeOK
<1>1. BlockerInv => B!TypeOK
  BY DEF BlockerInv
<1>2. QED BY <1>1, BlockerInvariance, PTL

\* For any number of checks under way and any limit: a bridge its operator has paused
\* takes no new user before it is resumed, unless a check has found too many users
\* meanwhile (blocker.rs:69, :76).
LEMMA BlockerPauses == ASSUME B!Bounds PROVE B!Spec => []B!PauseHolds
  BY BlockerInvariance, OverruledIsExcused, PTL

\* A behaviour of the services is one of BridgeBlocker.
LEMMA BlockerAlone == Spec => B!Spec
<1>1. Init => B!Init
  BY DEF Init
<1>2. [Next]_vars => [B!Next]_(B!vars)
  BY DEF Next, vars, pVars, qVars, eVars, rVars, uVars, bVars, mVars, gVars, sVars, B!vars
<1>3. QED BY <1>1, <1>2, PTL DEF Spec, B!Spec

\* For any number of checks under way and any limit: a bridge its operator has paused
\* takes no new user before it is resumed, unless a check has found too many users
\* meanwhile (blocker.rs:69, :76).
THEOREM PauseIsHeld == Spec => []PauseHolds
<1>1. B!Bounds
  BY BoundsAreNat DEF B!Bounds
<1>2. B!Spec => []B!PauseHolds
  BY <1>1, BlockerPauses
<1>3. B!PauseHolds => PauseHolds
  BY DEF PauseHolds, Of
<1>4. QED BY <1>2, <1>3, BlockerAlone, PTL
=============================================================================
