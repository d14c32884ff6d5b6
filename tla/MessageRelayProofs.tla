------------------------ MODULE MessageRelayProofs ------------------------
(***************************************************************************)
(* The safety properties of MessageRelay, for any number of messages,      *)
(* backfills, events and redactions.                                       *)
(*                                                                         *)
(* None of them is inductive, for each handler acts on what it read some   *)
(* awaits before.  The invariant adds what a handler still knows: the      *)
(* event it holds was sent for the message it holds, a message whose       *)
(* deletion is on its way is gone from Slack, and an event handed to the   *)
(* redactor was redacted by a user.  Nothing that is known is undone:      *)
(* events are only added, and a message that is gone never comes back.     *)
(*                                                                         *)
(* QuietMeansInSync, at the end, needs more: what the relay still owes of  *)
(* each message while nothing has failed.                                  *)
(***************************************************************************)
EXTENDS MessageRelay, TLAPS

Event == [kind : {"new", "edit"}, msg : Msgs, of : Targets]
Gone == {"deleted", "removed"}

SentFor(sent, m) == {e \in 1..Len(sent) : sent[e].msg = m}

LoopKnows(h, sent, posted) ==
    h.at # "idle" =>
        /\ h.msg \in Msgs
        /\ h.ev # None => h.ev \in SentFor(sent, h.msg)
        /\ h.at \in {"map", "redact", "unmap"} => h.ev # None
        /\ h.at \in {"redact", "unmap"} => posted[h.msg] \in Gone
        /\ h.at = "send" => h.kind \in {"new", "edit"}

FillKnows(h, sent) ==
    /\ h.at \in {"send", "map"} => h.msg \in Msgs
    /\ h.at = "map" => h.ev \in SentFor(sent, h.msg)

RedactorKnows(h, sent, posted, byUsers) ==
    /\ h.ev \in byUsers \cup {None}
    /\ h.at # "idle" =>
          /\ h.msg \in Msgs /\ h.ev \in SentFor(sent, h.msg)
          /\ h.ev \in byUsers
          /\ h.at = "unmap" => posted[h.msg] = "removed"

Queued(queue, posted) ==
    \A k \in 1..Len(queue) : queue[k].kind = "delete" => posted[queue[k].msg] \in Gone

Carried ==
    /\ LoopKnows(loop, events, slack)
    /\ \A f \in Fills : FillKnows(fill[f], events)
    /\ RedactorKnows(redactor, events, slack, userRedacted)
    /\ Queued(socket, slack)
    /\ inbox \subseteq userRedacted

IInv == TypeOK /\ Carried /\ Related /\ DeletionsHaveCause

-----------------------------------------------------------------------------
LEMMA NumsAreNat == NumMsgs \in Nat /\ MaxEvents \in Nat /\ MaxQueue \in Nat
BY BoundsAreNat

LEMMA EventTyped ==
  ASSUME events \in Seq(Event), NEW e \in 1..Len(events)
  PROVE  events[e] \in Event /\ events[e].msg \in Msgs
<1>1. events[e] \in Event
  <2> DEFINE S == Event
  <2>1. events \in Seq(S) => events[e] \in S
    <3> HIDE DEF S
    <3>1. QED OBVIOUS
  <2>2. QED BY <2>1
<1>2. QED BY <1>1 DEF Event

\* Only faults and what was posted before end a clean history.
LEMMA CleanStep == ASSUME TypeOK, Next PROVE clean' \in BOOLEAN
<1>1. clean \in BOOLEAN
  BY DEF TypeOK
<1>2. CASE UNCHANGED clean
  BY <1>1, <1>2
<1>3. CASE clean' = FALSE
  BY <1>3
<1>4. ASSUME NEW f \in Fills, Bridge(f) PROVE clean' \in BOOLEAN
  BY Zenon, <1>4 DEF Bridge
<1>5. ASSUME NEW f \in Fills, Fetch(f) PROVE clean' \in BOOLEAN
  BY Zenon, <1>5 DEF Fetch
<1>6. ASSUME NEW m \in Msgs, Post(m) \/ Edit(m) \/ DeleteOnSlack(m) PROVE UNCHANGED clean
  BY <1>6 DEF Post, Edit, DeleteOnSlack
<1>7. LoopStep => UNCHANGED clean \/ clean' = FALSE
  BY DEF LoopStep, Receive, Relay, MapRelayed, Redact, Unmap
<1>8. ASSUME NEW f \in Fills, CheckMapped(f) \/ FillSend(f) \/ FillMap(f) PROVE UNCHANGED clean
  BY <1>8 DEF CheckMapped, FillSend, FillMap
<1>9. ASSUME NEW f \in Fills, FillFails(f) PROVE clean' = FALSE
  BY <1>9 DEF FillFails
<1>10. ASSUME NEW e \in Events, UserRedacts(e) \/ HandleRedaction(e) PROVE UNCHANGED clean
  BY <1>10 DEF UserRedacts, HandleRedaction
<1>11. LoopFails \/ Unbridge \/ RedactorFails \/ Crash => clean' = FALSE
  BY DEF LoopFails, Unbridge, RedactorFails, Crash
<1>12. DeleteFromSlack \/ UnmapEvent => UNCHANGED clean
  BY DEF DeleteFromSlack, UnmapEvent
<1>13. QED BY <1>2, <1>3, <1>4, <1>5, <1>6, <1>7, <1>8, <1>9, <1>10, <1>11, <1>12
           DEF Next, BackfillStep

-----------------------------------------------------------------------------
(* What a step of one party leaves of what the others know.                *)

\* An event that is sent is one of its message; those sent before stay as they are.
LEMMA SendGrows ==
  ASSUME events \in Seq(Event), NEW kind \in {"new", "edit"}, NEW m \in Msgs,
         NEW target \in Events \cup {None}, SendToMatrix(kind, m, target)
  PROVE  /\ events' \in Seq(Event) /\ Len(events') <= MaxEvents
         /\ Len(events') \in Events /\ Len(events') = Len(events) + 1
         /\ Len(events') \in SentFor(events', m)
         /\ \A e \in 1..Len(events) : events'[e] = events[e]
         /\ events'[Len(events')].msg = m
         /\ events'[Len(events')].of = Relation(kind, target)
         /\ \A k \in Msgs : SentFor(events, k) \subseteq SentFor(events', k)
<1> DEFINE r == [kind |-> kind, msg |-> m, of |-> Relation(kind, target)]
<1>1. r \in Event /\ r.msg = m /\ r.of = Relation(kind, target)
  BY DEF Event, Relation, Targets
<1>2. events' = Append(events, r) /\ Len(events) < MaxEvents
  BY DEF SendToMatrix
<1> HIDE DEF r
<1>3. /\ events' \in Seq(Event) /\ Len(events') = Len(events) + 1 /\ Len(events) \in Nat
      /\ \A e \in 1..Len(events) : events'[e] = events[e]
      /\ events'[Len(events) + 1] = r
  BY <1>1, <1>2
<1>4. Len(events') \in Events /\ Len(events') <= MaxEvents
  BY <1>2, <1>3, NumsAreNat DEF Events
<1>5. Len(events') \in SentFor(events', m)
  BY <1>1, <1>3 DEF SentFor
<1>6. \A k \in Msgs : SentFor(events, k) \subseteq SentFor(events', k)
  BY <1>3 DEF SentFor
<1>7. QED BY <1>1, <1>3, <1>4, <1>5, <1>6

\* Knowledge survives new events, redactions and deletions.
LEMMA KnowledgeStays ==
  ASSUME NEW sent, NEW sent2, NEW posted, NEW posted2, NEW users, NEW users2,
         \A m \in Msgs : SentFor(sent, m) \subseteq SentFor(sent2, m),
         \A m \in Msgs : posted[m] \in Gone => posted2[m] = posted[m],
         users \subseteq users2
  PROVE  /\ \A h : LoopKnows(h, sent, posted) => LoopKnows(h, sent2, posted2)
         /\ \A h : FillKnows(h, sent) => FillKnows(h, sent2)
         /\ \A h : RedactorKnows(h, sent, posted, users)
                      => RedactorKnows(h, sent2, posted2, users2)
<1>1. ASSUME NEW h, LoopKnows(h, sent, posted) PROVE LoopKnows(h, sent2, posted2)
  BY <1>1 DEF LoopKnows
<1>2. ASSUME NEW h, FillKnows(h, sent) PROVE FillKnows(h, sent2)
  BY <1>2 DEF FillKnows
<1>3. ASSUME NEW h, RedactorKnows(h, sent, posted, users)
      PROVE  RedactorKnows(h, sent2, posted2, users2)
  BY <1>3 DEF RedactorKnows, Gone
<1>4. QED BY <1>1, <1>2, <1>3

\* A queue of envelopes with one more at its end.
LEMMA EmitQueues ==
  ASSUME socket \in Seq(Envelope), NEW kind \in {"new", "edit", "delete"}, NEW m \in Msgs,
         Emit(kind, m), Queued(socket, slack),
         \A k \in Msgs : slack[k] \in Gone => slack'[k] = slack[k],
         kind = "delete" => slack'[m] \in Gone
  PROVE  /\ socket' \in Seq(Envelope) /\ Len(socket') <= MaxQueue + 1
         /\ Queued(socket', slack')
<1> DEFINE env == [kind |-> kind, msg |-> m]
<1>1. env \in Envelope /\ env.kind = kind /\ env.msg = m
  BY DEF Envelope
<1>2. socket' = Append(socket, env) /\ Len(socket) <= MaxQueue
  BY DEF Emit
<1> HIDE DEF env
<1>3. /\ socket' \in Seq(Envelope) /\ Len(socket') = Len(socket) + 1 /\ Len(socket) \in Nat
      /\ \A k \in 1..Len(socket) : socket'[k] = socket[k] /\ socket[k] \in Envelope
      /\ socket'[Len(socket) + 1] = env
  BY <1>1, <1>2
<1>4. Len(socket') <= MaxQueue + 1
  BY <1>2, <1>3, NumsAreNat
<1>5. ASSUME NEW k \in 1..Len(socket'), socket'[k].kind = "delete"
      PROVE  slack'[socket'[k].msg] \in Gone
  <2>1. CASE k \in 1..Len(socket)
    BY <1>3, <1>5, <2>1 DEF Queued, Envelope
  <2>2. CASE k = Len(socket) + 1
    BY <1>1, <1>3, <1>5, <2>2
  <2>3. QED BY <1>3, <2>1, <2>2
<1>6. QED BY <1>3, <1>4, <1>5 DEF Queued

\* The rows and events stay right if none is added but rows may go.
LEMMA RelationsStay ==
  ASSUME Related, UNCHANGED events,
         \A m \in Msgs : mapping'[m] \in {mapping[m], None}
  PROVE  Related'
BY DEF Related, EventsOf

\* Deletions keep their causes if none is added.
LEMMA DeletionsStay ==
  ASSUME TypeOK, DeletionsHaveCause, UNCHANGED redacted, userRedacted \subseteq userRedacted',
         Len(events) <= Len(events') /\ Len(events') \in Nat,
         \A e \in 1..Len(events) : events'[e] = events[e],
         \A m \in Msgs : slack[m] \in Gone => slack'[m] = slack[m],
         \A m \in Msgs : slack'[m] = "removed" => slack[m] = "removed"
  PROVE  DeletionsHaveCause'
<1>1. ASSUME NEW e \in redacted
      PROVE  e <= Len(events') /\ slack'[events'[e].msg] \in Gone
  <2>1. e \in 1..Len(events) /\ slack[events[e].msg] \in Gone
    BY DEF TypeOK, DeletionsHaveCause, Events, Gone
  <2>2. events[e].msg \in Msgs
    BY <2>1, EventTyped DEF TypeOK, Event
  <2>3. QED BY <2>1, <2>2
<1>2. ASSUME NEW m \in Msgs, slack'[m] = "removed"
      PROVE  EventsOf(m)' \cap userRedacted' # {}
  <2>1. PICK e \in EventsOf(m) : e \in userRedacted
    BY <1>2 DEF DeletionsHaveCause
  <2>2. e \in EventsOf(m)'
    BY <2>1 DEF EventsOf, TypeOK
  <2>3. QED BY <2>1, <2>2
<1>3. QED BY <1>1, <1>2 DEF DeletionsHaveCause, Gone

-----------------------------------------------------------------------------
LEMMA InitIInv == Init => IInv
<1> SUFFICES ASSUME Init PROVE IInv
  OBVIOUS
<1>1. clean \in BOOLEAN /\ bridged \in BOOLEAN
  BY Zenon DEF Init
<1>2. /\ socket \in Seq(Envelope) /\ Len(socket) = 0
      /\ events \in Seq(Event) /\ Len(events) = 0
  BY DEF Init
<1>3. TypeOK
  BY <1>1, <1>2, NumsAreNat DEF Init, TypeOK, Idle, Handler, Event
<1>4. Carried
  BY <1>2 DEF Init, Carried, LoopKnows, FillKnows, RedactorKnows, Queued, Idle
<1>5. Related
  BY <1>2 DEF Init, Related
<1>6. DeletionsHaveCause
  BY DEF Init, DeletionsHaveCause
<1>7. QED BY <1>3, <1>4, <1>5, <1>6 DEF IInv

\* Slack and its users: a message that is gone stays gone.
LEMMA SlackStep ==
  ASSUME IInv, clean' \in BOOLEAN,
         NEW m \in Msgs, Post(m) \/ Edit(m) \/ DeleteOnSlack(m)
  PROVE  IInv'
<1>1. PICK kind \in {"new", "edit", "delete"} :
        /\ Emit(kind, m)
        /\ kind = "delete" => slack' = [slack EXCEPT ![m] = "deleted"]
  BY DEF Post, Edit, DeleteOnSlack
<1>2. /\ UNCHANGED <<bridged, loop, fill, inbox, redactor, mapping, events, redacted,
                     userRedacted>>
      /\ slack[m] \in {"unposted", "there"}
      /\ slack' \in {slack, [slack EXCEPT ![m] = "there"], [slack EXCEPT ![m] = "deleted"]}
  BY DEF Post, Edit, DeleteOnSlack
<1>3. /\ slack \in [Msgs -> {"unposted", "there", "deleted", "removed"}]
      /\ socket \in Seq(Envelope) /\ Queued(socket, slack)
  BY DEF IInv, TypeOK, Carried
<1>4. /\ slack' \in [Msgs -> {"unposted", "there", "deleted", "removed"}]
      /\ \A k \in Msgs : slack[k] \in Gone => slack'[k] = slack[k]
      /\ \A k \in Msgs : slack'[k] = "removed" => slack[k] = "removed"
      /\ kind = "delete" => slack'[m] \in Gone
  BY <1>1, <1>2, <1>3 DEF Gone
<1>5. socket' \in Seq(Envelope) /\ Len(socket') <= MaxQueue + 1 /\ Queued(socket', slack')
  BY <1>1, <1>3, <1>4, EmitQueues
<1>6. TypeOK'
  BY <1>2, <1>4, <1>5 DEF IInv, TypeOK
<1>7. Carried'
  BY <1>2, <1>4, <1>5, KnowledgeStays DEF IInv, Carried
<1>8. Related'
  BY <1>2, RelationsStay DEF IInv
<1>9. DeletionsHaveCause'
  BY <1>2, <1>4, DeletionsStay DEF IInv, TypeOK
<1>10. QED BY <1>6, <1>7, <1>8, <1>9 DEF IInv

-----------------------------------------------------------------------------
(* The socket loop.                                                        *)

\* What it starts to handle is what the envelope and the row say.
LEMMA ReceiveStep ==
  ASSUME IInv, clean' \in BOOLEAN, Receive
  PROVE  IInv'
<1> DEFINE env == Head(socket)
           h == [at |-> "send", kind |-> env.kind, msg |-> env.msg, ev |-> mapping[env.msg]]
<1>1. /\ UNCHANGED <<slack, bridged, fill, inbox, redactor, mapping, events, redacted,
                     userRedacted>>
      /\ socket # <<>> /\ loop' = HandlerOf(env)
      /\ socket' \in {Tail(socket), Append(Tail(socket), env)}
  BY DEF Receive
<1>2. /\ socket \in Seq(Envelope) /\ Len(socket) <= MaxQueue + 1 /\ Queued(socket, slack)
      /\ mapping \in [Msgs -> Events \cup {None}]
  BY DEF IInv, TypeOK, Carried
<1>3. /\ env \in Envelope /\ env = socket[1] /\ Len(socket) \in Nat /\ Len(socket) >= 1
      /\ Tail(socket) \in Seq(Envelope) /\ Len(Tail(socket)) = Len(socket) - 1
      /\ \A k \in 1..Len(socket) - 1 : Tail(socket)[k] = socket[k + 1]
  BY <1>1, <1>2
<1>4. env.kind \in {"new", "edit", "delete"} /\ env.msg \in Msgs
  BY <1>3 DEF Envelope
<1>5. env.kind = "delete" => slack[env.msg] \in Gone
  BY <1>2, <1>3 DEF Queued
<1> HIDE DEF env
<1>6. Queued(Tail(socket), slack)
  BY <1>2, <1>3 DEF Queued
<1>7. /\ socket' \in Seq(Envelope) /\ Len(socket') <= MaxQueue + 1
      /\ Queued(socket', slack)
  <2>1. CASE socket' = Tail(socket)
    BY <1>2, <1>3, <1>6, <2>1, NumsAreNat
  <2>2. CASE socket' = Append(Tail(socket), env)
    <3>1. /\ socket' \in Seq(Envelope) /\ Len(socket') = Len(socket)
          /\ socket'[Len(socket)] = env
          /\ \A k \in 1..Len(socket) - 1 : socket'[k] = Tail(socket)[k]
      BY <1>3, <2>2
    <3>2. Queued(socket', slack)
      BY <1>3, <1>5, <1>6, <3>1 DEF Queued
    <3>3. QED BY <1>2, <3>1, <3>2
  <2>3. QED BY <1>1, <2>1, <2>2
<1>8. mapping[env.msg] \in Events \cup {None}
  BY <1>2, <1>4
<1>9. mapping[env.msg] # None => mapping[env.msg] \in SentFor(events, env.msg)
  BY <1>4 DEF IInv, Related, EventsOf, SentFor
<1>10. \/ loop' = Idle
       \/ loop' = h /\ env.kind # "delete"
       \/ loop' = [h EXCEPT !.at = "redact"] /\ env.kind = "delete" /\ h.ev # None
  BY <1>1 DEF HandlerOf
<1>11. loop' \in Handler({"idle", "send", "map", "redact", "unmap"})
  BY <1>4, <1>8, <1>10 DEF Handler, Idle
<1>12. LoopKnows(loop', events, slack)
  BY <1>4, <1>5, <1>8, <1>9, <1>10 DEF LoopKnows, Idle
<1>13. TypeOK'
  BY <1>1, <1>7, <1>11 DEF IInv, TypeOK
<1>14. Carried'
  BY <1>1, <1>7, <1>12 DEF IInv, Carried
<1>15. Related' /\ DeletionsHaveCause'
  BY <1>1 DEF IInv, Related, DeletionsHaveCause, EventsOf
<1>16. QED BY <1>13, <1>14, <1>15 DEF IInv

\* Any send: the row of its target is one of the same message.
LEMMA SendKeeps ==
  ASSUME IInv, NEW kind \in {"new", "edit"}, NEW m \in Msgs,
         NEW target \in Events \cup {None}, SendToMatrix(kind, m, target),
         kind = "edit" /\ target # None => target \in SentFor(events, m),
         UNCHANGED <<slack, mapping, redacted, userRedacted>>
  PROVE  Related' /\ DeletionsHaveCause'
<1>1. events \in Seq(Event) /\ Len(events) \in Nat
  BY DEF IInv, TypeOK, Event
<1>2. /\ Len(events') = Len(events) + 1
      /\ \A e \in 1..Len(events) : events'[e] = events[e]
      /\ events'[Len(events')].msg = m
      /\ events'[Len(events')].of = Relation(kind, target)
      /\ \A k \in Msgs : SentFor(events, k) \subseteq SentFor(events', k)
  BY <1>1, SendGrows
<1>3. ASSUME NEW k \in Msgs, mapping'[k] # None PROVE mapping'[k] \in SentFor(events', k)
  BY <1>2, <1>3 DEF IInv, Related, EventsOf, SentFor
<1>4. ASSUME NEW e \in 1..Len(events'), events'[e].of \notin {None, Dangling}
      PROVE  events'[e].of \in SentFor(events', events'[e].msg) /\ events'[e].of < e
  <2>1. CASE e \in 1..Len(events)
    <3>1. events[e].msg \in Msgs
      BY <1>1, <2>1, EventTyped
    <3>2. events[e].of \in SentFor(events, events[e].msg) /\ events[e].of < e
      BY <1>2, <1>4, <2>1 DEF IInv, Related, EventsOf, SentFor
    <3>3. QED BY <1>2, <2>1, <3>1, <3>2
  <2>2. CASE e = Len(events')
    <3>1. target \in SentFor(events, m) /\ events'[e].of = target
      BY <1>2, <1>4, <2>2 DEF Relation
    <3>2. target < e
      BY <1>1, <1>2, <2>2, <3>1 DEF SentFor
    <3>3. QED BY <1>2, <2>2, <3>1, <3>2
  <2>3. QED BY <1>1, <1>2, <2>1, <2>2
<1>5. Related'
  BY <1>3, <1>4 DEF Related, EventsOf, SentFor
<1>6. DeletionsHaveCause'
  BY <1>1, <1>2, DeletionsStay DEF IInv
<1>7. QED BY <1>5, <1>6

LEMMA RelayStep ==
  ASSUME IInv, clean' \in BOOLEAN, Relay
  PROVE  IInv'
<1>1. /\ UNCHANGED <<slack, socket, bridged, fill, inbox, redactor, mapping, redacted,
                     userRedacted>>
      /\ loop.at = "send" /\ SendToMatrix(loop.kind, loop.msg, loop.ev)
      /\ loop' = [loop EXCEPT !.at = "map", !.ev = Len(events')]
  BY DEF Relay
<1>2. /\ loop \in Handler({"idle", "send", "map", "redact", "unmap"})
      /\ events \in Seq(Event)
  BY DEF IInv, TypeOK, Event
<1>3. /\ loop.kind \in {"new", "edit"} /\ loop.msg \in Msgs
      /\ loop.ev \in Events \cup {None}
      /\ loop.ev # None => loop.ev \in SentFor(events, loop.msg)
  BY <1>1, <1>2 DEF IInv, Carried, LoopKnows, Handler
<1>4. PICK m \in Msgs, kind \in {"new", "edit"}, target \in Events \cup {None} :
        m = loop.msg /\ kind = loop.kind /\ target = loop.ev
  BY <1>3
<1>5. SendToMatrix(kind, m, target)
  BY <1>1, <1>4
<1>6. /\ events' \in Seq(Event) /\ Len(events') <= MaxEvents /\ Len(events') \in Events
      /\ Len(events') \in SentFor(events', m)
      /\ \A k \in Msgs : SentFor(events, k) \subseteq SentFor(events', k)
  BY <1>2, <1>5, SendGrows
<1>7. /\ loop' \in Handler({"idle", "send", "map", "redact", "unmap"})
      /\ loop'.at = "map" /\ loop'.msg = m /\ loop'.ev = Len(events')
  BY <1>1, <1>2, <1>4, <1>6 DEF Handler
<1>8. LoopKnows(loop', events', slack')
  BY <1>6, <1>7 DEF LoopKnows, Events, None
<1>9. TypeOK'
  BY <1>1, <1>6, <1>7 DEF IInv, TypeOK, Event
<1>10. Carried'
  <2>1. /\ \A f \in Fills : FillKnows(fill[f], events')
        /\ RedactorKnows(redactor, events', slack, userRedacted)
    BY <1>6, KnowledgeStays DEF IInv, Carried
  <2>2. QED BY <1>1, <1>8, <2>1 DEF IInv, Carried
<1>11. Related' /\ DeletionsHaveCause'
  BY <1>1, <1>3, <1>4, <1>5, SendKeeps
<1>12. QED BY <1>9, <1>10, <1>11 DEF IInv

\* The row points to the event just sent for the message.
LEMMA MapRelayedStep ==
  ASSUME IInv, clean' \in BOOLEAN, MapRelayed
  PROVE  IInv'
<1>1. /\ UNCHANGED <<slack, socket, bridged, fill, inbox, redactor, events, redacted,
                     userRedacted>>
      /\ loop.at = "map" /\ loop' = Idle
      /\ mapping' = [mapping EXCEPT ![loop.msg] = loop.ev]
  BY DEF MapRelayed
<1>2. loop.msg \in Msgs /\ loop.ev \in SentFor(events, loop.msg) /\ loop.ev # None
  BY <1>1 DEF IInv, Carried, LoopKnows
<1>3. loop.ev \in Events
  BY <1>2 DEF IInv, TypeOK, Handler
<1>4. mapping' \in [Msgs -> Events \cup {None}]
  BY <1>1, <1>2, <1>3 DEF IInv, TypeOK
<1>5. TypeOK'
  BY <1>1, <1>4 DEF IInv, TypeOK, Idle, Handler
<1>6. Carried'
  BY <1>1 DEF IInv, Carried, LoopKnows, Idle
<1>7. Related'
  BY <1>1, <1>2 DEF IInv, TypeOK, Related, EventsOf, SentFor
<1>8. DeletionsHaveCause'
  BY <1>1 DEF IInv, DeletionsHaveCause, EventsOf
<1>9. QED BY <1>5, <1>6, <1>7, <1>8 DEF IInv

\* The event that is redacted is one of a message that is gone.
LEMMA RedactStep ==
  ASSUME IInv, clean' \in BOOLEAN, Redact
  PROVE  IInv'
<1>1. /\ UNCHANGED <<slack, socket, bridged, fill, inbox, redactor, mapping, events,
                     userRedacted>>
      /\ loop.at = "redact" /\ loop' = [loop EXCEPT !.at = "unmap"]
      /\ redacted' = redacted \cup {loop.ev}
  BY DEF Redact
<1>2. /\ loop \in Handler({"idle", "send", "map", "redact", "unmap"})
      /\ redacted \in SUBSET Events
  BY DEF IInv, TypeOK
<1>3. /\ loop.msg \in Msgs /\ loop.ev \in SentFor(events, loop.msg) /\ loop.ev # None
      /\ slack[loop.msg] \in Gone
  BY <1>1 DEF IInv, Carried, LoopKnows
<1>4. /\ loop' \in Handler({"idle", "send", "map", "redact", "unmap"})
      /\ loop'.at = "unmap" /\ loop'.msg = loop.msg /\ loop'.ev = loop.ev
  BY <1>1, <1>2 DEF Handler
<1>5. redacted' \in SUBSET Events
  BY <1>1, <1>2, <1>3 DEF Handler
<1>6. TypeOK'
  BY <1>1, <1>4, <1>5 DEF IInv, TypeOK
<1>7. Carried'
  BY <1>1, <1>3, <1>4 DEF IInv, Carried, LoopKnows
<1>8. Related'
  BY <1>1, RelationsStay DEF IInv
<1>9. loop.ev <= Len(events) /\ slack[events[loop.ev].msg] \in Gone
  BY <1>3 DEF SentFor
<1>10. DeletionsHaveCause'
  BY <1>1, <1>9 DEF IInv, DeletionsHaveCause, EventsOf, Gone
<1>11. QED BY <1>6, <1>7, <1>8, <1>10 DEF IInv

\* The end of a handler: at most its row goes.
LEMMA LoopEnds ==
  ASSUME IInv, clean' \in BOOLEAN, Unmap \/ LoopFails
  PROVE  IInv'
<1>1. /\ UNCHANGED <<slack, socket, bridged, fill, inbox, redactor, events, redacted,
                     userRedacted>>
      /\ loop' = Idle
      /\ mapping' \in {mapping, [mapping EXCEPT ![loop.msg] = None]}
  BY DEF Unmap, LoopFails
<1>2. /\ mapping' \in [Msgs -> Events \cup {None}]
      /\ \A m \in Msgs : mapping'[m] \in {mapping[m], None}
  BY <1>1 DEF IInv, TypeOK
<1>3. TypeOK'
  BY <1>1, <1>2 DEF IInv, TypeOK, Idle, Handler
<1>4. Carried'
  BY <1>1 DEF IInv, Carried, LoopKnows, Idle
<1>5. Related'
  BY <1>1, <1>2, RelationsStay DEF IInv
<1>6. DeletionsHaveCause'
  BY <1>1 DEF IInv, DeletionsHaveCause, EventsOf
<1>7. QED BY <1>3, <1>4, <1>5, <1>6 DEF IInv

-----------------------------------------------------------------------------
(* Bridging, unbridging and backfill.                                      *)
Run == [at : {"unused", "fetch", "check", "send", "map", "done"}, todo : SUBSET Msgs,
        msg : Msgs \cup {None}, ev : Events \cup {None}]

\* A step of one backfill that neither sends nor maps.
LEMMA FillKeeps ==
  ASSUME IInv, clean' \in BOOLEAN, bridged' \in BOOLEAN, NEW f \in Fills, NEW run \in Run,
         run.at \notin {"send", "map"} \/ (run.at = "send" /\ run.msg \in Msgs),
         fill' = [fill EXCEPT ![f] = run],
         UNCHANGED <<slack, socket, loop, inbox, redactor, mapping, events, redacted,
                     userRedacted>>
  PROVE  IInv'
<1>1. fill \in [Fills -> Run]
  BY DEF IInv, TypeOK, Run
<1>2. fill' \in [Fills -> Run]
  BY <1>1
<1>3. TypeOK'
  BY <1>2 DEF IInv, TypeOK, Run
<1>4. FillKnows(run, events)
  BY DEF FillKnows
<1>5. Carried'
  BY <1>1, <1>4 DEF IInv, Carried
<1>6. Related' /\ DeletionsHaveCause'
  BY DEF IInv, Related, DeletionsHaveCause, EventsOf
<1>7. QED BY <1>3, <1>5, <1>6 DEF IInv

LEMMA BridgeStep ==
  ASSUME IInv, clean' \in BOOLEAN, NEW f \in Fills, Bridge(f)
  PROVE  IInv'
<1>1. PICK run : run = [fill[f] EXCEPT !.at = "fetch"]
  OBVIOUS
<1>2. fill[f] \in Run
  BY DEF IInv, TypeOK, Run
<1>3. run \in Run /\ run.at = "fetch"
  BY <1>1, <1>2 DEF Run
<1>4. fill' = [fill EXCEPT ![f] = run]
  <2>1. fill' = [fill EXCEPT ![f].at = "fetch"]
    BY DEF Bridge
  <2>2. QED BY <1>1, <2>1 DEF IInv, TypeOK
<1>5. QED
  BY <1>3, <1>4, FillKeeps DEF Bridge

LEMMA UnbridgeStep ==
  ASSUME IInv, clean' \in BOOLEAN, Unbridge
  PROVE  IInv'
<1>1. UNCHANGED <<slack, socket, loop, fill, inbox, redactor, mapping, events, redacted,
                  userRedacted>> /\ bridged' = FALSE
  BY DEF Unbridge
<1>2. TypeOK'
  BY <1>1 DEF IInv, TypeOK
<1>3. Carried'
  BY <1>1 DEF IInv, Carried
<1>4. Related' /\ DeletionsHaveCause'
  BY <1>1 DEF IInv, Related, DeletionsHaveCause, EventsOf
<1>5. QED BY <1>2, <1>3, <1>4 DEF IInv

\* Fetching, checking and failing: what backfill will send is a message.
LEMMA BackfillReads ==
  ASSUME IInv, clean' \in BOOLEAN, NEW f \in Fills,
         Fetch(f) \/ CheckMapped(f) \/ FillFails(f)
  PROVE  IInv'
<1>1. fill[f] \in Run /\ bridged \in BOOLEAN
  BY DEF IInv, TypeOK, Run
<1>2. \E run \in Run :
        /\ FillStep(f, run)
        /\ run.at \notin {"send", "map"} \/ (run.at = "send" /\ run.msg \in Msgs)
  <2>1. CASE Fetch(f)
    <3>1. PICK history \in SUBSET Msgs :
            FillStep(f, [fill[f] EXCEPT !.at = "check", !.todo = history])
      BY <2>1 DEF Fetch
    <3>2. PICK run : run = [fill[f] EXCEPT !.at = "check", !.todo = history]
      OBVIOUS
    <3>3. run \in Run /\ run.at = "check"
      BY <1>1, <3>2 DEF Run
    <3>4. QED BY <3>1, <3>2, <3>3
  <2>2. CASE CheckMapped(f)
    <3>1. CASE FillStep(f, [fill[f] EXCEPT !.at = "done"])
      <4>1. PICK run : run = [fill[f] EXCEPT !.at = "done"]
        OBVIOUS
      <4>2. run \in Run /\ run.at = "done"
        BY <1>1, <4>1 DEF Run
      <4>3. QED BY <3>1, <4>1, <4>2
    <3>2. ASSUME NEW m \in fill[f].todo, NEW rest, rest = [fill[f] EXCEPT !.todo = @ \ {m}],
                 FillStep(f, IF mapping[m] # None THEN rest
                             ELSE [rest EXCEPT !.at = "send", !.msg = m])
          PROVE  \E run \in Run :
                   /\ FillStep(f, run)
                   /\ \/ run.at \notin {"send", "map"}
                      \/ run.at = "send" /\ run.msg \in Msgs
      <4>1. m \in Msgs /\ rest \in Run /\ rest.at = fill[f].at
        BY <1>1, <3>2 DEF Run
      <4>2. fill[f].at = "check"
        BY <2>2 DEF CheckMapped
      <4>3. PICK run : run = IF mapping[m] # None THEN rest
                             ELSE [rest EXCEPT !.at = "send", !.msg = m]
        OBVIOUS
      <4>4. /\ run \in Run
            /\ run.at = "check" \/ (run.at = "send" /\ run.msg \in Msgs)
        BY <4>1, <4>2, <4>3 DEF Run
      <4>5. QED BY <3>2, <4>3, <4>4
    <3>3. QED BY <2>2, <3>1, <3>2 DEF CheckMapped
  <2>3. CASE FillFails(f)
    <3>1. PICK todo \in SUBSET Msgs, place \in {"check", "done"} :
            FillStep(f, Resting(place, todo))
      BY <1>1, <2>3 DEF FillFails, Run
    <3>2. Resting(place, todo) \in Run /\ Resting(place, todo).at = place
      BY DEF Resting, Run
    <3>3. QED BY <3>1, <3>2
  <2>4. QED BY <2>1, <2>2, <2>3
<1>3. UNCHANGED <<mapping, events>>
  BY DEF Fetch, CheckMapped, FillFails
<1>4. QED BY <1>1, <1>2, <1>3, FillKeeps DEF FillStep

LEMMA FillSendStep ==
  ASSUME IInv, clean' \in BOOLEAN, NEW f \in Fills, FillSend(f)
  PROVE  IInv'
<1>1. fill \in [Fills -> Run] /\ events \in Seq(Event)
  BY DEF IInv, TypeOK, Run, Event
<1>2. /\ UNCHANGED <<slack, socket, bridged, loop, inbox, redactor, mapping, redacted,
                     userRedacted>>
      /\ fill[f].at = "send" /\ SendToMatrix("new", fill[f].msg, None)
      /\ fill' = [fill EXCEPT ![f] = [fill[f] EXCEPT !.at = "map", !.ev = Len(events')]]
  BY DEF FillSend, FillStep
<1>3. PICK m \in Msgs : m = fill[f].msg
  BY <1>2 DEF IInv, Carried, FillKnows
<1>4. None \in Events \cup {None} /\ SendToMatrix("new", m, None)
  BY <1>2, <1>3
<1>5. /\ events' \in Seq(Event) /\ Len(events') <= MaxEvents /\ Len(events') \in Events
      /\ Len(events') \in SentFor(events', m)
      /\ \A k \in Msgs : SentFor(events, k) \subseteq SentFor(events', k)
  BY <1>1, <1>4, SendGrows
<1>6. PICK run : run = [fill[f] EXCEPT !.at = "map", !.ev = Len(events')]
  OBVIOUS
<1>7. run \in Run /\ run.at = "map" /\ run.msg = m /\ run.ev = Len(events')
  BY <1>1, <1>3, <1>5, <1>6 DEF Run
<1>8. fill' = [fill EXCEPT ![f] = run] /\ fill' \in [Fills -> Run]
  BY <1>1, <1>2, <1>6, <1>7
<1>9. FillKnows(run, events')
  BY <1>5, <1>7 DEF FillKnows
<1>10. TypeOK'
  BY <1>2, <1>5, <1>8 DEF IInv, TypeOK, Run, Event
<1>11. Carried'
  <2>1. /\ \A g \in Fills : FillKnows(fill[g], events')
        /\ LoopKnows(loop, events', slack)
        /\ RedactorKnows(redactor, events', slack, userRedacted)
    BY <1>5, KnowledgeStays DEF IInv, Carried
  <2>2. \A g \in Fills : FillKnows(fill'[g], events')
    BY <1>1, <1>8, <1>9, <2>1
  <2>3. QED BY <1>2, <2>1, <2>2 DEF IInv, Carried
<1>12. Related' /\ DeletionsHaveCause'
  BY <1>2, <1>4, SendKeeps
<1>13. QED BY <1>10, <1>11, <1>12 DEF IInv

LEMMA FillMapStep ==
  ASSUME IInv, clean' \in BOOLEAN, NEW f \in Fills, FillMap(f)
  PROVE  IInv'
<1>1. fill \in [Fills -> Run]
  BY DEF IInv, TypeOK, Run
<1>2. /\ UNCHANGED <<slack, socket, bridged, loop, inbox, redactor, events, redacted,
                     userRedacted>>
      /\ fill[f].at = "map"
      /\ fill' = [fill EXCEPT ![f] = Resting("check", fill[f].todo)]
      /\ mapping' = [mapping EXCEPT ![fill[f].msg] = fill[f].ev]
  BY DEF FillMap, FillStep
<1>3. /\ fill[f].msg \in Msgs /\ fill[f].ev \in SentFor(events, fill[f].msg)
      /\ fill[f].ev \in Events \cup {None}
  BY <1>1, <1>2 DEF IInv, Carried, FillKnows, Run
<1>4. mapping' \in [Msgs -> Events \cup {None}]
  BY <1>2, <1>3 DEF IInv, TypeOK
<1>5. PICK run : run = Resting("check", fill[f].todo)
  OBVIOUS
<1>6. run \in Run /\ run.at = "check"
  BY <1>1, <1>5 DEF Resting, Run
<1>7. fill' = [fill EXCEPT ![f] = run] /\ fill' \in [Fills -> Run]
  BY <1>1, <1>2, <1>5, <1>6
<1>8. TypeOK'
  BY <1>2, <1>4, <1>7 DEF IInv, TypeOK, Run
<1>9. Carried'
  BY <1>1, <1>2, <1>6, <1>7 DEF IInv, Carried, FillKnows
<1>10. Related'
  BY <1>2, <1>3 DEF IInv, TypeOK, Related, EventsOf, SentFor
<1>11. DeletionsHaveCause'
  BY <1>2 DEF IInv, DeletionsHaveCause, EventsOf
<1>12. QED BY <1>8, <1>9, <1>10, <1>11 DEF IInv

-----------------------------------------------------------------------------
(* Redactions by Matrix users.                                             *)

LEMMA UserRedactsStep ==
  ASSUME IInv, clean' \in BOOLEAN, NEW e \in Events, UserRedacts(e)
  PROVE  IInv'
<1>1. /\ UNCHANGED <<slack, socket, bridged, loop, fill, redactor, mapping, events, redacted>>
      /\ userRedacted' = userRedacted \cup {e} /\ inbox' = inbox \cup {e}
  BY DEF UserRedacts
<1>2. TypeOK'
  BY <1>1 DEF IInv, TypeOK
<1>3. Carried'
  BY <1>1 DEF IInv, Carried, RedactorKnows
<1>4. Related'
  BY <1>1, RelationsStay DEF IInv
<1>5. DeletionsHaveCause'
  BY <1>1 DEF IInv, DeletionsHaveCause, EventsOf
<1>6. QED BY <1>2, <1>3, <1>4, <1>5 DEF IInv

\* The message whose row is found is the one the event was sent for.
LEMMA HandleRedactionStep ==
  ASSUME IInv, clean' \in BOOLEAN, NEW e \in Events, HandleRedaction(e)
  PROVE  IInv'
<1>1. /\ UNCHANGED <<slack, socket, bridged, loop, fill, mapping, events, redacted,
                     userRedacted>>
      /\ e \in inbox /\ inbox' = inbox \ {e}
  BY DEF HandleRedaction
<1>2. \/ redactor' = redactor
      \/ \E m \in Msgs : mapping[m] = e
             /\ redactor' = [Idle EXCEPT !.at = "delete", !.msg = m, !.ev = e]
  BY DEF HandleRedaction
<1>3. /\ redactor' \in Handler({"idle", "delete", "unmap"})
      /\ RedactorKnows(redactor', events, slack, userRedacted)
  <2>1. CASE redactor' = redactor
    BY <2>1 DEF IInv, TypeOK, Carried
  <2>2. ASSUME NEW m \in Msgs, mapping[m] = e,
               redactor' = [Idle EXCEPT !.at = "delete", !.msg = m, !.ev = e]
        PROVE  /\ redactor' \in Handler({"idle", "delete", "unmap"})
               /\ RedactorKnows(redactor', events, slack, userRedacted)
    <3>1. PICK h : h = [Idle EXCEPT !.at = "delete", !.msg = m, !.ev = e]
      OBVIOUS
    <3>2. /\ h \in Handler({"idle", "delete", "unmap"})
          /\ h.at = "delete" /\ h.msg = m /\ h.ev = e
      BY <3>1 DEF Idle, Handler
    <3>3. e \in SentFor(events, m) /\ e \in userRedacted
      BY <1>1, <2>2, NumsAreNat
         DEF IInv, Carried, Related, EventsOf, SentFor, Events, None
    <3>4. RedactorKnows(h, events, slack, userRedacted)
      BY <3>2, <3>3 DEF RedactorKnows
    <3>5. QED BY <2>2, <3>1, <3>2, <3>4
  <2>3. QED BY <1>2, <2>1, <2>2
<1>4. TypeOK'
  BY <1>1, <1>3 DEF IInv, TypeOK
<1>5. Carried'
  BY <1>1, <1>3 DEF IInv, Carried
<1>6. Related' /\ DeletionsHaveCause'
  BY <1>1 DEF IInv, Related, DeletionsHaveCause, EventsOf
<1>7. QED BY <1>4, <1>5, <1>6 DEF IInv

\* What is removed from Slack has an event a user redacted.
LEMMA DeleteFromSlackStep ==
  ASSUME IInv, clean' \in BOOLEAN, DeleteFromSlack
  PROVE  IInv'
<1>1. /\ UNCHANGED <<bridged, loop, fill, inbox, mapping, events, redacted, userRedacted>>
      /\ redactor.at = "delete"
      /\ \/ /\ slack[redactor.msg] = "there"
            /\ slack' = [slack EXCEPT ![redactor.msg] = "removed"]
            /\ Emit("delete", redactor.msg)
            /\ redactor' = [redactor EXCEPT !.at = "unmap"]
         \/ redactor' = Idle /\ UNCHANGED <<slack, socket>>
  BY DEF DeleteFromSlack
<1>2. PICK m \in Msgs : m = redactor.msg
  BY <1>1 DEF IInv, Carried, RedactorKnows
<1>3. redactor.ev \in SentFor(events, m) /\ redactor.ev \in userRedacted
  BY <1>1, <1>2 DEF IInv, Carried, RedactorKnows
<1>4. CASE redactor' = Idle /\ UNCHANGED <<slack, socket>>
  <2>1. TypeOK'
    BY <1>1, <1>4 DEF IInv, TypeOK, Idle, Handler
  <2>2. Carried'
    BY <1>1, <1>4 DEF IInv, Carried, RedactorKnows, Idle
  <2>3. Related' /\ DeletionsHaveCause'
    BY <1>1, <1>4 DEF IInv, Related, DeletionsHaveCause, EventsOf
  <2>4. QED BY <2>1, <2>2, <2>3 DEF IInv
<1>5. CASE /\ slack[redactor.msg] = "there"
           /\ slack' = [slack EXCEPT ![redactor.msg] = "removed"]
           /\ Emit("delete", redactor.msg)
           /\ redactor' = [redactor EXCEPT !.at = "unmap"]
  <2>1. /\ slack \in [Msgs -> {"unposted", "there", "deleted", "removed"}]
        /\ socket \in Seq(Envelope) /\ Queued(socket, slack)
        /\ redactor \in Handler({"idle", "delete", "unmap"})
    BY DEF IInv, TypeOK, Carried
  <2>2. /\ slack' \in [Msgs -> {"unposted", "there", "deleted", "removed"}]
        /\ slack'[m] = "removed"
        /\ \A k \in Msgs \ {m} : slack'[k] = slack[k]
        /\ \A k \in Msgs : slack[k] \in Gone => slack'[k] = slack[k]
    BY <1>2, <1>5, <2>1 DEF Gone
  <2>3. Emit("delete", m) /\ slack'[m] \in Gone
    BY <1>2, <1>5, <2>2 DEF Gone
  <2>4. socket' \in Seq(Envelope) /\ Len(socket') <= MaxQueue + 1 /\ Queued(socket', slack')
    BY <2>1, <2>2, <2>3, EmitQueues
  <2>5. /\ redactor' \in Handler({"idle", "delete", "unmap"})
        /\ redactor'.at = "unmap" /\ redactor'.msg = m /\ redactor'.ev = redactor.ev
    BY <1>2, <1>5, <2>1 DEF Handler
  <2>6. TypeOK'
    BY <1>1, <2>2, <2>4, <2>5 DEF IInv, TypeOK
  <2>7. RedactorKnows(redactor', events, slack', userRedacted)
    BY <1>3, <2>2, <2>5 DEF RedactorKnows
  <2>8. /\ LoopKnows(loop, events, slack')
        /\ \A f \in Fills : FillKnows(fill[f], events)
    BY <2>2, KnowledgeStays DEF IInv, Carried
  <2>9. Carried'
    BY <1>1, <2>4, <2>7, <2>8 DEF IInv, Carried
  <2>10. Related'
    BY <1>1, RelationsStay DEF IInv
  <2>11. DeletionsHaveCause'
    <3>1. ASSUME NEW e \in redacted
          PROVE  e <= Len(events) /\ slack'[events[e].msg] \in Gone
      <4>1. /\ e \in 1..Len(events) /\ slack[events[e].msg] \in Gone
            /\ events \in Seq(Event)
        BY DEF IInv, TypeOK, DeletionsHaveCause, Events, Gone, Event
      <4>2. events[e].msg \in Msgs
        BY <4>1, EventTyped
      <4>3. QED BY <2>2, <4>1, <4>2
    <3>2. ASSUME NEW k \in Msgs, slack'[k] = "removed"
          PROVE  EventsOf(k) \cap userRedacted # {}
      <4>1. CASE k = m
        BY <1>3, <4>1 DEF EventsOf, SentFor
      <4>2. CASE k # m
        BY <2>2, <3>2, <4>2 DEF IInv, DeletionsHaveCause
      <4>3. QED BY <4>1, <4>2
    <3>3. QED BY <1>1, <3>1, <3>2 DEF DeletionsHaveCause, EventsOf, Gone
  <2>12. QED BY <2>6, <2>9, <2>10, <2>11 DEF IInv
<1>6. QED BY <1>1, <1>4, <1>5

LEMMA RedactorEnds ==
  ASSUME IInv, clean' \in BOOLEAN, UnmapEvent \/ RedactorFails
  PROVE  IInv'
<1>1. /\ UNCHANGED <<slack, socket, bridged, loop, fill, inbox, events, redacted,
                     userRedacted>>
      /\ redactor' = Idle
      /\ \/ mapping' = mapping
         \/ mapping' = [m \in Msgs |-> IF mapping[m] = redactor.ev THEN None ELSE mapping[m]]
  BY DEF UnmapEvent, RedactorFails
<1>2. /\ mapping' \in [Msgs -> Events \cup {None}]
      /\ \A m \in Msgs : mapping'[m] \in {mapping[m], None}
  BY <1>1 DEF IInv, TypeOK
<1>3. TypeOK'
  BY <1>1, <1>2 DEF IInv, TypeOK, Idle, Handler
<1>4. Carried'
  BY <1>1 DEF IInv, Carried, RedactorKnows, Idle
<1>5. Related'
  BY <1>1, <1>2, RelationsStay DEF IInv
<1>6. DeletionsHaveCause'
  BY <1>1 DEF IInv, DeletionsHaveCause, EventsOf
<1>7. QED BY <1>3, <1>4, <1>5, <1>6 DEF IInv

\* A crash hands the redactor's event back; it was redacted by a user.
LEMMA CrashStep ==
  ASSUME IInv, clean' \in BOOLEAN, Crash
  PROVE  IInv'
<1>1. /\ UNCHANGED <<slack, socket, bridged, mapping, events, redacted, userRedacted>>
      /\ loop' = Idle /\ redactor' = Idle
      /\ fill' = [f \in Fills |-> IF fill[f].at = "unused" THEN fill[f]
                                  ELSE Resting("done", {})]
      /\ inbox' = inbox \cup ({redactor.ev} \ {None})
  BY DEF Crash
<1>2. redactor.ev \in userRedacted \cup {None} /\ redactor.ev \in Events \cup {None}
  BY DEF IInv, TypeOK, Carried, RedactorKnows, Handler
<1>3. inbox' \subseteq userRedacted /\ inbox' \in SUBSET Events
  BY <1>1, <1>2 DEF IInv, TypeOK, Carried
<1>4. fill \in [Fills -> Run]
  BY DEF IInv, TypeOK, Run
<1>5. Resting("done", {}) \in Run /\ Resting("done", {}).at = "done"
  BY DEF Resting, Run
<1>6. fill' \in [Fills -> Run] /\ \A f \in Fills : fill'[f].at \in {"unused", "done"}
  BY <1>1, <1>4, <1>5
<1>7. TypeOK'
  BY <1>1, <1>3, <1>6 DEF IInv, TypeOK, Idle, Handler, Run
<1>8. Carried'
  BY <1>1, <1>3, <1>6
     DEF IInv, Carried, LoopKnows, RedactorKnows, FillKnows, Idle
<1>9. Related' /\ DeletionsHaveCause'
  BY <1>1 DEF IInv, Related, DeletionsHaveCause, EventsOf
<1>10. QED BY <1>7, <1>8, <1>9 DEF IInv

-----------------------------------------------------------------------------
LEMMA NextIInv == IInv /\ [Next]_vars => IInv'
<1> SUFFICES ASSUME IInv, [Next]_vars PROVE IInv'
  OBVIOUS
<1>1. CASE UNCHANGED vars
  BY <1>1 DEF vars, IInv, TypeOK, Carried, Related, DeletionsHaveCause, EventsOf
<1>2. CASE Next
  <2>1. clean' \in BOOLEAN
    BY <1>2, CleanStep DEF IInv
  <2>2. ASSUME NEW m \in Msgs, Post(m) \/ Edit(m) \/ DeleteOnSlack(m) PROVE IInv'
    BY <2>1, <2>2, SlackStep
  <2>3. CASE LoopStep
    BY <2>1, <2>3, ReceiveStep, RelayStep, MapRelayedStep, RedactStep, LoopEnds DEF LoopStep
  <2>4. CASE LoopFails
    BY <2>1, <2>4, LoopEnds
  <2>5. ASSUME NEW f \in Fills, Bridge(f) \/ BackfillStep(f) \/ FillFails(f) PROVE IInv'
    BY <2>1, <2>5, BridgeStep, BackfillReads, FillSendStep, FillMapStep DEF BackfillStep
  <2>6. CASE Unbridge
    BY <2>1, <2>6, UnbridgeStep
  <2>7. ASSUME NEW e \in Events, UserRedacts(e) \/ HandleRedaction(e) PROVE IInv'
    BY <2>1, <2>7, UserRedactsStep, HandleRedactionStep
  <2>8. CASE DeleteFromSlack
    BY <2>1, <2>8, DeleteFromSlackStep
  <2>9. CASE UnmapEvent \/ RedactorFails
    BY <2>1, <2>9, RedactorEnds
  <2>10. CASE Crash
    BY <2>1, <2>10, CrashStep
  <2>11. QED BY <1>2, <2>2, <2>3, <2>4, <2>5, <2>6, <2>7, <2>8, <2>9, <2>10 DEF Next
<1>3. QED BY <1>1, <1>2

LEMMA Invariance == Spec => []IInv
<1>1. QED BY InitIInv, NextIInv, PTL DEF Spec

\* No handler sends, maps, redacts or deletes without a message to do it to, and the bounds
\* hold, for every number of messages, events and backfills.
THEOREM RelayTypeCorrect == Spec => []TypeOK
<1>1. IInv => TypeOK
  BY DEF IInv
<1>2. QED BY <1>1, Invariance, PTL

\* Only events of messages gone from Slack are redacted, and only messages with an event a
\* user redacted are removed from Slack, through faults and crashes.
THEOREM DeletionsAreCaused == Spec => []DeletionsHaveCause
<1>1. IInv => DeletionsHaveCause
  BY DEF IInv
<1>2. QED BY <1>1, Invariance, PTL

\* A step takes a message's row away only if the message is gone: the handler that unmaps
\* it knows so from the envelope, the redactor because its row led it to that message.
LEMMA RowGoesAfterMessage ==
  ASSUME IInv, Next, NEW m \in Msgs, mapping[m] # None, mapping'[m] = None
  PROVE  slack[m] # "there"
<1>1. mapping \in [Msgs -> Events \cup {None}] /\ mapping[m] \in SentFor(events, m)
  BY DEF IInv, TypeOK, Related, EventsOf, SentFor
<1>2. mapping' # mapping
  OBVIOUS
<1>3. \/ MapRelayed \/ Unmap \/ UnmapEvent
      \/ \E f \in Fills : FillMap(f)
  BY <1>2 DEF Next, LoopStep, BackfillStep, Post, Edit, DeleteOnSlack, Receive, Relay, Redact,
       LoopFails, Bridge, Unbridge, Fetch, CheckMapped, FillSend, FillFails, UserRedacts,
       HandleRedaction, DeleteFromSlack, RedactorFails, Crash
<1>4. CASE MapRelayed
  <2>1. mapping' = [mapping EXCEPT ![loop.msg] = loop.ev] /\ loop.ev # None
    BY <1>4 DEF MapRelayed, IInv, Carried, LoopKnows
  <2>2. QED BY <1>1, <2>1
<1>5. CASE Unmap
  <2>1. mapping' = [mapping EXCEPT ![loop.msg] = None] /\ slack[loop.msg] \in Gone
    BY <1>5 DEF Unmap, IInv, Carried, LoopKnows
  <2>2. loop.msg = m
    BY <1>1, <2>1
  <2>3. QED BY <2>1, <2>2 DEF Gone
<1>6. CASE UnmapEvent
  <2>1. /\ mapping' = [k \in Msgs |-> IF mapping[k] = redactor.ev THEN None ELSE mapping[k]]
        /\ redactor.ev \in SentFor(events, redactor.msg)
        /\ slack[redactor.msg] = "removed"
    BY <1>6 DEF UnmapEvent, IInv, Carried, RedactorKnows
  <2>2. mapping[m] = redactor.ev
    BY <2>1
  <2>3. m = redactor.msg
    BY <1>1, <2>1, <2>2 DEF SentFor
  <2>4. QED BY <2>1, <2>3
<1>7. ASSUME NEW f \in Fills, FillMap(f) PROVE FALSE
  <2>1. /\ mapping' = [mapping EXCEPT ![fill[f].msg] = fill[f].ev]
        /\ fill[f].ev \in SentFor(events, fill[f].msg)
    BY <1>7 DEF FillMap, IInv, Carried, FillKnows
  <2>2. fill[f].ev # None
    BY <2>1 DEF SentFor, None
  <2>3. QED BY <1>1, <2>1, <2>2
<1>8. QED BY <1>3, <1>4, <1>5, <1>6, <1>7

\* No interleaving of the three writers loses the row of a message that is still there.
THEOREM RowsOutliveMessages == Spec => MappingsOutliveMessages
<1> DEFINE Outlives ==
      \A m \in Msgs : mapping[m] # None /\ mapping'[m] = None => slack[m] # "there"
<1>1. IInv /\ [Next]_vars => [Outlives]_vars
  BY RowGoesAfterMessage
<1>2. Spec => [][Outlives]_vars
  BY <1>1, Invariance, PTL DEF Spec
<1>3. QED BY <1>2 DEF MappingsOutliveMessages

-----------------------------------------------------------------------------
(***************************************************************************)
(* Nothing is forgotten.  While nothing has failed, a message is mapped to *)
(* its newest event, unless the loop is about to map it, or the message is *)
(* gone and that event redacted (NewestMapped); a message that is there    *)
(* has an event, or one on its way (ThereRelayed); and of one that is gone *)
(* the deletion is on its way, in hand, or done (GoneRemoved).  A deletion *)
(* is the last that Slack says of a message (Ordered, DeleteIsLast), and   *)
(* backfill has had nothing to do (FillsIdle).                             *)
(***************************************************************************)
Mentions(q, m) == \E i \in 1..Len(q) : q[i].msg = m
Asks(q, kind, m) == \E i \in 1..Len(q) : q[i].kind = kind /\ q[i].msg = m
Ordered(q) == \A i, j \in 1..Len(q) : q[i].kind = "delete" /\ q[j].msg = q[i].msg => j <= i

IsLast(e, S) == e \in S /\ \A d \in S : d <= e
LoopHas(m, places) == loop.at \in places /\ loop.msg = m

\* No event of m is left to redact.
Accounted(m) ==
    \/ EventsOf(m) = {}
    \/ slack[m] \in Gone /\ \E e \in redacted \cup userRedacted : IsLast(e, EventsOf(m))

FillsIdle == \A f \in Fills : fill[f].todo = {} /\ fill[f].at \notin {"send", "map"}

LoopHasNewest ==
    /\ loop.at \in {"map", "redact", "unmap"} => IsLast(loop.ev, EventsOf(loop.msg))
    /\ loop.at = "unmap" => loop.ev \in redacted

DeleteIsLast ==
    /\ Ordered(socket)
    /\ loop.at \in {"redact", "unmap"} => ~Mentions(socket, loop.msg)

NewestMapped(m) ==
    \/ LoopHas(m, {"map"})
    \/ IsLast(mapping[m], EventsOf(m))
    \/ mapping[m] = None /\ Accounted(m)

ThereRelayed(m) == bridged /\ slack[m] = "there" /\ m \notin OwnMsgs =>
    EventsOf(m) # {} \/ Asks(socket, "new", m) \/ LoopHas(m, {"send"})

GoneRemoved(m) == slack[m] \in Gone =>
    \/ Asks(socket, "delete", m)
    \/ LoopHas(m, {"redact", "unmap"})
    \/ /\ mapping[m] = None /\ Accounted(m)
       /\ ~LoopHas(m, {"send", "map"}) /\ ~Mentions(socket, m)

InStep ==
    /\ FillsIdle /\ LoopHasNewest /\ DeleteIsLast
    /\ \A m \in Msgs : NewestMapped(m) /\ ThereRelayed(m) /\ GoneRemoved(m)

\* What a queue says with one more envelope at its end, or with one less.
LEMMA OneMoreEnvelope ==
  ASSUME NEW q \in Seq(Envelope), NEW env \in Envelope
  PROVE  /\ \A m : Mentions(Append(q, env), m) <=> Mentions(q, m) \/ m = env.msg
         /\ \A kind, m : Asks(Append(q, env), kind, m)
                            <=> Asks(q, kind, m) \/ (kind = env.kind /\ m = env.msg)
         /\ Ordered(q) /\ ~Asks(q, "delete", env.msg) => Ordered(Append(q, env))
<1> DEFINE w == Append(q, env)
<1>1. /\ Len(w) = Len(q) + 1 /\ Len(q) \in Nat /\ w[Len(q) + 1] = env
      /\ \A i \in 1..Len(q) : w[i] = q[i]
  OBVIOUS
<1> HIDE DEF w
<1>2. \A i \in 1..Len(w) : i \in 1..Len(q) \/ i = Len(q) + 1
  BY <1>1
<1>3. \A i \in 1..Len(q) : i \in 1..Len(w)
  BY <1>1
<1>4. Len(q) + 1 \in 1..Len(w)
  BY <1>1
<1>5. \A m : Mentions(w, m) <=> Mentions(q, m) \/ m = env.msg
  BY <1>1, <1>2, <1>3, <1>4 DEF Mentions
<1>6. \A kind, m : Asks(w, kind, m) <=> Asks(q, kind, m) \/ (kind = env.kind /\ m = env.msg)
  BY <1>1, <1>2, <1>3, <1>4 DEF Asks
<1>7. ASSUME Ordered(q), ~Asks(q, "delete", env.msg),
             NEW i \in 1..Len(w), NEW j \in 1..Len(w), w[i].kind = "delete", w[j].msg = w[i].msg
      PROVE  j <= i
  <2>1. CASE i = Len(q) + 1
    BY <1>1, <2>1
  <2>2. CASE i \in 1..Len(q) /\ j \in 1..Len(q)
    BY <1>1, <1>7, <2>2 DEF Ordered
  <2>3. CASE i \in 1..Len(q) /\ j = Len(q) + 1
    BY <1>1, <1>7, <2>3 DEF Asks
  <2>4. QED BY <1>2, <2>1, <2>2, <2>3
<1>8. QED BY <1>5, <1>6, <1>7 DEF w, Ordered

LEMMA OneLessEnvelope ==
  ASSUME NEW q \in Seq(Envelope), q # <<>>
  PROVE  /\ \A m : Mentions(q, m) <=> Mentions(Tail(q), m) \/ m = Head(q).msg
         /\ \A kind, m : Asks(q, kind, m)
                            <=> Asks(Tail(q), kind, m) \/ (kind = Head(q).kind /\ m = Head(q).msg)
         /\ Ordered(q) => Ordered(Tail(q)) /\ (Head(q).kind = "delete" => ~Mentions(Tail(q), Head(q).msg))
<1> DEFINE w == Tail(q)
           env == Head(q)
<1>1. /\ Len(q) = Len(w) + 1 /\ Len(w) \in Nat /\ q[1] = env
      /\ \A i \in 1..Len(w) : w[i] = q[i + 1]
  OBVIOUS
<1> HIDE DEF w, env
<1>2. \A i \in 1..Len(w) : i + 1 \in 1..Len(q) /\ ~(i + 1 <= 1)
  BY <1>1
<1>3. \A i \in 1..Len(q) : i = 1 \/ (i - 1 \in 1..Len(w) /\ w[i - 1] = q[i])
  <2> SUFFICES ASSUME NEW i \in 1..Len(q), i # 1 PROVE i - 1 \in 1..Len(w) /\ w[i - 1] = q[i]
    OBVIOUS
  <2>1. i - 1 \in 1..Len(w) /\ (i - 1) + 1 = i
    BY <1>1
  <2>2. QED BY <1>1, <2>1
<1>4. 1 \in 1..Len(q)
  BY <1>1
<1>5. \A m : Mentions(q, m) <=> Mentions(w, m) \/ m = env.msg
  BY <1>1, <1>2, <1>3, <1>4, SMTT(20) DEF Mentions
<1>6. \A kind, m : Asks(q, kind, m) <=> Asks(w, kind, m) \/ (kind = env.kind /\ m = env.msg)
  BY <1>1, <1>2, <1>3, <1>4 DEF Asks
<1>7. ASSUME Ordered(q), NEW i \in 1..Len(w), NEW j \in 1..Len(w), w[i].kind = "delete", w[j].msg = w[i].msg
      PROVE  j <= i
  <2>1. i + 1 \in 1..Len(q) /\ j + 1 \in 1..Len(q) /\ w[i] = q[i + 1] /\ w[j] = q[j + 1]
    BY <1>1, <1>2
  <2>2. j + 1 <= i + 1
    BY <1>7, <2>1 DEF Ordered
  <2>3. QED BY <2>2
<1>8. ASSUME Ordered(q), env.kind = "delete", NEW j \in 1..Len(w) PROVE w[j].msg # env.msg
  <2>1. j + 1 \in 1..Len(q) /\ ~(j + 1 <= 1) /\ w[j] = q[j + 1]
    BY <1>1, <1>2
  <2>2. QED BY <1>1, <1>4, <1>8, <2>1 DEF Ordered
<1>9. QED BY <1>5, <1>6, <1>7, <1>8 DEF w, env, Ordered, Mentions

LEMMA LastIsEvent ==
  ASSUME TypeOK, NEW m
  PROVE  ~IsLast(None, EventsOf(m))
  BY DEF IsLast, EventsOf, None

\* A step that leaves messages, rows and the loop alone.
LEMMA InStepStays ==
  ASSUME InStep, UNCHANGED <<slack, socket, loop, mapping, events>>, FillsIdle',
         redacted \subseteq redacted', userRedacted \subseteq userRedacted',
         bridged' => bridged \/ \A m \in Msgs : slack[m] # "there"
  PROVE  InStep'
<1>1. \A m : EventsOf(m)' = EventsOf(m)
  BY DEF EventsOf
<1>2. \A m, places : LoopHas(m, places)' <=> LoopHas(m, places)
  BY DEF LoopHas
<1>3. LoopHasNewest' /\ DeleteIsLast'
  BY <1>1 DEF InStep, LoopHasNewest, DeleteIsLast
<1>4. ASSUME NEW m \in Msgs
      PROVE  NewestMapped(m)' /\ ThereRelayed(m)' /\ GoneRemoved(m)'
  <2>1. Accounted(m) => Accounted(m)'
    BY <1>1 DEF Accounted
  <2>2. NewestMapped(m) /\ ThereRelayed(m) /\ GoneRemoved(m)
    BY DEF InStep
  <2>3. NewestMapped(m)'
    BY <1>1, <1>2, <2>1, <2>2 DEF NewestMapped
  <2>4. ThereRelayed(m)'
    BY <1>1, <1>2, <2>2 DEF ThereRelayed
  <2>5. GoneRemoved(m)'
    BY <1>2, <2>1, <2>2 DEF GoneRemoved
  <2>6. QED BY <2>3, <2>4, <2>5
<1>5. QED BY <1>3, <1>4 DEF InStep

\* Slack says something of a message that is not gone.
LEMMA InStepEmits ==
  ASSUME IInv, InStep, NEW m \in Msgs, NEW kind \in {"new", "edit", "delete"}, Emit(kind, m),
         UNCHANGED <<bridged, loop, fill, mapping, events, redacted, userRedacted>>,
         slack[m] \notin Gone, \A k \in Msgs : k # m => slack'[k] = slack[k],
         slack'[m] \in Gone => kind = "delete",
         slack'[m] = "there" => kind = "new" \/ slack[m] = "there"
  PROVE  InStep'
<1> DEFINE env == [kind |-> kind, msg |-> m]
<1>1. env \in Envelope /\ env.kind = kind /\ env.msg = m
  BY DEF Envelope
<1>2. socket' = Append(socket, env) /\ socket \in Seq(Envelope)
  BY DEF Emit, IInv, TypeOK
<1> HIDE DEF env
<1>3. ~Asks(socket, "delete", m)
  BY DEF IInv, Carried, Queued, Asks
<1>4. /\ \A k : Mentions(socket', k) <=> Mentions(socket, k) \/ k = m
      /\ \A k, kd : Asks(socket', kd, k) <=> Asks(socket, kd, k) \/ (kd = kind /\ k = m)
      /\ Ordered(socket')
  BY <1>1, <1>2, <1>3, OneMoreEnvelope DEF InStep, DeleteIsLast
<1>5. \A k : EventsOf(k)' = EventsOf(k)
  BY DEF EventsOf
<1>6. \A k, places : LoopHas(k, places)' <=> LoopHas(k, places)
  BY DEF LoopHas
<1>7. loop.at \in {"redact", "unmap"} => loop.msg # m
  BY DEF IInv, Carried, LoopKnows
<1>8. FillsIdle' /\ LoopHasNewest'
  BY <1>5 DEF InStep, FillsIdle, LoopHasNewest
<1>9. DeleteIsLast'
  BY <1>4, <1>7 DEF InStep, DeleteIsLast
<1>10. ASSUME NEW k \in Msgs
       PROVE  NewestMapped(k)' /\ ThereRelayed(k)' /\ GoneRemoved(k)'
  <2>1. Accounted(k) => Accounted(k)'
    <3>1. CASE k = m
      BY <1>5, <3>1 DEF Accounted
    <3>2. CASE k # m
      BY <1>5, <3>2 DEF Accounted
    <3>3. QED BY <3>1, <3>2
  <2>2. NewestMapped(k) /\ ThereRelayed(k) /\ GoneRemoved(k)
    BY DEF InStep
  <2>3. NewestMapped(k)'
    BY <1>5, <1>6, <2>1, <2>2 DEF NewestMapped
  <2>4. ThereRelayed(k)'
    BY <1>4, <1>5, <1>6, <2>2 DEF ThereRelayed
  <2>5. GoneRemoved(k)'
    <3>1. CASE k = m
      BY <1>4, <3>1 DEF GoneRemoved
    <3>2. CASE k # m
      BY <1>4, <1>6, <2>1, <2>2, <3>2 DEF GoneRemoved
    <3>3. QED BY <3>1, <3>2
  <2>6. QED BY <2>3, <2>4, <2>5
<1>11. QED BY <1>8, <1>9, <1>10 DEF InStep

\* The loop takes an envelope: what it said of the message is in hand now, or needs nothing.
LEMMA InStepReceives ==
  ASSUME IInv, InStep, Receive, clean'
  PROVE  InStep'
<1> DEFINE env == Head(socket)
           rest == Tail(socket)
<1>1. /\ UNCHANGED <<slack, bridged, fill, mapping, events, redacted, userRedacted>>
      /\ loop.at = "idle" /\ socket # <<>> /\ loop' = HandlerOf(env) /\ socket' = rest
  BY DEF Receive
<1>2. socket \in Seq(Envelope) /\ env \in Envelope
  BY <1>1 DEF IInv, TypeOK
<1>3. /\ \A k : Mentions(socket, k) <=> Mentions(rest, k) \/ k = env.msg
      /\ \A k, kd : Asks(socket, kd, k) <=> Asks(rest, kd, k) \/ (kd = env.kind /\ k = env.msg)
      /\ Ordered(rest) /\ (env.kind = "delete" => ~Mentions(rest, env.msg))
  BY <1>1, <1>2, OneLessEnvelope DEF InStep, DeleteIsLast
<1> HIDE DEF env, rest
<1>4. env.kind \in {"new", "edit", "delete"} /\ env.msg \in Msgs
  BY <1>2 DEF Envelope
<1>5. /\ loop'.at \in {"idle", "send", "redact"}
      /\ loop'.at # "idle" => loop'.msg = env.msg /\ loop'.ev = mapping[env.msg]
      /\ loop'.at = "redact" <=> env.kind = "delete" /\ mapping[env.msg] # None
      /\ loop'.at = "send" <=> env.kind # "delete" /\ env.msg \notin OwnMsgs /\ bridged
  BY <1>1, <1>4 DEF HandlerOf, Idle
<1>6. \A k : EventsOf(k)' = EventsOf(k)
  BY <1>1 DEF EventsOf
<1>7. \A k : Accounted(k)' <=> Accounted(k)
  BY <1>1, <1>6 DEF Accounted
<1>8. \A k, places : LoopHas(k, places) => "idle" \in places
  BY <1>1 DEF LoopHas
<1>9. \A k \in Msgs : IsLast(mapping[k], EventsOf(k)) \/ (mapping[k] = None /\ Accounted(k))
  BY <1>8 DEF InStep, NewestMapped
<1>10. FillsIdle' /\ DeleteIsLast'
  BY <1>1, <1>3, <1>5 DEF InStep, FillsIdle, DeleteIsLast
<1>11. LoopHasNewest'
  BY <1>4, <1>5, <1>6, <1>9 DEF LoopHasNewest
<1>12. ASSUME NEW k \in Msgs
       PROVE  NewestMapped(k)' /\ ThereRelayed(k)' /\ GoneRemoved(k)'
  <2>1. NewestMapped(k)'
    BY <1>1, <1>6, <1>7, <1>9 DEF NewestMapped
  <2>2. ThereRelayed(k)'
    <3> SUFFICES ASSUME bridged, slack[k] = "there", k \notin OwnMsgs, EventsOf(k) = {},
                        ~Asks(rest, "new", k)
                 PROVE  LoopHas(k, {"send"})'
      BY <1>1, <1>6 DEF ThereRelayed
    <3>1. Asks(socket, "new", k)
      BY <1>8 DEF InStep, ThereRelayed
    <3>2. env.kind = "new" /\ env.msg = k
      BY <1>3, <3>1
    <3>3. QED BY <1>5, <3>2 DEF LoopHas
  <2>3. GoneRemoved(k)'
    <3> SUFFICES ASSUME slack[k] \in Gone, ~Asks(rest, "delete", k)
                 PROVE  \/ LoopHas(k, {"redact", "unmap"})'
                        \/ /\ mapping[k] = None /\ Accounted(k)
                           /\ ~LoopHas(k, {"send", "map"})' /\ ~Mentions(rest, k)
      BY <1>1, <1>7 DEF GoneRemoved
    <3>1. CASE Asks(socket, "delete", k)
      <4>1. env.kind = "delete" /\ env.msg = k
        BY <1>3, <3>1
      <4>2. CASE mapping[k] # None
        BY <1>5, <4>1, <4>2 DEF LoopHas
      <4>3. CASE mapping[k] = None
        <5>1. Accounted(k)
          BY <1>9, <4>3, LastIsEvent DEF IInv
        <5>2. loop'.at = "idle"
          BY <1>5, <4>1, <4>3
        <5>3. QED BY <1>3, <4>1, <4>3, <5>1, <5>2 DEF LoopHas
      <4>4. QED BY <4>2, <4>3
    <3>2. CASE ~Asks(socket, "delete", k)
      <4>1. mapping[k] = None /\ Accounted(k) /\ ~Mentions(socket, k)
        BY <1>8, <3>2 DEF InStep, GoneRemoved
      <4>2. k # env.msg /\ ~Mentions(rest, k)
        BY <1>3, <4>1
      <4>3. QED BY <1>5, <4>1, <4>2 DEF LoopHas
    <3>3. QED BY <3>1, <3>2
  <2>4. QED BY <2>1, <2>2, <2>3
<1>13. QED BY <1>10, <1>11, <1>12 DEF InStep

\* The event just sent is the newest of its message.
LEMMA InStepRelays ==
  ASSUME IInv, InStep, Relay
  PROVE  InStep'
<1>1. /\ UNCHANGED <<slack, socket, bridged, fill, mapping, redacted, userRedacted>>
      /\ loop.at = "send" /\ SendToMatrix(loop.kind, loop.msg, loop.ev)
      /\ loop' = [loop EXCEPT !.at = "map", !.ev = Len(events')]
  BY DEF Relay
<1>2. /\ loop \in Handler({"idle", "send", "map", "redact", "unmap"}) /\ events \in Seq(Event)
  BY DEF IInv, TypeOK, Event
<1>3. /\ loop.kind \in {"new", "edit"} /\ loop.msg \in Msgs /\ loop.ev \in Events \cup {None}
  BY <1>1, <1>2 DEF IInv, Carried, LoopKnows, Handler
<1>4. PICK m \in Msgs, kind \in {"new", "edit"}, target \in Events \cup {None} :
        m = loop.msg /\ kind = loop.kind /\ target = loop.ev
  BY <1>3
<1>5. PICK e : e = Len(events')
  OBVIOUS
<1>6. /\ e = Len(events) + 1 /\ Len(events) \in Nat /\ events'[e].msg = m
      /\ \A i \in 1..Len(events) : events'[i] = events[i]
  BY <1>1, <1>2, <1>4, <1>5, SendGrows
<1>7. loop'.at = "map" /\ loop'.msg = m /\ loop'.ev = e
  BY <1>1, <1>2, <1>4, <1>5 DEF Handler
<1>8. EventsOf(m)' = EventsOf(m) \cup {e} /\ \A k \in Msgs : k # m => EventsOf(k)' = EventsOf(k)
  BY <1>5, <1>6 DEF EventsOf
<1>9. IsLast(e, EventsOf(m)')
  BY <1>6, <1>8 DEF IsLast, EventsOf
<1>10. FillsIdle' /\ DeleteIsLast'
  BY <1>1, <1>7 DEF InStep, FillsIdle, DeleteIsLast
<1>11. LoopHasNewest'
  BY <1>7, <1>9 DEF LoopHasNewest
<1>12. ASSUME NEW k \in Msgs
       PROVE  NewestMapped(k)' /\ ThereRelayed(k)' /\ GoneRemoved(k)'
  <2>1. NewestMapped(k) /\ ThereRelayed(k) /\ GoneRemoved(k)
    BY DEF InStep
  <2>2. CASE k = m
    <3>1. NewestMapped(m)' /\ ThereRelayed(m)'
      BY <1>7, <1>8 DEF NewestMapped, ThereRelayed, LoopHas
    <3>2. GoneRemoved(m)'
      BY <1>1, <1>4, <2>1, <2>2 DEF GoneRemoved, LoopHas
    <3>3. QED BY <2>2, <3>1, <3>2
  <2>3. CASE k # m
    <3>1. Accounted(k)' <=> Accounted(k)
      BY <1>1, <1>8, <2>3 DEF Accounted
    <3>2. NewestMapped(k)'
      BY <1>1, <1>8, <2>1, <2>3, <3>1 DEF NewestMapped, LoopHas
    <3>3. ThereRelayed(k)'
      BY <1>1, <1>4, <1>8, <2>1, <2>3 DEF ThereRelayed, LoopHas
    <3>4. GoneRemoved(k)'
      BY <1>1, <1>7, <2>1, <2>3, <3>1 DEF GoneRemoved, LoopHas
    <3>5. QED BY <3>2, <3>3, <3>4
  <2>4. QED BY <2>2, <2>3
<1>13. QED BY <1>10, <1>11, <1>12 DEF InStep

\* The message is mapped to the event just sent.
LEMMA InStepMaps ==
  ASSUME IInv, InStep, MapRelayed
  PROVE  InStep'
<1>1. /\ UNCHANGED <<slack, socket, bridged, fill, events, redacted, userRedacted>>
      /\ loop.at = "map" /\ loop' = Idle /\ mapping' = [mapping EXCEPT ![loop.msg] = loop.ev]
  BY DEF MapRelayed
<1>2. /\ mapping \in [Msgs -> Events \cup {None}]
      /\ loop.msg \in Msgs /\ IsLast(loop.ev, EventsOf(loop.msg))
  BY <1>1 DEF IInv, TypeOK, Carried, LoopKnows, InStep, LoopHasNewest
<1>3. mapping'[loop.msg] = loop.ev /\ \A k \in Msgs : k # loop.msg => mapping'[k] = mapping[k]
  BY <1>1, <1>2
<1>4. \A k : EventsOf(k)' = EventsOf(k)
  BY <1>1 DEF EventsOf
<1>5. \A k : Accounted(k)' <=> Accounted(k)
  BY <1>1, <1>4 DEF Accounted
<1>6. loop'.at = "idle"
  BY <1>1 DEF Idle
<1>7. FillsIdle' /\ DeleteIsLast' /\ LoopHasNewest'
  BY <1>1, <1>6 DEF InStep, FillsIdle, DeleteIsLast, LoopHasNewest
<1>8. ASSUME NEW k \in Msgs
      PROVE  NewestMapped(k)' /\ ThereRelayed(k)' /\ GoneRemoved(k)'
  <2>1. NewestMapped(k) /\ ThereRelayed(k) /\ GoneRemoved(k)
    BY DEF InStep
  <2>2. NewestMapped(k)'
    <3>1. CASE k = loop.msg
      BY <1>2, <1>3, <1>4, <3>1 DEF NewestMapped
    <3>2. CASE k # loop.msg
      BY <1>3, <1>4, <1>5, <2>1, <3>2 DEF NewestMapped, LoopHas
    <3>3. QED BY <3>1, <3>2
  <2>3. ThereRelayed(k)'
    BY <1>1, <1>4, <2>1 DEF ThereRelayed, LoopHas
  <2>4. GoneRemoved(k)'
    <3>1. CASE k = loop.msg
      BY <1>1, <2>1, <3>1 DEF GoneRemoved, LoopHas
    <3>2. CASE k # loop.msg
      BY <1>1, <1>3, <1>5, <1>6, <2>1, <3>2 DEF GoneRemoved, LoopHas
    <3>3. QED BY <3>1, <3>2
  <2>5. QED BY <2>2, <2>3, <2>4
<1>9. QED BY <1>7, <1>8 DEF InStep

\* The newest event of a message that is gone is redacted.
LEMMA InStepRedacts ==
  ASSUME IInv, InStep, Redact
  PROVE  InStep'
<1>1. /\ UNCHANGED <<slack, socket, bridged, fill, mapping, events, userRedacted>>
      /\ loop.at = "redact" /\ loop' = [loop EXCEPT !.at = "unmap"]
      /\ redacted' = redacted \cup {loop.ev}
  BY DEF Redact
<1>2. loop'.at = "unmap" /\ loop'.msg = loop.msg /\ loop'.ev = loop.ev
  BY <1>1 DEF IInv, TypeOK, Handler
<1>3. \A k : EventsOf(k)' = EventsOf(k)
  BY <1>1 DEF EventsOf
<1>4. \A k : Accounted(k) => Accounted(k)'
  BY <1>1, <1>3 DEF Accounted
<1>5. FillsIdle' /\ DeleteIsLast'
  BY <1>1, <1>2 DEF InStep, FillsIdle, DeleteIsLast
<1>6. LoopHasNewest'
  BY <1>1, <1>2, <1>3 DEF InStep, LoopHasNewest
<1>7. ASSUME NEW k \in Msgs
      PROVE  NewestMapped(k)' /\ ThereRelayed(k)' /\ GoneRemoved(k)'
  <2>1. NewestMapped(k) /\ ThereRelayed(k) /\ GoneRemoved(k)
    BY DEF InStep
  <2>2. NewestMapped(k)'
    BY <1>1, <1>3, <1>4, <2>1 DEF NewestMapped, LoopHas
  <2>3. ThereRelayed(k)'
    BY <1>1, <1>3, <2>1 DEF ThereRelayed, LoopHas
  <2>4. GoneRemoved(k)'
    BY <1>1, <1>2, <1>4, <2>1 DEF GoneRemoved, LoopHas
  <2>5. QED BY <2>2, <2>3, <2>4
<1>8. QED BY <1>5, <1>6, <1>7 DEF InStep

\* Its row goes after it.
LEMMA InStepUnmaps ==
  ASSUME IInv, InStep, Unmap
  PROVE  InStep'
<1>1. /\ UNCHANGED <<slack, socket, bridged, fill, events, redacted, userRedacted>>
      /\ loop.at = "unmap" /\ loop' = Idle /\ mapping' = [mapping EXCEPT ![loop.msg] = None]
  BY DEF Unmap
<1>2. /\ mapping \in [Msgs -> Events \cup {None}]
      /\ loop.msg \in Msgs /\ slack[loop.msg] \in Gone
      /\ IsLast(loop.ev, EventsOf(loop.msg)) /\ loop.ev \in redacted /\ ~Mentions(socket, loop.msg)
  BY <1>1 DEF IInv, TypeOK, Carried, LoopKnows, InStep, LoopHasNewest, DeleteIsLast
<1>3. mapping'[loop.msg] = None /\ \A k \in Msgs : k # loop.msg => mapping'[k] = mapping[k]
  BY <1>1, <1>2
<1>4. \A k : EventsOf(k)' = EventsOf(k)
  BY <1>1 DEF EventsOf
<1>5. \A k : Accounted(k)' <=> Accounted(k)
  BY <1>1, <1>4 DEF Accounted
<1>6. Accounted(loop.msg)
  BY <1>2 DEF Accounted
<1>7. loop'.at = "idle"
  BY <1>1 DEF Idle
<1>8. FillsIdle' /\ DeleteIsLast' /\ LoopHasNewest'
  BY <1>1, <1>7 DEF InStep, FillsIdle, DeleteIsLast, LoopHasNewest
<1>9. ASSUME NEW k \in Msgs
      PROVE  NewestMapped(k)' /\ ThereRelayed(k)' /\ GoneRemoved(k)'
  <2>1. NewestMapped(k) /\ ThereRelayed(k) /\ GoneRemoved(k)
    BY DEF InStep
  <2>2. CASE k = loop.msg
    <3>1. NewestMapped(k)'
      BY <1>3, <1>5, <1>6, <2>2 DEF NewestMapped
    <3>2. ThereRelayed(k)'
      BY <1>1, <1>2, <2>2 DEF ThereRelayed, Gone
    <3>3. GoneRemoved(k)'
      BY <1>1, <1>2, <1>3, <1>5, <1>6, <1>7, <2>2 DEF GoneRemoved, LoopHas
    <3>4. QED BY <3>1, <3>2, <3>3
  <2>3. CASE k # loop.msg
    <3>1. NewestMapped(k)'
      BY <1>1, <1>3, <1>4, <1>5, <2>1, <2>3 DEF NewestMapped, LoopHas
    <3>2. ThereRelayed(k)'
      BY <1>1, <1>4, <2>1 DEF ThereRelayed, LoopHas
    <3>3. GoneRemoved(k)'
      BY <1>1, <1>3, <1>5, <1>7, <2>1, <2>3 DEF GoneRemoved, LoopHas
    <3>4. QED BY <3>1, <3>2, <3>3
  <2>4. QED BY <2>2, <2>3
<1>10. QED BY <1>8, <1>9 DEF InStep

\* The redactor takes the row of an event a user has redacted, whose message is gone.
LEMMA InStepUnmapsEvent ==
  ASSUME IInv, InStep, UnmapEvent
  PROVE  InStep'
<1>1. /\ UNCHANGED <<slack, socket, bridged, loop, fill, events, redacted, userRedacted>>
      /\ redactor.at = "unmap"
      /\ mapping' = [k \in Msgs |-> IF mapping[k] = redactor.ev THEN None ELSE mapping[k]]
  BY DEF UnmapEvent
<1>2. /\ redactor.ev \in SentFor(events, redactor.msg) /\ redactor.ev \in userRedacted
      /\ slack[redactor.msg] \in Gone
  BY <1>1 DEF IInv, Carried, RedactorKnows, Gone
<1>3. \A k : EventsOf(k)' = EventsOf(k)
  BY <1>1 DEF EventsOf
<1>4. \A k : Accounted(k)' <=> Accounted(k)
  BY <1>1, <1>3 DEF Accounted
<1>5. \A k, places : LoopHas(k, places)' <=> LoopHas(k, places)
  BY <1>1 DEF LoopHas
<1>6. FillsIdle' /\ DeleteIsLast' /\ LoopHasNewest'
  BY <1>1, <1>3 DEF InStep, FillsIdle, DeleteIsLast, LoopHasNewest
<1>7. ASSUME NEW k \in Msgs
      PROVE  NewestMapped(k)' /\ ThereRelayed(k)' /\ GoneRemoved(k)'
  <2>1. NewestMapped(k) /\ ThereRelayed(k) /\ GoneRemoved(k)
    BY DEF InStep
  <2>2. mapping'[k] = IF mapping[k] = redactor.ev THEN None ELSE mapping[k]
    BY <1>1
  <2>3. NewestMapped(k)'
    <3>1. CASE mapping[k] = redactor.ev
      <4>1. redactor.ev # None
        BY <1>2 DEF SentFor, None
      <4>2. k = redactor.msg
        BY <1>2, <3>1, <4>1 DEF IInv, Related, EventsOf, SentFor
      <4>3. IsLast(redactor.ev, EventsOf(k)) => Accounted(k)
        BY <1>2, <4>2 DEF Accounted
      <4>4. QED BY <1>4, <1>5, <2>1, <2>2, <3>1, <4>1, <4>3 DEF NewestMapped
    <3>2. CASE mapping[k] # redactor.ev
      BY <1>3, <1>4, <1>5, <2>1, <2>2, <3>2 DEF NewestMapped
    <3>3. QED BY <3>1, <3>2
  <2>4. ThereRelayed(k)'
    BY <1>1, <1>3, <1>5, <2>1 DEF ThereRelayed
  <2>5. GoneRemoved(k)'
    BY <1>1, <1>4, <1>5, <2>1, <2>2 DEF GoneRemoved
  <2>6. QED BY <2>3, <2>4, <2>5
<1>8. QED BY <1>6, <1>7 DEF InStep

\* Backfill, while nothing was posted before the channel was bridged.
LEMMA InStepFills ==
  ASSUME IInv, InStep, clean', NEW f \in Fills,
         Bridge(f) \/ BackfillStep(f) \/ FillFails(f)
  PROVE  InStep'
<1>1. fill[f].todo = {} /\ fill[f].at \notin {"send", "map"}
  BY DEF InStep, FillsIdle
<1>2. fill \in [Fills -> Run]
  BY DEF IInv, TypeOK, Run
<1>3. CASE Bridge(f)
  <2>1. /\ UNCHANGED <<slack, socket, loop, mapping, events, redacted, userRedacted>>
        /\ fill' = [fill EXCEPT ![f].at = "fetch"]
    BY <1>3 DEF Bridge
  <2>2. \A m \in Msgs : slack[m] = "unposted"
    BY <1>3 DEF Bridge
  <2>3. FillsIdle'
    BY <1>1, <1>2, <2>1 DEF InStep, FillsIdle, Run
  <2>4. QED BY <2>1, <2>2, <2>3, InStepStays
<1>4. CASE Fetch(f)
  <2>1. UNCHANGED <<slack, socket, bridged, loop, mapping, events, redacted, userRedacted>>
    BY <1>4 DEF Fetch, FillStep
  <2>2. fill' = [fill EXCEPT ![f] = [fill[f] EXCEPT !.at = "check", !.todo = {}]]
    BY <1>4 DEF Fetch, FillStep
  <2>3. FillsIdle'
    BY <1>1, <1>2, <2>2 DEF InStep, FillsIdle, Run
  <2>4. QED BY <2>1, <2>3, InStepStays
<1>5. CASE CheckMapped(f)
  <2>1. UNCHANGED <<slack, socket, bridged, loop, mapping, events, redacted, userRedacted>>
    BY <1>5 DEF CheckMapped, FillStep
  <2>2. fill' = [fill EXCEPT ![f] = [fill[f] EXCEPT !.at = "done"]]
    BY <1>1, <1>5 DEF CheckMapped, FillStep
  <2>3. FillsIdle'
    BY <1>1, <1>2, <2>2 DEF InStep, FillsIdle, Run
  <2>4. QED BY <2>1, <2>3, InStepStays
<1>6. CASE FillSend(f) \/ FillMap(f)
  BY <1>1, <1>6 DEF FillSend, FillMap
<1>7. CASE FillFails(f)
  BY <1>7 DEF FillFails
<1>8. QED BY <1>3, <1>4, <1>5, <1>6, <1>7 DEF BackfillStep

\* A history is clean only if it was clean before.
LEMMA WasClean ==
  ASSUME IInv, Next, clean'
  PROVE  clean
<1>1. ASSUME NEW m \in Msgs, Post(m) \/ Edit(m) \/ DeleteOnSlack(m) PROVE clean
  BY <1>1 DEF Post, Edit, DeleteOnSlack
<1>2. LoopStep => clean
  BY DEF LoopStep, Receive, Relay, MapRelayed, Redact, Unmap
<1>3. ASSUME NEW f \in Fills, Bridge(f) \/ BackfillStep(f) \/ FillFails(f) PROVE clean
  BY <1>3 DEF Bridge, BackfillStep, Fetch, CheckMapped, FillSend, FillMap, FillFails
<1>4. ASSUME NEW e \in Events, UserRedacts(e) \/ HandleRedaction(e) PROVE clean
  BY <1>4 DEF UserRedacts, HandleRedaction
<1>5. ~LoopFails /\ ~Unbridge /\ ~RedactorFails /\ ~Crash
  BY DEF LoopFails, Unbridge, RedactorFails, Crash
<1>6. DeleteFromSlack \/ UnmapEvent => clean
  BY DEF DeleteFromSlack, UnmapEvent
<1>7. QED BY <1>1, <1>2, <1>3, <1>4, <1>5, <1>6 DEF Next

LEMMA NextInStep ==
  ASSUME IInv, clean => InStep, [Next]_vars, clean'
  PROVE  InStep'
<1>1. CASE UNCHANGED vars
  <2>1. /\ InStep /\ UNCHANGED <<slack, socket, bridged, loop, fill, mapping, events, redacted,
                                 userRedacted>>
    BY <1>1 DEF vars
  <2>2. FillsIdle'
    BY <2>1 DEF InStep, FillsIdle
  <2>3. QED BY <2>1, <2>2, InStepStays
<1>2. CASE Next
  <2>1. InStep
    BY <1>2, WasClean
  <2>2. ASSUME NEW m \in Msgs, Post(m) \/ Edit(m) \/ DeleteOnSlack(m) PROVE InStep'
    <3>1. slack \in [Msgs -> {"unposted", "there", "deleted", "removed"}]
      BY DEF IInv, TypeOK
    <3>2. CASE Post(m)
      <4>1. /\ Emit("new", m) /\ slack[m] = "unposted" /\ slack' = [slack EXCEPT ![m] = "there"]
            /\ UNCHANGED <<bridged, loop, fill, mapping, events, redacted, userRedacted>>
        BY <3>2 DEF Post
      <4>2. /\ slack[m] \notin Gone /\ \A k \in Msgs : k # m => slack'[k] = slack[k]
            /\ slack'[m] \notin Gone
        BY <3>1, <4>1 DEF Gone
      <4>3. QED BY <2>1, <4>1, <4>2, InStepEmits
    <3>3. CASE Edit(m)
      <4>1. /\ Emit("edit", m) /\ slack[m] = "there" /\ slack' = slack
            /\ UNCHANGED <<bridged, loop, fill, mapping, events, redacted, userRedacted>>
        BY <3>3 DEF Edit
      <4>2. slack[m] \notin Gone
        BY <4>1 DEF Gone
      <4>3. QED BY <2>1, <4>1, <4>2, InStepEmits
    <3>4. CASE DeleteOnSlack(m)
      <4>1. /\ Emit("delete", m) /\ slack[m] = "there" /\ slack' = [slack EXCEPT ![m] = "deleted"]
            /\ UNCHANGED <<bridged, loop, fill, mapping, events, redacted, userRedacted>>
        BY <3>4 DEF DeleteOnSlack
      <4>2. /\ slack[m] \notin Gone /\ \A k \in Msgs : k # m => slack'[k] = slack[k]
            /\ slack'[m] # "there"
        BY <3>1, <4>1 DEF Gone
      <4>3. QED BY <2>1, <4>1, <4>2, InStepEmits
    <3>5. QED BY <2>2, <3>2, <3>3, <3>4
  <2>3. CASE LoopStep
    BY <2>1, <2>3, InStepReceives, InStepRelays, InStepMaps, InStepRedacts, InStepUnmaps
    DEF LoopStep
  <2>4. ASSUME NEW f \in Fills, Bridge(f) \/ BackfillStep(f) \/ FillFails(f) PROVE InStep'
    BY <2>1, <2>4, InStepFills
  <2>5. ASSUME NEW e \in Events, UserRedacts(e) \/ HandleRedaction(e) PROVE InStep'
    <3>1. /\ UNCHANGED <<slack, socket, bridged, loop, fill, mapping, events, redacted>>
          /\ userRedacted \subseteq userRedacted'
      BY <2>5 DEF UserRedacts, HandleRedaction
    <3>2. FillsIdle'
      BY <2>1, <3>1 DEF InStep, FillsIdle
    <3>3. QED BY <2>1, <3>1, <3>2, InStepStays
  <2>6. CASE DeleteFromSlack
    <3>1. UNCHANGED <<bridged, loop, fill, mapping, events, redacted, userRedacted>>
      BY <2>6 DEF DeleteFromSlack
    <3>2. CASE UNCHANGED <<slack, socket>>
      <4>1. FillsIdle'
        BY <2>1, <3>1 DEF InStep, FillsIdle
      <4>2. QED BY <2>1, <3>1, <3>2, <4>1, InStepStays
    <3>3. CASE slack[redactor.msg] = "there" /\ slack' = [slack EXCEPT ![redactor.msg] = "removed"]
               /\ Emit("delete", redactor.msg)
      <4>1. PICK m \in Msgs : m = redactor.msg
        BY <2>6 DEF DeleteFromSlack, IInv, Carried, RedactorKnows
      <4>2. /\ slack[m] \notin Gone /\ \A k \in Msgs : k # m => slack'[k] = slack[k]
            /\ slack'[m] # "there"
        BY <3>3, <4>1 DEF IInv, TypeOK, Gone
      <4>3. Emit("delete", m)
        BY <3>3, <4>1
      <4>4. QED BY <2>1, <3>1, <4>2, <4>3, InStepEmits
    <3>4. QED BY <2>6, <3>2, <3>3 DEF DeleteFromSlack
  <2>7. CASE UnmapEvent
    BY <2>1, <2>7, InStepUnmapsEvent
  <2>8. ~LoopFails /\ ~Unbridge /\ ~RedactorFails /\ ~Crash
    BY DEF LoopFails, Unbridge, RedactorFails, Crash
  <2>9. QED BY <1>2, <2>2, <2>3, <2>4, <2>5, <2>6, <2>7, <2>8 DEF Next
<1>3. QED BY <1>1, <1>2

LEMMA InitInStep == Init => InStep
<1> SUFFICES ASSUME Init PROVE InStep
  OBVIOUS
<1>1. /\ slack = [m \in Msgs |-> "unposted"] /\ socket = <<>> /\ loop.at = "idle"
      /\ mapping = [m \in Msgs |-> None] /\ events = <<>>
      /\ \A f \in Fills : fill[f].at = "unused" /\ fill[f].todo = {}
  BY DEF Init, Idle
<1>2. \A m : EventsOf(m) = {}
  BY <1>1 DEF EventsOf
<1>3. FillsIdle /\ LoopHasNewest /\ DeleteIsLast
  BY <1>1 DEF FillsIdle, LoopHasNewest, DeleteIsLast, Ordered
<1>4. ASSUME NEW m \in Msgs PROVE NewestMapped(m) /\ ThereRelayed(m) /\ GoneRemoved(m)
  BY <1>1, <1>2 DEF NewestMapped, ThereRelayed, GoneRemoved, Accounted, Gone
<1>5. QED BY <1>3, <1>4 DEF InStep

\* For any number of messages, edits, deletions and redactions that cross: if nothing failed,
\* then once all is delivered the newest event of a message that is gone is redacted and its
\* row with it, and every message posted since the channel was bridged is mapped to its
\* newest event (handle_slack_message*, handle_matrix_redaction).
THEOREM NothingIsForgotten == Spec => []QuietMeansInSync
<1>1. Init => (clean => InStep)
  BY InitInStep
<1>2. IInv /\ (clean => InStep) /\ [Next]_vars => (clean => InStep)'
  BY NextInStep
<1>3. IInv /\ (clean => InStep) => QuietMeansInSync
  <2> SUFFICES ASSUME IInv, InStep, Quiet, NEW m \in Msgs
               PROVE  /\ slack[m] \in Gone =>
                            /\ mapping[m] = None
                            /\ EventsOf(m) # {} => Latest(EventsOf(m)) \in redacted \cup userRedacted
                      /\ bridged /\ slack[m] = "there" /\ m \notin OwnMsgs =>
                            mapping[m] = Latest(EventsOf(m))
    BY DEF QuietMeansInSync, Gone
  <2>1. socket = <<>> /\ loop.at = "idle"
    BY DEF Quiet, Idle
  <2>2. ~Mentions(socket, m) /\ (\A kind : ~Asks(socket, kind, m)) /\ \A places : LoopHas(m, places) => "idle" \in places
    BY <2>1 DEF Mentions, Asks, LoopHas
  <2>3. NewestMapped(m) /\ ThereRelayed(m) /\ GoneRemoved(m)
    BY DEF InStep
  <2>4. \A e : IsLast(e, EventsOf(m)) => Latest(EventsOf(m)) = e
    <3> SUFFICES ASSUME NEW e, IsLast(e, EventsOf(m)) PROVE Latest(EventsOf(m)) = e
      OBVIOUS
    <3>1. EventsOf(m) \subseteq Nat
      BY DEF IInv, TypeOK, EventsOf
    <3>2. e \in EventsOf(m) /\ \A d \in EventsOf(m) : d <= e
      BY DEF IsLast
    <3>3. \A d \in EventsOf(m) : (\A c \in EventsOf(m) : c <= d) => d = e
      BY <3>1, <3>2
    <3>4. QED BY <3>2, <3>3 DEF Latest
  <2>5. ASSUME slack[m] \in Gone
        PROVE  /\ mapping[m] = None
               /\ EventsOf(m) # {} => Latest(EventsOf(m)) \in redacted \cup userRedacted
    <3>1. mapping[m] = None /\ Accounted(m)
      BY <2>2, <2>3, <2>5 DEF GoneRemoved
    <3>2. QED BY <2>4, <3>1 DEF Accounted
  <2>6. ASSUME bridged, slack[m] = "there", m \notin OwnMsgs
        PROVE  mapping[m] = Latest(EventsOf(m))
    <3>1. EventsOf(m) # {}
      BY <2>2, <2>3, <2>6 DEF ThereRelayed
    <3>2. ~Accounted(m)
      BY <2>6, <3>1 DEF Accounted, Gone
    <3>3. IsLast(mapping[m], EventsOf(m))
      BY <2>2, <2>3, <3>2 DEF NewestMapped
    <3>4. QED BY <2>4, <3>3
  <2>7. QED BY <2>5, <2>6
<1>4. QED BY <1>1, <1>2, <1>3, Invariance, PTL DEF Spec

-----------------------------------------------------------------------------
(***************************************************************************)
(* What an edit replaces.  While nothing has failed, an edit on its way    *)
(* comes after the news of its message (EditsFollow), and a message that   *)
(* has events but no row is removed from Slack by the bridge, or is gone   *)
(* with nothing more to come of it (UnmappedGone).  So an edit the loop    *)
(* holds without a row is one of a message that was removed (HeldEdit).    *)
(***************************************************************************)
Preceded(q, i, m) == \E j \in 1..Len(q) : j < i /\ q[j].kind = "new" /\ q[j].msg = m
EditsFollow(q, m) ==
    \A i \in 1..Len(q) : q[i].kind = "edit" /\ q[i].msg = m => Preceded(q, i, m)

EditFollows(m) == bridged /\ m \notin OwnMsgs =>
    EventsOf(m) # {} \/ LoopHas(m, {"send"}) \/ EditsFollow(socket, m)

UnpostedQuiet(m) == slack[m] = "unposted" => ~Mentions(socket, m)

UnmappedGone(m) == mapping[m] = None /\ EventsOf(m) # {} =>
    \/ slack[m] = "removed"
    \/ LoopHas(m, {"map"})
    \/ slack[m] \in Gone /\ ~Mentions(socket, m) /\ ~LoopHas(m, {"send", "map"})

HeldEdit == loop.at = "send" /\ loop.kind = "edit" /\ loop.ev = None => slack[loop.msg] = "removed"

Excused == \A e \in 1..Len(events) : events[e].of = Dangling => slack[events[e].msg] = "removed"

Follows == HeldEdit /\ Excused /\ \A m \in Msgs : EditFollows(m) /\ UnpostedQuiet(m) /\ UnmappedGone(m)

LEMMA UnmentionedFollow ==
  ASSUME NEW q, NEW m, ~Mentions(q, m)
  PROVE  EditsFollow(q, m)
BY DEF Mentions, EditsFollow

LEMMA FollowsAppended ==
  ASSUME NEW q \in Seq(Envelope), NEW env \in Envelope, NEW m, EditsFollow(q, m),
         env.kind = "edit" /\ env.msg = m => Asks(q, "new", m)
  PROVE  EditsFollow(Append(q, env), m)
<1> DEFINE w == Append(q, env)
<1>1. /\ Len(w) = Len(q) + 1 /\ Len(q) \in Nat /\ w[Len(q) + 1] = env
      /\ \A i \in 1..Len(q) : w[i] = q[i]
  OBVIOUS
<1> HIDE DEF w
<1>2. ASSUME NEW i \in 1..Len(w), w[i].kind = "edit", w[i].msg = m PROVE Preceded(w, i, m)
  <2>1. CASE i \in 1..Len(q)
    <3>1. PICK j \in 1..Len(q) : j < i /\ q[j].kind = "new" /\ q[j].msg = m
      BY <1>1, <1>2, <2>1 DEF EditsFollow, Preceded
    <3>2. j \in 1..Len(w) /\ w[j] = q[j]
      BY <1>1
    <3>3. QED BY <3>1, <3>2 DEF Preceded
  <2>2. CASE i = Len(q) + 1
    <3>1. PICK j \in 1..Len(q) : q[j].kind = "new" /\ q[j].msg = m
      BY <1>1, <1>2, <2>2 DEF Asks
    <3>2. j \in 1..Len(w) /\ w[j] = q[j] /\ j < i
      BY <1>1, <2>2
    <3>3. QED BY <3>1, <3>2 DEF Preceded
  <2>3. QED BY <1>1, <2>1, <2>2
<1>3. QED BY <1>2 DEF EditsFollow, w

LEMMA FollowsTaken ==
  ASSUME NEW q \in Seq(Envelope), q # <<>>, NEW m, EditsFollow(q, m)
  PROVE  /\ ~(Head(q).kind = "edit" /\ Head(q).msg = m)
         /\ ~(Head(q).kind = "new" /\ Head(q).msg = m) => EditsFollow(Tail(q), m)
<1> DEFINE w == Tail(q)
           env == Head(q)
<1>1. /\ Len(q) = Len(w) + 1 /\ Len(w) \in Nat /\ q[1] = env /\ 1 \in 1..Len(q)
      /\ \A i \in 1..Len(w) : w[i] = q[i + 1] /\ i + 1 \in 1..Len(q)
  OBVIOUS
<1> HIDE DEF w, env
<1>2. ~(env.kind = "edit" /\ env.msg = m)
  <2> SUFFICES ASSUME env.kind = "edit", env.msg = m PROVE FALSE
    OBVIOUS
  <2>1. PICK j \in 1..Len(q) : j < 1
    BY <1>1 DEF EditsFollow, Preceded
  <2>2. QED BY <1>1, <2>1
<1>3. ASSUME ~(env.kind = "new" /\ env.msg = m), NEW i \in 1..Len(w), w[i].kind = "edit", w[i].msg = m
      PROVE  Preceded(w, i, m)
  <2>1. PICK j \in 1..Len(q) : j < i + 1 /\ q[j].kind = "new" /\ q[j].msg = m
    BY <1>1, <1>3 DEF EditsFollow, Preceded
  <2>2. j # 1
    BY <1>1, <1>3, <2>1
  <2>3. j - 1 \in 1..Len(w) /\ (j - 1) + 1 = j /\ j - 1 < i
    BY <1>1, <2>1, <2>2
  <2>4. w[j - 1] = q[j]
    BY <1>1, <2>3
  <2>5. QED BY <2>1, <2>3, <2>4 DEF Preceded
<1>4. QED BY <1>2, <1>3 DEF EditsFollow, w, env

\* A step that leaves messages, rows and the loop alone.
LEMMA FollowsStays ==
  ASSUME Follows, UNCHANGED <<slack, socket, loop, mapping, events>>,
         bridged' => bridged \/ \A m \in Msgs : slack[m] = "unposted"
  PROVE  Follows'
<1>1. \A m : EventsOf(m)' = EventsOf(m)
  BY DEF EventsOf
<1>2. \A m, places : LoopHas(m, places)' <=> LoopHas(m, places)
  BY DEF LoopHas
<1>3. HeldEdit' /\ Excused'
  BY DEF Follows, HeldEdit, Excused
<1>4. ASSUME NEW m \in Msgs PROVE EditFollows(m)' /\ UnpostedQuiet(m)' /\ UnmappedGone(m)'
  <2>1. EditFollows(m) /\ UnpostedQuiet(m) /\ UnmappedGone(m)
    BY DEF Follows
  <2>2. EditFollows(m)'
    BY <1>1, <1>2, <2>1, UnmentionedFollow DEF EditFollows, UnpostedQuiet
  <2>3. UnpostedQuiet(m)' /\ UnmappedGone(m)'
    BY <1>1, <1>2, <2>1 DEF UnpostedQuiet, UnmappedGone
  <2>4. QED BY <2>2, <2>3
<1>5. QED BY <1>3, <1>4 DEF Follows

\* Slack says something of a message that is not gone; it says "edit" of one that is there.
LEMMA FollowsEmits ==
  ASSUME IInv, InStep, Follows, NEW m \in Msgs, NEW kind \in {"new", "edit", "delete"},
         Emit(kind, m), UNCHANGED <<bridged, loop, mapping, events>>,
         slack[m] \notin Gone, \A k \in Msgs : k # m => slack'[k] = slack[k],
         kind = "edit" => slack[m] = "there", slack'[m] # "unposted"
  PROVE  Follows'
<1> DEFINE env == [kind |-> kind, msg |-> m]
<1>1. env \in Envelope /\ env.kind = kind /\ env.msg = m
  BY DEF Envelope
<1>2. socket' = Append(socket, env) /\ socket \in Seq(Envelope)
  BY DEF Emit, IInv, TypeOK
<1> HIDE DEF env
<1>3. \A k : Mentions(socket', k) <=> Mentions(socket, k) \/ k = m
  BY <1>1, <1>2, OneMoreEnvelope
<1>4. \A k : EventsOf(k)' = EventsOf(k)
  BY DEF EventsOf
<1>5. \A k, places : LoopHas(k, places)' <=> LoopHas(k, places)
  BY DEF LoopHas
<1>6. \A k \in Msgs : slack[k] = "removed" => slack'[k] = "removed"
  BY DEF Gone
<1>7. HeldEdit'
  BY <1>6 DEF Follows, HeldEdit, IInv, Carried, LoopKnows
<1>8. Excused'
  BY <1>6, EventTyped DEF Follows, Excused, IInv, TypeOK, Event
<1>9. ASSUME NEW k \in Msgs PROVE EditFollows(k)' /\ UnpostedQuiet(k)' /\ UnmappedGone(k)'
  <2>1. EditFollows(k) /\ UnpostedQuiet(k) /\ UnmappedGone(k)
    BY DEF Follows
  <2>2. EditFollows(k)'
    <3> SUFFICES ASSUME bridged, k \notin OwnMsgs, EventsOf(k) = {}, ~LoopHas(k, {"send"})
                 PROVE  EditsFollow(socket', k)
      BY <1>4, <1>5 DEF EditFollows
    <3>1. EditsFollow(socket, k)
      BY <2>1 DEF EditFollows
    <3>2. kind = "edit" /\ k = m => Asks(socket, "new", k)
      BY DEF InStep, ThereRelayed
    <3>3. QED BY <1>1, <1>2, <3>1, <3>2, FollowsAppended
  <2>3. UnpostedQuiet(k)'
    BY <1>3, <2>1 DEF UnpostedQuiet
  <2>4. UnmappedGone(k)'
    <3> SUFFICES ASSUME mapping[k] = None, EventsOf(k) # {}, ~LoopHas(k, {"map"})
                 PROVE  \/ slack'[k] = "removed"
                        \/ /\ slack'[k] \in Gone /\ ~Mentions(socket', k)
                           /\ ~LoopHas(k, {"send", "map"})
      BY <1>4, <1>5 DEF UnmappedGone
    <3>1. \/ slack[k] = "removed"
          \/ slack[k] \in Gone /\ ~Mentions(socket, k) /\ ~LoopHas(k, {"send", "map"})
      BY <2>1 DEF UnmappedGone
    <3>2. k # m /\ slack'[k] = slack[k]
      BY <3>1 DEF Gone
    <3>3. Mentions(socket', k) <=> Mentions(socket, k)
      BY <1>3, <3>2
    <3>4. QED BY <3>1, <3>2, <3>3
  <2>5. QED BY <2>2, <2>3, <2>4
<1>10. QED BY <1>7, <1>8, <1>9 DEF Follows

\* An edit without a row is taken only of a message the bridge removed.
LEMMA FollowsReceives ==
  ASSUME IInv, Follows, Receive, clean'
  PROVE  Follows'
<1> DEFINE env == Head(socket)
           rest == Tail(socket)
<1>1. /\ UNCHANGED <<slack, bridged, mapping, events>>
      /\ loop.at = "idle" /\ socket # <<>> /\ loop' = HandlerOf(env) /\ socket' = rest
  BY DEF Receive
<1>2. socket \in Seq(Envelope) /\ env \in Envelope
  BY <1>1 DEF IInv, TypeOK
<1>3. \A k : Mentions(socket, k) <=> Mentions(rest, k) \/ k = env.msg
  BY <1>1, <1>2, OneLessEnvelope
<1>4. \A k : EditsFollow(socket, k) =>
          /\ ~(env.kind = "edit" /\ env.msg = k)
          /\ ~(env.kind = "new" /\ env.msg = k) => EditsFollow(rest, k)
  BY <1>1, <1>2, FollowsTaken
<1> HIDE DEF env, rest
<1>5. env.kind \in {"new", "edit", "delete"} /\ env.msg \in Msgs
  BY <1>2 DEF Envelope
<1>6. /\ loop'.at \in {"idle", "send", "redact"}
      /\ loop'.at # "idle" => loop'.msg = env.msg /\ loop'.ev = mapping[env.msg] /\ loop'.kind = env.kind
      /\ loop'.at = "send" <=> env.kind # "delete" /\ env.msg \notin OwnMsgs /\ bridged
  BY <1>1, <1>5 DEF HandlerOf, Idle
<1>7. \A k : EventsOf(k)' = EventsOf(k)
  BY <1>1 DEF EventsOf
<1>8. \A k, places : LoopHas(k, places) => "idle" \in places
  BY <1>1 DEF LoopHas
<1>9. HeldEdit'
  <2> SUFFICES ASSUME loop'.at = "send", env.kind = "edit", mapping[env.msg] = None
               PROVE  slack[env.msg] = "removed"
    BY <1>1, <1>6 DEF HeldEdit
  <2>1. EditFollows(env.msg) /\ UnmappedGone(env.msg) /\ Mentions(socket, env.msg)
    BY <1>3, <1>5 DEF Follows
  <2>2. EventsOf(env.msg) # {}
    BY <1>4, <1>6, <1>8, <2>1 DEF EditFollows
  <2>3. QED BY <1>8, <2>1, <2>2 DEF UnmappedGone
<1>10. Excused'
  BY <1>1 DEF Follows, Excused
<1>11. ASSUME NEW k \in Msgs PROVE EditFollows(k)' /\ UnpostedQuiet(k)' /\ UnmappedGone(k)'
  <2>1. EditFollows(k) /\ UnpostedQuiet(k) /\ UnmappedGone(k)
    BY DEF Follows
  <2>2. EditFollows(k)'
    <3> SUFFICES ASSUME bridged, k \notin OwnMsgs, EventsOf(k) = {}
                 PROVE  LoopHas(k, {"send"})' \/ EditsFollow(rest, k)
      BY <1>1, <1>7 DEF EditFollows
    <3>1. EditsFollow(socket, k)
      BY <1>8, <2>1 DEF EditFollows
    <3>2. CASE env.kind = "new" /\ env.msg = k
      BY <1>6, <3>2 DEF LoopHas
    <3>3. QED BY <1>4, <3>1, <3>2
  <2>3. UnpostedQuiet(k)'
    BY <1>1, <1>3, <2>1 DEF UnpostedQuiet
  <2>4. UnmappedGone(k)'
    BY <1>1, <1>3, <1>6, <1>7, <1>8, <2>1 DEF UnmappedGone, LoopHas
  <2>5. QED BY <2>2, <2>3, <2>4
<1>12. QED BY <1>9, <1>10, <1>11 DEF Follows

\* What the loop sends replaces an event, or is the edit of a message that was removed.
LEMMA FollowsRelays ==
  ASSUME IInv, Follows, Relay
  PROVE  Follows'
<1>1. /\ UNCHANGED <<slack, socket, bridged, mapping>>
      /\ loop.at = "send" /\ SendToMatrix(loop.kind, loop.msg, loop.ev)
      /\ loop' = [loop EXCEPT !.at = "map", !.ev = Len(events')]
  BY DEF Relay
<1>2. /\ loop \in Handler({"idle", "send", "map", "redact", "unmap"}) /\ events \in Seq(Event)
  BY DEF IInv, TypeOK, Event
<1>3. /\ loop.kind \in {"new", "edit"} /\ loop.msg \in Msgs /\ loop.ev \in Events \cup {None}
  BY <1>1, <1>2 DEF IInv, Carried, LoopKnows, Handler
<1>4. PICK m \in Msgs, kind \in {"new", "edit"}, target \in Events \cup {None} :
        m = loop.msg /\ kind = loop.kind /\ target = loop.ev
  BY <1>3
<1>5. PICK e : e = Len(events')
  OBVIOUS
<1>6. /\ e = Len(events) + 1 /\ Len(events) \in Nat /\ events'[e].msg = m
      /\ events'[e].of = Relation(kind, target)
      /\ \A i \in 1..Len(events) : events'[i] = events[i]
  BY <1>1, <1>2, <1>4, <1>5, SendGrows
<1>7. loop'.at = "map" /\ loop'.msg = m
  BY <1>1, <1>2, <1>4 DEF Handler
<1>8. EventsOf(m)' = EventsOf(m) \cup {e} /\ \A k \in Msgs : k # m => EventsOf(k)' = EventsOf(k)
  BY <1>5, <1>6 DEF EventsOf
<1>9. HeldEdit'
  BY <1>7 DEF HeldEdit
<1>10. Excused'
  <2>1. ASSUME events'[e].of = Dangling PROVE slack[m] = "removed"
    <3>1. kind = "edit" /\ target = None
      BY <1>6, <2>1, NumsAreNat DEF Relation, Dangling, Events, None
    <3>2. QED BY <1>1, <1>4, <3>1 DEF Follows, HeldEdit
  <2>2. ASSUME NEW i \in 1..Len(events'), events'[i].of = Dangling
        PROVE  slack'[events'[i].msg] = "removed"
    <3>1. CASE i \in 1..Len(events)
      BY <1>1, <1>6, <2>2, <3>1 DEF Follows, Excused
    <3>2. CASE i = e
      BY <1>1, <1>6, <2>1, <2>2, <3>2
    <3>3. QED BY <1>5, <1>6, <3>1, <3>2
  <2>3. QED BY <2>2 DEF Excused
<1>11. ASSUME NEW k \in Msgs PROVE EditFollows(k)' /\ UnpostedQuiet(k)' /\ UnmappedGone(k)'
  <2>1. EditFollows(k) /\ UnpostedQuiet(k) /\ UnmappedGone(k)
    BY DEF Follows
  <2>2. UnpostedQuiet(k)'
    BY <1>1, <2>1 DEF UnpostedQuiet
  <2>3. CASE k = m
    BY <1>7, <1>8, <2>2, <2>3 DEF EditFollows, UnmappedGone, LoopHas
  <2>4. CASE k # m
    BY <1>1, <1>4, <1>7, <1>8, <2>1, <2>2, <2>4 DEF EditFollows, UnmappedGone, LoopHas
  <2>5. QED BY <2>3, <2>4
<1>12. QED BY <1>9, <1>10, <1>11 DEF Follows

\* The loop's other steps send nothing; a row goes only with its message.
LEMMA FollowsHandles ==
  ASSUME IInv, InStep, Follows, MapRelayed \/ Redact \/ Unmap
  PROVE  Follows'
<1>1. /\ UNCHANGED <<slack, socket, bridged, events>> /\ loop.at \in {"map", "redact", "unmap"}
      /\ loop'.at \in {"idle", "unmap"} /\ (loop'.at = "unmap" => loop.at = "redact")
  BY DEF MapRelayed, Redact, Unmap, Idle, IInv, TypeOK, Handler
<1>2. \A k : EventsOf(k)' = EventsOf(k)
  BY <1>1 DEF EventsOf
<1>3. ASSUME NEW k \in Msgs
      PROVE  \/ mapping'[k] = mapping[k] /\ ~LoopHas(k, {"map"})
             \/ mapping'[k] # None
             \/ slack[k] \in Gone /\ ~Mentions(socket, k)
  <2>1. mapping \in [Msgs -> Events \cup {None}] /\ loop.msg \in Msgs
    BY <1>1 DEF IInv, TypeOK, Carried, LoopKnows
  <2>2. CASE MapRelayed
    BY <2>1, <2>2 DEF MapRelayed, IInv, Carried, LoopKnows, LoopHas
  <2>3. CASE Redact
    BY <2>3 DEF Redact, LoopHas
  <2>4. CASE Unmap
    <3>1. slack[loop.msg] \in Gone /\ ~Mentions(socket, loop.msg)
      BY <2>4 DEF Unmap, IInv, Carried, LoopKnows, InStep, DeleteIsLast
    <3>2. QED BY <2>1, <2>4, <3>1 DEF Unmap, LoopHas
  <2>5. QED BY <2>2, <2>3, <2>4
<1>4. \A k, places : LoopHas(k, places)' => "idle" \in places \/ "unmap" \in places
  BY <1>1 DEF LoopHas
<1>5. HeldEdit' /\ Excused'
  BY <1>1 DEF Follows, HeldEdit, Excused
<1>6. ASSUME NEW k \in Msgs PROVE EditFollows(k)' /\ UnpostedQuiet(k)' /\ UnmappedGone(k)'
  <2>1. EditFollows(k) /\ UnpostedQuiet(k) /\ UnmappedGone(k)
    BY DEF Follows
  <2>2. EditFollows(k)'
    BY <1>1, <1>2, <2>1 DEF EditFollows, LoopHas
  <2>3. UnpostedQuiet(k)'
    BY <1>1, <2>1 DEF UnpostedQuiet
  <2>4. UnmappedGone(k)'
    BY <1>1, <1>2, <1>3, <1>4, <2>1 DEF UnmappedGone
  <2>5. QED BY <2>2, <2>3, <2>4
<1>7. QED BY <1>5, <1>6 DEF Follows

\* The redactor takes the row of a message it has removed.
LEMMA FollowsUnmapsEvent ==
  ASSUME IInv, Follows, UnmapEvent
  PROVE  Follows'
<1>1. /\ UNCHANGED <<slack, socket, bridged, loop, events>>
      /\ redactor.at = "unmap"
      /\ mapping' = [k \in Msgs |-> IF mapping[k] = redactor.ev THEN None ELSE mapping[k]]
  BY DEF UnmapEvent
<1>2. /\ redactor.ev \in SentFor(events, redactor.msg) /\ slack[redactor.msg] = "removed"
  BY <1>1 DEF IInv, Carried, RedactorKnows
<1>3. \A k : EventsOf(k)' = EventsOf(k)
  BY <1>1 DEF EventsOf
<1>4. \A k, places : LoopHas(k, places)' <=> LoopHas(k, places)
  BY <1>1 DEF LoopHas
<1>5. HeldEdit' /\ Excused'
  BY <1>1 DEF Follows, HeldEdit, Excused
<1>6. ASSUME NEW k \in Msgs PROVE EditFollows(k)' /\ UnpostedQuiet(k)' /\ UnmappedGone(k)'
  <2>1. EditFollows(k) /\ UnpostedQuiet(k) /\ UnmappedGone(k)
    BY DEF Follows
  <2>2. EditFollows(k)' /\ UnpostedQuiet(k)'
    BY <1>1, <1>3, <1>4, <2>1 DEF EditFollows, UnpostedQuiet
  <2>3. mapping'[k] = mapping[k] \/ slack[k] = "removed"
    <3>1. CASE mapping[k] = redactor.ev
      <4>1. redactor.ev # None
        BY <1>2 DEF SentFor, None
      <4>2. k = redactor.msg
        BY <1>2, <3>1, <4>1 DEF IInv, Related, EventsOf, SentFor
      <4>3. QED BY <1>2, <4>2
    <3>2. QED BY <1>1, <3>1
  <2>4. UnmappedGone(k)'
    BY <1>1, <1>3, <1>4, <2>1, <2>3 DEF UnmappedGone
  <2>5. QED BY <2>2, <2>4
<1>7. QED BY <1>5, <1>6 DEF Follows

LEMMA NextFollows ==
  ASSUME IInv, clean => InStep /\ Follows, [Next]_vars, clean'
  PROVE  Follows'
<1>1. CASE UNCHANGED vars
  <2>1. Follows /\ UNCHANGED <<slack, socket, bridged, loop, mapping, events>>
    BY <1>1 DEF vars
  <2>2. QED BY <2>1, FollowsStays
<1>2. CASE Next
  <2>1. InStep /\ Follows
    BY <1>2, WasClean
  <2>2. ASSUME NEW m \in Msgs, Post(m) \/ Edit(m) \/ DeleteOnSlack(m) PROVE Follows'
    <3>1. PICK kind \in {"new", "edit", "delete"} :
            /\ Emit(kind, m) /\ UNCHANGED <<bridged, loop, mapping, events>>
            /\ slack[m] \in {"unposted", "there"} /\ (kind = "edit" => slack[m] = "there")
            /\ slack' = [slack EXCEPT ![m] = IF kind = "new" THEN "there" ELSE
                                             IF kind = "edit" THEN @ ELSE "deleted"]
            /\ kind # "new" => slack[m] = "there"
      BY <2>2 DEF Post, Edit, DeleteOnSlack, IInv, TypeOK
    <3>2. /\ slack[m] \notin Gone /\ \A k \in Msgs : k # m => slack'[k] = slack[k]
          /\ slack'[m] # "unposted"
      BY <3>1 DEF IInv, TypeOK, Gone
    <3>3. QED BY <2>1, <3>1, <3>2, FollowsEmits
  <2>3. CASE LoopStep
    BY <2>1, <2>3, FollowsReceives, FollowsRelays, FollowsHandles DEF LoopStep
  <2>4. ASSUME NEW f \in Fills, Bridge(f) \/ BackfillStep(f) \/ FillFails(f) PROVE Follows'
    <3>1. fill[f].at \notin {"send", "map"}
      BY <2>1 DEF InStep, FillsIdle
    <3>2. CASE Bridge(f)
      <4>1. UNCHANGED <<slack, socket, loop, mapping, events>> /\ \A m \in Msgs : slack[m] = "unposted"
        BY <3>2 DEF Bridge
      <4>2. QED BY <2>1, <4>1, FollowsStays
    <3>3. CASE Fetch(f) \/ CheckMapped(f)
      <4>1. UNCHANGED <<slack, socket, bridged, loop, mapping, events>>
        BY <3>3 DEF Fetch, CheckMapped, FillStep
      <4>2. QED BY <2>1, <4>1, FollowsStays
    <3>4. ~FillSend(f) /\ ~FillMap(f) /\ ~FillFails(f)
      BY <3>1 DEF FillSend, FillMap, FillFails
    <3>5. QED BY <2>4, <3>2, <3>3, <3>4 DEF BackfillStep
  <2>5. ASSUME NEW e \in Events, UserRedacts(e) \/ HandleRedaction(e) PROVE Follows'
    <3>1. UNCHANGED <<slack, socket, bridged, loop, mapping, events>>
      BY <2>5 DEF UserRedacts, HandleRedaction
    <3>2. QED BY <2>1, <3>1, FollowsStays
  <2>6. CASE DeleteFromSlack
    <3>1. UNCHANGED <<bridged, loop, mapping, events>>
      BY <2>6 DEF DeleteFromSlack
    <3>2. CASE UNCHANGED <<slack, socket>>
      BY <2>1, <3>1, <3>2, FollowsStays
    <3>3. CASE slack[redactor.msg] = "there" /\ slack' = [slack EXCEPT ![redactor.msg] = "removed"]
               /\ Emit("delete", redactor.msg)
      <4>1. PICK m \in Msgs : m = redactor.msg
        BY <2>6 DEF DeleteFromSlack, IInv, Carried, RedactorKnows
      <4>2. /\ slack[m] \notin Gone /\ \A k \in Msgs : k # m => slack'[k] = slack[k]
            /\ slack'[m] # "unposted"
        BY <3>3, <4>1 DEF IInv, TypeOK, Gone
      <4>3. Emit("delete", m)
        BY <3>3, <4>1
      <4>4. QED BY <2>1, <3>1, <4>2, <4>3, FollowsEmits
    <3>4. QED BY <2>6, <3>2, <3>3 DEF DeleteFromSlack
  <2>7. CASE UnmapEvent
    BY <2>1, <2>7, FollowsUnmapsEvent
  <2>8. ~LoopFails /\ ~Unbridge /\ ~RedactorFails /\ ~Crash
    BY DEF LoopFails, Unbridge, RedactorFails, Crash
  <2>9. QED BY <1>2, <2>2, <2>3, <2>4, <2>5, <2>6, <2>7, <2>8 DEF Next
<1>3. QED BY <1>1, <1>2

\* However the socket loop, backfill and redactions overwrite each other's rows: a message
\* is mapped to an event of its own, an edit that replaces an event replaces an earlier one
\* of its own message, and, if nothing failed, an edit replaces no event only where a user's
\* redaction had the message removed first (apply_message_relation_mappings).
THEOREM RelationsHold == Spec => []RelationsStayInMessage
<1>1. Init => (clean => InStep /\ Follows)
  <2> SUFFICES ASSUME Init PROVE Follows
    BY InitInStep
  <2>1. socket = <<>> /\ loop.at = "idle" /\ events = <<>>
    BY DEF Init, Idle
  <2>2. \A m : EventsOf(m) = {} /\ ~Mentions(socket, m)
    BY <2>1 DEF EventsOf, Mentions
  <2>3. HeldEdit /\ Excused
    BY <2>1 DEF HeldEdit, Excused
  <2>4. ASSUME NEW m \in Msgs PROVE EditFollows(m) /\ UnpostedQuiet(m) /\ UnmappedGone(m)
    BY <2>2, UnmentionedFollow DEF EditFollows, UnpostedQuiet, UnmappedGone
  <2>5. QED BY <2>3, <2>4 DEF Follows
<1>2. IInv /\ (clean => InStep /\ Follows) /\ [Next]_vars => (clean => InStep /\ Follows)'
  BY NextInStep, NextFollows
<1>3. IInv /\ (clean => InStep /\ Follows) => RelationsStayInMessage
  BY DEF IInv, RelationsStayInMessage, DanglingIsExcused, Follows, Excused
<1>4. QED BY <1>1, <1>2, <1>3, Invariance, PTL DEF Spec

=============================================================================
