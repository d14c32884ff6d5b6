---------------------------- MODULE OutboundProofs ----------------------------
(***************************************************************************)
(* The safety properties of Outbound, for any transactions, tasks and      *)
(* faults.  Three concerns, each inductive with the types:                 *)
(*   - Settled: what lies behind a task's position is sent or given up;    *)
(*   - Alone and Behind: before the first retry one task works, and what   *)
(*     is in the channel lies behind it or is of its event;                *)
(*   - Unposted: what is left to send of an event is not there yet.        *)
(***************************************************************************)
EXTENDS Outbound, FiniteSetTheorems, SequenceTheorems, TLAPS

Busy(r) == task[r].at \in {"lock", "send"}

\* The plans of Handle, and what AfterError and Sent leave of them.
PartLists == {<<"text">>, <<"file", "text">>, <<"url", "text">>, <<"edit">>, <<"notice">>}

PartsOK == \A r \in Tasks : Busy(r) =>
    /\ task[r].parts \in PartLists
    /\ Shape[EventOf(task[r])] \in {"text", "media"} =>
          task[r].parts \in {<<"text">>, <<"file", "text">>, <<"url", "text">>}

\* The state is an argument of these two: they are asked of the state before and after a
\* step about the same event.
InChannel(ch, m, part) == \E k \in DOMAIN ch : ch[k] = [ev |-> m, part |-> part]

Settled(ch, ex, m) == Shape[m] \in {"text", "media"} => InChannel(ch, m, "text") \/ m \in ex

\* The events given up for a reason of their own.
Excused == failed \cup unread \cup tooOld

SettledOK ==
    /\ \A t \in 1..next - 1 : \A i \in DOMAIN Txn[t] : Settled(channel, Excused, Txn[t][i])
    /\ \A r \in Tasks : task[r].at # "idle" =>
          \A i \in DOMAIN Txn[task[r].txn] : i < task[r].pos => Settled(channel, Excused, Txn[task[r].txn][i])

Alone == ~retried => \A r \in Tasks : task[r].at # "idle" => waiting = r

\* m lies before what is under way.
Passed(m) ==
    \/ \E t \in 1..next - 1 : \E i \in DOMAIN Txn[t] : m = Txn[t][i]
    \/ \E r \in Tasks : /\ task[r].at # "idle"
                        /\ \E i \in DOMAIN Txn[task[r].txn] : i < task[r].pos /\ m = Txn[task[r].txn][i]

Behind == ~retried => \A k \in DOMAIN channel :
    \/ Passed(channel[k].ev)
    \/ \E r \in Tasks : /\ Busy(r) /\ channel[k].ev = EventOf(task[r])
                        /\ channel[k].part = "text" => task[r].parts = <<"text">>

Unposted == ~retried => \A r \in Tasks :
    Busy(r) /\ EventOf(task[r]) \notin unsure =>
        LET m == EventOf(task[r]) IN
        /\ \A i \in 1..Len(task[r].parts) : ~InChannel(channel, m, task[r].parts[i])
        /\ InChannel(channel, m, "file") => task[r].parts = <<"text">>
        /\ InChannel(channel, m, "url") => task[r].parts = <<"text">>

Once == ~retried => \A m \in Events \ unsure :
    /\ \A k, l \in DOMAIN channel : channel[k].ev = m /\ channel[k] = channel[l] => k = l
    /\ ~(InChannel(channel, m, "file") /\ InChannel(channel, m, "url"))

IInv == TypeOK /\ PartsOK /\ SettledOK /\ Alone /\ Behind /\ Unposted /\ Once /\ InOrderUnlessRetried
-----------------------------------------------------------------------------
(* Facts about parts and records. *)

Rec == [at : {"idle", "event", "lock", "send"}, txn : Nat \ {0}, pos : Nat \ {0},
        parts : Seq(Parts), plain : BOOLEAN]

LEMMA PartListFacts ==
  ASSUME NEW p \in PartLists
  PROVE  /\ p \in Seq(Parts) /\ p # <<>> /\ Head(p) \in Parts /\ Head(p) = p[1] /\ Len(p) \in {1, 2}
         /\ Head(p) = "text" => p = <<"text">>
         /\ Len(p) # 1 => p[2] = "text" /\ Tail(p) = <<"text">> /\ Head(p) \in {"file", "url"}
         /\ Len(p) = 1 => Head(p) \in {"text", "edit", "notice"}
         /\ Head(p) = "file" => Len(p) = 2 /\ <<"url">> \o Tail(p) = <<"url", "text">>
<1>1. CASE p = <<"text">>
  BY <1>1 DEF Parts
<1>2. CASE p = <<"edit">>
  BY <1>2 DEF Parts
<1>3. CASE p = <<"notice">>
  BY <1>3 DEF Parts
<1>4. CASE p = <<"file", "text">>
  <2>1. Tail(p) = <<"text">>
    BY <1>4
  <2>2. <<"url">> \o <<"text">> = <<"url", "text">>
    <3> DEFINE S == {"url", "text"}
               a == <<"url">> \o <<"text">>
               b == <<"url", "text">>
    <3>1. a \in Seq(S) /\ b \in Seq(S)
      OBVIOUS
    <3>2. Len(a) = Len(b) /\ \A i \in 1..Len(a) : a[i] = b[i]
      OBVIOUS
    <3> HIDE DEF S, a, b
    <3>3. a = b
      BY <3>1, <3>2, SeqEqual
    <3>4. QED BY <3>3 DEF a, b
  <2>3. QED BY <1>4, <2>1, <2>2 DEF Parts
<1>5. CASE p = <<"url", "text">>
  <2>1. Tail(p) = <<"text">>
    BY <1>5
  <2>2. QED BY <1>5, <2>1 DEF Parts
<1>6. QED BY <1>1, <1>2, <1>3, <1>4, <1>5 DEF PartLists

LEMMA EventTyped ==
  ASSUME TypeOK, NEW r \in Tasks, task[r].at # "idle", task[r].pos \in DOMAIN Txn[task[r].txn]
  PROVE  task[r].txn \in DOMAIN Txn /\ EventOf(task[r]) \in Events /\ Shape[EventOf(task[r])] \in Shapes
<1>1. task[r].txn \in 1..NumTxns
  BY DEF TypeOK
<1>2. task[r].txn \in DOMAIN Txn /\ Txn[task[r].txn] \in Seq(Events)
  BY <1>1, TxnsHaveEvents DEF NumTxns
<1>3. EventOf(task[r]) \in Events
  <2>1. PICK q \in Seq(Events) : q = Txn[task[r].txn]
    BY <1>2
  <2>2. \A i \in DOMAIN q : q[i] \in Events
    BY <2>1
  <2>3. QED BY <2>1, <2>2 DEF EventOf
<1>4. QED BY <1>2, <1>3, EventsAreShaped

\* What a plan is, once there is one.
LEMMA PlansListed ==
  ASSUME NEW m \in Events, NEW plan \in Plans(m), plan # <<>>
  PROVE  /\ plan \in PartLists
         /\ Shape[m] \in {"text", "media"} => plan \in {<<"text">>, <<"file", "text">>, <<"url", "text">>}
BY EventsAreShaped DEF Plans, PartLists, Shapes

LEMMA NoPlan ==
  ASSUME NEW m \in Events, <<>> \in Plans(m)
  PROVE  Shape[m] \notin {"text", "media"}
<1>1. <<>> # <<"text">> /\ <<>> # <<"file", "text">> /\ <<>> # <<"url", "text">>
  <2>1. Len(<<>>) = 0 /\ Len(<<"text">>) = 1 /\ Len(<<"file", "text">>) = 2 /\ Len(<<"url", "text">>) = 2
    OBVIOUS
  <2>2. QED BY <2>1
<1>2. CASE Shape[m] = "text"
  BY <1>1, <1>2 DEF Plans
<1>3. CASE Shape[m] = "media"
  BY <1>1, <1>3 DEF Plans
<1>4. QED BY <1>2, <1>3
-----------------------------------------------------------------------------
(* What the steps do to the task and to the channel. *)

LEMMA DoneShape ==
  ASSUME NEW r \in Tasks, TypeOK, Done(r)
  PROVE  /\ task' \in [Tasks -> Rec]
         /\ \A q \in Tasks : q # r => task'[q] = task[q]
         /\ task'[r].at = "event" /\ task'[r].txn = task[r].txn /\ task'[r].pos = task[r].pos + 1
<1>1. task \in [Tasks -> Rec]
  BY DEF TypeOK, Rec
<1>2. PICK txn \in Nat \ {0}, pos \in Nat \ {0} : txn = task[r].txn /\ pos = task[r].pos + 1
  <2>1. task[r].txn \in Nat \ {0} /\ task[r].pos \in Nat \ {0}
    BY <1>1 DEF Rec
  <2>2. task[r].pos + 1 \in Nat \ {0}
    BY <2>1
  <2>3. QED BY <2>1, <2>2
<1>3. PICK g : g = [Idle EXCEPT !.at = "event", !.txn = txn, !.pos = pos]
  OBVIOUS
<1>4. g \in Rec /\ g.at = "event" /\ g.txn = txn /\ g.pos = pos
  <2>1. Idle \in Rec
    BY DEF Idle, Rec
  <2>2. QED BY <1>3, <2>1 DEF Rec
<1>5. task' = [task EXCEPT ![r] = g]
  BY <1>2, <1>3 DEF Done
<1>6. QED BY <1>1, <1>2, <1>4, <1>5

LEMMA PartShape ==
  ASSUME NEW r \in Tasks, TypeOK, NEW at \in {"lock", "send"}, NEW parts \in PartLists, NEW plain \in BOOLEAN,
         task' = [task EXCEPT ![r] = [task[r] EXCEPT !.at = at, !.parts = parts, !.plain = plain]]
  PROVE  /\ task' \in [Tasks -> Rec]
         /\ \A q \in Tasks : q # r => task'[q] = task[q]
         /\ task'[r].at = at /\ task'[r].txn = task[r].txn /\ task'[r].pos = task[r].pos
         /\ task'[r].parts = parts /\ task'[r].plain = plain
<1>1. task \in [Tasks -> Rec] /\ task[r] \in Rec
  BY DEF TypeOK, Rec
<1>2. PICK g : g = [task[r] EXCEPT !.at = at, !.parts = parts, !.plain = plain]
  OBVIOUS
<1>3. parts \in Seq(Parts)
  BY PartListFacts
<1>4. /\ g \in Rec /\ g.at = at /\ g.txn = task[r].txn /\ g.pos = task[r].pos
      /\ g.parts = parts /\ g.plain = plain
  BY <1>1, <1>2, <1>3 DEF Rec
<1>5. task' = [task EXCEPT ![r] = g]
  BY <1>2
<1>6. QED BY <1>1, <1>4, <1>5

Entry(r) == [ev |-> EventOf(task[r]), part |-> Head(task[r].parts)]

OthersStay(r) == /\ task' \in [Tasks -> Rec]
                 /\ \A q \in Tasks : q # r => task'[q] = task[q]
                 /\ task'[r].txn = task[r].txn

Finishes(r) == /\ OthersStay(r)
               /\ task'[r].at = "event" /\ task'[r].pos = task[r].pos + 1

Continues(r, parts) == /\ OthersStay(r)
                       /\ task'[r].at \in {"lock", "send"} /\ task'[r].pos = task[r].pos
                       /\ task'[r].parts = parts

LEMMA SentShape ==
  ASSUME NEW r \in Tasks, TypeOK, PartsOK, Sent(r)
  PROVE  \/ Len(task[r].parts) = 1 /\ Finishes(r)
         \/ Len(task[r].parts) = 2 /\ Continues(r, <<"text">>) /\ task'[r].at = "lock"
<1>1. task[r].at = "send" /\ task[r].parts \in PartLists
  BY DEF Sent, PartsOK, Busy
<1>2. CASE Len(task[r].parts) = 1
  <2>1. Done(r)
    BY <1>2 DEF Sent
  <2>2. QED BY <1>2, <2>1, DoneShape DEF Finishes, OthersStay
<1>3. CASE Len(task[r].parts) # 1
  <2>1. Len(task[r].parts) = 2 /\ Tail(task[r].parts) = <<"text">>
    BY <1>1, <1>3, PartListFacts
  <2>2. task' = [task EXCEPT ![r] = [task[r] EXCEPT !.at = "lock", !.parts = <<"text">>, !.plain = FALSE]]
    <3>1. task' = [task EXCEPT ![r] = [task[r] EXCEPT !.at = "lock", !.parts = Tail(task[r].parts), !.plain = FALSE]]
      BY <1>3 DEF Sent, TypeOK
    <3>2. QED BY <2>1, <3>1
  <2>3. <<"text">> \in PartLists /\ "lock" \in {"lock", "send"} /\ FALSE \in BOOLEAN
    BY DEF PartLists
  <2>4. Continues(r, <<"text">>) /\ task'[r].at = "lock"
    BY <2>2, <2>3, PartShape DEF Continues, OthersStay
  <2>5. QED BY <2>1, <2>4
<1>4. QED BY <1>2, <1>3

LEMMA ErrorShape ==
  ASSUME NEW r \in Tasks, TypeOK, PartsOK, task[r].at = "send", AfterError(r)
  PROVE  \/ /\ Head(task[r].parts) = "file" /\ Continues(r, <<"url", "text">>) /\ task'[r].at = "lock"
            /\ sendLock' = None /\ failed' = failed
         \/ /\ Head(task[r].parts) # "file" /\ Continues(r, task[r].parts) /\ task'[r].at = "send"
            /\ sendLock' = sendLock /\ failed' = failed
         \/ /\ Head(task[r].parts) # "file" /\ Finishes(r)
            /\ sendLock' = None /\ failed' = failed \cup {EventOf(task[r])}
<1>1. task[r].parts \in PartLists /\ task \in [Tasks -> Rec] /\ task[r].plain \in BOOLEAN
  BY DEF PartsOK, Busy, TypeOK, Rec
<1>2. CASE Head(task[r].parts) = "file"
  <2>1. <<"url">> \o Tail(task[r].parts) = <<"url", "text">>
    BY <1>1, <1>2, PartListFacts
  <2>2. /\ task' = [task EXCEPT ![r] = [task[r] EXCEPT !.at = "lock", !.parts = <<"url">> \o Tail(task[r].parts)]]
        /\ sendLock' = None /\ failed' = failed
    BY <1>2 DEF AfterError
  <2>3. PICK g : g = [task[r] EXCEPT !.at = "lock", !.parts = <<"url", "text">>]
    OBVIOUS
  <2>4. <<"url", "text">> \in Seq(Parts)
    BY DEF Parts
  <2>5. /\ g \in Rec /\ g.at = "lock" /\ g.txn = task[r].txn /\ g.pos = task[r].pos
        /\ g.parts = <<"url", "text">>
    BY <1>1, <2>3, <2>4 DEF Rec
  <2>6. task' = [task EXCEPT ![r] = g]
    BY <2>1, <2>2, <2>3
  <2>7. Continues(r, <<"url", "text">>) /\ task'[r].at = "lock"
    BY <1>1, <2>5, <2>6 DEF Continues, OthersStay
  <2>8. QED BY <1>2, <2>2, <2>7
<1>3. CASE Head(task[r].parts) # "file" /\ ~task[r].plain
  <2>1. /\ task' = [task EXCEPT ![r].plain = TRUE]
        /\ sendLock' = sendLock /\ failed' = failed
    BY <1>3 DEF AfterError
  <2>2. PICK g : g = [task[r] EXCEPT !.plain = TRUE]
    OBVIOUS
  <2>3. g \in Rec /\ g.at = task[r].at /\ g.txn = task[r].txn /\ g.pos = task[r].pos /\ g.parts = task[r].parts
    BY <1>1, <2>2 DEF Rec
  <2>4. task' = [task EXCEPT ![r] = g]
    BY <2>1, <2>2
  <2>5. Continues(r, task[r].parts) /\ task'[r].at = "send"
    BY <1>1, <2>3, <2>4 DEF Continues, OthersStay
  <2>6. QED BY <1>3, <2>1, <2>5
<1>4. CASE Head(task[r].parts) # "file" /\ task[r].plain
  <2>1. Done(r) /\ sendLock' = None /\ failed' = failed \cup {EventOf(task[r])}
    BY <1>4 DEF AfterError
  <2>2. QED BY <1>4, <2>1, DoneShape DEF Finishes, OthersStay
<1>5. QED BY <1>2, <1>3, <1>4

\* A task that starts on the transaction under way.
LEMMA StartShape ==
  ASSUME TypeOK, next \in 1..NumTxns, NEW g, g = [Idle EXCEPT !.at = "event", !.txn = next]
  PROVE  g \in Rec /\ g.at = "event" /\ g.txn = next /\ g.pos = 1 /\ Idle \in Rec /\ Idle.at = "idle"
<1>1. Idle \in Rec /\ Idle.at = "idle" /\ Idle.pos = 1
  BY DEF Idle, Rec
<1>2. PICK n \in Nat \ {0} : n = next
  BY TxnsHaveEvents DEF NumTxns
<1>3. g = [Idle EXCEPT !.at = "event", !.txn = n]
  BY <1>2
<1>4. QED BY <1>1, <1>2, <1>3 DEF Rec

LEMMA RetryShape ==
  ASSUME IInv, NEW r \in Tasks, Retry(r)
  PROVE  /\ waiting \in Tasks /\ waiting # r /\ next \in 1..NumTxns
         /\ task' \in [Tasks -> Rec]
         /\ task'[r].at = "event" /\ task'[r].txn = next /\ task'[r].pos = 1
         /\ \A q \in Tasks : q \notin {r, waiting} => task'[q] = task[q]
         /\ \/ /\ sendLock' = sendLock
               /\ task'[waiting] = task[waiting]
            \/ /\ sendLock' = (IF sendLock = waiting THEN None ELSE sendLock)
               /\ task'[waiting].at = "idle"
<1>1. /\ task \in [Tasks -> Rec] /\ waiting \in Tasks /\ waiting # r
      /\ task[waiting].at # "idle" /\ task[waiting].txn = next
  BY DEF Retry, IInv, TypeOK, Rec
<1>2. next \in 1..NumTxns
  BY <1>1 DEF IInv, TypeOK
<1>3. PICK g : g = [Idle EXCEPT !.at = "event", !.txn = next]
  OBVIOUS
<1>4. g \in Rec /\ g.at = "event" /\ g.txn = next /\ g.pos = 1 /\ Idle \in Rec /\ Idle.at = "idle"
  BY <1>2, <1>3, StartShape DEF IInv
<1>5. \/ task' = [task EXCEPT ![r] = g] /\ sendLock' = sendLock
      \/ /\ task' = [[task EXCEPT ![r] = g] EXCEPT ![waiting] = Idle]
         /\ sendLock' = (IF sendLock = waiting THEN None ELSE sendLock)
  BY <1>3 DEF Retry
<1>6. None \notin Tasks
  BY DEF None, Tasks
<1>7. CASE task' = [task EXCEPT ![r] = g] /\ sendLock' = sendLock
  <2>1. /\ task' \in [Tasks -> Rec] /\ task'[r] = g
        /\ \A q \in Tasks : q # r => task'[q] = task[q]
    BY <1>1, <1>4, <1>7
  <2>2. QED BY <1>1, <1>2, <1>4, <1>7, <2>1
<1>8. CASE /\ task' = [[task EXCEPT ![r] = g] EXCEPT ![waiting] = Idle]
           /\ sendLock' = (IF sendLock = waiting THEN None ELSE sendLock)
  <2>1. /\ task' \in [Tasks -> Rec] /\ task'[r] = g /\ task'[waiting] = Idle
        /\ \A q \in Tasks : q \notin {r, waiting} => task'[q] = task[q]
    BY <1>1, <1>4, <1>8
  <2>2. sendLock' # waiting
    BY <1>1, <1>6, <1>8
  <2>3. QED BY <1>1, <1>2, <1>4, <1>8, <2>1, <2>2
<1>9. QED BY <1>5, <1>7, <1>8

LEMMA DeliverShape ==
  ASSUME IInv, NEW r \in Tasks, Deliver(r)
  PROVE  /\ next \in 1..NumTxns /\ task[r].at = "idle"
         /\ task' \in [Tasks -> Rec]
         /\ task'[r].at = "event" /\ task'[r].txn = next /\ task'[r].pos = 1
         /\ \A q \in Tasks : q # r => task'[q] = task[q]
<1>1. next \in 1..NumTxns /\ task \in [Tasks -> Rec] /\ task[r].at = "idle"
  BY TxnsHaveEvents DEF Deliver, IInv, TypeOK, Rec, NumTxns
<1>2. PICK g : g = [Idle EXCEPT !.at = "event", !.txn = next]
  OBVIOUS
<1>3. g \in Rec /\ g.at = "event" /\ g.txn = next /\ g.pos = 1
  BY <1>1, <1>2, StartShape DEF IInv
<1>4. task' = [task EXCEPT ![r] = g]
  BY <1>2 DEF Deliver
<1>5. QED BY <1>1, <1>3, <1>4

LEMMA HandleShape ==
  ASSUME IInv, NEW r \in Tasks, Handle(r)
  PROVE  LET m == EventOf(task[r]) IN
         /\ task[r].at = "event" /\ task[r].pos \in DOMAIN Txn[task[r].txn] /\ m \in Events
         /\ UNCHANGED <<next, waiting, sendLock, channel, failed, unsure, retried>>
         /\ faults' \in 0..MaxFaults
         /\ unread' \in {unread, unread \cup {m}} /\ tooOld' \in {tooOld, tooOld \cup {m}}
         /\ \/ Finishes(r) /\ (Shape[m] \notin {"text", "media"} \/ m \in Excused')
            \/ \E plan \in PartLists :
                  /\ Continues(r, plan) /\ task'[r].at = "lock"
                  /\ Shape[m] \in {"text", "media"} =>
                        plan \in {<<"text">>, <<"file", "text">>, <<"url", "text">>}
<1> DEFINE m == EventOf(task[r])
<1>1. /\ task[r].at = "event" /\ task[r].pos \in DOMAIN Txn[task[r].txn] /\ TypeOK
      /\ UNCHANGED <<next, waiting, sendLock, channel, failed, unsure, retried>>
      /\ faults \in 0..MaxFaults /\ MaxFaults \in Nat
  BY BoundsAreNat DEF Handle, IInv, TypeOK
<1>2. m \in Events
  BY <1>1, EventTyped
<1>3. CASE Done(r) /\ tooOld' = tooOld \cup {m} /\ UNCHANGED <<faults, unread>>
  <2>1. Finishes(r)
    BY <1>1, <1>3, DoneShape DEF Finishes, OthersStay
  <2>2. QED BY <1>1, <1>2, <1>3, <2>1 DEF Excused
<1>4. CASE /\ faults < MaxFaults /\ Done(r) /\ faults' = faults + 1
           /\ unread' = unread \cup {m} /\ UNCHANGED tooOld
  <2>1. Finishes(r)
    BY <1>1, <1>4, DoneShape DEF Finishes, OthersStay
  <2>2. faults' \in 0..MaxFaults
    BY <1>1, <1>4
  <2>3. QED BY <1>1, <1>2, <1>4, <2>1, <2>2 DEF Excused
<1>5. ASSUME UNCHANGED <<faults, unread, tooOld>>, NEW plan \in Plans(m),
             IF plan = <<>> THEN Done(r)
             ELSE task' = [task EXCEPT ![r] = [task[r] EXCEPT !.at = "lock", !.parts = plan]]
      PROVE  \/ Finishes(r) /\ Shape[m] \notin {"text", "media"}
             \/ \E ps \in PartLists :
                   /\ Continues(r, ps) /\ task'[r].at = "lock"
                   /\ Shape[m] \in {"text", "media"} =>
                         ps \in {<<"text">>, <<"file", "text">>, <<"url", "text">>}
  <2>1. CASE plan = <<>>
    <3>1. Shape[m] \notin {"text", "media"}
      BY <1>2, <1>5, <2>1, NoPlan
    <3>2. Finishes(r)
      BY <1>1, <1>5, <2>1, DoneShape DEF Finishes, OthersStay
    <3>3. QED BY <3>1, <3>2
  <2>2. CASE plan # <<>>
    <3>1. /\ plan \in PartLists
          /\ Shape[m] \in {"text", "media"} => plan \in {<<"text">>, <<"file", "text">>, <<"url", "text">>}
      BY <1>2, <1>5, <2>2, PlansListed
    <3>2. plan \in Seq(Parts) /\ task \in [Tasks -> Rec] /\ task[r] \in Rec
      BY <1>1, <3>1, PartListFacts DEF TypeOK, Rec
    <3>3. PICK g : g = [task[r] EXCEPT !.at = "lock", !.parts = plan]
      OBVIOUS
    <3>4. g \in Rec /\ g.at = "lock" /\ g.txn = task[r].txn /\ g.pos = task[r].pos /\ g.parts = plan
      BY <3>2, <3>3 DEF Rec
    <3>5. task' = [task EXCEPT ![r] = g]
      BY <1>5, <2>2, <3>3
    <3>6. Continues(r, plan) /\ task'[r].at = "lock"
      BY <3>2, <3>4, <3>5 DEF Continues, OthersStay
    <3>7. QED BY <3>1, <3>6
  <2>3. QED BY <2>1, <2>2
<1>6. \/ Done(r) /\ tooOld' = tooOld \cup {m} /\ UNCHANGED <<faults, unread>>
      \/ /\ faults < MaxFaults /\ Done(r) /\ faults' = faults + 1
         /\ unread' = unread \cup {m} /\ UNCHANGED tooOld
      \/ /\ UNCHANGED <<faults, unread, tooOld>>
         /\ \E plan \in Plans(m) :
               IF plan = <<>> THEN Done(r)
               ELSE task' = [task EXCEPT ![r] = [task[r] EXCEPT !.at = "lock", !.parts = plan]]
  BY DEF Handle
<1>7. CASE /\ UNCHANGED <<faults, unread, tooOld>>
           /\ \E plan \in Plans(m) :
                 IF plan = <<>> THEN Done(r)
                 ELSE task' = [task EXCEPT ![r] = [task[r] EXCEPT !.at = "lock", !.parts = plan]]
  <2>1. \/ Finishes(r) /\ Shape[m] \notin {"text", "media"}
        \/ \E ps \in PartLists :
              /\ Continues(r, ps) /\ task'[r].at = "lock"
              /\ Shape[m] \in {"text", "media"} =>
                    ps \in {<<"text">>, <<"file", "text">>, <<"url", "text">>}
    BY <1>5, <1>7
  <2>2. QED BY <1>1, <1>2, <1>7, <2>1
<1>8. QED BY <1>3, <1>4, <1>6, <1>7

LEMMA LockShape ==
  ASSUME IInv, NEW r \in Tasks, TakeLock(r)
  PROVE  Continues(r, task[r].parts) /\ task[r].at = "lock" /\ task'[r].at = "send"
<1>1. task \in [Tasks -> Rec] /\ task[r].at = "lock"
  BY DEF TakeLock, IInv, TypeOK, Rec
<1>2. PICK b \in BOOLEAN : task' = [task EXCEPT ![r] = [task[r] EXCEPT !.at = "send", !.plain = b]]
  <2>1. (Head(task[r].parts) = "notice") \in BOOLEAN
    OBVIOUS
  <2>2. task' = [task EXCEPT ![r] = [task[r] EXCEPT !.at = "send", !.plain = Head(task[r].parts) = "notice"]]
    BY <1>1 DEF TakeLock
  <2>3. QED BY <2>1, <2>2, Zenon
<1>3. PICK g : g = [task[r] EXCEPT !.at = "send", !.plain = b]
  OBVIOUS
<1>4. g \in Rec /\ g.at = "send" /\ g.txn = task[r].txn /\ g.pos = task[r].pos /\ g.parts = task[r].parts
  BY <1>1, <1>3 DEF Rec
<1>5. task' = [task EXCEPT ![r] = g]
  BY <1>2, <1>3
<1>6. QED BY <1>1, <1>4, <1>5 DEF Continues, OthersStay
-----------------------------------------------------------------------------
(* Types, and the lists of parts. *)

TaskTypes == /\ task \in [Tasks -> Rec]
             /\ \A r \in Tasks :
                   /\ task[r].at # "idle" => task[r].txn \in 1..NumTxns
                   /\ Busy(r) => task[r].pos \in DOMAIN Txn[task[r].txn] /\ task[r].parts # <<>>
                   /\ task[r].at = "send" <=> sendLock = r
             /\ sendLock \in Tasks \cup {None}

RestTypes == /\ next \in 1..NumTxns + 1
             /\ waiting \in Tasks \cup {None}
             /\ waiting # None => task[waiting].at # "idle" /\ task[waiting].txn = next
             /\ channel \in Seq([ev : Events, part : Parts])
             /\ faults \in 0..MaxFaults
             /\ failed \in SUBSET Events /\ unread \in SUBSET Events /\ tooOld \in SUBSET Events
             /\ unsure \in SUBSET Events /\ retried \in BOOLEAN

LEMMA TypeParts == /\ TypeOK <=> TaskTypes /\ RestTypes
                   /\ TypeOK' <=> TaskTypes' /\ RestTypes'
BY DEF TypeOK, TaskTypes, RestTypes, Busy, Rec

\* A task that goes on with an event or is done with it.
LEMMA MoveTypes ==
  ASSUME IInv, NEW r \in Tasks, task[r].at # "idle",
         sendLock' \in {None, sendLock, r}, sendLock \in {None, r} \/ sendLock' = sendLock,
         \/ Finishes(r) /\ sendLock' # r
         \/ \E parts \in PartLists :
               /\ Continues(r, parts) /\ task[r].pos \in DOMAIN Txn[task[r].txn]
               /\ task'[r].at = "send" <=> sendLock' = r
  PROVE  TaskTypes'
<1>1. TaskTypes
  BY TypeParts DEF IInv
<1>2. OthersStay(r) /\ task'[r].at \in {"event", "lock", "send"}
  BY DEF Finishes, Continues
<1>3. task' \in [Tasks -> Rec] /\ sendLock' \in Tasks \cup {None}
  BY <1>1, <1>2 DEF OthersStay, TaskTypes
<1>4. ASSUME NEW q \in Tasks, q # r
      PROVE  /\ task'[q].at # "idle" => task'[q].txn \in 1..NumTxns
             /\ task'[q].at \in {"lock", "send"} => task'[q].pos \in DOMAIN Txn[task'[q].txn] /\ task'[q].parts # <<>>
             /\ task'[q].at = "send" <=> sendLock' = q
  <2>1. task'[q] = task[q]
    BY <1>2, <1>4 DEF OthersStay
  <2>2. sendLock' = q <=> sendLock = q
    BY <1>4 DEF None, Tasks
  <2>3. QED BY <1>1, <2>1, <2>2 DEF TaskTypes, Busy
<1>5. /\ task'[r].txn \in 1..NumTxns
      /\ task'[r].at \in {"lock", "send"} => task'[r].pos \in DOMAIN Txn[task'[r].txn] /\ task'[r].parts # <<>>
      /\ task'[r].at = "send" <=> sendLock' = r
  <2>1. task'[r].txn = task[r].txn /\ task[r].txn \in 1..NumTxns
    BY <1>1, <1>2 DEF OthersStay, TaskTypes
  <2>2. CASE Finishes(r) /\ sendLock' # r
    BY <2>1, <2>2 DEF Finishes
  <2>3. CASE \E parts \in PartLists :
               /\ Continues(r, parts) /\ task[r].pos \in DOMAIN Txn[task[r].txn]
               /\ task'[r].at = "send" <=> sendLock' = r
    BY <2>1, <2>3, PartListFacts DEF Continues
  <2>4. QED BY <2>2, <2>3
<1>6. QED BY <1>3, <1>4, <1>5 DEF TaskTypes, Busy

LEMMA SendTypes ==
  ASSUME IInv, NEW r \in Tasks, Sent(r) \/ Refused(r) \/ AnswerLost(r)
  PROVE  TypeOK'
<1>1. /\ task[r].at = "send" /\ sendLock = r /\ EventOf(task[r]) \in Events
      /\ task[r].pos \in DOMAIN Txn[task[r].txn] /\ TypeOK /\ PartsOK
      /\ task[r].parts \in PartLists
  <2>1. task[r].at = "send" /\ TypeOK /\ PartsOK
    BY DEF Sent, Refused, AnswerLost, IInv
  <2>2. sendLock = r /\ task[r].pos \in DOMAIN Txn[task[r].txn]
    BY <2>1 DEF TypeOK
  <2>3. QED BY <2>1, <2>2, EventTyped DEF PartsOK, Busy
<1>2. \/ Finishes(r) /\ sendLock' = None
      \/ \E parts \in PartLists : /\ Continues(r, parts)
                                  /\ \/ task'[r].at = "lock" /\ sendLock' = None
                                     \/ task'[r].at = "send" /\ sendLock' = r
  <2>1. CASE Sent(r)
    <3>1. sendLock' = None /\ <<"text">> \in PartLists
      BY <2>1 DEF Sent, PartLists
    <3>2. QED BY <1>1, <2>1, <3>1, SentShape
  <2>2. CASE Refused(r) \/ AnswerLost(r)
    <3>1. AfterError(r) /\ <<"url", "text">> \in PartLists
      BY <2>2 DEF Refused, AnswerLost, PartLists
    <3>2. QED BY <1>1, <3>1, ErrorShape
  <2>3. QED BY <2>1, <2>2
<1>3. TaskTypes'
  <2>1. None # r
    BY DEF None, Tasks
  <2>2. QED BY <1>1, <1>2, <2>1, MoveTypes
<1>4. channel' \in Seq([ev : Events, part : Parts])
  <2>1. Entry(r) \in [ev : Events, part : Parts] /\ channel \in Seq([ev : Events, part : Parts])
    BY <1>1, PartListFacts DEF Entry, TypeOK
  <2>2. channel' = channel \/ channel' = Append(channel, Entry(r))
    BY DEF Sent, Refused, AnswerLost, Posted, Entry
  <2> DEFINE S == [ev : Events, part : Parts]
  <2>3. PICK e \in S : e = Entry(r)
    BY <2>1
  <2>4. channel \in Seq(S)
    BY <2>1
  <2> HIDE DEF S
  <2>5. Append(channel, e) \in Seq(S)
    BY <2>4
  <2>6. channel' \in Seq(S)
    BY <2>2, <2>3, <2>4, <2>5
  <2>7. QED BY <2>6 DEF S
<1>5. failed' \in SUBSET Events
  <2>1. CASE Sent(r)
    BY <1>1, <2>1 DEF Sent, TypeOK
  <2>2. CASE Refused(r) \/ AnswerLost(r)
    <3>1. AfterError(r)
      BY <2>2 DEF Refused, AnswerLost
    <3>2. failed' \in {failed, failed \cup {EventOf(task[r])}}
      BY <1>1, <3>1, ErrorShape
    <3>3. QED BY <1>1, <3>2 DEF TypeOK
  <2>3. QED BY <2>1, <2>2
<1>6. faults' \in 0..MaxFaults /\ unsure' \in SUBSET Events /\ retried' \in BOOLEAN
  BY <1>1, BoundsAreNat DEF Sent, Refused, AnswerLost, TypeOK
<1>7. unread' \in SUBSET Events /\ tooOld' \in SUBSET Events
  BY <1>1 DEF Sent, Refused, AnswerLost, TypeOK
<1>8. next' = next /\ waiting' = waiting
  BY DEF Sent, Refused, AnswerLost
<1>9. waiting # None => task'[waiting].at # "idle" /\ task'[waiting].txn = next
  BY <1>1, <1>2 DEF TypeOK, Finishes, Continues, OthersStay
<1>10. QED BY <1>1, <1>3, <1>4, <1>5, <1>6, <1>8, <1>9, <1>7, TypeParts DEF RestTypes

LEMMA TypeStep ==
  ASSUME IInv, Next
  PROVE  TypeOK'
<1>1. TypeOK /\ TaskTypes /\ RestTypes
  BY TypeParts DEF IInv
<1>2. None \notin Tasks
  BY DEF None, Tasks
<1>3. CASE Crash
  <2>1. Idle \in Rec /\ Idle.at = "idle"
    BY DEF Idle, Rec
  <2>2. task' = [r \in Tasks |-> Idle] /\ sendLock' = None
    BY <1>3 DEF Crash
  <2>3. TaskTypes'
    BY <1>2, <2>1, <2>2 DEF TaskTypes, Busy
  <2>4. retried' \in BOOLEAN
    BY <1>3 DEF Crash
  <2>5. /\ faults' \in 0..MaxFaults
        /\ waiting' = None /\ UNCHANGED <<next, channel, failed, unread, tooOld, unsure>>
    BY <1>1, <1>3, BoundsAreNat DEF Crash, RestTypes
  <2>6. QED BY <1>1, <2>3, <2>4, <2>5, TypeParts DEF RestTypes
<1>4. ASSUME NEW r \in Tasks, Deliver(r) PROVE TypeOK'
  <2>1. /\ next \in 1..NumTxns /\ task[r].at = "idle"
        /\ task' \in [Tasks -> Rec]
        /\ task'[r].at = "event" /\ task'[r].txn = next /\ task'[r].pos = 1
        /\ \A q \in Tasks : q # r => task'[q] = task[q]
    BY <1>4, DeliverShape
  <2>2. waiting' = r /\ UNCHANGED <<next, sendLock, channel, faults, failed, unread, tooOld, unsure, retried>>
    BY <1>4 DEF Deliver
  <2>3. TaskTypes'
    BY <1>1, <2>1, <2>2 DEF TaskTypes, Busy
  <2>4. QED BY <1>1, <2>1, <2>2, <2>3, TypeParts DEF RestTypes
<1>5. ASSUME NEW r \in Tasks, Retry(r) PROVE TypeOK'
  <2>1. /\ waiting \in Tasks /\ waiting # r /\ next \in 1..NumTxns
        /\ task' \in [Tasks -> Rec]
        /\ task'[r].at = "event" /\ task'[r].txn = next /\ task'[r].pos = 1
        /\ \A q \in Tasks : q \notin {r, waiting} => task'[q] = task[q]
        /\ \/ /\ sendLock' = sendLock
              /\ task'[waiting] = task[waiting]
           \/ /\ sendLock' = (IF sendLock = waiting THEN None ELSE sendLock)
              /\ task'[waiting].at = "idle"
    BY <1>5, RetryShape
  <2>2. task[r].at = "idle" /\ waiting' = r /\ UNCHANGED <<next, channel, failed, unread, tooOld, unsure>>
    BY <1>5 DEF Retry
  <2>3. faults' \in 0..MaxFaults /\ retried' \in BOOLEAN
    BY <1>1, <1>5, BoundsAreNat DEF Retry, RestTypes
  <2>4. sendLock' \in Tasks \cup {None}
    BY <1>1, <2>1 DEF TaskTypes
  <2>5. \A q \in Tasks : task'[q].at = "send" <=> sendLock' = q
    BY <1>1, <1>2, <2>1, <2>2 DEF TaskTypes
  <2>6. \A q \in Tasks : q # r /\ task'[q].at # "idle" => task'[q] = task[q]
    BY <2>1
  <2>7. TaskTypes'
    BY <1>1, <2>1, <2>4, <2>5, <2>6 DEF TaskTypes, Busy
  <2>8. QED BY <1>1, <2>1, <2>2, <2>3, <2>7, TypeParts DEF RestTypes
<1>6. ASSUME NEW r \in Tasks, Answer(r) PROVE TypeOK'
  <2>1. Idle \in Rec /\ Idle.at = "idle"
    BY DEF Idle, Rec
  <2>2. /\ task[r].at = "event" /\ task' = [task EXCEPT ![r] = Idle]
        /\ UNCHANGED <<sendLock, channel, faults, failed, unread, tooOld, unsure, retried>>
        /\ IF waiting = r THEN waiting' = None /\ next' = next + 1 ELSE UNCHANGED <<waiting, next>>
    BY <1>6 DEF Answer
  <2>3. /\ task' \in [Tasks -> Rec] /\ task'[r].at = "idle"
        /\ \A q \in Tasks : q # r => task'[q] = task[q]
    BY <1>1, <2>1, <2>2 DEF TaskTypes
  <2>4. TaskTypes'
    BY <1>1, <2>2, <2>3 DEF TaskTypes, Busy
  <2>5. waiting = r => next \in 1..NumTxns
    BY <1>1, <1>2, <2>2 DEF TaskTypes, RestTypes
  <2>6. next' \in 1..NumTxns + 1
    BY <1>1, <2>2, <2>5, TxnsHaveEvents DEF RestTypes, NumTxns
  <2>7. QED BY <1>1, <2>2, <2>3, <2>4, <2>6, TypeParts DEF RestTypes
<1>7. ASSUME NEW r \in Tasks, Handle(r) \/ TakeLock(r) PROVE TypeOK'
  <2>1. task[r].at \in {"event", "lock"} /\ sendLock # r
    BY <1>1, <1>7 DEF Handle, TakeLock, TaskTypes
  <2>2. /\ sendLock' \in {None, sendLock, r}
        /\ sendLock \in {None, r} \/ sendLock' = sendLock
        /\ UNCHANGED <<next, waiting, channel, failed, unsure, retried>>
    BY <1>7 DEF Handle, TakeLock
  <2>3. faults' \in 0..MaxFaults /\ unread' \in SUBSET Events /\ tooOld' \in SUBSET Events
    <3>1. CASE Handle(r)
      BY <1>1, <3>1, HandleShape DEF RestTypes
    <3>2. CASE TakeLock(r)
      BY <1>1, <3>2 DEF RestTypes, TakeLock
    <3>3. QED BY <1>7, <3>1, <3>2
  <2>4. \/ Finishes(r) /\ sendLock' # r
        \/ \E parts \in PartLists :
               /\ Continues(r, parts) /\ task[r].pos \in DOMAIN Txn[task[r].txn]
               /\ task'[r].at = "send" <=> sendLock' = r
    <3>1. CASE Handle(r)
      <4>1. sendLock' = sendLock
        BY <3>1 DEF Handle
      <4>2. QED BY <2>1, <3>1, <4>1, HandleShape
    <3>2. CASE TakeLock(r)
      <4>1. sendLock' = r /\ task[r].at = "lock"
        BY <3>2 DEF TakeLock
      <4>2. task[r].parts \in PartLists /\ task[r].pos \in DOMAIN Txn[task[r].txn]
        BY <1>1, <4>1 DEF IInv, PartsOK, Busy, TaskTypes
      <4>3. QED BY <3>2, <4>1, <4>2, LockShape
    <3>3. QED BY <1>7, <3>1, <3>2
  <2>5. TaskTypes'
    BY <2>1, <2>2, <2>4, MoveTypes
  <2>6. waiting # None => task'[waiting].at # "idle" /\ task'[waiting].txn = next
    BY <1>1, <2>4 DEF RestTypes, Finishes, Continues, OthersStay
  <2>7. QED BY <1>1, <2>2, <2>5, <2>6, <2>3, TypeParts DEF RestTypes
<1>8. ASSUME NEW r \in Tasks, Sent(r) \/ Refused(r) \/ AnswerLost(r) PROVE TypeOK'
  BY <1>8, SendTypes
<1>9. QED BY <1>3, <1>4, <1>5, <1>6, <1>7, <1>8 DEF Next, Step
-----------------------------------------------------------------------------
(* How the channel grows. *)

Grows(e) == /\ DOMAIN channel = 1..Len(channel) /\ Len(channel) \in Nat
            /\ DOMAIN channel' = 1..Len(channel) + 1
            /\ \A k \in 1..Len(channel) : channel'[k] = channel[k]
            /\ channel'[Len(channel) + 1] = e

LEMMA SendShape ==
  ASSUME IInv, NEW r \in Tasks, Sent(r) \/ Refused(r) \/ AnswerLost(r)
  PROVE  LET h == task[r] IN
         /\ h.at = "send" /\ h.parts \in PartLists /\ EventOf(h) \in Events
         /\ h.txn \in DOMAIN Txn /\ h.pos \in DOMAIN Txn[h.txn]
         /\ UNCHANGED <<next, waiting, unread, tooOld, retried>>
         /\ failed \subseteq failed' /\ unsure \subseteq unsure'
         /\ channel' = channel \/ Grows(Entry(r))
         /\ \/ channel' = channel \/ EventOf(h) \in unsure' \/ Finishes(r)
            \/ Len(h.parts) = 2 /\ Continues(r, <<"text">>)
         /\ \/ Finishes(r) /\ ((Len(h.parts) = 1 /\ Grows(Entry(r))) \/ EventOf(h) \in failed')
            \/ \E parts \in PartLists :
                  /\ Continues(r, parts)
                  /\ \/ parts = h.parts
                     \/ Len(h.parts) = 2 /\ parts = <<"text">>
                     \/ Len(h.parts) = 2 /\ Head(h.parts) = "file" /\ parts = <<"url", "text">>
<1>1. TypeOK /\ PartsOK /\ task[r].at = "send"
  BY DEF IInv, Sent, Refused, AnswerLost
<1>2. /\ task[r].parts \in PartLists /\ EventOf(task[r]) \in Events
      /\ task[r].txn \in DOMAIN Txn /\ task[r].pos \in DOMAIN Txn[task[r].txn]
  BY <1>1, EventTyped DEF TypeOK, PartsOK, Busy
<1>3. Posted(r) => Grows(Entry(r))
  <2>1. channel \in Seq([ev : Events, part : Parts])
    BY <1>1 DEF TypeOK
  <2>2. PICK e : e = Entry(r)
    OBVIOUS
  <2>3. Posted(r) => channel' = Append(channel, e)
    BY <2>2 DEF Posted, Entry
  <2>4. channel' = Append(channel, e) => Grows(e)
    BY <2>1 DEF Grows
  <2>5. QED BY <2>2, <2>3, <2>4
<1>4. CASE Sent(r)
  <2>1. /\ Grows(Entry(r)) /\ UNCHANGED <<next, waiting, unread, tooOld, retried, failed, unsure>>
    BY <1>3, <1>4 DEF Sent
  <2>2. <<"text">> \in PartLists
    BY DEF PartLists
  <2>3. QED BY <1>1, <1>2, <1>4, <2>1, <2>2, SentShape
<1>5. CASE Refused(r) \/ AnswerLost(r)
  <2>1. AfterError(r) /\ UNCHANGED <<next, waiting, unread, tooOld, retried>> /\ unsure \subseteq unsure'
    BY <1>5 DEF Refused, AnswerLost
  <2>2. /\ channel' = channel \/ Grows(Entry(r))
        /\ channel' = channel \/ EventOf(task[r]) \in unsure'
    BY <1>3, <1>5 DEF Refused, AnswerLost
  <2>3. <<"url", "text">> \in PartLists /\ (Head(task[r].parts) = "file" => Len(task[r].parts) = 2)
    BY <1>2, PartListFacts DEF PartLists
  <2>4. QED BY <1>1, <1>2, <2>1, <2>2, <2>3, ErrorShape
<1>6. QED BY <1>4, <1>5

\* Once started, nothing takes what was sent or given up back.
LEMMA SettledKeeps ==
  ASSUME NEW m, Settled(channel, Excused, m), Excused \subseteq Excused', channel' = channel \/ \E e : Grows(e)
  PROVE  Settled(channel', Excused', m)
<1>1. InChannel(channel, m, "text") => InChannel(channel', m, "text")
  <2>1. CASE channel' = channel
    BY <2>1 DEF InChannel
  <2>2. ASSUME NEW e, Grows(e) PROVE InChannel(channel, m, "text") => InChannel(channel', m, "text")
    BY <2>2 DEF InChannel, Grows
  <2>3. QED BY <2>1, <2>2
<1>2. QED BY <1>1 DEF Settled

LEMMA PartsStep ==
  ASSUME IInv, Next
  PROVE  PartsOK'
<1>1. TypeOK /\ PartsOK /\ task \in [Tasks -> Rec]
  BY DEF IInv, TypeOK, Rec
<1>2. ASSUME NEW r \in Tasks, \A q \in Tasks : q # r => task'[q] = task[q] \/ task'[q].at = "idle",
             Busy(r)' => /\ task'[r].parts \in PartLists
                         /\ Shape[EventOf(task'[r])] \in {"text", "media"} =>
                               task'[r].parts \in {<<"text">>, <<"file", "text">>, <<"url", "text">>}
      PROVE  PartsOK'
  BY <1>1, <1>2 DEF PartsOK, Busy
<1>3. CASE Crash
  BY <1>3 DEF Crash, PartsOK, Busy, Idle
<1>4. ASSUME NEW r \in Tasks, Deliver(r) \/ Retry(r) \/ Answer(r) PROVE PartsOK'
  <2>1. \A q \in Tasks : q # r => task'[q] = task[q] \/ task'[q].at = "idle"
    <3>1. CASE Answer(r)
      BY <1>1, <3>1 DEF Answer
    <3>2. QED BY <1>4, <3>1, DeliverShape, RetryShape
  <2>2. task'[r].at \in {"idle", "event"}
    <3>1. CASE Answer(r)
      BY <1>1, <3>1 DEF Answer, Idle
    <3>2. QED BY <1>4, <3>1, DeliverShape, RetryShape
  <2>3. QED BY <1>2, <2>1, <2>2 DEF Busy
<1>5. ASSUME NEW r \in Tasks, Handle(r) PROVE PartsOK'
  <2>1. /\ OthersStay(r)
        /\ \/ Finishes(r)
           \/ \E plan \in PartLists :
                 /\ Continues(r, plan)
                 /\ Shape[EventOf(task[r])] \in {"text", "media"} =>
                       plan \in {<<"text">>, <<"file", "text">>, <<"url", "text">>}
    BY <1>5, HandleShape DEF Finishes, Continues
  <2>2. QED BY <1>2, <2>1 DEF Finishes, Continues, OthersStay, Busy, EventOf
<1>6. ASSUME NEW r \in Tasks, TakeLock(r) PROVE PartsOK'
  <2>1. Continues(r, task[r].parts) /\ Busy(r)
    BY <1>6, LockShape DEF Busy
  <2>2. QED BY <1>1, <1>2, <2>1 DEF Continues, OthersStay, PartsOK, EventOf
<1>7. ASSUME NEW r \in Tasks, Sent(r) \/ Refused(r) \/ AnswerLost(r) PROVE PartsOK'
  <2>1. Busy(r) /\ task[r].parts \in PartLists
    BY <1>7, SendShape DEF Busy
  <2>2. \/ Finishes(r)
        \/ \E parts \in PartLists :
              /\ Continues(r, parts)
              /\ parts = task[r].parts \/ parts = <<"text">> \/ parts = <<"url", "text">>
    BY <1>7, SendShape
  <2>3. QED BY <1>1, <1>2, <2>1, <2>2 DEF Finishes, Continues, OthersStay, PartsOK, Busy, EventOf
<1>8. QED BY <1>3, <1>4, <1>5, <1>6, <1>7 DEF Next, Step
-----------------------------------------------------------------------------
(* What lies behind a task is settled. *)

LEMMA SettledStep ==
  ASSUME IInv, Next
  PROVE  SettledOK'
<1>1. TypeOK /\ SettledOK /\ task \in [Tasks -> Rec] /\ next \in Nat
  BY TxnsHaveEvents DEF IInv, TypeOK, Rec, NumTxns
<1>2. ASSUME next' = next, \A m : Settled(channel, Excused, m) => Settled(channel', Excused', m),
             \A q \in Tasks : \/ task'[q] = task[q] \/ task'[q].at = "idle"
                              \/ task'[q].pos = 1
                              \/ /\ task[q].at # "idle" /\ task'[q].txn = task[q].txn
                                 /\ \/ task'[q].pos = task[q].pos
                                    \/ /\ task'[q].pos = task[q].pos + 1
                                       /\ Settled(channel', Excused', EventOf(task[q])),
             \A q \in Tasks : task'[q].at # "idle" => DOMAIN Txn[task'[q].txn] \subseteq Nat \ {0}
      PROVE  SettledOK'
  <2>1. \A t \in 1..next' - 1 : \A i \in DOMAIN Txn[t] : Settled(channel', Excused', Txn[t][i])
    BY <1>1, <1>2 DEF SettledOK
  <2>2. ASSUME NEW q \in Tasks, task'[q].at # "idle", NEW i \in DOMAIN Txn[task'[q].txn], i < task'[q].pos
        PROVE  Settled(channel', Excused', Txn[task'[q].txn][i])
    <3>1. i \in Nat \ {0}
      BY <1>2, <2>2
    <3>2. CASE task'[q] = task[q]
      BY <1>1, <1>2, <2>2, <3>2 DEF SettledOK
    <3>3. CASE task'[q].pos = 1
      BY <2>2, <3>1, <3>3
    <3>4. CASE /\ task[q].at # "idle" /\ task'[q].txn = task[q].txn
               /\ \/ task'[q].pos = task[q].pos
                  \/ task'[q].pos = task[q].pos + 1 /\ Settled(channel', Excused', EventOf(task[q]))
      <4>1. task[q].pos \in Nat
        BY <1>1 DEF Rec
      <4>2. CASE i < task[q].pos
        BY <1>1, <1>2, <2>2, <3>4, <4>2 DEF SettledOK
      <4>3. CASE i = task[q].pos
        <5>1. task'[q].pos # task[q].pos
          BY <2>2, <4>1, <4>3
        <5>2. QED BY <3>4, <4>3, <5>1 DEF EventOf
      <4>4. QED BY <2>2, <3>1, <3>4, <4>1, <4>2, <4>3
    <3>5. QED BY <1>2, <2>2, <3>2, <3>3, <3>4
  <2>3. QED BY <2>1, <2>2 DEF SettledOK
<1>3. ASSUME TaskTypes' PROVE \A q \in Tasks : task'[q].at # "idle" => DOMAIN Txn[task'[q].txn] \subseteq Nat \ {0}
  <2> SUFFICES ASSUME NEW q \in Tasks, task'[q].at # "idle"
               PROVE  DOMAIN Txn[task'[q].txn] \subseteq Nat \ {0}
    OBVIOUS
  <2>1. task'[q].txn \in 1..NumTxns
    BY <1>3 DEF TaskTypes
  <2>2. Txn[task'[q].txn] \in Seq(Events)
    BY <2>1, TxnsHaveEvents DEF NumTxns
  <2>3. QED BY <2>2
<1>4. \A q \in Tasks : task'[q].at # "idle" => DOMAIN Txn[task'[q].txn] \subseteq Nat \ {0}
  BY <1>3, TypeStep, TypeParts
<1>5. UNCHANGED <<failed, unread, tooOld, channel>> => \A m : Settled(channel, Excused, m) => Settled(channel', Excused', m)
  BY SettledKeeps DEF Excused
<1>6. CASE Crash
  <2>1. UNCHANGED <<next, channel, failed, unread, tooOld>> /\ \A q \in Tasks : task'[q].at = "idle"
    BY <1>6 DEF Crash, Idle
  <2>2. QED BY <1>2, <1>4, <1>5, <2>1
<1>7. ASSUME NEW r \in Tasks, Deliver(r) \/ Retry(r) PROVE SettledOK'
  <2>1. UNCHANGED <<next, channel, failed, unread, tooOld>>
    BY <1>7 DEF Deliver, Retry
  <2>2. \A q \in Tasks : task'[q] = task[q] \/ task'[q].at = "idle" \/ task'[q].pos = 1
    BY <1>7, DeliverShape, RetryShape
  <2>3. QED BY <1>2, <1>4, <1>5, <2>1, <2>2
<1>8. ASSUME NEW r \in Tasks, Answer(r) PROVE SettledOK'
  <2>1. /\ task[r].at = "event" /\ task[r].pos > Len(Txn[task[r].txn])
        /\ task'[r].at = "idle" /\ \A q \in Tasks : q # r => task'[q] = task[q]
        /\ UNCHANGED <<channel, failed, unread, tooOld>>
        /\ IF waiting = r THEN waiting' = None /\ next' = next + 1 ELSE UNCHANGED <<waiting, next>>
    BY <1>1, <1>8 DEF Answer, Idle
  <2>2. \A m : Settled(channel, Excused, m) => Settled(channel', Excused', m)
    BY <1>5, <2>1
  <2>3. CASE waiting # r
    BY <1>2, <1>4, <2>1, <2>2, <2>3
  <2>4. CASE waiting = r
    <3>1. task[r].txn = next /\ next' = next + 1
      BY <1>1, <2>1, <2>4 DEF TypeOK, None, Tasks
    <3>2. next \in 1..NumTxns /\ Txn[next] \in Seq(Events)
      BY <1>1, <2>1, <3>1, TxnsHaveEvents DEF TypeOK, NumTxns
    <3>3. \A i \in DOMAIN Txn[next] : i < task[r].pos
      <4>1. task[r].pos \in Nat
        BY <1>1 DEF Rec
      <4>2. QED BY <2>1, <3>1, <3>2, <4>1
    <3>4. \A i \in DOMAIN Txn[next] : Settled(channel', Excused', Txn[next][i])
      BY <1>1, <2>1, <2>2, <3>1, <3>3 DEF SettledOK
    <3>5. \A t \in 1..next' - 1 : \A i \in DOMAIN Txn[t] : Settled(channel', Excused', Txn[t][i])
      <4> SUFFICES ASSUME NEW t \in 1..next' - 1 PROVE \A i \in DOMAIN Txn[t] : Settled(channel', Excused', Txn[t][i])
        OBVIOUS
      <4>1. t \in 1..next - 1 \/ t = next
        BY <1>1, <3>1
      <4>2. QED BY <1>1, <2>2, <3>4, <4>1 DEF SettledOK
    <3>6. \A q \in Tasks : task'[q].at # "idle" =>
             \A i \in DOMAIN Txn[task'[q].txn] : i < task'[q].pos => Settled(channel', Excused', Txn[task'[q].txn][i])
      BY <1>1, <2>1, <2>2 DEF SettledOK
    <3>7. QED BY <3>5, <3>6 DEF SettledOK
  <2>5. QED BY <2>3, <2>4
<1>9. ASSUME NEW r \in Tasks, TakeLock(r) PROVE SettledOK'
  <2>1. UNCHANGED <<next, channel, failed, unread, tooOld>> /\ task[r].at # "idle"
    BY <1>9 DEF TakeLock
  <2>2. OthersStay(r) /\ task'[r].pos = task[r].pos
    BY <1>9, LockShape DEF Continues
  <2>3. QED BY <1>2, <1>4, <1>5, <2>1, <2>2 DEF OthersStay
<1>11. ASSUME NEW r \in Tasks, Handle(r) PROVE SettledOK'
  <2>1. /\ UNCHANGED <<next, channel>> /\ task[r].at # "idle"
        /\ Excused \subseteq Excused'
    BY <1>11, HandleShape DEF Excused
  <2>2. /\ OthersStay(r)
        /\ \/ task'[r].pos = task[r].pos
           \/ /\ task'[r].pos = task[r].pos + 1
              /\ Shape[EventOf(task[r])] \notin {"text", "media"} \/ EventOf(task[r]) \in Excused'
    BY <1>11, HandleShape DEF Finishes, Continues
  <2>3. Shape[EventOf(task[r])] \notin {"text", "media"} \/ EventOf(task[r]) \in Excused'
           => Settled(channel', Excused', EventOf(task[r]))
    BY DEF Settled
  <2>4. \A m : Settled(channel, Excused, m) => Settled(channel', Excused', m)
    BY <2>1, SettledKeeps
  <2>5. QED BY <1>2, <1>4, <2>1, <2>2, <2>3, <2>4 DEF OthersStay
<1>10. ASSUME NEW r \in Tasks, Sent(r) \/ Refused(r) \/ AnswerLost(r) PROVE SettledOK'
  <2> DEFINE h == task[r]
             m == EventOf(h)
  <2>1. /\ h.at = "send" /\ h.parts \in PartLists /\ next' = next
        /\ Excused \subseteq Excused' /\ (channel' = channel \/ Grows(Entry(r)))
    BY <1>10, SendShape DEF Excused
  <2>2. \/ Finishes(r) /\ ((Len(h.parts) = 1 /\ Grows(Entry(r))) \/ m \in Excused')
        \/ \E parts \in PartLists : Continues(r, parts)
    BY <1>10, SendShape DEF Excused
  <2>3. Finishes(r) => Settled(channel', Excused', m)
    <3> SUFFICES ASSUME Finishes(r), Shape[m] \in {"text", "media"}, m \notin Excused'
                 PROVE  InChannel(channel', m, "text")
      BY DEF Settled
    <3>1. task'[r].at = "event"
      BY DEF Finishes
    <3>2. Len(h.parts) = 1 /\ Grows(Entry(r))
      BY <2>2, <3>1 DEF Continues
    <3>3. h.parts \in {<<"text">>, <<"file", "text">>, <<"url", "text">>}
      BY <2>1 DEF IInv, PartsOK, Busy
    <3>4. Head(h.parts) = "text"
      BY <3>2, <3>3
    <3>5. QED BY <3>2, <3>4 DEF Grows, Entry, InChannel
  <2>4. \A n : Settled(channel, Excused, n) => Settled(channel', Excused', n)
    BY <2>1, SettledKeeps
  <2>5. OthersStay(r) /\ (task'[r].pos = h.pos \/ (task'[r].pos = h.pos + 1 /\ Settled(channel', Excused', m)))
    <3>1. CASE Finishes(r)
      BY <2>3, <3>1 DEF Finishes
    <3>2. CASE \E parts \in PartLists : Continues(r, parts)
      BY <3>2 DEF Continues
    <3>3. QED BY <2>2, <3>1, <3>2
  <2>6. QED BY <1>2, <1>4, <2>1, <2>4, <2>5 DEF OthersStay
<1>12. QED BY <1>6, <1>7, <1>8, <1>9, <1>10, <1>11 DEF Next, Step
-----------------------------------------------------------------------------
(* Before the first retry. *)

\* One task is at work, on the transaction under way.
LEMMA OneAtWork ==
  ASSUME IInv, ~retried, NEW r \in Tasks, task[r].at # "idle"
  PROVE  /\ waiting = r /\ task[r].txn = next /\ next \in 1..NumTxns
         /\ \A q \in Tasks : q # r => task[q].at = "idle"
<1>1. waiting = r /\ \A q \in Tasks : task[q].at # "idle" => waiting = q
  BY DEF IInv, Alone
<1>2. task[r].txn = next /\ task[r].txn \in 1..NumTxns
  BY <1>1 DEF IInv, TypeOK, None, Tasks
<1>3. QED BY <1>1, <1>2

\* What has passed has a smaller number.
LEMMA PassedIsEarlier ==
  ASSUME IInv, ~retried, NEW r \in Tasks, task[r].at # "idle", task[r].pos \in DOMAIN Txn[task[r].txn],
         NEW m, Passed(m)
  PROVE  m < EventOf(task[r]) /\ m \in Nat /\ EventOf(task[r]) \in Nat
<1>1. /\ task[r].txn = next /\ next \in 1..NumTxns
      /\ \A q \in Tasks : q # r => task[q].at = "idle"
  BY OneAtWork
<1>2. next \in Nat /\ next \in DOMAIN Txn /\ \A t \in 1..next - 1 : t < next /\ t \in DOMAIN Txn
  BY <1>1, TxnsHaveEvents DEF NumTxns
<1>3. \A t \in DOMAIN Txn : \A i \in DOMAIN Txn[t] : Txn[t][i] \in Nat
  <2> SUFFICES ASSUME NEW t \in DOMAIN Txn, NEW i \in DOMAIN Txn[t] PROVE Txn[t][i] \in Nat
    OBVIOUS
  <2>1. PICK q \in Seq(Events) : q = Txn[t]
    BY TxnsHaveEvents
  <2>2. q[i] \in Events
    BY <2>1
  <2>3. QED BY <2>1, <2>2, EventsAreShaped
<1>4. EventOf(task[r]) = Txn[next][task[r].pos] /\ task[r].pos \in DOMAIN Txn[next]
  BY <1>1 DEF EventOf
<1>5. CASE \E t \in 1..next - 1 : \E i \in DOMAIN Txn[t] : m = Txn[t][i]
  BY <1>2, <1>3, <1>4, <1>5, EventsNumbered
<1>6. CASE \E q \in Tasks : /\ task[q].at # "idle"
                            /\ \E i \in DOMAIN Txn[task[q].txn] : i < task[q].pos /\ m = Txn[task[q].txn][i]
  <2>1. PICK i \in DOMAIN Txn[next] : i < task[r].pos /\ m = Txn[next][i]
    BY <1>1, <1>6
  <2>2. QED BY <1>2, <1>3, <1>4, <2>1, EventsNumbered
<1>7. QED BY <1>5, <1>6 DEF Passed

\* What is in the channel when a task is about to handle or to send an event.
LEMMA ChannelBehind ==
  ASSUME IInv, ~retried, NEW r \in Tasks, task[r].at # "idle", task[r].pos \in DOMAIN Txn[task[r].txn],
         NEW k \in DOMAIN channel
  PROVE  /\ channel[k].ev \in Nat /\ EventOf(task[r]) \in Nat
         /\ \/ channel[k].ev < EventOf(task[r]) /\ Passed(channel[k].ev)
            \/ /\ Busy(r) /\ channel[k].ev = EventOf(task[r])
               /\ channel[k].part = "text" => task[r].parts = <<"text">>
<1>1. \A q \in Tasks : q # r => task[q].at = "idle"
  BY OneAtWork
<1>2. EventOf(task[r]) \in Nat
  BY EventTyped, EventsAreShaped DEF IInv
<1>3. \/ Passed(channel[k].ev)
      \/ \E q \in Tasks : /\ Busy(q) /\ channel[k].ev = EventOf(task[q])
                          /\ channel[k].part = "text" => task[q].parts = <<"text">>
  BY DEF IInv, Behind
<1>4. CASE Passed(channel[k].ev)
  BY <1>2, <1>4, PassedIsEarlier
<1>5. CASE \E q \in Tasks : /\ Busy(q) /\ channel[k].ev = EventOf(task[q])
                            /\ channel[k].part = "text" => task[q].parts = <<"text">>
  BY <1>1, <1>2, <1>5 DEF Busy
<1>6. QED BY <1>3, <1>4, <1>5

LEMMA AloneStep ==
  ASSUME IInv, Next
  PROVE  Alone'
<1> SUFFICES ASSUME ~retried', NEW q \in Tasks, task'[q].at # "idle" PROVE waiting' = q
  BY DEF Alone
<1>1. TypeOK /\ Alone /\ task \in [Tasks -> Rec]
  BY DEF IInv, TypeOK, Rec
<1>2. CASE Crash
  BY <1>2 DEF Crash, Idle
<1>3. ASSUME NEW r \in Tasks, Deliver(r) PROVE waiting' = q
  <2>1. waiting = None /\ waiting' = r /\ retried' = retried
    BY <1>3 DEF Deliver
  <2>2. q # r => task'[q] = task[q]
    BY <1>3, DeliverShape
  <2>3. QED BY <1>1, <2>1, <2>2 DEF Alone, None, Tasks
<1>4. ASSUME NEW r \in Tasks, Retry(r) PROVE waiting' = q
  BY <1>4 DEF Retry
<1>5. ASSUME NEW r \in Tasks, Answer(r) PROVE waiting' = q
  <2>1. /\ task[r].at = "event" /\ retried' = retried
        /\ task'[r].at = "idle" /\ (q # r => task'[q] = task[q])
    BY <1>1, <1>5 DEF Answer, Idle
  <2>2. task[q].at # "idle" /\ q # r
    BY <2>1
  <2>3. waiting = r /\ waiting = q
    BY <1>1, <2>1, <2>2 DEF Alone
  <2>4. QED BY <2>2, <2>3
<1>6. ASSUME NEW r \in Tasks, Handle(r) \/ TakeLock(r) PROVE waiting' = q
  <2>1. task[r].at # "idle" /\ OthersStay(r)
    BY <1>6, HandleShape, LockShape DEF Finishes, Continues
  <2>2. retried' = retried /\ waiting' = waiting
    BY <1>6 DEF Handle, TakeLock
  <2>3. QED BY <1>1, <2>1, <2>2 DEF Alone, OthersStay
<1>7. ASSUME NEW r \in Tasks, Sent(r) \/ Refused(r) \/ AnswerLost(r) PROVE waiting' = q
  <2>1. task[r].at # "idle" /\ OthersStay(r) /\ retried' = retried /\ waiting' = waiting
    BY <1>7, SendShape DEF Finishes, Continues
  <2>2. QED BY <1>1, <2>1 DEF Alone, OthersStay
<1>8. QED BY <1>2, <1>3, <1>4, <1>5, <1>6, <1>7 DEF Next, Step

\* In none of these steps is an event being sent, unless there has been a retry.
LEMMA NothingInHand ==
  ASSUME IInv, ~retried', \/ Crash
                          \/ \E r \in Tasks : Deliver(r) \/ Retry(r) \/ Answer(r) \/ Handle(r)
  PROVE  ~retried /\ channel' = channel /\ unsure' = unsure /\ \A q \in Tasks : ~Busy(q)
<1>1. Alone /\ \A q \in Tasks : Busy(q) => task[q].at # "idle" /\ task[q].at # "event"
  BY DEF IInv, Busy
<1>2. CASE Crash
  <2>1. ~retried /\ waiting = None /\ channel' = channel /\ unsure' = unsure
    BY <1>2 DEF Crash
  <2>2. QED BY <1>1, <2>1 DEF Alone, None, Tasks
<1>3. ASSUME NEW r \in Tasks, Deliver(r) PROVE ~retried /\ channel' = channel /\ unsure' = unsure /\ \A q \in Tasks : ~Busy(q)
  <2>1. ~retried /\ waiting = None /\ channel' = channel /\ unsure' = unsure
    BY <1>3 DEF Deliver
  <2>2. QED BY <1>1, <2>1 DEF Alone, None, Tasks
<1>4. ASSUME NEW r \in Tasks, Retry(r) PROVE FALSE
  BY <1>4 DEF Retry
<1>5. ASSUME NEW r \in Tasks, Answer(r) \/ Handle(r) PROVE ~retried /\ channel' = channel /\ unsure' = unsure /\ \A q \in Tasks : ~Busy(q)
  <2>1. ~retried /\ task[r].at = "event" /\ channel' = channel /\ unsure' = unsure
    <3>1. CASE Answer(r)
      BY <3>1 DEF Answer
    <3>2. CASE Handle(r)
      BY <3>2 DEF Handle
    <3>3. QED BY <1>5, <3>1, <3>2
  <2>2. \A q \in Tasks : q # r => task[q].at = "idle"
    BY <2>1, OneAtWork
  <2>3. QED BY <2>1, <2>2 DEF Busy
<1>6. QED BY <1>2, <1>3, <1>4, <1>5

LEMMA PassedKeeps ==
  ASSUME IInv, Next, ~retried', NEW m, Passed(m)
  PROVE  Passed(m)'
<1>1. /\ TypeOK /\ Alone /\ task \in [Tasks -> Rec] /\ next \in Nat
      /\ \A t \in 1..NumTxns : DOMAIN Txn[t] \subseteq Nat
  BY TxnsHaveEvents DEF IInv, TypeOK, Rec, NumTxns
<1>2. \A q \in Tasks : task[q].at # "idle" => task[q].txn \in 1..NumTxns
  BY <1>1 DEF TypeOK
<1>3. ASSUME next' = next,
             \A q \in Tasks : task[q].at # "idle" =>
                /\ task'[q].at # "idle" /\ task'[q].txn = task[q].txn
                /\ task'[q].pos \in {task[q].pos, task[q].pos + 1}
      PROVE  Passed(m)'
  <2>1. ASSUME NEW q \in Tasks, task[q].at # "idle", NEW i \in DOMAIN Txn[task[q].txn],
               i < task[q].pos, m = Txn[task[q].txn][i]
        PROVE  Passed(m)'
    <3>1. i \in Nat /\ task[q].pos \in Nat
      BY <1>1, <1>2, <2>1 DEF Rec
    <3>2. i \in DOMAIN Txn[task'[q].txn] /\ i < task'[q].pos /\ task'[q].at # "idle" /\ m = Txn[task'[q].txn][i]
      BY <1>3, <2>1, <3>1
    <3>3. QED BY <3>2 DEF Passed
  <2>2. QED BY <1>3, <2>1 DEF Passed
<1>4. CASE Crash
  <2>1. next' = next /\ waiting = None /\ ~retried
    BY <1>4 DEF Crash
  <2>2. \A q \in Tasks : task[q].at = "idle"
    BY <1>1, <2>1 DEF Alone, None, Tasks
  <2>3. QED BY <1>3, <2>1, <2>2
<1>5. ASSUME NEW r \in Tasks, Deliver(r) PROVE Passed(m)'
  <2>1. next' = next /\ \A q \in Tasks : task[q].at = "idle"
    BY <1>1, <1>5 DEF Deliver, Alone, None, Tasks
  <2>2. QED BY <1>3, <2>1
<1>6. ASSUME NEW r \in Tasks, Retry(r) PROVE Passed(m)'
  BY <1>6 DEF Retry
<1>7. ASSUME NEW r \in Tasks, Answer(r) PROVE Passed(m)'
  <2>1. ~retried /\ task[r].at # "idle"
    BY <1>7 DEF Answer
  <2>2. /\ waiting = r /\ task[r].txn = next
        /\ \A q \in Tasks : q # r => task[q].at = "idle"
    BY <2>1, OneAtWork
  <2>3. next' = next + 1
    BY <1>7, <2>2 DEF Answer
  <2>4. \E t \in 1..next : \E i \in DOMAIN Txn[t] : m = Txn[t][i]
    <3>1. next \in 1..next /\ \A t \in 1..next - 1 : t \in 1..next
      BY <1>1, <1>2, <2>1, <2>2
    <3>2. QED BY <2>2, <3>1 DEF Passed
  <2>5. 1..next = 1..next' - 1
    BY <1>1, <2>3
  <2>6. QED BY <2>4, <2>5 DEF Passed
<1>8. ASSUME NEW r \in Tasks, Handle(r) \/ TakeLock(r) \/ Sent(r) \/ Refused(r) \/ AnswerLost(r) PROVE Passed(m)'
  <2>1. /\ OthersStay(r) /\ task'[r].at # "idle"
        /\ task'[r].pos \in {task[r].pos, task[r].pos + 1}
    BY <1>8, HandleShape, LockShape, SendShape DEF Finishes, Continues
  <2>2. next' = next
    BY <1>8 DEF Handle, TakeLock, Sent, Refused, AnswerLost
  <2>3. QED BY <1>3, <2>1, <2>2 DEF OthersStay
<1>9. QED BY <1>4, <1>5, <1>6, <1>7, <1>8 DEF Next, Step

\* The event a task is done with has passed.
LEMMA DonePasses ==
  ASSUME IInv, NEW r \in Tasks, task[r].pos \in DOMAIN Txn[task[r].txn], Finishes(r),
         NEW m, m = EventOf(task[r])
  PROVE  Passed(m)'
<1>1. task[r].pos \in Nat
  BY DEF IInv, TypeOK
<1>2. /\ task'[r].at # "idle" /\ task[r].pos \in DOMAIN Txn[task'[r].txn] /\ task[r].pos < task'[r].pos
      /\ m = Txn[task'[r].txn][task[r].pos]
  BY <1>1 DEF Finishes, OthersStay, EventOf
<1>3. QED BY <1>2 DEF Passed

LEMMA BehindStep ==
  ASSUME IInv, Next
  PROVE  Behind'
<1> SUFFICES ASSUME ~retried', NEW k \in DOMAIN channel', NEW m, NEW part,
                    m = channel'[k].ev, part = channel'[k].part
             PROVE  \/ Passed(m)'
                    \/ \E r \in Tasks : /\ Busy(r)' /\ m = EventOf(task'[r])
                                        /\ part = "text" => task'[r].parts = <<"text">>
  BY DEF Behind, Passed
<1>1. CASE Crash \/ \E r \in Tasks : Deliver(r) \/ Retry(r) \/ Answer(r) \/ Handle(r)
  <2>1. ~retried /\ channel' = channel /\ \A q \in Tasks : ~Busy(q)
    BY <1>1, NothingInHand
  <2>2. Passed(m)
    BY <2>1 DEF IInv, Behind
  <2>3. QED BY <2>2, PassedKeeps
<1>2. ASSUME NEW r \in Tasks, TakeLock(r)
      PROVE  \/ Passed(m)'
             \/ Busy(r)' /\ m = EventOf(task'[r]) /\ (part = "text" => task'[r].parts = <<"text">>)
  <2>1. channel' = channel /\ ~retried /\ task[r].at = "lock"
    BY <1>2 DEF TakeLock
  <2>2. task[r].pos \in DOMAIN Txn[task[r].txn]
    BY <2>1 DEF IInv, TypeOK
  <2>3. \/ Passed(m)
        \/ m = EventOf(task[r]) /\ (part = "text" => task[r].parts = <<"text">>)
    BY <2>1, <2>2, ChannelBehind
  <2>4. Continues(r, task[r].parts)
    BY <1>2, LockShape
  <2>5. QED BY <2>3, <2>4, PassedKeeps DEF Continues, OthersStay, Busy, EventOf
<1>3. ASSUME NEW r \in Tasks, Sent(r) \/ Refused(r) \/ AnswerLost(r)
      PROVE  \/ Passed(m)'
             \/ Busy(r)' /\ m = EventOf(task'[r]) /\ (part = "text" => task'[r].parts = <<"text">>)
  <2>1. /\ task[r].at = "send" /\ task[r].parts \in PartLists /\ task[r].pos \in DOMAIN Txn[task[r].txn]
        /\ retried' = retried /\ (channel' = channel \/ Grows(Entry(r)))
    BY <1>3, SendShape
  <2>2. \/ Passed(m)
        \/ m = EventOf(task[r]) /\ (part = "text" => task[r].parts = <<"text">>)
    <3>1. CASE k \in DOMAIN channel /\ channel'[k] = channel[k]
      BY <2>1, <3>1, ChannelBehind
    <3>2. CASE channel'[k] = Entry(r)
      BY <2>1, <3>2, PartListFacts DEF Entry
    <3>3. QED BY <2>1, <3>1, <3>2 DEF Grows
  <2>3. CASE Passed(m)
    BY <2>3, PassedKeeps
  <2>4. CASE m = EventOf(task[r]) /\ (part = "text" => task[r].parts = <<"text">>)
    <3>1. CASE Finishes(r)
      BY <2>1, <2>4, <3>1, DonePasses
    <3>2. ASSUME NEW parts \in PartLists, Continues(r, parts), parts = task[r].parts \/ Len(task[r].parts) = 2
          PROVE  Busy(r)' /\ m = EventOf(task'[r]) /\ (part = "text" => task'[r].parts = <<"text">>)
      <4>1. Busy(r)' /\ m = EventOf(task'[r]) /\ task'[r].parts = parts
        BY <2>4, <3>2 DEF Continues, OthersStay, Busy, EventOf
      <4>2. part = "text" => Len(task[r].parts) = 1
        BY <2>4
      <4>3. QED BY <2>4, <3>2, <4>1, <4>2
    <3>3. QED BY <1>3, <3>1, <3>2, SendShape
  <2>5. QED BY <2>2, <2>3, <2>4
<1>4. QED BY <1>1, <1>2, <1>3 DEF Next, Step

LEMMA InChannelGrows ==
  ASSUME NEW e, Grows(e), NEW m, NEW part
  PROVE  InChannel(channel', m, part) <=> InChannel(channel, m, part) \/ e = [ev |-> m, part |-> part]
<1>1. Len(channel) + 1 \in 1..Len(channel) + 1 /\ \A k \in 1..Len(channel) : k \in 1..Len(channel) + 1
  BY DEF Grows
<1>2. \A k \in 1..Len(channel) + 1 : k \in 1..Len(channel) \/ k = Len(channel) + 1
  BY DEF Grows
<1>3. QED BY <1>1, <1>2 DEF InChannel, Grows

LEMMA UnpostedStep ==
  ASSUME IInv, Next
  PROVE  Unposted'
<1> SUFFICES ASSUME ~retried', NEW r \in Tasks, Busy(r)', NEW m, m = EventOf(task'[r]), m \notin unsure',
                    NEW parts, parts = task'[r].parts
             PROVE  /\ \A i \in 1..Len(parts) : ~InChannel(channel', m, parts[i])
                    /\ InChannel(channel', m, "file") => parts = <<"text">>
                    /\ InChannel(channel', m, "url") => parts = <<"text">>
  BY DEF Unposted
<1>1. TypeOK /\ Unposted /\ task \in [Tasks -> Rec]
  BY DEF IInv, TypeOK, Rec
<1>2. CASE Crash \/ \E q \in Tasks : Deliver(q) \/ Retry(q) \/ Answer(q)
  <2>1. \A q \in Tasks : ~Busy(q)
    BY <1>2, NothingInHand
  <2>2. CASE Crash
    BY <2>2 DEF Crash, Idle, Busy
  <2>3. ASSUME NEW q \in Tasks, Deliver(q) PROVE FALSE
    BY <2>1, <2>3, DeliverShape DEF Busy
  <2>4. ASSUME NEW q \in Tasks, Retry(q) PROVE FALSE
    BY <2>4 DEF Retry
  <2>5. ASSUME NEW q \in Tasks, Answer(q) PROVE FALSE
    BY <1>1, <2>1, <2>5 DEF Busy, Answer, Idle
  <2>6. QED BY <1>2, <2>2, <2>3, <2>4, <2>5
<1>3. ASSUME NEW q \in Tasks, Handle(q) PROVE \A part : ~InChannel(channel', m, part)
  <2>1. ~retried /\ channel' = channel /\ \A p \in Tasks : ~Busy(p)
    BY <1>3, NothingInHand
  <2>2. /\ task[q].at = "event" /\ task[q].pos \in DOMAIN Txn[task[q].txn]
        /\ OthersStay(q) /\ (Finishes(q) \/ task'[q].pos = task[q].pos)
    BY <1>3, HandleShape DEF Finishes, Continues
  <2>3. r = q
    BY <2>1, <2>2 DEF OthersStay, Busy
  <2>4. m = EventOf(task[q])
    BY <2>2, <2>3 DEF OthersStay, Finishes, Busy, EventOf
  <2>5. \A k \in DOMAIN channel : channel[k].ev < m /\ channel[k].ev \in Nat
    BY <2>1, <2>2, <2>4, ChannelBehind
  <2>6. QED BY <2>1, <2>5 DEF InChannel
<1>4. ASSUME NEW q \in Tasks, TakeLock(q) PROVE channel' = channel /\ unsure' = unsure /\ ~retried
                                                /\ Busy(r) /\ m = EventOf(task[r]) /\ parts = task[r].parts
  <2>1. channel' = channel /\ unsure' = unsure /\ ~retried
    BY <1>4 DEF TakeLock
  <2>2. Continues(q, task[q].parts) /\ task[q].at = "lock"
    BY <1>4, LockShape
  <2>3. QED BY <2>1, <2>2 DEF Continues, OthersStay, Busy, EventOf
<1>5. ASSUME NEW q \in Tasks, Sent(q) \/ Refused(q) \/ AnswerLost(q)
      PROVE  /\ \A i \in 1..Len(parts) : ~InChannel(channel', m, parts[i])
             /\ InChannel(channel', m, "file") => parts = <<"text">>
             /\ InChannel(channel', m, "url") => parts = <<"text">>
  <2> DEFINE old == task[q].parts
  <2>1. /\ task[q].at = "send" /\ old \in PartLists /\ ~retried /\ unsure \subseteq unsure'
        /\ channel' = channel \/ Grows(Entry(q))
        /\ \/ channel' = channel \/ EventOf(task[q]) \in unsure' \/ Finishes(q)
           \/ Len(old) = 2 /\ Continues(q, <<"text">>)
    BY <1>5, SendShape
  <2>2. /\ OthersStay(q)
        /\ \/ Finishes(q)
           \/ \E ps \in PartLists :
                 /\ Continues(q, ps)
                 /\ \/ ps = old
                    \/ Len(old) = 2 /\ ps = <<"text">>
                    \/ Len(old) = 2 /\ Head(old) = "file" /\ ps = <<"url", "text">>
    BY <1>5, SendShape DEF Finishes, Continues
  <2>3. \A p \in Tasks : p # q => task[p].at = "idle"
    BY <2>1, OneAtWork
  <2>4. r = q
    BY <2>2, <2>3 DEF OthersStay, Busy
  <2>5. ~Finishes(q)
    BY <2>4 DEF Finishes, Busy
  <2>6. /\ m = EventOf(task[q])
        /\ \/ parts = old
           \/ Len(old) = 2 /\ parts = <<"text">>
           \/ Len(old) = 2 /\ Head(old) = "file" /\ parts = <<"url", "text">>
    BY <2>2, <2>4, <2>5 DEF Continues, OthersStay, EventOf
  <2>7. /\ \A i \in 1..Len(old) : ~InChannel(channel, m, old[i])
        /\ InChannel(channel, m, "file") => old = <<"text">>
        /\ InChannel(channel, m, "url") => old = <<"text">>
    BY <1>1, <2>1, <2>6 DEF Unposted, Busy
  <2>8. CASE channel' = channel
    <3>1. CASE parts = old
      BY <2>7, <2>8, <3>1
    <3>2. CASE Len(old) = 2 /\ parts = <<"text">>
      <4>1. old[2] = "text" /\ 2 \in 1..Len(old)
        BY <2>1, <3>2, PartListFacts
      <4>2. QED BY <2>7, <2>8, <3>2, <4>1
    <3>3. CASE Len(old) = 2 /\ Head(old) = "file" /\ parts = <<"url", "text">>
      <4>1. old[2] = "text" /\ 2 \in 1..Len(old) /\ old # <<"text">>
        BY <2>1, <3>3, PartListFacts
      <4>2. ~InChannel(channel', m, "text") /\ ~InChannel(channel', m, "url") /\ ~InChannel(channel', m, "file")
        BY <2>7, <2>8, <4>1
      <4>3. QED BY <3>3, <4>2
    <3>4. QED BY <2>6, <3>1, <3>2, <3>3
  <2>9. CASE channel' # channel
    <3>1. Grows(Entry(q)) /\ Len(old) = 2 /\ parts = <<"text">>
      BY <2>1, <2>4, <2>5, <2>6, <2>9 DEF Continues
    <3>2. old[2] = "text" /\ 2 \in 1..Len(old) /\ Head(old) # "text"
      BY <2>1, <3>1, PartListFacts
    <3>3. Entry(q) # [ev |-> m, part |-> "text"]
      BY <3>2 DEF Entry
    <3>4. ~InChannel(channel', m, "text")
      BY <2>7, <3>1, <3>2, <3>3, InChannelGrows
    <3>5. QED BY <3>1, <3>4
  <2>10. QED BY <2>8, <2>9
<1>6. ASSUME NEW q \in Tasks, TakeLock(q)
      PROVE  /\ \A i \in 1..Len(parts) : ~InChannel(channel', m, parts[i])
             /\ InChannel(channel', m, "file") => parts = <<"text">>
             /\ InChannel(channel', m, "url") => parts = <<"text">>
  BY <1>1, <1>4, <1>6 DEF Unposted
<1>7. QED BY <1>2, <1>3, <1>5, <1>6 DEF Next, Step

\* The steps that post nothing keep what is said of the channel alone.
LEMMA PostsNothing ==
  ASSUME IInv, Next, ~retried'
  PROVE  /\ ~retried /\ unsure \subseteq unsure'
         /\ \/ channel' = channel
            \/ \E r \in Tasks : (Sent(r) \/ Refused(r) \/ AnswerLost(r)) /\ Grows(Entry(r))
<1>1. CASE Crash \/ \E q \in Tasks : Deliver(q) \/ Retry(q) \/ Answer(q) \/ Handle(q)
  BY <1>1, NothingInHand
<1>2. ASSUME NEW q \in Tasks, TakeLock(q) PROVE ~retried /\ unsure' = unsure /\ channel' = channel
  BY <1>2 DEF TakeLock
<1>3. ASSUME NEW q \in Tasks, Sent(q) \/ Refused(q) \/ AnswerLost(q)
      PROVE  ~retried /\ unsure \subseteq unsure' /\ (channel' = channel \/ Grows(Entry(q)))
  BY <1>3, SendShape
<1>4. QED BY <1>1, <1>2, <1>3 DEF Next, Step

LEMMA OnceStep ==
  ASSUME IInv, Next
  PROVE  Once'
<1> SUFFICES ASSUME ~retried', NEW m \in Events \ unsure'
             PROVE  /\ \A k, l \in DOMAIN channel' : channel'[k].ev = m /\ channel'[k] = channel'[l] => k = l
                    /\ ~(InChannel(channel', m, "file") /\ InChannel(channel', m, "url"))
  BY DEF Once
<1>1. ~retried /\ m \in Events \ unsure
  BY PostsNothing
<1>2. /\ \A k, l \in DOMAIN channel : channel[k].ev = m /\ channel[k] = channel[l] => k = l
      /\ ~(InChannel(channel, m, "file") /\ InChannel(channel, m, "url"))
  BY <1>1 DEF IInv, Once
<1>3. CASE channel' = channel
  BY <1>2, <1>3
<1>4. ASSUME NEW r \in Tasks, Sent(r) \/ Refused(r) \/ AnswerLost(r), Grows(Entry(r))
      PROVE  /\ \A k, l \in DOMAIN channel' : channel'[k].ev = m /\ channel'[k] = channel'[l] => k = l
             /\ ~(InChannel(channel', m, "file") /\ InChannel(channel', m, "url"))
  <2> DEFINE part == Head(task[r].parts)
  <2>1. Entry(r) = [ev |-> EventOf(task[r]), part |-> part]
    BY DEF Entry
  <2>2. /\ task[r].parts \in PartLists /\ task[r].at = "send"
        /\ part = task[r].parts[1] /\ 1 \in 1..Len(task[r].parts)
    BY <1>4, SendShape, PartListFacts
  <2>3. m = EventOf(task[r]) => /\ ~InChannel(channel, m, part)
                                /\ InChannel(channel, m, "file") => task[r].parts = <<"text">>
                                /\ InChannel(channel, m, "url") => task[r].parts = <<"text">>
    BY <1>1, <2>2 DEF IInv, Unposted, Busy
  <2>4. \A k \in 1..Len(channel) : channel[k].ev = m /\ channel[k] = Entry(r) => FALSE
    <3> SUFFICES ASSUME NEW k \in 1..Len(channel), channel[k].ev = m, channel[k] = Entry(r) PROVE FALSE
      OBVIOUS
    <3>1. m = EventOf(task[r]) /\ channel[k] = [ev |-> m, part |-> part] /\ k \in DOMAIN channel
      BY <1>4, <2>1 DEF Grows
    <3>2. QED BY <2>3, <3>1 DEF InChannel
  <2>5. \A k, l \in DOMAIN channel' : channel'[k].ev = m /\ channel'[k] = channel'[l] => k = l
    <3>1. \A k \in DOMAIN channel' : k \in 1..Len(channel) \/ k = Len(channel) + 1
      BY <1>4 DEF Grows
    <3>2. QED BY <1>2, <1>4, <2>4, <3>1 DEF Grows
  <2>6. ~(InChannel(channel', m, "file") /\ InChannel(channel', m, "url"))
    <3>1. CASE m # EventOf(task[r])
      BY <1>2, <1>4, <2>1, <3>1, InChannelGrows
    <3>2. CASE m = EventOf(task[r])
      <4>1. part \in {"file", "url"} => task[r].parts # <<"text">>
        OBVIOUS
      <4>2. part \in {"file", "url"} => ~InChannel(channel, m, "file") /\ ~InChannel(channel, m, "url")
        BY <2>3, <3>2, <4>1
      <4>3. Entry(r) = [ev |-> m, part |-> part]
        BY <2>1, <3>2
      <4>4. /\ InChannel(channel', m, "file") <=> InChannel(channel, m, "file") \/ part = "file"
            /\ InChannel(channel', m, "url") <=> InChannel(channel, m, "url") \/ part = "url"
        BY <1>4, <4>3, InChannelGrows
      <4>5. QED BY <1>2, <4>2, <4>4
    <3>3. QED BY <3>1, <3>2
  <2>7. QED BY <2>5, <2>6
<1>5. QED BY <1>3, <1>4, PostsNothing

LEMMA OrderStep ==
  ASSUME IInv, Next
  PROVE  InOrderUnlessRetried'
<1> SUFFICES ASSUME ~retried', NEW i \in DOMAIN channel', NEW j \in DOMAIN channel', i < j
             PROVE  \/ channel'[i].ev < channel'[j].ev
                    \/ channel'[i].ev = channel'[j].ev /\ (channel'[i].part = "text" => channel'[j].part = "text")
  BY DEF InOrderUnlessRetried
<1>1. ~retried
  BY PostsNothing
<1>2. \A k, l \in DOMAIN channel : k < l =>
         \/ channel[k].ev < channel[l].ev
         \/ channel[k].ev = channel[l].ev /\ (channel[k].part = "text" => channel[l].part = "text")
  BY <1>1 DEF IInv, InOrderUnlessRetried
<1>3. CASE channel' = channel
  BY <1>2, <1>3
<1>4. ASSUME NEW r \in Tasks, Sent(r) \/ Refused(r) \/ AnswerLost(r), Grows(Entry(r))
      PROVE  \/ channel'[i].ev < channel'[j].ev
             \/ channel'[i].ev = channel'[j].ev /\ (channel'[i].part = "text" => channel'[j].part = "text")
  <2>1. i \in DOMAIN channel /\ channel'[i] = channel[i]
    BY <1>4 DEF Grows
  <2>2. CASE j \in DOMAIN channel
    BY <1>2, <1>4, <2>1, <2>2 DEF Grows
  <2>3. CASE j \notin DOMAIN channel
    <3>1. channel'[j] = Entry(r)
      BY <1>4, <2>3 DEF Grows
    <3>2. /\ task[r].at = "send" /\ task[r].parts \in PartLists
          /\ task[r].pos \in DOMAIN Txn[task[r].txn]
      BY <1>4, SendShape
    <3>3. \/ channel[i].ev < EventOf(task[r])
          \/ channel[i].ev = EventOf(task[r]) /\ (channel[i].part = "text" => task[r].parts = <<"text">>)
      BY <1>1, <2>1, <3>2, ChannelBehind
    <3>4. task[r].parts = <<"text">> => Head(task[r].parts) = "text"
      OBVIOUS
    <3>5. channel'[j].ev = EventOf(task[r]) /\ channel'[j].part = Head(task[r].parts)
      BY <3>1 DEF Entry
    <3>6. QED BY <2>1, <3>3, <3>4, <3>5
  <2>4. QED BY <2>2, <2>3
<1>5. QED BY <1>3, <1>4, PostsNothing
-----------------------------------------------------------------------------
LEMMA InitIInv == Init => IInv
<1> SUFFICES ASSUME Init PROVE IInv
  OBVIOUS
<1>1. Idle \in Rec /\ Idle.at = "idle"
  BY DEF Idle, Rec
<1>2. task \in [Tasks -> Rec] /\ \A r \in Tasks : task[r].at = "idle"
  BY <1>1 DEF Init
<1>3. TaskTypes
  BY <1>2 DEF Init, TaskTypes, Busy, None, Tasks
<1>4. RestTypes
  <2>1. retried \in BOOLEAN
    BY Zenon DEF Init
  <2>2. next \in 1..NumTxns + 1
    BY TxnsHaveEvents DEF Init, NumTxns
  <2>3. faults \in 0..MaxFaults
    BY BoundsAreNat DEF Init
  <2>4. channel \in Seq([ev : Events, part : Parts])
    BY DEF Init
  <2>5. QED BY <2>1, <2>2, <2>3, <2>4 DEF Init, RestTypes
<1>5. TypeOK
  BY <1>3, <1>4, TypeParts
<1>6. DOMAIN channel = {}
  BY DEF Init
<1>7. PartsOK /\ SettledOK /\ Alone /\ Unposted
  <2>1. next = 1 /\ 1..next - 1 = {}
    BY DEF Init
  <2>2. QED BY <1>2, <2>1 DEF PartsOK, SettledOK, Alone, Unposted, Busy
<1>8. Behind /\ Once /\ InOrderUnlessRetried
  BY <1>6 DEF Behind, Once, InOrderUnlessRetried, InChannel
<1>9. QED BY <1>5, <1>7, <1>8 DEF IInv

LEMMA StutterIInv == IInv /\ UNCHANGED vars => IInv'
<1> SUFFICES ASSUME IInv, UNCHANGED vars PROVE IInv'
  OBVIOUS
<1>1. TypeOK'
  BY DEF IInv, TypeOK, vars
<1>2. PartsOK' /\ SettledOK' /\ Alone'
  BY DEF IInv, PartsOK, SettledOK, Excused, Alone, Busy, vars
<1>3. Behind' /\ Unposted'
  BY DEF IInv, Behind, Passed, Unposted, Busy, vars
<1>4. Once' /\ InOrderUnlessRetried'
  BY DEF IInv, Once, InOrderUnlessRetried, vars
<1>5. QED BY <1>1, <1>2, <1>3, <1>4 DEF IInv

LEMMA Invariance == Spec => []IInv
<1>1. Init => IInv
  BY InitIInv
<1>2. IInv /\ [Next]_vars => IInv'
  <2>1. ASSUME IInv, Next PROVE IInv'
    BY <2>1, TypeStep, PartsStep, SettledStep, AloneStep, BehindStep, UnpostedStep, OnceStep, OrderStep
    DEF IInv
  <2>2. QED BY <2>1, StutterIInv
<1>3. QED BY <1>1, <1>2, PTL DEF Spec
-----------------------------------------------------------------------------
\* Tasks, transactions and parts keep their types, and send_lock is held exactly by the
\* task that is sending (send_message_with_metadata_as_user, send_file_as_user).
THEOREM OutboundTypeCorrect == Spec => []TypeOK
<1>1. IInv => TypeOK
  BY DEF IInv
<1>2. QED BY <1>1, Invariance, PTL

\* Whatever is refused, lost, retried or crashes: once a transaction has been answered,
\* the text of each of its events is on Slack, or was refused twice, or that event's own
\* lookup failed or it was over the age limit when its turn came (on_transaction,
\* process_event, handle_matrix_message).
THEOREM AnsweredIsSent == Spec => []AnsweredMeansSent
<1>1. IInv => AnsweredMeansSent
  <2>1. \A m : InChannel(channel, m, "text") => Copies(m, "text") # {}
    BY DEF InChannel, Copies
  <2>2. QED BY <2>1 DEF IInv, SettledOK, Settled, Excused, AnsweredMeansSent
<1>2. QED BY <1>1, Invariance, PTL

\* Without a retry Slack shows the events in the homeserver's order, a text below its
\* attachments, for transactions of any length (on_transaction, message_flow.rs).
THEOREM SlackKeepsOrder == Spec => []InOrderUnlessRetried
<1>1. IInv => InOrderUnlessRetried
  BY DEF IInv
<1>2. QED BY <1>1, Invariance, PTL

\* Without a retry a part is posted twice only if an answer of Slack was lost, and never
\* a file and its URL (send_file_as_user, send_message_with_metadata_as_user).
THEOREM DuplicatesNeedACause == Spec => []DuplicatesExcused
<1>1. IInv => DuplicatesExcused
  <2> SUFFICES ASSUME IInv, ~retried, NEW m \in Events \ unsure
               PROVE  /\ \A part \in Parts : Cardinality(Copies(m, part)) <= 1
                      /\ Copies(m, "file") = {} \/ Copies(m, "url") = {}
    BY DEF DuplicatesExcused
  <2>1. /\ \A k, l \in DOMAIN channel : channel[k].ev = m /\ channel[k] = channel[l] => k = l
        /\ ~(InChannel(channel, m, "file") /\ InChannel(channel, m, "url"))
    BY DEF IInv, Once
  <2>2. ASSUME NEW part \in Parts PROVE Cardinality(Copies(m, part)) <= 1
    <3>1. CASE Copies(m, part) = {}
      BY <3>1, FS_EmptySet
    <3>2. CASE Copies(m, part) # {}
      <4>1. PICK k \in Copies(m, part) : TRUE
        BY <3>2
      <4>2. Copies(m, part) = {k}
        BY <2>1, <4>1 DEF Copies
      <4>3. Cardinality({k}) = 1
        BY FS_Singleton
      <4>4. QED BY <4>2, <4>3
    <3>3. QED BY <3>1, <3>2
  <2>3. Copies(m, "file") = {} \/ Copies(m, "url") = {}
    BY <2>1 DEF Copies, InChannel
  <2>4. QED BY <2>2, <2>3
<1>2. QED BY <1>1, Invariance, PTL
=============================================================================
