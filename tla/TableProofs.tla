---------------------------- MODULE TableProofs -----------------------------
(***************************************************************************)
(* The safety properties of the parts of Services that are about the       *)
(* database: the message table, the emoji table, and the stores of the     *)
(* three back ends; for any calls, texts and names.  Each part has the     *)
(* inductive invariant its section describes.                              *)
(***************************************************************************)
EXTENDS Services, Sequences, FiniteSetTheorems, TLAPS
-----------------------------------------------------------------------------
(***************************************************************************)
(* MessageStore.  Ids are never used again (RowsOK), so the row an UPDATE  *)
(* finds by the id its SELECT has read is one of its message, or was       *)
(* deleted (SeenOK); and an answer given now has a later turn than all     *)
(* before it (Counted, TurnsOK).                                           *)
(***************************************************************************)

Done == {c \in Calls : call[c] = "ok"}

Counted ==
    /\ nextId <= Cardinality(Done) + 1
    /\ \E k \in 0..Cardinality(Done) : M!Turns = 1..k

TurnsOK == \A c \in Calls :
    /\ turn[c] # 0 => call[c] = "ok"
    /\ call[c] = "ok" /\ kind[c] = "upsert" => turn[c] # 0

RowsOK == \A r \in rows :
    /\ r.id < nextId
    /\ turn[r.by] # 0
    /\ \A s \in rows : r.id = s.id \/ r.msg = s.msg => r = s

SeenOK == \A c \in Calls :
    /\ seen[c] # 0 => seen[c] < nextId /\ \A r \in rows : r.id = seen[c] => r.msg = msg[c]
    /\ call[c] \in {"update", "insert"} => kind[c] = "upsert"
    /\ call[c] = "update" => seen[c] # 0 /\ (c \notin deleted => \E r \in rows : r.id = seen[c])

MessageInv == M!TypeOK /\ Counted /\ TurnsOK /\ RowsOK /\ SeenOK /\ M!UpsertHeld
-----------------------------------------------------------------------------
\* MessageStore counts with the operators of its own copy of FiniteSets.
LEMMA MessageCounts ==
  ASSUME NEW X
  PROVE  M!Cardinality(X) = Cardinality(X) /\ (M!IsFiniteSet(X) <=> IsFiniteSet(X))
  BY DEF M!Cardinality, Cardinality, M!IsFiniteSet, IsFiniteSet

\* Cardinalities are numbers.
LEMMA CallsCounted ==
  ASSUME M!Bounds
  PROVE  /\ M!MaxId \in Nat
         /\ IsFiniteSet(Done) /\ Cardinality(Done) \in Nat /\ Cardinality(Done) <= M!MaxId
<1>1. IsFiniteSet(Calls) /\ Done \subseteq Calls
  BY MessageCounts DEF M!Bounds, Done
<1>2. IsFiniteSet(Done) /\ Cardinality(Done) <= Cardinality(Calls)
  BY <1>1, FS_Subset
<1>3. Cardinality(Calls) \in Nat /\ Cardinality(Done) \in Nat
  BY <1>1, <1>2, FS_CardinalityType
<1>4. QED BY <1>2, <1>3, MessageCounts DEF M!MaxId

\* One more call is answered Ok.
LEMMA OneMoreDone ==
  ASSUME M!Bounds, M!TypeOK, NEW c \in Calls, call[c] # "ok", M!Goes(c, "ok")
  PROVE  /\ Done' = Done \cup {c}
         /\ Cardinality(Done') = Cardinality(Done) + 1
         /\ Cardinality(Done) + 1 <= M!MaxId
<1>1. Done' = Done \cup {c} /\ c \notin Done
  BY DEF M!TypeOK, M!Goes, Done
<1>2. Cardinality(Done \cup {c}) = Cardinality(Done) + 1
  BY <1>1, CallsCounted, FS_AddElement
<1>3. IsFiniteSet(Calls) /\ Done \cup {c} \subseteq Calls
  BY MessageCounts DEF M!Bounds, Done
<1>4. Cardinality(Done \cup {c}) <= Cardinality(Calls)
  BY <1>3, FS_Subset
<1>5. QED BY <1>1, <1>2, <1>4, MessageCounts DEF M!MaxId

\* Its turn, for an upsert, is after all others.
LEMMA MessageAnswerStep ==
  ASSUME M!Bounds, MessageInv, NEW c \in Calls, call[c] \in {"update", "insert"}, M!Answers(c)
  PROVE  /\ turn' \in [Calls -> 0..M!MaxId]
         /\ turn'[c] # 0
         /\ \A d \in Calls : d # c => turn'[d] = turn[d] /\ turn'[c] > turn[d]
         /\ \E k \in 0..Cardinality(Done') : M!Turns' = 1..k
         /\ turn[c] = 0
<1>1. turn[c] = 0 /\ call[c] # "ok" /\ M!Goes(c, "ok") /\ turn \in [Calls -> 0..M!MaxId]
  BY DEF MessageInv, M!TypeOK, TurnsOK, M!Answers
<1>2. PICK k \in 0..Cardinality(Done) : M!Turns = 1..k
  BY DEF MessageInv, Counted
<1>3. M!MaxId \in Nat /\ Cardinality(Done) \in Nat /\ k \in Nat
  BY CallsCounted
<1>4. /\ Cardinality(Done') = Cardinality(Done) + 1
      /\ Cardinality(Done) + 1 <= M!MaxId
  BY <1>1, OneMoreDone DEF MessageInv
<1>5. Cardinality(M!Turns) = k
  <2>1. Cardinality(1..k) = k
    BY <1>3, FS_Interval
  <2>2. QED BY <1>2, <2>1
<1>6. turn' = [turn EXCEPT ![c] = k + 1]
  BY <1>5, MessageCounts DEF M!Answers
<1>7. k + 1 \in 1..M!MaxId
  BY <1>3, <1>4
<1>8. \A d \in Calls : turn[d] # 0 => turn[d] \in 1..k
  BY <1>2 DEF M!Turns
<1>9. M!Turns' = M!Turns \cup {k + 1}
  <2>1. \A x \in M!Turns' : x \in M!Turns \cup {k + 1}
    BY <1>1, <1>6 DEF M!Turns
  <2>2. \A d \in Calls : turn[d] # 0 => turn'[d] = turn[d]
    BY <1>1, <1>6
  <2>3. \A x \in M!Turns : x \in M!Turns'
    BY <2>2 DEF M!Turns
  <2>4. turn'[c] = k + 1 /\ k + 1 # 0
    BY <1>1, <1>3, <1>6
  <2>5. k + 1 \in M!Turns'
    BY <2>4 DEF M!Turns
  <2>6. QED BY <2>1, <2>3, <2>5
<1>10. M!Turns' = 1..k + 1 /\ k + 1 \in 0..Cardinality(Done')
  BY <1>2, <1>3, <1>4, <1>9
<1>11. \A d \in Calls : d # c => turn'[d] = turn[d] /\ turn'[c] > turn[d]
  <2> SUFFICES ASSUME NEW d \in Calls, d # c PROVE turn'[d] = turn[d] /\ turn'[c] > turn[d]
    OBVIOUS
  <2>1. turn'[d] = turn[d] /\ turn'[c] = k + 1
    BY <1>1, <1>6
  <2>2. turn[d] = 0 \/ turn[d] \in 1..k
    BY <1>8
  <2>3. QED BY <1>3, <2>1, <2>2
<1>12. turn' \in [Calls -> 0..M!MaxId] /\ turn'[c] # 0
  BY <1>1, <1>3, <1>6, <1>7
<1>13. QED BY <1>1, <1>10, <1>11, <1>12

LEMMA MessageInitial == ASSUME M!Bounds PROVE M!Init => MessageInv
<1> SUFFICES ASSUME M!Init PROVE MessageInv
  OBVIOUS
<1>1. M!MaxId \in Nat /\ Cardinality(Done) \in Nat
  BY CallsCounted
<1>2. M!TypeOK
  BY <1>1 DEF M!Init, M!TypeOK, M!Stages
<1>3. M!Turns = {}
  BY DEF M!Init, M!Turns
<1>4. Counted
  <2>1. M!Turns = 1..0 /\ 0 \in 0..Cardinality(Done)
    BY <1>1, <1>3
  <2>2. nextId <= Cardinality(Done) + 1
    BY <1>1 DEF M!Init
  <2>3. QED BY <2>1, <2>2 DEF Counted
<1>5. TurnsOK /\ RowsOK /\ SeenOK /\ M!UpsertHeld
  BY DEF M!Init, TurnsOK, RowsOK, SeenOK, M!UpsertHeld
<1>6. QED BY <1>2, <1>4, <1>5 DEF MessageInv

\* Nothing is answered Ok and the table stays: connecting, timing out, the SELECT.
LEMMA QuietStep ==
  ASSUME M!Bounds, MessageInv, NEW c \in Calls, M!Connects(c) \/ M!TimesOut(c) \/ M!Selects(c)
  PROVE  MessageInv'
<1>1. /\ UNCHANGED <<rows, nextId, kind, msg, turn>>
      /\ \E stage \in M!Stages \ {"new", "ok"} : M!Goes(c, stage)
      /\ call[c] \in {"new", "connected"}
  BY DEF M!Connects, M!TimesOut, M!Selects, M!Stages
<1>2. PICK stage \in M!Stages \ {"new", "ok"} : M!Goes(c, stage)
  BY <1>1
<1>3. /\ call' = [call EXCEPT ![c] = stage] /\ call \in [Calls -> M!Stages]
      /\ call'[c] = stage /\ \A d \in Calls : d # c => call'[d] = call[d]
  BY <1>2 DEF MessageInv, M!TypeOK, M!Goes
<1>4. Done' = Done
  BY <1>1, <1>3 DEF Done
<1>5. /\ seen' \in [Calls -> 0..M!MaxId] /\ deleted' \subseteq Calls
      /\ \A d \in Calls : d # c => seen'[d] = seen[d] /\ (d \in deleted' <=> d \in deleted)
  <2>1. CASE M!Connects(c) \/ M!TimesOut(c)
    BY <2>1 DEF MessageInv, M!TypeOK, M!Connects, M!TimesOut
  <2>2. CASE M!Selects(c)
    BY <2>2 DEF MessageInv, M!TypeOK, M!Selects, M!Row
  <2>3. QED BY <2>1, <2>2
<1>6. M!TypeOK'
  BY <1>1, <1>3, <1>5 DEF MessageInv, M!TypeOK
<1>7. Counted'
  BY <1>1, <1>4 DEF MessageInv, Counted, M!Turns
<1>8. TurnsOK' /\ RowsOK'
  BY <1>1, <1>3 DEF MessageInv, M!TypeOK, TurnsOK, RowsOK
<1>9. /\ seen'[c] # 0 => seen'[c] < nextId /\ \A r \in rows : r.id = seen'[c] => r.msg = msg[c]
      /\ call'[c] \in {"update", "insert"} => kind[c] = "upsert"
      /\ call'[c] = "update" => seen'[c] # 0 /\ \E r \in rows : r.id = seen'[c]
  <2>1. CASE M!Connects(c) \/ M!TimesOut(c)
    BY <2>1 DEF MessageInv, M!TypeOK, SeenOK, M!Connects, M!TimesOut, M!Goes
  <2>2. CASE M!Selects(c)
    <3>1. CASE \E r \in rows : /\ r.msg = msg[c]
                               /\ seen' = [seen EXCEPT ![c] = r.id] /\ M!Goes(c, "update")
      <4>1. PICK r \in rows : /\ r.msg = msg[c]
                              /\ seen' = [seen EXCEPT ![c] = r.id] /\ M!Goes(c, "update")
        BY <3>1
      <4>2. seen'[c] = r.id /\ r.id \in 1..M!MaxId /\ r.id < nextId
        BY <4>1 DEF MessageInv, M!TypeOK, RowsOK, M!Row
      <4>3. \A s \in rows : s.id = r.id => s = r
        BY DEF MessageInv, RowsOK
      <4>4. r.id # 0
        BY <4>2
      <4>5. QED BY <2>2, <4>1, <4>2, <4>3, <4>4 DEF M!Selects
    <3>2. CASE UNCHANGED seen /\ M!Goes(c, "insert")
      BY <2>2, <3>2 DEF MessageInv, M!TypeOK, SeenOK, M!Selects, M!Goes
    <3>3. QED BY <2>2, <3>1, <3>2 DEF M!Selects
  <2>3. QED BY <2>1, <2>2
<1>10. SeenOK'
  BY <1>1, <1>3, <1>5, <1>9 DEF MessageInv, SeenOK
<1>11. M!UpsertHeld'
  <2> SUFFICES ASSUME NEW d \in Calls, kind[d] = "upsert", call'[d] = "ok", d \notin deleted'
               PROVE  \E r \in rows : r.msg = msg[d] /\ turn[r.by] >= turn[d]
    BY <1>1 DEF M!UpsertHeld
  <2>1. d # c
    BY <1>2, <1>3
  <2>2. call[d] = "ok" /\ d \notin deleted
    BY <1>3, <1>5, <2>1
  <2>3. QED BY <2>2 DEF MessageInv, M!UpsertHeld
<1>12. QED BY <1>6, <1>7, <1>8, <1>10, <1>11 DEF MessageInv

LEMMA MessageUpdateStep ==
  ASSUME M!Bounds, MessageInv, NEW c \in Calls, M!Updates(c)
  PROVE  MessageInv'
<1> DEFINE New(r) == IF r.id = seen[c] THEN [r EXCEPT !.by = c] ELSE r
<1>1. /\ call[c] = "update" /\ M!Answers(c) /\ M!Goes(c, "ok")
      /\ rows' = {New(r) : r \in rows}
      /\ UNCHANGED <<nextId, kind, msg, seen, deleted>>
  BY DEF M!Updates, M!Answers
<1>2. /\ turn' \in [Calls -> 0..M!MaxId] /\ turn'[c] # 0 /\ turn[c] = 0
      /\ \A d \in Calls : d # c => turn'[d] = turn[d] /\ turn'[c] > turn[d]
      /\ \E k \in 0..Cardinality(Done') : M!Turns' = 1..k
  BY <1>1, MessageAnswerStep
<1>3. /\ call' \in [Calls -> M!Stages] /\ call'[c] = "ok" /\ \A d \in Calls : d # c => call'[d] = call[d]
  BY <1>1 DEF MessageInv, M!TypeOK, M!Goes, M!Stages
<1>4. Cardinality(Done') = Cardinality(Done) + 1 /\ Cardinality(Done) \in Nat
  BY <1>1, OneMoreDone, CallsCounted DEF MessageInv
<1>5. \A r \in rows : /\ r \in M!Row /\ New(r) \in M!Row
                      /\ New(r).id = r.id /\ New(r).msg = r.msg
                      /\ New(r).by = IF r.id = seen[c] THEN c ELSE r.by
  <2> SUFFICES ASSUME NEW r \in rows
               PROVE  /\ r \in M!Row /\ New(r) \in M!Row
                      /\ New(r).id = r.id /\ New(r).msg = r.msg
                      /\ New(r).by = IF r.id = seen[c] THEN c ELSE r.by
    OBVIOUS
  <2>1. r \in M!Row
    BY DEF MessageInv, M!TypeOK
  <2>2. QED BY <2>1 DEF M!Row
<1> HIDE DEF New
<1>6. M!TypeOK'
  BY <1>1, <1>2, <1>3, <1>5 DEF MessageInv, M!TypeOK
<1>7. Counted'
  BY <1>1, <1>2, <1>4 DEF MessageInv, M!TypeOK, Counted
<1>8. TurnsOK'
  BY <1>1, <1>2, <1>3 DEF MessageInv, TurnsOK
<1>9. RowsOK'
  <2> SUFFICES ASSUME NEW r \in rows, NEW s \in rows
               PROVE  /\ New(r).id < nextId /\ turn'[New(r).by] # 0
                      /\ New(r).id = New(s).id \/ New(r).msg = New(s).msg => New(r) = New(s)
    BY <1>1 DEF RowsOK
  <2>1. turn[r.by] # 0 /\ r.id < nextId /\ (r.id = s.id \/ r.msg = s.msg => r = s)
    BY DEF MessageInv, RowsOK
  <2>2. r.by \in Calls /\ r.by # c
    BY <1>2, <1>5, <2>1 DEF M!Row
  <2>3. QED BY <1>2, <1>5, <2>1, <2>2
<1>10. SeenOK'
  <2> SUFFICES ASSUME NEW d \in Calls
               PROVE  /\ seen[d] # 0 => seen[d] < nextId /\ \A r \in rows' : r.id = seen[d] => r.msg = msg[d]
                      /\ call'[d] \in {"update", "insert"} => kind[d] = "upsert"
                      /\ call'[d] = "update" =>
                            seen[d] # 0 /\ (d \notin deleted => \E r \in rows' : r.id = seen[d])
    BY <1>1 DEF SeenOK
  <2>1. \A r \in rows' : \E s \in rows : r.id = s.id /\ r.msg = s.msg
    BY <1>1, <1>5
  <2>2. \A s \in rows : \E r \in rows' : r.id = s.id
    BY <1>1, <1>5
  <2>3. call'[d] # "ok" => call'[d] = call[d]
    BY <1>3
  <2>4. seen[d] # 0 => seen[d] < nextId /\ \A r \in rows' : r.id = seen[d] => r.msg = msg[d]
    BY <2>1 DEF MessageInv, SeenOK
  <2>5. call'[d] \in {"update", "insert"} => kind[d] = "upsert"
    BY <2>3 DEF MessageInv, SeenOK
  <2>6. call'[d] = "update" => seen[d] # 0 /\ (d \notin deleted => \E r \in rows' : r.id = seen[d])
    BY <2>2, <2>3 DEF MessageInv, SeenOK
  <2>7. QED BY <2>4, <2>5, <2>6
<1>11. M!UpsertHeld'
  <2> SUFFICES ASSUME NEW d \in Calls, kind[d] = "upsert", call'[d] = "ok", d \notin deleted
               PROVE  \E r \in rows' : r.msg = msg[d] /\ turn'[r.by] >= turn'[d]
    BY <1>1 DEF M!UpsertHeld
  <2>1. turn'[c] \in Int /\ turn'[d] \in Int /\ turn'[c] >= turn'[d]
    BY <1>2
  <2>2. CASE d = c
    <3>1. PICK r \in rows : r.id = seen[c]
      BY <1>1, <2>2 DEF MessageInv, SeenOK
    <3>2. r.msg = msg[c]
      BY <1>1, <3>1 DEF MessageInv, SeenOK
    <3>3. New(r) \in rows' /\ New(r).msg = msg[d] /\ New(r).by = c
      BY <1>1, <1>5, <2>2, <3>1, <3>2
    <3>4. QED BY <2>1, <2>2, <3>3
  <2>3. CASE d # c
    <3>1. PICK r \in rows : r.msg = msg[d] /\ turn[r.by] >= turn[d]
      BY <1>3, <2>3 DEF MessageInv, M!UpsertHeld
    <3>2. New(r) \in rows' /\ New(r).msg = msg[d] /\ New(r).by = IF r.id = seen[c] THEN c ELSE r.by
      BY <1>1, <1>5, <3>1
    <3>3. r.by \in Calls /\ r.by # c
      BY <1>2, <1>5 DEF MessageInv, RowsOK, M!Row
    <3>4. turn'[New(r).by] >= turn'[d]
      BY <1>2, <2>1, <2>3, <3>1, <3>2, <3>3
    <3>5. QED BY <3>2, <3>4
  <2>4. QED BY <2>2, <2>3
<1>12. QED BY <1>6, <1>7, <1>8, <1>9, <1>10, <1>11 DEF MessageInv

LEMMA InsertStep ==
  ASSUME M!Bounds, MessageInv, NEW c \in Calls, M!Inserts(c)
  PROVE  MessageInv'
<1>1. call[c] = "insert" /\ UNCHANGED <<kind, msg, seen, deleted>>
  BY DEF M!Inserts
<1>2. CASE \E r \in rows : r.msg = msg[c]
  <2>1. M!Goes(c, "error") /\ UNCHANGED <<rows, nextId, turn>>
    BY <1>2 DEF M!Inserts
  <2>2. /\ call' \in [Calls -> M!Stages] /\ call'[c] = "error"
        /\ \A d \in Calls : d # c => call'[d] = call[d]
    BY <2>1 DEF MessageInv, M!TypeOK, M!Goes, M!Stages
  <2>3. Done' = Done
    BY <1>1, <2>2 DEF Done
  <2>4. M!TypeOK' /\ TurnsOK' /\ RowsOK'
    BY <1>1, <2>1, <2>2 DEF MessageInv, M!TypeOK, TurnsOK, RowsOK
  <2>5. Counted'
    BY <2>1, <2>3 DEF MessageInv, Counted, M!Turns
  <2>6. SeenOK' /\ M!UpsertHeld'
    BY <1>1, <2>1, <2>2 DEF MessageInv, SeenOK, M!UpsertHeld
  <2>7. QED BY <2>4, <2>5, <2>6 DEF MessageInv
<1>3. CASE \A r \in rows : r.msg # msg[c]
  <2> DEFINE row == [id |-> nextId, msg |-> msg[c], by |-> c]
  <2>1. /\ rows' = rows \cup {row} /\ nextId' = nextId + 1
        /\ M!Answers(c) /\ M!Goes(c, "ok")
    BY <1>3 DEF M!Inserts, M!Answers
  <2>2. /\ turn' \in [Calls -> 0..M!MaxId] /\ turn'[c] # 0 /\ turn[c] = 0
        /\ \A d \in Calls : d # c => turn'[d] = turn[d] /\ turn'[c] > turn[d]
        /\ \E k \in 0..Cardinality(Done') : M!Turns' = 1..k
    BY <1>1, <2>1, MessageAnswerStep
  <2>3. /\ call' \in [Calls -> M!Stages] /\ call'[c] = "ok"
        /\ \A d \in Calls : d # c => call'[d] = call[d]
    BY <2>1 DEF MessageInv, M!TypeOK, M!Goes, M!Stages
  <2>4. /\ Cardinality(Done') = Cardinality(Done) + 1 /\ Cardinality(Done) \in Nat
        /\ Cardinality(Done) + 1 <= M!MaxId /\ M!MaxId \in Nat
    BY <1>1, <2>1, OneMoreDone, CallsCounted DEF MessageInv
  <2>5. nextId \in 1..M!MaxId /\ nextId + 1 \in 1..M!MaxId + 1 /\ nextId \in Nat
    BY <2>4 DEF MessageInv, M!TypeOK, Counted
  <2>6. row \in M!Row /\ row.id = nextId /\ row.msg = msg[c] /\ row.by = c
    BY <2>5 DEF MessageInv, M!TypeOK, M!Row
  <2> HIDE DEF row
  <2>7. M!TypeOK'
    BY <1>1, <2>1, <2>2, <2>3, <2>5, <2>6 DEF MessageInv, M!TypeOK
  <2>8. Counted'
    BY <2>1, <2>2, <2>4, <2>5 DEF MessageInv, Counted
  <2>9. TurnsOK'
    BY <1>1, <2>2, <2>3 DEF MessageInv, TurnsOK
  <2>10. \A r \in rows : /\ r.id \in Int /\ r.id < nextId /\ r.id # nextId
                         /\ r.by \in Calls /\ r.by # c /\ turn[r.by] # 0
    BY <2>2, <2>5 DEF MessageInv, M!TypeOK, RowsOK, M!Row
  <2>11. RowsOK'
    <3> SUFFICES ASSUME NEW r \in rows'
                 PROVE  /\ r.id < nextId + 1 /\ turn'[r.by] # 0
                        /\ \A s \in rows' : r.id = s.id \/ r.msg = s.msg => r = s
      BY <2>1 DEF RowsOK
    <3>1. CASE r \in rows
      BY <1>3, <2>1, <2>2, <2>5, <2>6, <2>10, <3>1 DEF MessageInv, RowsOK
    <3>2. CASE r = row
      BY <1>3, <2>1, <2>2, <2>5, <2>6, <2>10, <3>2
    <3>3. QED BY <2>1, <3>1, <3>2
  <2>12. SeenOK'
    <3> SUFFICES ASSUME NEW d \in Calls
                 PROVE  /\ seen[d] # 0 => seen[d] < nextId + 1 /\
                                          \A r \in rows' : r.id = seen[d] => r.msg = msg[d]
                        /\ call'[d] \in {"update", "insert"} => kind[d] = "upsert"
                        /\ call'[d] = "update" =>
                              seen[d] # 0 /\ (d \notin deleted => \E r \in rows' : r.id = seen[d])
      BY <1>1, <2>1 DEF SeenOK
    <3>1. seen[d] # 0 => seen[d] \in Int /\ seen[d] < nextId
      BY DEF MessageInv, M!TypeOK, SeenOK
    <3>2. call'[d] # "ok" => call'[d] = call[d]
      BY <2>3
    <3>3. QED BY <2>1, <2>5, <2>6, <3>1, <3>2 DEF MessageInv, SeenOK
  <2>13. M!UpsertHeld'
    <3> SUFFICES ASSUME NEW d \in Calls, kind[d] = "upsert", call'[d] = "ok", d \notin deleted
                 PROVE  \E r \in rows' : r.msg = msg[d] /\ turn'[r.by] >= turn'[d]
      BY <1>1 DEF M!UpsertHeld
    <3>1. turn'[c] \in Int
      BY <2>2
    <3>2. CASE d = c
      BY <2>1, <2>6, <3>1, <3>2
    <3>3. CASE d # c
      <4>1. PICK r \in rows : r.msg = msg[d] /\ turn[r.by] >= turn[d]
        BY <2>3, <3>3 DEF MessageInv, M!UpsertHeld
      <4>2. turn'[r.by] = turn[r.by] /\ turn'[d] = turn[d] /\ r \in rows'
        BY <2>1, <2>2, <2>10, <3>3
      <4>3. QED BY <4>1, <4>2
    <3>4. QED BY <3>2, <3>3
  <2>14. QED BY <2>7, <2>8, <2>9, <2>11, <2>12, <2>13 DEF MessageInv
<1>4. QED BY <1>2, <1>3

LEMMA DeleteStep ==
  ASSUME M!Bounds, MessageInv, NEW c \in Calls, M!Deletes(c)
  PROVE  MessageInv'
<1>1. /\ call[c] = "connected" /\ kind[c] = "delete" /\ M!Goes(c, "ok")
      /\ rows' = {r \in rows : r.msg # msg[c]}
      /\ deleted' = deleted \cup {d \in Calls : msg[d] = msg[c]}
      /\ UNCHANGED <<nextId, kind, msg, seen, turn>>
  BY DEF M!Deletes
<1>2. /\ call' \in [Calls -> M!Stages] /\ call'[c] = "ok" /\ \A d \in Calls : d # c => call'[d] = call[d]
  BY <1>1 DEF MessageInv, M!TypeOK, M!Goes, M!Stages
<1>3. Cardinality(Done') = Cardinality(Done) + 1 /\ Cardinality(Done) \in Nat
  BY <1>1, OneMoreDone, CallsCounted DEF MessageInv
<1>4. M!TypeOK'
  BY <1>1, <1>2 DEF MessageInv, M!TypeOK
<1>5. Counted'
  <2>1. nextId' <= Cardinality(Done') + 1
    BY <1>1, <1>3 DEF MessageInv, M!TypeOK, Counted
  <2>2. PICK k \in 0..Cardinality(Done) : M!Turns = 1..k
    BY DEF MessageInv, Counted
  <2>3. M!Turns' = 1..k /\ k \in 0..Cardinality(Done')
    BY <1>1, <1>3, <2>2 DEF M!Turns
  <2>4. QED BY <2>1, <2>3 DEF Counted
<1>6. TurnsOK' /\ RowsOK'
  BY <1>1, <1>2 DEF MessageInv, TurnsOK, RowsOK
<1>7. SeenOK'
  <2> SUFFICES ASSUME NEW d \in Calls
               PROVE  /\ seen[d] # 0 => seen[d] < nextId /\ \A r \in rows' : r.id = seen[d] => r.msg = msg[d]
                      /\ call'[d] \in {"update", "insert"} => kind[d] = "upsert"
                      /\ call'[d] = "update" =>
                            seen[d] # 0 /\ (d \notin deleted' => \E r \in rows' : r.id = seen[d])
    BY <1>1 DEF SeenOK
  <2>1. call'[d] # "ok" => call'[d] = call[d]
    BY <1>2
  <2>2. ASSUME call[d] = "update", d \notin deleted' PROVE \E r \in rows' : r.id = seen[d]
    <3>1. msg[d] # msg[c] /\ d \notin deleted /\ seen[d] # 0
      BY <1>1, <2>2 DEF MessageInv, SeenOK
    <3>2. PICK r \in rows : r.id = seen[d]
      BY <2>2, <3>1 DEF MessageInv, SeenOK
    <3>3. r.msg = msg[d]
      BY <3>1, <3>2 DEF MessageInv, SeenOK
    <3>4. QED BY <1>1, <3>1, <3>2, <3>3
  <2>3. QED BY <1>1, <2>1, <2>2 DEF MessageInv, SeenOK
<1>8. M!UpsertHeld'
  <2> SUFFICES ASSUME NEW d \in Calls, kind[d] = "upsert", call'[d] = "ok", d \notin deleted'
               PROVE  \E r \in rows' : r.msg = msg[d] /\ turn[r.by] >= turn[d]
    BY <1>1 DEF M!UpsertHeld
  <2>1. d # c /\ call[d] = "ok" /\ d \notin deleted /\ msg[d] # msg[c]
    BY <1>1, <1>2
  <2>2. PICK r \in rows : r.msg = msg[d] /\ turn[r.by] >= turn[d]
    BY <2>1 DEF MessageInv, M!UpsertHeld
  <2>3. QED BY <1>1, <2>1, <2>2
<1>9. QED BY <1>4, <1>5, <1>6, <1>7, <1>8 DEF MessageInv

LEMMA MessageNextInv == ASSUME M!Bounds PROVE MessageInv /\ [M!Next]_(M!vars) => MessageInv'
<1> SUFFICES ASSUME MessageInv, [M!Next]_(M!vars) PROVE MessageInv'
  OBVIOUS
<1>1. CASE \E c \in Calls : M!Connects(c) \/ M!TimesOut(c) \/ M!Selects(c)
  BY <1>1, QuietStep
<1>2. CASE \E c \in Calls : M!Updates(c)
  BY <1>2, MessageUpdateStep
<1>3. CASE \E c \in Calls : M!Inserts(c)
  BY <1>3, InsertStep
<1>4. CASE \E c \in Calls : M!Deletes(c)
  BY <1>4, DeleteStep
<1>5. CASE UNCHANGED M!vars
  <2>1. /\ rows' = rows /\ nextId' = nextId /\ call' = call /\ kind' = kind
        /\ msg' = msg /\ seen' = seen /\ turn' = turn /\ deleted' = deleted
    BY <1>5 DEF M!vars
  <2>2. M!TypeOK'
    BY <2>1 DEF MessageInv, M!TypeOK
  <2>3. Done' = Done /\ M!Turns' = M!Turns
    BY <2>1 DEF Done, M!Turns
  <2>4. Counted'
    BY <2>1, <2>3 DEF MessageInv, Counted
  <2>5. TurnsOK' /\ RowsOK'
    BY <2>1 DEF MessageInv, TurnsOK, RowsOK
  <2>6. SeenOK'
    BY <2>1 DEF MessageInv, SeenOK
  <2>7. M!UpsertHeld'
    BY <2>1 DEF MessageInv, M!UpsertHeld
  <2>8. QED BY <2>2, <2>4, <2>5, <2>6, <2>7 DEF MessageInv
<1>6. QED BY <1>1, <1>2, <1>3, <1>4, <1>5 DEF M!Next

LEMMA MessageInvariance == ASSUME M!Bounds PROVE M!Spec => []MessageInv
<1>1. M!Init => MessageInv
  BY MessageInitial
<1>2. MessageInv /\ [M!Next]_(M!vars) => MessageInv'
  BY MessageNextInv
<1>3. QED BY <1>1, <1>2, PTL DEF M!Spec
-----------------------------------------------------------------------------
\* Ids, turns and stages stay in their bounds however the statements of any number of
\* calls interleave: no id is given twice (upsert_message_mapping).
LEMMA MessageTypes == ASSUME M!Bounds PROVE M!Spec => []M!TypeOK
<1>1. MessageInv => M!TypeOK
  BY DEF MessageInv
<1>2. QED BY <1>1, MessageInvariance, PTL

\* For any number of concurrent calls: an upsert answered Ok is in the table, or one
\* answered later is, unless the message was deleted since its SELECT (postgres.rs:530).
LEMMA MessageUpserts == ASSUME M!Bounds PROVE M!Spec => []M!UpsertHeld
<1>1. MessageInv => M!UpsertHeld
  BY DEF MessageInv
<1>2. QED BY <1>1, MessageInvariance, PTL

\* A behaviour of the services is one of MessageStore.
LEMMA MessageAlone == Spec => M!Spec
<1>1. Init => M!Init
  BY DEF Init
<1>2. [Next]_vars => [M!Next]_(M!vars)
  BY DEF Next, vars, pVars, qVars, eVars, rVars, uVars, bVars, mVars, gVars, sVars, M!vars
<1>3. QED BY <1>1, <1>2, PTL DEF Spec, M!Spec

\* For any number of concurrent calls: an upsert answered Ok is in the table, or one
\* answered later is, unless the message was deleted since its SELECT (postgres.rs:530).
THEOREM UpsertsHold == Spec => []UpsertHeld
<1>1. M!Bounds
  BY CallsFinite, MessageCounts DEF M!Bounds
<1>2. M!Spec => []M!UpsertHeld
  BY <1>1, MessageUpserts
<1>3. M!UpsertHeld => UpsertHeld
  BY DEF UpsertHeld, Of
<1>4. QED BY <1>2, <1>3, MessageAlone, PTL
-----------------------------------------------------------------------------
(***************************************************************************)
(* EmojiStore.  As long as nothing has failed, ids and names are unique in *)
(* the table (Keys), and the events of the feed lead from the emoji the    *)
(* table has, or will have once the event in hand is handled               *)
(* (EmojiInHand), to those the workspace has now (History, EmojiFollows).  *)
(***************************************************************************)

EmojiBounds == MaxEmojiEvents \in Nat /\ MaxFaults \in Nat

Contents == [EmojiNames -> 0..MaxEmojiEvents]
ImageGiven(e) == e.kind = "add" => e.image # E!NoImage

EmojiShape ==
    /\ backend \in E!BackEnds /\ eSlack \in Contents /\ count \in 0..MaxEmojiEvents
    /\ feed \in Seq(E!Event) /\ \A i \in 1..Len(feed) : ImageGiven(feed[i])
    /\ eStep \in E!Steps /\ (eStep # "idle" => job \in E!Event /\ ImageGiven(job))
    /\ found \subseteq E!Row /\ table \subseteq E!Row /\ lost \subseteq EmojiNames
    /\ eFaults \in 0..MaxFaults

\* The await of the handler is one of its event's.
JobAt ==
    /\ eStep \in {"download", "upload"} => job.kind = "add"
    /\ eStep \in {"lookup", "delete"} => job.kind = "remove"
    /\ eStep = "write" => job.kind \in {"add", "rename"}

\* What an event does to the emoji of the workspace, and when it can happen as long
\* as nothing has failed.
Effect(e, f) ==
    IF e.kind = "rename" THEN [f EXCEPT ![e.name] = E!NoImage, ![e.to] = f[e.name]]
    ELSE [f EXCEPT ![e.name] = IF e.kind = "add" THEN e.image ELSE E!NoImage]
CanHappen(e, f) ==
    /\ e.kind = "add" => f[e.name] = E!NoImage
    /\ e.kind = "remove" => f[e.name] # E!NoImage
    /\ e.kind = "rename" => f[e.name] # E!NoImage /\ f[e.to] = E!NoImage
    /\ e.usable \/ e.kind = "add"

Keys == \A r, s \in table : (r.id = s.id => r = s) /\ (r.name = s.name => r = s)

\* The table has the emoji f, but for the lost ones.
EmojiSettled(f) ==
    /\ \A r \in table : r.mxc = f[r.name] /\ r.name \notin lost
    /\ \A n \in EmojiNames : f[n] # E!NoImage => n \in lost \/ (\E r \in table : r.name = n)
    /\ \A n \in lost : f[n] # E!NoImage

FoundIt == \E r \in table : found = {r} /\ r.name = job.name

\* f is what the workspace had when the feed began: the table has that, or will.
EmojiInHand(f) ==
    IF eStep = "idle" THEN EmojiSettled(f)
    ELSE /\ \E g \in Contents : EmojiSettled(g) /\ CanHappen(job, g) /\ f = Effect(job, g)
         /\ eStep = "delete" => FoundIt

\* h[i] is what the workspace had after the first i events of the feed.
History(h) ==
    /\ h[Len(feed)] = eSlack
    /\ \A i \in 1..Len(feed) : CanHappen(feed[i], h[i-1]) /\ h[i] = Effect(feed[i], h[i-1])

EmojiFollows == \E h \in [0..Len(feed) -> Contents] : History(h) /\ EmojiInHand(h[0])

EmojiInv == EmojiShape /\ JobAt /\ (eFaults = 0 => Keys /\ EmojiFollows)
-----------------------------------------------------------------------------
LEMMA EmojiInitial ==
  ASSUME EmojiBounds, E!Init
  PROVE  EmojiInv
<1>1. /\ backend \in E!BackEnds /\ eSlack = [n \in EmojiNames |-> E!NoImage] /\ count = 0 /\ feed = <<>>
      /\ eStep = "idle" /\ found = {} /\ table = {} /\ eFaults = 0 /\ lost = {}
  BY DEF E!Init
<1>2. eSlack \in Contents /\ 0 \in 0..MaxEmojiEvents /\ 0 \in 0..MaxFaults
  BY <1>1 DEF EmojiBounds, Contents, E!NoImage
<1>3. Len(feed) = 0 /\ feed \in Seq(E!Event)
  BY <1>1
<1>4. EmojiShape
  BY <1>1, <1>2, <1>3 DEF EmojiShape, E!Steps
<1>5. JobAt /\ Keys
  BY <1>1 DEF JobAt, Keys
<1>6. EmojiSettled(eSlack)
  BY <1>1 DEF EmojiSettled
<1>7. EmojiFollows
  <2> DEFINE h == [i \in 0..0 |-> eSlack]
  <2>1. h \in [0..Len(feed) -> Contents] /\ h[Len(feed)] = eSlack /\ h[0] = eSlack
    BY <1>2, <1>3
  <2>2. History(h)
    BY <1>3, <2>1 DEF History
  <2>3. EmojiInHand(h[0])
    BY <1>1, <1>6, <2>1 DEF EmojiInHand
  <2>4. QED BY <2>1, <2>2, <2>3 DEF EmojiFollows
<1>8. QED BY <1>4, <1>5, <1>7 DEF EmojiInv

\* An event that happens now is the last of the feed.
LEMMA EmojiHappensStep ==
  ASSUME EmojiBounds, EmojiInv, NEW e \in E!Event, ImageGiven(e), eSlack' = Effect(e, eSlack),
         eSlack' \in Contents, count' \in 0..MaxEmojiEvents, feed' = Append(feed, e), eFaults' \in 0..MaxFaults,
         eFaults' = 0 => eFaults = 0 /\ CanHappen(e, eSlack),
         UNCHANGED <<backend, eStep, job, found, table, lost>>
  PROVE  EmojiInv'
<1>1. feed \in Seq(E!Event) /\ Len(feed) \in Nat
  BY DEF EmojiInv, EmojiShape
<1>2. /\ feed' \in Seq(E!Event) /\ Len(feed') = Len(feed) + 1
      /\ \A i \in 1..Len(feed) : feed'[i] = feed[i]
      /\ feed'[Len(feed) + 1] = e
  BY <1>1
<1>3. \A i \in 1..Len(feed') : i \in 1..Len(feed) \/ i = Len(feed) + 1
  BY <1>1, <1>2
<1>4. EmojiShape'
  <2>1. \A i \in 1..Len(feed') : ImageGiven(feed'[i])
    BY <1>2, <1>3 DEF EmojiInv, EmojiShape
  <2>2. QED BY <1>2, <2>1 DEF EmojiInv, EmojiShape, ImageGiven
<1>5. JobAt'
  BY DEF EmojiInv, JobAt
<1>6. ASSUME eFaults' = 0 PROVE Keys' /\ EmojiFollows'
  <2>1. Keys /\ EmojiFollows
    BY <1>6 DEF EmojiInv
  <2>2. PICK h \in [0..Len(feed) -> Contents] : History(h) /\ EmojiInHand(h[0])
    BY <2>1 DEF EmojiFollows
  <2>3. PICK k \in [0..Len(feed') -> Contents] :
             /\ k[Len(feed) + 1] = eSlack' /\ k[0] = h[0]
             /\ \A i \in 0..Len(feed) : k[i] = h[i]
    <3> DEFINE m == [i \in 0..Len(feed) + 1 |-> IF i = Len(feed) + 1 THEN eSlack' ELSE h[i]]
    <3>1. /\ m \in [0..Len(feed') -> Contents] /\ m[Len(feed) + 1] = eSlack' /\ m[0] = h[0]
          /\ \A i \in 0..Len(feed) : m[i] = h[i]
      BY <1>1, <1>2
    <3> HIDE DEF m
    <3>2. QED BY <3>1
  <2>4. ASSUME NEW i \in 1..Len(feed')
        PROVE  CanHappen(feed'[i], k[i-1]) /\ k[i] = Effect(feed'[i], k[i-1])
    <3>1. CASE i \in 1..Len(feed)
      <4>1. k[i] = h[i] /\ k[i-1] = h[i-1] /\ feed'[i] = feed[i]
        BY <1>1, <1>2, <2>3, <3>1, SMTT(20)
      <4>2. QED BY <2>2, <3>1, <4>1 DEF History
    <3>2. CASE i = Len(feed) + 1
      <4>1. k[i-1] = eSlack /\ k[i] = eSlack' /\ feed'[i] = e
        BY <1>1, <1>2, <2>2, <2>3, <3>2 DEF History
      <4>2. QED BY <1>6, <4>1
    <3>3. QED BY <1>3, <3>1, <3>2
  <2>5. History(k)'
    BY <1>2, <2>3, <2>4 DEF History
  <2>6. EmojiInHand(h[0])'
    BY <2>2 DEF EmojiInHand, EmojiSettled, FoundIt
  <2>7. EmojiInHand(k[0])'
    BY <2>3, <2>6
  <2>8. Keys'
    BY <2>1 DEF Keys
  <2>9. QED BY <2>3, <2>5, <2>7, <2>8 DEF EmojiFollows
<1>7. QED BY <1>4, <1>5, <1>6 DEF EmojiInv

LEMMA OnSlackStep ==
  ASSUME EmojiBounds, EmojiInv, NEW n \in EmojiNames, NEW to \in EmojiNames, NEW u \in BOOLEAN,
         E!Adds(n, u) \/ E!Removes(n, u) \/ E!Renames(n, to, u)
  PROVE  EmojiInv'
<1>1. /\ eSlack \in Contents /\ eSlack[n] \in 0..MaxEmojiEvents /\ count \in 0..MaxEmojiEvents
      /\ MaxEmojiEvents \in Nat /\ 0 \in 0..MaxEmojiEvents
      /\ eFaults \in 0..MaxFaults /\ MaxFaults \in Nat
  BY DEF EmojiInv, EmojiShape, Contents, EmojiBounds
<1>2. CASE E!Adds(n, u)
  <2> DEFINE e == [kind |-> "add", name |-> n, to |-> n, image |-> count + 1, usable |-> u]
  <2>1. /\ eSlack[n] = E!NoImage /\ eSlack' = [eSlack EXCEPT ![n] = count + 1] /\ count < MaxEmojiEvents
        /\ count' = count + 1 /\ feed' = Append(feed, e)
        /\ UNCHANGED <<backend, eStep, job, found, table, eFaults, lost>>
    BY <1>2 DEF E!Adds, E!Happens
  <2>2. count + 1 \in 0..MaxEmojiEvents /\ count + 1 # E!NoImage
    BY <1>1, <2>1 DEF E!NoImage
  <2>3. e \in E!Event /\ e.kind = "add" /\ e.name = n /\ e.image = count + 1
    BY <2>2 DEF E!Event
  <2>4. eSlack' \in Contents
    BY <1>1, <2>1, <2>2 DEF Contents
  <2> HIDE DEF e
  <2>5. ImageGiven(e) /\ CanHappen(e, eSlack) /\ eSlack' = Effect(e, eSlack)
    BY <2>1, <2>2, <2>3 DEF ImageGiven, CanHappen, Effect
  <2>6. QED BY <1>1, <2>1, <2>2, <2>3, <2>4, <2>5, EmojiHappensStep
<1>3. CASE E!Removes(n, u)
  <2> DEFINE e == [kind |-> "remove", name |-> n, to |-> n, image |-> E!NoImage, usable |-> u]
  <2>1. /\ eSlack[n] # E!NoImage /\ eSlack' = [eSlack EXCEPT ![n] = E!NoImage] /\ count < MaxEmojiEvents
        /\ count' = count + 1 /\ feed' = Append(feed, e)
        /\ UNCHANGED <<backend, eStep, job, found, table, lost>>
        /\ IF u THEN eFaults' = eFaults ELSE eFaults < MaxFaults /\ eFaults' = eFaults + 1
    BY <1>3 DEF E!Removes, E!Happens, E!SaysTooLittle
  <2>2. count' \in 0..MaxEmojiEvents /\ E!NoImage \in 0..MaxEmojiEvents
    BY <1>1, <2>1 DEF E!NoImage
  <2>3. e \in E!Event /\ e.kind = "remove" /\ e.name = n /\ e.usable = u
    BY <2>2 DEF E!Event
  <2>4. eSlack' \in Contents
    BY <1>1, <2>1, <2>2 DEF Contents
  <2> HIDE DEF e
  <2>5. ImageGiven(e) /\ (u => CanHappen(e, eSlack)) /\ eSlack' = Effect(e, eSlack)
    BY <2>1, <2>2, <2>3 DEF ImageGiven, CanHappen, Effect
  <2>6. eFaults' \in 0..MaxFaults /\ (eFaults' = 0 => u /\ eFaults = 0)
    BY <1>1, <2>1
  <2>7. QED BY <2>1, <2>2, <2>3, <2>4, <2>5, <2>6, EmojiHappensStep
<1>4. CASE E!Renames(n, to, u)
  <2> DEFINE e == [kind |-> "rename", name |-> n, to |-> to, image |-> E!NoImage, usable |-> u]
  <2>1. /\ eSlack[n] # E!NoImage /\ eSlack[to] = E!NoImage
        /\ eSlack' = [eSlack EXCEPT ![n] = E!NoImage, ![to] = eSlack[n]] /\ count < MaxEmojiEvents
        /\ count' = count + 1 /\ feed' = Append(feed, e)
        /\ UNCHANGED <<backend, eStep, job, found, table, lost>>
        /\ IF u THEN eFaults' = eFaults ELSE eFaults < MaxFaults /\ eFaults' = eFaults + 1
    BY <1>4 DEF E!Renames, E!Happens, E!SaysTooLittle
  <2>2. count' \in 0..MaxEmojiEvents /\ E!NoImage \in 0..MaxEmojiEvents
    BY <1>1, <2>1 DEF E!NoImage
  <2>3. e \in E!Event /\ e.kind = "rename" /\ e.name = n /\ e.to = to /\ e.usable = u
    BY <2>2 DEF E!Event
  <2>4. eSlack' \in Contents
    BY <1>1, <2>1, <2>2 DEF Contents
  <2> HIDE DEF e
  <2>5. ImageGiven(e) /\ (u => CanHappen(e, eSlack)) /\ eSlack' = Effect(e, eSlack)
    BY <2>1, <2>2, <2>3 DEF ImageGiven, CanHappen, Effect
  <2>6. eFaults' \in 0..MaxFaults /\ (eFaults' = 0 => u /\ eFaults = 0)
    BY <1>1, <2>1
  <2>7. QED BY <2>1, <2>2, <2>3, <2>4, <2>5, <2>6, EmojiHappensStep
<1>5. QED BY <1>2, <1>3, <1>4

\* What Slack says of an add is not stored: the name has no row.
LEMMA NotStored ==
  ASSUME EmojiBounds, EmojiShape, Keys, NEW g \in Contents, EmojiSettled(g), NEW e \in E!Event, e.kind = "add",
         ImageGiven(e), CanHappen(e, g), table' = table, lost' = lost \cup {e.name}, NEW f, f = Effect(e, g)
  PROVE  EmojiSettled(f)' /\ Keys'
<1>1. /\ e.name \in EmojiNames /\ g[e.name] = E!NoImage /\ e.image # E!NoImage
      /\ f[e.name] = e.image /\ \A m \in EmojiNames \ {e.name} : f[m] = g[m]
      /\ lost \subseteq EmojiNames
  BY DEF E!Event, CanHappen, Effect, ImageGiven, Contents, EmojiShape
<1>2. \A r \in table : r.name \in EmojiNames /\ r.name # e.name
  <2>1. \A r \in table : r.name \in EmojiNames /\ r.mxc # E!NoImage
    BY DEF EmojiShape, E!Row, E!Images, E!NoImage, EmojiBounds
  <2>2. QED BY <1>1, <2>1 DEF EmojiSettled
<1>3. EmojiSettled(f)'
  BY <1>1, <1>2 DEF EmojiSettled
<1>4. QED BY <1>3 DEF Keys

LEMMA EmojiTakeStep ==
  ASSUME EmojiBounds, EmojiInv, E!Take
  PROVE  EmojiInv'
<1> DEFINE e == feed[1]
<1>1. /\ eStep = "idle" /\ feed # <<>> /\ feed' = Tail(feed)
      /\ \/ /\ e.usable /\ job' = e /\ lost' = lost
            /\ eStep' = CASE e.kind = "add"    -> "download"
                          [] e.kind = "remove" -> "lookup"
                          [] e.kind = "rename" -> "write"
         \/ /\ ~e.usable /\ job' = job /\ eStep' = eStep
            /\ lost' = IF e.kind = "add" THEN lost \cup {e.name} ELSE lost
      /\ UNCHANGED <<backend, eSlack, count, found, table, eFaults>>
  <2>1. feed # <<>> /\ feed \in Seq(E!Event)
    BY DEF E!Take, EmojiInv, EmojiShape
  <2>2. Head(feed) = e
    BY <2>1
  <2>3. QED BY <2>2 DEF E!Take
<1>2. feed \in Seq(E!Event) /\ Len(feed) \in Nat /\ Len(feed) >= 1 /\ 1 \in 1..Len(feed)
  BY <1>1 DEF EmojiInv, EmojiShape
<1>3. e \in E!Event /\ ImageGiven(e)
  BY <1>2 DEF EmojiInv, EmojiShape
<1>4. e.kind \in {"add", "remove", "rename"} /\ e.name \in EmojiNames
  BY <1>3 DEF E!Event
<1> HIDE DEF e
<1>5. /\ feed' \in Seq(E!Event) /\ Len(feed') = Len(feed) - 1
      /\ \A i \in 1..Len(feed') : i+1 \in 1..Len(feed) /\ feed'[i] = feed[i+1]
  BY <1>1, <1>2
<1>6. /\ eStep' \in E!Steps /\ eStep' # "delete" /\ JobAt'
      /\ eStep' # "idle" <=> e.usable
  <2>1. CASE e.usable
    BY <1>1, <1>4, <2>1 DEF JobAt, E!Steps
  <2>2. CASE ~e.usable
    BY <1>1, <2>2 DEF EmojiInv, JobAt, E!Steps
  <2>3. QED BY <2>1, <2>2
<1>7. EmojiShape'
  <2>1. \A i \in 1..Len(feed') : ImageGiven(feed'[i])
    BY <1>5 DEF EmojiInv, EmojiShape
  <2>2. eStep' # "idle" => job' \in E!Event /\ ImageGiven(job')
    BY <1>1, <1>3, <1>6
  <2>3. lost' \subseteq EmojiNames
    BY <1>1, <1>4 DEF EmojiInv, EmojiShape
  <2>4. QED BY <1>1, <1>5, <1>6, <2>1, <2>2, <2>3 DEF EmojiInv, EmojiShape, ImageGiven
<1>8. ASSUME eFaults' = 0 PROVE Keys' /\ EmojiFollows'
  <2>1. Keys /\ EmojiFollows
    BY <1>1, <1>8 DEF EmojiInv
  <2>2. PICK h \in [0..Len(feed) -> Contents] : History(h) /\ EmojiInHand(h[0])
    BY <2>1 DEF EmojiFollows
  <2>3. PICK k \in [0..Len(feed') -> Contents] : \A i \in 0..Len(feed') : k[i] = h[i+1]
    <3> DEFINE m == [i \in 0..Len(feed') |-> h[i+1]]
    <3>1. m \in [0..Len(feed') -> Contents] /\ \A i \in 0..Len(feed') : m[i] = h[i+1]
      BY <1>2, <1>5
    <3> HIDE DEF m
    <3>2. QED BY <3>1
  <2>4. k[Len(feed')] = eSlack' /\ k[0] = h[1]
    <3>1. /\ Len(feed') \in 0..Len(feed') /\ Len(feed') + 1 = Len(feed)
          /\ 0 \in 0..Len(feed') /\ 0 + 1 = 1
      BY <1>2, <1>5
    <3>2. h[Len(feed)] = eSlack
      BY <2>2 DEF History
    <3>3. QED BY <1>1, <2>3, <3>1, <3>2
  <2>5. ASSUME NEW i \in 1..Len(feed')
        PROVE  CanHappen(feed'[i], k[i-1]) /\ k[i] = Effect(feed'[i], k[i-1])
    <3>1. k[i] = h[i+1] /\ k[i-1] = h[(i+1)-1] /\ feed'[i] = feed[i+1] /\ i+1 \in 1..Len(feed)
      BY <1>2, <1>5, <2>3
    <3>2. QED BY <2>2, <3>1 DEF History
  <2>6. History(k)'
    BY <2>4, <2>5 DEF History
  <2>7. h[0] \in Contents /\ CanHappen(e, h[0]) /\ h[1] = Effect(e, h[0])
    <3>1. 1 - 1 = 0 /\ 0 \in 0..Len(feed)
      BY <1>2
    <3>2. QED BY <1>2, <2>2, <3>1 DEF History, e
  <2>8. EmojiSettled(h[0])
    BY <1>1, <2>2 DEF EmojiInHand
  <2>9. CASE e.usable
    <3>1. EmojiSettled(h[0])'
      BY <1>1, <2>8, <2>9 DEF EmojiSettled
    <3>2. EmojiInHand(k[0])'
      BY <1>1, <1>6, <2>4, <2>7, <2>9, <3>1 DEF EmojiInHand
    <3>3. Keys'
      BY <1>1, <2>1 DEF Keys
    <3>4. QED BY <2>3, <2>6, <3>2, <3>3 DEF EmojiFollows
  <2>10. CASE ~e.usable
    <3>1. e.kind = "add"
      BY <2>7, <2>10 DEF CanHappen
    <3>2. EmojiShape /\ table' = table /\ lost' = lost \cup {e.name}
      BY <1>1, <2>10, <3>1 DEF EmojiInv
    <3>3. EmojiSettled(k[0])' /\ Keys'
      BY <1>3, <2>1, <2>4, <2>7, <2>8, <3>1, <3>2, NotStored
    <3>4. EmojiInHand(k[0])'
      BY <1>6, <2>10, <3>3 DEF EmojiInHand
    <3>5. QED BY <2>3, <2>6, <3>3, <3>4 DEF EmojiFollows
  <2>11. QED BY <2>9, <2>10
<1>9. QED BY <1>6, <1>7, <1>8 DEF EmojiInv

\* What the back ends make of a new emoji: its row, no row, or the row of another.
LEMMA UpsertDone ==
  ASSUME EmojiBounds, EmojiInv, Keys, NEW g \in Contents, EmojiSettled(g), job \in E!Event, job.kind = "add",
         job.image \in E!Images, CanHappen(job, g), E!UpsertEmojiMapping(job.name, job.image),
         UNCHANGED backend, NEW f, f = Effect(job, g)
  PROVE  EmojiSettled(f)' /\ Keys'
<1> DEFINE n == job.name
           new == [id |-> n, name |-> n, mxc |-> job.image]
<1>1. /\ n \in EmojiNames /\ g[n] = E!NoImage /\ job.image # E!NoImage /\ table \subseteq E!Row /\ lost \subseteq EmojiNames
      /\ f[n] = job.image /\ \A m \in EmojiNames \ {n} : f[m] = g[m]
      /\ new.id = n /\ new.name = n /\ new.mxc = job.image
  BY DEF E!Event, CanHappen, Effect, E!Images, E!NoImage, Contents, EmojiInv, EmojiShape,
     EmojiBounds
<1> HIDE DEF n, new
<1>2. /\ \A r \in table : r.name \in EmojiNames /\ r.id \in EmojiNames /\ r.mxc # E!NoImage
      /\ \A r \in table : r.name # n
      /\ n \notin lost
  <2>1. \A r \in table : r.name \in EmojiNames /\ r.id \in EmojiNames /\ r.mxc # E!NoImage
    BY <1>1 DEF E!Row, E!Images, E!NoImage, EmojiBounds
  <2>2. QED BY <1>1, <2>1 DEF EmojiSettled
<1>3. \/ \* a row of its own
         /\ table' = table \cup {new} /\ (\A r \in table : r.id # n) /\ lost' \in {lost, lost \ {n}}
      \/ \* refused
         /\ table' = table /\ lost' = lost \cup {n}
      \/ \* the row of a renamed emoji is taken
         /\ table' = (table \ E!WithId(n)) \cup {new}
         /\ lost' = (lost \ {n}) \cup {r.name : r \in {w \in E!WithId(n) : w.name # n}}
  <2>1. E!WithName(n) = {}
    BY <1>2 DEF E!WithName
  <2>2. CASE backend = "sqlite"
    <3>1. E!UpsertSqlite(n, job.image)
      BY <2>2 DEF E!UpsertEmojiMapping, n
    <3>2. QED BY <2>1, <3>1 DEF E!UpsertSqlite, E!Insert, E!WithId, new
  <2>3. CASE backend = "postgres"
    <3>1. E!UpsertPostgres(n, job.image)
      BY <2>3 DEF E!UpsertEmojiMapping, n
    <3>2. QED BY <3>1 DEF E!UpsertPostgres, new
  <2>4. CASE backend = "mysql"
    <3>1. E!UpsertMysql(n, job.image)
      BY <2>4 DEF E!UpsertEmojiMapping, n
    <3>2. QED BY <3>1 DEF E!UpsertMysql, E!UpsertPostgres, new
  <2>5. QED BY <2>2, <2>3, <2>4 DEF EmojiInv, EmojiShape, E!BackEnds
<1>4. CASE table' = table \cup {new} /\ (\A r \in table : r.id # n) /\ lost' \in {lost, lost \ {n}}
  <2>1. lost' = lost
    BY <1>2, <1>4
  <2>2. Keys'
    BY <1>1, <1>2, <1>4 DEF Keys
  <2>3. EmojiSettled(f)'
    BY <1>1, <1>2, <1>4, <2>1 DEF EmojiSettled
  <2>4. QED BY <2>2, <2>3
<1>5. CASE table' = table /\ lost' = lost \cup {n}
  <2>1. Keys'
    BY <1>5 DEF Keys
  <2>2. EmojiSettled(f)'
    BY <1>1, <1>2, <1>5 DEF EmojiSettled
  <2>3. QED BY <2>1, <2>2
<1>6. CASE /\ table' = (table \ E!WithId(n)) \cup {new}
           /\ lost' = (lost \ {n}) \cup {r.name : r \in {w \in E!WithId(n) : w.name # n}}
  <2>1. /\ \A r : r \in table' <=> r = new \/ (r \in table /\ r.id # n)
        /\ \A m : m \in lost' <=> m \in lost \/ (\E r \in table : r.id = n /\ m = r.name)
    BY <1>2, <1>6 DEF E!WithId
  <2>2. Keys'
    BY <1>1, <1>2, <2>1 DEF Keys
  <2>3. \A r \in table' : r.mxc = f[r.name] /\ r.name \notin lost'
    <3>1. \A r \in table : r.id # n => \A s \in table : s.id = n => s.name # r.name
      BY DEF Keys
    <3>2. \A r \in table : r.mxc = f[r.name] /\ r.name \notin lost
      BY <1>1, <1>2 DEF EmojiSettled
    <3>3. new.name \notin lost'
      BY <1>1, <1>2, <2>1
    <3>4. QED BY <1>1, <2>1, <3>1, <3>2, <3>3
  <2>4. ASSUME NEW m \in EmojiNames, f[m] # E!NoImage PROVE m \in lost' \/ \E r \in table' : r.name = m
    <3>1. CASE m = n
      BY <1>1, <2>1, <3>1
    <3>2. CASE m # n
      <4>1. m \in lost \/ \E r \in table : r.name = m
        BY <1>1, <2>4, <3>2 DEF EmojiSettled
      <4>2. QED BY <2>1, <4>1
    <3>3. QED BY <3>1, <3>2
  <2>5. \A m \in lost' : f[m] # E!NoImage
    <3>1. \A r \in table : g[r.name] # E!NoImage
      BY <1>2 DEF EmojiSettled
    <3>2. QED BY <1>1, <1>2, <2>1, <3>1 DEF EmojiSettled
  <2>6. QED BY <2>2, <2>3, <2>4, <2>5 DEF EmojiSettled
<1>7. QED BY <1>3, <1>4, <1>5, <1>6

LEMMA RenameDone ==
  ASSUME EmojiBounds, EmojiInv, Keys, NEW g \in Contents, EmojiSettled(g), job \in E!Event, job.kind = "rename",
         CanHappen(job, g), E!RenameEmoji(job.name, job.to), NEW f, f = Effect(job, g)
  PROVE  EmojiSettled(f)' /\ Keys'
<1> DEFINE n == job.name
           to == job.to
<1>1. /\ n \in EmojiNames /\ to \in EmojiNames /\ n # to /\ g[n] # E!NoImage /\ g[to] = E!NoImage
      /\ table \subseteq E!Row /\ lost \subseteq EmojiNames
      /\ f[n] = E!NoImage /\ f[to] = g[n] /\ \A m \in EmojiNames \ {n, to} : f[m] = g[m]
  BY DEF E!Event, CanHappen, Effect, Contents, EmojiInv, EmojiShape
<1>2. /\ table' = (table \ E!WithName(n)) \cup {[r EXCEPT !.name = to] : r \in E!WithName(n)}
      /\ lost' = IF n \in lost THEN (lost \ {n}) \cup {to} ELSE lost
  BY DEF E!RenameEmoji
<1> HIDE DEF n, to
<1>3. /\ \A r \in table : r.name \in EmojiNames /\ r.mxc # E!NoImage /\ r.mxc = g[r.name] /\ r.name \notin lost
      /\ \A r \in table : r.name # to
      /\ to \notin lost
  <2>1. \A r \in table : r.name \in EmojiNames /\ r.mxc # E!NoImage
    BY <1>1 DEF E!Row, E!Images, E!NoImage, EmojiBounds
  <2>2. QED BY <1>1, <2>1 DEF EmojiSettled
<1>4. \A r \in table : /\ [r EXCEPT !.name = to].id = r.id /\ [r EXCEPT !.name = to].name = to
                       /\ [r EXCEPT !.name = to].mxc = r.mxc
  BY <1>1 DEF E!Row
<1>5. \A r : r \in table' <=> \/ r \in table /\ r.name # n
                              \/ \E s \in table : s.name = n /\ r = [s EXCEPT !.name = to]
  BY <1>2 DEF E!WithName
<1>6. Keys'
  <2> SUFFICES ASSUME NEW r \in table', NEW s \in table'
               PROVE  (r.id = s.id => r = s) /\ (r.name = s.name => r = s)
    BY DEF Keys
  <2>1. CASE r \in table /\ r.name # n /\ s \in table /\ s.name # n
    BY <2>1 DEF Keys
  <2>2. CASE /\ \E q \in table : q.name = n /\ r = [q EXCEPT !.name = to]
             /\ \E q \in table : q.name = n /\ s = [q EXCEPT !.name = to]
    <3>1. PICK q \in table : q.name = n /\ r = [q EXCEPT !.name = to]
      BY <2>2
    <3>2. PICK p \in table : p.name = n /\ s = [p EXCEPT !.name = to]
      BY <2>2
    <3>3. q = p
      BY <3>1, <3>2 DEF Keys
    <3>4. QED BY <3>1, <3>2, <3>3
  <2>3. CASE r \in table /\ r.name # n /\ \E q \in table : q.name = n /\ s = [q EXCEPT !.name = to]
    <3>1. PICK q \in table : q.name = n /\ s = [q EXCEPT !.name = to]
      BY <2>3
    <3>2. s.id = q.id /\ s.name = to /\ r.name # to
      BY <1>3, <1>4, <2>3, <3>1
    <3>3. r.id # q.id
      BY <2>3, <3>1 DEF Keys
    <3>4. QED BY <3>2, <3>3
  <2>4. CASE s \in table /\ s.name # n /\ \E q \in table : q.name = n /\ r = [q EXCEPT !.name = to]
    <3>1. PICK q \in table : q.name = n /\ r = [q EXCEPT !.name = to]
      BY <2>4
    <3>2. r.id = q.id /\ r.name = to /\ s.name # to
      BY <1>3, <1>4, <2>4, <3>1
    <3>3. s.id # q.id
      BY <2>4, <3>1 DEF Keys
    <3>4. QED BY <3>2, <3>3
  <2>5. QED BY <1>5, <2>1, <2>2, <2>3, <2>4
<1>7. ASSUME NEW r \in table' PROVE r.mxc = f[r.name] /\ r.name \notin lost'
  <2>1. CASE r \in table /\ r.name # n
    BY <1>1, <1>2, <1>3, <2>1
  <2>2. CASE \E s \in table : s.name = n /\ r = [s EXCEPT !.name = to]
    <3>1. PICK s \in table : s.name = n /\ r = [s EXCEPT !.name = to]
      BY <2>2
    <3>2. r.name = to /\ r.mxc = g[n] /\ n \notin lost
      BY <1>3, <1>4, <3>1
    <3>3. QED BY <1>1, <1>2, <1>3, <3>2
  <2>3. QED BY <1>5, <2>1, <2>2
<1>8. ASSUME NEW m \in EmojiNames, f[m] # E!NoImage PROVE m \in lost' \/ \E r \in table' : r.name = m
  <2>1. m # n
    BY <1>1, <1>8
  <2>2. CASE m = to
    <3>1. CASE n \in lost
      BY <1>2, <2>2, <3>1
    <3>2. CASE n \notin lost
      <4>1. PICK s \in table : s.name = n
        BY <1>1, <3>2 DEF EmojiSettled
      <4>2. [s EXCEPT !.name = to] \in table' /\ [s EXCEPT !.name = to].name = to
        BY <1>4, <1>5, <4>1
      <4>3. QED BY <2>2, <4>2
    <3>3. QED BY <3>1, <3>2
  <2>3. CASE m # to
    <3>1. m \in lost \/ \E r \in table : r.name = m
      BY <1>1, <1>8, <2>1, <2>3 DEF EmojiSettled
    <3>2. QED BY <1>2, <1>5, <2>1, <3>1
  <2>4. QED BY <2>2, <2>3
<1>9. \A m \in lost' : f[m] # E!NoImage
  BY <1>1, <1>2, <1>3 DEF EmojiSettled
<1>10. QED BY <1>6, <1>7, <1>8, <1>9 DEF EmojiSettled

LEMMA NothingDone ==
  ASSUME EmojiBounds, EmojiInv, Keys, NEW g \in Contents, EmojiSettled(g), job \in E!Event, job.kind = "remove",
         CanHappen(job, g), E!WithName(job.name) = {}, lost' = lost \ {job.name}, table' = table,
         NEW f, f = Effect(job, g)
  PROVE  EmojiSettled(f)' /\ Keys'
<1>1. /\ job.name \in EmojiNames /\ f[job.name] = E!NoImage /\ \A m \in EmojiNames \ {job.name} : f[m] = g[m]
      /\ lost \subseteq EmojiNames /\ \A r \in table : r.name \in EmojiNames /\ r.name # job.name
  BY DEF E!Event, Effect, Contents, EmojiInv, EmojiShape, E!Row, E!WithName
<1>2. EmojiSettled(f)'
  BY <1>1 DEF EmojiSettled
<1>3. Keys'
  BY DEF Keys
<1>4. QED BY <1>2, <1>3

LEMMA DeleteDone ==
  ASSUME EmojiBounds, EmojiInv, Keys, NEW g \in Contents, EmojiSettled(g), job \in E!Event, job.kind = "remove",
         CanHappen(job, g), FoundIt, E!DeleteEmoji({r.id : r \in found}), lost' = lost,
         NEW f, f = Effect(job, g)
  PROVE  EmojiSettled(f)' /\ Keys'
<1>1. PICK s \in table : found = {s} /\ s.name = job.name
  BY DEF FoundIt
<1>2. table' = {r \in table : r.id # s.id}
  BY <1>1 DEF E!DeleteEmoji
<1>3. \A r : r \in table' <=> r \in table /\ r.name # job.name
  BY <1>1, <1>2 DEF Keys
<1>4. /\ job.name \in EmojiNames /\ f[job.name] = E!NoImage /\ \A m \in EmojiNames \ {job.name} : f[m] = g[m]
      /\ lost \subseteq EmojiNames /\ \A r \in table : r.name \in EmojiNames
  BY DEF E!Event, Effect, Contents, EmojiInv, EmojiShape, E!Row
<1>5. job.name \notin lost
  BY <1>1 DEF EmojiSettled
<1>6. EmojiSettled(f)'
  BY <1>3, <1>4, <1>5 DEF EmojiSettled
<1>7. Keys'
  BY <1>3 DEF Keys
<1>8. QED BY <1>6, <1>7

\* The handler is done with the event in hand: what remains is the feed.
LEMMA FinishStep ==
  ASSUME EmojiBounds, EmojiInv, eStep # "idle", E!Finish,
         table' \subseteq E!Row, lost' \subseteq EmojiNames, eFaults' = eFaults,
         UNCHANGED <<backend, eSlack, count, feed>>,
         \A g \in Contents : Keys /\ EmojiSettled(g) /\ CanHappen(job, g) /\ (eStep = "delete" => FoundIt)
                                => \A f : f = Effect(job, g) => EmojiSettled(f)' /\ Keys'
  PROVE  EmojiInv'
<1>1. eStep' = "idle" /\ found' = {}
  BY DEF E!Finish
<1>2. EmojiShape'
  BY <1>1 DEF EmojiInv, EmojiShape, E!Steps
<1>3. JobAt'
  BY <1>1 DEF JobAt
<1>4. ASSUME eFaults' = 0 PROVE Keys' /\ EmojiFollows'
  <2>1. Keys /\ EmojiFollows
    BY <1>4 DEF EmojiInv
  <2>2. PICK h \in [0..Len(feed) -> Contents] : History(h) /\ EmojiInHand(h[0])
    BY <2>1 DEF EmojiFollows
  <2>3. PICK g \in Contents : /\ EmojiSettled(g) /\ CanHappen(job, g) /\ h[0] = Effect(job, g)
                              /\ eStep = "delete" => FoundIt
    BY <2>2 DEF EmojiInHand
  <2>4. EmojiSettled(h[0])' /\ Keys'
    BY <2>1, <2>3
  <2>5. EmojiInHand(h[0])'
    BY <1>1, <2>4 DEF EmojiInHand
  <2>6. History(h)'
    BY <2>2 DEF History
  <2>7. QED BY <2>2, <2>4, <2>5, <2>6 DEF EmojiFollows
<1>5. QED BY <1>2, <1>3, <1>4 DEF EmojiInv

LEMMA AwaitStep ==
  ASSUME EmojiBounds, EmojiInv, E!Downloaded \/ E!Uploaded
  PROVE  EmojiInv'
<1>1. /\ eStep \in {"download", "upload"} /\ eStep' \in {"upload", "write"}
      /\ UNCHANGED <<backend, eSlack, count, feed, job, found, table, eFaults, lost>>
  BY DEF E!Downloaded, E!Uploaded
<1>2. job.kind = "add"
  BY <1>1 DEF EmojiInv, JobAt
<1>3. EmojiShape' /\ JobAt'
  BY <1>1, <1>2 DEF EmojiInv, EmojiShape, E!Steps, ImageGiven, JobAt
<1>4. Keys => Keys'
  BY <1>1 DEF Keys
<1>5. ASSUME EmojiFollows PROVE EmojiFollows'
  <2>1. PICK h \in [0..Len(feed) -> Contents] : History(h) /\ EmojiInHand(h[0])
    BY <1>5 DEF EmojiFollows
  <2>2. EmojiInHand(h[0])'
    BY <1>1, <2>1 DEF EmojiInHand, EmojiSettled
  <2>3. History(h)'
    BY <1>1, <2>1 DEF History
  <2>4. QED BY <1>1, <2>1, <2>2, <2>3 DEF EmojiFollows
<1>6. QED BY <1>1, <1>3, <1>4, <1>5 DEF EmojiInv

LEMMA WriteStep ==
  ASSUME EmojiBounds, EmojiInv, E!Write
  PROVE  EmojiInv'
<1>1. /\ eStep = "write" /\ E!Finish /\ UNCHANGED <<backend, eSlack, count, feed, eFaults>>
      /\ IF job.kind = "add" THEN E!UpsertEmojiMapping(job.name, job.image)
                             ELSE E!RenameEmoji(job.name, job.to)
  BY DEF E!Write
<1>2. /\ job \in E!Event /\ job.name \in EmojiNames /\ job.to \in EmojiNames /\ job.kind \in {"add", "rename"}
      /\ table \subseteq E!Row /\ lost \subseteq EmojiNames /\ (job.kind = "add" => job.image \in E!Images)
  BY <1>1 DEF EmojiInv, EmojiShape, JobAt, E!Event, ImageGiven, E!Images, E!NoImage, EmojiBounds
<1>3. CASE job.kind = "add"
  <2>1. E!UpsertEmojiMapping(job.name, job.image)
    BY <1>1, <1>3
  <2>2. table' \subseteq E!Row /\ lost' \subseteq EmojiNames
    <3>1. [id |-> job.name, name |-> job.name, mxc |-> job.image] \in E!Row
      BY <1>2, <1>3 DEF E!Row
    <3>2. \A r \in table : r.name \in EmojiNames /\ [r EXCEPT !.mxc = job.image] \in E!Row
      BY <1>2, <1>3 DEF E!Row
    <3>3. CASE backend = "sqlite"
      <4>1. E!UpsertSqlite(job.name, job.image)
        BY <2>1, <3>3 DEF E!UpsertEmojiMapping
      <4>2. QED BY <1>2, <3>1, <3>2, <4>1 DEF E!UpsertSqlite, E!Insert, E!WithName
    <3>4. CASE backend = "postgres"
      <4>1. E!UpsertPostgres(job.name, job.image)
        BY <2>1, <3>4 DEF E!UpsertEmojiMapping
      <4>2. QED BY <1>2, <3>1, <3>2, <4>1 DEF E!UpsertPostgres, E!WithId
    <3>5. CASE backend = "mysql"
      <4>1. E!UpsertMysql(job.name, job.image)
        BY <2>1, <3>5 DEF E!UpsertEmojiMapping
      <4>2. CASE E!Fits(job.name)
        <5>1. E!UpsertPostgres(job.name, job.image)
          BY <4>1, <4>2 DEF E!UpsertMysql
        <5>2. QED BY <1>2, <3>1, <3>2, <5>1 DEF E!UpsertPostgres, E!WithId
      <4>3. CASE ~E!Fits(job.name)
        BY <1>2, <4>1, <4>3 DEF E!UpsertMysql
      <4>4. QED BY <4>2, <4>3
    <3>6. QED BY <3>3, <3>4, <3>5 DEF EmojiInv, EmojiShape, E!BackEnds
  <2>3. ASSUME NEW g \in Contents, Keys, EmojiSettled(g), CanHappen(job, g), NEW f, f = Effect(job, g)
        PROVE  EmojiSettled(f)' /\ Keys'
    BY <1>1, <1>2, <1>3, <2>1, <2>3, UpsertDone
  <2>4. QED BY <1>1, <2>2, <2>3, FinishStep
<1>4. CASE job.kind = "rename"
  <2>1. E!RenameEmoji(job.name, job.to)
    BY <1>1, <1>4
  <2>2. table' \subseteq E!Row /\ lost' \subseteq EmojiNames
    <3>1. \A r \in table : [r EXCEPT !.name = job.to] \in E!Row
      BY <1>2 DEF E!Row
    <3>2. QED BY <1>2, <2>1, <3>1 DEF E!RenameEmoji, E!WithName
  <2>3. ASSUME NEW g \in Contents, Keys, EmojiSettled(g), CanHappen(job, g), NEW f, f = Effect(job, g)
        PROVE  EmojiSettled(f)' /\ Keys'
    BY <1>2, <1>4, <2>1, <2>3, RenameDone
  <2>4. QED BY <1>1, <2>2, <2>3, FinishStep
<1>5. QED BY <1>2, <1>3, <1>4

LEMMA LookedUpStep ==
  ASSUME EmojiBounds, EmojiInv, E!LookedUp
  PROVE  EmojiInv'
<1>1. eStep = "lookup" /\ UNCHANGED <<backend, eSlack, count, feed, table, eFaults>>
  BY DEF E!LookedUp
<1>2. job \in E!Event /\ job.kind = "remove" /\ table \subseteq E!Row /\ lost \subseteq EmojiNames
  BY <1>1 DEF EmojiInv, EmojiShape, JobAt
<1>3. CASE E!WithName(job.name) = {}
  <2>1. E!Finish /\ lost' = lost \ {job.name}
    BY <1>3 DEF E!LookedUp
  <2>2. ASSUME NEW g \in Contents, Keys, EmojiSettled(g), CanHappen(job, g), NEW f, f = Effect(job, g)
        PROVE  EmojiSettled(f)' /\ Keys'
    BY <1>1, <1>2, <1>3, <2>1, <2>2, NothingDone
  <2>3. QED BY <1>1, <1>2, <2>1, <2>2, FinishStep
<1>4. CASE E!WithName(job.name) # {}
  <2>1. PICK r \in E!WithName(job.name) : found' = {r}
    BY <1>4 DEF E!LookedUp
  <2>2. r \in table /\ r.name = job.name /\ eStep' = "delete" /\ job' = job /\ lost' = lost
    BY <1>4 DEF E!LookedUp, E!WithName
  <2>3. EmojiShape' /\ JobAt'
    BY <1>1, <1>2, <2>1, <2>2 DEF EmojiInv, EmojiShape, E!Steps, ImageGiven, JobAt
  <2>4. FoundIt'
    BY <1>1, <2>1, <2>2 DEF FoundIt
  <2>5. Keys => Keys'
    BY <1>1 DEF Keys
  <2>6. ASSUME EmojiFollows PROVE EmojiFollows'
    <3>1. PICK h \in [0..Len(feed) -> Contents] : History(h) /\ EmojiInHand(h[0])
      BY <2>6 DEF EmojiFollows
    <3>2. EmojiInHand(h[0])'
      BY <1>1, <2>2, <2>4, <3>1 DEF EmojiInHand, EmojiSettled
    <3>3. History(h)'
      BY <1>1, <3>1 DEF History
    <3>4. QED BY <1>1, <3>1, <3>2, <3>3 DEF EmojiFollows
  <2>7. QED BY <1>1, <2>3, <2>5, <2>6 DEF EmojiInv
<1>5. QED BY <1>3, <1>4

LEMMA DeletedStep ==
  ASSUME EmojiBounds, EmojiInv, E!Deleted
  PROVE  EmojiInv'
<1>1. /\ eStep = "delete" /\ E!DeleteEmoji({r.id : r \in found}) /\ E!Finish
      /\ UNCHANGED <<backend, eSlack, count, feed, eFaults, lost>>
  BY DEF E!Deleted
<1>2. /\ job \in E!Event /\ job.kind = "remove" /\ table \subseteq E!Row /\ lost \subseteq EmojiNames
      /\ table' \subseteq table
  BY <1>1 DEF EmojiInv, EmojiShape, JobAt, E!DeleteEmoji
<1>3. ASSUME NEW g \in Contents, Keys, EmojiSettled(g), CanHappen(job, g), FoundIt, NEW f, f = Effect(job, g)
      PROVE  EmojiSettled(f)' /\ Keys'
  BY <1>1, <1>2, <1>3, DeleteDone
<1>4. table' \subseteq E!Row /\ lost' \subseteq EmojiNames
  BY <1>1, <1>2
<1>5. QED BY <1>1, <1>3, <1>4, FinishStep

LEMMA FailsStep ==
  ASSUME EmojiBounds, EmojiInv, E!Fails
  PROVE  EmojiInv'
<1>1. /\ eFaults' = eFaults + 1 /\ eFaults' \in 0..MaxFaults /\ eFaults' # 0 /\ eStep' = "idle" /\ found' = {}
      /\ UNCHANGED <<backend, eSlack, count, feed, table, lost>>
  BY DEF E!Fails, E!Finish, EmojiInv, EmojiShape, EmojiBounds
<1>2. EmojiShape' /\ JobAt'
  BY <1>1 DEF EmojiInv, EmojiShape, E!Steps, JobAt
<1>3. QED BY <1>1, <1>2 DEF EmojiInv

LEMMA EmojiStutterStep ==
  ASSUME EmojiInv, UNCHANGED E!vars
  PROVE  EmojiInv'
<1>1. UNCHANGED <<backend, eSlack, count, feed, eStep, job, found, table, eFaults, lost>>
  BY DEF E!vars
<1>2. EmojiShape' /\ JobAt' /\ (Keys => Keys')
  BY <1>1 DEF EmojiInv, EmojiShape, ImageGiven, JobAt, Keys
<1>3. ASSUME EmojiFollows PROVE EmojiFollows'
  <2>1. PICK h \in [0..Len(feed) -> Contents] : History(h) /\ EmojiInHand(h[0])
    BY <1>3 DEF EmojiFollows
  <2>2. EmojiInHand(h[0])'
    BY <1>1, <2>1 DEF EmojiInHand, EmojiSettled, FoundIt
  <2>3. History(h)'
    BY <1>1, <2>1 DEF History
  <2>4. QED BY <1>1, <2>1, <2>2, <2>3 DEF EmojiFollows
<1>4. QED BY <1>1, <1>2, <1>3 DEF EmojiInv
-----------------------------------------------------------------------------
LEMMA EmojiInvariance ==
  ASSUME EmojiBounds
  PROVE  E!Spec => []EmojiInv
<1>1. E!Init => EmojiInv
  BY EmojiInitial
<1>2. EmojiInv /\ [E!Next]_(E!vars) => EmojiInv'
  <2> SUFFICES ASSUME EmojiInv, [E!Next]_(E!vars) PROVE EmojiInv'
    OBVIOUS
  <2>1. CASE UNCHANGED E!vars
    BY <2>1, EmojiStutterStep
  <2>2. CASE \E n \in EmojiNames, u \in BOOLEAN :
                \/ E!Adds(n, u) \/ E!Removes(n, u) \/ \E to \in EmojiNames : E!Renames(n, to, u)
    BY <2>2, OnSlackStep
  <2>3. CASE E!Take
    BY <2>3, EmojiTakeStep
  <2>4. CASE E!Downloaded \/ E!Uploaded
    BY <2>4, AwaitStep
  <2>5. CASE E!Write
    BY <2>5, WriteStep
  <2>6. CASE E!LookedUp
    BY <2>6, LookedUpStep
  <2>7. CASE E!Deleted
    BY <2>7, DeletedStep
  <2>8. CASE E!Fails
    BY <2>8, FailsStep
  <2>9. QED BY <2>1, <2>2, <2>3, <2>4, <2>5, <2>6, <2>7, <2>8 DEF E!Next
<1>3. QED BY <1>1, <1>2, PTL DEF E!Spec

\* Feed, job and table keep their types on each back end (handle_emoji_change).
LEMMA EmojiTypes ==
  ASSUME EmojiBounds
  PROVE  E!Spec => []E!TypeOK
<1>1. EmojiInv => E!TypeOK
  BY DEF EmojiInv, EmojiShape, E!TypeOK, Contents
<1>2. QED BY <1>1, EmojiInvariance, PTL

\* With nothing in hand the table is the workspace, but for names lost to a clash.
LEMMA EmojiFollowing ==
  ASSUME EmojiBounds
  PROVE  E!Spec => []E!EmojiFollowsSlack
<1>1. EmojiInv => E!EmojiFollowsSlack
  <2> SUFFICES ASSUME EmojiInv, eStep = "idle", feed = <<>>, eFaults = 0, NEW n \in EmojiNames
               PROVE  {r.mxc : r \in E!WithName(n)} =
                        IF eSlack[n] = E!NoImage \/ n \in lost THEN {} ELSE {eSlack[n]}
    BY DEF E!EmojiFollowsSlack
  <2>1. PICK h \in [0..Len(feed) -> Contents] : History(h) /\ EmojiInHand(h[0])
    BY DEF EmojiInv, EmojiFollows
  <2>2. EmojiSettled(eSlack)
    BY <2>1 DEF History, EmojiInHand
  <2>3. \A r \in table : r.mxc # E!NoImage
    BY DEF EmojiInv, EmojiShape, E!Row, E!Images, E!NoImage, EmojiBounds
  <2>4. CASE eSlack[n] = E!NoImage \/ n \in lost
    <3>1. E!WithName(n) = {}
      BY <2>2, <2>3, <2>4 DEF E!WithName, EmojiSettled
    <3>2. QED BY <2>4, <3>1
  <2>5. CASE eSlack[n] # E!NoImage /\ n \notin lost
    <3>1. PICK r \in table : r.name = n /\ r.mxc = eSlack[n]
      BY <2>2, <2>5 DEF EmojiSettled
    <3>2. E!WithName(n) = {r}
      BY <3>1 DEF E!WithName, EmojiInv, Keys
    <3>3. QED BY <2>5, <3>1, <3>2
  <2>6. QED BY <2>4, <2>5
<1>2. QED BY <1>1, EmojiInvariance, PTL

\* A behaviour of the services is one of EmojiStore.
LEMMA EmojiAlone == Spec => E!Spec
<1>1. Init => E!Init
  BY DEF Init
<1>2. [Next]_vars => [E!Next]_(E!vars)
  BY DEF Next, vars, pVars, qVars, eVars, rVars, uVars, bVars, mVars, gVars, sVars, E!vars
<1>3. QED BY <1>1, <1>2, PTL DEF Spec, E!Spec

\* On each back end, for any names and any number of adds, removes and renames: with every
\* event handled, no await failed and every remove and rename reported in full, the table
\* has the emoji of the workspace, but for aliases and adds without a value, which are not
\* stored, and names lost to a clash of keys (emoji.rs: handle_emoji_change).
THEOREM EmojiFollow == Spec => []EmojiFollowsSlack
<1>1. EmojiBounds
  BY BoundsAreNat DEF EmojiBounds
<1>2. E!Spec => []E!EmojiFollowsSlack
  BY <1>1, EmojiFollowing
<1>3. E!EmojiFollowsSlack => EmojiFollowsSlack
  BY DEF EmojiFollowsSlack, Of
<1>4. QED BY <1>2, <1>3, EmojiAlone, PTL
-----------------------------------------------------------------------------
(***************************************************************************)
(* Backends.  Each back end keeps its constraints (StoreKept), and on      *)
(* each, whatever the store, a call does one thing: what OneCopy does on   *)
(* that back end's table (RunIs).  On two tables with the same rows but    *)
(* for ids (Twins, Pair) it does alike (OneCopyLike), if the call is one   *)
(* that nothing excuses (NoExcuse), and the row a caller holds has the     *)
(* same twin before and after (SameId, Alike).                             *)
(***************************************************************************)

Texts == TextsA \cup TextsB
StoreBounds == MaxCalls \in Nat /\ S!Null \notin Texts

Tables == [rows : SUBSET S!Row, next : Nat]
Answers == [table : Tables, ok : BOOLEAN, rows : SUBSET S!Row]

\* The second key of rooms and users.
KeyB == store \in {"rooms", "users"}

\* What each back end keeps of its own table, whatever the calls.
StoreKept(e, t) ==
         /\ t \in Tables
         /\ \A r \in t.rows : r.id \in 1..t.next-1
         /\ \A r, s \in t.rows : (r.id = s.id \/ S!Same(e, r.a, s.a)) => r = s
         /\ KeyB => \A r, s \in t.rows : S!Same(e, r.b, s.b) => r = s

AllOps == {"by a", "by b", "by v", "by id", "all", "create", "update", "upsert", "rename",
           "delete", "delete a", "delete b"}

StoreCalls == [op : AllOps, id : Nat, a : Texts \cup {S!Null}, b : Texts \cup {S!Null}, v : TextsV \cup {S!Null}]
-----------------------------------------------------------------------------
LEMMA UniqueIs ==
  ASSUME store \in S!Stores, NEW e \in S!BackEnds
  PROVE  S!Unique(e) = IF KeyB THEN {"a", "b"} ELSE {"a"}
<1>1. CASE e = "sqlite"
  BY <1>1 DEF S!Unique, S!SqliteUnique, S!Stores, KeyB
<1>2. CASE e = "postgres"
  BY <1>2 DEF S!Unique, S!PostgresUnique, S!Stores, KeyB
<1>3. CASE e = "mysql"
  BY <1>3 DEF S!Unique, S!MysqlUnique, S!Stores, KeyB
<1>4. QED BY <1>1, <1>2, <1>3 DEF S!BackEnds

LEMMA ClashIs ==
  ASSUME store \in S!Stores, NEW e \in S!BackEnds, NEW r, NEW rs
  PROVE  S!Clashes(e, r, rs) <=>
            \E s \in rs : S!Same(e, r.a, s.a) \/ (KeyB /\ S!Same(e, r.b, s.b))
<1>1. CASE KeyB
  <2>1. S!Unique(e) = {"a", "b"}
    BY <1>1, UniqueIs
  <2>2. QED BY <1>1, <2>1 DEF S!Clashes
<1>2. CASE ~KeyB
  <2>1. S!Unique(e) = {"a"}
    BY <1>2, UniqueIs
  <2>2. QED BY <1>2, <2>1 DEF S!Clashes
<1>3. QED BY <1>1, <1>2

\* Equality of the back ends: reflexive, and for two of them the identity.
LEMMA SameText ==
  ASSUME NEW e \in S!BackEnds, NEW x, NEW y
  PROVE  /\ S!Same(e, x, x) /\ (x = y => S!Same(e, x, y)) /\ (S!Same(e, x, y) <=> S!Same(e, y, x))
         /\ S!Same(e, x, y) => (Folded[x] = Folded[y])
         /\ S!Same("sqlite", x, y) <=> x = y
  BY DEF S!Same, S!BackEnds

\* The row an UPDATE makes of a row.
New(r, c, cols) == [col \in DOMAIN r |-> IF col \in cols /\ c[col] # S!Null THEN c[col] ELSE r[col]]

LEMMA NewRow ==
  ASSUME NEW r \in S!Row, NEW c \in StoreCalls, NEW cols \in SUBSET {"a", "b", "v"}
  PROVE  /\ New(r, c, cols) \in S!Row /\ New(r, c, cols).id = r.id
         /\ New(r, c, cols).a = IF "a" \in cols /\ c.a # S!Null THEN c.a ELSE r.a
         /\ New(r, c, cols).b = IF "b" \in cols /\ c.b # S!Null THEN c.b ELSE r.b
         /\ New(r, c, cols).v = IF "v" \in cols /\ c.v # S!Null THEN c.v ELSE r.v
<1>1. DOMAIN r = {"id", "a", "b", "v"}
  BY DEF S!Row
<1> DEFINE n == New(r, c, cols)
<1>2. n = [col \in {"id", "a", "b", "v"} |-> IF col \in cols /\ c[col] # S!Null THEN c[col] ELSE r[col]]
  BY <1>1 DEF New
<1>3. /\ n.id = r.id
      /\ n.a = IF "a" \in cols /\ c.a # S!Null THEN c.a ELSE r.a
      /\ n.b = IF "b" \in cols /\ c.b # S!Null THEN c.b ELSE r.b
      /\ n.v = IF "v" \in cols /\ c.v # S!Null THEN c.v ELSE r.v
  BY <1>2
<1>4. n = [id |-> n.id, a |-> n.a, b |-> n.b, v |-> n.v]
  BY <1>2
<1>5. n.id \in 0..MaxCalls /\ n.a \in Texts /\ n.b \in Texts /\ n.v \in TextsV \cup {S!Null}
  BY <1>3 DEF S!Row, StoreCalls, Texts
<1>6. n \in S!Row
  BY <1>4, <1>5 DEF S!Row, Texts
<1>7. QED BY <1>3, <1>6
-----------------------------------------------------------------------------
(* What each statement keeps. *)

LEMMA SelectKeeps ==
  ASSUME NEW e \in S!BackEnds, NEW t, StoreKept(e, t), NEW rs \in SUBSET t.rows
  PROVE  S!Select(t, rs) \in Answers /\ StoreKept(e, S!Select(t, rs).table)
         /\ S!Select(t, rs).table = t /\ S!Select(t, rs).rows = rs
BY DEF S!Select, Answers, Tables, StoreKept

LEMMA DeleteKeeps ==
  ASSUME NEW e \in S!BackEnds, NEW t, StoreKept(e, t), NEW rs \in SUBSET t.rows
  PROVE  S!Delete(t, rs) \in Answers /\ StoreKept(e, S!Delete(t, rs).table)
         /\ S!Delete(t, rs).table.next = t.next /\ S!Delete(t, rs).table.rows = t.rows \ rs
<1> DEFINE u == [t EXCEPT !.rows = @ \ rs]
<1>1. u \in Tables /\ u.rows = t.rows \ rs /\ u.next = t.next
  BY DEF StoreKept, Tables
<1>2. S!Delete(t, rs) = [table |-> u, ok |-> TRUE, rows |-> {}]
  BY DEF S!Delete
<1> HIDE DEF u
<1>3. S!Delete(t, rs) \in Answers
  BY <1>1, <1>2 DEF Answers
<1>4. StoreKept(e, u)
  BY <1>1 DEF StoreKept
<1>5. QED BY <1>1, <1>2, <1>3, <1>4

LEMMA InsertKeeps ==
  ASSUME StoreBounds, store \in S!Stores, NEW e \in S!BackEnds, NEW t, StoreKept(e, t), t.next \in 1..MaxCalls,
         NEW c \in StoreCalls, c.a \in Texts, c.b \in Texts
  PROVE  /\ S!Insert(e, t, c) \in Answers /\ StoreKept(e, S!Insert(e, t, c).table)
         /\ S!Insert(e, t, c).table.next \in {t.next, t.next + 1}
<1> DEFINE r == [id |-> t.next, a |-> c.a, b |-> c.b, v |-> c.v]
           after == [t EXCEPT !.next = @ + 1]
           more == [after EXCEPT !.rows = @ \cup {r}]
<1>1. r \in S!Row /\ r.id = t.next /\ r.a = c.a /\ r.b = c.b
  BY DEF S!Row, StoreCalls, Texts, StoreBounds
<1>2. after \in Tables /\ after.next = t.next + 1 /\ after.rows = t.rows
  BY DEF StoreKept, Tables
<1>3. S!Insert(e, t, c) = IF S!TooLong(e, r) \/ S!Clashes(e, r, t.rows)
                          THEN S!Error(IF e = "sqlite" THEN t ELSE after)
                          ELSE [table |-> more, ok |-> TRUE, rows |-> {}]
  BY DEF S!Insert
<1> HIDE DEF r, after
<1>4. more \in Tables /\ more.next = t.next + 1 /\ more.rows = t.rows \cup {r}
  BY <1>1, <1>2 DEF Tables
<1> HIDE DEF more
<1>5. t \in Tables /\ t.next \in Nat
  BY DEF StoreKept, Tables
<1>6. StoreKept(e, after)
  BY <1>2, <1>5 DEF StoreKept
<1>7. CASE S!TooLong(e, r) \/ S!Clashes(e, r, t.rows)
  <2>1. PICK u \in {t, after} : S!Insert(e, t, c) = [table |-> u, ok |-> FALSE, rows |-> {}]
    BY <1>3, <1>7 DEF S!Error
  <2>2. u \in Tables /\ u.next \in {t.next, t.next + 1} /\ StoreKept(e, u)
    BY <1>2, <1>5, <1>6
  <2>3. S!Insert(e, t, c) \in Answers
    BY <2>1, <2>2 DEF Answers
  <2>4. QED BY <2>1, <2>2, <2>3
<1>8. CASE ~(S!TooLong(e, r) \/ S!Clashes(e, r, t.rows))
  <2>1. S!Insert(e, t, c) = [table |-> more, ok |-> TRUE, rows |-> {}]
    BY <1>3, <1>8
  <2>2. \A s \in t.rows : ~S!Same(e, r.a, s.a) /\ ~(KeyB /\ S!Same(e, r.b, s.b))
    BY <1>8, ClashIs
  <2>3. \A s \in t.rows : ~S!Same(e, s.a, r.a) /\ ~(KeyB /\ S!Same(e, s.b, r.b))
    BY <2>2, SameText
  <2>4. \A s \in t.rows : s.id # r.id
    BY <1>1, <1>5 DEF StoreKept
  <2>5. StoreKept(e, more)
    BY <1>1, <1>4, <1>5, <2>2, <2>3, <2>4 DEF StoreKept
  <2>6. S!Insert(e, t, c) \in Answers
    BY <1>4, <2>1 DEF Answers
  <2>7. QED BY <1>4, <2>1, <2>5, <2>6
<1>9. QED BY <1>7, <1>8

LEMMA UpdateKeeps ==
  ASSUME store \in S!Stores, NEW e \in S!BackEnds, NEW t, StoreKept(e, t), NEW rs \in SUBSET t.rows,
         NEW c \in StoreCalls, NEW cols \in SUBSET {"a", "b", "v"},
         (\A r, s \in rs : r = s) \/ ("a" \notin cols /\ ~(KeyB /\ "b" \in cols))
  PROVE  /\ S!Update(e, t, rs, c, cols) \in Answers /\ StoreKept(e, S!Update(e, t, rs, c, cols).table)
         /\ S!Update(e, t, rs, c, cols).table.next = t.next
<1> DEFINE rest == t.rows \ rs
           new == {New(r, c, cols) : r \in rs}
           after == [t EXCEPT !.rows = rest \cup new]
           no == \E r \in rs : S!TooLong(e, New(r, c, cols)) \/ S!Clashes(e, New(r, c, cols), rest)
<1>1. S!Update(e, t, rs, c, cols) =
         IF no THEN S!Error(t) ELSE [table |-> after, ok |-> TRUE, rows |-> {}]
  BY DEF S!Update, New
<1>2. t \in Tables /\ \A r \in t.rows : r \in S!Row
  BY DEF StoreKept, Tables
<1>3. CASE no
  BY <1>1, <1>2, <1>3 DEF S!Error, Answers
<1>4. CASE ~no
  <2>1. \A r \in rs : /\ New(r, c, cols) \in S!Row /\ New(r, c, cols).id = r.id
                      /\ "a" \notin cols => New(r, c, cols).a = r.a
                      /\ "b" \notin cols => New(r, c, cols).b = r.b
    BY <1>2, NewRow
  <2>2. \A r \in rs : \A s \in rest : /\ ~S!Same(e, New(r, c, cols).a, s.a) /\ ~S!Same(e, s.a, New(r, c, cols).a)
                                      /\ KeyB => ~S!Same(e, New(r, c, cols).b, s.b)
                                      /\ KeyB => ~S!Same(e, s.b, New(r, c, cols).b)
    <3> SUFFICES ASSUME NEW r \in rs, NEW s \in rest
                 PROVE  /\ ~S!Same(e, New(r, c, cols).a, s.a) /\ ~S!Same(e, s.a, New(r, c, cols).a)
                        /\ KeyB => ~S!Same(e, New(r, c, cols).b, s.b)
                        /\ KeyB => ~S!Same(e, s.b, New(r, c, cols).b)
      OBVIOUS
    <3>1. ~S!Clashes(e, New(r, c, cols), rest)
      BY <1>4
    <3> HIDE DEF rest
    <3>2. ~S!Same(e, New(r, c, cols).a, s.a) /\ (KeyB => ~S!Same(e, New(r, c, cols).b, s.b))
      BY <3>1, ClashIs
    <3>3. QED BY <3>2, SameText
  <2>3. after \in Tables /\ after.rows = rest \cup new /\ after.next = t.next
    BY <1>2, <2>1 DEF Tables
  <2>4. S!Update(e, t, rs, c, cols) = [table |-> after, ok |-> TRUE, rows |-> {}]
    BY <1>1, <1>4
  <2> HIDE DEF after
  <2>5. \A q \in after.rows : (q \in t.rows /\ q \notin rs) \/ (\E r \in rs : q = New(r, c, cols))
    BY <2>3
  <2>6. \A r \in after.rows : r.id \in 1..after.next-1
    BY <2>1, <2>3, <2>5 DEF StoreKept
  <2>7. ASSUME NEW p \in after.rows, NEW q \in after.rows
        PROVE  /\ (p.id = q.id \/ S!Same(e, p.a, q.a)) => p = q
               /\ KeyB => (S!Same(e, p.b, q.b) => p = q)
    <3>1. CASE p \in rest /\ q \in rest
      BY <3>1 DEF StoreKept
    <3>2. CASE (\E r \in rs : p = New(r, c, cols)) /\ q \in rest
      BY <2>1, <2>2, <3>2 DEF StoreKept
    <3>3. CASE p \in rest /\ (\E r \in rs : q = New(r, c, cols))
      BY <2>1, <2>2, <3>3 DEF StoreKept
    <3>4. CASE (\E r \in rs : p = New(r, c, cols)) /\ (\E r \in rs : q = New(r, c, cols))
      <4>1. PICK r \in rs, s \in rs : p = New(r, c, cols) /\ q = New(s, c, cols)
        BY <3>4
      <4>2. CASE \A x, y \in rs : x = y
        BY <4>1, <4>2
      <4>3. CASE "a" \notin cols /\ ~(KeyB /\ "b" \in cols)
        <5>1. p.id = r.id /\ q.id = s.id /\ p.a = r.a /\ q.a = s.a /\ (KeyB => p.b = r.b /\ q.b = s.b)
          BY <2>1, <4>1, <4>3
        <5>2. /\ (r.id = s.id \/ S!Same(e, r.a, s.a)) => r = s
              /\ KeyB => (S!Same(e, r.b, s.b) => r = s)
          BY DEF StoreKept
        <5>3. QED BY <4>1, <5>1, <5>2
      <4>4. QED BY <4>2, <4>3
    <3>5. QED BY <2>5, <3>1, <3>2, <3>3, <3>4
  <2>8. StoreKept(e, after)
    BY <2>3, <2>6, <2>7 DEF StoreKept
  <2>9. QED BY <2>3, <2>4, <2>8 DEF Answers
<1>5. QED BY <1>3, <1>4
-----------------------------------------------------------------------------
(* The three copies of each store are one, but for the upsert of an emoji. *)

Reads == {"by a", "by b", "by v", "by id", "all"}
Deletes == {"delete", "delete a", "delete b"}

\* The operations there are, with the one of user_sync.
Ops == S!KeyOps \cup S!IdOps \cup (IF store = "users" THEN {"update"} ELSE {})

\* The rows an operation is about on back end e.
About(e, t, c) ==
    CASE c.op \in {"by a", "delete a"} -> S!Where(e, t, "a", c.a)
      [] c.op \in {"by b", "delete b"} -> S!Where(e, t, "b", c.b)
      [] c.op = "by v" -> S!Where(e, t, "v", c.v)
      [] c.op \in {"by id", "delete"} -> S!WithId(t, c.id)
      [] c.op = "all" -> t.rows
      [] c.op = "rename" -> S!Where(e, t, "b", c.a)
      [] c.op = "update" -> IF store = "emoji" THEN S!Where(e, t, "a", c.a) ELSE S!WithId(t, c.id)
      [] c.op = "upsert" -> IF store = "messages" THEN S!Where(e, t, "a", c.a)
                            ELSE IF e = "sqlite" THEN S!Where(e, t, "b", c.b) ELSE S!Where(e, t, "a", c.b)
      [] c.op = "create" -> {}

\* The columns it updates.
Changed(e, c) ==
    CASE c.op = "rename" -> {"b"}
      [] c.op = "upsert" -> IF store = "emoji" /\ e = "sqlite" THEN {"v"} ELSE {"b", "v"}
      [] OTHER -> IF store = "rooms" THEN {"a", "b", "v"}
                  ELSE IF store = "users" THEN {"v"} ELSE {"b", "v"}

Inserted(c) == IF store = "emoji" /\ c.op = "upsert" THEN [c EXCEPT !.a = c.b] ELSE c

OneCopy(e, t, c) ==
    LET rs == About(e, t, c) IN
    IF c.op \in Reads THEN S!Select(t, rs)
    ELSE IF c.op \in Deletes THEN S!Delete(t, rs)
    ELSE IF c.op \in {"update", "rename"} \/ (c.op = "upsert" /\ rs # {})
         THEN S!Update(e, t, rs, c, Changed(e, c))
    ELSE S!Insert(e, t, Inserted(c))

LEMMA OpsOf ==
  ASSUME store \in S!Stores
  PROVE  /\ store = "rooms" => Ops = {"by a", "by b", "all", "create", "by id", "update", "delete"}
         /\ store = "users" => Ops = {"by a", "by b", "all", "create", "update", "delete"}
         /\ store = "messages" => Ops = {"by a", "by b", "upsert", "delete a", "delete b"}
         /\ store = "emoji" => Ops = {"by a", "by b", "by v", "create", "update", "upsert",
                                      "rename", "delete a"}
<1>1. CASE store = "rooms"
  BY <1>1 DEF Ops, S!KeyOps, S!IdOps
<1>2. CASE store = "users"
  BY <1>2 DEF Ops, S!KeyOps, S!IdOps
<1>3. CASE store = "messages"
  BY <1>3 DEF Ops, S!KeyOps, S!IdOps
<1>4. CASE store = "emoji"
  BY <1>4 DEF Ops, S!KeyOps, S!IdOps
<1>5. QED BY <1>1, <1>2, <1>3, <1>4 DEF S!Stores

LEMMA RunIs ==
  ASSUME store \in S!Stores, NEW e \in S!BackEnds, NEW c, c.op \in Ops
  PROVE  S!Run(e, c) = OneCopy(e, tables[e], c)
<1>1. CASE store = "rooms"
  <2>1. c.op \in {"by a", "by b", "all", "create", "by id", "update", "delete"}
    BY <1>1, OpsOf
  <2>2. CASE e = "sqlite"
    <3>1. S!Run(e, c) = S!SqliteRooms(tables[e], c)
      BY <1>1, <2>2 DEF S!Run, S!Sqlite
    <3>2. QED BY <1>1, <2>1, <2>2, <3>1
      DEF S!SqliteRooms, OneCopy, About, Changed, Inserted, Reads, Deletes
  <2>3. CASE e = "postgres"
    <3>1. S!Run(e, c) = S!PostgresRooms(tables[e], c)
      BY <1>1, <2>3 DEF S!Run, S!Postgres
    <3>2. QED BY <1>1, <2>1, <2>3, <3>1
      DEF S!PostgresRooms, OneCopy, About, Changed, Inserted, Reads, Deletes
  <2>4. CASE e = "mysql"
    <3>1. S!Run(e, c) = S!MysqlRooms(tables[e], c)
      BY <1>1, <2>4 DEF S!Run, S!Mysql
    <3>2. QED BY <1>1, <2>1, <2>4, <3>1
      DEF S!MysqlRooms, OneCopy, About, Changed, Inserted, Reads, Deletes
  <2>5. QED BY <2>2, <2>3, <2>4 DEF S!BackEnds
<1>2. CASE store = "users"
  <2>1. c.op \in {"by a", "by b", "all", "create", "update", "delete"}
    BY <1>2, OpsOf
  <2>2. CASE e = "sqlite"
    <3>1. S!Run(e, c) = S!SqliteUsers(tables[e], c)
      BY <1>2, <2>2 DEF S!Run, S!Sqlite
    <3>2. QED BY <1>2, <2>1, <2>2, <3>1
      DEF S!SqliteUsers, OneCopy, About, Changed, Inserted, Reads, Deletes
  <2>3. CASE e = "postgres"
    <3>1. S!Run(e, c) = S!PostgresUsers(tables[e], c)
      BY <1>2, <2>3 DEF S!Run, S!Postgres
    <3>2. QED BY <1>2, <2>1, <2>3, <3>1
      DEF S!PostgresUsers, OneCopy, About, Changed, Inserted, Reads, Deletes
  <2>4. CASE e = "mysql"
    <3>1. S!Run(e, c) = S!MysqlUsers(tables[e], c)
      BY <1>2, <2>4 DEF S!Run, S!Mysql
    <3>2. QED BY <1>2, <2>1, <2>4, <3>1
      DEF S!MysqlUsers, OneCopy, About, Changed, Inserted, Reads, Deletes
  <2>5. QED BY <2>2, <2>3, <2>4 DEF S!BackEnds
<1>3. CASE store = "messages"
  <2>1. c.op \in {"by a", "by b", "upsert", "delete a", "delete b"}
    BY <1>3, OpsOf
  <2>2. CASE e = "sqlite"
    <3>1. S!Run(e, c) = S!SqliteMessages(tables[e], c)
      BY <1>3, <2>2 DEF S!Run, S!Sqlite
    <3>2. QED BY <1>3, <2>1, <2>2, <3>1
      DEF S!SqliteMessages, OneCopy, About, Changed, Inserted, Reads, Deletes
  <2>3. CASE e = "postgres"
    <3>1. S!Run(e, c) = S!PostgresMessages(tables[e], c)
      BY <1>3, <2>3 DEF S!Run, S!Postgres
    <3>2. QED BY <1>3, <2>1, <2>3, <3>1
      DEF S!PostgresMessages, OneCopy, About, Changed, Inserted, Reads, Deletes
  <2>4. CASE e = "mysql"
    <3>1. S!Run(e, c) = S!MysqlMessages(tables[e], c)
      BY <1>3, <2>4 DEF S!Run, S!Mysql
    <3>2. QED BY <1>3, <2>1, <2>4, <3>1
      DEF S!MysqlMessages, OneCopy, About, Changed, Inserted, Reads, Deletes
  <2>5. QED BY <2>2, <2>3, <2>4 DEF S!BackEnds
<1>4. CASE store = "emoji"
  <2>1. c.op \in {"by a", "by b", "by v", "create", "update", "upsert", "rename", "delete a"}
    BY <1>4, OpsOf
  <2>2. CASE e = "sqlite"
    <3>1. S!Run(e, c) = S!SqliteEmoji(tables[e], c)
      BY <1>4, <2>2 DEF S!Run, S!Sqlite
    <3>2. QED BY <1>4, <2>1, <2>2, <3>1
      DEF S!SqliteEmoji, OneCopy, About, Changed, Inserted, Reads, Deletes
  <2>3. CASE e = "postgres"
    <3>1. S!Run(e, c) = S!PostgresEmoji(tables[e], c)
      BY <1>4, <2>3 DEF S!Run, S!Postgres
    <3>2. QED BY <1>4, <2>1, <2>3, <3>1
      DEF S!PostgresEmoji, OneCopy, About, Changed, Inserted, Reads, Deletes
  <2>4. CASE e = "mysql"
    <3>1. S!Run(e, c) = S!MysqlEmoji(tables[e], c)
      BY <1>4, <2>4 DEF S!Run, S!Mysql
    <3>2. QED BY <1>4, <2>1, <2>4, <3>1
      DEF S!MysqlEmoji, OneCopy, About, Changed, Inserted, Reads, Deletes
  <2>5. QED BY <2>2, <2>3, <2>4 DEF S!BackEnds
<1>5. QED BY <1>1, <1>2, <1>3, <1>4 DEF S!Stores
-----------------------------------------------------------------------------
(* SQLite's table T and that of another back end, t, have the same rows but for ids. *)

Twin(r, s) == r.a = s.a /\ r.b = s.b /\ r.v = s.v
Twins(X, Y) == (\A r \in X : \E s \in Y : Twin(r, s)) /\ (\A s \in Y : \E r \in X : Twin(r, s))

\* i and j are the ids of rows that are twins, or of none.
SameId(T, t, i, j) == \A p \in T.rows, q \in t.rows : Twin(p, q) => (p.id = i <=> q.id = j)

Pair(e, T, t) == StoreKept("sqlite", T) /\ StoreKept(e, t) /\ Twins(T.rows, t.rows)

Like(T, t, x, y) ==
    /\ x.ok = y.ok /\ Twins(x.table.rows, y.table.rows) /\ Twins(x.rows, y.rows)
    /\ \A i \in 1..T.next-1, j \in 1..t.next-1 : SameId(T, t, i, j) => SameId(x.table, y.table, i, j)

NoLong(T) == \A r \in T.rows : {r.a, r.b, r.v} \cap Long = {}

\* MySQL takes x for no other key or name of the table.
StoreDistinct(x, T) == \A s \in T.rows : \A y \in {s.a, s.b} : Folded[x] = Folded[y] => x = y

LEMMA TwinRows ==
  ASSUME NEW e \in S!BackEnds, NEW T, NEW t, Pair(e, T, t)
  PROVE  /\ \A r \in T.rows, u \in T.rows : r.a = u.a => r = u
         /\ \A s \in t.rows, w \in t.rows : s.a = w.a => s = w
         /\ \A r \in T.rows, u \in T.rows, s \in t.rows : Twin(r, s) /\ Twin(u, s) => r = u
         /\ \A s \in t.rows, w \in t.rows, r \in T.rows : Twin(r, s) /\ Twin(r, w) => s = w
<1>1. "sqlite" \in S!BackEnds
  BY DEF S!BackEnds
<1>2. \A r \in T.rows, u \in T.rows : r.a = u.a => r = u
  BY <1>1, SameText DEF Pair, StoreKept
<1>3. \A s \in t.rows, w \in t.rows : s.a = w.a => s = w
  BY SameText DEF Pair, StoreKept
<1>4. QED BY <1>2, <1>3 DEF Twin

\* Rows that are twins have twins elsewhere, too.
LEMMA TwinsRest ==
  ASSUME NEW e \in S!BackEnds, NEW T, NEW t, Pair(e, T, t),
         NEW X \in SUBSET T.rows, NEW Y \in SUBSET t.rows, Twins(X, Y)
  PROVE  /\ Twins(T.rows \ X, t.rows \ Y)
         /\ \A r \in T.rows, s \in t.rows : Twin(r, s) => (r \in X <=> s \in Y)
<1>1. \A r \in T.rows, s \in t.rows : Twin(r, s) => (r \in X <=> s \in Y)
  BY TwinRows DEF Twins
<1>2. QED BY <1>1 DEF Twins, Pair

LEMMA DistinctText ==
  ASSUME NEW e \in S!BackEnds, NEW T, NEW t, Pair(e, T, t), NEW x, StoreDistinct(x, T), NEW s \in t.rows
  PROVE  /\ S!Same(e, x, s.a) <=> x = s.a
         /\ S!Same(e, x, s.b) <=> x = s.b
         /\ S!Same(e, s.a, x) <=> x = s.a
         /\ S!Same(e, s.b, x) <=> x = s.b
<1>1. PICK r \in T.rows : Twin(r, s)
  BY DEF Pair, Twins
<1>2. (Folded[x] = Folded[s.a] => x = s.a) /\ (Folded[x] = Folded[s.b] => x = s.b)
  BY <1>1 DEF Twin, StoreDistinct
<1>3. QED BY <1>2, SameText

LEMMA WhereTwins ==
  ASSUME NEW e \in S!BackEnds, NEW T, NEW t, Pair(e, T, t), NEW x, NEW col \in {"a", "b", "v"},
         \A r \in T.rows : Folded[r[col]] = Folded[x] => r[col] = x
  PROVE  Twins(S!Where("sqlite", T, col, x), S!Where(e, t, col, x))
<1>1. \A r, s : Twin(r, s) => r["a"] = s["a"] /\ r["b"] = s["b"] /\ r["v"] = s["v"]
  BY DEF Twin
<1>2. \A r, s : Twin(r, s) => r[col] = s[col]
  BY <1>1
<1>3. \A s \in t.rows : \A r \in T.rows : Twin(r, s) => (S!Same(e, s[col], x) <=> S!Same("sqlite", r[col], x))
  BY <1>2, SameText
<1>4. QED BY <1>3 DEF S!Where, Pair, Twins

LEMMA WithIdTwins ==
  ASSUME NEW e \in S!BackEnds, NEW T, NEW t, Pair(e, T, t), NEW i, NEW j, SameId(T, t, i, j)
  PROVE  Twins(S!WithId(T, i), S!WithId(t, j))
BY DEF S!WithId, Pair, Twins, SameId

LEMMA SelectLike ==
  ASSUME NEW e \in S!BackEnds, NEW T, NEW t, Pair(e, T, t),
         NEW X \in SUBSET T.rows, NEW Y \in SUBSET t.rows, Twins(X, Y)
  PROVE  Like(T, t, S!Select(T, X), S!Select(t, Y))
BY DEF S!Select, Like, Pair

LEMMA DeleteLike ==
  ASSUME NEW e \in S!BackEnds, NEW T, NEW t, Pair(e, T, t),
         NEW X \in SUBSET T.rows, NEW Y \in SUBSET t.rows, Twins(X, Y)
  PROVE  Like(T, t, S!Delete(T, X), S!Delete(t, Y))
<1>1. /\ S!Delete(T, X).ok = TRUE /\ S!Delete(T, X).rows = {}
      /\ S!Delete(t, Y).ok = TRUE /\ S!Delete(t, Y).rows = {}
  BY DEF S!Delete
<1>2. S!Delete(T, X).table.rows = T.rows \ X /\ S!Delete(t, Y).table.rows = t.rows \ Y
  <2>1. "sqlite" \in S!BackEnds
    BY DEF S!BackEnds
  <2>2. QED BY <2>1, DeleteKeeps DEF Pair
<1>3. Twins(T.rows \ X, t.rows \ Y)
  BY TwinsRest
<1>4. Twins({}, {})
  BY DEF Twins
<1>5. QED BY <1>1, <1>2, <1>3, <1>4 DEF Like, SameId

LEMMA InsertLike ==
  ASSUME StoreBounds, store \in S!Stores, NEW e \in S!BackEnds, NEW T, NEW t, Pair(e, T, t),
         NEW c \in StoreCalls, NEW d \in StoreCalls, Twin(c, d), {c.a, c.b, c.v} \cap Long = {},
         StoreDistinct(c.a, T), StoreDistinct(c.b, T)
  PROVE  Like(T, t, S!Insert("sqlite", T, c), S!Insert(e, t, d))
<1> DEFINE r == [id |-> T.next, a |-> c.a, b |-> c.b, v |-> c.v]
           s == [id |-> t.next, a |-> d.a, b |-> d.b, v |-> d.v]
           After(u) == [u EXCEPT !.next = @ + 1]
           More(u, q) == [After(u) EXCEPT !.rows = @ \cup {q}]
<1>1. /\ r.id = T.next /\ r.a = c.a /\ r.b = c.b /\ r.v = c.v
      /\ s.id = t.next /\ s.a = c.a /\ s.b = c.b /\ s.v = c.v
  BY DEF Twin
<1>2. /\ S!Insert("sqlite", T, c) = IF S!TooLong("sqlite", r) \/ S!Clashes("sqlite", r, T.rows) THEN S!Error(T)
                                    ELSE [table |-> More(T, r), ok |-> TRUE, rows |-> {}]
      /\ S!Insert(e, t, d) = IF S!TooLong(e, s) \/ S!Clashes(e, s, t.rows)
                             THEN S!Error(IF e = "sqlite" THEN t ELSE After(t))
                             ELSE [table |-> More(t, s), ok |-> TRUE, rows |-> {}]
  BY DEF S!Insert
<1>3. T \in Tables /\ t \in Tables /\ "sqlite" \in S!BackEnds
  BY DEF Pair, StoreKept, S!BackEnds
<1>4. /\ After(t).rows = t.rows
      /\ More(T, r).rows = T.rows \cup {r} /\ More(t, s).rows = t.rows \cup {s}
  BY <1>3 DEF Tables
<1> HIDE DEF r, s, After, More
<1>5. ~S!TooLong("sqlite", r) /\ ~S!TooLong(e, s)
  BY <1>1 DEF S!TooLong
<1>6. S!Clashes("sqlite", r, T.rows) <=> \E u \in T.rows : c.a = u.a \/ (KeyB /\ c.b = u.b)
  BY <1>1, <1>3, ClashIs, SameText
<1>7. S!Clashes(e, s, t.rows) <=> \E w \in t.rows : c.a = w.a \/ (KeyB /\ c.b = w.b)
  BY <1>1, ClashIs, DistinctText
<1>8. S!Clashes("sqlite", r, T.rows) <=> S!Clashes(e, s, t.rows)
  BY <1>6, <1>7 DEF Pair, Twins, Twin
<1>9. CASE S!Clashes("sqlite", r, T.rows)
  <2>1. PICK u \in {t, After(t)} : S!Insert(e, t, d) = [table |-> u, ok |-> FALSE, rows |-> {}]
    BY <1>2, <1>8, <1>9 DEF S!Error
  <2>2. u.rows = t.rows
    BY <1>4
  <2>3. S!Insert("sqlite", T, c) = [table |-> T, ok |-> FALSE, rows |-> {}]
    BY <1>2, <1>9 DEF S!Error
  <2>4. /\ S!Insert("sqlite", T, c).ok = FALSE /\ S!Insert("sqlite", T, c).rows = {}
        /\ S!Insert("sqlite", T, c).table = T
        /\ S!Insert(e, t, d).ok = FALSE /\ S!Insert(e, t, d).rows = {} /\ S!Insert(e, t, d).table = u
    BY <2>1, <2>3
  <2>5. Twins({}, {}) /\ Twins(T.rows, u.rows)
    BY <2>2 DEF Twins, Pair
  <2>6. \A i, j : SameId(T, t, i, j) => SameId(T, u, i, j)
    BY <2>2 DEF SameId
  <2>7. QED BY <2>4, <2>5, <2>6, ZenonT(30) DEF Like
<1>10. CASE ~S!Clashes("sqlite", r, T.rows)
  <2>1. /\ S!Insert("sqlite", T, c) = [table |-> More(T, r), ok |-> TRUE, rows |-> {}]
        /\ S!Insert(e, t, d) = [table |-> More(t, s), ok |-> TRUE, rows |-> {}]
    BY <1>2, <1>5, <1>8, <1>10
  <2>2. Twins(T.rows \cup {r}, t.rows \cup {s})
    BY <1>1 DEF Twins, Twin, Pair
  <2>3. ASSUME NEW i \in 1..T.next-1, NEW j \in 1..t.next-1, SameId(T, t, i, j)
        PROVE  SameId(More(T, r), More(t, s), i, j)
    <3>1. r.id # i /\ s.id # j
      BY <1>1, <1>3 DEF Tables
    <3>2. \A p \in T.rows : ~Twin(p, s)
      BY <1>1, <1>6, <1>10 DEF Twin
    <3>3. \A q \in t.rows : ~Twin(r, q)
      BY <1>1, <1>7, <1>8, <1>10 DEF Twin
    <3>4. QED BY <1>4, <2>3, <3>1, <3>2, <3>3 DEF SameId
  <2>4. Twins({}, {})
    BY DEF Twins
  <2>5. /\ S!Insert("sqlite", T, c).ok = TRUE /\ S!Insert("sqlite", T, c).rows = {}
        /\ S!Insert("sqlite", T, c).table = More(T, r)
        /\ S!Insert(e, t, d).ok = TRUE /\ S!Insert(e, t, d).rows = {} /\ S!Insert(e, t, d).table = More(t, s)
    BY <2>1
  <2>6. QED BY <1>4, <2>2, <2>3, <2>4, <2>5 DEF Like
<1>11. QED BY <1>9, <1>10

\* Whether an UPDATE is refused: rows that are twins become twins, and clash alike.
LEMMA UpdateLike ==
  ASSUME StoreBounds, store \in S!Stores, NEW e \in S!BackEnds, NEW T, NEW t, Pair(e, T, t),
         NEW X \in SUBSET T.rows, NEW Y \in SUBSET t.rows, Twins(X, Y), NoLong(T),
         NEW c \in StoreCalls, NEW d \in StoreCalls, Twin(c, d), {c.a, c.b, c.v} \cap Long = {},
         c.a = S!Null \/ StoreDistinct(c.a, T), c.b = S!Null \/ StoreDistinct(c.b, T),
         NEW C \in SUBSET {"a", "b", "v"}, NEW D \in SUBSET {"a", "b", "v"},
         \A r \in X, s \in Y : Twin(r, s) => Twin(New(r, c, C), New(s, d, D)),
         (\A r, s \in X : r = s) \/ ("a" \notin C /\ ~(KeyB /\ "b" \in C)),
         (\A r, s \in Y : r = s) \/ ("a" \notin D /\ ~(KeyB /\ "b" \in D))
  PROVE  Like(T, t, S!Update("sqlite", T, X, c, C), S!Update(e, t, Y, d, D))
<1> DEFINE RestT == T.rows \ X
           RestQ == t.rows \ Y
           newT == {New(r, c, C) : r \in X}
           newQ == {New(s, d, D) : s \in Y}
           afterT == [T EXCEPT !.rows = RestT \cup newT]
           afterQ == [t EXCEPT !.rows = RestQ \cup newQ]
           refusedT == \E r \in X : S!TooLong("sqlite", New(r, c, C)) \/ S!Clashes("sqlite", New(r, c, C), RestT)
           refusedQ == \E s \in Y : S!TooLong(e, New(s, d, D)) \/ S!Clashes(e, New(s, d, D), RestQ)
<1>1. S!Update("sqlite", T, X, c, C) =
         IF refusedT THEN S!Error(T) ELSE [table |-> afterT, ok |-> TRUE, rows |-> {}]
  BY DEF S!Update, New
<1>2. S!Update(e, t, Y, d, D) =
         IF refusedQ THEN S!Error(t) ELSE [table |-> afterQ, ok |-> TRUE, rows |-> {}]
  BY DEF S!Update, New
<1>3. T \in Tables /\ t \in Tables /\ "sqlite" \in S!BackEnds
  BY DEF Pair, StoreKept, S!BackEnds
<1>4. /\ \A r \in T.rows : r \in S!Row
      /\ \A s \in t.rows : s \in S!Row
  BY <1>3 DEF Tables
<1>5. afterT.rows = RestT \cup newT /\ afterQ.rows = RestQ \cup newQ
  BY <1>3 DEF Tables
<1>6. /\ Twins(RestT, RestQ)
      /\ \A r \in T.rows, s \in t.rows : Twin(r, s) => (r \in X <=> s \in Y)
  BY TwinsRest
<1>7. ASSUME NEW s \in Y PROVE ~S!TooLong(e, New(s, d, D))
  <2>1. PICK r \in X : Twin(r, s)
    BY DEF Twins
  <2>2. {s.a, s.b, s.v} \cap Long = {} /\ {d.a, d.b, d.v} \cap Long = {}
    BY <2>1 DEF Twin, NoLong
  <2>3. /\ New(s, d, D).a \in {s.a, d.a} /\ New(s, d, D).b \in {s.b, d.b} /\ New(s, d, D).v \in {s.v, d.v}
    BY <1>4, NewRow
  <2>4. QED BY <2>2, <2>3 DEF S!TooLong
<1>8. \A r \in X : ~S!TooLong("sqlite", New(r, c, C))
  BY DEF S!TooLong
<1>9. ASSUME NEW r \in X, NEW s \in Y, Twin(r, s), NEW u \in RestT, NEW w \in RestQ, Twin(u, w)
      PROVE  /\ S!Same("sqlite", New(r, c, C).a, u.a) <=> S!Same(e, New(s, d, D).a, w.a)
             /\ KeyB => (S!Same("sqlite", New(r, c, C).b, u.b) <=> S!Same(e, New(s, d, D).b, w.b))
  <2>1. Twin(New(r, c, C), New(s, d, D))
    BY <1>9
  <2>2. /\ New(s, d, D).a = s.a \/ (New(s, d, D).a = d.a /\ d.a # S!Null)
        /\ New(s, d, D).b = s.b \/ (New(s, d, D).b = d.b /\ d.b # S!Null)
    BY <1>4, NewRow
  <2>3. ~S!Same(e, s.a, w.a) /\ (KeyB => ~S!Same(e, s.b, w.b))
    BY <1>9 DEF Pair, StoreKept
  <2>4. d.a # S!Null => (S!Same(e, d.a, w.a) <=> d.a = w.a)
    BY DistinctText DEF Twin
  <2>5. d.b # S!Null => (S!Same(e, d.b, w.b) <=> d.b = w.b)
    BY DistinctText DEF Twin
  <2>6. s.a # w.a /\ (KeyB => s.b # w.b)
    BY <2>3, SameText
  <2>7. /\ S!Same(e, New(s, d, D).a, w.a) <=> New(s, d, D).a = w.a
        /\ KeyB => (S!Same(e, New(s, d, D).b, w.b) <=> New(s, d, D).b = w.b)
    BY <2>2, <2>3, <2>4, <2>5, <2>6
  <2>8. QED BY <1>3, <1>9, <2>1, <2>7, SameText DEF Twin
<1>10. refusedT <=> refusedQ
  <2>1. \A r \in X, s \in Y : Twin(r, s) =>
            (S!Clashes("sqlite", New(r, c, C), RestT) <=> S!Clashes(e, New(s, d, D), RestQ))
    <3> SUFFICES ASSUME NEW r \in X, NEW s \in Y, Twin(r, s)
                 PROVE  S!Clashes("sqlite", New(r, c, C), RestT) <=> S!Clashes(e, New(s, d, D), RestQ)
      OBVIOUS
    <3> DEFINE x == New(r, c, C)
               y == New(s, d, D)
    <3>1. \A u \in RestT, w \in RestQ : Twin(u, w) =>
             /\ S!Same("sqlite", x.a, u.a) <=> S!Same(e, y.a, w.a)
             /\ KeyB => (S!Same("sqlite", x.b, u.b) <=> S!Same(e, y.b, w.b))
      BY <1>9
    <3> HIDE DEF x, y, RestT, RestQ
    <3>2. S!Clashes("sqlite", x, RestT) <=>
             \E u \in RestT : S!Same("sqlite", x.a, u.a) \/ (KeyB /\ S!Same("sqlite", x.b, u.b))
      BY <1>3, ClashIs
    <3>3. S!Clashes(e, y, RestQ) <=> \E w \in RestQ : S!Same(e, y.a, w.a) \/ (KeyB /\ S!Same(e, y.b, w.b))
      BY ClashIs
    <3>4. S!Clashes("sqlite", x, RestT) <=> S!Clashes(e, y, RestQ)
      BY <1>6, <3>1, <3>2, <3>3 DEF Twins
    <3>5. QED BY <3>4 DEF x, y
  <2>2. QED BY <1>7, <1>8, <2>1 DEF Twins
<1> HIDE DEF refusedT, refusedQ, RestT, RestQ, afterT, afterQ
<1>11. CASE refusedT
  <2>1. /\ S!Update("sqlite", T, X, c, C).ok = FALSE /\ S!Update("sqlite", T, X, c, C).rows = {}
        /\ S!Update("sqlite", T, X, c, C).table = T
        /\ S!Update(e, t, Y, d, D).ok = FALSE /\ S!Update(e, t, Y, d, D).rows = {}
        /\ S!Update(e, t, Y, d, D).table = t
    BY <1>1, <1>2, <1>10, <1>11 DEF S!Error
  <2>2. Twins({}, {}) /\ Twins(T.rows, t.rows)
    BY DEF Twins, Pair
  <2>3. QED BY <2>1, <2>2 DEF Like
<1>12. CASE ~refusedT
  <2>1. /\ S!Update("sqlite", T, X, c, C) = [table |-> afterT, ok |-> TRUE, rows |-> {}]
        /\ S!Update(e, t, Y, d, D) = [table |-> afterQ, ok |-> TRUE, rows |-> {}]
    BY <1>1, <1>2, <1>10, <1>12
  <2>2. Twins(afterT.rows, afterQ.rows)
    <3>1. Twins(newT, newQ)
      BY DEF Twins
    <3>2. QED BY <1>5, <1>6, <3>1 DEF Twins
  <2>3. StoreKept(e, afterQ)
    BY <2>1, UpdateKeeps DEF Pair
  <2>4. ASSUME NEW i \in 1..T.next-1, NEW j \in 1..t.next-1, SameId(T, t, i, j)
        PROVE  SameId(afterT, afterQ, i, j)
    <3> SUFFICES ASSUME NEW p \in afterT.rows, NEW q \in afterQ.rows, Twin(p, q)
                 PROVE  p.id = i <=> q.id = j
      BY DEF SameId
    <3>1. PICK r \in T.rows : (r \in X /\ p = New(r, c, C)) \/ (r \notin X /\ p = r)
      BY <1>5 DEF RestT
    <3>2. PICK s \in t.rows : Twin(r, s)
      BY DEF Pair, Twins
    <3>3. r.id = i <=> s.id = j
      BY <2>4, <3>2 DEF SameId
    <3>4. r \in X <=> s \in Y
      BY <1>6, <3>2
    <3>5. p.id = r.id
      BY <1>4, <3>1, NewRow
    <3>6. PICK w \in afterQ.rows : w.id = s.id /\ Twin(p, w)
      <4>1. CASE r \in X
        <5>1. New(s, d, D) \in afterQ.rows
          BY <1>5, <3>4, <4>1
        <5>2. New(s, d, D).id = s.id
          BY <1>4, NewRow
        <5>3. Twin(p, New(s, d, D))
          BY <3>1, <3>2, <3>4, <4>1
        <5>4. QED BY <5>1, <5>2, <5>3
      <4>2. CASE r \notin X
        BY <1>5, <3>1, <3>2, <3>4, <4>2 DEF RestQ
      <4>3. QED BY <4>1, <4>2
    <3>7. w.a = q.a
      BY <3>6 DEF Twin
    <3>8. w = q
      BY <2>3, <3>7, SameText DEF StoreKept
    <3>9. QED BY <3>3, <3>5, <3>6, <3>8
  <2>5. Twins({}, {})
    BY DEF Twins
  <2>6. /\ S!Update("sqlite", T, X, c, C).ok = TRUE /\ S!Update("sqlite", T, X, c, C).rows = {}
        /\ S!Update("sqlite", T, X, c, C).table = afterT
        /\ S!Update(e, t, Y, d, D).ok = TRUE /\ S!Update(e, t, Y, d, D).rows = {}
        /\ S!Update(e, t, Y, d, D).table = afterQ
    BY <2>1
  <2>7. QED BY <2>2, <2>4, <2>5, <2>6 DEF Like
<1>13. QED BY <1>11, <1>12
-----------------------------------------------------------------------------
(* A call to the three back ends. *)

\* The arguments a call has: the texts it looks for and inserts are no Nulls.
Given(c) ==
    /\ \/ c.op \in {"by a", "delete a", "rename", "create"}
       \/ c.op = "upsert" /\ store = "messages"
       \/ c.op = "update" /\ store = "emoji"
       => c.a \in Texts
    /\ c.op \in {"by b", "delete b", "create", "upsert"} => c.b \in Texts

\* What ~MayPart says of a call on the table T of SQLite.
NoExcuse(c, T) ==
    /\ c.a = S!Null \/ StoreDistinct(c.a, T)
    /\ c.b = S!Null \/ StoreDistinct(c.b, T)
    /\ c.op = "by v" => \A r \in T.rows : Folded[r.v] = Folded[c.v] => r.v = c.v
    /\ {c.a, c.b, c.v} \cap Long = {}
    /\ store = "emoji" /\ c.op = "upsert" => \A r \in T.rows : c.b \in {r.a, r.b} => r.a = r.b

LEMMA NoExcuseIs ==
  ASSUME NEW c, ~S!MayPart(c)
  PROVE  NoExcuse(c, tables["sqlite"])
BY DEF S!MayPart, NoExcuse, StoreDistinct

LEMMA AboutRows ==
  ASSUME store \in S!Stores, NEW e \in S!BackEnds, NEW t, StoreKept(e, t), NEW c, c.op \in Ops
  PROVE  /\ About(e, t, c) \in SUBSET t.rows
         /\ Changed(e, c) \in SUBSET {"a", "b", "v"}
         /\ \/ \A r, s \in About(e, t, c) : r = s
            \/ "a" \notin Changed(e, c) /\ ~(KeyB /\ "b" \in Changed(e, c))
            \/ c.op \notin {"update", "rename", "upsert"}
<1>1. /\ store = "rooms" => c.op \in {"by a", "by b", "all", "create", "by id", "update", "delete"}
      /\ store = "users" => c.op \in {"by a", "by b", "all", "create", "update", "delete"}
      /\ store = "messages" => c.op \in {"by a", "by b", "upsert", "delete a", "delete b"}
      /\ store = "emoji" => c.op \in {"by a", "by b", "by v", "create", "update", "upsert",
                                      "rename", "delete a"}
  BY OpsOf
<1>2. About(e, t, c) \in SUBSET t.rows
  <2>1. c.op \in {"by a", "by b", "all", "create", "by id", "update", "delete", "upsert", "delete a",
                  "delete b", "by v", "rename"}
    BY <1>1 DEF S!Stores
  <2>2. /\ \A col, x : S!Where(e, t, col, x) \in SUBSET t.rows
        /\ \A i : S!WithId(t, i) \in SUBSET t.rows
    BY DEF S!Where, S!WithId
  <2>3. QED BY <2>1, <2>2 DEF About
<1>3. Changed(e, c) \in SUBSET {"a", "b", "v"}
  BY DEF Changed
<1>4. ASSUME c.op \in {"update", "rename", "upsert"}
      PROVE  \/ \A r, s \in About(e, t, c) : r = s
             \/ "a" \notin Changed(e, c) /\ ~(KeyB /\ "b" \in Changed(e, c))
  <2>1. CASE store = "rooms"
    <3>1. About(e, t, c) = S!WithId(t, c.id)
      BY <1>1, <1>4, <2>1 DEF About
    <3>2. QED BY <3>1 DEF S!WithId, StoreKept
  <2>2. CASE store = "users"
    BY <1>1, <1>4, <2>2 DEF Changed
  <2>3. CASE store = "messages"
    BY <1>1, <1>4, <2>3 DEF Changed, KeyB
  <2>4. CASE store = "emoji"
    BY <1>1, <1>4, <2>4 DEF Changed, KeyB
  <2>5. QED BY <2>1, <2>2, <2>3, <2>4 DEF S!Stores
<1>5. QED BY <1>2, <1>3, <1>4

LEMMA AboutTwins ==
  ASSUME StoreBounds, store \in S!Stores, NEW e \in S!BackEnds, NEW T, NEW t, Pair(e, T, t),
         NEW c \in StoreCalls, NEW d \in StoreCalls, c.op = d.op, Twin(c, d), c.op \in Ops,
         Given(c), NoExcuse(c, T), SameId(T, t, c.id, d.id)
  PROVE  Twins(About("sqlite", T, c), About(e, t, d))
<1>1. S!Null \notin Texts /\ d.a = c.a /\ d.b = c.b /\ d.v = c.v
  BY DEF StoreBounds, Twin
<1>2. c.a \in Texts => /\ Twins(S!Where("sqlite", T, "a", c.a), S!Where(e, t, "a", c.a))
                       /\ Twins(S!Where("sqlite", T, "b", c.a), S!Where(e, t, "b", c.a))
  BY <1>1, WhereTwins DEF NoExcuse, StoreDistinct
<1>3. c.b \in Texts => /\ Twins(S!Where("sqlite", T, "a", c.b), S!Where(e, t, "a", c.b))
                       /\ Twins(S!Where("sqlite", T, "b", c.b), S!Where(e, t, "b", c.b))
  BY <1>1, WhereTwins DEF NoExcuse, StoreDistinct
<1>4. c.op = "by v" => Twins(S!Where("sqlite", T, "v", c.v), S!Where(e, t, "v", c.v))
  BY WhereTwins DEF NoExcuse
<1>5. Twins(S!WithId(T, c.id), S!WithId(t, d.id))
  BY WithIdTwins
<1>6. Twins({}, {}) /\ Twins(T.rows, t.rows)
  BY DEF Twins, Pair
<1>7. CASE c.op \in {"by a", "delete a", "rename"}
  BY <1>1, <1>2, <1>7 DEF About, Given
<1>8. CASE c.op \in {"by b", "delete b"}
  BY <1>1, <1>3, <1>8 DEF About, Given
<1>9. CASE c.op \in {"by v", "by id", "delete", "all", "create"}
  BY <1>1, <1>4, <1>5, <1>6, <1>9 DEF About
<1>10. CASE c.op = "update"
  BY <1>1, <1>2, <1>5, <1>10 DEF About, Given
<1>11. CASE c.op = "upsert" /\ store = "messages"
  BY <1>1, <1>2, <1>11 DEF About, Given
<1>12. CASE c.op = "upsert" /\ store = "emoji"
  <2>1. c.b \in Texts /\ About("sqlite", T, c) = S!Where("sqlite", T, "b", c.b)
        /\ About(e, t, d) = IF e = "sqlite" THEN S!Where(e, t, "b", c.b) ELSE S!Where(e, t, "a", c.b)
    BY <1>1, <1>12 DEF About, Given
  <2>2. S!Where("sqlite", T, "b", c.b) = S!Where("sqlite", T, "a", c.b)
    BY <1>12 DEF NoExcuse, S!Where, S!Same
  <2>3. QED BY <1>3, <2>1, <2>2
<1>13. QED
  <2>1. c.op \in {"by a", "by b", "all", "create", "by id", "update", "delete", "upsert", "delete a",
                  "delete b", "by v", "rename"} /\ (c.op = "upsert" => store \in {"messages", "emoji"})
    BY OpsOf DEF S!Stores
  <2>2. QED BY <1>7, <1>8, <1>9, <1>10, <1>11, <1>12, <2>1

LEMMA ChangedTwins ==
  ASSUME StoreBounds, store \in S!Stores, NEW e \in S!BackEnds, NEW T, NEW t, Pair(e, T, t),
         NEW c \in StoreCalls, NEW d \in StoreCalls, c.op = d.op, Twin(c, d), NoExcuse(c, T),
         c.op \in {"update", "rename", "upsert"}, NEW r \in About("sqlite", T, c), r \in T.rows, NEW s \in t.rows,
         Twin(r, s)
  PROVE  Twin(New(r, c, Changed("sqlite", c)), New(s, d, Changed(e, d)))
<1>1. r \in S!Row /\ s \in S!Row /\ "sqlite" \in S!BackEnds
  BY DEF Pair, StoreKept, Tables, S!BackEnds
<1>2. /\ Changed("sqlite", c) \in SUBSET {"a", "b", "v"}
      /\ Changed(e, d) \in SUBSET {"a", "b", "v"}
  BY DEF Changed
<1>3. c.a = d.a /\ c.b = d.b /\ c.v = d.v
  BY DEF Twin
<1>4. CASE Changed("sqlite", c) = Changed(e, d)
  BY <1>1, <1>2, <1>3, <1>4, NewRow DEF Twin
<1>5. CASE Changed("sqlite", c) # Changed(e, d)
  <2>1. c.op = "upsert" /\ store = "emoji" /\ Changed("sqlite", c) = {"v"} /\ Changed(e, d) = {"b", "v"}
    BY <1>5 DEF Changed
  <2>2. r.b = c.b
    <3>1. About("sqlite", T, c) = S!Where("sqlite", T, "b", c.b)
      BY <2>1 DEF About
    <3>2. QED BY <3>1 DEF S!Where, S!Same
  <2>3. /\ New(r, c, {"v"}).a = r.a /\ New(r, c, {"v"}).b = r.b
        /\ New(r, c, {"v"}).v = IF c.v # S!Null THEN c.v ELSE r.v
    BY <1>1, NewRow
  <2>4. /\ New(s, d, {"b", "v"}).a = s.a
        /\ New(s, d, {"b", "v"}).b = IF d.b # S!Null THEN d.b ELSE s.b
        /\ New(s, d, {"b", "v"}).v = IF d.v # S!Null THEN d.v ELSE s.v
    BY <1>1, NewRow
  <2>5. QED BY <1>3, <2>1, <2>2, <2>3, <2>4 DEF Twin
<1>6. QED BY <1>4, <1>5

\* What Insert is given is no Null.
LEMMA InsertedTexts ==
  ASSUME StoreBounds, store \in S!Stores, NEW c \in StoreCalls, c.op \in {"create", "upsert"}, c.op \in Ops, Given(c)
  PROVE  /\ Inserted(c) \in StoreCalls /\ Inserted(c).a \in {c.a, c.b} \cap Texts
         /\ Inserted(c).b = c.b /\ c.b \in Texts /\ Inserted(c).v = c.v
         /\ Inserted(c).a = IF store = "emoji" /\ c.op = "upsert" THEN c.b ELSE c.a
<1>1. CASE store = "emoji" /\ c.op = "upsert"
  <2>1. Inserted(c) = [c EXCEPT !.a = c.b] /\ c.b \in Texts
    BY <1>1 DEF Inserted, Given
  <2>2. QED BY <1>1, <2>1 DEF StoreCalls
<1>2. CASE ~(store = "emoji" /\ c.op = "upsert")
  <2>1. Inserted(c) = c
    BY <1>2 DEF Inserted
  <2>2. c.op = "upsert" => store = "messages"
    BY <1>2, OpsOf DEF S!Stores
  <2>3. c.a \in Texts /\ c.b \in Texts
    BY <2>2 DEF Given
  <2>4. QED BY <1>2, <2>1, <2>3
<1>3. QED BY <1>1, <1>2

\* Every operation, on SQLite and on another back end.
LEMMA OneCopyLike ==
  ASSUME StoreBounds, store \in S!Stores, NEW e \in S!BackEnds, NEW T, NEW t, Pair(e, T, t), NoLong(T),
         NEW c \in StoreCalls, NEW d \in StoreCalls, c.op = d.op, Twin(c, d), c.op \in Ops,
         Given(c), Given(d), NoExcuse(c, T), SameId(T, t, c.id, d.id)
  PROVE  Like(T, t, OneCopy("sqlite", T, c), OneCopy(e, t, d))
<1> DEFINE X == About("sqlite", T, c)
           Y == About(e, t, d)
<1>1. "sqlite" \in S!BackEnds
  BY DEF S!BackEnds
<1>2. Twins(X, Y)
  BY AboutTwins
<1>3. /\ X \in SUBSET T.rows /\ Y \in SUBSET t.rows
      /\ Changed("sqlite", c) \in SUBSET {"a", "b", "v"} /\ Changed(e, d) \in SUBSET {"a", "b", "v"}
  BY <1>1, AboutRows DEF Pair
<1>4. X = {} <=> Y = {}
  BY <1>2 DEF Twins
<1>5. CASE c.op \in Reads
  <2>1. Like(T, t, S!Select(T, X), S!Select(t, Y))
    BY <1>2, <1>3, SelectLike
  <2>2. QED BY <1>5, <2>1 DEF OneCopy
<1>6. CASE c.op \notin Reads /\ c.op \in Deletes
  <2>1. Like(T, t, S!Delete(T, X), S!Delete(t, Y))
    BY <1>2, <1>3, DeleteLike
  <2>2. QED BY <1>6, <2>1 DEF OneCopy
<1>7. CASE c.op \in {"update", "rename"} \/ (c.op = "upsert" /\ X # {})
  <2>1. c.op \in {"update", "rename", "upsert"} /\ c.op \notin Reads /\ c.op \notin Deletes
    BY <1>7 DEF Reads, Deletes
  <2>2. \A r \in X, s \in Y : Twin(r, s) =>
            Twin(New(r, c, Changed("sqlite", c)), New(s, d, Changed(e, d)))
    BY <1>3, <2>1, ChangedTwins
  <2>3. \/ \A r, s \in X : r = s
        \/ "a" \notin Changed("sqlite", c) /\ ~(KeyB /\ "b" \in Changed("sqlite", c))
    BY <1>1, <2>1, AboutRows DEF Pair
  <2>4. \/ \A r, s \in Y : r = s
        \/ "a" \notin Changed(e, d) /\ ~(KeyB /\ "b" \in Changed(e, d))
    BY <2>1, AboutRows DEF Pair
  <2>5. /\ {c.a, c.b, c.v} \cap Long = {}
        /\ c.a = S!Null \/ StoreDistinct(c.a, T)
        /\ c.b = S!Null \/ StoreDistinct(c.b, T)
    BY DEF NoExcuse
  <2> HIDE DEF X, Y
  <2>6. Like(T, t, S!Update("sqlite", T, X, c, Changed("sqlite", c)), S!Update(e, t, Y, d, Changed(e, d)))
    BY <1>2, <1>3, <2>2, <2>3, <2>4, <2>5, UpdateLike
  <2>7. QED BY <1>4, <1>7, <2>1, <2>6 DEF OneCopy, X, Y
<1>8. CASE c.op = "create" \/ (c.op = "upsert" /\ X = {})
  <2>1. c.op \in {"create", "upsert"} /\ c.op \notin Reads /\ c.op \notin Deletes
    BY <1>8 DEF Reads, Deletes
  <2>2. /\ Inserted(c) \in StoreCalls /\ Inserted(c).a \in {c.a, c.b} \cap Texts
        /\ Inserted(c).b = c.b /\ c.b \in Texts /\ Inserted(c).v = c.v
    BY <2>1, InsertedTexts
  <2>3. Inserted(d) \in StoreCalls
    BY <2>1, InsertedTexts
  <2>4. Twin(Inserted(c), Inserted(d))
    <3>1. /\ Inserted(c).a = IF store = "emoji" /\ c.op = "upsert" THEN c.b ELSE c.a
          /\ Inserted(c).b = c.b /\ Inserted(c).v = c.v
      BY <2>1, InsertedTexts
    <3>2. /\ Inserted(d).a = IF store = "emoji" /\ d.op = "upsert" THEN d.b ELSE d.a
          /\ Inserted(d).b = d.b /\ Inserted(d).v = d.v
      BY <2>1, InsertedTexts
    <3>3. QED BY <3>1, <3>2 DEF Twin
  <2>5. /\ StoreDistinct(Inserted(c).a, T) /\ StoreDistinct(Inserted(c).b, T)
        /\ {Inserted(c).a, Inserted(c).b, Inserted(c).v} \cap Long = {}
    BY <2>2 DEF NoExcuse, StoreBounds
  <2>6. Like(T, t, S!Insert("sqlite", T, Inserted(c)), S!Insert(e, t, Inserted(d)))
    BY <2>2, <2>3, <2>4, <2>5, InsertLike
  <2>7. QED BY <1>4, <1>8, <2>1, <2>6 DEF OneCopy
<1>9. QED
  <2>1. c.op \in {"by a", "by b", "all", "create", "by id", "update", "delete", "upsert", "delete a",
                  "delete b", "by v", "rename"}
    BY OpsOf DEF S!Stores
  <2>2. QED BY <1>5, <1>6, <1>7, <1>8, <2>1 DEF Reads, Deletes

\* What an operation keeps of its own table, and that it stores no long text.
LEMMA OneCopyKeeps ==
  ASSUME StoreBounds, store \in S!Stores, NEW e \in S!BackEnds, NEW t, StoreKept(e, t), t.next \in 1..MaxCalls,
         NEW c \in StoreCalls, c.op \in Ops, Given(c)
  PROVE  /\ OneCopy(e, t, c) \in Answers /\ StoreKept(e, OneCopy(e, t, c).table)
         /\ OneCopy(e, t, c).table.next \in {t.next, t.next + 1}
         /\ c.op \in Reads => OneCopy(e, t, c).table = t /\ OneCopy(e, t, c).rows = About(e, t, c)
<1> DEFINE X == About(e, t, c)
           C == Changed(e, c)
<1>1. X \in SUBSET t.rows /\ C \in SUBSET {"a", "b", "v"}
  BY AboutRows
<1>2. CASE c.op \in Reads
  <2>1. OneCopy(e, t, c) = S!Select(t, X)
    BY <1>2 DEF OneCopy
  <2>2. QED BY <1>1, <2>1, SelectKeeps
<1>3. CASE c.op \notin Reads /\ c.op \in Deletes
  <2>1. OneCopy(e, t, c) = S!Delete(t, X)
    BY <1>3 DEF OneCopy
  <2>2. QED BY <1>1, <1>3, <2>1, DeleteKeeps
<1>4. CASE c.op \in {"update", "rename"} \/ (c.op = "upsert" /\ X # {})
  <2>1. c.op \in {"update", "rename", "upsert"} /\ c.op \notin Reads /\ c.op \notin Deletes
    BY <1>4 DEF Reads, Deletes
  <2>2. OneCopy(e, t, c) = S!Update(e, t, X, c, C)
    BY <1>4, <2>1 DEF OneCopy
  <2>3. (\A r, s \in X : r = s) \/ ("a" \notin C /\ ~(KeyB /\ "b" \in C))
    BY <2>1, AboutRows
  <2> HIDE DEF X, C
  <2>4. /\ S!Update(e, t, X, c, C) \in Answers
        /\ StoreKept(e, S!Update(e, t, X, c, C).table)
        /\ S!Update(e, t, X, c, C).table.next = t.next
    BY <1>1, <2>3, UpdateKeeps
  <2>5. QED BY <2>1, <2>2, <2>4
<1>5. CASE c.op = "create" \/ (c.op = "upsert" /\ X = {})
  <2>1. c.op \in {"create", "upsert"} /\ c.op \notin Reads /\ c.op \notin Deletes
    BY <1>5 DEF Reads, Deletes
  <2>2. OneCopy(e, t, c) = S!Insert(e, t, Inserted(c))
    BY <1>5, <2>1 DEF OneCopy
  <2>3. Inserted(c) \in StoreCalls /\ Inserted(c).a \in Texts /\ Inserted(c).b \in Texts
    BY <2>1, InsertedTexts
  <2>4. QED BY <2>1, <2>2, <2>3, InsertKeeps
<1>6. QED
  <2>1. c.op \in {"by a", "by b", "all", "create", "by id", "update", "delete", "upsert", "delete a",
                  "delete b", "by v", "rename"}
    BY OpsOf DEF S!Stores
  <2>2. QED BY <1>2, <1>3, <1>4, <1>5, <2>1 DEF Reads, Deletes

LEMMA OneCopyNoLong ==
  ASSUME StoreBounds, store \in S!Stores, NEW T, StoreKept("sqlite", T), NoLong(T),
         NEW c \in StoreCalls, c.op \in Ops, Given(c), {c.a, c.b, c.v} \cap Long = {}
  PROVE  NoLong(OneCopy("sqlite", T, c).table)
<1> DEFINE X == About("sqlite", T, c)
           C == Changed("sqlite", c)
<1>1. X \in SUBSET T.rows /\ C \in SUBSET {"a", "b", "v"} /\ "sqlite" \in S!BackEnds /\ T \in Tables
  BY AboutRows DEF S!BackEnds, StoreKept
<1>2. \A q \in OneCopy("sqlite", T, c).table.rows :
         \/ q \in T.rows
         \/ \E r \in X : q = New(r, c, C)
         \/ {q.a, q.b, q.v} \subseteq {c.a, c.b, c.v}
  <2>1. \A q \in S!Select(T, X).table.rows : q \in T.rows
    BY DEF S!Select
  <2>2. \A q \in S!Delete(T, X).table.rows : q \in T.rows
    BY <1>1 DEF S!Delete, Tables
  <2>3. \A q \in S!Update("sqlite", T, X, c, C).table.rows : q \in T.rows \/ \E r \in X : q = New(r, c, C)
    <3> DEFINE rest == T.rows \ X
               new == {New(r, c, C) : r \in X}
               after == [T EXCEPT !.rows = rest \cup new]
    <3>1. PICK u \in {T, after} : S!Update("sqlite", T, X, c, C).table = u
      <4>1. S!Update("sqlite", T, X, c, C) \in {[table |-> T, ok |-> FALSE, rows |-> {}],
                                                [table |-> after, ok |-> TRUE, rows |-> {}]}
        BY DEF S!Update, New, S!Error
      <4> HIDE DEF after
      <4>2. QED BY <4>1
    <3>2. after.rows = rest \cup new
      BY <1>1 DEF Tables
    <3> HIDE DEF after
    <3>3. \A q \in after.rows : q \in T.rows \/ \E r \in X : q = New(r, c, C)
      BY <3>2
    <3>4. QED BY <3>1, <3>3
  <2>4. c.op \in {"create", "upsert"} => \A q \in S!Insert("sqlite", T, Inserted(c)).table.rows :
            q \in T.rows \/ {q.a, q.b, q.v} \subseteq {c.a, c.b, c.v}
    <3> SUFFICES ASSUME c.op \in {"create", "upsert"}
                 PROVE  \A q \in S!Insert("sqlite", T, Inserted(c)).table.rows :
                            q \in T.rows \/ {q.a, q.b, q.v} \subseteq {c.a, c.b, c.v}
      OBVIOUS
    <3> DEFINE d == Inserted(c)
               r == [id |-> T.next, a |-> d.a, b |-> d.b, v |-> d.v]
               after == [T EXCEPT !.next = @ + 1]
               more == [after EXCEPT !.rows = @ \cup {r}]
    <3>1. {r.a, r.b, r.v} \subseteq {c.a, c.b, c.v}
      BY InsertedTexts
    <3>2. more.rows = T.rows \cup {r}
      BY <1>1 DEF Tables
    <3>3. S!Insert("sqlite", T, d) \in {[table |-> T, ok |-> FALSE, rows |-> {}],
                                        [table |-> more, ok |-> TRUE, rows |-> {}]}
      BY DEF S!Insert, S!Error
    <3> HIDE DEF r, more, d
    <3>4. QED BY <3>1, <3>2, <3>3 DEF d
  <2> HIDE DEF X, C
  <2>5. \/ OneCopy("sqlite", T, c) \in {S!Select(T, X), S!Delete(T, X), S!Update("sqlite", T, X, c, C)}
        \/ c.op \in {"create", "upsert"} /\ OneCopy("sqlite", T, c) = S!Insert("sqlite", T, Inserted(c))
    <3>1. c.op \in {"by a", "by b", "all", "create", "by id", "update", "delete", "upsert", "delete a",
                    "delete b", "by v", "rename"}
      BY OpsOf DEF S!Stores
    <3>2. QED BY <3>1 DEF OneCopy, Reads, Deletes, X, C
  <2>6. QED BY <2>1, <2>2, <2>3, <2>4, <2>5
<1>3. \A r \in X : {New(r, c, C).a, New(r, c, C).b, New(r, c, C).v} \subseteq {r.a, r.b, r.v, c.a, c.b, c.v}
  <2>1. \A r \in X : r \in S!Row
    BY <1>1 DEF Tables
  <2>2. \A r \in X : /\ New(r, c, C).a \in {r.a, c.a} /\ New(r, c, C).b \in {r.b, c.b}
                     /\ New(r, c, C).v \in {r.v, c.v}
    BY <1>1, <2>1, NewRow
  <2>3. QED BY <2>2
<1>4. QED BY <1>1, <1>2, <1>3 DEF NoLong
-----------------------------------------------------------------------------
Alike(e) ==
    /\ Twins(tables["sqlite"].rows, tables[e].rows)
    /\ Twins(held["sqlite"], held[e])
    /\ \A r \in held["sqlite"], s \in held[e] : SameId(tables["sqlite"], tables[e], r.id, s.id)
    /\ answer[e].ok = answer["sqlite"].ok /\ Twins(answer["sqlite"].rows, answer[e].rows)

StoreInv ==
    /\ store \in S!Stores
    /\ tables \in [S!BackEnds -> Tables]
    /\ answer \in [S!BackEnds -> [ok : BOOLEAN, rows : SUBSET S!Row]]
    /\ held \in [S!BackEnds -> SUBSET S!Row]
    /\ calls \in 0..MaxCalls /\ excused \in BOOLEAN
    /\ \A e \in S!BackEnds : tables[e].next \in 1..calls + 1 /\ StoreKept(e, tables[e])
    /\ \A e \in S!BackEnds : \A r, s \in held[e] : r = s
    /\ \A e \in S!BackEnds : \A r \in held[e] : r.id \in 1..tables[e].next - 1
    /\ ~excused => NoLong(tables["sqlite"]) /\ \A e \in S!BackEnds : Alike(e)

LEMMA StoreInitial ==
  ASSUME StoreBounds, S!Init
  PROVE  StoreInv
<1> DEFINE t == [rows |-> {}, next |-> 1]
           a == [ok |-> TRUE, rows |-> {}]
<1>1. /\ store \in S!Stores /\ tables = [e \in S!BackEnds |-> t] /\ answer = [e \in S!BackEnds |-> a]
      /\ held = [e \in S!BackEnds |-> {}] /\ calls = 0 /\ excused = FALSE
  BY DEF S!Init
<1>2. t \in Tables /\ t.rows = {} /\ t.next = 1 /\ a \in [ok : BOOLEAN, rows : SUBSET S!Row] /\ a.ok = TRUE /\ a.rows = {}
  BY DEF Tables
<1> HIDE DEF t, a
<1>3. \A e \in S!BackEnds : tables[e] = t /\ answer[e] = a /\ held[e] = {}
  BY <1>1
<1>4. "sqlite" \in S!BackEnds
  BY DEF S!BackEnds
<1>5. \A e \in S!BackEnds : StoreKept(e, tables[e]) /\ Alike(e)
  BY <1>2, <1>3, <1>4 DEF StoreKept, Alike, Twins, SameId
<1>6. NoLong(tables["sqlite"])
  BY <1>2, <1>3, <1>4 DEF NoLong
<1>7. /\ tables \in [S!BackEnds -> Tables] /\ held \in [S!BackEnds -> SUBSET S!Row]
      /\ answer \in [S!BackEnds -> [ok : BOOLEAN, rows : SUBSET S!Row]]
      /\ calls \in 0..MaxCalls /\ excused \in BOOLEAN
  <2>1. tables \in [S!BackEnds -> Tables]
    BY <1>1, <1>2
  <2>2. held \in [S!BackEnds -> SUBSET S!Row]
    BY <1>1
  <2>3. answer \in [S!BackEnds -> [ok : BOOLEAN, rows : SUBSET S!Row]]
    BY <1>1, <1>2
  <2>4. calls \in 0..MaxCalls
    BY <1>1 DEF StoreBounds
  <2>5. excused \in BOOLEAN
    BY <1>1
  <2>6. QED BY <2>1, <2>2, <2>3, <2>4, <2>5
<1>8. \A e \in S!BackEnds : tables[e].next \in 1..calls + 1 /\ held[e] = {}
  BY <1>1, <1>2, <1>3
<1>9. QED BY <1>1, <1>5, <1>6, <1>7, <1>8 DEF StoreInv

\* Any call, with arguments that are the same for each back end but for the id of a row.
LEMMA CallStep ==
  ASSUME StoreBounds, StoreInv, NEW to \in [S!BackEnds -> StoreCalls], S!Make(to),
         \A e \in S!BackEnds : to[e].op = to["sqlite"].op /\ Twin(to["sqlite"], to[e])
                               /\ SameId(tables["sqlite"], tables[e], to["sqlite"].id, to[e].id),
         to["sqlite"].op \in Ops, \A e \in S!BackEnds : Given(to[e])
  PROVE  StoreInv'
<1> DEFINE op == to["sqlite"].op
           did == [e \in S!BackEnds |-> S!Run(e, to[e])]
           Is(e) == OneCopy(e, tables[e], to[e])
<1>1. /\ ~excused /\ calls < MaxCalls /\ calls' = calls + 1 /\ excused' = S!MayPart(to["sqlite"]) /\ store' = store
      /\ tables' = [e \in S!BackEnds |-> did[e].table]
      /\ answer' = [e \in S!BackEnds |-> [ok |-> did[e].ok, rows |-> did[e].rows]]
      /\ held' = IF op \in {"by a", "by b"} /\ store \in {"rooms", "users"}
                 THEN [e \in S!BackEnds |-> did[e].rows] ELSE held
  BY DEF S!Make
<1>2. /\ store \in S!Stores /\ calls \in 0..MaxCalls /\ MaxCalls \in Nat /\ "sqlite" \in S!BackEnds
      /\ \A e \in S!BackEnds : tables[e].next \in 1..MaxCalls /\ StoreKept(e, tables[e]) /\ to[e] \in StoreCalls
  <2>1. store \in S!Stores /\ calls \in 0..MaxCalls /\ MaxCalls \in Nat /\ "sqlite" \in S!BackEnds
    BY DEF StoreInv, StoreBounds, S!BackEnds
  <2>2. \A n \in 1..calls + 1 : n \in 1..MaxCalls
    <3>1. calls < MaxCalls
      BY <1>1
    <3>3. calls \in Nat
      BY <2>1
    <3>4. calls + 1 <= MaxCalls
      BY <2>1, <3>1, <3>3
    <3>2. QED BY <2>1, <3>3, <3>4
  <2>3. \A e \in S!BackEnds : tables[e].next \in 1..calls + 1 /\ StoreKept(e, tables[e])
    BY DEF StoreInv
  <2>4. QED BY <2>1, <2>2, <2>3
<1>3. \A e \in S!BackEnds : did[e] = Is(e)
  BY <1>2, RunIs
<1> HIDE DEF did
<1>4. \A e \in S!BackEnds :
         /\ Is(e) \in Answers /\ StoreKept(e, Is(e).table)
         /\ Is(e).table.next \in {tables[e].next, tables[e].next + 1}
         /\ op \in Reads => Is(e).table = tables[e] /\ Is(e).rows = About(e, tables[e], to[e])
  BY <1>2, OneCopyKeeps
<1> HIDE DEF Is
<1>5. \A e \in S!BackEnds : Is(e).table \in Tables /\ Is(e).ok \in BOOLEAN /\ Is(e).rows \in SUBSET S!Row
  BY <1>4 DEF Answers
<1>6. \A e \in S!BackEnds : /\ tables'[e] = Is(e).table
                            /\ answer'[e] = [ok |-> Is(e).ok, rows |-> Is(e).rows]
  BY <1>1, <1>3
<1>7. /\ tables' \in [S!BackEnds -> Tables]
      /\ answer' \in [S!BackEnds -> [ok : BOOLEAN, rows : SUBSET S!Row]]
  BY <1>1, <1>3, <1>5
<1>8. \A e \in S!BackEnds : StoreKept(e, tables[e])'
  BY <1>1, <1>4, <1>6 DEF StoreKept, KeyB
<1>9. \A e \in S!BackEnds : /\ tables'[e].next \in {tables[e].next, tables[e].next + 1}
                            /\ tables'[e].next \in 1..calls' + 1
  <2>1. \A e \in S!BackEnds : tables[e].next \in 1..calls + 1
    BY DEF StoreInv
  <2>2. \A n \in 1..calls + 1 : n \in 1..(calls + 1) + 1 /\ n + 1 \in 1..(calls + 1) + 1
    BY <1>2
  <2>3. \A e \in S!BackEnds : tables'[e].next \in {tables[e].next, tables[e].next + 1}
    BY <1>4, <1>6
  <2>4. QED BY <1>1, <2>1, <2>2, <2>3
<1>10. excused' \in BOOLEAN /\ calls' \in 0..MaxCalls /\ store' \in S!Stores
  <2>1. excused' \in BOOLEAN
    <3>1. S!MayPart(to["sqlite"]) \in BOOLEAN
      BY DEF S!MayPart
    <3>2. QED BY <1>1, <3>1
  <2>2. calls' \in 0..MaxCalls
    <3>1. calls < MaxCalls /\ calls' = calls + 1
      BY <1>1
    <3>2. calls \in 0..MaxCalls /\ MaxCalls \in Nat
      BY <1>2
    <3>3. QED BY <3>1, <3>2
  <2>3. store' \in S!Stores
    BY <1>1, <1>2
  <2>4. QED BY <2>1, <2>2, <2>3
<1>14. \A e \in S!BackEnds : answer'[e].ok = Is(e).ok /\ answer'[e].rows = Is(e).rows
  <2> SUFFICES ASSUME NEW e \in S!BackEnds
               PROVE  answer'[e].ok = Is(e).ok /\ answer'[e].rows = Is(e).rows
    OBVIOUS
  <2>1. answer'[e] = [ok |-> Is(e).ok, rows |-> Is(e).rows]
    BY <1>6
  <2>2. \A x, y : [ok |-> x, rows |-> y].ok = x /\ [ok |-> x, rows |-> y].rows = y
    OBVIOUS
  <2>3. QED BY <2>1, <2>2
<1>11. CASE op \in {"by a", "by b"} /\ KeyB
  <2>1. \A e \in S!BackEnds : /\ held'[e] = About(e, tables[e], to[e]) /\ tables'[e] = tables[e]
                              /\ held'[e] = Is(e).rows
    BY <1>1, <1>3, <1>4, <1>6, <1>11 DEF KeyB, Reads
  <2>2. \A e \in S!BackEnds : /\ held'[e] \in SUBSET tables[e].rows
                              /\ \A r, s \in held'[e] : r = s
    <3> SUFFICES ASSUME NEW e \in S!BackEnds
                 PROVE  held'[e] \in SUBSET tables[e].rows /\ \A r, s \in held'[e] : r = s
      OBVIOUS
    <3>1. to[e].op = op
      OBVIOUS
    <3>2. \/ held'[e] = S!Where(e, tables[e], "a", to[e].a)
          \/ held'[e] = S!Where(e, tables[e], "b", to[e].b)
      BY <1>11, <2>1, <3>1 DEF About
    <3>3. StoreKept(e, tables[e]) /\ KeyB
      BY <1>2, <1>11
    <3>4. \A r, s \in tables[e].rows : /\ S!Same(e, r.a, to[e].a) /\ S!Same(e, s.a, to[e].a) => S!Same(e, r.a, s.a)
                                       /\ S!Same(e, r.b, to[e].b) /\ S!Same(e, s.b, to[e].b) => S!Same(e, r.b, s.b)
      BY DEF S!Same
    <3>5. QED BY <3>2, <3>3, <3>4 DEF S!Where, StoreKept
  <2>3. held' \in [S!BackEnds -> SUBSET S!Row]
    BY <1>1, <1>3, <1>5, <1>11 DEF KeyB
  <2>4. \A e \in S!BackEnds : \A r \in held'[e] : r.id \in 1..tables'[e].next - 1
    BY <1>2, <2>1, <2>2 DEF StoreKept
  <2>5. ASSUME ~excused'
        PROVE  NoLong(tables["sqlite"])' /\ \A e \in S!BackEnds : Alike(e)'
    <3>1. NoLong(tables["sqlite"])'
      BY <1>1, <1>2, <2>1 DEF StoreInv, NoLong
    <3>2. ASSUME NEW e \in S!BackEnds PROVE Alike(e)'
      <4>1. Pair(e, tables["sqlite"], tables[e])
        BY <1>1, <1>2 DEF StoreInv, Alike, Pair
      <4>2. NoExcuse(to["sqlite"], tables["sqlite"])
        BY <1>1, <2>5, NoExcuseIs
      <4>3. NoLong(tables["sqlite"])
        BY <1>1 DEF StoreInv
      <4>4. Like(tables["sqlite"], tables[e], Is("sqlite"), Is(e))
        BY <1>2, <4>1, <4>2, <4>3, OneCopyLike DEF Is
      <4>5. Is(e).ok = Is("sqlite").ok /\ Twins(Is("sqlite").rows, Is(e).rows)
        BY <4>4 DEF Like
      <4>6. answer'[e].ok = answer'["sqlite"].ok /\ Twins(answer'["sqlite"].rows, answer'[e].rows)
        BY <1>2, <1>14, <4>5
      <4>7. Twins(held'["sqlite"], held'[e]) /\ Twins(tables'["sqlite"].rows, tables'[e].rows)
        BY <1>2, <2>1, <4>1, <4>5 DEF Pair
      <4>8. ASSUME NEW r \in held'["sqlite"], NEW s \in held'[e]
            PROVE  SameId(tables["sqlite"], tables[e], r.id, s.id)
        <5>1. Twin(r, s) /\ r \in tables["sqlite"].rows /\ s \in tables[e].rows
          <6>1. r \in tables["sqlite"].rows /\ s \in tables[e].rows
            BY <1>2, <2>2, <4>8
          <6>2. PICK q \in held'[e] : Twin(r, q)
            BY <4>7, <4>8 DEF Twins
          <6>3. q = s
            BY <2>2, <4>8, <6>2
          <6>4. QED BY <6>1, <6>2, <6>3
        <5>2. \A p \in tables["sqlite"].rows, q \in tables[e].rows : Twin(p, q) => (p = r <=> q = s)
          BY <4>1, <5>1, TwinRows
        <5>3. /\ \A p \in tables["sqlite"].rows : p.id = r.id <=> p = r
              /\ \A q \in tables[e].rows : q.id = s.id <=> q = s
          BY <4>1, <5>1 DEF Pair, StoreKept
        <5>4. QED BY <5>2, <5>3 DEF SameId
      <4>9. QED BY <1>2, <2>1, <4>6, <4>7, <4>8 DEF Alike
    <3>3. QED BY <3>1, <3>2
  <2>6. \A e \in S!BackEnds : \A r, s \in held'[e] : r = s
    BY <2>2
  <2>7. \A e \in S!BackEnds : tables'[e].next \in 1..calls' + 1
    BY <1>9
  <2>8. QED BY <1>7, <1>8, <1>10, <2>3, <2>4, <2>5, <2>6, <2>7 DEF StoreInv
<1>12. CASE ~(op \in {"by a", "by b"} /\ KeyB)
  <2>1. held' = held
    BY <1>1, <1>12 DEF KeyB
  <2>2. \A e \in S!BackEnds : \A r \in held'[e] : r.id \in 1..tables'[e].next - 1
    BY <1>2, <1>9, <2>1 DEF StoreInv
  <2>3. ASSUME ~excused'
        PROVE  NoLong(tables["sqlite"])' /\ \A e \in S!BackEnds : Alike(e)'
    <3>1. NoExcuse(to["sqlite"], tables["sqlite"]) /\ NoLong(tables["sqlite"])
      BY <1>1, <2>3, NoExcuseIs DEF StoreInv
    <3>2. NoLong(Is("sqlite").table)
      BY <1>2, <3>1, OneCopyNoLong DEF Is, NoExcuse
    <3>3. NoLong(tables["sqlite"])'
      BY <1>2, <1>6, <3>2 DEF NoLong
    <3>4. ASSUME NEW e \in S!BackEnds PROVE Alike(e)'
      <4>1. Alike(e) /\ Pair(e, tables["sqlite"], tables[e])
        BY <1>1, <1>2 DEF StoreInv, Alike, Pair
      <4>2. Like(tables["sqlite"], tables[e], Is("sqlite"), Is(e))
        BY <1>2, <3>1, <4>1, OneCopyLike DEF Is
      <4>3. /\ Is(e).ok = Is("sqlite").ok /\ Twins(Is("sqlite").rows, Is(e).rows)
            /\ Twins(Is("sqlite").table.rows, Is(e).table.rows)
        BY <4>2 DEF Like
      <4>4. /\ answer'[e].ok = answer'["sqlite"].ok /\ Twins(answer'["sqlite"].rows, answer'[e].rows)
            /\ Twins(tables'["sqlite"].rows, tables'[e].rows)
        BY <1>2, <1>6, <1>14, <4>3
      <4>5. ASSUME NEW r \in held["sqlite"], NEW s \in held[e]
            PROVE  SameId(tables'["sqlite"], tables'[e], r.id, s.id)
        <5>1. r.id \in 1..tables["sqlite"].next - 1 /\ s.id \in 1..tables[e].next - 1
          BY <1>2 DEF StoreInv
        <5>2. SameId(tables["sqlite"], tables[e], r.id, s.id)
          BY <4>1 DEF Alike
        <5>3. SameId(Is("sqlite").table, Is(e).table, r.id, s.id)
          BY <4>2, <5>1, <5>2 DEF Like
        <5>4. QED BY <1>2, <1>6, <5>3
      <4>6. QED BY <2>1, <4>1, <4>4, <4>5 DEF Alike
    <3>5. QED BY <3>3, <3>4
  <2>4. held' \in [S!BackEnds -> SUBSET S!Row] /\ \A e \in S!BackEnds : \A r, s \in held'[e] : r = s
    BY <2>1 DEF StoreInv
  <2>5. \A e \in S!BackEnds : tables'[e].next \in 1..calls' + 1
    BY <1>9
  <2>6. QED BY <1>7, <1>8, <1>10, <2>2, <2>3, <2>4, <2>5 DEF StoreInv
<1>13. QED BY <1>11, <1>12

\* A call by key has the same arguments on each back end; no row has the id 0.
LEMMA ByKeyStep ==
  ASSUME StoreBounds, StoreInv, NEW op \in AllOps, op \in Ops, NEW a \in Texts \cup {S!Null}, NEW b \in Texts \cup {S!Null},
         NEW v \in TextsV \cup {S!Null}, S!ByKey(op, a, b, v),
         Given([op |-> op, id |-> 0, a |-> a, b |-> b, v |-> v])
  PROVE  StoreInv'
<1> DEFINE c == [op |-> op, id |-> 0, a |-> a, b |-> b, v |-> v]
           to == [e \in S!BackEnds |-> c]
<1>1. c \in StoreCalls /\ c.op = op /\ c.id = 0
  BY DEF StoreCalls
<1>2. S!Make(to)
  BY DEF S!ByKey
<1> HIDE DEF c
<1>3. to \in [S!BackEnds -> StoreCalls] /\ (\A e \in S!BackEnds : to[e] = c) /\ to["sqlite"] = c
  BY <1>1 DEF S!BackEnds
<1> HIDE DEF to
<1>4. \A e \in S!BackEnds : SameId(tables["sqlite"], tables[e], 0, 0)
  BY DEF StoreInv, StoreKept, SameId, S!BackEnds, Tables
<1>5. \A e \in S!BackEnds : to[e].op = to["sqlite"].op /\ Twin(to["sqlite"], to[e])
                            /\ SameId(tables["sqlite"], tables[e], to["sqlite"].id, to[e].id)
  BY <1>1, <1>3, <1>4 DEF Twin
<1>6. \A e \in S!BackEnds : Given(to[e])
  BY <1>3 DEF c
<1>7. to["sqlite"].op \in Ops
  BY <1>1, <1>3
<1>8. QED BY <1>2, <1>3, <1>5, <1>6, <1>7, CallStep

\* A call with a row kept from a lookup: the rows kept are twins, and their ids go together.
LEMMA ByHeldRowStep ==
  ASSUME StoreBounds, StoreInv, NEW op \in S!IdOps, NEW v \in TextsV \cup {S!Null}, S!ByHeldRow(op, v)
  PROVE  StoreInv'
<1> DEFINE row(e) == CHOOSE r \in held[e] : TRUE
           to == [e \in S!BackEnds |-> [op |-> op, id |-> row(e).id, a |-> row(e).a, b |-> row(e).b, v |-> v]]
<1>1. (\A e \in S!BackEnds : held[e] # {}) /\ S!Make(to)
  BY DEF S!ByHeldRow
<1>2. \A e \in S!BackEnds : row(e) \in held[e] /\ row(e) \in S!Row
  BY <1>1 DEF StoreInv
<1> HIDE DEF row
<1>3. "sqlite" \in S!BackEnds /\ store \in {"rooms", "users"} /\ op \in {"by id", "update", "delete"}
  BY DEF S!BackEnds, S!IdOps, StoreInv, S!Stores
<1>4. \A e \in S!BackEnds : /\ row(e).id \in Nat /\ row(e).a \in Texts /\ row(e).b \in Texts
                            /\ Twin(row("sqlite"), row(e))
                            /\ SameId(tables["sqlite"], tables[e], row("sqlite").id, row(e).id)
  <2> SUFFICES ASSUME NEW e \in S!BackEnds
               PROVE  /\ row(e).id \in Nat /\ row(e).a \in Texts /\ row(e).b \in Texts
                      /\ Twin(row("sqlite"), row(e))
                      /\ SameId(tables["sqlite"], tables[e], row("sqlite").id, row(e).id)
    OBVIOUS
  <2>1. row(e) \in held[e] /\ row("sqlite") \in held["sqlite"] /\ row(e) \in S!Row
    BY <1>2, <1>3
  <2>2. Alike(e)
    BY <1>1 DEF S!Make, StoreInv
  <2>3. \A r, s \in held[e] : r = s
    BY DEF StoreInv
  <2>4. Twin(row("sqlite"), row(e))
    BY <2>1, <2>2, <2>3 DEF Alike, Twins
  <2>5. SameId(tables["sqlite"], tables[e], row("sqlite").id, row(e).id)
    BY <2>1, <2>2 DEF Alike
  <2>6. row(e).id \in Nat /\ row(e).a \in Texts /\ row(e).b \in Texts
    BY <2>1 DEF S!Row, Texts, StoreBounds
  <2>7. QED BY <2>4, <2>5, <2>6
<1>5. \A e \in S!BackEnds : /\ to[e].op = op /\ to[e].id = row(e).id
                            /\ to[e].a = row(e).a /\ to[e].b = row(e).b /\ to[e].v = v
  OBVIOUS
<1>6. to \in [S!BackEnds -> StoreCalls]
  <2>1. op \in AllOps
    BY <1>3 DEF AllOps
  <2>2. \A e \in S!BackEnds : [op |-> op, id |-> row(e).id, a |-> row(e).a, b |-> row(e).b, v |-> v] \in StoreCalls
    BY <1>4, <2>1 DEF StoreCalls
  <2>3. QED BY <2>2
<1> HIDE DEF to
<1>7. \A e \in S!BackEnds : to[e].op = to["sqlite"].op /\ Twin(to["sqlite"], to[e])
                            /\ SameId(tables["sqlite"], tables[e], to["sqlite"].id, to[e].id)
  BY <1>3, <1>4, <1>5 DEF Twin
<1>8. \A e \in S!BackEnds : Given(to[e])
  BY <1>3, <1>5 DEF Given
<1>9. to["sqlite"].op \in Ops
  BY <1>3, <1>5 DEF Ops
<1>10. QED BY <1>1, <1>6, <1>7, <1>8, <1>9, CallStep
-----------------------------------------------------------------------------
LEMMA KeyOpsGiven ==
  ASSUME store \in S!Stores, NEW op \in S!KeyOps, NEW a \in S!Values(op, "a", TextsA),
         NEW b \in S!Values(op, "b", TextsB), NEW v \in S!Values(op, "v", TextsV)
  PROVE  /\ op \in AllOps /\ op \in Ops /\ a \in Texts \cup {S!Null} /\ b \in Texts \cup {S!Null}
         /\ v \in TextsV \cup {S!Null} /\ Given([op |-> op, id |-> 0, a |-> a, b |-> b, v |-> v])
<1>1. /\ store = "rooms" => op \in {"by a", "by b", "all", "create"}
      /\ store = "users" => op \in {"by a", "by b", "all", "create"}
      /\ store = "messages" => op \in {"by a", "by b", "upsert", "delete a", "delete b"}
      /\ store = "emoji" => op \in {"by a", "by b", "by v", "create", "update", "upsert",
                                    "rename", "delete a"}
  BY DEF S!KeyOps
<1>2. op \in {"by a", "by b", "all", "create", "upsert", "delete a", "delete b", "by v", "update", "rename"}
  BY <1>1 DEF S!Stores
<1>3. /\ op \in {"by a", "delete a", "rename", "create", "update"} => "a" \in S!Arguments(op)
      /\ (op = "upsert" /\ store = "messages") => "a" \in S!Arguments(op)
      /\ op \in {"by b", "delete b", "create", "upsert"} => "b" \in S!Arguments(op)
  BY <1>2 DEF S!Arguments
<1>4. a \in TextsA \cup {S!Null} /\ b \in TextsB \cup {S!Null} /\ v \in TextsV \cup {S!Null}
  BY DEF S!Values
<1>5. ("a" \in S!Arguments(op) => a \in TextsA) /\ ("b" \in S!Arguments(op) => b \in TextsB)
  BY DEF S!Values
<1>6. Given([op |-> op, id |-> 0, a |-> a, b |-> b, v |-> v])
  BY <1>2, <1>3, <1>5 DEF Given, Texts
<1>7. op \in Ops /\ a \in Texts \cup {S!Null} /\ b \in Texts \cup {S!Null}
  BY <1>4 DEF Ops, Texts
<1>8. op \in AllOps
  BY <1>2 DEF AllOps
<1>9. QED BY <1>4, <1>6, <1>7, <1>8

LEMMA StoreInvariance ==
  ASSUME StoreBounds
  PROVE  S!Spec => []StoreInv
<1>1. S!Init => StoreInv
  BY StoreInitial
<1>2. StoreInv /\ [S!Next]_(S!vars) => StoreInv'
  <2> SUFFICES ASSUME StoreInv, [S!Next]_(S!vars) PROVE StoreInv'
    OBVIOUS
  <2>0. store \in S!Stores
    BY DEF StoreInv
  <2>1. CASE UNCHANGED S!vars
    BY <2>1 DEF S!vars, StoreInv, StoreKept, KeyB, NoLong, Alike
  <2>2. CASE \E op \in S!KeyOps : \E a \in S!Values(op, "a", TextsA), b \in S!Values(op, "b", TextsB),
                  v \in S!Values(op, "v", TextsV) : S!ByKey(op, a, b, v)
    BY <2>0, <2>2, KeyOpsGiven, ByKeyStep
  <2>3. CASE \E v \in TextsV \cup {S!Null}, op \in S!IdOps : (v = S!Null => store = "users") /\ S!ByHeldRow(op, v)
    BY <2>3, ByHeldRowStep
  <2>4. CASE \E a \in TextsA, b \in TextsB, v \in TextsV : S!UserSyncUpdate(a, b, v)
    <3>1. PICK a \in TextsA, b \in TextsB, v \in TextsV : S!UserSyncUpdate(a, b, v)
      BY <2>4
    <3>2. store = "users" /\ S!ByKey("update", a, b, v)
      BY <3>1 DEF S!UserSyncUpdate
    <3>3. a \in Texts \cup {S!Null} /\ b \in Texts \cup {S!Null} /\ v \in TextsV \cup {S!Null}
      BY DEF Texts
    <3>6. "update" \in Ops
      BY <3>2 DEF Ops
    <3>7. "update" \in AllOps
      BY DEF AllOps
    <3>4. Given([op |-> "update", id |-> 0, a |-> a, b |-> b, v |-> v])
      BY <3>2 DEF Given
    <3>5. QED BY <3>2, <3>3, <3>4, <3>6, <3>7, ByKeyStep
  <2>5. QED BY <2>1, <2>2, <2>3, <2>4 DEF S!Next
<1>3. QED BY <1>1, <1>2, PTL DEF S!Spec

\* Backends counts with the operators of its own copy of FiniteSets.
LEMMA StoreCounts ==
  ASSUME NEW X
  PROVE  S!Cardinality(X) = Cardinality(X)
  BY DEF S!Cardinality, Cardinality

\* Tables, answers and rows held keep their types; no id is given twice (db/*.rs).
LEMMA StoreTypes ==
  ASSUME StoreBounds
  PROVE  S!Spec => []S!TypeOK
<1>1. StoreInv => S!TypeOK
  <2> SUFFICES ASSUME StoreInv PROVE S!TypeOK
    OBVIOUS
  <2>1. ASSUME NEW e \in S!BackEnds
        PROVE  /\ tables[e].rows \subseteq S!Row /\ tables[e].next \in 1..MaxCalls + 1
               /\ \A r, s \in tables[e].rows : r.id = s.id => r = s
               /\ answer[e].ok \in BOOLEAN /\ answer[e].rows \subseteq S!Row
               /\ held[e] \subseteq S!Row
    BY DEF StoreInv, StoreKept, Tables, StoreBounds
  <2>2. ASSUME NEW e \in S!BackEnds PROVE Cardinality(held[e]) <= 1
    <3>1. CASE held[e] = {}
      BY <3>1, FS_EmptySet
    <3>2. CASE held[e] # {}
      <4>1. PICK r : r \in held[e]
        BY <3>2
      <4>2. \A s \in held[e] : s = r
        BY <4>1 DEF StoreInv
      <4>3. held[e] = {r}
        BY <4>1, <4>2
      <4>4. Cardinality({r}) = 1
        BY FS_Singleton
      <4>5. QED BY <4>3, <4>4
    <3>3. QED BY <3>1, <3>2
  <2>3. QED BY <2>1, <2>2, StoreCounts DEF S!TypeOK, StoreInv
<1>2. QED BY <1>1, StoreInvariance, PTL

\* The back ends hold the same rows and answer alike (db/sqlite.rs, postgres.rs, mysql.rs).
LEMMA StoreAgreement ==
  ASSUME StoreBounds
  PROVE  S!Spec => []S!StoresAgree
<1>1. StoreInv => S!StoresAgree
  <2> SUFFICES ASSUME StoreInv, ~excused, NEW e \in S!BackEnds
               PROVE  /\ S!Content(tables[e].rows) = S!Content(tables["sqlite"].rows)
                      /\ answer[e].ok = answer["sqlite"].ok
                      /\ S!Content(answer[e].rows) = S!Content(answer["sqlite"].rows)
    BY DEF S!StoresAgree
  <2>1. \A X, Y : Twins(X, Y) => S!Content(Y) = S!Content(X)
    BY DEF Twins, Twin, S!Content
  <2>2. Alike(e)
    BY DEF StoreInv
  <2>3. QED BY <2>1, <2>2 DEF Alike
<1>2. QED BY <1>1, StoreInvariance, PTL

\* A behaviour of the services is one of Backends.
LEMMA StoreAlone == Spec => S!Spec
<1>1. Init => S!Init
  BY DEF Init
<1>2. [Next]_vars => [S!Next]_(S!vars)
  BY DEF Next, vars, pVars, qVars, eVars, rVars, uVars, bVars, mVars, gVars, sVars, S!vars
<1>3. QED BY <1>1, <1>2, PTL DEF Spec, S!Spec

\* For any texts and any collation: as long as no call is one the back ends may part on, no
\* sequence of calls tells SQLite, PostgreSQL and MySQL apart (db/sqlite.rs,
\* db/postgres.rs, db/mysql.rs).
THEOREM BackendsAgree == Spec => []StoresAgree
<1>1. StoreBounds
  BY BoundsAreNat, NullIsNoText DEF StoreBounds, Texts
<1>2. S!Spec => []S!StoresAgree
  BY <1>1, StoreAgreement
<1>3. S!StoresAgree => StoresAgree
  BY DEF StoresAgree, Of
<1>4. QED BY <1>2, <1>3, StoreAlone, PTL
=============================================================================
