--------------------------- MODULE ServicesProofs ---------------------------
(***************************************************************************)
(* The safety properties of the rest of Services: the queue of a channel   *)
(* and the name of a room; and the type invariant of all of it.            *)
(***************************************************************************)
EXTENDS PeopleProofs, TableProofs
-----------------------------------------------------------------------------
(***************************************************************************)
(* ChannelQueue.  A channel keeps one mutex for good and shares it with no *)
(* other (OneMutexEach); the tasks a mutex serves are those that wait for  *)
(* it or hold it, each once, the holder first (Served, Serves); and a task *)
(* stands behind those that had asked when it was enqueued (Behind).       *)
(***************************************************************************)

OneMutexEach ==
    /\ \A c, d \in Channels : queues[c] = queues[d] /\ queues[c] # Q!NoMutex => c = d
    /\ \A t \in Q!Tasks : task[t] # "new" => mutex[t] = queues[channel[t]] /\ mutex[t] # Q!NoMutex
    /\ \A t \in Q!Tasks : task[t] = "new" => made < t /\ asked[t] = {}

\* Who stands in a queue, and where.
Serves ==
    \A m \in Q!Mutexes : \A i \in 1..Len(waiting[m]) :
        /\ task[waiting[m][i]] \in {"waiting", "running"}
        /\ mutex[waiting[m][i]] = m
        /\ task[waiting[m][i]] = "running" => i = 1
        /\ \A j \in 1..Len(waiting[m]) : waiting[m][i] = waiting[m][j] => i = j

Served ==
    \A t \in Q!Tasks : task[t] \in {"waiting", "running"} =>
        \E i \in 1..Len(waiting[mutex[t]]) : waiting[mutex[t]][i] = t

Behind ==
    \A t \in Q!Tasks : \A s \in asked[t] : channel[s] = channel[t] =>
        /\ task[s] \in {"waiting", "running", "done"}
        /\ task[t] \in {"running", "done"} => task[s] = "done"
        /\ \A i, j \in 1..Len(waiting[mutex[t]]) :
              waiting[mutex[t]][i] = s /\ waiting[mutex[t]][j] = t => i < j

QueueInv == Q!TypeOK /\ OneMutexEach /\ Serves /\ Served /\ Behind
-----------------------------------------------------------------------------
\* A task that is not new has a mutex.
LEMMA HasMutex ==
  ASSUME Q!Bounds, QueueInv, NEW t \in Q!Tasks, task[t] # "new"
  PROVE  /\ mutex[t] \in Q!Mutexes
         /\ waiting[mutex[t]] \in Seq(Q!Tasks)
  BY DEF Q!Bounds, QueueInv, Q!TypeOK, OneMutexEach, Q!Mutexes, Q!NoMutex

\* Tasks of one channel have one mutex.
LEMMA SameMutex ==
  ASSUME QueueInv, NEW s \in Q!Tasks, NEW t \in Q!Tasks, task[s] # "new", task[t] # "new",
         channel[s] = channel[t]
  PROVE  mutex[s] = mutex[t]
  BY DEF QueueInv, OneMutexEach

\* A task stands once in a queue.
LEMMA QueueDistinct ==
  ASSUME QueueInv, NEW k \in Q!Mutexes, NEW i \in 1..Len(waiting[k]), NEW j \in 1..Len(waiting[k]),
         waiting[k][i] = waiting[k][j]
  PROVE  i = j
  BY DEF QueueInv, Serves

LEMMA QueueInitial == ASSUME Q!Bounds PROVE Q!Init => QueueInv
<1> SUFFICES ASSUME Q!Init PROVE QueueInv
  OBVIOUS
<1>1. Q!TypeOK
  BY DEF Q!Bounds, Q!Init, Q!TypeOK, Q!Tasks, Q!Mutexes, Q!NoMutex
<1>2. OneMutexEach
  BY DEF Q!Bounds, Q!Init, OneMutexEach, Q!Tasks, Q!NoMutex
<1>3. Serves /\ Served /\ Behind
  BY DEF Q!Init, Serves, Served, Behind
<1>4. QED BY <1>1, <1>2, <1>3 DEF QueueInv

LEMMA EnqueueStep ==
  ASSUME Q!Bounds, QueueInv, NEW t \in Q!Tasks, Q!Enqueue(t)
  PROVE  QueueInv'
<1> DEFINE c == channel[t]
<1>1. c \in Channels /\ t \in Nat /\ task[t] = "new" /\ made < t /\ t <= NumTasks /\ made \in Nat
  BY DEF Q!Bounds, QueueInv, Q!TypeOK, OneMutexEach, Q!Enqueue, Q!Tasks
<1>2. /\ queues' \in [Channels -> 0..made'] /\ made' \in 0..NumTasks
      /\ made <= made' /\ made' <= t
      /\ queues'[c] # Q!NoMutex
      /\ \A d \in Channels : d # c => queues'[d] = queues[d]
      /\ queues[c] # Q!NoMutex => queues'[c] = queues[c]
      /\ queues[c] = Q!NoMutex => queues'[c] = made + 1
  <2>1. CASE queues[c] = Q!NoMutex
    <3>1. made' = made + 1 /\ queues' = [queues EXCEPT ![c] = made + 1]
      BY <2>1 DEF Q!Enqueue, Q!MutexOf
    <3>2. queues \in [Channels -> 0..made]
      BY DEF QueueInv, Q!TypeOK
    <3>3. queues' \in [Channels -> 0..made + 1]
      BY <1>1, <3>1, <3>2
    <3>4. made' \in 0..NumTasks /\ made <= made' /\ made' <= t
      BY <1>1, <3>1 DEF Q!Bounds
    <3>5. QED BY <1>1, <2>1, <3>1, <3>2, <3>3, <3>4 DEF Q!NoMutex
  <2>2. CASE queues[c] # Q!NoMutex
    BY <1>1, <2>2 DEF Q!Bounds, QueueInv, Q!TypeOK, Q!Enqueue, Q!MutexOf, Q!NoMutex
  <2>3. QED BY <2>1, <2>2
<1>3. /\ mutex' = [mutex EXCEPT ![t] = queues'[c]] /\ task' = [task EXCEPT ![t] = "spawned"]
      /\ asked' = [asked EXCEPT ![t] = Q!HasAsked]
      /\ waiting' = waiting /\ channel' = channel
  BY DEF Q!Enqueue
<1>4. Q!TypeOK'
  <2>1. mutex' \in [Q!Tasks -> 0..made']
    BY <1>1, <1>2, <1>3 DEF QueueInv, Q!TypeOK
  <2>2. Q!HasAsked \in SUBSET Q!Tasks
    BY DEF Q!HasAsked
  <2>3. QED BY <1>2, <1>3, <2>1, <2>2 DEF QueueInv, Q!TypeOK
<1>5. OneMutexEach'
  <2>1. \A d, b \in Channels : queues'[d] = queues'[b] /\ queues'[d] # Q!NoMutex => d = b
    BY <1>1, <1>2 DEF QueueInv, Q!TypeOK, OneMutexEach, Q!NoMutex
  <2>2. \A s \in Q!Tasks : task'[s] # "new" => mutex'[s] = queues'[channel[s]] /\ mutex'[s] # Q!NoMutex
    BY <1>1, <1>2, <1>3 DEF QueueInv, Q!TypeOK, OneMutexEach
  <2>3. \A s \in Q!Tasks : task'[s] = "new" => t < s /\ asked'[s] = {}
    BY <1>1, <1>3 DEF QueueInv, Q!TypeOK, OneMutexEach, Q!Enqueue, Q!Tasks
  <2>4. \A s \in Q!Tasks : task'[s] = "new" => made' < s /\ asked'[s] = {}
    BY <1>1, <1>2, <2>3 DEF Q!Tasks
  <2>5. QED BY <1>3, <2>1, <2>2, <2>4 DEF OneMutexEach
<1>6. \A m \in Q!Mutexes : \A i \in 1..Len(waiting[m]) : waiting[m][i] \in Q!Tasks \ {t}
  BY <1>1 DEF QueueInv, Q!TypeOK, Serves
<1>7. Serves'
  BY <1>3, <1>6 DEF QueueInv, Q!TypeOK, Serves
<1>8. Served'
  BY <1>1, <1>3 DEF QueueInv, Q!TypeOK, Served
<1>9. Behind'
  <2> SUFFICES ASSUME NEW u \in Q!Tasks, NEW s \in asked'[u], channel'[s] = channel'[u]
               PROVE  /\ task'[s] \in {"waiting", "running", "done"}
                      /\ task'[u] \in {"running", "done"} => task'[s] = "done"
                      /\ \A i, j \in 1..Len(waiting'[mutex'[u]]) :
                            waiting'[mutex'[u]][i] = s /\ waiting'[mutex'[u]][j] = u => i < j
    BY DEF Behind
  <2>1. CASE u = t
    <3>1. s \in Q!Tasks /\ task[s] \in {"waiting", "running", "done"} /\ task'[s] = task[s]
      BY <1>1, <1>3, <2>1 DEF QueueInv, Q!TypeOK, Q!HasAsked
    <3>2. task'[u] = "spawned"
      BY <1>3, <2>1 DEF QueueInv, Q!TypeOK
    <3>3. mutex'[u] \in Q!Mutexes
      <4>1. queues' \in [Channels -> 0..made'] /\ made' \in 0..NumTasks
        BY <1>1, <1>2, <1>3
      <4>2. channel[t] \in Channels /\ mutex'[t] = queues'[channel[t]]
        BY <1>3 DEF QueueInv, Q!TypeOK
      <4>3. queues'[channel[t]] # Q!NoMutex
        BY <1>1, <1>2, <1>3
      <4>4. QED BY <2>1, <4>1, <4>2, <4>3 DEF Q!Bounds, Q!Mutexes, Q!NoMutex
    <3>4. \A j \in 1..Len(waiting[mutex'[u]]) : waiting[mutex'[u]][j] # u
      BY <1>6, <2>1, <3>3
    <3>5. QED BY <1>3, <3>1, <3>2, <3>4
  <2>2. CASE u # t
    <3>1. s \in asked[u] /\ s \in Q!Tasks /\ mutex'[u] = mutex[u] /\ task'[u] = task[u]
      BY <1>3, <2>2 DEF QueueInv, Q!TypeOK
    <3>2. task[s] \in {"waiting", "running", "done"} /\ task'[s] = task[s]
      BY <1>1, <1>3, <3>1 DEF QueueInv, Q!TypeOK, Behind
    <3>3. /\ task[u] \in {"running", "done"} => task[s] = "done"
          /\ \A i, j \in 1..Len(waiting[mutex[u]]) :
                waiting[mutex[u]][i] = s /\ waiting[mutex[u]][j] = u => i < j
      BY <1>3, <3>1 DEF QueueInv, Behind
    <3>4. waiting' = waiting
      BY <1>3
    <3>5. QED BY <3>1, <3>2, <3>3, <3>4
  <2>3. QED BY <2>1, <2>2
<1>10. QED BY <1>4, <1>5, <1>7, <1>8, <1>9 DEF QueueInv

LEMMA AskStep ==
  ASSUME Q!Bounds, QueueInv, NEW t \in Q!Tasks, Q!Ask(t)
  PROVE  QueueInv'
<1> DEFINE m == mutex[t]
           n == Len(waiting[m])
<1>1. m \in Q!Mutexes /\ waiting[m] \in Seq(Q!Tasks) /\ task[t] = "spawned" /\ n \in Nat
  BY HasMutex DEF Q!Ask
<1>2. /\ task' = [task EXCEPT ![t] = "waiting"]
      /\ UNCHANGED <<queues, channel, mutex, made, asked>>
  BY DEF Q!Ask
<1>3. waiting' = [waiting EXCEPT ![m] = Append(waiting[m], t)]
  BY DEF Q!Ask
<1>4. /\ waiting' \in [Q!Mutexes -> Seq(Q!Tasks)]
      /\ \A k \in Q!Mutexes : k # m => waiting'[k] = waiting[k]
      /\ Len(waiting'[m]) = n + 1 /\ waiting'[m][n + 1] = t
      /\ \A i \in 1..n : waiting'[m][i] = waiting[m][i]
  BY <1>1, <1>3 DEF QueueInv, Q!TypeOK
<1>5. Q!TypeOK'
  BY <1>2, <1>4 DEF QueueInv, Q!TypeOK
<1>6. OneMutexEach'
  BY <1>1, <1>2 DEF QueueInv, Q!TypeOK, OneMutexEach
<1>7. \A k \in Q!Mutexes : \A i \in 1..Len(waiting[k]) : waiting[k][i] \in Q!Tasks \ {t}
  BY <1>1 DEF QueueInv, Q!TypeOK, Serves
<1>8. Serves'
  <2> SUFFICES ASSUME NEW k \in Q!Mutexes, NEW i \in 1..Len(waiting'[k])
               PROVE  /\ task'[waiting'[k][i]] \in {"waiting", "running"}
                      /\ mutex'[waiting'[k][i]] = k
                      /\ task'[waiting'[k][i]] = "running" => i = 1
                      /\ \A j \in 1..Len(waiting'[k]) : waiting'[k][i] = waiting'[k][j] => i = j
    BY DEF Serves
  <2>1. CASE k # m
    <3>1. waiting'[k] = waiting[k] /\ i \in 1..Len(waiting[k]) /\ waiting[k][i] \in Q!Tasks \ {t}
      BY <1>4, <1>7, <2>1
    <3>2. task'[waiting'[k][i]] = task[waiting[k][i]] /\ mutex'[waiting'[k][i]] = mutex[waiting[k][i]]
      BY <1>2, <3>1 DEF QueueInv, Q!TypeOK
    <3>3. QED BY <3>1, <3>2 DEF QueueInv, Serves
  <2>2. CASE k = m /\ i = n + 1
    <3>1. waiting'[k][i] = t
      BY <1>4, <2>2
    <3>2. task'[t] = "waiting" /\ mutex'[t] = k
      BY <1>2, <2>2 DEF QueueInv, Q!TypeOK
    <3>3. \A j \in 1..Len(waiting'[k]) : waiting'[k][i] = waiting'[k][j] => i = j
      <4> SUFFICES ASSUME NEW j \in 1..Len(waiting'[k]), waiting'[k][j] = t, i # j PROVE FALSE
        BY <3>1
      <4>1. j \in 1..n /\ waiting[m][j] = t
        BY <1>1, <1>4, <2>2
      <4>2. QED BY <1>1, <1>7, <4>1
    <3>4. QED BY <3>1, <3>2, <3>3
  <2>3. CASE k = m /\ i # n + 1
    <3>1. i \in 1..n /\ waiting'[k][i] = waiting[m][i] /\ waiting[m][i] \in Q!Tasks \ {t}
      BY <1>1, <1>4, <1>7, <2>3
    <3>2. task'[waiting'[k][i]] = task[waiting[m][i]] /\ mutex'[waiting'[k][i]] = mutex[waiting[m][i]]
      BY <1>2, <3>1 DEF QueueInv, Q!TypeOK
    <3>3. \A j \in 1..Len(waiting'[k]) : waiting'[k][i] = waiting'[k][j] => i = j
      <4> SUFFICES ASSUME NEW j \in 1..Len(waiting'[k]), waiting'[k][i] = waiting'[k][j]
                   PROVE  i = j
        OBVIOUS
      <4>1. CASE j = n + 1
        BY <1>4, <2>3, <3>1, <4>1
      <4>2. CASE j # n + 1
        <5>1. j \in 1..n /\ waiting'[k][j] = waiting[m][j]
          BY <1>1, <1>4, <2>3, <4>2
        <5>2. waiting[m][i] = waiting[m][j]
          BY <3>1, <5>1
        <5>3. QED BY <1>1, <3>1, <5>1, <5>2, QueueDistinct
      <4>3. QED BY <4>1, <4>2
    <3>4. QED BY <1>1, <2>3, <3>1, <3>2, <3>3 DEF QueueInv, Serves
  <2>4. QED BY <2>1, <2>2, <2>3
<1>9. Served'
  <2> SUFFICES ASSUME NEW u \in Q!Tasks, task'[u] \in {"waiting", "running"}
               PROVE  \E i \in 1..Len(waiting'[mutex'[u]]) : waiting'[mutex'[u]][i] = u
    BY DEF Served
  <2>1. CASE u = t
    BY <1>1, <1>2, <1>4, <2>1
  <2>2. CASE u # t
    <3>1. task[u] \in {"waiting", "running"} /\ mutex'[u] = mutex[u]
      BY <1>2, <2>2 DEF QueueInv, Q!TypeOK
    <3>2. PICK i \in 1..Len(waiting[mutex[u]]) : waiting[mutex[u]][i] = u
      BY <3>1 DEF QueueInv, Served
    <3>3. mutex[u] \in Q!Mutexes
      BY <3>1, HasMutex
    <3>4. i \in 1..Len(waiting'[mutex[u]]) /\ waiting'[mutex[u]][i] = u
      <4>1. CASE mutex[u] = m
        <5>1. i \in 1..n /\ waiting[m][i] = u
          BY <3>2, <4>1
        <5>2. QED BY <1>1, <1>4, <4>1, <5>1
      <4>2. CASE mutex[u] # m
        <5>1. waiting'[mutex[u]] = waiting[mutex[u]]
          BY <1>4, <3>3, <4>2
        <5>2. QED BY <3>2, <5>1
      <4>3. QED BY <4>1, <4>2
    <3>5. QED BY <3>1, <3>4
  <2>3. QED BY <2>1, <2>2
<1>10. Behind'
  <2> SUFFICES ASSUME NEW u \in Q!Tasks, NEW s \in asked[u], channel[s] = channel[u]
               PROVE  /\ task'[s] \in {"waiting", "running", "done"}
                      /\ task'[u] \in {"running", "done"} => task'[s] = "done"
                      /\ \A i, j \in 1..Len(waiting'[mutex[u]]) :
                            waiting'[mutex[u]][i] = s /\ waiting'[mutex[u]][j] = u => i < j
    BY <1>2 DEF Behind
  <2>1. s \in Q!Tasks /\ s # t /\ task'[s] = task[s] /\ task[s] \in {"waiting", "running", "done"}
    BY <1>1, <1>2 DEF QueueInv, Q!TypeOK, Behind
  <2>2. task'[u] \in {"running", "done"} => task[u] = task'[u]
    BY <1>2 DEF QueueInv, Q!TypeOK
  <2>3. task[u] # "new"
    BY DEF QueueInv, OneMutexEach
  <2>4. mutex[u] \in Q!Mutexes
    BY <2>3, HasMutex
  <2>5. ASSUME NEW i \in 1..Len(waiting'[mutex[u]]), NEW j \in 1..Len(waiting'[mutex[u]]),
               waiting'[mutex[u]][i] = s, waiting'[mutex[u]][j] = u
        PROVE  i < j
    <3>1. CASE mutex[u] # m
      <4>1. waiting'[mutex[u]] = waiting[mutex[u]]
        BY <1>4, <2>4, <3>1
      <4>2. QED BY <2>5, <4>1 DEF QueueInv, Behind
    <3>2. CASE mutex[u] = m
      <4>1. i \in 1..n /\ waiting[m][i] = s
        <5>1. i \in 1..n + 1 /\ waiting'[m][i] = s
          BY <1>4, <2>5, <3>2
        <5>2. i # n + 1
          BY <1>4, <2>1, <5>1
        <5>3. QED BY <1>1, <1>4, <5>1, <5>2
      <4>2. CASE j = n + 1
        BY <1>1, <4>1, <4>2
      <4>3. CASE j # n + 1
        <5>1. j \in 1..n /\ waiting[m][j] = u
          BY <1>1, <1>4, <2>5, <3>2, <4>3
        <5>2. QED BY <3>2, <4>1, <5>1 DEF QueueInv, Behind
      <4>4. QED BY <4>2, <4>3
    <3>3. QED BY <3>1, <3>2
  <2>6. QED BY <2>1, <2>2, <2>5 DEF QueueInv, Behind
<1>11. QED BY <1>5, <1>6, <1>8, <1>9, <1>10 DEF QueueInv

LEMMA RunStep ==
  ASSUME Q!Bounds, QueueInv, NEW t \in Q!Tasks, Q!Run(t)
  PROVE  QueueInv'
<1> DEFINE m == mutex[t]
<1>1. m \in Q!Mutexes /\ waiting[m] \in Seq(Q!Tasks) /\ task[t] = "waiting"
  BY HasMutex DEF Q!Run
<1>2. /\ task' = [task EXCEPT ![t] = "running"]
      /\ UNCHANGED <<queues, waiting, channel, mutex, made, asked>>
  BY DEF Q!Run
<1>3. Len(waiting[m]) \in Nat /\ 1 \in 1..Len(waiting[m]) /\ waiting[m][1] = t
  <2>1. PICK i \in 1..Len(waiting[m]) : waiting[m][i] = t
    BY <1>1 DEF QueueInv, Served
  <2>2. QED BY <1>1, <2>1 DEF Q!Run
<1>4. Q!TypeOK'
  BY <1>2 DEF QueueInv, Q!TypeOK
<1>5. OneMutexEach'
  BY <1>1, <1>2 DEF QueueInv, Q!TypeOK, OneMutexEach
<1>6. Serves'
  <2> SUFFICES ASSUME NEW k \in Q!Mutexes, NEW i \in 1..Len(waiting[k])
               PROVE  /\ task'[waiting[k][i]] \in {"waiting", "running"}
                      /\ mutex[waiting[k][i]] = k
                      /\ task'[waiting[k][i]] = "running" => i = 1
                      /\ \A j \in 1..Len(waiting[k]) : waiting[k][i] = waiting[k][j] => i = j
    BY <1>2 DEF Serves
  <2>1. waiting[k][i] \in Q!Tasks /\ mutex[waiting[k][i]] = k
    BY DEF QueueInv, Q!TypeOK, Serves
  <2>2. CASE waiting[k][i] = t
    <3>1. k = m /\ i = 1
      BY <1>3, <2>1, <2>2 DEF QueueInv, Serves
    <3>2. QED BY <1>2, <2>1, <2>2, <3>1 DEF QueueInv, Q!TypeOK, Serves
  <2>3. CASE waiting[k][i] # t
    BY <1>2, <2>1, <2>3 DEF QueueInv, Q!TypeOK, Serves
  <2>4. QED BY <2>2, <2>3
<1>7. Served'
  BY <1>1, <1>2 DEF QueueInv, Q!TypeOK, Served
<1>8. Behind'
  <2> SUFFICES ASSUME NEW u \in Q!Tasks, NEW s \in asked[u], channel[s] = channel[u]
               PROVE  /\ task'[s] \in {"waiting", "running", "done"}
                      /\ task'[u] \in {"running", "done"} => task'[s] = "done"
                      /\ \A i, j \in 1..Len(waiting[mutex[u]]) :
                            waiting[mutex[u]][i] = s /\ waiting[mutex[u]][j] = u => i < j
    BY <1>2 DEF Behind
  <2>1. s \in Q!Tasks /\ task[s] \in {"waiting", "running", "done"} /\ task[u] # "new"
    BY DEF QueueInv, Q!TypeOK, OneMutexEach, Behind
  <2>2. task'[s] \in {"waiting", "running", "done"} /\ (task[s] = "done" => task'[s] = "done")
    BY <1>1, <1>2, <2>1 DEF QueueInv, Q!TypeOK
  <2>3. CASE u = t
    <3>1. task[s] = "done"
      <4> SUFFICES ASSUME task[s] # "done" PROVE FALSE
        OBVIOUS
      <4>1. mutex[s] = m
        BY <2>1, <2>3, SameMutex
      <4>2. PICK i \in 1..Len(waiting[m]) : waiting[m][i] = s
        BY <2>1, <4>1 DEF QueueInv, Served
      <4>3. i < 1
        BY <1>3, <2>3, <4>2 DEF QueueInv, Behind
      <4>4. QED BY <1>3, <4>3
    <3>2. QED BY <2>2, <3>1 DEF QueueInv, Behind
  <2>4. CASE u # t
    <3>1. task'[u] = task[u]
      BY <1>2, <2>4 DEF QueueInv, Q!TypeOK
    <3>2. QED BY <2>2, <3>1 DEF QueueInv, Behind
  <2>5. QED BY <2>3, <2>4
<1>9. QED BY <1>4, <1>5, <1>6, <1>7, <1>8 DEF QueueInv

LEMMA EndStep ==
  ASSUME Q!Bounds, QueueInv, NEW t \in Q!Tasks, Q!End(t)
  PROVE  QueueInv'
<1> DEFINE m == mutex[t]
           n == Len(waiting[m])
<1>1. m \in Q!Mutexes /\ waiting[m] \in Seq(Q!Tasks) /\ task[t] = "running" /\ n \in Nat
  BY HasMutex DEF Q!End
<1>2. /\ task' = [task EXCEPT ![t] = "done"]
      /\ UNCHANGED <<queues, channel, mutex, made, asked>>
  BY DEF Q!End
<1>3. waiting' = [waiting EXCEPT ![m] = Tail(waiting[m])]
  BY DEF Q!End
<1>4. n >= 1 /\ waiting[m][1] = t
  <2>1. PICK i \in 1..n : waiting[m][i] = t
    BY <1>1 DEF QueueInv, Served
  <2>2. i = 1
    BY <1>1, <2>1 DEF QueueInv, Serves
  <2>3. QED BY <1>1, <2>1, <2>2
<1>5. waiting[m] # <<>>
  BY <1>1, <1>4
<1>6. /\ waiting' \in [Q!Mutexes -> Seq(Q!Tasks)]
      /\ \A k \in Q!Mutexes : k # m => waiting'[k] = waiting[k]
      /\ Len(waiting'[m]) = n - 1
      /\ \A i \in 1..n - 1 : waiting'[m][i] = waiting[m][i + 1]
  BY <1>1, <1>3, <1>5 DEF QueueInv, Q!TypeOK
<1>7. Q!TypeOK'
  BY <1>2, <1>6 DEF QueueInv, Q!TypeOK
<1>8. OneMutexEach'
  BY <1>1, <1>2 DEF QueueInv, Q!TypeOK, OneMutexEach
<1>9. Serves'
  <2> SUFFICES ASSUME NEW k \in Q!Mutexes, NEW i \in 1..Len(waiting'[k])
               PROVE  /\ task'[waiting'[k][i]] \in {"waiting", "running"}
                      /\ mutex[waiting'[k][i]] = k
                      /\ task'[waiting'[k][i]] = "running" => i = 1
                      /\ \A j \in 1..Len(waiting'[k]) : waiting'[k][i] = waiting'[k][j] => i = j
    BY <1>2 DEF Serves
  <2>1. CASE k # m
    <3>1. waiting'[k] = waiting[k] /\ waiting[k][i] \in Q!Tasks /\ mutex[waiting[k][i]] = k
      <4>1. waiting'[k] = waiting[k] /\ i \in 1..Len(waiting[k])
        BY <1>6, <2>1
      <4>2. waiting[k] \in Seq(Q!Tasks)
        BY DEF QueueInv, Q!TypeOK
      <4>3. QED BY <4>1, <4>2 DEF QueueInv, Serves
    <3>2. waiting[k][i] # t
      BY <2>1, <3>1
    <3>3. QED BY <1>2, <3>1, <3>2 DEF QueueInv, Q!TypeOK, Serves
  <2>2. CASE k = m
    <3>1. i \in 1..n - 1 /\ i + 1 \in 1..n /\ waiting'[k][i] = waiting[m][i + 1]
      BY <1>1, <1>4, <1>6, <2>2
    <3>2. /\ waiting[m][i + 1] \in Q!Tasks /\ waiting[m][i + 1] # t
          /\ task[waiting[m][i + 1]] = "waiting" /\ mutex[waiting[m][i + 1]] = m
      BY <1>1, <1>4, <3>1 DEF QueueInv, Q!TypeOK, Serves
    <3>3. \A j \in 1..Len(waiting'[k]) : waiting'[k][i] = waiting'[k][j] => i = j
      <4> SUFFICES ASSUME NEW j \in 1..Len(waiting'[k]), waiting'[k][i] = waiting'[k][j]
                   PROVE  i = j
        OBVIOUS
      <4>1. j \in 1..n - 1 /\ j + 1 \in 1..n /\ waiting[m][i + 1] = waiting[m][j + 1]
        BY <1>1, <1>4, <1>6, <2>2, <3>1
      <4>2. i + 1 = j + 1
        BY <1>1, <3>1, <4>1 DEF QueueInv, Serves
      <4>3. QED BY <3>1, <4>1, <4>2
    <3>4. QED BY <1>2, <2>2, <3>1, <3>2, <3>3 DEF QueueInv, Q!TypeOK
  <2>3. QED BY <2>1, <2>2
<1>10. Served'
  <2> SUFFICES ASSUME NEW u \in Q!Tasks, task'[u] \in {"waiting", "running"}
               PROVE  \E i \in 1..Len(waiting'[mutex[u]]) : waiting'[mutex[u]][i] = u
    BY <1>2 DEF Served
  <2>1. u # t /\ task[u] \in {"waiting", "running"}
    BY <1>2 DEF QueueInv, Q!TypeOK
  <2>2. PICK i \in 1..Len(waiting[mutex[u]]) : waiting[mutex[u]][i] = u
    BY <2>1 DEF QueueInv, Served
  <2>3. mutex[u] \in Q!Mutexes
    BY <2>1, HasMutex
  <2>4. CASE mutex[u] # m
    BY <1>6, <2>2, <2>3, <2>4
  <2>5. CASE mutex[u] = m
    <3>1. i # 1 /\ i \in 1..n
      BY <1>4, <2>1, <2>2, <2>5
    <3>2. i - 1 \in 1..n - 1 /\ waiting'[m][i - 1] = u
      BY <1>1, <1>6, <2>2, <2>5, <3>1
    <3>3. QED BY <1>1, <1>6, <2>5, <3>2
  <2>6. QED BY <2>4, <2>5
<1>11. Behind'
  <2> SUFFICES ASSUME NEW u \in Q!Tasks, NEW s \in asked[u], channel[s] = channel[u]
               PROVE  /\ task'[s] \in {"waiting", "running", "done"}
                      /\ task'[u] \in {"running", "done"} => task'[s] = "done"
                      /\ \A i, j \in 1..Len(waiting'[mutex[u]]) :
                            waiting'[mutex[u]][i] = s /\ waiting'[mutex[u]][j] = u => i < j
    BY <1>2 DEF Behind
  <2>1. s \in Q!Tasks /\ task[s] \in {"waiting", "running", "done"} /\ task[u] # "new"
    BY DEF QueueInv, Q!TypeOK, OneMutexEach, Behind
  <2>2. task'[s] \in {"waiting", "running", "done"} /\ (task[s] = "done" => task'[s] = "done")
    BY <1>1, <1>2, <2>1 DEF QueueInv, Q!TypeOK
  <2>3. task'[u] \in {"running", "done"} => task[u] \in {"running", "done"}
    BY <1>1, <1>2 DEF QueueInv, Q!TypeOK
  <2>4. mutex[u] \in Q!Mutexes
    BY <2>1, HasMutex
  <2>5. ASSUME NEW i \in 1..Len(waiting'[mutex[u]]), NEW j \in 1..Len(waiting'[mutex[u]]),
               waiting'[mutex[u]][i] = s, waiting'[mutex[u]][j] = u
        PROVE  i < j
    <3>1. CASE mutex[u] # m
      <4>1. waiting'[mutex[u]] = waiting[mutex[u]]
        BY <1>6, <2>4, <3>1
      <4>2. QED BY <2>5, <4>1 DEF QueueInv, Behind
    <3>2. CASE mutex[u] = m
      <4>1. /\ i \in 1..n - 1 /\ i + 1 \in 1..n /\ waiting[m][i + 1] = s
            /\ j \in 1..n - 1 /\ j + 1 \in 1..n /\ waiting[m][j + 1] = u
        <5>1. i \in 1..n - 1 /\ waiting'[m][i] = s /\ j \in 1..n - 1 /\ waiting'[m][j] = u
          BY <1>6, <2>5, <3>2
        <5>2. QED BY <1>1, <1>4, <1>6, <5>1
      <4>2. i + 1 < j + 1
        BY <3>2, <4>1 DEF QueueInv, Behind
      <4>3. QED BY <4>1, <4>2
    <3>3. QED BY <3>1, <3>2
  <2>6. QED BY <2>2, <2>3, <2>5 DEF QueueInv, Behind
<1>12. QED BY <1>7, <1>8, <1>9, <1>10, <1>11 DEF QueueInv

LEMMA QueueNextInv == ASSUME Q!Bounds PROVE QueueInv /\ [Q!Next]_(Q!vars) => QueueInv'
<1> SUFFICES ASSUME QueueInv, [Q!Next]_(Q!vars) PROVE QueueInv'
  OBVIOUS
<1>1. CASE \E t \in Q!Tasks : Q!Enqueue(t)
  BY <1>1, EnqueueStep
<1>2. CASE \E t \in Q!Tasks : Q!Ask(t)
  BY <1>2, AskStep
<1>3. CASE \E t \in Q!Tasks : Q!Run(t)
  BY <1>3, RunStep
<1>4. CASE \E t \in Q!Tasks : Q!End(t)
  BY <1>4, EndStep
<1>5. CASE UNCHANGED Q!vars
  BY <1>5 DEF QueueInv, Q!TypeOK, OneMutexEach, Serves, Served, Behind, Q!vars
<1>6. QED BY <1>1, <1>2, <1>3, <1>4, <1>5 DEF Q!Next

LEMMA QueueInvariance == ASSUME Q!Bounds PROVE Q!Spec => []QueueInv
<1>1. Q!Init => QueueInv
  BY QueueInitial
<1>2. QueueInv /\ [Q!Next]_(Q!vars) => QueueInv'
  BY QueueNextInv
<1>3. QED BY <1>1, <1>2, PTL DEF Q!Spec

LEMMA FirstIsAlone == ASSUME Q!Bounds PROVE QueueInv => Q!OneAtATime
<1> SUFFICES ASSUME QueueInv, NEW s \in Q!Tasks, NEW t \in Q!Tasks, channel[s] = channel[t],
                    task[s] = "running", task[t] = "running"
             PROVE  s = t
  BY DEF Q!OneAtATime
<1>1. mutex[s] = mutex[t] /\ mutex[t] \in Q!Mutexes
  BY SameMutex, HasMutex
<1>2. PICK i \in 1..Len(waiting[mutex[t]]) : waiting[mutex[t]][i] = s
  BY <1>1 DEF QueueInv, Served
<1>3. PICK j \in 1..Len(waiting[mutex[t]]) : waiting[mutex[t]][j] = t
  BY DEF QueueInv, Served
<1>4. i = 1 /\ j = 1
  BY <1>1, <1>2, <1>3 DEF QueueInv, Serves
<1>5. QED BY <1>2, <1>3, <1>4

LEMMA BehindIsInOrder == QueueInv => Q!TurnsInOrder
  BY DEF QueueInv, Behind, Q!TurnsInOrder
-----------------------------------------------------------------------------
\* Mutexes, queues and tasks keep their types for any number of channels and tasks
\* (enqueue, enqueue_fut).
LEMMA QueueTypes == ASSUME Q!Bounds PROVE Q!Spec => []Q!TypeOK
<1>1. QueueInv => Q!TypeOK
  BY DEF QueueInv
<1>2. QED BY <1>1, QueueInvariance, PTL

\* No two tasks of a channel ever run at once, since a channel keeps one mutex
\* (queue.rs:22).
THEOREM TasksExclude == ASSUME Q!Bounds PROVE Q!Spec => []Q!OneAtATime
<1>1. QueueInv => Q!OneAtATime
  BY FirstIsAlone
<1>2. QED BY <1>1, QueueInvariance, PTL

\* A task is overtaken by a later one of its channel only if it had not asked for the
\* mutex when that one was enqueued (queue.rs:31).
LEMMA QueueTurns == ASSUME Q!Bounds PROVE Q!Spec => []Q!TurnsInOrder
  BY QueueInvariance, BehindIsInOrder, PTL

\* A behaviour of the services is one of ChannelQueue.
LEMMA QueueAlone == Spec => Q!Spec
<1>1. Init => Q!Init
  BY DEF Init
<1>2. [Next]_vars => [Q!Next]_(Q!vars)
  BY DEF Next, vars, pVars, qVars, eVars, rVars, uVars, bVars, mVars, gVars, sVars, Q!vars
<1>3. QED BY <1>1, <1>2, PTL DEF Spec, Q!Spec

\* A task is overtaken by a later one of its channel only if it had not asked for the
\* mutex when that one was enqueued (queue.rs:31).
THEOREM TurnsAreInOrder == Spec => []TurnsInOrder
<1>1. Q!Bounds
  BY BoundsAreNat DEF Q!Bounds
<1>2. Q!Spec => []Q!TurnsInOrder
  BY <1>1, QueueTurns
<1>3. Q!TurnsInOrder => TurnsInOrder
  BY DEF TurnsInOrder, Of
<1>4. QED BY <1>2, <1>3, QueueAlone, PTL
-----------------------------------------------------------------------------
(***************************************************************************)
(* RoomMeta.  Only the names the loop makes itself are formatted, and once *)
(* (Layers).  Nothing comes behind the event of its archiving while a      *)
(* channel is archived, nor behind the rename while it has not been        *)
(* archived since (ArchivedLast).  The last rename on its way has the name *)
(* of the channel (LastIsCurrent); with none on its way the room has that  *)
(* name, or Slack will be told another (RoomFollows).  The prefix is there *)
(* once an archiving is handled, unless the room is renamed again, and     *)
(* gone once a rename behind it is (PrefixFollows).                        *)
(***************************************************************************)

\* A refusal counts as a fault, so there is room for one.
RoomBounds == MaxRenames \in Nat /\ MaxFaults \in Nat \ {0}

Envelope == [kind : {"rename", "archive"}, name : R!Name]
RoomEvent == [by : {"person", "bot"}, name : R!Name]
Archiving == {"archive", "notice", "read", "prefix"}
Renaming == {"rename", "compare", "set"}

RoomShape ==
    /\ rSlack \in R!Name /\ room \in R!Name /\ rRow \in R!Name
    /\ subject \in {"name", "topic"} /\ purpose \in RoomTexts \cup {R!NoPurpose}
    /\ archived \in BOOLEAN /\ stamped \in BOOLEAN /\ namePrefix \in BOOLEAN
    /\ envelopes \in Seq(Envelope) /\ events \in Seq(RoomEvent)
    /\ loop \in [at : R!LoopSteps, name : R!NameOrNone]
    /\ txn \in [at : {"idle", "rename"}, name : R!NameOrNone]
    /\ renames \in 0..MaxRenames /\ rFaults \in 0..MaxFaults

\* A name a person chose: nothing has been added to it.
Bare(n) == n.pattern = 0 /\ n.prefix = 0
PatternOnly == IF subject = "name" THEN 1 ELSE 0

\* Only the loop's own names and those of the room are formatted, and once; without a
\* prefix configured none is added.
Layers ==
    /\ Bare(rSlack) /\ room.pattern <= 1
    /\ \A i \in 1..Len(envelopes) : Bare(envelopes[i].name)
    /\ \A i \in 1..Len(events) : events[i].by = "person" => Bare(events[i].name)
    /\ txn.at = "rename" => txn.name \in R!Name /\ Bare(txn.name)
    /\ loop.at # "idle" => loop.name \in R!Name
    /\ loop.at = "rename" => Bare(loop.name)
    /\ loop.at \in {"compare", "set", "update"} =>
          loop.name.pattern = PatternOnly /\ loop.name.prefix = 0
    /\ loop.at = "update" => subject = "name"
    /\ loop.at = "prefix" => loop.name.pattern <= 1
    /\ ~namePrefix => room.prefix = 0 /\ loop.at \notin {"read", "prefix"}

OnlyNames == archived => subject = "name"

LastKind == envelopes[Len(envelopes)].kind

\* Nothing is behind the event of the archiving in an archived channel, and nothing
\* behind the rename in one not archived since.
ArchivedLast ==
    /\ archived => IF envelopes = <<>> THEN loop.at \in {"idle"} \cup Archiving
                   ELSE LastKind = "archive"
    /\ ~stamped => IF envelopes = <<>> THEN loop.at \notin Archiving
                   ELSE LastKind = "rename"

PersonAt(i) == events[i].by = "person"
PersonPending == txn.at = "rename" \/ \E i \in 1..Len(events) : PersonAt(i)

\* Slack will be given a name it does not have.
RoomAhead ==
    \/ txn.at = "rename" /\ txn.name # rSlack
    \/ \E i \in 1..Len(events) : PersonAt(i) /\ events[i].name # rSlack

Current(n) == n.text \in {rSlack.text, purpose}
LastRename(i) ==
    /\ envelopes[i].kind = "rename"
    /\ \A j \in i+1..Len(envelopes) : envelopes[j].kind # "rename"
RenameIn == \E i \in 1..Len(envelopes) : envelopes[i].kind = "rename"

\* The last rename on its way or in hand has the name of the channel, or its purpose.
LastIsCurrent ==
    /\ \A i \in 1..Len(envelopes) : LastRename(i) => Current(envelopes[i].name)
    /\ ~RenameIn /\ loop.at \in Renaming => Current(loop.name)

\* With every rename of the channel handled, the room has its name, and so has the name
\* that is about to get a prefix, or Slack will be told another.
RoomFollows == rFaults = 0 /\ ~RenameIn /\ loop.at \notin Renaming =>
    /\ Current(room) \/ RoomAhead
    /\ loop.at = "prefix" => Current(loop.name) \/ RoomAhead

\* The prefix is there once the archiving is handled, unless the room is renamed again,
\* and gone once a rename after it is.
PrefixFollows == rFaults = 0 =>
    /\ archived /\ namePrefix /\ envelopes = <<>> /\ loop.at = "idle" =>
          room.prefix > 0 \/ PersonPending
    /\ ~stamped /\ ~RenameIn /\ loop.at \notin Renaming => room.prefix = 0

RoomInv == RoomShape /\ Layers /\ OnlyNames /\ ArchivedLast /\ LastIsCurrent /\ RoomFollows /\ PrefixFollows
-----------------------------------------------------------------------------
LEMMA RoomInitial == RoomBounds /\ R!Init => RoomInv
<1> SUFFICES ASSUME RoomBounds, R!Init PROVE RoomInv
  OBVIOUS
<1>1. PICK t \in RoomTexts : rSlack = R!Chosen(t) /\ room = R!Formatted(R!Chosen(t)) /\ rRow = R!Chosen(t)
  BY DEF R!Init
<1>2. /\ R!Chosen(t) \in R!Name /\ Bare(R!Chosen(t)) /\ R!Chosen(t).text = t
      /\ room \in R!Name /\ room.pattern <= 1 /\ room.prefix = 0 /\ room.text = t
  BY <1>1 DEF R!Chosen, R!Name, R!MaxLayers, Bare, R!Formatted
<1>3. /\ rSlack = R!Chosen(t) /\ rRow = R!Chosen(t) /\ purpose = R!NoPurpose
      /\ archived = FALSE /\ stamped = FALSE /\ namePrefix \in BOOLEAN
      /\ envelopes = <<>> /\ events = <<>> /\ loop = R!IdleAt /\ txn = R!IdleAt
      /\ renames = 0 /\ rFaults = 0 /\ subject \in {"name", "topic"}
  BY <1>1 DEF R!Init
<1>4. RoomShape
  <2>1. /\ R!IdleAt \in [at : R!LoopSteps, name : R!NameOrNone]
        /\ R!IdleAt \in [at : {"idle", "rename"}, name : R!NameOrNone] /\ R!IdleAt.at = "idle"
    BY DEF R!IdleAt, R!LoopSteps, R!NameOrNone
  <2>2. 0 \in 0..MaxRenames /\ 0 \in 0..MaxFaults
    BY DEF RoomBounds
  <2>3. <<>> \in Seq(Envelope) /\ <<>> \in Seq(RoomEvent)
    OBVIOUS
  <2>4. rSlack \in R!Name /\ room \in R!Name /\ rRow \in R!Name /\ purpose \in RoomTexts \cup {R!NoPurpose}
    BY <1>2, <1>3
  <2>5. loop \in [at : R!LoopSteps, name : R!NameOrNone] /\ txn \in [at : {"idle", "rename"}, name : R!NameOrNone]
    BY <1>3, <2>1
  <2>6. /\ archived \in BOOLEAN /\ stamped \in BOOLEAN /\ namePrefix \in BOOLEAN
        /\ renames \in 0..MaxRenames /\ rFaults \in 0..MaxFaults
    BY <1>3, <2>2
  <2>7. QED BY <1>3, <2>3, <2>4, <2>5, <2>6 DEF RoomShape
<1>5. /\ loop.at = "idle" /\ txn.at = "idle" /\ Len(envelopes) = 0 /\ Len(events) = 0
      /\ ~RenameIn /\ Current(room)
  BY <1>2, <1>3 DEF R!IdleAt, RenameIn, Current
<1>6. Layers
  BY <1>2, <1>3, <1>5 DEF Layers
<1>7. ArchivedLast /\ OnlyNames
  BY <1>3, <1>5 DEF ArchivedLast, OnlyNames, Archiving
<1>8. LastIsCurrent /\ RoomFollows /\ PrefixFollows
  BY <1>2, <1>3, <1>5 DEF LastIsCurrent, RoomFollows, PrefixFollows, Renaming
<1>9. QED BY <1>4, <1>6, <1>7, <1>8 DEF RoomInv

\* What SlackIsNamed adds: one event or two, of the same name.
LEMMA Told ==
  ASSUME RoomInv, NEW n \in R!Name, R!SlackIsNamed(n), n # rSlack
  PROVE  /\ envelopes' \in Seq(Envelope) /\ Len(envelopes') > Len(envelopes)
         /\ \A i \in 1..Len(envelopes) : envelopes'[i] = envelopes[i]
         /\ \A i \in Len(envelopes)+1..Len(envelopes') :
               envelopes'[i] = [kind |-> "rename", name |-> n]
<1> DEFINE e == [kind |-> "rename", name |-> n]
<1>1. e \in Envelope /\ envelopes \in Seq(Envelope) /\ Len(envelopes) \in Nat
  BY DEF Envelope, RoomInv, RoomShape
<1>2. envelopes' = Append(envelopes, e) \/ envelopes' = envelopes \o <<e, e>>
  BY DEF R!SlackIsNamed
<1> HIDE DEF e
<1>3. CASE envelopes' = Append(envelopes, e)
  BY <1>1, <1>3 DEF e
<1>4. CASE envelopes' = envelopes \o <<e, e>>
  <2>1. <<e, e>> \in Seq(Envelope) /\ Len(<<e, e>>) = 2 /\ <<e, e>>[1] = e /\ <<e, e>>[2] = e
    BY <1>1
  <2>2. envelopes' \in Seq(Envelope) /\ Len(envelopes') = Len(envelopes) + 2
    BY <1>1, <1>4, <2>1, ConcatProperties
  <2>3. \A i \in 1..Len(envelopes') :
            envelopes'[i] = IF i <= Len(envelopes) THEN envelopes[i] ELSE <<e, e>>[i - Len(envelopes)]
    BY <1>1, <1>4, <2>1, ConcatProperties
  <2>4. \A i \in 1..Len(envelopes) : envelopes'[i] = envelopes[i]
    BY <1>1, <2>2, <2>3
  <2>5. \A i \in Len(envelopes)+1..Len(envelopes') : i - Len(envelopes) \in {1, 2}
    BY <1>1, <2>2
  <2>6. \A i \in Len(envelopes)+1..Len(envelopes') : envelopes'[i] = e
    BY <1>1, <2>1, <2>2, <2>3, <2>5
  <2>7. QED BY <1>1, <2>2, <2>4, <2>6 DEF e
<1>5. QED BY <1>2, <1>3, <1>4

\* A rename joins the events on their way: it is the last one, and it is current.
LEMMA RenameJoins ==
  ASSUME RoomBounds, RoomInv, NEW n \in R!Name, Bare(n), ~archived,
         envelopes' \in Seq(Envelope), Len(envelopes') > Len(envelopes),
         \A i \in 1..Len(envelopes) : envelopes'[i] = envelopes[i],
         \A i \in Len(envelopes)+1..Len(envelopes') :
             envelopes'[i] = [kind |-> "rename", name |-> n],
         rSlack' \in {rSlack, n}, purpose' \in RoomTexts \cup {R!NoPurpose}, n.text \in {rSlack'.text, purpose'},
         UNCHANGED <<subject, archived, namePrefix, room, rRow, events, loop>>, stamped' \in BOOLEAN,
         txn' \in {txn, R!IdleAt}, renames' \in 0..MaxRenames, rFaults' = rFaults
  PROVE  RoomInv'
<1>1. envelopes \in Seq(Envelope) /\ Len(envelopes) \in Nat /\ Len(envelopes') \in Nat /\ rSlack \in R!Name
  BY DEF RoomInv, RoomShape
<1>2. RoomShape'
  BY DEF RoomInv, RoomShape, R!IdleAt, R!NameOrNone
<1>3. \A i \in 1..Len(envelopes') : \/ i \in 1..Len(envelopes) /\ envelopes'[i] = envelopes[i]
                                   \/ envelopes'[i] = [kind |-> "rename", name |-> n]
  BY <1>1
<1>4. Layers'
  <2>1. \A i \in 1..Len(envelopes') : Bare(envelopes'[i].name)
    BY <1>3 DEF RoomInv, Layers
  <2>2. Bare(rSlack') /\ (txn'.at = "rename" => txn' = txn)
    BY DEF RoomInv, Layers, R!IdleAt
  <2>3. QED BY <2>1, <2>2 DEF RoomInv, Layers, PatternOnly
<1>5. /\ Len(envelopes') \in 1..Len(envelopes') /\ Len(envelopes') \in Len(envelopes)+1..Len(envelopes')
      /\ envelopes' # <<>> /\ envelopes'[Len(envelopes')].kind = "rename"
  <2>1. Len(envelopes') \in Len(envelopes)+1..Len(envelopes') /\ Len(envelopes') \in 1..Len(envelopes')
    BY <1>1
  <2>2. envelopes' # <<>>
    BY <1>1
  <2>3. QED BY <2>1, <2>2
<1>6. ArchivedLast'
  BY <1>5 DEF ArchivedLast, LastKind
<1>7. RenameIn'
  BY <1>5 DEF RenameIn
<1>8. LastIsCurrent'
  <2> SUFFICES ASSUME NEW i \in 1..Len(envelopes'), LastRename(i)' PROVE Current(envelopes[i].name)'
    BY <1>7 DEF LastIsCurrent
  <2>1. i \notin 1..Len(envelopes)
    BY <1>1, <1>5 DEF LastRename
  <2>2. envelopes'[i].name = n
    BY <1>3, <2>1
  <2>3. QED BY <2>2 DEF Current
<1>9. RoomFollows'
  BY <1>7 DEF RoomFollows
<1>10. PrefixFollows'
  BY <1>5, <1>7 DEF PrefixFollows
<1>11. OnlyNames'
  BY DEF RoomInv, OnlyNames
<1>12. QED BY <1>2, <1>4, <1>6, <1>8, <1>9, <1>10, <1>11 DEF RoomInv

LEMMA PersonOnSlackStep ==
  ASSUME RoomBounds, RoomInv, NEW t \in RoomTexts, R!PersonRenamesChannel(t) \/ R!PersonSetsPurpose(t)
  PROVE  RoomInv'
<1>1. R!Chosen(t) \in R!Name /\ Bare(R!Chosen(t)) /\ R!Chosen(t).text = t
  BY DEF R!Chosen, R!Name, R!MaxLayers, Bare
<1>2. renames' \in 0..MaxRenames /\ stamped \in BOOLEAN
  BY DEF R!PersonRenamesChannel, R!PersonSetsPurpose, R!Renamed, RoomInv, RoomShape, RoomBounds
<1>3. CASE R!PersonRenamesChannel(t)
  <2>1. /\ ~archived /\ rSlack # R!Chosen(t) /\ R!SlackIsNamed(R!Chosen(t)) /\ rSlack' = R!Chosen(t)
        /\ stamped' \in BOOLEAN
        /\ UNCHANGED <<subject, purpose, archived, namePrefix, room, rRow, events, loop, txn, rFaults>>
    BY <1>3 DEF R!PersonRenamesChannel, R!SlackIsNamed
  <2>2. /\ envelopes' \in Seq(Envelope) /\ Len(envelopes') > Len(envelopes)
        /\ \A i \in 1..Len(envelopes) : envelopes'[i] = envelopes[i]
        /\ \A i \in Len(envelopes)+1..Len(envelopes') :
              envelopes'[i] = [kind |-> "rename", name |-> R!Chosen(t)]
    BY <1>1, <2>1, Told
  <2>3. purpose \in RoomTexts \cup {R!NoPurpose}
    BY DEF RoomInv, RoomShape
  <2>4. QED BY <1>1, <1>2, <2>1, <2>2, <2>3, RenameJoins
<1>4. CASE R!PersonSetsPurpose(t)
  <2>1. /\ purpose' = t /\ subject = "topic"
        /\ envelopes' = Append(envelopes, [kind |-> "rename", name |-> R!Chosen(t)])
        /\ UNCHANGED <<subject, rSlack, archived, stamped, namePrefix, room, rRow, events, loop, txn,
                       rFaults>>
    BY <1>4 DEF R!PersonSetsPurpose
  <2>2. ~archived
    BY <2>1 DEF RoomInv, OnlyNames
  <2>3. /\ envelopes \in Seq(Envelope) /\ Len(envelopes) \in Nat
        /\ [kind |-> "rename", name |-> R!Chosen(t)] \in Envelope
    BY <1>1 DEF RoomInv, RoomShape, Envelope
  <2>4. /\ envelopes' \in Seq(Envelope) /\ Len(envelopes') > Len(envelopes)
        /\ \A i \in 1..Len(envelopes) : envelopes'[i] = envelopes[i]
        /\ \A i \in Len(envelopes)+1..Len(envelopes') :
              envelopes'[i] = [kind |-> "rename", name |-> R!Chosen(t)]
    BY <2>1, <2>3
  <2>5. QED BY <1>1, <1>2, <2>1, <2>2, <2>4, RenameJoins
<1>5. QED BY <1>3, <1>4

\* The transaction has renamed the channel, or found it so named.
LEMMA ChannelRenamedStep ==
  ASSUME RoomBounds, RoomInv, R!ChannelRenamed
  PROVE  RoomInv'
<1> DEFINE n == txn.name
<1>1. /\ txn.at = "rename" /\ ~archived /\ R!SlackIsNamed(n) /\ rSlack' = n /\ txn' = R!IdleAt
      /\ stamped' = (stamped /\ n = rSlack) /\ stamped' \in BOOLEAN
      /\ UNCHANGED <<subject, purpose, archived, namePrefix, room, rRow, events, loop, renames, rFaults>>
  BY DEF R!ChannelRenamed, R!SlackIsNamed
<1>2. n \in R!Name /\ Bare(n)
  BY <1>1 DEF RoomInv, Layers
<1>3. CASE n # rSlack
  <2>1. /\ envelopes' \in Seq(Envelope) /\ Len(envelopes') > Len(envelopes)
        /\ \A i \in 1..Len(envelopes) : envelopes'[i] = envelopes[i]
        /\ \A i \in Len(envelopes)+1..Len(envelopes') :
              envelopes'[i] = [kind |-> "rename", name |-> n]
    BY <1>1, <1>2, <1>3, Told
  <2>2. purpose \in RoomTexts \cup {R!NoPurpose} /\ renames \in 0..MaxRenames
    BY DEF RoomInv, RoomShape
  <2>3. QED BY <1>1, <1>2, <2>1, <2>2, RenameJoins
<1>4. CASE n = rSlack
  <2>1. envelopes' = envelopes /\ rSlack' = rSlack /\ (stamped' <=> stamped)
    BY <1>1, <1>4 DEF R!SlackIsNamed, RoomInv, RoomShape
  <2>2. txn'.at = "idle"
    BY <1>1 DEF R!IdleAt
  <2>3. RoomShape'
    BY <1>1, <2>1 DEF RoomInv, RoomShape, R!IdleAt, R!NameOrNone
  <2>4. Layers' /\ LastIsCurrent'
    BY <1>1, <2>1, <2>2 DEF RoomInv, Layers, PatternOnly, LastIsCurrent, LastRename, RenameIn, Current
  <2>5. ArchivedLast' /\ OnlyNames'
    BY <1>1, <2>1 DEF RoomInv, ArchivedLast, LastKind, OnlyNames
  <2>6. RoomFollows'
    <3>1. RoomAhead => RoomAhead'
      BY <1>1, <1>4, <2>1 DEF RoomAhead, PersonAt
    <3>2. QED BY <1>1, <2>1, <3>1 DEF RoomInv, RoomFollows, RenameIn, Current
  <2>7. PrefixFollows'
    BY <1>1, <2>1 DEF RoomInv, PrefixFollows, RenameIn
  <2>8. QED BY <2>3, <2>4, <2>5, <2>6, <2>7 DEF RoomInv
<1>5. QED BY <1>3, <1>4

\* What RoomIsNamed adds: one event behind the others, which are kept.
LEMMA EventBehind ==
  ASSUME RoomInv, NEW ev \in RoomEvent, events' = Append(events, ev), UNCHANGED <<txn, rSlack>>
  PROVE  /\ events' \in Seq(RoomEvent) /\ Len(events') \in 1..Len(events') /\ events'[Len(events')] = ev
         /\ \A i \in 1..Len(events') : i = Len(events') \/ (i \in 1..Len(events) /\ events'[i] = events[i])
         /\ PersonPending => PersonPending'
         /\ RoomAhead => RoomAhead'
<1>1. /\ events' \in Seq(RoomEvent) /\ Len(events) \in Nat /\ Len(events') = Len(events) + 1
      /\ \A i \in 1..Len(events) : events'[i] = events[i]
      /\ events'[Len(events')] = ev
  BY DEF RoomInv, RoomShape
<1>2. /\ \A i \in 1..Len(events') : i = Len(events') \/ i \in 1..Len(events)
      /\ \A i \in 1..Len(events) : i \in 1..Len(events')
      /\ Len(events') \in 1..Len(events')
  BY <1>1
<1>3. \A i \in 1..Len(events) : PersonAt(i) => PersonAt(i)' /\ events'[i].name = events[i].name
  BY <1>1 DEF PersonAt
<1>4. PersonPending => PersonPending'
  BY <1>2, <1>3 DEF PersonPending
<1>5. RoomAhead => RoomAhead'
  BY <1>2, <1>3 DEF RoomAhead
<1>6. QED BY <1>1, <1>2, <1>4, <1>5

LEMMA PersonRenamesRoomStep ==
  ASSUME RoomBounds, RoomInv, NEW t \in RoomTexts, R!PersonRenamesRoom(t)
  PROVE  RoomInv'
<1> DEFINE n == R!Chosen(t)
           ev == [by |-> "person", name |-> n]
<1>1. n \in R!Name /\ Bare(n) /\ ev \in RoomEvent /\ ev.by = "person" /\ ev.name = n
  BY DEF R!Chosen, R!Name, R!MaxLayers, Bare, RoomEvent
<1>2. /\ room' = n /\ events' = Append(events, ev) /\ renames' \in 0..MaxRenames
      /\ UNCHANGED <<subject, purpose, rSlack, archived, stamped, namePrefix, rRow, envelopes, loop, txn,
                     rFaults>>
  BY DEF R!PersonRenamesRoom, R!RoomIsNamed, R!Renamed, RoomInv, RoomShape, RoomBounds
<1> HIDE DEF n, ev
<1>3. /\ events' \in Seq(RoomEvent) /\ Len(events') \in 1..Len(events') /\ events'[Len(events')] = ev
      /\ \A i \in 1..Len(events') : i = Len(events') \/ (i \in 1..Len(events) /\ events'[i] = events[i])
      /\ RoomAhead => RoomAhead'
  BY <1>1, <1>2, EventBehind
<1>4. RoomShape'
  BY <1>1, <1>2, <1>3 DEF RoomInv, RoomShape
<1>5. Layers'
  BY <1>1, <1>2, <1>3 DEF RoomInv, Layers, PatternOnly, Bare
<1>6. ArchivedLast' /\ OnlyNames'
  BY <1>2 DEF RoomInv, ArchivedLast, LastKind, OnlyNames
<1>7. LastIsCurrent'
  BY <1>2 DEF RoomInv, LastIsCurrent, LastRename, RenameIn, Current
<1>8. PersonPending' /\ (n # rSlack => RoomAhead')
  BY <1>1, <1>2, <1>3 DEF RoomAhead, PersonPending, PersonAt
<1>9. RoomFollows'
  <2>1. Current(room)' \/ RoomAhead'
    BY <1>2, <1>8 DEF Current
  <2>2. QED BY <1>2, <1>3, <2>1 DEF RoomInv, RoomFollows, RenameIn, Current
<1>10. PrefixFollows'
  BY <1>1, <1>2, <1>8 DEF PrefixFollows, Bare
<1>11. QED BY <1>4, <1>5, <1>6, <1>7, <1>9, <1>10 DEF RoomInv

LEMMA PersonArchivesStep ==
  ASSUME RoomBounds, RoomInv, R!PersonArchives
  PROVE  RoomInv'
<1> DEFINE e == [kind |-> "archive", name |-> rSlack]
<1>1. /\ subject = "name" /\ ~archived /\ archived' = TRUE /\ stamped' = TRUE /\ envelopes' = Append(envelopes, e)
      /\ renames' \in 0..MaxRenames
      /\ UNCHANGED <<subject, purpose, rSlack, namePrefix, room, rRow, events, loop, txn, rFaults>>
  BY DEF R!PersonArchives, R!Renamed, RoomInv, RoomShape, RoomBounds
<1>2. /\ envelopes \in Seq(Envelope) /\ Len(envelopes) \in Nat /\ rSlack \in R!Name /\ Bare(rSlack)
      /\ e \in Envelope /\ e.kind = "archive" /\ e.name = rSlack
  BY DEF RoomInv, RoomShape, Envelope, Layers
<1> HIDE DEF e
<1>3. /\ envelopes' \in Seq(Envelope) /\ Len(envelopes') = Len(envelopes) + 1
      /\ \A i \in 1..Len(envelopes) : envelopes'[i] = envelopes[i]
      /\ envelopes'[Len(envelopes')] = e /\ envelopes' # <<>>
  BY <1>1, <1>2
<1>4. \A i \in 1..Len(envelopes') :
          i = Len(envelopes') \/ (i \in 1..Len(envelopes) /\ envelopes'[i] = envelopes[i])
  <2>1. \A i \in 1..Len(envelopes') : i = Len(envelopes') \/ i \in 1..Len(envelopes)
    BY <1>2, <1>3
  <2>2. QED BY <1>3, <2>1
<1>5. RoomShape'
  BY <1>1, <1>3 DEF RoomInv, RoomShape
<1>6. Layers'
  <2>1. \A i \in 1..Len(envelopes') : Bare(envelopes'[i].name)
    BY <1>2, <1>3, <1>4 DEF RoomInv, Layers
  <2>2. QED BY <1>1, <2>1 DEF RoomInv, Layers, PatternOnly
<1>7. ArchivedLast' /\ OnlyNames'
  BY <1>1, <1>2, <1>3 DEF ArchivedLast, LastKind, OnlyNames
<1>8. RenameIn' <=> RenameIn
  <2>1. RenameIn' => RenameIn
    BY <1>2, <1>3, <1>4 DEF RenameIn
  <2>2. RenameIn => RenameIn'
    BY <1>2, <1>3 DEF RenameIn
  <2>3. QED BY <2>1, <2>2
<1>9. LastIsCurrent'
  <2> SUFFICES ASSUME NEW i \in 1..Len(envelopes'), LastRename(i)' PROVE Current(envelopes[i].name)'
    BY <1>1, <1>8 DEF RoomInv, LastIsCurrent, Current
  <2>1. i \in 1..Len(envelopes) /\ envelopes'[i] = envelopes[i]
    BY <1>2, <1>3, <1>4 DEF LastRename
  <2>2. \A j \in i+1..Len(envelopes) : j \in i+1..Len(envelopes') /\ envelopes'[j] = envelopes[j]
    BY <1>2, <1>3, <2>1
  <2>3. LastRename(i)
    BY <2>1, <2>2 DEF LastRename
  <2>4. QED BY <1>1, <2>1, <2>3 DEF RoomInv, LastIsCurrent, Current
<1>10. RoomFollows'
  <2>1. RoomAhead' <=> RoomAhead
    BY <1>1 DEF RoomAhead, PersonAt
  <2>2. QED BY <1>1, <1>8, <2>1 DEF RoomInv, RoomFollows, Current
<1>11. PrefixFollows'
  BY <1>1, <1>3 DEF PrefixFollows
<1>12. QED BY <1>5, <1>6, <1>7, <1>9, <1>10, <1>11 DEF RoomInv

\* The event of the unarchiving changes nothing: the bridge does not handle it.
LEMMA PersonUnarchivesStep ==
  ASSUME RoomBounds, RoomInv, R!PersonUnarchives
  PROVE  RoomInv'
<1>1. /\ archived' = FALSE
      /\ UNCHANGED <<subject, purpose, rSlack, stamped, namePrefix, room, rRow, envelopes, events, loop,
                     txn, renames, rFaults>>
  BY DEF R!PersonUnarchives
<1>2. RoomShape'
  BY <1>1 DEF RoomInv, RoomShape
<1>3. Layers' /\ LastIsCurrent'
  BY <1>1 DEF RoomInv, Layers, PatternOnly, LastIsCurrent, LastRename, RenameIn, Current
<1>4. ArchivedLast' /\ OnlyNames'
  BY <1>1 DEF RoomInv, ArchivedLast, LastKind, OnlyNames
<1>5. RoomFollows'
  BY <1>1 DEF RoomInv, RoomFollows, RenameIn, Current, RoomAhead, PersonAt
<1>6. PrefixFollows'
  BY <1>1 DEF RoomInv, PrefixFollows, RenameIn
<1>7. QED BY <1>2, <1>3, <1>4, <1>5, <1>6 DEF RoomInv

LEMMA TakeEnvelopeStep ==
  ASSUME RoomBounds, RoomInv, R!TakeEnvelope
  PROVE  RoomInv'
<1> DEFINE e == envelopes[1]
<1>1. /\ loop.at = "idle" /\ envelopes # <<>> /\ envelopes' = Tail(envelopes)
      /\ loop' = [at |-> e.kind, name |-> e.name]
      /\ UNCHANGED <<subject, purpose, rSlack, archived, stamped, namePrefix, room, rRow, events, txn,
                     renames, rFaults>>
  BY DEF R!TakeEnvelope, R!LoopAt
<1>2. /\ envelopes \in Seq(Envelope) /\ Len(envelopes) \in Nat /\ Len(envelopes) >= 1
      /\ 1 \in 1..Len(envelopes) /\ e \in Envelope
  BY <1>1 DEF RoomInv, RoomShape
<1>3. /\ envelopes' \in Seq(Envelope) /\ Len(envelopes') = Len(envelopes) - 1
      /\ \A i \in 1..Len(envelopes') : i+1 \in 1..Len(envelopes) /\ envelopes'[i] = envelopes[i+1]
  BY <1>1, <1>2
<1>4. \A i \in 1..Len(envelopes) : i = 1 \/ (i-1 \in 1..Len(envelopes') /\ envelopes'[i-1] = envelopes[i])
  <2>1. \A i \in 1..Len(envelopes) : i = 1 \/ i-1 \in 1..Len(envelopes')
    BY <1>2, <1>3
  <2>2. \A i \in 1..Len(envelopes) : (i-1)+1 = i
    BY <1>2
  <2>3. QED BY <1>3, <2>1, <2>2
<1>5. /\ e.kind \in {"rename", "archive"} /\ e.name \in R!Name /\ Bare(e.name)
      /\ loop'.at = e.kind /\ loop'.name = e.name
  BY <1>1, <1>2 DEF Envelope, RoomInv, Layers
<1>6. RoomShape'
  <2>1. loop' \in [at : R!LoopSteps, name : R!NameOrNone]
    BY <1>1, <1>5 DEF R!LoopSteps, R!NameOrNone
  <2>2. QED BY <1>1, <1>3, <2>1 DEF RoomInv, RoomShape
<1>7. Layers'
  <2>1. \A i \in 1..Len(envelopes') : Bare(envelopes'[i].name)
    BY <1>3 DEF RoomInv, Layers
  <2>2. QED BY <1>1, <1>5, <2>1 DEF RoomInv, Layers, PatternOnly
<1>8. OnlyNames'
  BY <1>1 DEF RoomInv, OnlyNames
<1>9. ArchivedLast'
  <2>1. CASE Len(envelopes) = 1
    <3>1. envelopes' = <<>> /\ LastKind = e.kind
      BY <1>2, <1>3, <2>1 DEF LastKind
    <3>2. QED BY <1>1, <1>5, <3>1 DEF RoomInv, ArchivedLast, Archiving
  <2>2. CASE Len(envelopes) # 1
    <3>1. PICK k \in 1..Len(envelopes) : k = Len(envelopes)
      BY <1>2
    <3>2. envelopes'[k-1] = envelopes[k] /\ k-1 = Len(envelopes') /\ envelopes' # <<>>
      BY <1>2, <1>3, <1>4, <2>2, <3>1
    <3>3. LastKind' = LastKind
      BY <3>1, <3>2 DEF LastKind
    <3>4. QED BY <1>1, <3>2, <3>3 DEF RoomInv, ArchivedLast
  <2>3. QED BY <2>1, <2>2
<1>10. \A i \in 1..Len(envelopes') : LastRename(i)' => Current(envelopes[i].name)'
  <2> SUFFICES ASSUME NEW i \in 1..Len(envelopes'), LastRename(i)' PROVE Current(envelopes[i].name)'
    OBVIOUS
  <2>1. \A j \in (i+1)+1..Len(envelopes) :
            j-1 \in i+1..Len(envelopes') /\ envelopes'[j-1] = envelopes[j]
    BY <1>2, <1>3, <1>4
  <2>2. LastRename(i+1)
    BY <1>3, <2>1 DEF LastRename
  <2>3. Current(envelopes[i+1].name)
    BY <1>3, <2>2 DEF RoomInv, LastIsCurrent
  <2>4. QED BY <1>1, <1>3, <2>3 DEF Current
<1>11. CASE e.kind = "rename"
  <2>1. ~RenameIn' => Current(e.name)
    <3> SUFFICES ASSUME ~RenameIn' PROVE Current(e.name)
      OBVIOUS
    <3>1. \A j \in 2..Len(envelopes) :
              j-1 \in 1..Len(envelopes') /\ envelopes'[j-1] = envelopes[j]
      BY <1>2, <1>3, <1>4
    <3>2. LastRename(1)
      BY <1>11, <3>1 DEF LastRename, RenameIn
    <3>3. QED BY <1>2, <3>2 DEF RoomInv, LastIsCurrent
  <2>2. LastIsCurrent'
    BY <1>1, <1>5, <1>10, <2>1 DEF LastIsCurrent, Current
  <2>3. loop'.at \in Renaming /\ loop'.at # "idle"
    BY <1>5, <1>11 DEF Renaming
  <2>4. RoomFollows' /\ PrefixFollows'
    BY <2>3 DEF RoomFollows, PrefixFollows
  <2>5. QED BY <1>6, <1>7, <1>8, <1>9, <2>2, <2>4 DEF RoomInv
<1>12. CASE e.kind = "archive"
  <2>1. RenameIn => RenameIn'
    BY <1>4, <1>12 DEF RenameIn
  <2>2. loop'.at = "archive" /\ loop.at \notin Renaming /\ loop'.at \notin Renaming
    BY <1>1, <1>5, <1>12 DEF Renaming
  <2>3. LastIsCurrent'
    BY <1>10, <2>2 DEF LastIsCurrent
  <2>4. RoomFollows'
    <3>1. RoomAhead' <=> RoomAhead
      BY <1>1 DEF RoomAhead, PersonAt
    <3>2. QED BY <1>1, <2>1, <2>2, <3>1 DEF RoomInv, RoomFollows, Current
  <2>5. PrefixFollows'
    BY <1>1, <2>1, <2>2 DEF RoomInv, PrefixFollows
  <2>6. QED BY <1>6, <1>7, <1>8, <1>9, <2>3, <2>4, <2>5 DEF RoomInv
<1>13. QED BY <1>5, <1>11, <1>12

LEMMA MappingFoundStep ==
  ASSUME RoomBounds, RoomInv, R!MappingFound
  PROVE  RoomInv'
<1>1. UNCHANGED <<subject, purpose, rSlack, archived, stamped, namePrefix, room, rRow, envelopes, events,
                  txn, renames, rFaults>>
  BY DEF R!MappingFound
<1>2. PICK m \in {R!Formatted(loop.name), loop.name} :
        \/ loop.at = "rename" /\ m = R!Formatted(loop.name) /\ loop' = [at |-> "compare", name |-> m]
        \/ loop.at = "archive" /\ m = loop.name /\ loop' = [at |-> "notice", name |-> m]
  BY DEF R!MappingFound, R!LoopAt
<1>3. /\ m \in R!Name /\ m.text = loop.name.text /\ loop'.name = m
      /\ loop.at = "rename" => m.pattern = PatternOnly /\ m.prefix = 0
  BY <1>2 DEF RoomInv, Layers, R!Formatted, R!Name, Bare, PatternOnly, R!MaxLayers
<1>4. loop'.at = IF loop.at = "rename" THEN "compare" ELSE "notice"
  BY <1>2
<1>5. RoomShape'
  <2>1. loop' \in [at : R!LoopSteps, name : R!NameOrNone]
    BY <1>2, <1>3 DEF R!LoopSteps, R!NameOrNone
  <2>2. QED BY <1>1, <2>1 DEF RoomInv, RoomShape
<1>6. Layers'
  BY <1>1, <1>2, <1>3, <1>4 DEF RoomInv, Layers, PatternOnly
<1>7. ArchivedLast' /\ OnlyNames'
  BY <1>1, <1>2, <1>4 DEF RoomInv, ArchivedLast, LastKind, OnlyNames, Archiving
<1>8. LastIsCurrent'
  BY <1>1, <1>2, <1>3, <1>4 DEF RoomInv, LastIsCurrent, LastRename, RenameIn, Current, Renaming
<1>9. RoomFollows'
  BY <1>1, <1>2, <1>4 DEF RoomInv, RoomFollows, RenameIn, Renaming, Current, RoomAhead, PersonAt
<1>10. PrefixFollows'
  BY <1>1, <1>2, <1>4 DEF RoomInv, PrefixFollows, RenameIn, Renaming
<1>11. QED BY <1>5, <1>6, <1>7, <1>8, <1>9, <1>10 DEF RoomInv

\* While a rename is in hand an archived channel has its event still to come.
LEMMA RenamingArchived ==
  ASSUME RoomInv, loop.at \in {"compare", "set", "update"}
  PROVE  ~(archived /\ envelopes = <<>>)
  BY DEF RoomInv, ArchivedLast, Archiving

LEMMA ComparedStep ==
  ASSUME RoomBounds, RoomInv, R!Compared
  PROVE  RoomInv'
<1>1. /\ loop.at = "compare"
      /\ UNCHANGED <<subject, purpose, rSlack, archived, stamped, namePrefix, room, rRow, envelopes,
                     events, txn, renames>>
      /\ rFaults' \in 0..MaxFaults /\ (rFaults' = 0 => rFaults = 0)
      /\ \/ room = loop.name /\ loop' = R!IdleAt
         \/ loop' = [at |-> "set", name |-> loop.name]
  BY DEF R!Compared, R!LoopAt, R!Fault, RoomInv, RoomShape, RoomBounds
<1>2. loop.name \in R!Name /\ loop.name.pattern = PatternOnly /\ loop.name.prefix = 0
  BY <1>1 DEF RoomInv, Layers
<1>3. ~(archived /\ envelopes = <<>>) /\ loop'.at \in {"idle", "set"} /\ RenameIn' = RenameIn
  BY <1>1, RenamingArchived DEF R!IdleAt, RenameIn
<1>4. RoomShape'
  <2>1. loop' \in [at : R!LoopSteps, name : R!NameOrNone]
    BY <1>1, <1>2 DEF R!IdleAt, R!LoopSteps, R!NameOrNone
  <2>2. QED BY <1>1, <2>1 DEF RoomInv, RoomShape
<1>5. Layers'
  BY <1>1, <1>2 DEF RoomInv, Layers, PatternOnly, R!IdleAt
<1>6. ArchivedLast' /\ OnlyNames'
  BY <1>1, <1>3 DEF RoomInv, ArchivedLast, LastKind, OnlyNames, Archiving
<1>7. ~RenameIn => Current(loop.name)
  BY <1>1 DEF RoomInv, LastIsCurrent, Renaming
<1>8. LastIsCurrent'
  <2>1. \A i \in 1..Len(envelopes') : LastRename(i)' => Current(envelopes[i].name)'
    BY <1>1 DEF RoomInv, LastIsCurrent, LastRename, Current
  <2>2. loop'.at \in Renaming => loop'.name = loop.name
    BY <1>1 DEF R!IdleAt, Renaming
  <2>3. QED BY <1>1, <1>3, <1>7, <2>1, <2>2 DEF LastIsCurrent, Current
<1>9. CASE room = loop.name /\ loop' = R!IdleAt
  <2>1. loop'.at = "idle"
    BY <1>9 DEF R!IdleAt
  <2>2. RoomFollows'
    BY <1>1, <1>3, <1>7, <1>9, <2>1 DEF RoomFollows, Current
  <2>3. PrefixFollows'
    BY <1>1, <1>2, <1>3, <1>9 DEF PrefixFollows
  <2>4. QED BY <1>4, <1>5, <1>6, <1>8, <2>2, <2>3 DEF RoomInv
<1>10. CASE loop' = [at |-> "set", name |-> loop.name]
  <2>1. RoomFollows' /\ PrefixFollows'
    BY <1>10 DEF RoomFollows, PrefixFollows, Renaming
  <2>2. QED BY <1>4, <1>5, <1>6, <1>8, <2>1 DEF RoomInv
<1>11. QED BY <1>1, <1>9, <1>10

\* The bot's event, which the transactions drop, changes nothing for the others.
LEMMA BotEvent ==
  ASSUME RoomInv, NEW n \in R!Name, events' = Append(events, [by |-> "bot", name |-> n]),
         UNCHANGED <<txn, rSlack>>
  PROVE  /\ events' \in Seq(RoomEvent)
         /\ \A i \in 1..Len(events') : events'[i].by = "person" => Bare(events'[i].name)
         /\ PersonPending => PersonPending'
         /\ RoomAhead => RoomAhead'
<1> DEFINE ev == [by |-> "bot", name |-> n]
<1>1. ev \in RoomEvent /\ ev.by = "bot" /\ events' = Append(events, ev)
  BY DEF RoomEvent
<1> HIDE DEF ev
<1>2. /\ events' \in Seq(RoomEvent) /\ events'[Len(events')] = ev
      /\ \A i \in 1..Len(events') : i = Len(events') \/ (i \in 1..Len(events) /\ events'[i] = events[i])
      /\ PersonPending => PersonPending'
      /\ RoomAhead => RoomAhead'
  BY <1>1, EventBehind
<1>3. \A i \in 1..Len(events') : events'[i].by = "person" => Bare(events'[i].name)
  BY <1>1, <1>2 DEF RoomInv, Layers
<1>4. QED BY <1>2, <1>3

LEMMA RoomNameSetStep ==
  ASSUME RoomBounds, RoomInv, R!NameSet
  PROVE  RoomInv'
<1> DEFINE n == loop.name
<1>1. /\ loop.at = "set" /\ room' = n /\ events' = Append(events, [by |-> "bot", name |-> n])
      /\ IF subject = "name" THEN loop' = [at |-> "update", name |-> n] ELSE loop' = R!IdleAt
      /\ UNCHANGED <<subject, purpose, rSlack, archived, stamped, namePrefix, rRow, envelopes, txn,
                     renames, rFaults>>
  BY DEF R!NameSet, R!RoomIsNamed, R!LoopAt
<1>2. n \in R!Name /\ n.pattern = PatternOnly /\ n.prefix = 0
  BY <1>1 DEF RoomInv, Layers
<1>3. /\ events' \in Seq(RoomEvent)
      /\ \A i \in 1..Len(events') : events'[i].by = "person" => Bare(events'[i].name)
  BY <1>1, <1>2, BotEvent
<1>4. ~(archived /\ envelopes = <<>>) /\ loop'.at \in {"idle", "update"}
  BY <1>1, RenamingArchived DEF R!IdleAt
<1>5. RoomShape'
  <2>1. loop' \in [at : R!LoopSteps, name : R!NameOrNone]
    BY <1>1, <1>2 DEF R!IdleAt, R!LoopSteps, R!NameOrNone
  <2>2. QED BY <1>1, <1>2, <1>3, <2>1 DEF RoomInv, RoomShape
<1>6. Layers'
  BY <1>1, <1>2, <1>3 DEF RoomInv, Layers, PatternOnly, R!IdleAt
<1>7. ArchivedLast' /\ OnlyNames'
  BY <1>1, <1>4 DEF RoomInv, ArchivedLast, LastKind, OnlyNames, Archiving
<1>8. RenameIn' = RenameIn /\ loop'.at \notin Renaming
  BY <1>1, <1>4 DEF RenameIn, Renaming
<1>9. LastIsCurrent'
  BY <1>1, <1>8 DEF RoomInv, LastIsCurrent, LastRename, Current
<1>10. RoomFollows'
  <2>1. ~RenameIn => Current(n)
    BY <1>1 DEF RoomInv, LastIsCurrent, Renaming
  <2>2. QED BY <1>1, <1>4, <1>8, <2>1 DEF RoomFollows, Current
<1>11. PrefixFollows'
  BY <1>1, <1>2, <1>4 DEF PrefixFollows
<1>12. QED BY <1>5, <1>6, <1>7, <1>9, <1>10, <1>11 DEF RoomInv

LEMMA RoomRowUpdatedStep ==
  ASSUME RoomBounds, RoomInv, R!RowUpdated
  PROVE  RoomInv'
<1>1. /\ loop.at = "update" /\ rRow' = [loop.name EXCEPT !.pattern = @ - 1] /\ loop' = R!IdleAt
      /\ UNCHANGED <<subject, purpose, rSlack, archived, stamped, namePrefix, room, envelopes, events,
                     txn, renames, rFaults>>
  BY DEF R!RowUpdated
<1>2. rRow' \in R!Name
  BY <1>1 DEF RoomInv, Layers, PatternOnly, R!Name, R!MaxLayers
<1>3. loop' \in [at : R!LoopSteps, name : R!NameOrNone] /\ loop'.at = "idle"
  BY <1>1 DEF R!IdleAt, R!LoopSteps, R!NameOrNone
<1>4. ~(archived /\ envelopes = <<>>)
  BY <1>1, RenamingArchived
<1>5. RoomShape'
  BY <1>1, <1>2, <1>3 DEF RoomInv, RoomShape
<1>6. Layers'
  BY <1>1, <1>3 DEF RoomInv, Layers, PatternOnly
<1>7. ArchivedLast' /\ OnlyNames'
  BY <1>1, <1>3, <1>4 DEF RoomInv, ArchivedLast, LastKind, OnlyNames, Archiving
<1>8. LastIsCurrent'
  BY <1>1, <1>3 DEF RoomInv, LastIsCurrent, LastRename, RenameIn, Current, Renaming
<1>9. RoomFollows'
  BY <1>1, <1>3 DEF RoomInv, RoomFollows, RenameIn, Renaming, Current, RoomAhead, PersonAt
<1>10. PrefixFollows'
  BY <1>1, <1>4 DEF RoomInv, PrefixFollows, RenameIn, Renaming
<1>11. QED BY <1>5, <1>6, <1>7, <1>8, <1>9, <1>10 DEF RoomInv

LEMMA ArchivingStep ==
  ASSUME RoomBounds, RoomInv, R!NoticeSent \/ R!NameRead
  PROVE  RoomInv'
<1>1. UNCHANGED <<subject, purpose, rSlack, archived, stamped, namePrefix, room, rRow, envelopes, events,
                  txn, renames, rFaults>>
  BY DEF R!NoticeSent, R!NameRead
<1>2. \/ loop.at = "notice" /\ namePrefix /\ loop' = [at |-> "read", name |-> loop.name]
      \/ loop.at = "notice" /\ ~namePrefix /\ loop' = R!IdleAt
      \/ loop.at = "read" /\ loop' = [at |-> "prefix", name |-> room]
  BY DEF R!NoticeSent, R!NameRead, R!LoopAt
<1>3. /\ loop.at \in Archiving /\ loop'.at \in {"idle", "read", "prefix"}
      /\ loop'.at # "idle" => loop'.name \in R!Name /\ namePrefix
      /\ loop'.at = "idle" => ~namePrefix
      /\ loop'.at = "prefix" => loop'.name = room
  BY <1>2 DEF Archiving, RoomInv, Layers, RoomShape, R!IdleAt
<1>4. RenameIn' = RenameIn /\ loop.at \notin Renaming /\ loop'.at \notin Renaming
  BY <1>1, <1>3 DEF RenameIn, Archiving, Renaming
<1>5. RoomShape'
  <2>1. loop' \in [at : R!LoopSteps, name : R!NameOrNone]
    BY <1>2, <1>3 DEF R!LoopSteps, R!NameOrNone, R!IdleAt
  <2>2. QED BY <1>1, <2>1 DEF RoomInv, RoomShape
<1>6. Layers'
  BY <1>1, <1>3 DEF RoomInv, Layers, PatternOnly
<1>7. ArchivedLast' /\ OnlyNames'
  BY <1>1, <1>3 DEF RoomInv, ArchivedLast, LastKind, OnlyNames, Archiving
<1>8. LastIsCurrent'
  BY <1>1, <1>4 DEF RoomInv, LastIsCurrent, LastRename, Current
<1>9. RoomFollows'
  <2>1. RoomAhead' <=> RoomAhead
    BY <1>1 DEF RoomAhead, PersonAt
  <2>2. QED BY <1>1, <1>3, <1>4, <2>1 DEF RoomInv, RoomFollows, Current
<1>10. PrefixFollows'
  BY <1>1, <1>3, <1>4 DEF RoomInv, PrefixFollows
<1>11. QED BY <1>5, <1>6, <1>7, <1>8, <1>9, <1>10 DEF RoomInv

LEMMA PrefixSetStep ==
  ASSUME RoomBounds, RoomInv, R!PrefixSet
  PROVE  RoomInv'
<1> DEFINE n == [loop.name EXCEPT !.prefix = @ + 1]
<1>1. /\ loop.at = "prefix" /\ room' = n /\ events' = Append(events, [by |-> "bot", name |-> n])
      /\ loop' = R!IdleAt
      /\ UNCHANGED <<subject, purpose, rSlack, archived, stamped, namePrefix, rRow, envelopes, txn,
                     renames, rFaults>>
  BY DEF R!PrefixSet, R!RoomIsNamed
<1>2. n \in R!Name /\ n.text = loop.name.text /\ n.pattern <= 1 /\ n.prefix > 0 /\ namePrefix
  <2>1. loop.name \in R!Name /\ loop.name.pattern <= 1 /\ namePrefix
    BY <1>1 DEF RoomInv, RoomShape, Layers
  <2>2. QED BY <2>1 DEF R!Name, R!MaxLayers
<1> HIDE DEF n
<1>3. loop.at \in Archiving /\ loop.at \notin Renaming /\ RenameIn' = RenameIn
  BY <1>1 DEF Archiving, Renaming, RenameIn
<1>4. /\ events' \in Seq(RoomEvent)
      /\ \A i \in 1..Len(events') : events'[i].by = "person" => Bare(events'[i].name)
      /\ RoomAhead => RoomAhead'
  BY <1>1, <1>2, BotEvent
<1>5. loop' \in [at : R!LoopSteps, name : R!NameOrNone] /\ loop'.at = "idle" /\ loop'.at \notin Renaming
  BY <1>1 DEF R!IdleAt, R!LoopSteps, R!NameOrNone, Renaming
<1>6. RoomShape'
  BY <1>1, <1>2, <1>4, <1>5 DEF RoomInv, RoomShape
<1>7. Layers'
  BY <1>1, <1>2, <1>4, <1>5 DEF RoomInv, Layers, PatternOnly
<1>8. ArchivedLast' /\ OnlyNames'
  BY <1>1, <1>3, <1>5 DEF RoomInv, ArchivedLast, LastKind, OnlyNames, Archiving
<1>9. LastIsCurrent'
  BY <1>1, <1>5 DEF RoomInv, LastIsCurrent, LastRename, Current
<1>10. RoomFollows'
  BY <1>1, <1>2, <1>3, <1>4, <1>5 DEF RoomInv, RoomFollows, Current
<1>11. PrefixFollows'
  <2>1. ~stamped => RenameIn
    <3> SUFFICES ASSUME ~stamped PROVE RenameIn
      OBVIOUS
    <3>1. envelopes # <<>> /\ LastKind = "rename" /\ envelopes \in Seq(Envelope)
      BY <1>3 DEF RoomInv, RoomShape, ArchivedLast
    <3>2. Len(envelopes) \in 1..Len(envelopes)
      BY <3>1
    <3>3. QED BY <3>1, <3>2 DEF RenameIn, LastKind
  <2>2. QED BY <1>1, <1>2, <1>3, <2>1 DEF PrefixFollows
<1>12. QED BY <1>6, <1>7, <1>8, <1>9, <1>10, <1>11 DEF RoomInv

\* A fault excuses what the room and the prefix follow.
LEMMA FaultExcuses ==
  ASSUME RoomBounds, RoomInv, rFaults' \in 1..MaxFaults, loop' \in {loop, R!IdleAt}, txn' \in {txn, R!IdleAt},
         UNCHANGED <<subject, purpose, rSlack, archived, stamped, namePrefix, room, rRow, envelopes,
                     events, renames>>
  PROVE  RoomInv'
<1>1. /\ loop' \in [at : R!LoopSteps, name : R!NameOrNone] /\ (loop' = loop \/ loop'.at = "idle")
      /\ txn' \in [at : {"idle", "rename"}, name : R!NameOrNone] /\ (txn' = txn \/ txn'.at = "idle")
  BY DEF RoomInv, RoomShape, R!IdleAt, R!LoopSteps, R!NameOrNone
<1>2. RoomShape'
  BY <1>1 DEF RoomInv, RoomShape, RoomBounds
<1>3. Layers'
  BY <1>1 DEF RoomInv, Layers, PatternOnly
<1>4. ArchivedLast' /\ OnlyNames'
  BY <1>1 DEF RoomInv, ArchivedLast, LastKind, OnlyNames, Archiving
<1>5. LastIsCurrent'
  <2>1. loop'.at \in Renaming => loop' = loop
    BY <1>1 DEF Renaming
  <2>2. QED BY <2>1 DEF RoomInv, LastIsCurrent, LastRename, RenameIn, Current
<1>6. RoomFollows' /\ PrefixFollows'
  BY DEF RoomFollows, PrefixFollows
<1>7. QED BY <1>2, <1>3, <1>4, <1>5, <1>6 DEF RoomInv

LEMMA FaultStep ==
  ASSUME RoomBounds, RoomInv, R!LoopFails \/ R!RenameRefused
  PROVE  RoomInv'
<1>1. rFaults' \in 1..MaxFaults
  BY DEF R!LoopFails, R!RenameRefused, R!Fault, RoomInv, RoomShape, RoomBounds
<1>2. /\ loop' \in {loop, R!IdleAt} /\ txn' \in {txn, R!IdleAt}
      /\ UNCHANGED <<subject, purpose, rSlack, archived, stamped, namePrefix, room, rRow, envelopes,
                     events, renames>>
  BY DEF R!LoopFails, R!RenameRefused
<1>3. QED BY <1>1, <1>2, FaultExcuses

LEMMA TakeEventStep ==
  ASSUME RoomBounds, RoomInv, R!TakeEvent
  PROVE  RoomInv'
<1> DEFINE ev == events[1]
<1>1. /\ txn.at = "idle" /\ events # <<>> /\ events' = Tail(events)
      /\ txn' = IF ev.by = "bot" THEN txn ELSE [at |-> "rename", name |-> ev.name]
      /\ UNCHANGED <<subject, purpose, rSlack, archived, stamped, namePrefix, room, rRow, envelopes,
                     loop, renames, rFaults>>
  BY DEF R!TakeEvent
<1>2. events \in Seq(RoomEvent) /\ Len(events) \in Nat /\ Len(events) >= 1 /\ 1 \in 1..Len(events) /\ ev \in RoomEvent
  BY <1>1 DEF RoomInv, RoomShape
<1>3. ev.by \in {"person", "bot"} /\ ev.name \in R!Name /\ (ev.by = "person" => Bare(ev.name))
  BY <1>2 DEF RoomEvent, RoomInv, Layers
<1>4. IF ev.by = "person" THEN txn'.at = "rename" /\ txn'.name = ev.name ELSE txn' = txn
  BY <1>1, <1>3
<1>5. /\ events' \in Seq(RoomEvent) /\ Len(events') = Len(events) - 1
      /\ \A i \in 1..Len(events') : i+1 \in 1..Len(events) /\ events'[i] = events[i+1]
  BY <1>1, <1>2
<1>6. \A i \in 1..Len(events) : i = 1 \/ (i-1 \in 1..Len(events') /\ events'[i-1] = events[i])
  <2>1. \A i \in 1..Len(events) : i = 1 \/ i-1 \in 1..Len(events')
    BY <1>2, <1>5
  <2>2. \A i \in 1..Len(events) : (i-1)+1 = i
    BY <1>2
  <2>3. QED BY <1>5, <2>1, <2>2
<1>7. RoomShape'
  <2>1. txn' \in [at : {"idle", "rename"}, name : R!NameOrNone]
    BY <1>1, <1>3 DEF RoomInv, RoomShape, R!NameOrNone
  <2>2. QED BY <1>1, <1>5, <2>1 DEF RoomInv, RoomShape
<1>8. Layers'
  <2>1. \A i \in 1..Len(events') : events'[i].by = "person" => Bare(events'[i].name)
    BY <1>5 DEF RoomInv, Layers
  <2>2. txn'.at = "rename" => txn'.name \in R!Name /\ Bare(txn'.name)
    BY <1>1, <1>3, <1>4
  <2>3. QED BY <1>1, <2>1, <2>2 DEF RoomInv, Layers, PatternOnly
<1>9. ArchivedLast' /\ OnlyNames'
  BY <1>1 DEF RoomInv, ArchivedLast, LastKind, OnlyNames
<1>10. LastIsCurrent'
  BY <1>1 DEF RoomInv, LastIsCurrent, LastRename, RenameIn, Current
<1>11. \A i \in 1..Len(events) : PersonAt(i) =>
          \/ txn'.at = "rename" /\ txn'.name = events[i].name
          \/ \E k \in 1..Len(events') : PersonAt(k)' /\ events'[k].name = events[i].name
  BY <1>4, <1>6 DEF PersonAt
<1>12. PersonPending => PersonPending'
  BY <1>1, <1>11 DEF PersonPending
<1>13. RoomAhead => RoomAhead'
  BY <1>1, <1>11 DEF RoomAhead
<1>14. RoomFollows'
  BY <1>1, <1>13 DEF RoomInv, RoomFollows, RenameIn, Current
<1>15. PrefixFollows'
  BY <1>1, <1>12 DEF RoomInv, PrefixFollows, RenameIn
<1>16. QED BY <1>7, <1>8, <1>9, <1>10, <1>14, <1>15 DEF RoomInv

LEMMA RoomStutterStep ==
  ASSUME RoomInv, UNCHANGED R!vars
  PROVE  RoomInv'
BY DEF R!vars, RoomInv, RoomShape, Layers, Bare, PatternOnly, OnlyNames, ArchivedLast, LastKind,
       LastIsCurrent, LastRename, RenameIn, Current, RoomFollows, RoomAhead, PersonAt,
       PersonPending, PrefixFollows
-----------------------------------------------------------------------------
LEMMA RoomInvariance ==
  ASSUME RoomBounds
  PROVE  R!Spec => []RoomInv
<1>1. R!Init => RoomInv
  BY RoomInitial
<1>2. RoomInv /\ [R!Next]_(R!vars) => RoomInv'
  <2> SUFFICES ASSUME RoomInv, [R!Next]_(R!vars) PROVE RoomInv'
    OBVIOUS
  <2>1. CASE UNCHANGED R!vars
    BY <2>1, RoomStutterStep
  <2>2. CASE \E t \in RoomTexts : R!PersonRenamesChannel(t) \/ R!PersonRenamesRoom(t) \/ R!PersonSetsPurpose(t)
    BY <2>2, PersonOnSlackStep, PersonRenamesRoomStep
  <2>3. CASE R!PersonArchives \/ R!PersonUnarchives
    BY <2>3, PersonArchivesStep, PersonUnarchivesStep
  <2>4. CASE R!TakeEnvelope
    BY <2>4, TakeEnvelopeStep
  <2>5. CASE R!MappingFound
    BY <2>5, MappingFoundStep
  <2>6. CASE R!Compared
    BY <2>6, ComparedStep
  <2>7. CASE R!NameSet
    BY <2>7, RoomNameSetStep
  <2>8. CASE R!RowUpdated
    BY <2>8, RoomRowUpdatedStep
  <2>9. CASE R!NoticeSent \/ R!NameRead
    BY <2>9, ArchivingStep
  <2>10. CASE R!PrefixSet
    BY <2>10, PrefixSetStep
  <2>11. CASE R!LoopFails \/ R!RenameRefused
    BY <2>11, FaultStep
  <2>12. CASE R!TakeEvent
    BY <2>12, TakeEventStep
  <2>13. CASE R!ChannelRenamed
    BY <2>13, ChannelRenamedStep
  <2>14. QED BY <2>1, <2>2, <2>3, <2>4, <2>5, <2>6, <2>7, <2>8, <2>9, <2>10, <2>11, <2>12,
                <2>13 DEF R!Next
<1>3. QED BY <1>1, <1>2, PTL DEF R!Spec

\* Names, envelopes and transactions keep their types (bridge.rs).
LEMMA RoomTypes ==
  ASSUME RoomBounds
  PROVE  R!Spec => []R!TypeOK
<1>1. RoomInv => R!TypeOK
  BY DEF RoomInv, RoomShape, R!TypeOK, Envelope, RoomEvent
<1>2. QED BY <1>1, RoomInvariance, PTL

\* When all is delivered, room and channel have one name (bridge.rs).
LEMMA RoomFollowing ==
  ASSUME RoomBounds
  PROVE  R!Spec => []R!NamesFollowSlack
<1>1. RoomInv => R!NamesFollowSlack
  <2> SUFFICES ASSUME RoomInv PROVE R!NamesFollowSlack
    OBVIOUS
  <2>1. rSlack.pattern = 0
    BY DEF RoomInv, Layers, Bare
  <2>2. ASSUME R!Quiet, rFaults = 0
        PROVE  /\ room.text \in {rSlack.text, purpose}
               /\ archived /\ namePrefix => room.prefix > 0
               /\ room.prefix > 0 => namePrefix /\ stamped
    <3>1. /\ loop.at = "idle" /\ txn.at = "idle" /\ 1..Len(envelopes) = {} /\ 1..Len(events) = {}
          /\ envelopes = <<>> /\ ~RenameIn
      BY <2>2 DEF R!Quiet, R!IdleAt, RenameIn
    <3>2. ~RoomAhead /\ ~PersonPending
      BY <3>1 DEF RoomAhead, PersonPending
    <3>3. Current(room)
      BY <2>2, <3>1, <3>2 DEF RoomInv, RoomFollows, Renaming
    <3>4. archived /\ namePrefix => room.prefix > 0
      BY <2>2, <3>1, <3>2 DEF RoomInv, PrefixFollows
    <3>5. ~stamped => room.prefix = 0
      BY <2>2, <3>1 DEF RoomInv, PrefixFollows, Renaming
    <3>6. ~namePrefix => room.prefix = 0
      BY DEF RoomInv, Layers
    <3>7. QED BY <3>3, <3>4, <3>5, <3>6 DEF Current
  <2>3. QED BY <2>1, <2>2 DEF R!NamesFollowSlack
<1>2. QED BY <1>1, RoomInvariance, PTL

\* A behaviour of the services is one of RoomMeta.
LEMMA RoomAlone == Spec => R!Spec
<1>1. Init => R!Init
  BY DEF Init
<1>2. [Next]_vars => [R!Next]_(R!vars)
  BY DEF Next, vars, pVars, qVars, eVars, rVars, uVars, bVars, mVars, gVars, sVars, R!vars
<1>3. QED BY <1>1, <1>2, PTL DEF Spec, R!Spec

\* For any texts and any number of renames, archivings and unarchivings that cross: with
\* every event handled and no call failed, the room and the channel have one text, an
\* archived channel's room has the prefix if one is configured, a room has it only if the
\* channel was archived after its last rename, and no echo has carried the pattern to
\* Slack (bridge.rs: the handlers of channel renames, archivings and room names).
THEOREM NamesFollow == Spec => []NamesFollowSlack
<1>1. RoomBounds
  BY BoundsAreNat, RoomForFaults DEF RoomBounds
<1>2. R!Spec => []R!NamesFollowSlack
  BY <1>1, RoomFollowing
<1>3. R!NamesFollowSlack => NamesFollowSlack
  BY DEF NamesFollowSlack, Of
<1>4. QED BY <1>2, <1>3, RoomAlone, PTL
-----------------------------------------------------------------------------
\* Whatever the part, its variables keep their types: the tables, queues and feeds of every
\* service, for any sets of names, rooms, users and calls.
THEOREM TypesCorrect == Spec => []TypeOK
<1>1. /\ PresenceBounds /\ EmojiBounds /\ RoomBounds /\ ProfileBounds /\ MemberBounds /\ StoreBounds
      /\ Q!Bounds /\ B!Bounds /\ M!Bounds
  BY BoundsAreNat, CallsFinite, RoomsFinite, RoomForFaults, NullIsNoText, MessageCounts
  DEF PresenceBounds, EmojiBounds, RoomBounds, ProfileBounds, MemberBounds, StoreBounds, Texts,
      Q!Bounds, B!Bounds, M!Bounds
<1>2. Spec => []P!TypeOK
  <2>1. P!Spec => []P!TypeOK
    BY <1>1, PresenceTypes
  <2>2. QED BY <2>1, PresenceAlone, PTL
<1>3. Spec => []Q!TypeOK
  <2>1. Q!Spec => []Q!TypeOK
    BY <1>1, QueueTypes
  <2>2. QED BY <2>1, QueueAlone, PTL
<1>4. Spec => []E!TypeOK
  <2>1. E!Spec => []E!TypeOK
    BY <1>1, EmojiTypes
  <2>2. QED BY <2>1, EmojiAlone, PTL
<1>5. Spec => []R!TypeOK
  <2>1. R!Spec => []R!TypeOK
    BY <1>1, RoomTypes
  <2>2. QED BY <2>1, RoomAlone, PTL
<1>6. Spec => []U!TypeOK
  <2>1. U!Spec => []U!TypeOK
    BY <1>1, ProfileTypes
  <2>2. QED BY <2>1, ProfileAlone, PTL
<1>7. Spec => []B!TypeOK
  <2>1. B!Spec => []B!TypeOK
    BY <1>1, BlockerTypes
  <2>2. QED BY <2>1, BlockerAlone, PTL
<1>8. Spec => []M!TypeOK
  <2>1. M!Spec => []M!TypeOK
    BY <1>1, MessageTypes
  <2>2. QED BY <2>1, MessageAlone, PTL
<1>9. Spec => []G!TypeOK
  <2>1. G!Spec => []G!TypeOK
    BY <1>1, MemberTypes
  <2>2. QED BY <2>1, MemberAlone, PTL
<1>10. Spec => []S!TypeOK
  <2>1. S!Spec => []S!TypeOK
    BY <1>1, StoreTypes
  <2>2. QED BY <2>1, StoreAlone, PTL
<1>11. P!TypeOK /\ Q!TypeOK /\ E!TypeOK /\ R!TypeOK /\ U!TypeOK /\ B!TypeOK /\ M!TypeOK /\ G!TypeOK /\ S!TypeOK => TypeOK
  BY DEF TypeOK, Of
<1>12. QED BY <1>2, <1>3, <1>4, <1>5, <1>6, <1>7, <1>8, <1>9, <1>10, <1>11, PTL
=============================================================================
