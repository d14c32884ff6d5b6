---------------------------- MODULE ChannelQueue ----------------------------
(***************************************************************************)
(* bridge/queue.rs: a mutex per channel, made on the first use of the      *)
(* channel.  enqueue looks the mutex up under the lock of the map, spawns  *)
(* a task and returns; the spawned task takes the mutex, which serves in   *)
(* the order in which it was asked, runs and drops it.  The runtime starts *)
(* spawned tasks in any order.  The bridge keeps a ChannelQueue and never  *)
(* calls it: Enqueue stands for any caller.                                *)
(***************************************************************************)
EXTENDS Integers, Sequences, FiniteSets

CONSTANTS
    Channels,
    NumTasks            \* bound on the tasks

\* What the theorems assume of the constants.
Bounds == NumTasks \in Nat

Tasks == 1..NumTasks
Mutexes == 1..NumTasks          \* one is made per enqueue at most
NoMutex == 0

VARIABLES
    queues,     \* mutex of each channel in the map, NoMutex for none
    waiting,    \* tasks that asked for each mutex, in order; the first one holds it
    task,       \* stage of each task
    channel,    \* channel of each task that has been enqueued
    mutex,      \* mutex each spawned task has a handle of
    made,       \* mutexes made so far
    asked       \* history: for each task, the tasks that had asked when it was enqueued

vars == <<queues, waiting, task, channel, mutex, made, asked>>
-----------------------------------------------------------------------------
TypeOK ==
    /\ queues \in [Channels -> 0..made]
    /\ waiting \in [Mutexes -> Seq(Tasks)]
    /\ task \in [Tasks -> {"new", "spawned", "waiting", "running", "done"}]
    /\ channel \in [Tasks -> Channels]
    /\ mutex \in [Tasks -> 0..made]
    /\ made \in 0..NumTasks
    /\ asked \in [Tasks -> SUBSET Tasks]

Init ==
    /\ queues = [c \in Channels |-> NoMutex]
    /\ waiting = [m \in Mutexes |-> <<>>]
    /\ task = [t \in Tasks |-> "new"]
    /\ channel \in [Tasks -> Channels]
    /\ mutex = [t \in Tasks |-> NoMutex]
    /\ made = 0
    /\ asked = [t \in Tasks |-> {}]
-----------------------------------------------------------------------------
HasAsked == {t \in Tasks : task[t] \in {"waiting", "running", "done"}}

MutexOfAnew(c) ==       \* a fault: insert instead of entry().or_insert_with()
    /\ made' = made + 1
    /\ queues' = [queues EXCEPT ![c] = made + 1]

\* The entry of the channel, made when there is none, under the lock of the map.
MutexOf(c) ==
    IF queues[c] = NoMutex
    THEN made' = made + 1 /\ queues' = [queues EXCEPT ![c] = made + 1]
    ELSE UNCHANGED <<made, queues>>

\* enqueue, enqueue_fut: callers enqueue task after task (tasks have the numbers
\* of their calls).
Enqueue(t) ==
    /\ task[t] = "new" /\ \A s \in 1..t - 1 : task[s] # "new"
    /\ MutexOf(channel[t])
    /\ mutex' = [mutex EXCEPT ![t] = queues'[channel[t]]]
    /\ task' = [task EXCEPT ![t] = "spawned"]
    /\ asked' = [asked EXCEPT ![t] = HasAsked]
    /\ UNCHANGED <<waiting, channel>>

\* The spawned task is polled for the first time and asks for the mutex.
Ask(t) ==
    /\ task[t] = "spawned"
    /\ waiting' = [waiting EXCEPT ![mutex[t]] = Append(@, t)]
    /\ task' = [task EXCEPT ![t] = "waiting"]
    /\ UNCHANGED <<queues, channel, mutex, made, asked>>

RunUnordered(t) ==      \* a fault: any task that waits may take the mutex
    /\ task[t] = "waiting"
    /\ \A s \in Tasks : mutex[s] = mutex[t] => task[s] # "running"
    /\ task' = [task EXCEPT ![t] = "running"]
    /\ UNCHANGED <<queues, waiting, channel, mutex, made, asked>>

\* It is its turn: the guard is held while the task runs.
Run(t) ==
    /\ task[t] = "waiting" /\ Head(waiting[mutex[t]]) = t
    /\ task' = [task EXCEPT ![t] = "running"]
    /\ UNCHANGED <<queues, waiting, channel, mutex, made, asked>>

\* The task ends, or panics: the guard is dropped either way.
End(t) ==
    /\ task[t] = "running"
    /\ waiting' = [waiting EXCEPT ![mutex[t]] = Tail(@)]
    /\ task' = [task EXCEPT ![t] = "done"]
    /\ UNCHANGED <<queues, channel, mutex, made, asked>>

Next == \E t \in Tasks : Enqueue(t) \/ Ask(t) \/ Run(t) \/ End(t)

Spec == Init /\ [][Next]_vars
-----------------------------------------------------------------------------
\* Two tasks of a channel never run at the same time, whoever enqueued them.
OneAtATime == \A s, t \in Tasks :
    s # t /\ channel[s] = channel[t] /\ task[s] = "running" => task[t] # "running"

\* A task runs before an earlier one of its channel only if that one had not yet
\* asked for the mutex when the later one was enqueued: what is serialised is the
\* polls of the spawned tasks, not the calls of enqueue (queue.rs:31).
TurnsInOrder == \A s, t \in Tasks :
    s \in asked[t] /\ channel[s] = channel[t] /\ task[t] \in {"running", "done"}
        => task[s] = "done"
=============================================================================
