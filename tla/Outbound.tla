------------------------------ MODULE Outbound ------------------------------
(***************************************************************************)
(* Matrix to Slack: the appservice transactions of a homeserver            *)
(* (matrix.rs, matrix/event_handler.rs), what a Matrix event becomes       *)
(* (bridge.rs, bridge/message_flow.rs) and how it is sent under send_lock  *)
(* (slack.rs).                                                             *)
(*                                                                         *)
(* The homeserver sends one transaction at a time and sends it again if it *)
(* gets no answer; whether the handler of the first try is cancelled then  *)
(* is up to the web server, so it may or may not be.  An event becomes a   *)
(* list of parts, each of which is sent under the lock.  A call to Slack   *)
(* succeeds, is refused, or succeeds and its answer is lost.               *)
(*                                                                         *)
(* Operators commented as a fault are slips a programmer could make; no    *)
(* specification uses them.                                                *)
(***************************************************************************)
EXTENDS Naturals, Sequences, FiniteSets

CONSTANTS
    NumTasks,   \* tasks of the web server
    Txn,        \* Txn[t]: the events of transaction t, in order
    Shape,      \* Shape[m]: what kind of event m is
    MaxFaults   \* bound: refused calls, lost answers, failed lookups, retries and crashes

Tasks == 1..NumTasks
None == 0       \* no task
NumTxns == Len(Txn)
Events == DOMAIN Shape
Shapes == {"text", "media", "edit", "kick", "ghost", "other"}
Parts == {"file", "url", "text", "edit", "notice"}

ASSUME EventsAreShaped == Events \subseteq Nat /\ Shape \in [Events -> Shapes]
ASSUME TxnsHaveEvents == Txn \in Seq(Seq(Events))
\* Events are numbered in the order the homeserver sends them.
ASSUME EventsNumbered == \A t, u \in DOMAIN Txn : \A i \in DOMAIN Txn[t], j \in DOMAIN Txn[u] :
                             t < u \/ (t = u /\ i < j) => Txn[t][i] < Txn[u][j]
ASSUME BoundsAreNat == NumTasks \in Nat /\ MaxFaults \in Nat

VARIABLES
    next,       \* the transaction the homeserver delivers or will deliver
    waiting,    \* the task whose answer it waits for
    task,       \* what each task does
    sendLock,   \* who holds send_lock
    channel,    \* the Slack channel: [ev, part] as they were posted
    faults,     \* faults so far
    failed,     \* history: events given up because Slack would not take a part
    unread,     \* history: events whose room could not be looked up
    tooOld,     \* events that were over the age limit when they were handled
    unsure,     \* history: events of which an answer was lost
    retried     \* history: whether a transaction was delivered again

vars == <<next, waiting, task, sendLock, channel, faults, failed, unread, tooOld, unsure, retried>>

Idle == [at |-> "idle", txn |-> 1, pos |-> 1, parts |-> <<>>, plain |-> FALSE]
EventOf(h) == Txn[h.txn][h.pos]

TypeOK ==
    /\ next \in 1..NumTxns + 1
    /\ waiting \in Tasks \cup {None}
    /\ waiting # None => task[waiting].at # "idle" /\ task[waiting].txn = next
    /\ task \in [Tasks -> [at : {"idle", "event", "lock", "send"}, txn : Nat \ {0}, pos : Nat \ {0},
                          parts : Seq(Parts), plain : BOOLEAN]]
    /\ \A r \in Tasks :
          /\ task[r].at # "idle" => task[r].txn \in 1..NumTxns
          /\ task[r].at \in {"lock", "send"} =>
                task[r].pos \in DOMAIN Txn[task[r].txn] /\ task[r].parts # <<>>
          /\ task[r].at = "send" <=> sendLock = r
    /\ sendLock \in Tasks \cup {None}
    /\ channel \in Seq([ev : Events, part : Parts])
    /\ faults \in 0..MaxFaults
    /\ failed \in SUBSET Events /\ unread \in SUBSET Events /\ tooOld \in SUBSET Events
    /\ unsure \in SUBSET Events /\ retried \in BOOLEAN

Init ==
    /\ next = 1 /\ waiting = None
    /\ task = [r \in Tasks |-> Idle]
    /\ sendLock = None
    /\ channel = <<>>
    /\ faults = 0 /\ failed = {} /\ unread = {} /\ tooOld = {} /\ unsure = {} /\ retried = FALSE

-----------------------------------------------------------------------------
(* The homeserver. *)

DeliverAtOnce(r) ==     \* a fault: the events are spawned and the answer is given at once
    /\ waiting = None /\ next <= NumTxns /\ task[r].at = "idle"
    /\ next' = next + 1
    /\ task' = [task EXCEPT ![r] = [Idle EXCEPT !.at = "event", !.txn = next]]
    /\ UNCHANGED <<waiting, sendLock, channel, faults, failed, unread, tooOld, unsure, retried>>

Deliver(r) ==
    /\ waiting = None /\ next <= NumTxns /\ task[r].at = "idle"
    /\ waiting' = r
    /\ task' = [task EXCEPT ![r] = [Idle EXCEPT !.at = "event", !.txn = next]]
    /\ UNCHANGED <<next, sendLock, channel, faults, failed, unread, tooOld, unsure, retried>>

\* It heard nothing for too long.  The first try goes on, or is dropped with
\* the guard it holds.
Retry(r) ==
    /\ waiting # None /\ task[r].at = "idle" /\ faults < MaxFaults
    /\ faults' = faults + 1 /\ retried' = TRUE
    /\ waiting' = r
    /\ LET again == [task EXCEPT ![r] = [Idle EXCEPT !.at = "event", !.txn = next]]
       IN  \/ task' = again /\ UNCHANGED sendLock
           \/ /\ task' = [again EXCEPT ![waiting] = Idle]
              /\ sendLock' = IF sendLock = waiting THEN None ELSE sendLock
    /\ UNCHANGED <<next, channel, failed, unread, tooOld, unsure>>

Crash ==
    /\ faults < MaxFaults
    /\ faults' = faults + 1
    /\ retried' = (retried \/ waiting # None)
    /\ waiting' = None
    /\ task' = [r \in Tasks |-> Idle] /\ sendLock' = None
    /\ UNCHANGED <<next, channel, failed, unread, tooOld, unsure>>

-----------------------------------------------------------------------------
(* on_transaction and the handlers. *)

AnswerAnyTry(r) ==      \* a fault: a late answer counts for the try under way
    /\ task[r].at = "event" /\ task[r].pos > Len(Txn[task[r].txn])
    /\ task' = [task EXCEPT ![r] = Idle]
    /\ waiting' = None /\ next' = next + 1
    /\ UNCHANGED <<sendLock, channel, faults, failed, unread, tooOld, unsure, retried>>

\* The answer to a try the homeserver no longer waits for goes nowhere.
Answer(r) ==
    /\ task[r].at = "event" /\ task[r].pos > Len(Txn[task[r].txn])
    /\ task' = [task EXCEPT ![r] = Idle]
    /\ IF waiting = r THEN waiting' = None /\ next' = next + 1 ELSE UNCHANGED <<waiting, next>>
    /\ UNCHANGED <<sendLock, channel, faults, failed, unread, tooOld, unsure, retried>>

PlansTextFirst(m) ==    \* a fault: the body is sent before the attachments
    IF Shape[m] = "media" THEN {<<"text", "file">>, <<"text", "url">>}
    ELSE IF Shape[m] = "text" THEN {<<"text">>} ELSE {<<>>}

\* What may be sent for an event.  A medium is downloaded first; what is too
\* large or cannot be had is sent as its URL, and its body is a text.
Plans(m) ==
    CASE Shape[m] = "text" -> {<<"text">>}
      [] Shape[m] = "media" -> {<<"file", "text">>, <<"url", "text">>}
      [] Shape[m] = "edit" -> {<<"edit">>}
      [] Shape[m] = "kick" -> {<<"notice">>}
      [] OTHER -> {<<>>}

Done(r) == task' = [task EXCEPT ![r] = [Idle EXCEPT !.at = "event", !.txn = task[r].txn,
                                                    !.pos = task[r].pos + 1]]

\* One event.  Its age is looked at anew with every delivery, and what was too
\* old once is so again.  If its room cannot be looked up the event is given up
\* with a line in the log.  A ghost's event is dropped whatever its age, before
\* the lookup; any other without a plan has no room on Slack.
Handle(r) ==
    /\ task[r].at = "event" /\ task[r].pos \in DOMAIN Txn[task[r].txn]
    /\ LET m == EventOf(task[r]) IN
       \/ /\ Shape[m] # "ghost"
          /\ Done(r) /\ tooOld' = tooOld \cup {m} /\ UNCHANGED <<faults, unread>>
       \/ /\ Shape[m] # "ghost" /\ m \notin tooOld /\ faults < MaxFaults
          /\ Done(r) /\ faults' = faults + 1 /\ unread' = unread \cup {m} /\ UNCHANGED tooOld
       \/ /\ m \notin tooOld
          /\ \E plan \in Plans(m) :
                IF plan = <<>> THEN Done(r)
                ELSE task' = [task EXCEPT ![r] = [@ EXCEPT !.at = "lock", !.parts = plan]]
          /\ UNCHANGED <<faults, unread, tooOld>>
    /\ UNCHANGED <<next, waiting, sendLock, channel, failed, unsure, retried>>

-----------------------------------------------------------------------------
(* Sending a part (send_message_with_metadata_as_user, send_file_as_user). *)

\* A notice is sent under the bot's own name, so there is no second try.
TakeLock(r) ==
    /\ task[r].at = "lock" /\ sendLock = None
    /\ sendLock' = r
    /\ task' = [task EXCEPT ![r] = [@ EXCEPT !.at = "send", !.plain = Head(task[r].parts) = "notice"]]
    /\ UNCHANGED <<next, waiting, channel, faults, failed, unread, tooOld, unsure, retried>>

Posted(r) == channel' = Append(channel, [ev |-> EventOf(task[r]), part |-> Head(task[r].parts)])

SentAndFallsThrough(r) ==   \* a fault: the URL is sent after a successful upload, too
    /\ task[r].at = "send" /\ Head(task[r].parts) # "edit"
    /\ Posted(r)
    /\ sendLock' = None
    /\ IF Head(task[r].parts) = "file"
       THEN task' = [task EXCEPT ![r] = [@ EXCEPT !.at = "lock", !.parts = <<"url">> \o Tail(@)]]
       ELSE IF Len(task[r].parts) = 1 THEN Done(r)
       ELSE task' = [task EXCEPT ![r] = [@ EXCEPT !.at = "lock", !.parts = Tail(task[r].parts),
                                                    !.plain = FALSE]]
    /\ UNCHANGED <<next, waiting, faults, failed, unread, tooOld, unsure, retried>>

\* The part is sent: on to the next one, or to the next event.
Sent(r) ==
    /\ task[r].at = "send" /\ Head(task[r].parts) # "edit"
    /\ Posted(r)
    /\ sendLock' = None
    /\ IF Len(task[r].parts) = 1 THEN Done(r)
       ELSE task' = [task EXCEPT ![r] = [@ EXCEPT !.at = "lock", !.parts = Tail(task[r].parts),
                                                    !.plain = FALSE]]
    /\ UNCHANGED <<next, waiting, faults, failed, unread, tooOld, unsure, retried>>

\* A fault: an error is passed on out of the loop over the transaction.
AfterErrorStops(r) ==
    /\ task' = [task EXCEPT ![r] = [@ EXCEPT !.at = "event", !.parts = <<>>, !.plain = FALSE,
                                             !.pos = Len(Txn[task[r].txn]) + 1]]
    /\ sendLock' = None /\ failed' = failed \cup {EventOf(task[r])}

AfterErrorInside(r) ==      \* a fault: the URL is sent while the upload's guard is held
    LET h == task[r] IN
    CASE Head(h.parts) = "file" ->
             /\ task' = [task EXCEPT ![r] =
                            [h EXCEPT !.at = "lock", !.parts = <<"url">> \o Tail(h.parts)]]
             /\ UNCHANGED <<sendLock, failed>>
      [] Head(h.parts) # "file" /\ ~h.plain ->
             /\ task' = [task EXCEPT ![r].plain = TRUE]
             /\ UNCHANGED <<sendLock, failed>>
      [] OTHER -> Done(r) /\ sendLock' = None /\ failed' = failed \cup {EventOf(h)}

\* After an upload the guard is gone and a URL is sent instead; after a post
\* with the sender's name and icon the same is posted without, under the same
\* guard; after that the event is given up, with what was left of it.
AfterError(r) ==
    LET h == task[r] IN
    CASE Head(h.parts) = "file" ->
             /\ task' = [task EXCEPT ![r] =
                            [h EXCEPT !.at = "lock", !.parts = <<"url">> \o Tail(h.parts)]]
             /\ sendLock' = None /\ UNCHANGED failed
      [] Head(h.parts) # "file" /\ ~h.plain ->
             /\ task' = [task EXCEPT ![r].plain = TRUE]
             /\ UNCHANGED <<sendLock, failed>>
      [] OTHER -> Done(r) /\ sendLock' = None /\ failed' = failed \cup {EventOf(h)}

\* The message an edit names is known to Slack by another id: edit_of is the
\* id of a Matrix event, and no table has Slack's id for it.
Refused(r) ==
    /\ task[r].at = "send"
    /\ IF Head(task[r].parts) = "edit" THEN UNCHANGED faults
       ELSE faults < MaxFaults /\ faults' = faults + 1
    /\ AfterError(r)
    /\ UNCHANGED <<next, waiting, channel, unread, tooOld, unsure, retried>>

AnswerLost(r) ==
    /\ task[r].at = "send" /\ Head(task[r].parts) # "edit"
    /\ faults < MaxFaults /\ faults' = faults + 1
    /\ Posted(r)
    /\ AfterError(r)
    /\ unsure' = unsure \cup {EventOf(task[r])}
    /\ UNCHANGED <<next, waiting, unread, tooOld, retried>>

Step(r) == \/ Answer(r) \/ Handle(r) \/ TakeLock(r)
           \/ Sent(r) \/ Refused(r) \/ AnswerLost(r)
Next == Crash \/ \E r \in Tasks : Deliver(r) \/ Retry(r) \/ Step(r)

Spec == Init /\ [][Next]_vars

\* The runtime polls every task, and Slack answers or the call fails.  The
\* lock is handed on in the order it was asked for.  The homeserver goes on
\* delivering.
FairSpec == /\ Spec
            /\ \A r \in Tasks : WF_vars(Step(r)) /\ SF_vars(TakeLock(r))
            /\ WF_vars(\E r \in Tasks : Deliver(r))

-----------------------------------------------------------------------------
(* Properties *)

Copies(m, part) == {i \in DOMAIN channel : channel[i] = [ev |-> m, part |-> part]}

\* A part of an event is posted more than once, or an attachment both as a
\* file and as a URL, only if an answer of Slack was lost or a transaction
\* was delivered again: neither the second post without the sender's name nor
\* the URL in place of a file follows on a success.
DuplicatesExcused == ~retried => \A m \in Events \ unsure :
    /\ \A part \in Parts : Cardinality(Copies(m, part)) <= 1
    /\ Copies(m, "file") = {} \/ Copies(m, "url") = {}

\* Slack shows events in the order the homeserver sent them, and the text of
\* one below its attachments, as long as no transaction is delivered again:
\* the next transaction waits for the answer, the answer for the last of the
\* sends, and what takes the place of a failed upload for its turn.
InOrderUnlessRetried == ~retried => \A i, j \in DOMAIN channel :
    i < j => \/ channel[i].ev < channel[j].ev
             \/ channel[i].ev = channel[j].ev /\ (channel[i].part = "text" => channel[j].part = "text")

\* When a transaction has been answered, so that the homeserver forgets it,
\* the text of each of its events is in the channel, unless Slack refused that
\* very event twice, its own room could not be looked up, or it was over the
\* age limit when its turn came: no error of one event takes another along.
AnsweredMeansSent == \A t \in 1..next - 1 : \A i \in DOMAIN Txn[t] :
    LET m == Txn[t][i] IN
    Shape[m] \in {"text", "media"} =>
        Copies(m, "text") # {} \/ m \in failed \cup unread \cup tooOld

\* Every transaction is answered in the end, whatever fails and however often
\* it is retried: no task keeps the lock, no error ends the loop over events.
EveryTxnAnswered == <>[](next > NumTxns)

\* "This bridge uses Slack's APIs: [...] Slack Web API for outbound messaging,
\* edits, file uploads, and lookups" (README.md): an edit that was answered
\* is on Slack, unless it was too old.  It is not: chat.update gets the id of a Matrix event.
EditsReachSlack == \A t \in 1..next - 1 : \A i \in DOMAIN Txn[t] :
    Shape[Txn[t][i]] = "edit" => Copies(Txn[t][i], "edit") # {} \/ Txn[t][i] \in unsure \cup tooOld
=============================================================================
