---------------------------- MODULE Provisioning ----------------------------
(***************************************************************************)
(* The approval coordinator of bridge/provisioning.rs.                     *)
(*                                                                         *)
(* A Matrix user who wants a Slack channel bridged is made to wait until a *)
(* Slack moderator answers `!matrix approve` or `!matrix deny` in that     *)
(* channel.  Each wait is one call of ask_bridge_permission: it leaves the *)
(* sending half of a oneshot channel in the map `pending`, posts a prompt, *)
(* and then awaits the receiving half under a timer.  mark_approval takes  *)
(* the sender out of the map and uses it.  Calls for one channel share the *)
(* map entry, and nothing but the map's lock orders them.                  *)
(*                                                                         *)
(* Time is abstracted: the timer of a waiting call may fire at any moment. *)
(***************************************************************************)
EXTENDS Naturals, FiniteSets

CONSTANTS
    Requests,   \* calls of ask_bridge_permission; each is made at most once
    Channels,   \* Slack channels a bridge may be requested for
    NONE        \* no request: an absent map entry

ASSUME NoneIsNoRequest == NONE \notin Requests

VARIABLES
    pc,         \* pc[r]: how far call r has got
    channel,    \* channel[r]: the Slack channel call r asks about
    oneshot,    \* oneshot[r]: what became of the sending half of call r
    outcome,    \* outcome[r]: what call r returned
    pending,    \* pending[c]: the call whose sender the map holds for c
    newest      \* newest[c]: history, the last call that asked about c

vars == <<pc, channel, oneshot, outcome, pending, newest>>

Asking == {"prompting", "waiting"}          \* the receiver is still alive
Active == Asking \cup {"expired"}           \* the call has not returned

OneshotState == {"unused", "open", "allow", "deny", "dropped"}
Outcome == {"none", "granted", "declined", "cancelled", "delivery_failed",
            "timed_out", "aborted"}

TypeOK ==
    /\ pc \in [Requests -> {"idle", "done"} \cup Active]
    /\ channel \in [Requests -> Channels \cup {NONE}]
    /\ oneshot \in [Requests -> OneshotState]
    /\ outcome \in [Requests -> Outcome]
    /\ pending \in [Channels -> Requests \cup {NONE}]
    /\ newest \in [Channels -> Requests \cup {NONE}]

Init ==
    /\ pc = [r \in Requests |-> "idle"]
    /\ channel = [r \in Requests |-> NONE]
    /\ oneshot = [r \in Requests |-> "unused"]
    /\ outcome = [r \in Requests |-> "none"]
    /\ pending = [c \in Channels |-> NONE]
    /\ newest = [c \in Channels |-> NONE]

-----------------------------------------------------------------------------
(* Faults: the definition that follows each group of these, with the slip *)
(* that the name tells.  No specification uses them; they show that the    *)
(* properties below can tell the slip from the code.                       *)
RemoveEntryClearsMap(c) ==
    /\ pending' = [d \in Channels |-> NONE]
    /\ oneshot' = [q \in Requests |-> IF \E d \in Channels : q = pending[d] THEN "dropped"
                                      ELSE oneshot[q]]

(* pending.lock().remove(c): the entry goes, and with it the sender of     *)
(* whichever call put it there last, which need not be the one removing.   *)
RemoveEntry(c) ==
    /\ pending' = [pending EXCEPT ![c] = NONE]
    /\ oneshot' = [q \in Requests |-> IF q = pending[c] THEN "dropped" ELSE oneshot[q]]

ReturnSwapped(r, result) ==
    /\ pc' = [pc EXCEPT ![r] = result]
    /\ outcome' = [outcome EXCEPT ![r] = "done"]

Return(r, result) ==
    /\ pc' = [pc EXCEPT ![r] = "done"]
    /\ outcome' = [outcome EXCEPT ![r] = result]

AskKeepsOldEntry(r, c) ==
    /\ pc[r] = "idle"
    /\ pc' = [pc EXCEPT ![r] = "prompting"]
    /\ channel' = [channel EXCEPT ![r] = c]
    /\ pending' = [pending EXCEPT ![c] = IF @ = NONE THEN r ELSE @]
    /\ oneshot' = [oneshot EXCEPT ![r] = IF pending[c] = NONE THEN "open" ELSE "dropped"]
    /\ newest' = [newest EXCEPT ![c] = r]
    /\ UNCHANGED outcome

(* Register in the map and start posting the prompt.  Inserting over an    *)
(* earlier call's entry drops that call's sender.                          *)
Ask(r, c) ==
    /\ pc[r] = "idle"
    /\ pc' = [pc EXCEPT ![r] = "prompting"]
    /\ channel' = [channel EXCEPT ![r] = c]
    /\ pending' = [pending EXCEPT ![c] = r]
    /\ oneshot' = [q \in Requests |-> IF q = r THEN "open"
                                      ELSE IF q = pending[c] THEN "dropped"
                                      ELSE oneshot[q]]
    /\ newest' = [newest EXCEPT ![c] = r]
    /\ UNCHANGED outcome

PromptDelivered(r) ==
    /\ pc[r] = "prompting"
    /\ pc' = [pc EXCEPT ![r] = "waiting"]
    /\ UNCHANGED <<channel, oneshot, outcome, pending, newest>>

(* Slack refused the prompt, or the answer to the HTTP request was lost.   *)
PromptFailed(r) ==
    /\ pc[r] = "prompting"
    /\ RemoveEntry(channel[r])
    /\ Return(r, "delivery_failed")
    /\ UNCHANGED <<channel, newest>>

PollIgnoresDrop(r) ==
    /\ pc[r] = "waiting"
    /\ \/ oneshot[r] = "allow" /\ Return(r, "granted")
       \/ oneshot[r] = "deny" /\ Return(r, "declined")
    /\ UNCHANGED <<channel, oneshot, pending, newest>>

(* The timeout future polls the receiver before the timer, so a decision   *)
(* or a dropped sender that is already there wins over an elapsed timer.   *)
PollDecision(r) ==
    /\ pc[r] = "waiting"
    /\ \/ oneshot[r] = "allow" /\ Return(r, "granted")
       \/ oneshot[r] = "deny" /\ Return(r, "declined")
       \/ oneshot[r] = "dropped" /\ Return(r, "cancelled")
    /\ UNCHANGED <<channel, oneshot, pending, newest>>

(* The timer is found elapsed; from here nobody reads the receiver, but    *)
(* the map entry is still there until CleanUp gets the lock.               *)
TimerFires(r) ==
    /\ pc[r] = "waiting"
    /\ oneshot[r] = "open"
    /\ pc' = [pc EXCEPT ![r] = "expired"]
    /\ UNCHANGED <<channel, oneshot, outcome, pending, newest>>

CleanUpForgetsMap(r) ==
    /\ pc[r] = "expired"
    /\ Return(r, "timed_out")
    /\ UNCHANGED <<channel, oneshot, pending, newest>>

CleanUp(r) ==
    /\ pc[r] = "expired"
    /\ RemoveEntry(channel[r])
    /\ Return(r, "timed_out")
    /\ UNCHANGED <<channel, newest>>

MarkPeeks(c, allow) ==
    /\ pending[c] # NONE
    /\ oneshot' = [oneshot EXCEPT ![pending[c]] = IF allow THEN "allow" ELSE "deny"]
    /\ UNCHANGED <<pc, channel, outcome, pending, newest>>

MarkNewest(c, allow) ==
    /\ newest[c] # NONE
    /\ pending' = [pending EXCEPT ![c] = NONE]
    /\ oneshot' = [oneshot EXCEPT ![newest[c]] = IF allow THEN "allow" ELSE "deny"]
    /\ UNCHANGED <<pc, channel, outcome, newest>>

(* mark_approval(c, allow) answering Applied: take the entry and send      *)
(* through it, ignoring the error of a receiver that is gone.              *)
MarkApplied(c, allow) ==
    /\ pending[c] # NONE
    /\ pending' = [pending EXCEPT ![c] = NONE]
    /\ oneshot' = [oneshot EXCEPT ![pending[c]] = IF allow THEN "allow" ELSE "deny"]
    /\ UNCHANGED <<pc, channel, outcome, newest>>

(* mark_approval(c, allow) answering Expired changes nothing.              *)
MarkExpired(c) ==
    /\ pending[c] = NONE
    /\ UNCHANGED vars

(* The process dies: every call in flight and the map die with it.         *)
Crash ==
    /\ \E r \in Requests : pc[r] \in Active
    /\ pc' = [r \in Requests |-> IF pc[r] \in Active THEN "done" ELSE pc[r]]
    /\ outcome' = [r \in Requests |-> IF pc[r] \in Active THEN "aborted" ELSE outcome[r]]
    /\ oneshot' = [r \in Requests |-> IF oneshot[r] = "open" THEN "dropped" ELSE oneshot[r]]
    /\ pending' = [c \in Channels |-> NONE]
    /\ UNCHANGED <<channel, newest>>

CallStep(r) ==
    \/ PromptDelivered(r)
    \/ PromptFailed(r)
    \/ PollDecision(r)
    \/ TimerFires(r)
    \/ CleanUp(r)

Next ==
    \/ \E r \in Requests, c \in Channels : Ask(r, c)
    \/ \E r \in Requests : CallStep(r)
    \/ \E c \in Channels, allow \in BOOLEAN : MarkApplied(c, allow)
    \/ \E c \in Channels : MarkExpired(c)
    \/ Crash

Spec == Init /\ [][Next]_vars

(* Slack answers the prompt one way or the other, timers fire, and the     *)
(* runtime polls every ready task.  Nobody has to ask or to answer.        *)
FairSpec == Spec /\ \A r \in Requests : WF_vars(CallStep(r))

-----------------------------------------------------------------------------
(* The map and the senders agree: a sender is live exactly when the map    *)
(* holds it.  A waiter that fell out of the map could never be answered,   *)
(* and mark_approval, which answers Expired for an absent entry, would say *)
(* so to a moderator although somebody still waits.                        *)
SenderHeldIffPending ==
    \A r \in Requests : oneshot[r] = "open" <=> \E c \in Channels : pending[c] = r

(* An answer given in a channel can only reach the call that asked there   *)
(* last: the moderators see the newest prompt, and a superseded call must  *)
(* not be granted by it.                                                   *)
OnlyNewestCanBeAnswered ==
    \A c \in Channels : pending[c] \in {NONE, newest[c]}

(* No return path leaves an entry behind, although some remove by channel  *)
(* and may hit another call's entry: whatever the map holds belongs to a   *)
(* call that has not returned, for the channel it is filed under.          *)
NoStaleEntry ==
    \A c \in Channels :
        pending[c] # NONE => pc[pending[c]] \in Active /\ channel[pending[c]] = c

(* A call is granted only by an approval that was sent to that very call.  *)
GrantedOnlyIfApproved ==
    \A r \in Requests : outcome[r] = "granted" => oneshot[r] = "allow"

Rival(r) ==
    \E q \in Requests \ {r} : pc[q] # "idle" /\ channel[q] = channel[r]

(* A call is cancelled only through another call for the same channel,     *)
(* which replaced or removed its entry.                                    *)
CancelledOnlyByRival ==
    \A r \in Requests : outcome[r] = "cancelled" => Rival(r)

(* Every call that asks for permission returns.                            *)
EveryRequestReturns ==
    \A r \in Requests : pc[r] # "idle" ~> pc[r] = "done"

(* What the caller of each call has seen so far.                           *)
CallerPhase ==
    [r \in Requests |-> IF pc[r] = "idle" THEN "idle"
                        ELSE IF pc[r] \in Active THEN "asked"
                        ELSE IF outcome[r] = "granted" THEN "granted"
                        ELSE "refused"]

Permission == INSTANCE BridgePermission
    WITH phase <- CallerPhase, approved <- {r \in Requests : oneshot[r] = "allow"}

(* The coordinator, with its shared map, timers and removals by channel,   *)
(* gives every caller the service request_bridge_matrix_room relies on.    *)
ImplementsPermission == Permission!Spec

(* handle_slack_command_outcome tells a moderator that the bridge has been *)
(* approved when mark_approval answers Applied, and keeps "it has arrived  *)
(* after the deadline" for Expired: an approval that was applied is not    *)
(* answered to the Matrix side with a timeout.                             *)
ApprovedIsNotTimedOut ==
    \A r \in Requests : oneshot[r] = "allow" => outcome[r] # "timed_out"
=============================================================================
