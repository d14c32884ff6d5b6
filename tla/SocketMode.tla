----------------------------- MODULE SocketMode -----------------------------
(***************************************************************************)
(* The Slack side of the process (slack.rs, main.rs): login with its       *)
(* retries, the gateway task that keeps a socket mode connection and reads *)
(* it, the filter of the bridge's own events, the permission cache, and    *)
(* the shutdown that races all of them.                                    *)
(*                                                                         *)
(* Slack keeps an event until it gets the ack of an envelope and may send  *)
(* it again before.  The gateway acks, then handles; what the bridge does  *)
(* with a forwarded event is the business of other modules.  A step goes   *)
(* from one await to the next.  abort() takes effect at an await.          *)
(*                                                                         *)
(* Operators commented as a fault are slips a programmer could make; no    *)
(* specification uses them.                                                *)
(***************************************************************************)
EXTENDS Naturals, Sequences, FiniteSets

CONSTANTS
    Users,          \* Slack users
    Bot,            \* the bridge's own user
    NumEvents,      \* events on Slack
    Type,           \* Type[e]: the type of e, or its subtype if a message
    By,             \* By[e]: who caused e
    AppToken,       \* whether the configuration has an app token
    InitialRetry,   \* seconds before the first retry
    MaxRetry,       \* seconds no wait exceeds
    Unmarked,       \* events whose payload does not call itself "events_api", or
                    \* has no event in it, if Slack so chooses
    MaxSends,       \* times Slack sends an event before it gives up
    MaxInbox        \* bound: frames on their way to the bridge

Events == 1..NumEvents
Nobody == 0                     \* no event
Disconnect == NumEvents + 1     \* the frame of a disconnect payload

\* The event types dispatched on, by what their handlers do with them.
Filtered == {"message", "me_message", "thread_broadcast", "bot_message",
             "message_changed", "user_typing", "user_change", "reaction_added", "reaction_removed",
             "member_joined_channel", "member_left_channel", "channel_marked"}
Unfiltered == {"channel_rename", "channel_archive", "emoji_changed",
               "channel_joined", "channel_left", "message_deleted",
               "channel_topic", "channel_purpose", "channel_name"}
Ignored == {"channel_created", "other"}
\* The types whose sender's permissions are resolved first.
Messages == {"message", "me_message", "thread_broadcast", "bot_message", "message_changed"}

ASSUME BotIsNoUser == Bot \notin Users
ASSUME EventsAreTyped == /\ Type \in [Events -> Filtered \cup Unfiltered \cup Ignored]
                         /\ By \in [Events -> Users \cup {Bot}]
ASSUME PayloadsDiffer == Unmarked \subseteq Events
ASSUME RetriesAreNat == /\ InitialRetry \in Nat /\ MaxRetry \in Nat
                        /\ InitialRetry <= MaxRetry
ASSUME BoundsAreNat == NumEvents \in Nat /\ MaxSends \in Nat /\ MaxInbox \in Nat
ASSUME TokenIsBool == AppToken \in BOOLEAN

VARIABLES
    main,       \* main: running, stopping, joining the gateway, or stopped
    starter,    \* the task of SlackClient::start: its place and its wait
    lock,       \* who holds login_state
    loggedIn,   \* is_logged_in
    botKnown,   \* whether bot_user_id and bot_id are set
    gw,         \* the gateway task: its place, the event it has, its verdict
    gwRetry,    \* its retry_seconds
    conn,       \* the connection
    inbox,      \* frames on their way to the bridge
    acks,       \* acks on their way to Slack
    pending,    \* events Slack has and was not acked
    sent,       \* sent[e]: how often Slack sent e
    cache,      \* permission_cache
    admin,      \* users that are administrators on Slack
    handled,    \* history: handled[e], runs of a handler for e
    acked,      \* history: acked[e], acks written for e
    forwarded,  \* history: events given to the bridge
    dropped,    \* history: events the gateway had in hand when it was aborted
    passed,     \* history: events acked and passed over for their payload's type
    grounds     \* history: what cache[u] rests on: a lookup that told, one that
                \* failed, or one before a change of the user's standing

slackVars == <<inbox, acks, pending, sent>>
loginVars == <<starter, lock, loggedIn, botKnown>>
permVars == <<cache, admin, grounds>>
historyVars == <<handled, acked, forwarded, dropped, passed>>
vars == <<main, loginVars, gw, gwRetry, conn, slackVars, permVars, historyVars>>

Waits == InitialRetry..MaxRetry
Idle(place) == [at |-> place, ev |-> Nobody, perm |-> FALSE]
InHand == {"fetch", "cache", "handle"}

TypeOK ==
    /\ main \in {"running", "stopping", "joining", "stopped"}
    /\ starter \in [at : {"lock", "auth", "set", "sleep", "ready", "gone"},
                    retry : Waits]
    /\ lock \in {"free", "starter", "main"}
    /\ lock = "starter" <=> starter.at \in {"auth", "set"}
    /\ loggedIn \in BOOLEAN /\ botKnown \in BOOLEAN
    /\ gw \in [at : {"none", "start", "ended", "open", "connect", "read", "sleep"} \cup InHand,
               ev : Events \cup {Nobody}, perm : BOOLEAN]
    /\ gw.ev # Nobody <=> gw.at \in InHand
    /\ gwRetry \in Waits
    /\ conn \in {"none", "up", "draining", "closed"}
    /\ conn # "none" <=> gw.at \in {"read"} \cup InHand
    /\ inbox \in Seq(Events \cup {Disconnect}) /\ Len(inbox) <= MaxInbox + 1
    /\ acks \in SUBSET Events /\ pending \in SUBSET Events
    /\ sent \in [Events -> 0..MaxSends]
    /\ cache \in [Users -> {"none", "yes", "no"}]
    /\ admin \in SUBSET Users
    /\ handled \in [Events -> 0..MaxSends] /\ acked \in [Events -> 0..MaxSends]
    /\ forwarded \in SUBSET Events /\ dropped \in SUBSET Events /\ passed \in SUBSET Events
    /\ grounds \in [Users -> {"told", "failed", "changed"}]

Init ==
    /\ main = "running"
    /\ starter = [at |-> "lock", retry |-> InitialRetry]
    /\ lock = "free" /\ loggedIn = FALSE /\ botKnown = FALSE
    /\ gw = Idle("none") /\ gwRetry = InitialRetry
    /\ conn = "none" /\ inbox = <<>>
    /\ acks = {} /\ pending = {} /\ sent = [e \in Events |-> 0]
    /\ cache = [u \in Users |-> "none"]
    /\ admin \in SUBSET Users
    /\ handled = [e \in Events |-> 0] /\ acked = [e \in Events |-> 0]
    /\ forwarded = {} /\ dropped = {} /\ passed = {}
    /\ grounds = [u \in Users |-> "told"]

DoubledUncapped(seconds) == 2 * seconds      \* a fault

Doubled(seconds) == IF 2 * seconds < MaxRetry THEN 2 * seconds ELSE MaxRetry

-----------------------------------------------------------------------------
(* Login: start() calls login() until it succeeds. *)

StarterStep(from, to) == starter.at = from /\ starter' = [starter EXCEPT !.at = to]

\* Login takes the lock and asks Slack who it is, holding it.  A task that
\* was running when it was aborted gets this far and is dropped at the await.
TakeLock ==
    /\ lock = "free"
    /\ StarterStep("lock", IF loggedIn THEN "ready" ELSE "auth")
    /\ lock' = IF loggedIn THEN "free" ELSE "starter"
    /\ UNCHANGED <<main, loggedIn, botKnown, gw, gwRetry, conn, slackVars, permVars,
                   historyVars>>

AuthAnsweredLate ==     \* a fault: the identities are stored by a task of their own
    /\ main = "running"
    /\ StarterStep("auth", "set")
    /\ UNCHANGED <<main, lock, loggedIn, botKnown, gw, gwRetry, conn, slackVars, permVars,
                   historyVars>>

\* The identities are known from here on.
AuthAnswered ==
    /\ main = "running"
    /\ StarterStep("auth", "set")
    /\ botKnown' = TRUE
    /\ UNCHANGED <<main, lock, loggedIn, gw, gwRetry, conn, slackVars, permVars, historyVars>>

AuthFails ==
    /\ StarterStep("auth", "sleep")
    /\ lock' = "free"
    /\ UNCHANGED <<main, loggedIn, botKnown, gw, gwRetry, conn, slackVars, permVars, historyVars>>

SpawnUnnoted ==     \* a fault: is_logged_in is left for the first connection to set
    /\ StarterStep("set", "ready")
    /\ gw' = Idle("start")
    /\ lock' = "free"
    /\ UNCHANGED <<main, loggedIn, botKnown, gwRetry, conn, slackVars, permVars, historyVars>>

\* The gateway is spawned and remembered with no await in between.
Spawn ==
    /\ starter.at = "set" /\ starter' = [at |-> "ready", retry |-> InitialRetry]
    /\ gw' = Idle("start")
    /\ loggedIn' = TRUE /\ lock' = "free"
    /\ UNCHANGED <<main, botKnown, gwRetry, conn, slackVars, permVars, historyVars>>

StarterWakes ==
    /\ main = "running"
    /\ starter.at = "sleep"
    /\ starter' = [at |-> "lock", retry |-> Doubled(starter.retry)]
    /\ UNCHANGED <<main, lock, loggedIn, botKnown, gw, gwRetry, conn, slackVars, permVars,
                   historyVars>>

\* The aborted task is dropped at an await, with the guard it may hold.
StarterDropped ==
    /\ main # "running"
    /\ starter.at # "gone"
    /\ starter' = [starter EXCEPT !.at = "gone"]
    /\ lock' = IF lock = "starter" THEN "free" ELSE lock
    /\ UNCHANGED <<main, loggedIn, botKnown, gw, gwRetry, conn, slackVars, permVars, historyVars>>

-----------------------------------------------------------------------------
(* Shutdown: main aborts the starter, does not wait for it, and calls stop. *)

Interrupt == /\ main = "running"
             /\ main' = "stopping"
             /\ UNCHANGED <<loginVars, gw, gwRetry, conn, slackVars, permVars, historyVars>>

StopTakesLock ==
    /\ main = "stopping" /\ lock = "free"
    /\ main' = IF loggedIn THEN "joining" ELSE "stopped"
    /\ lock' = IF loggedIn THEN "main" ELSE "free"
    /\ UNCHANGED <<starter, loggedIn, botKnown, gw, gwRetry, conn, slackVars, permVars,
                   historyVars>>

GatewayNotAborted ==    \* a fault: stop waits for the task without aborting it
    FALSE

GatewayDropped ==
    /\ main = "joining" /\ gw.at \notin {"none", "ended"}
    /\ dropped' = dropped \cup ({gw.ev} \ {Nobody})
    /\ gw' = Idle("ended")
    /\ conn' = "none" /\ inbox' = <<>> /\ acks' = {}
    /\ UNCHANGED <<main, loginVars, gwRetry, pending, sent, permVars, handled, acked, forwarded,
                   passed>>

StopJoined ==
    /\ main = "joining" /\ gw.at \in {"none", "ended"}
    /\ main' = "stopped" /\ loggedIn' = FALSE /\ lock' = "free"
    /\ UNCHANGED <<starter, botKnown, gw, gwRetry, conn, slackVars, permVars, historyVars>>

-----------------------------------------------------------------------------
(* The gateway task: socket_mode_loop and the handlers it calls. *)

gwOnly == <<main, loginVars, permVars, historyVars>>

GatewayBegins ==
    /\ gw.at = "start"
    /\ gw' = Idle(IF AppToken THEN "open" ELSE "ended")
    /\ gwRetry' = InitialRetry
    /\ UNCHANGED <<gwOnly, conn, slackVars>>

UrlOpened == /\ gw.at = "open"
             /\ gw' = Idle("connect")
             /\ UNCHANGED <<gwOnly, gwRetry, conn, slackVars>>

Connected ==
    /\ gw.at = "connect"
    /\ gw' = Idle("read") /\ conn' = "up"
    /\ gwRetry' = InitialRetry
    /\ UNCHANGED <<gwOnly, slackVars>>

ConnectFailureEnds ==   \* a fault: the error is passed on with `?`
    /\ gw.at \in {"open", "connect"}
    /\ gw' = Idle("ended")
    /\ UNCHANGED <<gwOnly, gwRetry, conn, slackVars>>

\* The URL is refused, or the connection to it fails.
ConnectFails ==
    /\ gw.at \in {"open", "connect"}
    /\ gw' = Idle("sleep")
    /\ UNCHANGED <<gwOnly, gwRetry, conn, slackVars>>

GatewayWakes ==
    /\ gw.at = "sleep"
    /\ gw' = Idle("open") /\ gwRetry' = Doubled(gwRetry)
    /\ UNCHANGED <<gwOnly, conn, slackVars>>

\* The stream ends once all that arrived before the close was read.
StreamEnds ==
    /\ gw.at = "read" /\ conn = "closed" /\ inbox = <<>>
    /\ gw' = Idle("sleep") /\ conn' = "none"
    /\ UNCHANGED <<gwOnly, gwRetry, slackVars>>

\* is_own_message can tell only once login has stored who the bot is.
OwnMessage(e) == By[e] = Bot /\ botKnown

\* Where an acked event goes: nowhere, to the lookup of its sender's
\* permissions, or to the bridge.
Dispatch(e) ==
    CASE Type[e] \in Ignored \/ (Type[e] \in Filtered /\ OwnMessage(e)) -> Idle("read")
      [] Type[e] \in Messages /\ ~OwnMessage(e) ->
             IF By[e] \in Users /\ cache[By[e]] # "none"
             THEN [at |-> "handle", ev |-> e, perm |-> cache[By[e]] = "yes"]
             ELSE [at |-> "fetch", ev |-> e, perm |-> FALSE]
      [] OTHER -> [at |-> "handle", ev |-> e, perm |-> FALSE]

\* The ack is written before the event is handled.  Written to a connection
\* that is gone it may seem to succeed.  Only then is the payload looked at:
\* one that does not call itself "events_api", or has no event, is passed over
\* with no error and no line in the log.  Sent again it is the same payload.
ReadEvent ==
    /\ gw.at = "read" /\ inbox # <<>> /\ Head(inbox) # Disconnect
    /\ \E marked \in BOOLEAN : LET e == Head(inbox) IN
       /\ IF acked[e] > 0 THEN marked <=> e \notin passed ELSE marked \/ e \in Unmarked
       /\ gw' = IF marked THEN Dispatch(e) ELSE Idle("read")
       /\ acked' = [acked EXCEPT ![e] = @ + 1]
       /\ handled' = [handled EXCEPT
                         ![e] = @ + (IF marked /\ Dispatch(e).ev = Nobody THEN 1 ELSE 0)]
       /\ passed' = IF marked THEN passed ELSE passed \cup {e}
       /\ acks' = IF conn = "closed" THEN acks ELSE acks \cup {e}
    /\ inbox' = Tail(inbox)
    /\ UNCHANGED <<main, loginVars, gwRetry, conn, pending, sent, permVars, forwarded, dropped>>

\* The error is returned before the event is looked at.
AckFails ==
    /\ gw.at = "read" /\ conn = "closed" /\ inbox # <<>> /\ Head(inbox) # Disconnect
    /\ inbox' = Tail(inbox)
    /\ UNCHANGED <<gwOnly, gw, gwRetry, conn, acks, pending, sent>>

\* A disconnect payload is an error that is logged; the stream is read on.
ReadDisconnect ==
    /\ gw.at = "read" /\ inbox # <<>> /\ Head(inbox) = Disconnect
    /\ inbox' = Tail(inbox)
    /\ UNCHANGED <<gwOnly, gw, gwRetry, conn, acks, pending, sent>>

Rests(u, ground) == grounds' = IF u \in Users THEN [grounds EXCEPT ![u] = ground] ELSE grounds

FetchFailsEarly ==      \* a fault: the message is given up when the lookup fails
    /\ gw.at = "fetch"
    /\ \/ /\ gw' = [gw EXCEPT !.at = "cache", !.perm = By[gw.ev] \in admin]
          /\ Rests(By[gw.ev], "told")
       \/ gw' = Idle("read") /\ grounds' = grounds
    /\ UNCHANGED <<main, loginVars, gwRetry, conn, slackVars, cache, admin, historyVars>>

\* users.info tells, or fails and counts as no permission at all.
FetchAnswered ==
    /\ gw.at = "fetch"
    /\ \E ok \in BOOLEAN :
          /\ gw' = [gw EXCEPT !.at = "cache",
                              !.perm = ok /\ By[gw.ev] \in admin]
          /\ Rests(By[gw.ev], IF ok THEN "told" ELSE "failed")
    /\ UNCHANGED <<main, loginVars, gwRetry, conn, slackVars, cache, admin, historyVars>>

CacheStaysOpen ==       \* a fault: a positive entry is never replaced by a negative one
    /\ gw.at = "cache"
    /\ gw' = [gw EXCEPT !.at = "handle"]
    /\ cache' = [cache EXCEPT ![By[gw.ev]] = "yes"]
    /\ UNCHANGED <<main, loginVars, gwRetry, conn, slackVars, admin, grounds, historyVars>>

\* Failed or not, the answer is kept for PERMISSION_CACHE_TTL_SECONDS.
CachePermissions ==
    /\ gw.at = "cache"
    /\ gw' = [gw EXCEPT !.at = "handle"]
    /\ cache' = IF By[gw.ev] \in Users
                THEN [cache EXCEPT ![By[gw.ev]] = IF gw.perm THEN "yes" ELSE "no"]
                ELSE cache
    /\ UNCHANGED <<main, loginVars, gwRetry, conn, slackVars, admin, grounds, historyVars>>

\* The bridge's handler; its errors are logged.
Forward ==
    /\ gw.at = "handle"
    /\ handled' = [handled EXCEPT ![gw.ev] = @ + 1]
    /\ forwarded' = forwarded \cup {gw.ev}
    /\ gw' = Idle("read")
    /\ UNCHANGED <<main, loginVars, gwRetry, conn, slackVars, permVars, acked, dropped, passed>>

-----------------------------------------------------------------------------
(* Slack, the network and the clock. *)

slackOnly == <<main, loginVars, gw, gwRetry, permVars, historyVars>>

Occurs(e) ==
    /\ sent[e] = 0 /\ e \notin pending
    /\ pending' = pending \cup {e}
    /\ UNCHANGED <<slackOnly, conn, inbox, acks, sent>>

Deliver(e) ==
    /\ conn = "up" /\ e \in pending /\ e \notin {inbox[i] : i \in DOMAIN inbox}
    /\ sent[e] < MaxSends /\ Len(inbox) < MaxInbox
    /\ inbox' = Append(inbox, e)
    /\ sent' = [sent EXCEPT ![e] = @ + 1]
    /\ UNCHANGED <<slackOnly, conn, acks, pending>>

AckArrives(e) ==
    /\ e \in acks
    /\ acks' = acks \ {e} /\ pending' = pending \ {e}
    /\ UNCHANGED <<slackOnly, conn, inbox, sent>>

SlackDisconnects ==
    /\ conn = "up"
    /\ conn' = "draining" /\ inbox' = Append(inbox, Disconnect)
    /\ UNCHANGED <<slackOnly, acks, pending, sent>>

\* What was on its way to the bridge may be lost, acks to Slack are.
ConnectionLost ==
    /\ conn \in {"up", "draining"}
    /\ conn' = "closed" /\ acks' = {}
    /\ inbox' \in {inbox, <<>>}
    /\ UNCHANGED <<slackOnly, pending, sent>>

AdminChanges(u) ==
    /\ admin' = IF u \in admin THEN admin \ {u} ELSE admin \cup {u}
    /\ IF cache[u] = "none" /\ gw.at # "cache" THEN UNCHANGED grounds ELSE Rests(u, "changed")
    /\ UNCHANGED <<main, loginVars, gw, gwRetry, conn, slackVars, cache, historyVars>>

CacheExpires(u) ==
    /\ cache[u] # "none"
    /\ cache' = [cache EXCEPT ![u] = "none"]
    /\ Rests(u, "told")
    /\ UNCHANGED <<main, loginVars, gw, gwRetry, conn, slackVars, admin, historyVars>>

Starter == TakeLock \/ AuthAnswered \/ AuthFails \/ Spawn \/ StarterWakes \/ StarterDropped
Shutdown == StopTakesLock \/ GatewayDropped \/ StopJoined
GatewayReads == StreamEnds \/ ReadEvent \/ AckFails \/ ReadDisconnect
GatewayHandles == FetchAnswered \/ CachePermissions \/ Forward
Gateway == \/ GatewayBegins \/ UrlOpened \/ Connected \/ ConnectFails \/ GatewayWakes
           \/ GatewayReads \/ GatewayHandles
Slack == \/ \E e \in Events : Occurs(e) \/ Deliver(e) \/ AckArrives(e)
         \/ SlackDisconnects \/ ConnectionLost
         \/ \E u \in Users : AdminChanges(u) \/ CacheExpires(u)

\* The gateway takes no step once it is aborted: each begins at an await.
Next == \/ Starter \/ Interrupt \/ Shutdown
        \/ main # "joining" /\ Gateway
        \/ main # "stopped" /\ Slack

Spec == Init /\ [][Next]_vars

\* The runtime polls each task that can go on; timers fire.  Slack answers in
\* the end: not every login, URL, connection is refused.  It delivers what is
\* pending, and closes a connection after its disconnect payload.  Nobody is
\* assumed to press Ctrl+C.
Fairness ==
    /\ WF_vars(Starter) /\ SF_vars(AuthAnswered)
    /\ WF_vars(Shutdown)
    /\ WF_vars(Gateway /\ main # "joining")
    /\ SF_vars(UrlOpened) /\ SF_vars(Connected)
    /\ SF_vars(\E e \in Events : Deliver(e))
    /\ WF_vars(conn = "draining" /\ ConnectionLost)

FairSpec == Spec /\ Fairness

-----------------------------------------------------------------------------
(* Properties *)

\* The bridge never gets an event of its own back from Slack, among the types
\* that are filtered, however early an event arrives after login: whoever
\* runs the gateway knows who the bot is (login, is_own_message).
NoEcho == \A e \in forwarded : By[e] = Bot => Type[e] \in Unfiltered

\* When stop() has returned, no gateway is running and none will be, though
\* main does not wait for the starter it aborted and a login may be under way
\* (login, stop and the lock between them).
StoppedMeansQuiet == main = "stopped" => gw.at \in {"none", "ended"} /\ ~loggedIn /\ conn = "none"

\* A handler runs at most as often as an ack was written: an event whose ack
\* could not be written is left for Slack to send again, not handled now and
\* then once more (handle_socket_text).
HandledOncePerAck == \A e \in Events : handled[e] <= acked[e]

\* An event Slack takes for delivered was handled, is being handled, or was in
\* hand when the gateway was aborted: no failure of a write, a lookup or the
\* connection between the ack and the handler loses it.  The exception is the
\* code's: the type of the payload is looked at after the ack, and an event
\* whose payload is not marked is gone (handle_socket_text to forward_message).
LossExcused == \A e \in Events :
    sent[e] > 0 /\ e \notin pending =>
        handled[e] > 0 \/ gw.ev = e \/ e \in dropped \/ e \in passed

\* Permission is granted to nobody who was not an administrator when last
\* looked up, and refused to an administrator only if the lookup failed or
\* the standing changed since (resolve_permissions, fetch_permissions).
PermissionHasGrounds == \A u \in Users : grounds[u] # "changed" =>
    /\ cache[u] = "yes" => u \in admin
    /\ cache[u] = "no" => u \notin admin \/ grounds[u] = "failed"

\* Slack gave up on e: each time it was sent it was lost with its connection,
\* before an ack was written.
GivenUp(e) == sent[e] = MaxSends /\ acked[e] = 0 /\ e \notin {inbox[i] : i \in DOMAIN inbox}

\* What happens on Slack is handled in the end: over failing logins, refused
\* and broken connections, disconnect payloads and lost acks.  Excused: Slack
\* gave up on the event, the process is shut down or has no app token, or the
\* payload of the event was not marked as the code wants it.
EveryEventHandled == \A e \in Events : e \in pending ~>
    handled[e] > 0 \/ e \in passed \/ GivenUp(e) \/ main # "running" \/ ~AppToken

\* A shutdown ends, wherever the login and the gateway stand, although stop
\* waits for the lock a login holds over a request, and for the gateway.
ShutdownEnds == main = "stopping" ~> main = "stopped"
=============================================================================
