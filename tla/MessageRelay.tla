---------------------------- MODULE MessageRelay ----------------------------
(***************************************************************************)
(* Messages of one Slack channel and the Matrix room it is bridged to      *)
(* (bridge.rs, bridge/backfill.rs and the message store).                  *)
(*                                                                         *)
(* Three parties write to the room and to the table message_mappings,      *)
(* which says by what Matrix event a Slack message is represented: the     *)
(* socket loop, which relays new, edited and deleted messages one envelope *)
(* at a time; backfill_channel, spawned when the channel is bridged; and   *)
(* handle_matrix_redaction.  Each step is the work between two awaits that *)
(* touch shared state.  Attachments, replies and what a message says are   *)
(* left out, and the channel's history is one page.                        *)
(***************************************************************************)
EXTENDS Naturals, Sequences, FiniteSets

CONSTANTS
    NumMsgs,    \* messages posted in the channel, in this order
    OwnMsgs,    \* those of them the bridge posted, under the bot's own name
    Fills,      \* runs of backfill_channel, at most one for each bridging
    Faulty,     \* whether calls fail, acks get lost and the process dies
    MaxEvents,  \* bound: Matrix events sent
    MaxQueue,   \* bound: envelopes Slack has outstanding, one more if the
                \* bridge's own chat.delete caused it
    MaxRedactions \* bound: events redacted by Matrix users

Msgs == 1..NumMsgs
Events == 1..MaxEvents
None == 0       \* no event
Dangling == MaxEvents + 1   \* a Slack timestamp in the place of an event
Targets == Events \cup {None, Dangling}

ASSUME OwnAreMsgs == OwnMsgs \subseteq Msgs
ASSUME BoundsAreNat == NumMsgs \in Nat /\ MaxEvents \in Nat /\ MaxQueue \in Nat
ASSUME MaxRedactionsIsNat == MaxRedactions \in Nat
ASSUME FaultyIsBool == Faulty \in BOOLEAN

VARIABLES
    slack,      \* slack[m]: message m as Slack has it
    socket,     \* envelopes Slack has yet to deliver, or to deliver again
    bridged,    \* whether the channel has a row in room_mappings
    loop,       \* the handler the socket loop runs
    fill,       \* fill[f]: where backfill f stands
    inbox,      \* events whose redaction is yet to be handled
    redactor,   \* the run of handle_matrix_redaction
    mapping,    \* table message_mappings: mapping[m] is an event or None
    events,     \* the messages and edits sent to the room, oldest first
    redacted,   \* events the bridge redacted
    userRedacted, \* events a Matrix user redacted
    clean       \* history: no fault, backfill or change of bridging so far

vars == <<slack, socket, bridged, loop, fill, inbox, redactor, mapping, events,
          redacted, userRedacted, clean>>

Envelope == [kind : {"new", "edit", "delete"}, msg : Msgs]
Handler(places) == [at : places, kind : {"new", "edit", "delete"}, msg : Msgs \cup {None},
                    ev : Events \cup {None}]
Idle == [at |-> "idle", kind |-> "new", msg |-> None, ev |-> None]

TypeOK ==
    /\ slack \in [Msgs -> {"unposted", "there", "deleted", "removed"}]
    /\ socket \in Seq(Envelope) /\ Len(socket) <= MaxQueue + 1
    /\ bridged \in BOOLEAN
    /\ loop \in Handler({"idle", "send", "map", "redact", "unmap"})
    /\ fill \in [Fills -> [at : {"unused", "fetch", "check", "send", "map", "done"},
                           todo : SUBSET Msgs, msg : Msgs \cup {None},
                           ev : Events \cup {None}]]
    /\ inbox \in SUBSET Events
    /\ redactor \in Handler({"idle", "delete", "unmap"})
    /\ mapping \in [Msgs -> Events \cup {None}]
    /\ events \in Seq([kind : {"new", "edit"}, msg : Msgs, of : Targets])
    /\ Len(events) <= MaxEvents
    /\ redacted \in SUBSET Events
    /\ userRedacted \in SUBSET Events
    /\ clean \in BOOLEAN

Init ==
    /\ slack = [m \in Msgs |-> "unposted"]
    /\ socket = <<>>
    /\ bridged = FALSE
    /\ loop = Idle
    /\ fill = [f \in Fills |-> [at |-> "unused", todo |-> {}, msg |-> None, ev |-> None]]
    /\ inbox = {}
    /\ redactor = Idle
    /\ mapping = [m \in Msgs |-> None]
    /\ events = <<>>
    /\ redacted = {}
    /\ userRedacted = {}
    /\ clean = TRUE

-----------------------------------------------------------------------------
(* Slack and its users.                                                    *)
Emit(kind, m) ==
    /\ Len(socket) <= MaxQueue
    /\ socket' = Append(socket, [kind |-> kind, msg |-> m])

Post(m) ==
    /\ slack[m] = "unposted"
    /\ \A k \in 1..m - 1 : slack[k] # "unposted"
    /\ Len(socket) < MaxQueue /\ Emit("new", m)
    /\ slack' = [slack EXCEPT ![m] = "there"]
    /\ UNCHANGED <<bridged, loop, fill, inbox, redactor, mapping, events, redacted,
                   userRedacted, clean>>

Edit(m) ==
    /\ slack[m] = "there"
    /\ Len(socket) < MaxQueue /\ Emit("edit", m)
    /\ UNCHANGED <<slack, bridged, loop, fill, inbox, redactor, mapping, events, redacted,
                   userRedacted, clean>>

DeleteOnSlack(m) ==
    /\ slack[m] = "there"
    /\ Len(socket) < MaxQueue /\ Emit("delete", m)
    /\ slack' = [slack EXCEPT ![m] = "deleted"]
    /\ UNCHANGED <<bridged, loop, fill, inbox, redactor, mapping, events, redacted,
                   userRedacted, clean>>

-----------------------------------------------------------------------------
(* Faults: see the remark in module Provisioning.                          *)
HandlerRedactsUnmapped(env) ==
    LET h == [at |-> "send", kind |-> env.kind, msg |-> env.msg, ev |-> mapping[env.msg]]
    IN  IF env.kind = "delete" THEN [h EXCEPT !.at = "redact"]
        ELSE IF env.msg \in OwnMsgs \/ ~bridged THEN Idle
        ELSE h

HandlerRedactsEdited(env) ==
    LET h == [at |-> "send", kind |-> env.kind, msg |-> env.msg, ev |-> mapping[env.msg]]
    IN  IF env.kind # "new" /\ h.ev # None THEN [h EXCEPT !.at = "redact"]
        ELSE IF env.msg \in OwnMsgs \/ ~bridged THEN Idle
        ELSE h

(* What the socket loop does with an envelope: messages of the bridge's    *)
(* own and messages of a channel that is not bridged are dropped, deletes  *)
(* are looked up in message_mappings whoever wrote the message.  What an   *)
(* edit is mapped to is read here, too, and may be nothing.                *)
HandlerOf(env) ==
    LET h == [at |-> "send", kind |-> env.kind, msg |-> env.msg, ev |-> mapping[env.msg]]
    IN  IF env.kind = "delete"
        THEN IF h.ev = None THEN Idle ELSE [h EXCEPT !.at = "redact"]
        ELSE IF env.msg \in OwnMsgs \/ ~bridged THEN Idle
        ELSE h

(* handle_socket_text acks before it handles; if the ack is lost, Slack    *)
(* delivers the envelope again.  The envelopes here are those it does not  *)
(* pass over for the type of their payload (module SocketMode).            *)
Receive ==
    /\ loop.at = "idle" /\ socket # <<>>
    /\ loop' = HandlerOf(Head(socket))
    /\ \/ socket' = Tail(socket) /\ UNCHANGED clean
       \/ Faulty /\ socket' = Append(Tail(socket), Head(socket)) /\ clean' = FALSE
    /\ UNCHANGED <<slack, bridged, fill, inbox, redactor, mapping, events, redacted,
                   userRedacted>>

(* An edit is sent in relation to the event its message is mapped to.  If  *)
(* it is mapped to none, apply_message_relation_mappings leaves the Slack  *)
(* timestamp where it is, and the edit replaces what is not an event.      *)
Relation(kind, target) ==
    IF kind # "edit" THEN None ELSE IF target = None THEN Dangling ELSE target

SendToMatrix(kind, m, target) ==
    /\ Len(events) < MaxEvents
    /\ events' = Append(events, [kind |-> kind, msg |-> m, of |-> Relation(kind, target)])

Relay ==
    /\ loop.at = "send"
    /\ SendToMatrix(loop.kind, loop.msg, loop.ev)
    /\ loop' = [loop EXCEPT !.at = "map", !.ev = Len(events')]
    /\ UNCHANGED <<slack, socket, bridged, fill, inbox, redactor, mapping, redacted,
                   userRedacted, clean>>

MapRelayedToLast ==
    /\ loop.at = "map"
    /\ mapping' = [mapping EXCEPT ![loop.msg] = Len(events)]
    /\ loop' = Idle
    /\ UNCHANGED <<slack, socket, bridged, fill, inbox, redactor, events, redacted,
                   userRedacted, clean>>

(* upsert_message_mapping; after an edit it is the edit that is mapped.    *)
MapRelayed ==
    /\ loop.at = "map"
    /\ mapping' = [mapping EXCEPT ![loop.msg] = loop.ev]
    /\ loop' = Idle
    /\ UNCHANGED <<slack, socket, bridged, fill, inbox, redactor, events, redacted,
                   userRedacted, clean>>

(* handle_slack_message_delete: redact_message, delete_by_slack_message_id *)
Redact ==
    /\ loop.at = "redact"
    /\ redacted' = redacted \cup {loop.ev}
    /\ loop' = [loop EXCEPT !.at = "unmap"]
    /\ UNCHANGED <<slack, socket, bridged, fill, inbox, redactor, mapping, events,
                   userRedacted, clean>>

UnmapKeepsRow ==
    /\ loop.at = "unmap"
    /\ loop' = Idle
    /\ UNCHANGED <<slack, socket, bridged, fill, inbox, redactor, mapping, events, redacted,
                   userRedacted, clean>>

Unmap ==
    /\ loop.at = "unmap"
    /\ mapping' = [mapping EXCEPT ![loop.msg] = None]
    /\ loop' = Idle
    /\ UNCHANGED <<slack, socket, bridged, fill, inbox, redactor, events, redacted,
                   userRedacted, clean>>

(* A call fails, and the handler with it: nothing is tried again.  A call  *)
(* whose answer is lost leaves what it did behind.                         *)
LoopFails ==
    /\ Faulty /\ loop.at # "idle"
    /\ loop' = Idle
    /\ clean' = FALSE
    /\ UNCHANGED <<slack, socket, bridged, fill, inbox, redactor, mapping, events,
                   redacted, userRedacted>>

-----------------------------------------------------------------------------
(* The channel is bridged, which spawns backfill f, or unbridged, which    *)
(* does not stop it (module RoomBridge).                                   *)
Bridge(f) ==
    /\ ~bridged /\ fill[f].at = "unused"
    /\ bridged' = TRUE
    /\ fill' = [fill EXCEPT ![f].at = "fetch"]
    /\ clean' = (clean /\ \A m \in Msgs : slack[m] = "unposted")
    /\ UNCHANGED <<slack, socket, loop, inbox, redactor, mapping, events, redacted,
                   userRedacted>>

Unbridge ==
    /\ bridged
    /\ bridged' = FALSE
    /\ clean' = FALSE
    /\ UNCHANGED <<slack, socket, loop, fill, inbox, redactor, mapping, events, redacted,
                   userRedacted>>

Resting(place, todo) == [at |-> place, todo |-> todo, msg |-> None, ev |-> None]

FillStep(f, state) ==
    /\ fill' = [fill EXCEPT ![f] = state]
    /\ UNCHANGED <<slack, socket, bridged, loop, inbox, redactor, redacted, userRedacted>>

(* The history holds the bridge's own messages too.                        *)
Fetch(f) ==
    /\ fill[f].at = "fetch"
    /\ LET history == {m \in Msgs : slack[m] = "there"}
       IN  /\ FillStep(f, [fill[f] EXCEPT !.at = "check", !.todo = history])
           /\ clean' = (clean /\ history = {})
    /\ UNCHANGED <<mapping, events>>

(* "Check if we already have this message bridged", oldest first.          *)
CheckMapped(f) ==
    /\ fill[f].at = "check"
    /\ \/ fill[f].todo = {} /\ FillStep(f, [fill[f] EXCEPT !.at = "done"])
       \/ \E m \in fill[f].todo :
             /\ \A k \in fill[f].todo : m <= k
             /\ LET rest == [fill[f] EXCEPT !.todo = @ \ {m}]
                IN  FillStep(f, IF mapping[m] # None THEN rest
                                ELSE [rest EXCEPT !.at = "send", !.msg = m])
    /\ UNCHANGED <<mapping, events, clean>>

FillSend(f) ==
    /\ fill[f].at = "send"
    /\ SendToMatrix("new", fill[f].msg, None)
    /\ FillStep(f, [fill[f] EXCEPT !.at = "map", !.ev = Len(events')])
    /\ UNCHANGED <<mapping, clean>>

FillMap(f) ==
    /\ fill[f].at = "map"
    /\ mapping' = [mapping EXCEPT ![fill[f].msg] = fill[f].ev]
    /\ FillStep(f, Resting("check", fill[f].todo))
    /\ UNCHANGED <<events, clean>>

(* A send or an upsert that fails costs one message; any other failure     *)
(* ends the backfill.                                                      *)
FillFails(f) ==
    /\ Faulty /\ clean' = FALSE
    /\ \/ fill[f].at \in {"send", "map"} /\ FillStep(f, Resting("check", fill[f].todo))
       \/ fill[f].at \in {"fetch", "check", "send"} /\ FillStep(f, Resting("done", {}))
    /\ UNCHANGED <<mapping, events>>

-----------------------------------------------------------------------------
(* A Matrix user redacts an event; the homeserver does so at once and then *)
(* tells the bridge.                                                       *)
UserRedacts(e) ==
    /\ e <= Len(events) /\ Cardinality(userRedacted) < MaxRedactions
    /\ e \notin redacted \cup userRedacted
    /\ userRedacted' = userRedacted \cup {e}
    /\ inbox' = inbox \cup {e}
    /\ UNCHANGED <<slack, socket, bridged, loop, fill, redactor, mapping, events, redacted,
                   clean>>

(* handle_matrix_redaction: get_by_matrix_event_id, chat.delete, which may *)
(* be refused, and delete_by_matrix_event_id.                              *)
HandleRedaction(e) ==
    /\ redactor.at = "idle" /\ e \in inbox
    /\ inbox' = inbox \ {e}
    /\ \/ /\ bridged
          /\ \E m \in Msgs : /\ mapping[m] = e
                             /\ redactor' = [Idle EXCEPT !.at = "delete", !.msg = m, !.ev = e]
       \/ ~(bridged /\ \E m \in Msgs : mapping[m] = e) /\ UNCHANGED redactor
    /\ UNCHANGED <<slack, socket, bridged, loop, fill, mapping, events, redacted,
                   userRedacted, clean>>

DeleteIgnoresRefusal ==
    /\ redactor.at = "delete"
    /\ \/ /\ slack[redactor.msg] = "there"
          /\ slack' = [slack EXCEPT ![redactor.msg] = "removed"]
          /\ Emit("delete", redactor.msg)
       \/ UNCHANGED <<slack, socket>>
    /\ redactor' = [redactor EXCEPT !.at = "unmap"]
    /\ UNCHANGED <<bridged, loop, fill, inbox, mapping, events, redacted, userRedacted,
                   clean>>

DeleteFromSlack ==
    /\ redactor.at = "delete"
    /\ \/ /\ slack[redactor.msg] = "there"
          /\ slack' = [slack EXCEPT ![redactor.msg] = "removed"]
          /\ Emit("delete", redactor.msg)
          /\ redactor' = [redactor EXCEPT !.at = "unmap"]
       \/ redactor' = Idle /\ UNCHANGED <<slack, socket>>
    /\ UNCHANGED <<bridged, loop, fill, inbox, mapping, events, redacted, userRedacted,
                   clean>>

UnmapEvent ==
    /\ redactor.at = "unmap"
    /\ mapping' = [m \in Msgs |-> IF mapping[m] = redactor.ev THEN None ELSE mapping[m]]
    /\ redactor' = Idle
    /\ UNCHANGED <<slack, socket, bridged, loop, fill, inbox, events, redacted,
                   userRedacted, clean>>

(* A database call fails.                                                  *)
RedactorFails ==
    /\ Faulty /\ redactor.at # "idle"
    /\ redactor' = Idle
    /\ clean' = FALSE
    /\ UNCHANGED <<slack, socket, bridged, loop, fill, inbox, mapping, events, redacted,
                   userRedacted>>

-----------------------------------------------------------------------------
(* The process dies.  Slack has been acked what was in flight; the         *)
(* homeserver was not answered and sends its transaction again.            *)
Crash ==
    /\ Faulty
    /\ loop' = Idle
    /\ fill' = [f \in Fills |-> IF fill[f].at = "unused" THEN fill[f]
                                ELSE Resting("done", {})]
    /\ inbox' = inbox \cup ({redactor.ev} \ {None})
    /\ redactor' = Idle
    /\ clean' = FALSE
    /\ UNCHANGED <<slack, socket, bridged, mapping, events, redacted, userRedacted>>

LoopStep == Receive \/ Relay \/ MapRelayed \/ Redact \/ Unmap
BackfillStep(f) == Fetch(f) \/ CheckMapped(f) \/ FillSend(f) \/ FillMap(f)

Next ==
    \/ \E m \in Msgs : Post(m) \/ Edit(m) \/ DeleteOnSlack(m)
    \/ LoopStep
    \/ LoopFails
    \/ \E f \in Fills : Bridge(f) \/ BackfillStep(f) \/ FillFails(f)
    \/ Unbridge
    \/ \E e \in Events : UserRedacts(e) \/ HandleRedaction(e)
    \/ DeleteFromSlack
    \/ UnmapEvent
    \/ RedactorFails
    \/ Crash

Spec == Init /\ [][Next]_vars

-----------------------------------------------------------------------------
EventsOf(m) == {e \in 1..Len(events) : events[e].msg = m}
Latest(S) == CHOOSE e \in S : \A d \in S : d <= e

(* An event that represents a message was sent for that message, and an    *)
(* edit that replaces an event replaces an earlier one of its own message. *)
Related ==
    /\ \A m \in Msgs : mapping[m] # None => mapping[m] \in EventsOf(m)
    /\ \A e \in 1..Len(events) : events[e].of \notin {None, Dangling} =>
          events[e].of \in EventsOf(events[e].msg) /\ events[e].of < e

(* An edit replaces no event only if a Matrix user's redaction got ahead   *)
(* of it, or something failed, or its message is older than the bridging.  *)
DanglingIsExcused ==
    clean => \A e \in 1..Len(events) :
        events[e].of = Dangling => slack[events[e].msg] = "removed"

(* Both hold although loop, backfill and redactions overwrite and delete   *)
(* each other's rows between the read of a row and the use of it           *)
(* (apply_message_relation_mappings, handle_slack_message_with_context).   *)
RelationsStayInMessage == Related /\ DanglingIsExcused

(* Deletions cross the bridge only for a reason: the bridge redacts events *)
(* of messages that are gone from Slack, and removes from Slack messages   *)
(* one of whose events a Matrix user redacted.                             *)
DeletionsHaveCause ==
    /\ \A e \in redacted : e <= Len(events) /\ slack[events[e].msg] \in {"deleted", "removed"}
    /\ \A m \in Msgs : slack[m] = "removed" => EventsOf(m) \cap userRedacted # {}

(* No interleaving of the three writers loses the mapping of a message     *)
(* that is still there, without which it could no longer be edited,        *)
(* deleted or replied to.                                                  *)
MappingsOutliveMessages ==
    [][\A m \in Msgs : mapping[m] # None /\ mapping'[m] = None => slack[m] # "there"]_vars

Quiet ==
    /\ socket = <<>> /\ inbox = {}
    /\ loop = Idle /\ redactor = Idle
    /\ \A f \in Fills : fill[f].at \in {"unused", "done"}

(* If nothing failed, then once all is delivered the newest event of a     *)
(* message that is gone is redacted and its mapping with it, and every     *)
(* message of others posted since the channel was bridged is mapped to its *)
(* newest event.                                                           *)
QuietMeansInSync ==
    clean /\ Quiet => \A m \in Msgs :
        /\ slack[m] \in {"deleted", "removed"} =>
              /\ mapping[m] = None
              /\ EventsOf(m) # {} => Latest(EventsOf(m)) \in redacted \cup userRedacted
        /\ bridged /\ slack[m] = "there" /\ m \notin OwnMsgs =>
              mapping[m] = Latest(EventsOf(m))

(* "Check if we already have this message bridged" (backfill.rs): what the *)
(* loop relays, backfill does not send again.                              *)
BridgedOnce ==
    \A m \in Msgs : Cardinality({e \in EventsOf(m) : events[e].kind = "new"}) <= 1
=============================================================================
