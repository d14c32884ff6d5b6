---------------------------- MODULE RoomRegistry ----------------------------
(***************************************************************************)
(* What those who bridge and unbridge rooms rely on: a one-to-one relation *)
(* of rooms and channels, on which each request has its effect at once and *)
(* once, or none.  A request to bridge makes the bridge it asked for; one  *)
(* to unbridge takes away a bridge of the room or channel it named; and    *)
(* nothing else changes the relation.  Nothing is said of ids, caches,     *)
(* aliases or limits, or of the awaits between request and answer.         *)
(***************************************************************************)
CONSTANTS
    Tasks,          \* whoever serves requests, each one at a time
    Rooms, Channels,
    NONE

VARIABLES
    bridges,        \* the relation
    wanted          \* wanted[t]: what the request t serves has yet to bring about

vars == <<bridges, wanted>>

Bridge == [room : Rooms, chan : Channels]

(* NONE stands for any room or channel.  A room to be bridged from Slack   *)
(* is one that the homeserver has yet to make.                             *)
Nothing == [kind |-> "none", room |-> NONE, chan |-> NONE]
Wanted ==
         [kind : {"make"}, room : Rooms \cup {NONE}, chan : Channels]
    \cup [kind : {"take"}, room : Rooms, chan : {NONE}]
    \cup [kind : {"take"}, room : {NONE}, chan : Channels]

Fits(b, w) == w.room \in {b.room, NONE} /\ w.chan \in {b.chan, NONE}

Init ==
    /\ bridges = {}
    /\ wanted = [t \in Tasks |-> Nothing]

Turn(t, w) == wanted' = [wanted EXCEPT ![t] = w]

Want(t) ==
    /\ wanted[t] = Nothing
    /\ UNCHANGED bridges
    /\ wanted'[t] \in Wanted
    /\ Turn(t, wanted'[t])

Make(t) ==
    /\ wanted[t].kind = "make"
    /\ \E b \in Bridge :
          /\ Fits(b, wanted[t])
          /\ \A x \in bridges : x.room # b.room /\ x.chan # b.chan
          /\ bridges' = bridges \cup {b}
    /\ Turn(t, Nothing)

Take(t) ==
    /\ wanted[t].kind = "take"
    /\ \E b \in bridges : Fits(b, wanted[t]) /\ bridges' = bridges \ {b}
    /\ Turn(t, Nothing)

(* Refused, failed, or too late.                                           *)
GiveUp(t) ==
    /\ wanted[t] # Nothing
    /\ UNCHANGED bridges
    /\ Turn(t, Nothing)

Restart ==
    /\ UNCHANGED bridges
    /\ wanted' = [t \in Tasks |-> Nothing]

Next ==
    \/ \E t \in Tasks : Want(t) \/ Make(t) \/ Take(t) \/ GiveUp(t)
    \/ Restart

Spec == Init /\ [][Next]_vars
=============================================================================
