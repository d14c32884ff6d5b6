---------------------------- MODULE MCSocketMode ----------------------------
(* A small instance of SocketMode: a command of a user, and a reaction the *)
(* bot itself set, which Slack reports back.  The payload of the command   *)
(* may be marked as the code wants it, or not.                             *)
EXTENDS SocketMode, TLC

CONSTANTS u1, bot

OneUser == {u1}
TypeOf == (1 :> "message") @@ (2 :> "reaction_added")
CausedBy == (1 :> u1) @@ (2 :> bot)
NotAlways == {1}
=============================================================================
