--------------------------- MODULE MCMessageRelay ---------------------------
(* A small instance of MessageRelay: one message of a Slack user and one   *)
(* the bridge posted itself, one backfill.                                 *)
EXTENDS MessageRelay, TLC

CONSTANTS f1

OneFill == {f1}
SecondIsOwn == {2}
NoneIsOwn == {}
=============================================================================
