----------------------------- MODULE MCOutbound -----------------------------
(* Small instances of Outbound. *)
EXTENDS Outbound, TLC

\* A text after a medium in one transaction, and two more events after it.
Mixed == <<<<1, 2, 3>>, <<4, 5>>>>
MixedShape == <<"media", "ghost", "text", "kick", "text">>

\* A text and the edit of it.
Edited == <<<<1>>, <<2>>>>
EditedShape == <<"text", "edit">>
=============================================================================
