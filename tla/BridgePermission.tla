-------------------------- MODULE BridgePermission --------------------------
(***************************************************************************)
(* What request_bridge_matrix_room expects of the approval coordinator: a  *)
(* call that asks is answered once, for good, and the answer is Ok only if *)
(* a moderator approved that call while it was being asked.  Nothing is    *)
(* said of how an answer finds its call, of timers, or of other calls.     *)
(***************************************************************************)
CONSTANT Requests       \* calls of ask_bridge_permission

VARIABLES
    phase,              \* phase[r]: what the caller of r can observe
    approved            \* the calls a moderator's approval was spent on

vars == <<phase, approved>>

Init ==
    /\ phase = [r \in Requests |-> "idle"]
    /\ approved = {}

AskPermission(r) ==
    /\ phase[r] = "idle"
    /\ phase' = [phase EXCEPT ![r] = "asked"]
    /\ UNCHANGED approved

Approve(r) ==
    /\ phase[r] = "asked"
    /\ r \notin approved
    /\ approved' = approved \cup {r}
    /\ UNCHANGED phase

Grant(r) ==
    /\ phase[r] = "asked"
    /\ r \in approved
    /\ phase' = [phase EXCEPT ![r] = "granted"]
    /\ UNCHANGED approved

(* Declined, timed out, cancelled, or, several at once, lost in a restart. *)
Refuse(S) ==
    /\ S # {}
    /\ \A r \in S : phase[r] = "asked"
    /\ phase' = [r \in Requests |-> IF r \in S THEN "refused" ELSE phase[r]]
    /\ UNCHANGED approved

Next ==
    \/ \E r \in Requests : AskPermission(r) \/ Approve(r) \/ Grant(r)
    \/ \E S \in SUBSET Requests : Refuse(S)

Spec == Init /\ [][Next]_vars
=============================================================================
