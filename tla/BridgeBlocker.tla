--------------------------- MODULE BridgeBlocker ---------------------------
(***************************************************************************)
(* bridge/blocker.rs: the state of the bridge an operator pauses and       *)
(* resumes, and a check sets from the number of users.  A check counts     *)
(* users and rooms first, with an await each, and then takes the lock of   *)
(* the state: what it writes was true when it counted.  BridgeCore makes a *)
(* new blocker at each call of blocker(), and no caller keeps one; the     *)
(* actions stand for the callers of one that is kept.                      *)
(***************************************************************************)
EXTENDS Integers, FiniteSets

CONSTANTS
    Checks,         \* concurrent callers of check_and_update
    UserLimit,      \* bridge.user_limit
    MaxUsers,       \* bound on the users
    MaxOrders       \* bound on pauses and resumes

\* What the theorems assume of the constants.
Bounds == UserLimit \in Nat /\ MaxUsers \in Nat /\ MaxOrders \in Nat

VARIABLES
    users,          \* rows of user_mappings
    state,          \* BridgeStatus.state
    activeUsers,    \* BridgeStatus.active_users
    check,          \* where each check is
    counted,        \* what it has counted
    orders,         \* pauses and resumes so far
    paused,         \* history: the operator's last order was to pause
    overruled       \* history: since that pause a check has found too many users

vars == <<users, state, activeUsers, check, counted, orders, paused, overruled>>
-----------------------------------------------------------------------------
TypeOK ==
    /\ users \in 0..MaxUsers
    /\ state \in {"Active", "Paused", "Limited"}
    /\ activeUsers \in 0..MaxUsers
    /\ check \in [Checks -> {"idle", "rooms", "write"}]
    /\ counted \in [Checks -> 0..MaxUsers]
    /\ orders \in 0..MaxOrders
    /\ paused \in BOOLEAN /\ overruled \in BOOLEAN

Init ==
    /\ users = 0 /\ state = "Active" /\ activeUsers = 0
    /\ check = [c \in Checks |-> "idle"] /\ counted = [c \in Checks |-> 0]
    /\ orders = 0 /\ paused = FALSE /\ overruled = FALSE
-----------------------------------------------------------------------------
\* Rows come and go.
UsersChange(n) ==
    /\ n # users /\ users' = n
    /\ UNCHANGED <<state, activeUsers, check, counted, orders, paused, overruled>>

\* check_and_update: count_active_users.
UsersCounted(c) ==
    /\ check[c] = "idle"
    /\ check' = [check EXCEPT ![c] = "rooms"]
    /\ counted' = [counted EXCEPT ![c] = users]
    /\ UNCHANGED <<users, state, activeUsers, orders, paused, overruled>>

\* count_rooms: an answer, or an error that ends the check (the count of users, too,
\* may fail, which changes nothing).
RoomsCounted(c) ==
    /\ check[c] = "rooms"
    /\ \/ check' = [check EXCEPT ![c] = "write"] /\ UNCHANGED counted
       \/ /\ check' = [check EXCEPT ![c] = "idle"]
          /\ counted' = [counted EXCEPT ![c] = 0]
    /\ UNCHANGED <<users, state, activeUsers, orders, paused, overruled>>

RestoredAnyway(n) ==     \* a fault: any state that blocks is lifted below the limit
    IF n > UserLimit THEN "Limited" ELSE "Active"

\* The state after a check that has counted n users.
Restored(n) ==
    CASE n > UserLimit                          -> "Limited"
      [] n <= UserLimit /\ state = "Limited"    -> "Active"
      [] OTHER                                  -> state

\* The lock of the state is held from here to the end of check_and_update.
Checked(c) ==
    /\ check[c] = "write"
    /\ state' = Restored(counted[c])
    /\ activeUsers' = counted[c]
    /\ overruled' = (overruled \/ counted[c] > UserLimit)
    /\ check' = [check EXCEPT ![c] = "idle"]
    /\ counted' = [counted EXCEPT ![c] = 0]
    /\ UNCHANGED <<users, orders, paused>>

Pause ==
    /\ orders < MaxOrders /\ orders' = orders + 1
    /\ state' = "Paused"
    /\ paused' = TRUE /\ overruled' = FALSE
    /\ UNCHANGED <<users, activeUsers, check, counted>>

Resume ==
    /\ orders < MaxOrders /\ orders' = orders + 1
    /\ state' = "Active"
    /\ paused' = FALSE /\ overruled' = FALSE
    /\ UNCHANGED <<users, activeUsers, check, counted>>

Next ==
    \/ \E n \in 0..MaxUsers : UsersChange(n)
    \/ \E c \in Checks : UsersCounted(c) \/ RoomsCounted(c) \/ Checked(c)
    \/ Pause \/ Resume

Spec == Init /\ [][Next]_vars
-----------------------------------------------------------------------------
\* should_accept_new_user.
AcceptsNewUser == state = "Active" /\ activeUsers < UserLimit

\* A bridge its operator has paused takes no new user until it is resumed, unless a
\* check has found too many users meanwhile: that one turns the pause into a limit,
\* which the next check lifts (blocker.rs:69, :76).
PauseHolds == paused /\ AcceptsNewUser => overruled
=============================================================================
