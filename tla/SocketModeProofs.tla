--------------------------- MODULE SocketModeProofs ---------------------------
(***************************************************************************)
(* The safety properties of SocketMode, for any events, users, waits and   *)
(* bounds.  The inductive invariant has one part for each concern:         *)
(* LoginOK (who holds the lock, and what is known once the gateway runs),  *)
(* InboxOK (frames on their way), CountOK (acks and handlers), EchoOK (the *)
(* bot's own events) and PermOK (what the permission cache rests on).      *)
(***************************************************************************)
EXTENDS SocketMode, TLAPS

LoginOK ==
    /\ lock = "main" <=> main = "joining"
    /\ main = "stopped" => ~loggedIn
    /\ starter.at \in {"lock", "auth", "set", "sleep"} => ~loggedIn
    /\ starter.at = "set" => botKnown /\ main \in {"running", "stopping"}
    /\ loggedIn => botKnown
    /\ gw.at \notin {"none", "ended"} => loggedIn

InboxOK ==
    /\ conn = "none" => inbox = <<>>
    /\ conn = "up" => Len(inbox) <= MaxInbox
    /\ \A i, j \in 1..Len(inbox) : inbox[i] = inbox[j] /\ inbox[i] # Disconnect => i = j
    /\ \A i \in 1..Len(inbox) : inbox[i] # Disconnect => acked[inbox[i]] < sent[inbox[i]]

CountOK == \A e \in Events :
    /\ acked[e] <= sent[e] /\ handled[e] <= acked[e]
    /\ gw.ev = e => handled[e] < acked[e]
    /\ e \in acks => acked[e] > 0
    /\ sent[e] > 0 /\ e \notin pending => acked[e] > 0
    /\ acked[e] > 0 => handled[e] > 0 \/ gw.ev = e \/ e \in dropped \/ e \in passed

EchoOK ==
    /\ gw.ev # Nobody /\ By[gw.ev] = Bot => Type[gw.ev] \in Unfiltered
    /\ NoEcho

PermOK ==
    /\ gw.at \in {"fetch", "cache"} => By[gw.ev] \in Users /\ cache[By[gw.ev]] = "none"
    /\ gw.at = "cache" /\ grounds[By[gw.ev]] # "changed" =>
          /\ gw.perm => By[gw.ev] \in admin
          /\ ~gw.perm => By[gw.ev] \notin admin \/ grounds[By[gw.ev]] = "failed"
    /\ PermissionHasGrounds

IInv == TypeOK /\ LoginOK /\ InboxOK /\ CountOK /\ EchoOK /\ PermOK

Assumptions == /\ Bot \notin Users
               /\ Type \in [Events -> Filtered \cup Unfiltered \cup Ignored]
               /\ By \in [Events -> Users \cup {Bot}] /\ Unmarked \subseteq Events
               /\ InitialRetry \in Nat /\ MaxRetry \in Nat /\ InitialRetry <= MaxRetry
               /\ NumEvents \in Nat /\ MaxSends \in Nat /\ MaxInbox \in Nat
               /\ AppToken \in BOOLEAN

LEMMA Assumed == Assumptions
BY BotIsNoUser, EventsAreTyped, PayloadsDiffer, RetriesAreNat, BoundsAreNat, TokenIsBool DEF Assumptions

\* The tuples that frame the actions are expanded throughout.
USE DEF slackVars, loginVars, permVars, historyVars, gwOnly, slackOnly, StarterStep
-----------------------------------------------------------------------------
(* Facts about the operators. *)

LEMMA DoublesInBounds == \A r \in Waits : Doubled(r) \in Waits
BY Assumed DEF Assumptions, Waits, Doubled

LEMMA DispatchTyped ==
  ASSUME NEW e \in Events, TypeOK
  PROVE  /\ Dispatch(e) \in [at : {"read"} \cup InHand, ev : Events \cup {Nobody}, perm : BOOLEAN]
         /\ Dispatch(e).at = "read" <=> Dispatch(e).ev = Nobody
         /\ Dispatch(e).at # "read" => Dispatch(e).ev = e
<1>1. e # Nobody
  BY DEF Events, Nobody
<1>2. \/ Dispatch(e) = Idle("read")
      \/ Dispatch(e) = [at |-> "handle", ev |-> e, perm |-> cache[By[e]] = "yes"]
      \/ Dispatch(e) = [at |-> "fetch", ev |-> e, perm |-> FALSE]
      \/ Dispatch(e) = [at |-> "handle", ev |-> e, perm |-> FALSE]
  BY DEF Dispatch
<1>3. ASSUME NEW p \in BOOLEAN, NEW place \in InHand, Dispatch(e) = [at |-> place, ev |-> e, perm |-> p]
      PROVE  /\ Dispatch(e) \in [at : {"read"} \cup InHand, ev : Events \cup {Nobody}, perm : BOOLEAN]
             /\ Dispatch(e).at # "read" /\ Dispatch(e).ev = e
  BY <1>3 DEF InHand
<1>4. (cache[By[e]] = "yes") \in BOOLEAN
  OBVIOUS
<1>5. CASE Dispatch(e) = Idle("read")
  BY <1>5 DEF Idle
<1>6. CASE Dispatch(e) # Idle("read")
  BY <1>1, <1>2, <1>3, <1>4, <1>6 DEF InHand
<1>7. QED BY <1>5, <1>6

\* Among the events in hand only those of an unfiltered type are the bot's, and only
\* those of a user without an entry wait for a lookup.
LEMMA DispatchTells ==
  ASSUME NEW e \in Events, TypeOK, botKnown
  PROVE  /\ Dispatch(e).ev # Nobody /\ By[e] = Bot => Type[e] \in Unfiltered
         /\ Dispatch(e).at = "fetch" => By[e] \in Users /\ cache[By[e]] = "none"
         /\ Dispatch(e).at # "cache"
<1>1. /\ Type[e] \in Filtered \cup Unfiltered \cup Ignored
      /\ By[e] \in Users \cup {Bot}
  BY Assumed DEF Assumptions
<1>2. OwnMessage(e) <=> By[e] = Bot
  BY DEF OwnMessage
<1>3. CASE Type[e] \in Ignored \/ (Type[e] \in Filtered /\ OwnMessage(e))
  <2>1. ~(Type[e] \in Messages /\ ~OwnMessage(e))
    BY <1>3 DEF Messages, Ignored
  <2>2. Dispatch(e) = Idle("read")
    BY <1>3, <2>1 DEF Dispatch
  <2>3. QED BY <2>2 DEF Idle
<1>4. CASE /\ ~(Type[e] \in Ignored \/ (Type[e] \in Filtered /\ OwnMessage(e)))
           /\ Type[e] \in Messages /\ ~OwnMessage(e)
  <2>1. By[e] # Bot /\ By[e] \in Users
    BY <1>1, <1>2, <1>4
  <2>2. Dispatch(e) = IF By[e] \in Users /\ cache[By[e]] # "none"
                      THEN [at |-> "handle", ev |-> e, perm |-> cache[By[e]] = "yes"]
                      ELSE [at |-> "fetch", ev |-> e, perm |-> FALSE]
    BY <1>4 DEF Dispatch
  <2>3. QED BY <2>1, <2>2
<1>5. CASE /\ ~(Type[e] \in Ignored \/ (Type[e] \in Filtered /\ OwnMessage(e)))
           /\ ~(Type[e] \in Messages /\ ~OwnMessage(e))
  <2>1. Dispatch(e) = [at |-> "handle", ev |-> e, perm |-> FALSE]
    BY <1>5 DEF Dispatch
  <2>2. By[e] = Bot => Type[e] \in Unfiltered
    BY <1>1, <1>2, <1>5
  <2>3. QED BY <2>1, <2>2
<1>6. QED BY <1>3, <1>4, <1>5
-----------------------------------------------------------------------------
(* Types. *)

Starting == [at : {"lock", "auth", "set", "sleep", "ready", "gone"}, retry : Waits]

\* A step of the starter that only moves it, and the lock with it.
LEMMA StarterTypes ==
  ASSUME TypeOK, starter' \in Starting, lock' \in {"free", "starter", "main"},
         lock' = "starter" <=> starter'.at \in {"auth", "set"},
         UNCHANGED <<main, loggedIn, botKnown, gw, gwRetry, conn, slackVars, permVars,
                     historyVars>>
  PROVE  TypeOK'
BY DEF TypeOK, Starting

\* A step of Slack that leaves the connection as it is.
LEMMA SlackTypes ==
  ASSUME TypeOK, inbox' \in Seq(Events \cup {Disconnect}), Len(inbox') <= MaxInbox + 1,
         acks' \in SUBSET Events, pending' \in SUBSET Events,
         sent' \in [Events -> 0..MaxSends], UNCHANGED <<slackOnly, conn>>
  PROVE  TypeOK'
BY DEF TypeOK, slackOnly, loginVars, permVars, historyVars

LEMMA TypeStep ==
  ASSUME IInv, Next
  PROVE  TypeOK'
<1>1. CASE TakeLock
  <2>1. /\ starter \in Starting /\ lock \in {"free", "starter", "main"}
        /\ lock = "starter" <=> starter.at \in {"auth", "set"}
    BY DEF IInv, TypeOK, Starting
  <2>2. /\ starter' \in Starting /\ lock' \in {"free", "starter", "main"}
        /\ lock' = "starter" <=> starter'.at \in {"auth", "set"}
    BY <1>1, <2>1 DEF TakeLock, Starting
  <2>3. QED BY <1>1, <2>2, StarterTypes DEF TakeLock, IInv
<1>2. CASE AuthAnswered
  BY <1>2, Assumed DEF IInv, TypeOK, AuthAnswered, Assumptions, Idle, InHand, Waits, Rests
<1>3. CASE AuthFails
  <2>1. /\ starter \in Starting /\ lock \in {"free", "starter", "main"}
        /\ lock = "starter" <=> starter.at \in {"auth", "set"}
    BY DEF IInv, TypeOK, Starting
  <2>2. /\ starter' \in Starting /\ lock' \in {"free", "starter", "main"}
        /\ lock' = "starter" <=> starter'.at \in {"auth", "set"}
    BY <1>3, <2>1 DEF AuthFails, Starting
  <2>3. QED BY <1>3, <2>2, StarterTypes DEF AuthFails, IInv
<1>4. CASE Spawn
  <2>1. gw.at \in {"none", "ended"} /\ loggedIn' = TRUE
    BY <1>4 DEF Spawn, IInv, LoginOK
  <2>2. loggedIn' \in BOOLEAN /\ botKnown' \in BOOLEAN
    BY <1>4, <2>1 DEF IInv, TypeOK, Spawn
  <2>3. QED BY <1>4, <2>1, <2>2, Assumed DEF IInv, TypeOK, Spawn, Assumptions, Idle, InHand, Waits
<1>5. CASE StarterWakes
  BY <1>5, DoublesInBounds DEF IInv, TypeOK, StarterWakes, historyVars
<1>6. CASE StarterDropped
  <2>1. /\ starter \in Starting /\ lock \in {"free", "starter", "main"}
        /\ lock = "starter" <=> starter.at \in {"auth", "set"}
    BY DEF IInv, TypeOK, Starting
  <2>2. /\ starter' \in Starting /\ lock' \in {"free", "starter", "main"}
        /\ lock' = "starter" <=> starter'.at \in {"auth", "set"}
    BY <1>6, <2>1 DEF StarterDropped, Starting
  <2>3. QED BY <1>6, <2>2, StarterTypes DEF StarterDropped, IInv
<1>7. CASE Interrupt
  BY <1>7, Assumed DEF IInv, TypeOK, Interrupt, Assumptions, Idle, InHand, Waits, Rests
<1>8. CASE StopTakesLock
  BY <1>8, Assumed DEF IInv, TypeOK, StopTakesLock, Assumptions, Idle, InHand, Waits, Rests
<1>9. CASE GatewayDropped
  BY <1>9, Assumed DEF IInv, TypeOK, GatewayDropped, Assumptions, Idle, InHand, Waits, Rests
<1>10. CASE StopJoined
  <2>1. lock = "main"
    BY <1>10 DEF StopJoined, IInv, LoginOK
  <2>2. QED BY <1>10, <2>1 DEF IInv, TypeOK, StopJoined, historyVars
<1>11. CASE GatewayBegins
  BY <1>11, Assumed DEF IInv, TypeOK, GatewayBegins, Assumptions, Idle, InHand, Waits, Rests
<1>12. CASE UrlOpened
  BY <1>12, Assumed DEF IInv, TypeOK, UrlOpened, Assumptions, Idle, InHand, Waits, Rests
<1>13. CASE Connected
  BY <1>13, Assumed DEF IInv, TypeOK, Connected, Assumptions, Idle, InHand, Waits, Rests
<1>14. CASE ConnectFails
  BY <1>14, Assumed DEF IInv, TypeOK, ConnectFails, Assumptions, Idle, InHand, Waits, Rests
<1>15. CASE GatewayWakes
  BY <1>15, DoublesInBounds DEF IInv, TypeOK, GatewayWakes, Idle, InHand
<1>16. CASE StreamEnds
  BY <1>16, Assumed DEF IInv, TypeOK, StreamEnds, Assumptions, Idle, InHand, Waits, Rests
<1>17. CASE ReadEvent
  <2> DEFINE e == Head(inbox)
  <2>1. /\ e \in Events /\ Len(inbox) \in Nat \ {0} /\ e = inbox[1]
        /\ Tail(inbox) \in Seq(Events \cup {Disconnect}) /\ Len(Tail(inbox)) = Len(inbox) - 1
    BY <1>17 DEF ReadEvent, IInv, TypeOK
  <2>2. /\ acked[e] + 1 \in 0..MaxSends /\ handled[e] + 1 \in 0..MaxSends
        /\ handled[e] \in 0..MaxSends
    BY <1>17, <2>1, Assumed DEF ReadEvent, IInv, TypeOK, InboxOK, CountOK, Assumptions
  <2> HIDE DEF e
  <2>3. PICK marked \in BOOLEAN :
        /\ gw' = IF marked THEN Dispatch(e) ELSE Idle("read")
        /\ acked' = [acked EXCEPT ![e] = @ + 1]
        /\ handled' = [handled EXCEPT
                          ![e] = @ + (IF marked /\ Dispatch(e).ev = Nobody THEN 1 ELSE 0)]
        /\ passed' = IF marked THEN passed ELSE passed \cup {e}
        /\ acks' = IF conn = "closed" THEN acks ELSE acks \cup {e}
        /\ gw.at = "read" /\ inbox' = Tail(inbox)
        /\ UNCHANGED <<main, loginVars, gwRetry, conn, pending, sent, permVars, forwarded, dropped>>
    BY <1>17 DEF ReadEvent, e
  <2>4. acked' \in [Events -> 0..MaxSends]
    BY <2>1, <2>2, <2>3 DEF IInv, TypeOK
  <2>5. handled' \in [Events -> 0..MaxSends]
    BY <2>1, <2>2, <2>3 DEF IInv, TypeOK
  <2>6. /\ gw' \in [at : {"none", "start", "ended", "open", "connect", "read", "sleep"} \cup InHand,
                   ev : Events \cup {Nobody}, perm : BOOLEAN]
        /\ gw'.ev # Nobody <=> gw'.at \in InHand
        /\ gw'.at \in {"read"} \cup InHand
    <3>1. TypeOK
      BY DEF IInv
    <3>2. CASE marked
      BY <2>1, <2>3, <3>1, <3>2, DispatchTyped DEF InHand, Nobody
    <3>3. CASE ~marked
      BY <2>3, <3>3 DEF Idle, InHand
    <3>4. QED BY <3>2, <3>3
  <2>7. conn' = conn /\ conn # "none"
    BY <2>3 DEF IInv, TypeOK
  <2>8. acks' \in SUBSET Events /\ inbox' \in Seq(Events \cup {Disconnect}) /\ Len(inbox') <= MaxInbox + 1
    <3>1. acks' \in SUBSET Events
      BY <2>1, <2>3 DEF IInv, TypeOK
    <3>2. Len(inbox) <= MaxInbox + 1
      BY DEF IInv, TypeOK
    <3>3. inbox' \in Seq(Events \cup {Disconnect}) /\ Len(inbox') = Len(inbox) - 1
      BY <2>1, <2>3
    <3>4. QED BY <2>1, <3>1, <3>2, <3>3, Assumed DEF Assumptions
  <2>9. UNCHANGED <<main, starter, lock, loggedIn, botKnown, gwRetry, pending, sent, cache, admin,
                    grounds, forwarded, dropped>> /\ passed' \in SUBSET Events
    BY <2>1, <2>3 DEF loginVars, permVars, IInv, TypeOK
  <2>10. QED BY <2>4, <2>5, <2>6, <2>7, <2>8, <2>9 DEF IInv, TypeOK
<1>18. CASE AckFails
  <2>1. TypeOK
    BY DEF IInv
  <2>2. inbox' \in Seq(Events \cup {Disconnect}) /\ Len(inbox') <= MaxInbox + 1
    <3>1. inbox \in Seq(Events \cup {Disconnect}) /\ inbox # <<>> /\ Len(inbox) <= MaxInbox + 1
          /\ inbox' = Tail(inbox)
      BY <1>18, <2>1 DEF AckFails, TypeOK
    <3>2. inbox' \in Seq(Events \cup {Disconnect}) /\ Len(inbox') = Len(inbox) - 1
      BY <3>1
    <3>3. QED BY <3>1, <3>2, Assumed DEF Assumptions
  <2>3. UNCHANGED <<main, starter, lock, loggedIn, botKnown, cache, admin, grounds, handled, acked,
                    forwarded, dropped, passed, gw, gwRetry, conn, acks, pending, sent>>
    BY <1>18 DEF AckFails, gwOnly, loginVars, permVars, historyVars
  <2>4. QED BY <2>1, <2>2, <2>3 DEF TypeOK
<1>19. CASE ReadDisconnect
  <2>1. TypeOK
    BY DEF IInv
  <2>2. inbox' \in Seq(Events \cup {Disconnect}) /\ Len(inbox') <= MaxInbox + 1
    <3>1. inbox \in Seq(Events \cup {Disconnect}) /\ inbox # <<>> /\ Len(inbox) <= MaxInbox + 1
          /\ inbox' = Tail(inbox)
      BY <1>19, <2>1 DEF ReadDisconnect, TypeOK
    <3>2. inbox' \in Seq(Events \cup {Disconnect}) /\ Len(inbox') = Len(inbox) - 1
      BY <3>1
    <3>3. QED BY <3>1, <3>2, Assumed DEF Assumptions
  <2>3. UNCHANGED <<main, starter, lock, loggedIn, botKnown, cache, admin, grounds, handled, acked,
                    forwarded, dropped, passed, gw, gwRetry, conn, acks, pending, sent>>
    BY <1>19 DEF ReadDisconnect, gwOnly, loginVars, permVars, historyVars
  <2>4. QED BY <2>1, <2>2, <2>3 DEF TypeOK
<1>20. CASE FetchAnswered
  <2>1. PICK ok \in BOOLEAN :
          /\ gw' = [gw EXCEPT !.at = "cache", !.perm = ok /\ By[gw.ev] \in admin]
          /\ Rests(By[gw.ev], IF ok THEN "told" ELSE "failed")
    BY <1>20 DEF FetchAnswered
  <2>2. PICK p \in BOOLEAN : gw' = [gw EXCEPT !.at = "cache", !.perm = p]
    <3>1. (ok /\ By[gw.ev] \in admin) \in BOOLEAN
      OBVIOUS
    <3>2. QED BY <2>1, <3>1, Zenon
  <2>3. gw' \in [at : InHand, ev : Events, perm : BOOLEAN] /\ gw'.ev # Nobody /\ gw.ev # Nobody
    BY <1>20, <2>2 DEF FetchAnswered, IInv, TypeOK, InHand, Nobody, Events
  <2>4. grounds' \in [Users -> {"told", "failed", "changed"}]
    BY <2>1 DEF IInv, TypeOK, Rests
  <2>5. /\ gw.at = "fetch"
        /\ UNCHANGED <<main, loginVars, gwRetry, conn, slackVars, cache, admin, historyVars>>
    BY <1>20 DEF FetchAnswered
  <2>6. QED BY <2>3, <2>4, <2>5 DEF IInv, TypeOK, InHand
<1>21. CASE CachePermissions
  <2>1. cache' \in [Users -> {"none", "yes", "no"}]
    BY <1>21 DEF IInv, TypeOK, CachePermissions
  <2>2. PICK g : g = [gw EXCEPT !.at = "handle"]
    OBVIOUS
  <2>3. /\ g \in [at : {"handle"}, ev : Events \cup {Nobody}, perm : BOOLEAN]
        /\ g.ev = gw.ev /\ g.at = "handle"
    BY <2>2 DEF IInv, TypeOK
  <2>4. /\ gw' = g /\ gw.at = "cache"
        /\ UNCHANGED <<main, loginVars, gwRetry, conn, slackVars, admin, grounds, historyVars>>
    BY <1>21, <2>2 DEF CachePermissions
  <2>5. QED BY <2>1, <2>3, <2>4 DEF IInv, TypeOK, InHand
<1>22. CASE Forward
  <2>1. gw.ev \in Events /\ handled[gw.ev] + 1 \in 0..MaxSends
    BY <1>22, Assumed DEF Forward, IInv, TypeOK, InHand, CountOK, Assumptions
  <2>2. handled' \in [Events -> 0..MaxSends]
    BY <1>22, <2>1 DEF Forward, IInv, TypeOK
  <2>3. QED BY <1>22, <2>1, <2>2 DEF Forward, IInv, TypeOK, Idle, InHand
<1>23. CASE \E e \in Events : Occurs(e)
  <2>1. /\ pending' \in SUBSET Events
        /\ UNCHANGED <<slackOnly, conn, inbox, acks, sent>>
    BY <1>23 DEF IInv, TypeOK, Occurs
  <2>2. QED BY <2>1, SlackTypes DEF IInv, TypeOK
<1>24. CASE \E e \in Events : Deliver(e)
  <2>1. PICK e \in Events : Deliver(e)
    BY <1>24
  <2>2. sent[e] + 1 \in 0..MaxSends
    BY <2>1, Assumed DEF Deliver, IInv, TypeOK, Assumptions
  <2>3. sent' \in [Events -> 0..MaxSends]
    BY <2>1, <2>2 DEF Deliver, IInv, TypeOK
  <2>4. inbox' \in Seq(Events \cup {Disconnect}) /\ Len(inbox') = Len(inbox) + 1
    BY <2>1 DEF Deliver, IInv, TypeOK
  <2>5. Len(inbox') <= MaxInbox + 1
    <3>1. Len(inbox) \in Nat /\ Len(inbox) < MaxInbox
      BY <2>1 DEF Deliver, IInv, TypeOK
    <3>2. QED BY <2>4, <3>1, Assumed DEF Assumptions
  <2>6. UNCHANGED <<slackOnly, conn, acks, pending>>
    BY <2>1 DEF Deliver
  <2>7. QED BY <2>3, <2>4, <2>5, <2>6, SlackTypes DEF IInv, TypeOK
<1>25. CASE \E e \in Events : AckArrives(e)
  <2>1. /\ acks' \in SUBSET Events /\ pending' \in SUBSET Events
        /\ UNCHANGED <<slackOnly, conn, inbox, sent>>
    BY <1>25 DEF IInv, TypeOK, AckArrives
  <2>2. QED BY <2>1 DEF IInv, TypeOK
<1>26. CASE SlackDisconnects
  <2>1. inbox' \in Seq(Events \cup {Disconnect}) /\ Len(inbox') = Len(inbox) + 1
    BY <1>26 DEF SlackDisconnects, IInv, TypeOK
  <2>2. Len(inbox) <= MaxInbox /\ Len(inbox) \in Nat
    BY <1>26 DEF SlackDisconnects, IInv, InboxOK, TypeOK
  <2>3. QED BY <1>26, <2>1, <2>2, Assumed DEF SlackDisconnects, IInv, TypeOK, Assumptions
<1>27. CASE ConnectionLost
  <2>1. inbox' \in Seq(Events \cup {Disconnect}) /\ Len(inbox') <= MaxInbox + 1
    <3>1. CASE inbox' = inbox
      BY <3>1 DEF IInv, TypeOK
    <3>2. CASE inbox' = <<>>
      BY <3>2, Assumed DEF Assumptions
    <3>3. QED BY <1>27, <3>1, <3>2 DEF ConnectionLost
  <2>2. QED BY <1>27, <2>1 DEF ConnectionLost, IInv, TypeOK, historyVars
<1>28. CASE \E u \in Users : AdminChanges(u)
  <2> SUFFICES ASSUME NEW u \in Users, AdminChanges(u) PROVE TypeOK'
    BY <1>28
  <2>1. admin' \in SUBSET Users
    BY DEF AdminChanges, IInv, TypeOK
  <2>2. grounds' \in [Users -> {"told", "failed", "changed"}]
    BY DEF AdminChanges, IInv, TypeOK, Rests
  <2>3. UNCHANGED <<main, loginVars, gw, gwRetry, conn, slackVars, cache, historyVars>>
    BY DEF AdminChanges
  <2>4. QED BY <2>1, <2>2, <2>3 DEF IInv, TypeOK, historyVars
<1>29. CASE \E u \in Users : CacheExpires(u)
  BY <1>29, Assumed DEF IInv, TypeOK, CacheExpires, Assumptions, Idle, InHand, Waits, Rests
<1>30. QED BY <1>1, <1>2, <1>3, <1>4, <1>5, <1>6, <1>7, <1>8, <1>9, <1>10, <1>11, <1>12, <1>13,
      <1>14, <1>15, <1>16, <1>17, <1>18, <1>19, <1>20, <1>21, <1>22, <1>23, <1>24, <1>25, <1>26,
      <1>27, <1>28, <1>29
  DEF Next, Starter, Shutdown, Gateway, GatewayReads, GatewayHandles, Slack
-----------------------------------------------------------------------------
(* Login and shutdown. *)

LEMMA LoginStep ==
  ASSUME IInv, Next
  PROVE  LoginOK'
<1>1. /\ lock = "main" <=> main = "joining"
      /\ main = "stopped" => ~loggedIn
      /\ starter.at \in {"lock", "auth", "set", "sleep"} => ~loggedIn
      /\ starter.at = "set" => botKnown /\ main \in {"running", "stopping"}
      /\ loggedIn => botKnown
      /\ gw.at \notin {"none", "ended"} => loggedIn
      /\ lock = "starter" <=> starter.at \in {"auth", "set"}
      /\ lock \in {"free", "starter", "main"}
      /\ main \in {"running", "stopping", "joining", "stopped"}
      /\ starter \in [at : {"lock", "auth", "set", "sleep", "ready", "gone"}, retry : Waits]
      /\ gw \in [at : {"none", "start", "ended", "open", "connect", "read", "sleep"} \cup InHand,
                ev : Events \cup {Nobody}, perm : BOOLEAN]
  BY DEF IInv, LoginOK, TypeOK
<1>2. CASE TakeLock
  BY <1>1, <1>2 DEF TakeLock, LoginOK, Idle
<1>3. CASE AuthAnswered
  BY <1>1, <1>3 DEF AuthAnswered, LoginOK, Idle
<1>4. CASE AuthFails
  BY <1>1, <1>4 DEF AuthFails, LoginOK, Idle
<1>5. CASE Spawn
  BY <1>1, <1>5 DEF Spawn, LoginOK, Idle
<1>6. CASE StarterWakes
  BY <1>1, <1>6 DEF StarterWakes, LoginOK, Idle
<1>7. CASE StarterDropped
  BY <1>1, <1>7 DEF StarterDropped, LoginOK, Idle
<1>8. CASE Interrupt
  BY <1>1, <1>8 DEF Interrupt, LoginOK, Idle
<1>9. CASE StopTakesLock
  BY <1>1, <1>9 DEF StopTakesLock, LoginOK, Idle
<1>10. CASE GatewayDropped
  BY <1>1, <1>10 DEF GatewayDropped, LoginOK, Idle
<1>11. CASE StopJoined
  BY <1>1, <1>11 DEF StopJoined, LoginOK, Idle
<1>12. ASSUME UNCHANGED <<main, loginVars>>, gw'.at \notin {"none", "ended"} => gw.at \notin {"none", "ended"}
      PROVE  LoginOK'
  BY <1>1, <1>12 DEF LoginOK, loginVars
<1>13. CASE main # "joining" /\ Gateway
  <2>1. /\ UNCHANGED <<main, loginVars>>
        /\ gw.at \in {"start", "open", "connect", "read", "sleep"} \cup InHand
    BY <1>13 DEF Gateway, GatewayReads, GatewayHandles, GatewayBegins, UrlOpened, Connected, ConnectFails,
         GatewayWakes, StreamEnds, ReadEvent, AckFails, ReadDisconnect, FetchAnswered, CachePermissions,
         Forward, InHand
  <2>2. QED BY <1>12, <2>1 DEF InHand
<1>14. CASE Slack
  <2>1. UNCHANGED <<main, loginVars, gw>>
    BY <1>14 DEF Slack, Occurs, Deliver, AckArrives, SlackDisconnects, ConnectionLost, AdminChanges,
         CacheExpires
  <2>2. QED BY <1>12, <2>1
<1>15. QED BY <1>2, <1>3, <1>4, <1>5, <1>6, <1>7, <1>8, <1>9, <1>10, <1>11, <1>12, <1>13, <1>14
      DEF Next, Starter, Shutdown
-----------------------------------------------------------------------------
(* Steps that leave the connection, the cache and the counts alone. *)

Quiet == /\ UNCHANGED <<conn, slackVars, permVars, historyVars>>
         /\ gw'.ev = gw.ev
         /\ gw' = gw \/ gw'.at \notin InHand

LEMMA QuietOrNot ==
  ASSUME IInv, Next
  PROVE  \/ Quiet
         \/ GatewayDropped \/ Connected \/ GatewayReads \/ GatewayHandles \/ Slack
<1>1. /\ gw.ev # Nobody <=> gw.at \in InHand
      /\ gw.at \notin {"none", "ended"} => loggedIn
      /\ starter.at = "set" => ~loggedIn
  BY DEF IInv, TypeOK, LoginOK
<1>2. CASE TakeLock \/ AuthAnswered \/ AuthFails \/ StarterWakes \/ StarterDropped
           \/ Interrupt \/ StopTakesLock \/ StopJoined
  BY <1>2 DEF Quiet, TakeLock, AuthAnswered, AuthFails, StarterWakes, StarterDropped, Interrupt,
       StopTakesLock, StopJoined
<1>3. CASE Spawn
  BY <1>1, <1>3 DEF Quiet, Spawn, Idle, InHand
<1>4. CASE GatewayBegins \/ UrlOpened \/ ConnectFails \/ GatewayWakes
  BY <1>1, <1>4 DEF Quiet, GatewayBegins, UrlOpened, ConnectFails, GatewayWakes, Idle, InHand
<1>5. QED BY <1>2, <1>3, <1>4 DEF Next, Starter, Shutdown, Gateway
-----------------------------------------------------------------------------
(* Frames on their way to the bridge. *)

\* Taking the first frame leaves the others as they were.
LEMMA FrameTaken ==
  ASSUME IInv, inbox # <<>>, inbox' = Tail(inbox), UNCHANGED <<conn, sent>>,
         conn # "none", acked' \in [Events -> Nat],
         \A e \in Events : e # Head(inbox) => acked'[e] = acked[e]
  PROVE  InboxOK'
<1>1. /\ inbox \in Seq(Events \cup {Disconnect})
      /\ Len(inbox) \in Nat \ {0}
      /\ Head(inbox) = inbox[1]
      /\ Len(inbox') = Len(inbox) - 1
      /\ \A i \in 1..Len(inbox') : i + 1 \in 1..Len(inbox) /\ inbox'[i] = inbox[i + 1]
  BY DEF IInv, TypeOK
<1>2. \A i \in 1..Len(inbox) : inbox[i] \in Events \cup {Disconnect}
  BY <1>1
<1>3. \A i \in 1..Len(inbox') : inbox'[i] # Disconnect => acked'[inbox'[i]] < sent[inbox'[i]]
  <2> SUFFICES ASSUME NEW i \in 1..Len(inbox'), inbox'[i] # Disconnect
               PROVE  acked'[inbox'[i]] < sent[inbox'[i]]
    OBVIOUS
  <2>1. i + 1 # 1 /\ 1 \in 1..Len(inbox) /\ i + 1 \in 1..Len(inbox) /\ inbox'[i] = inbox[i + 1]
    BY <1>1
  <2>2. inbox[i + 1] # inbox[1] /\ acked[inbox[i + 1]] < sent[inbox[i + 1]]
    BY <2>1 DEF IInv, InboxOK
  <2>3. acked'[inbox[i + 1]] = acked[inbox[i + 1]]
    BY <1>1, <1>2, <2>1, <2>2
  <2>4. QED BY <2>1, <2>2, <2>3
<1>4. \A i, j \in 1..Len(inbox') : inbox'[i] = inbox'[j] /\ inbox'[i] # Disconnect => i = j
  <2> SUFFICES ASSUME NEW i \in 1..Len(inbox'), NEW j \in 1..Len(inbox'),
                      inbox'[i] = inbox'[j], inbox'[i] # Disconnect
               PROVE  i = j
    OBVIOUS
  <2>1. i + 1 = j + 1
    BY <1>1 DEF IInv, InboxOK
  <2>2. QED BY <2>1
<1>5. conn' = "up" => Len(inbox') <= MaxInbox
  BY <1>1, Assumed DEF IInv, InboxOK, Assumptions
<1>6. QED BY <1>3, <1>4, <1>5 DEF InboxOK

\* A new frame at the end is the only one of its event.
LEMMA FrameAppended ==
  ASSUME IInv, NEW f \in Events \cup {Disconnect}, inbox' = Append(inbox, f), conn = "up",
         conn' = "up" => Len(inbox) < MaxInbox, conn' # "none",
         f \notin {inbox[i] : i \in 1..Len(inbox)} \/ f = Disconnect,
         acked' = acked, sent' \in [Events -> Nat], \A e \in Events : sent[e] <= sent'[e],
         f # Disconnect => sent[f] < sent'[f]
  PROVE  InboxOK'
<1>1. /\ Len(inbox) \in Nat /\ Len(inbox') = Len(inbox) + 1
      /\ \A i \in 1..Len(inbox) : inbox'[i] = inbox[i]
      /\ inbox'[Len(inbox) + 1] = f
      /\ \A i \in 1..Len(inbox) : inbox[i] \in Events \cup {Disconnect}
      /\ sent \in [Events -> 0..MaxSends] /\ acked \in [Events -> 0..MaxSends]
  BY DEF IInv, TypeOK
<1>2. \A i \in 1..Len(inbox') : inbox'[i] # Disconnect => acked'[inbox'[i]] < sent'[inbox'[i]]
  <2> SUFFICES ASSUME NEW i \in 1..Len(inbox'), inbox'[i] # Disconnect
               PROVE  acked'[inbox'[i]] < sent'[inbox'[i]]
    OBVIOUS
  <2>1. CASE i \in 1..Len(inbox)
    <3>1. inbox'[i] = inbox[i] /\ inbox[i] \in Events /\ acked[inbox[i]] < sent[inbox[i]]
      BY <1>1, <2>1 DEF IInv, InboxOK
    <3>2. sent[inbox[i]] <= sent'[inbox[i]]
      BY <3>1
    <3>3. /\ acked[inbox[i]] \in Nat /\ sent[inbox[i]] \in Nat /\ sent'[inbox[i]] \in Nat
      BY <1>1, <3>1
    <3>4. QED BY <3>1, <3>2, <3>3
  <2>2. CASE i = Len(inbox) + 1
    <3>1. f \in Events /\ inbox'[i] = f
      BY <1>1, <2>2
    <3>2. acked[f] <= sent[f] /\ sent[f] < sent'[f]
      BY <1>1, <2>2, <3>1 DEF IInv, CountOK
    <3>3. acked[f] \in Nat /\ sent[f] \in Nat /\ sent'[f] \in Nat
      BY <1>1, <3>1
    <3>4. QED BY <3>1, <3>2, <3>3
  <2>3. QED BY <1>1, <2>1, <2>2
<1>3. \A i, j \in 1..Len(inbox') : inbox'[i] = inbox'[j] /\ inbox'[i] # Disconnect => i = j
  BY <1>1 DEF IInv, InboxOK
<1>4. QED BY <1>1, <1>2, <1>3, Assumed DEF InboxOK, Assumptions

LEMMA InboxStep ==
  ASSUME IInv, Next
  PROVE  InboxOK'
<1>1. ASSUME UNCHANGED <<conn, inbox, acked, sent>> PROVE InboxOK'
  BY <1>1 DEF IInv, InboxOK
<1>2. CASE Quiet \/ FetchAnswered \/ CachePermissions \/ Forward \/ (\E e \in Events : Occurs(e) \/ AckArrives(e))
           \/ \E u \in Users : AdminChanges(u) \/ CacheExpires(u)
  BY <1>1, <1>2 DEF Quiet, FetchAnswered, CachePermissions, Forward, Occurs, AckArrives, AdminChanges,
       CacheExpires
<1>3. ASSUME inbox' = <<>> PROVE InboxOK'
  BY <1>3, Assumed DEF InboxOK, Assumptions
<1>4. CASE GatewayDropped \/ StreamEnds
  BY <1>3, <1>4 DEF GatewayDropped, StreamEnds
<1>5. CASE Connected
  BY <1>3, <1>5 DEF Connected, IInv, TypeOK, InboxOK, InHand
<1>6. CASE ReadEvent \/ AckFails \/ ReadDisconnect
  <2>1. /\ inbox # <<>> /\ inbox' = Tail(inbox) /\ UNCHANGED <<conn, sent>> /\ conn # "none"
    BY <1>6 DEF ReadEvent, AckFails, ReadDisconnect, IInv, TypeOK
  <2>2. acked \in [Events -> 0..MaxSends]
    BY DEF IInv, TypeOK
  <2>3. acked' = acked \/ acked' = [acked EXCEPT ![Head(inbox)] = @ + 1]
    BY <1>6 DEF ReadEvent, AckFails, ReadDisconnect
  <2>4. /\ acked' \in [Events -> Nat]
        /\ \A e \in Events : e # Head(inbox) => acked'[e] = acked[e]
    BY <2>2, <2>3, Assumed DEF Assumptions
  <2>5. QED BY <2>1, <2>4, FrameTaken
<1>7. CASE \E e \in Events : Deliver(e)
  <2> SUFFICES ASSUME NEW e \in Events, Deliver(e) PROVE InboxOK'
    BY <1>7
  <2>1. /\ inbox' = Append(inbox, e) /\ conn = "up" /\ conn' = conn /\ Len(inbox) < MaxInbox
        /\ e \notin {inbox[i] : i \in 1..Len(inbox)} /\ acked' = acked
        /\ sent' = [sent EXCEPT ![e] = @ + 1]
    BY DEF Deliver, IInv, TypeOK
  <2>2. sent \in [Events -> 0..MaxSends]
    BY DEF IInv, TypeOK
  <2>3. /\ sent' \in [Events -> Nat] /\ \A d \in Events : sent[d] <= sent'[d]
        /\ sent[e] < sent'[e]
    BY <2>1, <2>2, Assumed DEF Assumptions
  <2>4. QED BY <2>1, <2>3, FrameAppended
<1>8. CASE SlackDisconnects
  <2>1. /\ inbox' = Append(inbox, Disconnect) /\ conn = "up" /\ conn' = "draining"
        /\ acked' = acked /\ sent' = sent
    BY <1>8 DEF SlackDisconnects
  <2>2. sent' \in [Events -> Nat] /\ \A d \in Events : sent[d] <= sent'[d]
    BY <2>1, Assumed DEF IInv, TypeOK, Assumptions
  <2>3. QED BY <2>1, <2>2, FrameAppended
<1>9. CASE ConnectionLost
  <2>1. inbox' = inbox \/ inbox' = <<>>
    BY <1>9 DEF ConnectionLost
  <2>2. CASE inbox' = inbox
    BY <1>9, <2>2 DEF ConnectionLost, IInv, InboxOK
  <2>3. QED BY <1>3, <2>1, <2>2
<1>10. QED BY <1>2, <1>4, <1>5, <1>6, <1>7, <1>8, <1>9, QuietOrNot DEF GatewayReads, GatewayHandles, Slack
-----------------------------------------------------------------------------
(* Acks and handlers. *)

LEMMA CountStep ==
  ASSUME IInv, Next
  PROVE  CountOK'
<1>1. /\ sent \in [Events -> 0..MaxSends] /\ acked \in [Events -> 0..MaxSends]
      /\ handled \in [Events -> 0..MaxSends]
      /\ gw.ev # Nobody <=> gw.at \in InHand
      /\ gw \in [at : {"none", "start", "ended", "open", "connect", "read", "sleep"} \cup InHand,
                ev : Events \cup {Nobody}, perm : BOOLEAN]
      /\ inbox \in Seq(Events \cup {Disconnect})
      /\ Nobody \notin Events
  BY DEF IInv, TypeOK, Nobody, Events
<1>2. ASSUME gw'.ev = gw.ev, UNCHANGED <<sent, historyVars>>, acks' \subseteq acks, pending \subseteq pending'
      PROVE  CountOK'
  BY <1>2 DEF IInv, CountOK
<1>3. CASE \/ Quiet \/ FetchAnswered \/ CachePermissions \/ AckFails \/ ReadDisconnect
           \/ SlackDisconnects \/ ConnectionLost
           \/ \E e \in Events : Occurs(e)
           \/ \E u \in Users : AdminChanges(u) \/ CacheExpires(u)
  BY <1>1, <1>2, <1>3 DEF Quiet, FetchAnswered, CachePermissions, AckFails, ReadDisconnect,
       SlackDisconnects, ConnectionLost, Occurs, AdminChanges, CacheExpires
<1>4. CASE Connected \/ StreamEnds
  <2>1. gw.ev = Nobody /\ gw'.ev = Nobody
    BY <1>1, <1>4 DEF Connected, StreamEnds, Idle, InHand
  <2>2. QED BY <1>2, <1>4, <2>1 DEF Connected, StreamEnds
<1>5. CASE GatewayDropped
  <2>1. /\ gw'.ev = Nobody /\ acks' = {} /\ dropped' = dropped \cup ({gw.ev} \ {Nobody})
        /\ UNCHANGED <<pending, sent, handled, acked, passed>>
    BY <1>5 DEF GatewayDropped, Idle
  <2>2. QED BY <1>1, <2>1 DEF IInv, CountOK
<1>6. CASE ReadEvent
  <2> DEFINE e == Head(inbox)
  <2>1. e \in Events /\ 1 \in 1..Len(inbox) /\ e = inbox[1] /\ e # Disconnect /\ gw.ev = Nobody
    BY <1>1, <1>6 DEF ReadEvent, InHand
  <2>2. acked[e] < sent[e]
    BY <2>1 DEF IInv, InboxOK
  <2> HIDE DEF e
  <2>3. PICK marked \in BOOLEAN :
        /\ gw' = IF marked THEN Dispatch(e) ELSE Idle("read")
        /\ acked' = [acked EXCEPT ![e] = @ + 1]
        /\ handled' = [handled EXCEPT
                          ![e] = @ + (IF marked /\ Dispatch(e).ev = Nobody THEN 1 ELSE 0)]
        /\ passed' = IF marked THEN passed ELSE passed \cup {e}
        /\ acks' \subseteq acks \cup {e}
        /\ UNCHANGED <<pending, sent, dropped>>
    BY <1>6 DEF ReadEvent, e
  <2>4. gw'.ev = Nobody \/ gw'.ev = e
    <3>1. TypeOK
      BY DEF IInv
    <3>2. QED BY <2>1, <2>3, <3>1, DispatchTyped DEF Idle
  <2>5. /\ acked'[e] = acked[e] + 1
        /\ marked => handled'[e] = IF gw'.ev = Nobody THEN handled[e] + 1 ELSE handled[e]
        /\ ~marked => handled'[e] = handled[e] /\ gw'.ev = Nobody /\ e \in passed'
        /\ passed \subseteq passed'
        /\ \A d \in Events : d # e => acked'[d] = acked[d] /\ handled'[d] = handled[d]
    BY <1>1, <2>1, <2>3 DEF Idle
  <2>6. /\ acked[e] \in Nat /\ sent[e] \in Nat /\ handled[e] \in Nat /\ handled[e] <= acked[e]
    BY <1>1, <2>1 DEF IInv, CountOK
  <2>7. QED BY <1>1, <2>1, <2>2, <2>3, <2>4, <2>5, <2>6 DEF IInv, CountOK
<1>7. CASE Forward
  <2>1. gw.ev \in Events
    BY <1>1, <1>7 DEF Forward, InHand
  <2>2. /\ gw'.ev = Nobody /\ handled'[gw.ev] = handled[gw.ev] + 1
        /\ \A d \in Events : d # gw.ev => handled'[d] = handled[d]
        /\ UNCHANGED <<acks, pending, sent, acked, dropped, passed>>
    BY <1>1, <1>7, <2>1 DEF Forward, Idle
  <2>3. handled[gw.ev] \in Nat /\ acked[gw.ev] \in Nat /\ handled[gw.ev] < acked[gw.ev]
    BY <1>1, <2>1 DEF IInv, CountOK
  <2>4. QED BY <1>1, <2>1, <2>2, <2>3 DEF IInv, CountOK
<1>8. CASE \E e \in Events : Deliver(e)
  <2> SUFFICES ASSUME NEW e \in Events, Deliver(e) PROVE CountOK'
    BY <1>8
  <2>1. /\ sent'[e] = sent[e] + 1 /\ e \in pending
        /\ \A d \in Events : d # e => sent'[d] = sent[d]
        /\ UNCHANGED <<gw, acks, pending, historyVars>>
    BY <1>1 DEF Deliver
  <2>2. sent[e] \in Nat /\ acked[e] \in Nat
    BY <1>1
  <2>3. QED BY <2>1, <2>2 DEF IInv, CountOK
<1>9. CASE \E e \in Events : AckArrives(e)
  <2> SUFFICES ASSUME NEW e \in Events, AckArrives(e) PROVE CountOK'
    BY <1>9
  <2>1. /\ e \in acks /\ acks' = acks \ {e} /\ pending' = pending \ {e}
        /\ UNCHANGED <<gw, sent, historyVars>>
    BY DEF AckArrives
  <2>2. QED BY <2>1 DEF IInv, CountOK
<1>10. QED BY <1>3, <1>4, <1>5, <1>6, <1>7, <1>8, <1>9, QuietOrNot DEF GatewayReads, GatewayHandles, Slack
-----------------------------------------------------------------------------
(* The bot's own events. *)

LEMMA EchoStep ==
  ASSUME IInv, Next
  PROVE  EchoOK'
<1>1. ASSUME gw'.ev \in {gw.ev, Nobody}, forwarded' = forwarded PROVE EchoOK'
  BY <1>1 DEF IInv, EchoOK, NoEcho
<1>2. gw \in [at : {"none", "start", "ended", "open", "connect", "read", "sleep"} \cup InHand,
              ev : Events \cup {Nobody}, perm : BOOLEAN]
  BY DEF IInv, TypeOK
<1>3. CASE \/ Quiet \/ GatewayDropped \/ Connected \/ StreamEnds \/ AckFails \/ ReadDisconnect
           \/ FetchAnswered \/ CachePermissions \/ Slack
  <2>1. CASE Quiet \/ Slack
    BY <1>1, <2>1 DEF Quiet, Slack, Occurs, Deliver, AckArrives, SlackDisconnects, ConnectionLost,
         AdminChanges, CacheExpires
  <2>2. CASE GatewayDropped \/ Connected \/ StreamEnds \/ AckFails \/ ReadDisconnect
    BY <1>1, <2>2 DEF GatewayDropped, Connected, StreamEnds, AckFails, ReadDisconnect, Idle
  <2>3. CASE FetchAnswered \/ CachePermissions
    <3>1. gw'.ev = gw.ev /\ forwarded' = forwarded
      BY <1>2, <2>3 DEF FetchAnswered, CachePermissions
    <3>2. QED BY <1>1, <3>1
  <2>4. QED BY <1>3, <2>1, <2>2, <2>3
<1>4. CASE ReadEvent
  <2>1. /\ gw' = Dispatch(Head(inbox)) \/ gw' = Idle("read")
        /\ forwarded' = forwarded /\ gw.at = "read" /\ Head(inbox) \in Events
    BY <1>4 DEF ReadEvent, IInv, TypeOK
  <2>2. botKnown
    BY <2>1 DEF IInv, LoginOK
  <2>3. TypeOK
    BY DEF IInv
  <2>4. /\ gw'.ev # Nobody /\ By[Head(inbox)] = Bot => Type[Head(inbox)] \in Unfiltered
        /\ gw'.ev # Nobody => gw'.ev = Head(inbox)
    BY <2>1, <2>2, <2>3, DispatchTells, DispatchTyped DEF Idle
  <2>5. QED BY <2>1, <2>4 DEF IInv, EchoOK, NoEcho
<1>5. CASE Forward
  <2>1. gw.ev # Nobody /\ gw'.ev = Nobody /\ forwarded' = forwarded \cup {gw.ev}
    BY <1>5 DEF Forward, Idle, IInv, TypeOK, InHand
  <2>2. QED BY <2>1 DEF IInv, EchoOK, NoEcho
<1>6. QED BY <1>3, <1>4, <1>5, QuietOrNot DEF GatewayReads, GatewayHandles
-----------------------------------------------------------------------------
(* What the permission cache rests on. *)

LEMMA PermStep ==
  ASSUME IInv, Next
  PROVE  PermOK'
<1>1. /\ gw \in [at : {"none", "start", "ended", "open", "connect", "read", "sleep"} \cup InHand,
                ev : Events \cup {Nobody}, perm : BOOLEAN]
      /\ cache \in [Users -> {"none", "yes", "no"}]
      /\ grounds \in [Users -> {"told", "failed", "changed"}]
  BY DEF IInv, TypeOK
<1>2. ASSUME gw' = gw \/ gw'.at \notin {"fetch", "cache"}, UNCHANGED permVars PROVE PermOK'
  BY <1>2 DEF IInv, PermOK, PermissionHasGrounds
<1>3. CASE Quiet \/ GatewayDropped \/ Connected \/ StreamEnds \/ AckFails \/ ReadDisconnect \/ Forward
           \/ SlackDisconnects \/ ConnectionLost
           \/ \E e \in Events : Occurs(e) \/ Deliver(e) \/ AckArrives(e)
  <2>1. (gw' = gw \/ gw'.at \notin {"fetch", "cache"}) /\ UNCHANGED permVars
    BY <1>3 DEF Quiet, GatewayDropped, Connected, StreamEnds, AckFails, ReadDisconnect, Forward,
         SlackDisconnects, ConnectionLost, Occurs, Deliver, AckArrives, Idle, InHand
  <2>2. QED BY <1>2, <2>1
<1>4. CASE ReadEvent
  <2>1. /\ gw' = Dispatch(Head(inbox)) \/ gw' = Idle("read")
        /\ UNCHANGED permVars /\ gw.at = "read" /\ Head(inbox) \in Events
    BY <1>4 DEF ReadEvent, IInv, TypeOK
  <2>2. TypeOK /\ botKnown
    BY <2>1 DEF IInv, LoginOK
  <2>3. /\ gw'.at # "cache"
        /\ gw'.at # "read" => gw'.ev = Head(inbox)
        /\ gw'.at = "fetch" => By[Head(inbox)] \in Users /\ cache[By[Head(inbox)]] = "none"
    BY <2>1, <2>2, DispatchTells, DispatchTyped DEF Idle
  <2>4. QED BY <2>1, <2>3 DEF IInv, PermOK, PermissionHasGrounds
<1>5. CASE FetchAnswered
  <2> DEFINE u == By[gw.ev]
  <2>1. PICK ok \in BOOLEAN :
          /\ gw' = [gw EXCEPT !.at = "cache", !.perm = ok /\ u \in admin]
          /\ Rests(u, IF ok THEN "told" ELSE "failed")
    BY <1>5 DEF FetchAnswered
  <2>2. u \in Users /\ cache[u] = "none"
    BY <1>5 DEF FetchAnswered, IInv, PermOK
  <2>3. By[gw'.ev] = u /\ gw'.at = "cache" /\ (gw'.perm <=> ok /\ u \in admin)
    BY <1>1, <2>1
  <2>4. cache' = cache /\ admin' = admin
    BY <1>5 DEF FetchAnswered
  <2>5. /\ grounds'[u] = (IF ok THEN "told" ELSE "failed")
        /\ \A v \in Users : v # u => grounds'[v] = grounds[v]
    BY <1>1, <2>1, <2>2 DEF Rests
  <2> HIDE DEF u
  <2>6. PermissionHasGrounds'
    BY <2>2, <2>4, <2>5 DEF IInv, PermOK, PermissionHasGrounds
  <2>7. /\ gw'.perm => u \in admin
        /\ ~gw'.perm => u \notin admin \/ grounds'[u] = "failed"
    BY <2>3, <2>5
  <2>8. QED BY <2>2, <2>3, <2>4, <2>6, <2>7 DEF PermOK
<1>6. CASE CachePermissions
  <2> DEFINE u == By[gw.ev]
  <2>1. u \in Users /\ gw.at = "cache"
    BY <1>6 DEF CachePermissions, IInv, PermOK
  <2>2. /\ cache'[u] = (IF gw.perm THEN "yes" ELSE "no")
        /\ \A v \in Users : v # u => cache'[v] = cache[v]
        /\ admin' = admin /\ grounds' = grounds /\ gw'.at = "handle"
    BY <1>1, <1>6, <2>1 DEF CachePermissions
  <2>3. /\ gw.perm /\ grounds[u] # "changed" => u \in admin
        /\ ~gw.perm /\ grounds[u] # "changed" => u \notin admin \/ grounds[u] = "failed"
    BY <2>1 DEF IInv, PermOK
  <2> HIDE DEF u
  <2>4. PermissionHasGrounds'
    BY <2>1, <2>2, <2>3 DEF IInv, PermOK, PermissionHasGrounds
  <2>5. QED BY <2>2, <2>4 DEF PermOK
<1>7. CASE \E u \in Users : AdminChanges(u)
  <2> SUFFICES ASSUME NEW u \in Users, AdminChanges(u) PROVE PermOK'
    BY <1>7
  <2>1. /\ gw' = gw /\ cache' = cache
        /\ \A v \in Users : v # u => (v \in admin' <=> v \in admin)
    BY DEF AdminChanges
  <2>2. /\ (cache[u] = "none" /\ gw.at # "cache") \/ grounds'[u] = "changed"
        /\ \A v \in Users : v # u => grounds'[v] = grounds[v]
    BY <1>1 DEF AdminChanges, Rests
  <2>3. QED BY <1>1, <2>1, <2>2 DEF IInv, PermOK, PermissionHasGrounds
<1>8. CASE \E u \in Users : CacheExpires(u)
  <2> SUFFICES ASSUME NEW u \in Users, CacheExpires(u) PROVE PermOK'
    BY <1>8
  <2>1. /\ gw' = gw /\ admin' = admin /\ cache[u] # "none"
        /\ cache'[u] = "none" /\ \A v \in Users : v # u => cache'[v] = cache[v]
        /\ \A v \in Users : v # u => grounds'[v] = grounds[v]
    BY <1>1 DEF CacheExpires, Rests
  <2>2. QED BY <1>1, <2>1 DEF IInv, PermOK, PermissionHasGrounds
<1>9. QED BY <1>3, <1>4, <1>5, <1>6, <1>7, <1>8, QuietOrNot DEF GatewayReads, GatewayHandles, Slack
-----------------------------------------------------------------------------
LEMMA InitIInv == Init => IInv
<1> SUFFICES ASSUME Init PROVE IInv
  OBVIOUS
<1>1. TypeOK
  <2>1. loggedIn \in BOOLEAN /\ botKnown \in BOOLEAN
    BY Zenon DEF Init
  <2>2. gw = [at |-> "none", ev |-> Nobody, perm |-> FALSE]
    BY DEF Init, Idle
  <2>3. /\ inbox \in Seq(Events \cup {Disconnect}) /\ Len(inbox) = 0
        /\ InitialRetry \in Waits /\ 0 \in 0..MaxSends
    BY Assumed DEF Init, Waits, Assumptions
  <2>4. gw.at \notin {"read"} \cup InHand
    BY <2>2 DEF InHand
  <2>5. /\ gw \in [at : {"none", "start", "ended", "open", "connect", "read", "sleep"} \cup InHand,
                  ev : Events \cup {Nobody}, perm : BOOLEAN]
        /\ gw.ev # Nobody <=> gw.at \in InHand
    BY <2>2 DEF InHand
  <2>6. /\ starter \in [at : {"lock", "auth", "set", "sleep", "ready", "gone"}, retry : Waits]
        /\ starter.at = "lock" /\ lock = "free"
    BY <2>3 DEF Init
  <2>7. /\ main = "running" /\ gwRetry \in Waits /\ conn = "none" /\ acks = {} /\ pending = {}
        /\ admin \in SUBSET Users /\ forwarded = {} /\ dropped = {} /\ passed = {}
        /\ sent \in [Events -> 0..MaxSends] /\ handled \in [Events -> 0..MaxSends]
        /\ acked \in [Events -> 0..MaxSends]
        /\ cache \in [Users -> {"none", "yes", "no"}]
        /\ grounds \in [Users -> {"told", "failed", "changed"}]
    BY <2>3 DEF Init
  <2>8. Len(inbox) <= MaxInbox + 1
    BY <2>3, Assumed DEF Assumptions
  <2>9. QED BY <2>1, <2>3, <2>4, <2>5, <2>6, <2>7, <2>8 DEF TypeOK
<1>2. LoginOK
  BY DEF Init, LoginOK, Idle
<1>3. InboxOK
  BY Assumed DEF Init, InboxOK, Assumptions
<1>4. CountOK
  BY DEF Init, CountOK, Idle, Nobody, Events
<1>5. EchoOK
  BY DEF Init, EchoOK, NoEcho, Idle
<1>6. PermOK
  BY DEF Init, PermOK, PermissionHasGrounds, Idle
<1>7. QED BY <1>1, <1>2, <1>3, <1>4, <1>5, <1>6 DEF IInv

LEMMA StutterIInv == IInv /\ UNCHANGED vars => IInv'
<1> SUFFICES ASSUME IInv, UNCHANGED vars PROVE IInv'
  OBVIOUS
<1>1. TypeOK'
  BY DEF IInv, TypeOK, vars
<1>2. LoginOK' /\ InboxOK' /\ EchoOK'
  BY DEF IInv, LoginOK, InboxOK, EchoOK, NoEcho, vars
<1>3. CountOK' /\ PermOK'
  BY DEF IInv, CountOK, PermOK, PermissionHasGrounds, vars
<1>4. QED BY <1>1, <1>2, <1>3 DEF IInv

LEMMA Invariance == Spec => []IInv
<1>1. Init => IInv
  BY InitIInv
<1>2. IInv /\ [Next]_vars => IInv'
  <2>1. ASSUME IInv, Next PROVE IInv'
    BY <2>1, TypeStep, LoginStep, InboxStep, CountStep, EchoStep, PermStep DEF IInv
  <2>2. QED BY <2>1, StutterIInv
<1>3. QED BY <1>1, <1>2, PTL DEF Spec
-----------------------------------------------------------------------------
\* Waits, counts and the inbox stay in their bounds, the connection is there exactly
\* while it is read, and the login lock is held exactly over a login (slack.rs).
THEOREM SocketModeTypeCorrect == Spec => []TypeOK
<1>1. IInv => TypeOK
  BY DEF IInv
<1>2. QED BY <1>1, Invariance, PTL

\* Whatever the bot does on Slack and whenever Slack reports it: an event of a filtered
\* type that the bot caused is never given to the bridge (is_own_message).
THEOREM OwnEventsStayOut == Spec => []NoEcho
<1>1. IInv => NoEcho
  BY DEF IInv, EchoOK
<1>2. QED BY <1>1, Invariance, PTL

\* However login and shutdown race: once stop() has returned nothing runs, and no login
\* still under way starts a gateway (login, stop).
THEOREM StopIsFinal == Spec => []StoppedMeansQuiet
<1>1. IInv => StoppedMeansQuiet
  BY DEF IInv, LoginOK, TypeOK, StoppedMeansQuiet, InHand
<1>2. QED BY <1>1, Invariance, PTL

\* A handler runs at most once for each ack written (handle_socket_text).
THEOREM HandlersFollowAcks == Spec => []HandledOncePerAck
<1>1. IInv => HandledOncePerAck
  BY DEF IInv, CountOK, HandledOncePerAck
<1>2. QED BY <1>1, Invariance, PTL

\* Between the ack and the handler an event is lost only to a shutdown, or for a payload
\* that is not marked, whatever the number of events, resends and lost connections and
\* whichever payloads Slack leaves unmarked (handle_socket_text).
THEOREM AckedMeansHandled == Spec => []LossExcused
<1>1. IInv => LossExcused
  BY DEF IInv, CountOK, LossExcused
<1>2. QED BY <1>1, Invariance, PTL

\* A cached permission agrees with Slack unless the lookup failed or the user's standing
\* changed afterwards (resolve_permissions, fetch_permissions).
THEOREM GrantsRestOnLookups == Spec => []PermissionHasGrounds
<1>1. IInv => PermissionHasGrounds
  BY DEF IInv, PermOK
<1>2. QED BY <1>1, Invariance, PTL
=============================================================================
