------------------------- MODULE ProvisioningProofs -------------------------
(***************************************************************************)
(* The safety properties of Provisioning, for any sets of calls and        *)
(* channels.  IInv adds to the stated properties what makes them           *)
(* inductive: which phase of a call goes with which state of its sender,   *)
(* and that the map and the senders agree entry by entry.                  *)
(***************************************************************************)
EXTENDS Provisioning, TLAPS

(* What a call that has not started, or not returned, looks like.          *)
PhaseOK ==
    \A r \in Requests :
        /\ pc[r] = "idle" => oneshot[r] = "unused" /\ outcome[r] = "none"
        /\ pc[r] # "idle" => oneshot[r] # "unused" /\ channel[r] \in Channels
        /\ pc[r] \in Active => outcome[r] = "none"

(* Every entry belongs to a live sender filed under its own channel.       *)
EntriesOpen ==
    \A c \in Channels : pending[c] # NONE =>
        /\ oneshot[pending[c]] = "open"
        /\ channel[pending[c]] = c
        /\ pc[pending[c]] \in Active

(* Every live sender has its entry.                                        *)
OpenFiled ==
    \A r \in Requests : oneshot[r] = "open" =>
        channel[r] \in Channels /\ pending[channel[r]] = r

(* A sender dropped under a call still in flight was dropped by a rival.   *)
DroppedByRival ==
    \A r \in Requests : oneshot[r] = "dropped" /\ pc[r] # "done" => Rival(r)

IInv ==
    /\ TypeOK
    /\ PhaseOK
    /\ EntriesOpen
    /\ OpenFiled
    /\ OnlyNewestCanBeAnswered
    /\ GrantedOnlyIfApproved
    /\ DroppedByRival
    /\ CancelledOnlyByRival

-----------------------------------------------------------------------------
LEMMA InitIInv == Init => IInv
  BY NoneIsNoRequest
  DEF Init, IInv, TypeOK, PhaseOK, EntriesOpen, OpenFiled, OnlyNewestCanBeAnswered,
      GrantedOnlyIfApproved, DroppedByRival, CancelledOnlyByRival, Active, Asking,
      OneshotState, Outcome

LEMMA AskStep ==
  ASSUME IInv, NEW r \in Requests, NEW c \in Channels, Ask(r, c)
  PROVE  IInv'
<1>1. TypeOK'
  BY DEF IInv, TypeOK, Ask, Active, Asking, OneshotState
<1>2. PhaseOK' /\ EntriesOpen' /\ OpenFiled'
  BY NoneIsNoRequest
  DEF IInv, TypeOK, Ask, PhaseOK, EntriesOpen, OpenFiled, Active, Asking, OneshotState
<1>3. OnlyNewestCanBeAnswered' /\ GrantedOnlyIfApproved'
  BY NoneIsNoRequest
  DEF IInv, TypeOK, Ask, PhaseOK, EntriesOpen, OnlyNewestCanBeAnswered,
      GrantedOnlyIfApproved
<1>4. ASSUME NEW q \in Requests, Rival(q), pc[q] # "idle"
      PROVE  Rival(q)'
  BY <1>4 DEF IInv, TypeOK, PhaseOK, Ask, Rival, Active, Asking
<1>5. DroppedByRival'
  <2> SUFFICES ASSUME NEW q \in Requests, oneshot'[q] = "dropped", pc'[q] # "done"
               PROVE  Rival(q)'
    BY DEF DroppedByRival, Rival
  <2>1. q # r
    BY DEF IInv, TypeOK, Ask
  <2>2. CASE q = pending[c]
    <3>1. channel[q] = c
      BY <2>2, NoneIsNoRequest DEF IInv, TypeOK, EntriesOpen
    <3>2. channel'[q] = c /\ channel'[r] = c /\ pc'[r] # "idle"
      BY <2>1, <3>1 DEF IInv, TypeOK, Ask
    <3>3. QED BY <2>1, <3>2 DEF Rival
  <2>3. CASE q # pending[c]
    <3>1. oneshot[q] = "dropped" /\ pc[q] # "done" /\ pc[q] # "idle"
      BY <2>1, <2>3 DEF IInv, TypeOK, PhaseOK, Ask
    <3>2. QED BY <1>4, <3>1 DEF IInv, DroppedByRival
  <2>4. QED BY <2>2, <2>3
<1>6. CancelledOnlyByRival'
  <2> SUFFICES ASSUME NEW q \in Requests, outcome'[q] = "cancelled"
               PROVE  Rival(q)'
    BY DEF CancelledOnlyByRival, Rival
  <2>1. outcome[q] = "cancelled" /\ pc[q] # "idle"
    BY DEF IInv, PhaseOK, Ask
  <2>2. QED BY <1>4, <2>1 DEF IInv, CancelledOnlyByRival
<1>7. QED BY <1>1, <1>2, <1>3, <1>5, <1>6 DEF IInv

(* Steps that leave channel alone and start no call keep every rival.      *)
LEMMA RivalKept ==
  ASSUME NEW r \in Requests, Rival(r), channel' = channel,
         \A q \in Requests : pc[q] # "idle" => pc'[q] # "idle"
  PROVE  Rival(r)'
  BY DEF Rival

(* The two failing returns: the entry of the channel goes, whoever owns it.*)
LEMMA RemoveStep ==
  ASSUME IInv, NEW r \in Requests, NEW result \in {"delivery_failed", "timed_out"},
         pc[r] \in Active, RemoveEntry(channel[r]), Return(r, result),
         UNCHANGED <<channel, newest>>
  PROVE  IInv'
<1>1. channel[r] \in Channels
  BY DEF IInv, PhaseOK, Active, Asking
<1>2. TypeOK'
  BY <1>1 DEF IInv, TypeOK, RemoveEntry, Return, Active, Asking, OneshotState, Outcome
<1>3. PhaseOK' /\ EntriesOpen' /\ OpenFiled'
  BY <1>1, NoneIsNoRequest
  DEF IInv, TypeOK, PhaseOK, EntriesOpen, OpenFiled, RemoveEntry, Return, Active,
      Asking, OneshotState
<1>4. OnlyNewestCanBeAnswered'
  BY <1>1 DEF IInv, TypeOK, OnlyNewestCanBeAnswered, RemoveEntry
<1>5. GrantedOnlyIfApproved'
  BY <1>1, NoneIsNoRequest
  DEF IInv, TypeOK, EntriesOpen, GrantedOnlyIfApproved, RemoveEntry, Return
<1>6. \A q \in Requests : pc[q] # "idle" => pc'[q] # "idle"
  BY DEF IInv, TypeOK, Return
<1>7. DroppedByRival'
  <2> SUFFICES ASSUME NEW q \in Requests, oneshot'[q] = "dropped", pc'[q] # "done"
               PROVE  Rival(q)'
    BY DEF DroppedByRival, Rival
  <2>1. q # r /\ pc[q] # "done"
    BY DEF IInv, TypeOK, Return
  <2>2. CASE q = pending[channel[r]]
    <3>1. channel[q] = channel[r]
      BY <1>1, <2>2, NoneIsNoRequest DEF IInv, TypeOK, EntriesOpen
    <3>2. pc'[r] # "idle"
      BY DEF IInv, TypeOK, Return
    <3>3. QED BY <2>1, <3>1, <3>2 DEF Rival
  <2>3. CASE q # pending[channel[r]]
    <3>1. oneshot[q] = "dropped"
      BY <2>3 DEF RemoveEntry
    <3>2. QED BY <1>6, <2>1, <3>1, RivalKept DEF IInv, DroppedByRival
  <2>4. QED BY <2>2, <2>3
<1>8. CancelledOnlyByRival'
  BY <1>6, RivalKept DEF IInv, TypeOK, CancelledOnlyByRival, Return
<1>9. QED BY <1>2, <1>3, <1>4, <1>5, <1>7, <1>8 DEF IInv

LEMMA PollStep ==
  ASSUME IInv, NEW r \in Requests, PollDecision(r)
  PROVE  IInv'
<1>1. TypeOK'
  BY DEF IInv, TypeOK, PollDecision, Return, Active, Asking, Outcome
<1>2. PhaseOK' /\ OpenFiled' /\ OnlyNewestCanBeAnswered' /\ GrantedOnlyIfApproved'
  BY DEF IInv, TypeOK, PhaseOK, OpenFiled, OnlyNewestCanBeAnswered,
         GrantedOnlyIfApproved, PollDecision, Return, Active, Asking
<1>3. EntriesOpen'
  BY NoneIsNoRequest
  DEF IInv, TypeOK, EntriesOpen, PollDecision, Return, Active, Asking
<1>4. \A q \in Requests : pc[q] # "idle" => pc'[q] # "idle"
  BY DEF IInv, TypeOK, PollDecision, Return
<1>5. DroppedByRival'
  BY <1>4, RivalKept DEF IInv, TypeOK, DroppedByRival, PollDecision, Return
<1>6. CancelledOnlyByRival'
  <2> SUFFICES ASSUME NEW q \in Requests, outcome'[q] = "cancelled"
               PROVE  Rival(q)'
    BY DEF CancelledOnlyByRival, Rival
  <2>1. outcome[q] = "cancelled" \/ (oneshot[q] = "dropped" /\ pc[q] # "done")
    BY DEF IInv, TypeOK, PollDecision, Return
  <2>2. Rival(q)
    BY <2>1 DEF IInv, DroppedByRival, CancelledOnlyByRival
  <2>3. QED BY <1>4, <2>2, RivalKept DEF PollDecision
<1>7. QED BY <1>1, <1>2, <1>3, <1>5, <1>6 DEF IInv

(* The two steps that only advance the call.                               *)
LEMMA AdvanceStep ==
  ASSUME IInv, NEW r \in Requests, PromptDelivered(r) \/ TimerFires(r)
  PROVE  IInv'
<1>1. TypeOK' /\ PhaseOK' /\ EntriesOpen'
  BY NoneIsNoRequest
  DEF IInv, TypeOK, PhaseOK, EntriesOpen, PromptDelivered, TimerFires, Active, Asking
<1>2. OpenFiled' /\ OnlyNewestCanBeAnswered' /\ GrantedOnlyIfApproved'
  BY DEF IInv, OpenFiled, OnlyNewestCanBeAnswered, GrantedOnlyIfApproved,
         PromptDelivered, TimerFires
<1>3. \A q \in Requests : pc[q] # "idle" => pc'[q] # "idle"
  BY DEF IInv, TypeOK, PromptDelivered, TimerFires
<1>4. DroppedByRival' /\ CancelledOnlyByRival'
  BY <1>3, RivalKept
  DEF IInv, TypeOK, DroppedByRival, CancelledOnlyByRival, PromptDelivered, TimerFires
<1>5. QED BY <1>1, <1>2, <1>4 DEF IInv

LEMMA MarkStep ==
  ASSUME IInv, NEW c \in Channels, NEW allow \in BOOLEAN, MarkApplied(c, allow)
  PROVE  IInv'
<1>1. pending[c] \in Requests /\ oneshot[pending[c]] = "open"
  BY DEF IInv, TypeOK, EntriesOpen, MarkApplied
<1>2. TypeOK' /\ PhaseOK' /\ EntriesOpen' /\ OpenFiled'
  BY <1>1
  DEF IInv, TypeOK, PhaseOK, EntriesOpen, OpenFiled, MarkApplied, Active, Asking,
      OneshotState
<1>3. OnlyNewestCanBeAnswered' /\ GrantedOnlyIfApproved'
  BY <1>1 DEF IInv, TypeOK, OnlyNewestCanBeAnswered, GrantedOnlyIfApproved, MarkApplied
<1>4. DroppedByRival' /\ CancelledOnlyByRival'
  BY <1>1, RivalKept
  DEF IInv, TypeOK, DroppedByRival, CancelledOnlyByRival, MarkApplied
<1>5. QED BY <1>2, <1>3, <1>4 DEF IInv

LEMMA CrashStep ==
  ASSUME IInv, Crash
  PROVE  IInv'
<1>1. TypeOK'
  BY DEF IInv, TypeOK, Crash, Active, Asking, OneshotState, Outcome
<1>2. PhaseOK' /\ EntriesOpen' /\ OpenFiled' /\ OnlyNewestCanBeAnswered'
  BY DEF IInv, TypeOK, PhaseOK, EntriesOpen, OpenFiled, OnlyNewestCanBeAnswered, Crash,
         Active, Asking
<1>3. GrantedOnlyIfApproved'
  BY DEF IInv, TypeOK, GrantedOnlyIfApproved, Crash
<1>4. \A q \in Requests : pc[q] # "idle" => pc'[q] # "idle"
  BY DEF IInv, TypeOK, Crash
<1>5. CancelledOnlyByRival'
  BY <1>4, RivalKept DEF IInv, CancelledOnlyByRival, Crash
<1>6. DroppedByRival'
  <2> SUFFICES ASSUME NEW q \in Requests, oneshot'[q] = "dropped"
               PROVE  pc'[q] = "done"
    BY DEF DroppedByRival
  <2>1. pc[q] # "idle"
    BY DEF IInv, TypeOK, PhaseOK, Crash
  <2>2. QED BY <2>1 DEF IInv, TypeOK, Crash, Active, Asking
<1>7. QED BY <1>1, <1>2, <1>3, <1>5, <1>6 DEF IInv

(* Every step of the coordinator preserves the inductive invariant.        *)
LEMMA NextIInv == IInv /\ [Next]_vars => IInv'
<1> SUFFICES ASSUME IInv, [Next]_vars PROVE IInv'
  OBVIOUS
<1>1. CASE \E r \in Requests, c \in Channels : Ask(r, c)
  BY <1>1, AskStep
<1>2. ASSUME NEW r \in Requests, CallStep(r) PROVE IInv'
  <2>1. CASE PromptDelivered(r) \/ TimerFires(r)
    BY <2>1, AdvanceStep
  <2>2. CASE PromptFailed(r)
    BY <2>2, RemoveStep DEF PromptFailed, Active, Asking
  <2>3. CASE CleanUp(r)
    BY <2>3, RemoveStep DEF CleanUp, Active
  <2>4. CASE PollDecision(r)
    BY <2>4, PollStep
  <2>5. QED BY <1>2, <2>1, <2>2, <2>3, <2>4 DEF CallStep
<1>3. CASE \E c \in Channels, allow \in BOOLEAN : MarkApplied(c, allow)
  BY <1>3, MarkStep
<1>4. CASE Crash
  BY <1>4, CrashStep
<1>5. CASE UNCHANGED vars \/ \E c \in Channels : MarkExpired(c)
  BY <1>5
  DEF vars, MarkExpired, IInv, TypeOK, PhaseOK, EntriesOpen, OpenFiled,
      OnlyNewestCanBeAnswered, GrantedOnlyIfApproved, DroppedByRival,
      CancelledOnlyByRival, Rival
<1>6. QED BY <1>1, <1>2, <1>3, <1>4, <1>5 DEF Next

-----------------------------------------------------------------------------
(* The inductive invariant holds throughout every run of the coordinator.  *)
THEOREM Invariance == Spec => []IInv
  BY InitIInv, NextIInv, PTL DEF Spec

(* Every variable keeps its type.                                          *)
THEOREM TypeCorrect == Spec => []TypeOK
<1>1. IInv => TypeOK
  BY DEF IInv
<1>2. QED BY <1>1, Invariance, PTL

(* A waiter is always reachable through the map, and the map never holds   *)
(* a spent sender: remove-by-channel on the failure paths of               *)
(* ask_bridge_permission cannot break the agreement.                       *)
THEOREM SendersAndMapAgree == Spec => []SenderHeldIffPending
<1>1. IInv => SenderHeldIffPending
  BY NoneIsNoRequest DEF IInv, TypeOK, EntriesOpen, OpenFiled, SenderHeldIffPending
<1>2. QED BY <1>1, Invariance, PTL

(* An answer only ever reaches the call that asked last in its channel.    *)
THEOREM AnswersGoToNewest == Spec => []OnlyNewestCanBeAnswered
<1>1. IInv => OnlyNewestCanBeAnswered
  BY DEF IInv
<1>2. QED BY <1>1, Invariance, PTL

(* No entry outlives its call.                                             *)
THEOREM EntriesAreLive == Spec => []NoStaleEntry
<1>1. IInv => NoStaleEntry
  BY DEF IInv, EntriesOpen, NoStaleEntry
<1>2. QED BY <1>1, Invariance, PTL

(* Only an approval sent to a call makes that call return Ok.              *)
THEOREM GrantsAreApproved == Spec => []GrantedOnlyIfApproved
<1>1. IInv => GrantedOnlyIfApproved
  BY DEF IInv
<1>2. QED BY <1>1, Invariance, PTL

(* Only another call for the channel cancels a call.                       *)
THEOREM CancellationHasRival == Spec => []CancelledOnlyByRival
<1>1. IInv => CancelledOnlyByRival
  BY DEF IInv
<1>2. QED BY <1>1, Invariance, PTL

-----------------------------------------------------------------------------
LEMMA InitRefines == Init => Permission!Init
  BY DEF Init, Permission!Init, CallerPhase

(* A return maps to Grant when the call was approved and this is what it   *)
(* returned, and to Refuse of that one call otherwise.                     *)
LEMMA ReturnRefines ==
  ASSUME IInv, NEW r \in Requests, pc[r] \in Active, NEW result \in Outcome \ {"none"},
         Return(r, result),
         \A q \in Requests : oneshot'[q] = "allow" <=> oneshot[q] = "allow",
         result = "granted" => oneshot[r] = "allow"
  PROVE  [Permission!Next]_Permission!vars
<1>1. {q \in Requests : oneshot'[q] = "allow"} = {q \in Requests : oneshot[q] = "allow"}
  OBVIOUS
<1>2. CallerPhase[r] = "asked"
  BY DEF CallerPhase, Active, Asking
<1>3. CASE result = "granted"
  <2>1. CallerPhase' = [CallerPhase EXCEPT ![r] = "granted"]
    BY <1>3 DEF IInv, TypeOK, CallerPhase, Return, Active, Asking
  <2>2. Permission!Grant(r)
    BY <1>1, <1>2, <1>3, <2>1 DEF Permission!Grant
  <2>3. QED BY <2>2 DEF Permission!Next
<1>4. CASE result # "granted"
  <2>1. CallerPhase' = [q \in Requests |-> IF q \in {r} THEN "refused" ELSE CallerPhase[q]]
    BY <1>4 DEF IInv, TypeOK, CallerPhase, Return, Active, Asking
  <2>2. Permission!Refuse({r})
    BY <1>1, <1>2, <2>1 DEF Permission!Refuse
  <2>3. QED BY <2>2 DEF Permission!Next
<1>5. QED BY <1>3, <1>4

(* Every step of the coordinator is a step of the service or invisible.    *)
LEMMA NextRefines == IInv /\ [Next]_vars => [Permission!Next]_Permission!vars
<1> SUFFICES ASSUME IInv, [Next]_vars PROVE [Permission!Next]_Permission!vars
  OBVIOUS
<1>1. ASSUME NEW r \in Requests, NEW c \in Channels, Ask(r, c)
      PROVE  [Permission!Next]_Permission!vars
  <2>1. CallerPhase[r] = "idle"
    BY <1>1 DEF CallerPhase, Ask
  <2>2. CallerPhase' = [CallerPhase EXCEPT ![r] = "asked"]
    BY <1>1 DEF IInv, TypeOK, CallerPhase, Ask, Active, Asking
  <2>3. \A q \in Requests : oneshot'[q] = "allow" <=> oneshot[q] = "allow"
    BY <1>1, NoneIsNoRequest DEF IInv, TypeOK, PhaseOK, EntriesOpen, Ask
  <2>4. Permission!AskPermission(r)
    BY <2>1, <2>2, <2>3 DEF Permission!AskPermission
  <2>5. QED BY <2>4 DEF Permission!Next
<1>2. ASSUME NEW r \in Requests, CallStep(r)
      PROVE  [Permission!Next]_Permission!vars
  <2>1. CASE PromptDelivered(r) \/ TimerFires(r)
    <3>1. CallerPhase' = CallerPhase /\ oneshot' = oneshot
      BY <2>1 DEF IInv, TypeOK, CallerPhase, PromptDelivered, TimerFires, Active, Asking
    <3>2. QED BY <3>1 DEF Permission!vars
  <2>2. CASE PromptFailed(r) \/ CleanUp(r)
    <3>1. channel[r] \in Channels /\ pc[r] \in Active
      BY <2>2 DEF IInv, PhaseOK, PromptFailed, CleanUp, Active, Asking
    <3>2. \A q \in Requests : oneshot'[q] = "allow" <=> oneshot[q] = "allow"
      BY <2>2, <3>1, NoneIsNoRequest
      DEF IInv, TypeOK, EntriesOpen, PromptFailed, CleanUp, RemoveEntry
    <3>3. Return(r, "delivery_failed") \/ Return(r, "timed_out")
      BY <2>2 DEF PromptFailed, CleanUp
    <3>4. CASE Return(r, "delivery_failed")
      BY <3>1, <3>2, <3>4, ReturnRefines DEF Outcome
    <3>5. CASE Return(r, "timed_out")
      BY <3>1, <3>2, <3>5, ReturnRefines DEF Outcome
    <3>6. QED BY <3>3, <3>4, <3>5
  <2>3. CASE PollDecision(r)
    <3>1. pc[r] \in Active /\ oneshot' = oneshot
      BY <2>3 DEF PollDecision, Active, Asking
    <3>2. \/ oneshot[r] = "allow" /\ Return(r, "granted")
          \/ Return(r, "declined")
          \/ Return(r, "cancelled")
      BY <2>3 DEF PollDecision
    <3>3. CASE oneshot[r] = "allow" /\ Return(r, "granted")
      BY <3>1, <3>3, ReturnRefines DEF Outcome
    <3>4. CASE Return(r, "declined")
      BY <3>1, <3>4, ReturnRefines DEF Outcome
    <3>5. CASE Return(r, "cancelled")
      BY <3>1, <3>5, ReturnRefines DEF Outcome
    <3>6. QED BY <3>2, <3>3, <3>4, <3>5
  <2>4. QED BY <1>2, <2>1, <2>2, <2>3 DEF CallStep
<1>3. ASSUME NEW c \in Channels, NEW allow \in BOOLEAN, MarkApplied(c, allow)
      PROVE  [Permission!Next]_Permission!vars
  <2>1. PICK r \in Requests :
          r = pending[c] /\ oneshot[r] = "open" /\ pc[r] \in Active
    BY <1>3 DEF IInv, TypeOK, EntriesOpen, MarkApplied
  <2>2. CallerPhase' = CallerPhase /\ CallerPhase[r] = "asked"
    BY <1>3, <2>1 DEF CallerPhase, MarkApplied, Active, Asking
  <2>3. CASE allow
    <3>1. {q \in Requests : oneshot'[q] = "allow"} =
            {q \in Requests : oneshot[q] = "allow"} \cup {r}
      BY <1>3, <2>1, <2>3 DEF IInv, TypeOK, MarkApplied
    <3>2. r \notin {q \in Requests : oneshot[q] = "allow"}
      BY <2>1
    <3>3. Permission!Approve(r)
      BY <2>2, <3>1, <3>2 DEF Permission!Approve
    <3>4. QED BY <3>3 DEF Permission!Next
  <2>4. CASE ~allow
    <3>1. {q \in Requests : oneshot'[q] = "allow"} = {q \in Requests : oneshot[q] = "allow"}
      BY <1>3, <2>1, <2>4 DEF IInv, TypeOK, MarkApplied
    <3>2. QED BY <2>2, <3>1 DEF Permission!vars
  <2>5. QED BY <2>3, <2>4
<1>4. ASSUME Crash
      PROVE  [Permission!Next]_Permission!vars
  <2> DEFINE S == {r \in Requests : pc[r] \in Active}
  <2>1. S # {} /\ \A r \in S : CallerPhase[r] = "asked"
    BY <1>4 DEF Crash, CallerPhase, Active, Asking
  <2>2. {q \in Requests : oneshot'[q] = "allow"} = {q \in Requests : oneshot[q] = "allow"}
    BY <1>4 DEF Crash
  <2>3. CallerPhase' = [r \in Requests |-> IF r \in S THEN "refused" ELSE CallerPhase[r]]
    BY <1>4 DEF IInv, TypeOK, Crash, CallerPhase, Active, Asking
  <2>4. Permission!Refuse(S)
    BY <2>1, <2>2, <2>3 DEF Permission!Refuse
  <2>5. S \in SUBSET Requests
    OBVIOUS
  <2>6. QED BY <2>4, <2>5 DEF Permission!Next
<1>5. CASE UNCHANGED vars \/ \E c \in Channels : MarkExpired(c)
  BY <1>5 DEF vars, MarkExpired, Permission!vars, CallerPhase
<1>6. QED BY <1>1, <1>2, <1>3, <1>4, <1>5 DEF Next

(* The coordinator implements the permission service, for any number of    *)
(* calls and channels.                                                     *)
THEOREM Refinement == Spec => ImplementsPermission
  BY InitRefines, NextRefines, Invariance, PTL DEF Spec, ImplementsPermission, Permission!Spec
=============================================================================
