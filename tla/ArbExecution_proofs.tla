------------------------ MODULE ArbExecution_proofs ------------------------
(***************************************************************************)
(* Proofs about ArbExecution for every set of calls and intents (two calls *)
(* may carry the same intent), every venue behaviour and every scheduling. *)
(***************************************************************************)
EXTENDS ArbExecution, TLAPS

NotLaunched == {"idle", "creating", "restored", "invalid", "unroutable"}
AfterCancel == {"queueing", "venue", "marking", "failed"}
RollingBack == {"reading", "canceling"} \cup AfterCancel

\* The coordinator's CoordinatorCancel has been applied to the order.
Hit(o) == coord[Call(o)] \in AfterCancel /\ Leg(o) = target[Call(o)]

Kept(c)   == <<c, target[c]>>          \* the leg that a failure rolls back
Failed(c) == <<c, Other(target[c])>>   \* the leg whose failure it was

(***************************************************************************)
(* Until the coordinator's cancel reaches it, an order's status, venue     *)
(* order and result are determined by how far its task has come.           *)
(***************************************************************************)
Unanswered(o) == status[o] = "Pending" /\ ~acked[o]
Acked(o)      == status[o] = "Submitted" /\ acked[o] /\ venue[o] = "live"
Rejected(o)   == status[o] = "Rejected" /\ venue[o] = "none"

LegUntouched(o) ==
  /\ leg[o] = "submitting" => Unanswered(o) /\ venue[o] = "none"
  /\ leg[o] = "routing"    => Unanswered(o) /\ reply[o] = "ack" /\ venue[o] = "live"
  /\ leg[o] = "applying"   => /\ Unanswered(o)
                              /\ \/ reply[o] = "ack" /\ venue[o] = "live"
                                 \/ reply[o] = "fill" /\ venue[o] = "filled"
                                 \/ reply[o] = "reject" /\ venue[o] = "none"
  /\ leg[o] \in {"queueing", "notifying", "concluding"} => Acked(o) \/ Rejected(o)
  /\ leg[o] = "done" => \/ result[o] = "acked" /\ Acked(o)
                        \/ result[o] = "rejected" /\ Rejected(o)
                        \/ result[o] = "error" /\ Unanswered(o) /\ reply[o] # "ack"

LegInv(o) ==
  /\ coord[Call(o)] \in {"idle", "creating", "invalid"} => status[o] = Absent
  /\ coord[Call(o)] \in {"restored", "unroutable"} => status[o] = "Pending"
  /\ coord[Call(o)] \in NotLaunched <=> leg[o] = "none"
  /\ leg[o] = "none" => ~aborted[o] /\ ~acked[o] /\ venue[o] = "none"
  /\ leg[o] = "dropped" => aborted[o]
  /\ IF Hit(o) THEN status[o] \in {"Canceled", "Rejected"} ELSE LegUntouched(o)

(***************************************************************************)
(* What the coordinator relies on in each phase of a call.                 *)
(***************************************************************************)
CallInv(c) ==
  /\ coord[c] \in {"racing", "awaiting", "completed"} => \A l \in Legs : ~aborted[<<c, l>>]
  /\ coord[c] = "awaiting" => leg[Kept(c)] = "done" /\ Succeeded(Kept(c))
  /\ coord[c] = "completed" => \A l \in Legs : leg[<<c, l>>] = "done" /\ Succeeded(<<c, l>>)
  /\ coord[c] \in RollingBack =>
       /\ leg[Failed(c)] = "done" /\ ~Succeeded(Failed(c)) /\ ~aborted[Failed(c)]
       /\ ~aborted[Kept(c)] => 
            /\ leg[Kept(c)] = "done" /\ acked[Kept(c)]
            /\ coord[c] # "reading" => snap[c]
            /\ coord[c] \in {"marking", "failed"} => venue[Kept(c)] \in {"canceled", "stuck"}

IInv == 
  /\ TypeOK
  /\ \A o \in Orders : LegInv(o)
  /\ \A c \in Calls : CallInv(c)

-----------------------------------------------------------------------------
(* Orders are pairs of a call and a leg.                                   *)

LEMMA OrderPairs ==
  /\ \A c \in Calls, l \in Legs : /\ <<c, l>> \in Orders
                                  /\ Call(<<c, l>>) = c
                                  /\ Leg(<<c, l>>) = l
  /\ \A o \in Orders : /\ Call(o) \in Calls
                       /\ Leg(o) \in Legs
                       /\ o = <<Call(o), Leg(o)>>
  /\ \A l \in Legs : Other(l) \in Legs /\ Other(l) # l /\ Other(Other(l)) = l
  /\ \A l, m \in Legs : l # m => l = Other(m)
BY DEF Orders, Call, Leg, Legs, Other

\* The status of an execution is one of the five, whatever its legs are.
LEMMA EvaluateType == ASSUME NEW legs PROVE Evaluate(legs) \in ExecutionStatus
BY DEF Evaluate, ExecutionStatus

-----------------------------------------------------------------------------
(* Type correctness.                                                       *)

\* process_event's memory effect keeps the types.
LEMMA MoveOrderType ==
  ASSUME TypeOK, NEW o \in Orders, NEW kind, MoveOrder(o, kind)
  PROVE  /\ status' \in [Orders -> Status \cup {Absent}]
         /\ acked' \in [Orders -> BOOLEAN]
         /\ moving' \in [Orders -> Transition]
         /\ log' \in [Orders -> Seq(Transition)]
<1>1. Leads(kind) \subseteq Status
  BY DEF Leads
<1>2. PICK s \in Leads(kind) :
        /\ status' = [status EXCEPT ![o] = s]
        /\ moving' = [moving EXCEPT ![o] = [from |-> status[o], to |-> s]]
  BY DEF MoveOrder
<1>3. [from |-> status[o], to |-> s] \in Transition
  BY <1>1 DEF TypeOK, Transition
<1> QED
  BY <1>1, <1>2, <1>3 DEF TypeOK, MoveOrder

LEMMA QueueTransitionType ==
  ASSUME TypeOK, NEW o \in Orders, QueueTransition(o)
  PROVE  /\ status' \in [Orders -> Status \cup {Absent}]
         /\ acked' \in [Orders -> BOOLEAN]
         /\ moving' \in [Orders -> Transition]
         /\ log' \in [Orders -> Seq(Transition)]
<1>1. Idle \in Transition
  BY DEF Idle, Transition
<1>2. Append(log[o], moving[o]) \in Seq(Transition)
  BY DEF TypeOK
<1> QED
  BY <1>1, <1>2 DEF TypeOK, QueueTransition

LEMMA UpdateExecutionType ==
  ASSUME TypeOK, NEW i \in Intents, NEW l \in Legs, NEW s \in Status \cup {Absent},
         UpdateExecution(i, l, s)
  PROVE  /\ execLegs' \in [Intents -> [Legs -> Status \cup {Absent}]]
         /\ execStatus' \in [Intents -> ExecutionStatus \cup {Absent}]
BY EvaluateType DEF TypeOK, UpdateExecution

LEMMA TypeOKInit == Init => TypeOK
<1>1. Idle \in Transition /\ <<>> \in Seq(Transition)
  BY DEF Idle, Transition
<1> QED
  BY <1>1 DEF Init, TypeOK, LegPC, CoordPC, Returned, LegResult, Legs

LEMMA TypeOKStep == TypeOK /\ [Next]_vars => TypeOK'
<1> SUFFICES ASSUME TypeOK, [Next]_vars PROVE TypeOK'
  OBVIOUS
<1> USE DEF orderVars, routerVars, execVars, coordVars, legVars
<1>1. ASSUME NEW c \in Calls, CoordStep(c) PROVE TypeOK'
  <2> DEFINE i == IntentOf[c]
  <2>i. i \in Intents
    BY ConstantsAssumption
  <2>1. CASE Refuse(c)
    BY <2>1 DEF Refuse, TypeOK, CoordPC, Returned
  <2>2. CASE Create(c)
    <3>1. clientMap' \in [Intents \X Legs -> Orders \cup {NoOrder}]
      BY <2>2, OrderPairs DEF Create, TypeOK
    <3> QED
      BY <2>2, <3>1 DEF Create, TypeOK, CoordPC
  <2>3. CASE Restore(c)
    BY <2>3 DEF Restore, TypeOK, CoordPC, Status
  <2>4. CASE Launch(c)
    BY <2>4, <2>i DEF Launch, TrackExecution, TypeOK, CoordPC, LegPC, Status, ExecutionStatus
  <2>5. CASE LaunchFails(c)
    BY <2>5, <2>i DEF LaunchFails, TrackExecution, TypeOK, CoordPC, Returned, Status,
                      ExecutionStatus
  <2>6. ASSUME NEW l \in Legs, FirstSucceeds(c, l) PROVE TypeOK'
    BY <2>6 DEF FirstSucceeds, TypeOK, CoordPC
  <2>7. ASSUME NEW l \in Legs, FirstFails(c, l) PROVE TypeOK'
    BY <2>7, OrderPairs DEF FirstFails, TypeOK, CoordPC
  <2>8. CASE SecondSucceeds(c)
    <3> DEFINE o == <<c, Other(target[c])>>
    <3>1. Leg(o) \in Legs
      BY OrderPairs DEF TypeOK
    <3>2. UpdateExecution(i, Leg(o), "Filled")
      BY <2>8 DEF SecondSucceeds
    <3>3. /\ execLegs' \in [Intents -> [Legs -> Status \cup {Absent}]]
          /\ execStatus' \in [Intents -> ExecutionStatus \cup {Absent}]
      BY <2>i, <3>1, <3>2, UpdateExecutionType DEF Status
    <3> QED
      BY <2>8, <3>3 DEF SecondSucceeds, TypeOK, CoordPC, Returned
  <2>9. CASE SecondFails(c)
    BY <2>9 DEF SecondFails, TypeOK, CoordPC
  <2>10. CASE ReadTarget(c)
    BY <2>10, OrderPairs DEF ReadTarget, TypeOK, CoordPC
  <2>11. CASE CancelTarget(c)
    <3>1. <<c, target[c]>> \in Orders
      BY OrderPairs DEF TypeOK
    <3>2. MoveOrder(<<c, target[c]>>, "cancel")
      BY <2>11 DEF CancelTarget
    <3> QED
      BY <2>11, <3>1, <3>2, MoveOrderType DEF CancelTarget, TypeOK, CoordPC
  <2>12. CASE QueueCancel(c)
    <3>1. <<c, target[c]>> \in Orders
      BY OrderPairs DEF TypeOK
    <3>2. QueueTransition(<<c, target[c]>>)
      BY <2>12 DEF QueueCancel
    <3> QED
      BY <2>12, <3>1, <3>2, QueueTransitionType DEF QueueCancel, TypeOK, CoordPC
  <2>13. CASE CancelAtVenue(c)
    BY <2>13 DEF CancelAtVenue, TypeOK, CoordPC
  <2>14. CASE MarkFailed(c)
    <3>1. Other(target[c]) \in Legs
      BY OrderPairs DEF TypeOK
    <3>2. UpdateExecution(i, Other(target[c]), "Rejected")
      BY <2>14 DEF MarkFailed
    <3>3. /\ execLegs' \in [Intents -> [Legs -> Status \cup {Absent}]]
          /\ execStatus' \in [Intents -> ExecutionStatus \cup {Absent}]
      BY <2>i, <3>1, <3>2, UpdateExecutionType DEF Status
    <3> QED
      BY <2>14, <3>3 DEF MarkFailed, TypeOK, CoordPC, Returned
  <2> QED
    BY <1>1, <2>1, <2>2, <2>3, <2>4, <2>5, <2>6, <2>7, <2>8, <2>9, <2>10, <2>11, <2>12,
       <2>13, <2>14 DEF CoordStep
<1>2. ASSUME NEW o \in Orders, LegStep(o) PROVE TypeOK'
  <2>1. ASSUME NEW r \in Replies, VenueReplies(o, r) PROVE TypeOK'
    BY <2>1 DEF VenueReplies, TypeOK, LegPC
  <2>2. CASE "err" \in Replies /\ SubmitFails(o)
    <3>1. venue' \in [Orders -> {"none", "live", "filled", "canceled", "stuck"}]
      BY <2>2 DEF SubmitFails, Unheard, TypeOK
    <3> QED
      BY <2>2, <3>1 DEF SubmitFails, TypeOK, LegPC, LegResult
  <2>3. CASE RouteAck(o)
    <3>1. ClientId(o) \in Intents \X Legs
      BY OrderPairs, ConstantsAssumption DEF ClientId
    <3> QED
      BY <2>3, <3>1 DEF RouteAck, TypeOK, LegPC
  <2>4. CASE ApplyReply(o)
    BY <2>4, MoveOrderType DEF ApplyReply, TypeOK, LegPC
  <2>5. CASE ReplyRefused(o)
    BY <2>5 DEF ReplyRefused, TypeOK, LegPC, LegResult
  <2>6. CASE QueueReply(o)
    BY <2>6, QueueTransitionType DEF QueueReply, TypeOK, LegPC
  <2>7. CASE NotifyCoordinator(o)
    <3> DEFINE s == IF reply[o] = "ack" THEN "Submitted"
                    ELSE IF reply[o] = "reject" THEN "Rejected" ELSE status[o]
    <3>1. /\ s \in Status \cup {Absent}
          /\ Leg(o) \in Legs
          /\ IntentOf[Call(o)] \in Intents
      BY OrderPairs, ConstantsAssumption DEF TypeOK, Status
    <3>2. UpdateExecution(IntentOf[Call(o)], Leg(o), s)
      BY <2>7 DEF NotifyCoordinator
    <3>3. /\ execLegs' \in [Intents -> [Legs -> Status \cup {Absent}]]
          /\ execStatus' \in [Intents -> ExecutionStatus \cup {Absent}]
      BY <3>1, <3>2, UpdateExecutionType
    <3> QED
      BY <2>7, <3>3 DEF NotifyCoordinator, TypeOK, LegPC
  <2>8. CASE Conclude(o)
    BY <2>8 DEF Conclude, TypeOK, LegPC, LegResult
  <2>9. CASE DropLeg(o)
    <3>1. Idle \in Transition
      BY DEF Idle, Transition
    <3>2. Append(log[o], moving[o]) \in Seq(Transition)
      BY DEF TypeOK
    <3>3. log' \in [Orders -> Seq(Transition)]
      BY <2>9, <3>2 DEF DropLeg, TypeOK
    <3>4. venue' \in [Orders -> {"none", "live", "filled", "canceled", "stuck"}]
      BY <2>9 DEF DropLeg, Unheard, TypeOK
    <3> QED
      BY <2>9, <3>1, <3>3, <3>4 DEF DropLeg, TypeOK, LegPC
  <2> QED
    BY <1>2, <2>1, <2>2, <2>3, <2>4, <2>5, <2>6, <2>7, <2>8, <2>9 DEF LegStep
<1>3. ASSUME NEW o \in Orders, WriteStep(o) PROVE TypeOK'
  <2>1. CASE WriteFails(o)
    BY <2>1 DEF WriteFails, TypeOK
  <2>2. CASE WriteSucceeds(o)
    <3>1. synced' \in [Orders -> BOOLEAN]
      BY <2>2 DEF WriteSucceeds, Cached, TypeOK
    <3> QED
      BY <2>2, <3>1 DEF WriteSucceeds, TypeOK
  <2> QED
    BY <1>3, <2>1, <2>2 DEF WriteStep
<1>4. CASE UNCHANGED vars
  BY <1>4 DEF vars, TypeOK
<1> QED
  BY <1>1, <1>2, <1>3, <1>4 DEF Next

\* Every reachable state has the declared shape, for any constants.
THEOREM TypeCorrect == Spec => []TypeOK
BY TypeOKInit, TypeOKStep, PTL DEF Spec

-----------------------------------------------------------------------------
(* The inductive invariant.                                                *)

LEMMA IInvInit == Init => IInv
<1> SUFFICES ASSUME Init PROVE IInv
  OBVIOUS
<1>1. ASSUME NEW o \in Orders PROVE LegInv(o)
  BY OrderPairs DEF Init, LegInv, LegUntouched, NotLaunched, Hit, AfterCancel, Absent
<1>2. ASSUME NEW c \in Calls PROVE CallInv(c)
  BY OrderPairs DEF Init, CallInv, RollingBack, AfterCancel
<1> QED
  BY <1>1, <1>2, TypeOKInit DEF IInv

\* What a call relies on survives a step that leaves the call alone and changes
\* none of its finished leg tasks.
LEMMA CallInvFrame ==
  ASSUME TypeOK, NEW d \in Calls, CallInv(d),
         UNCHANGED <<coord[d], target[d], snap[d]>>,
         \A l \in Legs : 
           /\ UNCHANGED aborted[<<d, l>>]
           /\ leg[<<d, l>>] = "done" =>
                UNCHANGED <<leg[<<d, l>>], result[<<d, l>>], acked[<<d, l>>], venue[<<d, l>>]>>
  PROVE  CallInv(d)'
<1>1. target[d] \in Legs /\ Other(target[d]) \in Legs
  BY OrderPairs DEF TypeOK
<1> QED
  BY <1>1 DEF CallInv, Kept, Failed, Succeeded, RollingBack, AfterCancel

LEMMA IInvStep == IInv /\ [Next]_vars => IInv'
<1> SUFFICES ASSUME IInv, [Next]_vars PROVE IInv'
  OBVIOUS
<1>t. TypeOK /\ TypeOK'
  BY TypeOKStep DEF IInv
<1> SUFFICES ASSUME TRUE
             PROVE  /\ \A p \in Orders : LegInv(p)'
                    /\ \A d \in Calls : CallInv(d)'
  BY <1>t DEF IInv
<1>l. ASSUME NEW p \in Orders PROVE LegInv(p)
  BY DEF IInv
<1>c. ASSUME NEW d \in Calls PROVE CallInv(d)
  BY DEF IInv
<1> USE DEF orderVars, routerVars, execVars, coordVars, legVars,
            NotLaunched, AfterCancel, RollingBack, Returned, Hit, Kept, Failed, Succeeded,
            Unanswered, Acked, Rejected, LegUntouched
<1>1. ASSUME NEW c \in Calls, CoordStep(c)
      PROVE  (\A p \in Orders : LegInv(p)') /\ (\A d \in Calls : CallInv(d)')
  <2>k. /\ target[c] \in Legs /\ Other(target[c]) \in Legs
        /\ Kept(c) \in Orders /\ Failed(c) \in Orders
        /\ Call(Kept(c)) = c /\ Call(Failed(c)) = c
        /\ Leg(Kept(c)) = target[c] /\ Leg(Failed(c)) = Other(target[c])
        /\ target[c] # Other(target[c])
    BY <1>t, OrderPairs DEF TypeOK
  <2>1. CASE Refuse(c)
    <3>1. ASSUME NEW p \in Orders PROVE LegInv(p)'
      BY <2>1, <1>t, <1>l, <1>c, OrderPairs DEF Refuse, LegInv, CallInv, TypeOK
    <3>2. CallInv(c)'
      BY <2>1, <2>k, <1>t, <1>l, <1>c, OrderPairs DEF Refuse, LegInv, CallInv, TypeOK
    <3>3. ASSUME NEW d \in Calls, d # c PROVE CallInv(d)'
      BY <2>1, <3>3, <1>t, <1>c, CallInvFrame, OrderPairs DEF Refuse, TypeOK
    <3> QED
      BY <3>1, <3>2, <3>3
  <2>2. CASE Create(c)
    <3>1. ASSUME NEW p \in Orders PROVE LegInv(p)'
      BY <2>2, <1>t, <1>l, <1>c, OrderPairs DEF Create, LegInv, CallInv, TypeOK
    <3>2. CallInv(c)'
      BY <2>2, <2>k, <1>t, <1>l, <1>c, OrderPairs DEF Create, LegInv, CallInv, TypeOK
    <3>3. ASSUME NEW d \in Calls, d # c PROVE CallInv(d)'
      BY <2>2, <3>3, <1>t, <1>c, CallInvFrame, OrderPairs DEF Create, TypeOK
    <3> QED
      BY <3>1, <3>2, <3>3
  <2>3. CASE Restore(c)
    <3>1. ASSUME NEW p \in Orders PROVE LegInv(p)'
      BY <2>3, <1>t, <1>l, <1>c, OrderPairs DEF Restore, LegInv, CallInv, TypeOK
    <3>2. CallInv(c)'
      BY <2>3, <2>k, <1>t, <1>l, <1>c, OrderPairs DEF Restore, LegInv, CallInv, TypeOK
    <3>3. ASSUME NEW d \in Calls, d # c PROVE CallInv(d)'
      BY <2>3, <3>3, <1>t, <1>c, CallInvFrame, OrderPairs DEF Restore, TypeOK
    <3> QED
      BY <3>1, <3>2, <3>3
  <2>4. CASE Launch(c)
    <3>1. ASSUME NEW p \in Orders PROVE LegInv(p)'
      BY <2>4, <1>t, <1>l, <1>c, OrderPairs DEF Launch, LegInv, CallInv, TypeOK
    <3>2. CallInv(c)'
      BY <2>4, <2>k, <1>t, <1>l, <1>c, OrderPairs DEF Launch, LegInv, CallInv, TypeOK
    <3>3. ASSUME NEW d \in Calls, d # c PROVE CallInv(d)'
      BY <2>4, <3>3, <1>t, <1>c, CallInvFrame, OrderPairs DEF Launch, TypeOK
    <3> QED
      BY <3>1, <3>2, <3>3
  <2>5. CASE LaunchFails(c)
    <3>1. ASSUME NEW p \in Orders PROVE LegInv(p)'
      BY <2>5, <1>t, <1>l, <1>c, OrderPairs DEF LaunchFails, LegInv, CallInv, TypeOK
    <3>2. CallInv(c)'
      BY <2>5, <2>k, <1>t, <1>l, <1>c, OrderPairs DEF LaunchFails, LegInv, CallInv, TypeOK
    <3>3. ASSUME NEW d \in Calls, d # c PROVE CallInv(d)'
      BY <2>5, <3>3, <1>t, <1>c, CallInvFrame, OrderPairs DEF LaunchFails, TypeOK
    <3> QED
      BY <3>1, <3>2, <3>3
  <2>6. ASSUME NEW l \in Legs, FirstSucceeds(c, l)
        PROVE  (\A p \in Orders : LegInv(p)') /\ (\A d \in Calls : CallInv(d)')
    <3>1. ASSUME NEW p \in Orders PROVE LegInv(p)'
      BY <2>6, <1>t, <1>l, <1>c, OrderPairs DEF FirstSucceeds, LegInv, CallInv, TypeOK
    <3>2. CallInv(c)'
      BY <2>6, <2>k, <1>t, <1>l, <1>c, OrderPairs DEF FirstSucceeds, LegInv, CallInv, TypeOK
    <3>3. ASSUME NEW d \in Calls, d # c PROVE CallInv(d)'
      BY <2>6, <3>3, <1>t, <1>c, CallInvFrame, OrderPairs DEF FirstSucceeds, TypeOK
    <3> QED
      BY <3>1, <3>2, <3>3
  <2>7. ASSUME NEW l \in Legs, FirstFails(c, l)
        PROVE  (\A p \in Orders : LegInv(p)') /\ (\A d \in Calls : CallInv(d)')
    <3>1. ASSUME NEW p \in Orders PROVE LegInv(p)'
      BY <2>7, <1>t, <1>l, <1>c, OrderPairs DEF FirstFails, LegInv, CallInv, TypeOK
    <3>a. /\ coord'[c] = "reading"
          /\ Kept(c)' = <<c, Other(l)>>
          /\ Failed(c)' = <<c, l>>
      BY <2>7, <1>t, OrderPairs DEF FirstFails, TypeOK
    <3>b. /\ leg'[<<c, l>>] = "done" /\ ~aborted'[<<c, l>>]
          /\ result'[<<c, l>>] \notin {"filled", "acked"}
          /\ aborted'[<<c, Other(l)>>]
      <4>1. <<c, l>> \in Orders /\ <<c, Other(l)>> \in Orders /\ <<c, l>> # <<c, Other(l)>>
        BY OrderPairs
      <4>2. ~aborted[<<c, l>>]
        BY <2>7, <1>c DEF FirstFails, CallInv
      <4> QED
        BY <2>7, <4>1, <4>2, <1>t DEF FirstFails, TypeOK
    <3>2. CallInv(c)'
      BY <3>a, <3>b DEF CallInv
    <3>3. ASSUME NEW d \in Calls, d # c PROVE CallInv(d)'
      BY <2>7, <3>3, <1>t, <1>c, CallInvFrame, OrderPairs DEF FirstFails, TypeOK
    <3> QED
      BY <3>1, <3>2, <3>3
  <2>8. CASE SecondSucceeds(c)
    <3>1. ASSUME NEW p \in Orders PROVE LegInv(p)'
      BY <2>8, <1>t, <1>l, <1>c, OrderPairs DEF SecondSucceeds, LegInv, CallInv, TypeOK
    <3>a. coord'[c] = "completed"
      BY <2>8, <1>t DEF SecondSucceeds, TypeOK
    <3>b. ASSUME NEW l \in Legs
          PROVE  /\ ~aborted[<<c, l>>] 
                 /\ leg[<<c, l>>] = "done" /\ result[<<c, l>>] \in {"filled", "acked"}
      BY <2>8, <2>k, <1>c, OrderPairs DEF SecondSucceeds, CallInv
    <3>2. CallInv(c)'
      BY <2>8, <3>a, <3>b DEF SecondSucceeds, CallInv
    <3>3. ASSUME NEW d \in Calls, d # c PROVE CallInv(d)'
      BY <2>8, <3>3, <1>t, <1>c, CallInvFrame, OrderPairs DEF SecondSucceeds, TypeOK
    <3> QED
      BY <3>1, <3>2, <3>3
  <2>9. CASE SecondFails(c)
    <3>1. ASSUME NEW p \in Orders PROVE LegInv(p)'
      BY <2>9, <1>t, <1>l, <1>c, OrderPairs DEF SecondFails, LegInv, CallInv, TypeOK
    <3>a. /\ coord'[c] = "reading"
          /\ UNCHANGED <<Kept(c), Failed(c), acked, legVars>>
      BY <2>9, <1>t DEF SecondFails, TypeOK
    <3>b. /\ leg[Failed(c)] = "done" /\ result[Failed(c)] \notin {"filled", "acked"}
          /\ ~aborted[Failed(c)]
      BY <2>9, <2>k, <1>c DEF SecondFails, CallInv
    <3>c. leg[Kept(c)] = "done" /\ acked[Kept(c)]
      BY <2>9, <2>k, <1>l, <1>c DEF SecondFails, CallInv, LegInv
    <3>2. CallInv(c)'
      BY <3>a, <3>b, <3>c DEF CallInv
    <3>3. ASSUME NEW d \in Calls, d # c PROVE CallInv(d)'
      BY <2>9, <3>3, <1>t, <1>c, CallInvFrame, OrderPairs DEF SecondFails, TypeOK
    <3> QED
      BY <3>1, <3>2, <3>3
  <2>10. CASE ReadTarget(c)
    <3>1. ASSUME NEW p \in Orders PROVE LegInv(p)'
      BY <2>10, <1>t, <1>l, <1>c, OrderPairs DEF ReadTarget, LegInv, CallInv, TypeOK
    <3>2. CallInv(c)'
      BY <2>10, <2>k, <1>t, <1>l, <1>c, OrderPairs DEF ReadTarget, LegInv, CallInv, TypeOK
    <3>3. ASSUME NEW d \in Calls, d # c PROVE CallInv(d)'
      BY <2>10, <3>3, <1>t, <1>c, CallInvFrame, OrderPairs DEF ReadTarget, TypeOK
    <3> QED
      BY <3>1, <3>2, <3>3
  <2>11. CASE CancelTarget(c)
    <3>1. ASSUME NEW p \in Orders PROVE LegInv(p)'
      BY <2>11, <1>t, <1>l, <1>c, OrderPairs DEF CancelTarget, LegInv, CallInv, TypeOK, MoveOrder, Leads
    <3>2. CallInv(c)'
      BY <2>11, <2>k, <1>t, <1>l, <1>c, OrderPairs DEF CancelTarget, LegInv, CallInv, TypeOK, MoveOrder
    <3>3. ASSUME NEW d \in Calls, d # c PROVE CallInv(d)'
      BY <2>11, <3>3, <1>t, <1>c, CallInvFrame, OrderPairs DEF CancelTarget, TypeOK, MoveOrder
    <3> QED
      BY <3>1, <3>2, <3>3
  <2>12. CASE QueueCancel(c)
    <3>1. ASSUME NEW p \in Orders PROVE LegInv(p)'
      BY <2>12, <1>t, <1>l, <1>c, OrderPairs DEF QueueCancel, LegInv, CallInv, TypeOK, QueueTransition
    <3>2. CallInv(c)'
      BY <2>12, <2>k, <1>t, <1>l, <1>c, OrderPairs DEF QueueCancel, LegInv, CallInv, TypeOK, QueueTransition
    <3>3. ASSUME NEW d \in Calls, d # c PROVE CallInv(d)'
      BY <2>12, <3>3, <1>t, <1>c, CallInvFrame, OrderPairs DEF QueueCancel, TypeOK, QueueTransition
    <3> QED
      BY <3>1, <3>2, <3>3
  <2>13. CASE CancelAtVenue(c)
    <3>1. ASSUME NEW p \in Orders PROVE LegInv(p)'
      BY <2>13, <1>t, <1>l, <1>c, OrderPairs DEF CancelAtVenue, LegInv, CallInv, TypeOK
    <3>2. CallInv(c)'
      BY <2>13, <2>k, <1>t, <1>l, <1>c, OrderPairs DEF CancelAtVenue, LegInv, CallInv, TypeOK
    <3>3. ASSUME NEW d \in Calls, d # c PROVE CallInv(d)'
      BY <2>13, <3>3, <1>t, <1>c, CallInvFrame, OrderPairs DEF CancelAtVenue, TypeOK
    <3> QED
      BY <3>1, <3>2, <3>3
  <2>14. CASE MarkFailed(c)
    <3>1. ASSUME NEW p \in Orders PROVE LegInv(p)'
      BY <2>14, <1>t, <1>l, <1>c, OrderPairs DEF MarkFailed, LegInv, CallInv, TypeOK
    <3>2. CallInv(c)'
      BY <2>14, <2>k, <1>t, <1>l, <1>c, OrderPairs DEF MarkFailed, LegInv, CallInv, TypeOK
    <3>3. ASSUME NEW d \in Calls, d # c PROVE CallInv(d)'
      BY <2>14, <3>3, <1>t, <1>c, CallInvFrame, OrderPairs DEF MarkFailed, TypeOK
    <3> QED
      BY <3>1, <3>2, <3>3
  <2> QED
    BY <1>1, <2>1, <2>2, <2>3, <2>4, <2>5, <2>6, <2>7, <2>8, <2>9, <2>10, <2>11, <2>12, <2>13, <2>14 DEF CoordStep
<1>2. ASSUME NEW o \in Orders, LegStep(o)
      PROVE  (\A p \in Orders : LegInv(p)') /\ (\A d \in Calls : CallInv(d)')
  <2>f. ASSUME UNCHANGED <<coordVars, aborted>>, leg[o] # "done",
               \A p \in Orders : p # o => 
                 UNCHANGED <<leg[p], result[p], acked[p], venue[p]>>
        PROVE  \A d \in Calls : CallInv(d)'
    BY <2>f, <1>t, <1>c, CallInvFrame, OrderPairs
  <2>1. ASSUME NEW r \in Replies, VenueReplies(o, r)
        PROVE  (\A p \in Orders : LegInv(p)') /\ (\A d \in Calls : CallInv(d)')
    <3>1. ASSUME NEW p \in Orders PROVE LegInv(p)'
      BY <2>1, <1>t, <1>l, <1>c, OrderPairs, ConstantsAssumption DEF VenueReplies, LegInv, CallInv, TypeOK
    <3>2. \A d \in Calls : CallInv(d)'
      BY <2>1, <2>f, <1>t DEF VenueReplies, TypeOK
    <3> QED
      BY <3>1, <3>2
  <2>2. CASE SubmitFails(o)
    <3>1. ASSUME NEW p \in Orders PROVE LegInv(p)'
      BY <2>2, <1>t, <1>l, <1>c, OrderPairs DEF SubmitFails, LegInv, CallInv, TypeOK
    <3>2. \A d \in Calls : CallInv(d)'
      BY <2>2, <2>f, <1>t DEF SubmitFails, TypeOK
    <3> QED
      BY <3>1, <3>2
  <2>3. CASE RouteAck(o)
    <3>1. ASSUME NEW p \in Orders PROVE LegInv(p)'
      BY <2>3, <1>t, <1>l, <1>c, OrderPairs DEF RouteAck, LegInv, CallInv, TypeOK
    <3>2. \A d \in Calls : CallInv(d)'
      BY <2>3, <2>f, <1>t DEF RouteAck, TypeOK
    <3> QED
      BY <3>1, <3>2
  <2>4. CASE ApplyReply(o)
    <3>a. /\ leg' = [leg EXCEPT ![o] = "queueing"] /\ leg[o] = "applying"
          /\ UNCHANGED <<coordVars, reply, result, aborted, venue>>
      BY <2>4 DEF ApplyReply
    <3>b. /\ status'[o] \in Leads(reply[o]) /\ Accepts(status[o], reply[o])
          /\ acked'[o] = (acked[o] \/ reply[o] = "ack")
          /\ \A p \in Orders \ {o} : UNCHANGED <<status[p], acked[p]>>
      BY <2>4, <1>t DEF ApplyReply, MoveOrder, TypeOK
    <3>c. ASSUME Hit(o) PROVE LegInv(o)'
      <4>1. status[o] \in {"Canceled", "Rejected"}
        BY <3>c, <1>l DEF LegInv
      <4>2. reply[o] \in {"ack", "fill", "reject", "err", "none"}
        BY <1>t, ConstantsAssumption DEF TypeOK
      <4>3. status'[o] = "Rejected"
        BY <4>1, <4>2, <3>b DEF Accepts, Leads
      <4> QED
        BY <3>c, <3>a, <4>3, <1>l, <1>t DEF LegInv, TypeOK
    <3>d. ASSUME ~Hit(o) PROVE LegInv(o)'
      <4>1. /\ Unanswered(o)
            /\ \/ reply[o] = "ack" /\ venue[o] = "live"
               \/ reply[o] = "fill" /\ venue[o] = "filled"
               \/ reply[o] = "reject" /\ venue[o] = "none"
        BY <3>d, <3>a, <1>l DEF LegInv
      <4>2. (Acked(o) \/ Rejected(o))'
        BY <4>1, <3>a, <3>b DEF Accepts, Leads
      <4> QED
        BY <3>d, <3>a, <4>2, <1>l, <1>t DEF LegInv, TypeOK
    <3>e. ASSUME NEW p \in Orders \ {o} PROVE LegInv(p)'
      BY <3>a, <3>b, <1>l, <1>t DEF LegInv, TypeOK
    <3>1. ASSUME NEW p \in Orders PROVE LegInv(p)'
      BY <3>c, <3>d, <3>e
    <3>2. \A d \in Calls : CallInv(d)'
      BY <2>4, <2>f, <1>t DEF ApplyReply, TypeOK, MoveOrder
    <3> QED
      BY <3>1, <3>2
  <2>5. CASE ReplyRefused(o)
    <3>1. ASSUME NEW p \in Orders PROVE LegInv(p)'
      BY <2>5, <1>t, <1>l, <1>c, OrderPairs DEF ReplyRefused, LegInv, CallInv, TypeOK, Accepts
    <3>2. \A d \in Calls : CallInv(d)'
      BY <2>5, <2>f, <1>t DEF ReplyRefused, TypeOK
    <3> QED
      BY <3>1, <3>2
  <2>6. CASE QueueReply(o)
    <3>1. ASSUME NEW p \in Orders PROVE LegInv(p)'
      BY <2>6, <1>t, <1>l, <1>c, OrderPairs DEF QueueReply, LegInv, CallInv, TypeOK, QueueTransition
    <3>2. \A d \in Calls : CallInv(d)'
      BY <2>6, <2>f, <1>t DEF QueueReply, TypeOK, QueueTransition
    <3> QED
      BY <3>1, <3>2
  <2>7. CASE NotifyCoordinator(o)
    <3>1. ASSUME NEW p \in Orders PROVE LegInv(p)'
      BY <2>7, <1>t, <1>l, <1>c, OrderPairs DEF NotifyCoordinator, LegInv, CallInv, TypeOK
    <3>2. \A d \in Calls : CallInv(d)'
      BY <2>7, <2>f, <1>t DEF NotifyCoordinator, TypeOK
    <3> QED
      BY <3>1, <3>2
  <2>8. CASE Conclude(o)
    <3>1. ASSUME NEW p \in Orders PROVE LegInv(p)'
      BY <2>8, <1>t, <1>l, <1>c, OrderPairs DEF Conclude, LegInv, CallInv, TypeOK
    <3>2. \A d \in Calls : CallInv(d)'
      BY <2>8, <2>f, <1>t DEF Conclude, TypeOK
    <3> QED
      BY <3>1, <3>2
  <2>9. CASE DropLeg(o)
    <3>1. ASSUME NEW p \in Orders PROVE LegInv(p)'
      BY <2>9, <1>t, <1>l, <1>c, OrderPairs DEF DropLeg, LegInv, CallInv, TypeOK
    <3>2. \A d \in Calls : CallInv(d)'
      BY <2>9, <2>f, <1>t DEF DropLeg, TypeOK
    <3> QED
      BY <3>1, <3>2
  <2> QED
    BY <1>2, <2>1, <2>2, <2>3, <2>4, <2>5, <2>6, <2>7, <2>8, <2>9 DEF LegStep
<1>3. ASSUME NEW o \in Orders, WriteStep(o)
      PROVE  (\A p \in Orders : LegInv(p)') /\ (\A d \in Calls : CallInv(d)')
  <2>1. UNCHANGED <<orderVars, coordVars, legVars, venue>>
    BY <1>3 DEF WriteStep, WriteFails, WriteSucceeds
  <2> QED
    BY <2>1, <1>l, <1>c DEF LegInv, CallInv
<1>4. CASE UNCHANGED vars
  BY <1>4, <1>l, <1>c DEF vars, LegInv, CallInv
<1> QED
  BY <1>1, <1>2, <1>3, <1>4 DEF Next

LEMMA IInvInvariant == Spec => []IInv
BY IInvInit, IInvStep, PTL DEF Spec

-----------------------------------------------------------------------------
(* The two legs of a call after a failure.                                 *)

LEMMA KeptOrFailed ==
  ASSUME TypeOK, NEW c \in Calls
  PROVE  /\ Kept(c) \in Orders /\ Call(Kept(c)) = c /\ Leg(Kept(c)) = target[c]
         /\ Failed(c) \in Orders /\ Call(Failed(c)) = c /\ Leg(Failed(c)) # target[c]
         /\ \A o \in Orders : Call(o) = c => o = Kept(c) \/ o = Failed(c)
BY OrderPairs DEF TypeOK, Kept, Failed

\* From the moment the cancel is applied neither leg is live in the cache.
LEMMA RolledBack ==
  ASSUME IInv, NEW o \in Orders, coord[Call(o)] \in AfterCancel
  PROVE  status[o] \in {"Pending", "Rejected", "Canceled"}
<1> DEFINE c == Call(o)
<1>1. c \in Calls /\ TypeOK /\ LegInv(o) /\ CallInv(c)
  BY OrderPairs DEF IInv
<1>2. CASE o = Kept(c)
  BY <1>1, <1>2, KeptOrFailed DEF LegInv, Hit
<1>3. CASE o = Failed(c)
  <2>1. leg[o] = "done" /\ ~Succeeded(o) /\ ~Hit(o)
    BY <1>1, <1>3, KeptOrFailed DEF CallInv, RollingBack, Hit
  <2> QED
    BY <1>1, <2>1 DEF LegInv, LegUntouched, Succeeded, Rejected, Unanswered
<1> QED
  BY <1>1, <1>2, <1>3, KeptOrFailed

\* A call that returned Failed has no live leg in the order cache, and never
\* will: an ACK still in the hands of an aborted task cannot revive one.
THEOREM FailureIsClean == Spec => []NoLiveLegAfterFailure
<1>1. IInv => NoLiveLegAfterFailure
  BY RolledBack DEF NoLiveLegAfterFailure, AfterCancel
<1> QED
  BY <1>1, IInvInvariant, PTL

\* If no task had to be aborted, a failed call has told the venue to cancel
\* every order whose ACK its tasks received.  An order whose submission timed out
\* is not among them, whatever its venue holds.
THEOREM UnabortedRollbackIsComplete == Spec => []RollbackReachesVenue
<1>1. IInv => RollbackReachesVenue
  <2> SUFFICES ASSUME IInv, NEW c \in Calls, coord[c] = "failed",
                      \A l \in Legs : ~aborted[<<c, l>>], NEW l \in Legs,
                      reply[<<c, l>>] = "ack"
               PROVE  venue[<<c, l>>] # "live"
    BY DEF RollbackReachesVenue
  <2>1. TypeOK /\ CallInv(c) /\ <<c, l>> \in Orders /\ Call(<<c, l>>) = c /\ LegInv(<<c, l>>)
    BY OrderPairs DEF IInv
  <2>2. CASE <<c, l>> = Kept(c)
    BY <2>1, <2>2 DEF CallInv, RollingBack, AfterCancel
  <2>3. CASE <<c, l>> = Failed(c)
    <3>1. leg[<<c, l>>] = "done" /\ ~Succeeded(<<c, l>>) /\ ~Hit(<<c, l>>)
      BY <2>1, <2>3, KeptOrFailed DEF CallInv, RollingBack, AfterCancel, Hit
    <3> QED
      BY <2>1, <3>1 DEF LegInv, LegUntouched, Succeeded, Rejected, Unanswered
  <2> QED
    BY <2>1, <2>2, <2>3, KeptOrFailed
<1> QED
  BY <1>1, IInvInvariant, PTL

-----------------------------------------------------------------------------
(* The coordinator implements ArbOutcome.                                  *)

LEMMA OutcomeInit == Init => Outcome!Init
BY DEF Init, Outcome!Init, Outcome!OutcomeOrders, Orders, Verdict, Book, Absent

\* A step that changes neither what a call reports nor what the cache says of
\* an order is invisible.
LEMMA OutcomeStutters ==
  ASSUME \A c \in Calls : Verdict(coord'[c]) = Verdict(coord[c]),
         \A o \in Orders : Book(status'[o]) = Book(status[o])
  PROVE  UNCHANGED Outcome!vars
BY DEF Outcome!vars

\* A call that is open reports; the orders stay as they are.
LEMMA OutcomeReports ==
  ASSUME TypeOK, NEW c \in Calls, NEW v, Verdict(coord[c]) = "open",
         NEW pc, coord' = [coord EXCEPT ![c] = pc], Verdict(pc) = v,
         UNCHANGED status
  PROVE  Outcome!Report(c, v)
BY DEF Outcome!Report, TypeOK

\* A step of an open call that moves one order between idle, live and dead.
LEMMA OutcomeMoves ==
  ASSUME TypeOK, NEW o \in Orders, Verdict(coord[Call(o)]) = "open",
         \A c \in Calls : Verdict(coord'[c]) = Verdict(coord[c]),
         NEW s, status' = [status EXCEPT ![o] = s],
         \/ Book(status[o]) = "idle" /\ Book(s) = "live"
         \/ Book(s) = "dead"
  PROVE  Outcome!Next \/ UNCHANGED Outcome!vars
<1> DEFINE V == [c \in Calls |-> Verdict(coord[c])]
           B == [p \in Orders |-> Book(status[p])]
<1>1. V' = V
  OBVIOUS
<1>2. B' = [B EXCEPT ![o] = Book(s)]
  BY DEF TypeOK
<1>3. o \in Outcome!OutcomeOrders /\ V[o[1]] = "open"
  BY OrderPairs DEF Outcome!OutcomeOrders, Orders, Call
<1>4. CASE Book(status[o]) = "idle" /\ Book(s) = "live"
  <2>1. Outcome!GoLive(o)
    BY <1>1, <1>2, <1>3, <1>4 DEF Outcome!GoLive
  <2> QED
    BY <2>1, <1>3 DEF Outcome!Next
<1>5. CASE Book(s) = "dead" /\ Book(status[o]) # "dead"
  <2>1. Outcome!Die(o)
    BY <1>1, <1>2, <1>3, <1>5 DEF Outcome!Die
  <2> QED
    BY <2>1, <1>3 DEF Outcome!Next
<1>6. CASE Book(s) = "dead" /\ Book(status[o]) = "dead"
  BY <1>1, <1>2, <1>6 DEF Outcome!vars
<1> QED
  BY <1>4, <1>5, <1>6

LEMMA OutcomeStep == IInv /\ [Next]_vars => [Outcome!Next]_(Outcome!vars)
<1> SUFFICES ASSUME IInv, [Next]_vars PROVE Outcome!Next \/ UNCHANGED Outcome!vars
  OBVIOUS
<1>t. TypeOK
  BY DEF IInv
<1>l. ASSUME NEW p \in Orders PROVE LegInv(p) /\ CallInv(Call(p)) /\ Call(p) \in Calls
  BY OrderPairs DEF IInv
<1> USE DEF orderVars
<1>1. ASSUME NEW c \in Calls, CoordStep(c)
      PROVE  Outcome!Next \/ UNCHANGED Outcome!vars
  <2>o. \A o \in Outcome!LegsOf(c) : o \in Orders /\ Call(o) = c
    BY OrderPairs DEF Outcome!LegsOf, Orders, Call
  <2>s. ASSUME UNCHANGED status, NEW pc, coord' = [coord EXCEPT ![c] = pc],
               Verdict(coord[c]) = "open", Verdict(pc) = "open"
        PROVE  UNCHANGED Outcome!vars
    BY <2>s, <1>t, OutcomeStutters DEF TypeOK
  <2>1. CASE Refuse(c)
    <3>1. Outcome!Report(c, "refused")
      BY <2>1, <1>t, OutcomeReports DEF Refuse, Verdict
    <3>2. \A o \in Outcome!LegsOf(c) : Book(status[o]) = "idle"
      BY <2>1, <2>o, <1>l DEF Refuse, LegInv, Book
    <3> QED
      BY <3>1, <3>2, <2>o DEF Outcome!Next, Outcome!Refuse
  <2>2. CASE Create(c)
    BY <2>2, <2>s DEF Create, Verdict
  <2>3. CASE Restore(c)
    <3>1. \A o \in Orders : Book(status'[o]) = Book(status[o])
      BY <2>3, <1>l DEF Restore, LegInv, Book
    <3>2. \A d \in Calls : Verdict(coord'[d]) = Verdict(coord[d])
      BY <2>3, <1>t DEF Restore, Verdict, TypeOK
    <3> QED
      BY <3>1, <3>2, OutcomeStutters
  <2>4. CASE Launch(c)
    BY <2>4, <2>s DEF Launch, Verdict
  <2>5. CASE LaunchFails(c)
    <3>1. Outcome!Report(c, "refused")
      BY <2>5, <1>t, OutcomeReports DEF LaunchFails, Verdict
    <3>2. \A o \in Outcome!LegsOf(c) : Book(status[o]) = "idle"
      BY <2>5, <2>o, <1>l DEF LaunchFails, LegInv, Book
    <3> QED
      BY <3>1, <3>2, <2>o DEF Outcome!Next, Outcome!Refuse
  <2>6. ASSUME NEW l \in Legs, FirstSucceeds(c, l) \/ FirstFails(c, l)
        PROVE  UNCHANGED Outcome!vars
    BY <2>6, <2>s DEF FirstSucceeds, FirstFails, Verdict
  <2>7. CASE SecondSucceeds(c)
    <3>1. Outcome!Report(c, "completed")
      BY <2>7, <1>t, OutcomeReports DEF SecondSucceeds, Verdict
    <3>2. ASSUME NEW o \in Orders, Call(o) = c PROVE Book(status[o]) = "live"
      <4>1. leg[o] = "done" /\ Succeeded(o) /\ ~Hit(o)
        BY <2>7, <3>2, <1>l, <1>t, KeptOrFailed
           DEF SecondSucceeds, CallInv, Hit, AfterCancel, Kept, Failed
      <4> QED
        BY <4>1, <1>l DEF LegInv, LegUntouched, Succeeded, Acked, Book, Absent
    <3> QED
      BY <3>1, <3>2, <2>o DEF Outcome!Next, Outcome!Complete
  <2>8. CASE SecondFails(c)
    BY <2>8, <2>s DEF SecondFails, Verdict
  <2>9. CASE ReadTarget(c)
    BY <2>9, <2>s DEF ReadTarget, Verdict
  <2>10. CASE CancelTarget(c)
    <3>1. Kept(c) \in Orders /\ Call(Kept(c)) = c
      BY <1>t, KeptOrFailed
    <3>2. status' = [status EXCEPT ![Kept(c)] = "Canceled"]
      BY <2>10 DEF CancelTarget, MoveOrder, Leads, Kept, Status
    <3>3. \A d \in Calls : Verdict(coord'[d]) = Verdict(coord[d])
      BY <2>10, <1>t DEF CancelTarget, Verdict, TypeOK
    <3>4. Verdict(coord[c]) = "open" /\ Book("Canceled") = "dead"
      BY <2>10 DEF CancelTarget, Verdict, Book, Absent
    <3> QED
      BY <3>1, <3>2, <3>3, <3>4, <1>t, OutcomeMoves
  <2>11. CASE QueueCancel(c)
    BY <2>11, <2>s DEF QueueCancel, QueueTransition, Verdict
  <2>12. CASE CancelAtVenue(c)
    BY <2>12, <2>s DEF CancelAtVenue, Verdict
  <2>13. CASE MarkFailed(c)
    <3>1. Outcome!Report(c, "failed")
      BY <2>13, <1>t, OutcomeReports DEF MarkFailed, Verdict
    <3>2. ASSUME NEW o \in Orders, Call(o) = c PROVE Book(status[o]) # "live"
      BY <2>13, <3>2, RolledBack DEF MarkFailed, AfterCancel, Book
    <3> QED
      BY <3>1, <3>2, <2>o DEF Outcome!Next, Outcome!Fail
  <2> QED
    BY <1>1, <2>1, <2>2, <2>3, <2>4, <2>5, <2>6, <2>7, <2>8, <2>9, <2>10, <2>11, <2>12,
       <2>13 DEF CoordStep
<1>2. ASSUME NEW o \in Orders, LegStep(o)
      PROVE  Outcome!Next \/ UNCHANGED Outcome!vars
  <2>1. UNCHANGED coord
    BY <1>2 DEF LegStep, VenueReplies, SubmitFails, RouteAck, ApplyReply, ReplyRefused,
                QueueReply, NotifyCoordinator, Conclude, DropLeg, coordVars
  <2>2. CASE ApplyReply(o)
    <3>1. PICK s \in Leads(reply[o]) : status' = [status EXCEPT ![o] = s]
      BY <2>2 DEF ApplyReply, MoveOrder
    <3>2. reply[o] \in {"ack", "fill", "reject", "err", "none"}
      BY <1>t, ConstantsAssumption DEF TypeOK
    <3>3. Accepts(status[o], reply[o]) /\ leg[o] = "applying"
      BY <2>2 DEF ApplyReply, MoveOrder
    <3>4. CASE Hit(o)
      <4>1. status[o] \in {"Canceled", "Rejected"} /\ s = "Rejected"
        BY <3>1, <3>2, <3>3, <3>4, <1>l DEF LegInv, Accepts, Leads
      <4>2. \A p \in Orders : Book(status'[p]) = Book(status[p])
        BY <3>1, <4>1, <1>t DEF Book, TypeOK, Absent
      <4> QED
        BY <2>1, <4>2, OutcomeStutters
    <3>5. CASE ~Hit(o)
      <4>1. status[o] = "Pending" /\ s \in {"Submitted", "Rejected"}
        BY <3>1, <3>2, <3>3, <3>5, <1>l DEF LegInv, LegUntouched, Unanswered, Accepts, Leads
      <4>2. Verdict(coord[Call(o)]) = "open"
        <5>1. coord[Call(o)] \notin {"invalid", "unroutable"}
          BY <3>3, <1>l DEF LegInv, NotLaunched
        <5>2. coord[Call(o)] # "completed"
          BY <3>3, <1>l, OrderPairs DEF CallInv
        <5>3. coord[Call(o)] # "failed"
          BY <3>3, <3>5, <1>l, <1>t, KeptOrFailed DEF CallInv, RollingBack, AfterCancel, Hit
        <5> QED
          BY <5>1, <5>2, <5>3 DEF Verdict
      <4> QED
        BY <3>1, <4>1, <4>2, <2>1, <1>t, OutcomeMoves DEF Book, Absent
    <3> QED
      BY <3>4, <3>5
  <2>3. CASE ~ApplyReply(o)
    <3>1. UNCHANGED status
      BY <1>2, <2>3 DEF LegStep, VenueReplies, SubmitFails, RouteAck, ReplyRefused,
                QueueReply, QueueTransition, NotifyCoordinator, Conclude, DropLeg
    <3> QED
      BY <2>1, <3>1, OutcomeStutters
  <2> QED
    BY <2>2, <2>3
<1>3. ASSUME NEW o \in Orders, WriteStep(o) PROVE UNCHANGED Outcome!vars
  BY <1>3, OutcomeStutters DEF WriteStep, WriteFails, WriteSucceeds, coordVars
<1>4. CASE UNCHANGED vars
  BY <1>4, OutcomeStutters DEF vars, coordVars
<1> QED
  BY <1>1, <1>2, <1>3, <1>4 DEF Next

\* The coordinator, with its tasks, its races and its aborts, implements the
\* abstract execution: all legs live or none, and a verdict nothing undoes.
THEOREM CoordinatorImplementsOutcome == Spec => ImplementsOutcome
BY OutcomeInit, OutcomeStep, IInvInvariant, PTL DEF Spec, ImplementsOutcome, Outcome!Spec

=============================================================================
