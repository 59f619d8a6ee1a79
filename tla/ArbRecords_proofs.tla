------------------------- MODULE ArbRecords_proofs --------------------------
(***************************************************************************)
(* Proofs about what ArbExecution records elsewhere: the transitions       *)
(* handed to the writer, the router's answers and the execution records.   *)
(* They rest on IInv, the invariant of ArbExecution_proofs.                *)
(***************************************************************************)
EXTENDS ArbExecution_proofs

-----------------------------------------------------------------------------
(***************************************************************************)
(* The order's guard, the RefMut held across queue_transition's await, has *)
(* one holder: the leg's task or the coordinator.                          *)
(***************************************************************************)
LegHolds(o)   == leg[o] = "queueing"
CoordHolds(o) == coord[Call(o)] = "queueing" /\ target[Call(o)] = Leg(o)

OneHolder(o) ==
  /\ ~(LegHolds(o) /\ CoordHolds(o))
  /\ moving[o] # Idle <=> LegHolds(o) \/ CoordHolds(o)

\* Transitions s are the history of an order with status st, up to transition m
\* that is being handed over.
RecordedAs(s, st, m) ==
  /\ Linked(s)
  /\ m = Idle => Replay(s) = st
  /\ m # Idle => m.from = Replay(s) /\ m.to = st

Recorded(o) == RecordedAs(log[o], status[o], moving[o])

\* The reply's transition went with the order's task: it comes before all others,
\* or after the cancel, to which nothing is added any more.
Lost(o) ==
  /\ leg[o] = "dropped"
  /\ \E t \in Transition :
       /\ t.to \in Leads(reply[o])
       /\ \/ RecordedAs(<<t>> \o log[o], status[o], moving[o])
          \/ /\ RecordedAs(Append(log[o], t), status[o], moving[o])
             /\ Hit(o) /\ moving[o] = Idle

\* Where a leg's task is until its reply's transition is queued.
Early == {"none", "submitting", "routing", "applying", "queueing"}

RecordInv(o) ==
  /\ status[o] = Absent <=> coord[Call(o)] \in {"idle", "creating", "invalid"}
  /\ status[o] = Absent => log[o] = <<>>
  /\ OneHolder(o)
  /\ LegHolds(o) => moving[o].to \in Leads(reply[o])
  /\ leg[o] \in Early /\ ~Hit(o) => log[o] = <<>>
  /\ status[o] # Absent => Recorded(o) \/ Lost(o)

RInv == IInv /\ \A o \in Orders : RecordInv(o)

LEMMA RInvInit == Init => RInv
<1> SUFFICES ASSUME Init PROVE RInv
  OBVIOUS
<1>1. IInv
  BY IInvInit
<1>2. \A o \in Orders : RecordInv(o)
  BY OrderPairs DEF Init, RecordInv, OneHolder, LegHolds, CoordHolds
<1> QED
  BY <1>1, <1>2 DEF RInv

\* A step that leaves an order and the positions of its holders alone.
LEMMA RecordKept ==
  ASSUME NEW o \in Orders, RecordInv(o),
         status'[o] = status[o], moving'[o] = moving[o], log'[o] = log[o],
         LegHolds(o)' <=> LegHolds(o),
         CoordHolds(o)' <=> CoordHolds(o),
         LegHolds(o) \/ leg[o] = "dropped" => reply'[o] = reply[o],
         leg[o] = "dropped" => leg'[o] = "dropped",
         leg'[o] \in Early => leg[o] \in Early,
         Hit(o) => Hit(o)',
         coord'[Call(o)] \in {"idle", "creating", "invalid"}
           <=> coord[Call(o)] \in {"idle", "creating", "invalid"}
  PROVE  RecordInv(o)'
<1>1. OneHolder(o)'
  BY DEF RecordInv, OneHolder
<1>2. Recorded(o) => Recorded(o)'
  BY DEF Recorded
<1>3. Lost(o) => Lost(o)'
  BY DEF Lost
<1> QED
  BY <1>1, <1>2, <1>3 DEF RecordInv, Call

\* An accepted event moves the order, and its transition starts where the history
\* ends.
LEMMA MoveRecorded ==
  ASSUME TypeOK, NEW o \in Orders, status[o] # Absent, NEW kind, MoveOrder(o, kind)
  PROVE  /\ status'[o] # Absent /\ moving'[o] # Idle
         /\ moving[o] = Idle /\ log'[o] = log[o]
         /\ moving'[o].to \in Leads(kind)
         /\ \A s : RecordedAs(s, status[o], moving[o]) => RecordedAs(s, status'[o], moving'[o])
<1>1. PICK s \in Leads(kind) :
        /\ status' = [status EXCEPT ![o] = s]
        /\ moving' = [moving EXCEPT ![o] = [from |-> status[o], to |-> s]]
        /\ log' = log
  BY DEF MoveOrder
<1>2. /\ status'[o] = s /\ s \in Status
      /\ moving'[o] = [from |-> status[o], to |-> s]
  BY <1>1 DEF TypeOK, Leads
<1>3. status'[o] # Absent /\ moving'[o] # Idle
  BY <1>2 DEF Status, Absent, Idle
<1>4. moving[o] = Idle
  BY DEF MoveOrder, Unguarded
<1> QED
  BY <1>1, <1>2, <1>3, <1>4 DEF RecordedAs

\* The queued transition extends the history by one link.
LEMMA QueueRecorded ==
  ASSUME NEW s \in Seq(Transition), NEW m \in Transition, NEW st, m # Idle,
         RecordedAs(s, st, m)
  PROVE  RecordedAs(Append(s, m), st, Idle)
<1>1. Linked(s) /\ m.from = Replay(s) /\ m.to = st
  BY DEF RecordedAs
<1>2. /\ Len(Append(s, m)) = Len(s) + 1
      /\ \A n \in 1..Len(s) : Append(s, m)[n] = s[n]
      /\ Append(s, m)[Len(s) + 1] = m
      /\ Len(s) \in Nat
  OBVIOUS
<1>3. Linked(Append(s, m))
  <2>1. CASE s = <<>>
    BY <1>1, <1>2, <2>1 DEF Linked, Replay
  <2>2. CASE s # <<>>
    <3>1. Len(s) > 0 /\ s[1].from = "Pending" /\ m.from = s[Len(s)].to
      BY <1>1, <2>2 DEF Linked, Replay
    <3> QED
      BY <1>1, <1>2, <3>1 DEF Linked
  <2> QED
    BY <2>1, <2>2
<1>4. Replay(Append(s, m)) = m.to
  BY <1>2 DEF Replay
<1> QED
  BY <1>1, <1>3, <1>4 DEF RecordedAs

\* One transition in front and one behind.
LEMMA FrontAndBack ==
  ASSUME NEW s \in Seq(Transition), NEW t \in Transition, NEW m \in Transition
  PROVE  Append(<<t>> \o s, m) = <<t>> \o Append(s, m)
OBVIOUS

\* A task that runs has its order in the cache.
LEMMA RunningIsCached ==
  ASSUME RInv, NEW o \in Orders, leg[o] # "none"
  PROVE  status[o] # Absent
BY DEF RInv, IInv, LegInv, NotLaunched, RecordInv

\* The steps of the coordinator that feed no event to an order.
CoordQuietly(c) ==
  \/ Refuse(c) \/ Create(c) \/ Launch(c) \/ LaunchFails(c)
  \/ \E l \in Legs : FirstSucceeds(c, l) \/ FirstFails(c, l)
  \/ SecondSucceeds(c) \/ SecondFails(c) \/ ReadTarget(c) \/ CancelAtVenue(c) \/ MarkFailed(c)

LEMMA CoordQuietlyRecords ==
  ASSUME RInv, NEW c \in Calls, CoordQuietly(c), NEW o \in Orders
  PROVE  RecordInv(o)'
<1>t. TypeOK /\ RecordInv(o) /\ LegInv(o) /\ Call(o) \in Calls
  BY OrderPairs DEF RInv, IInv
<1>1. status' = status /\ moving' = moving /\ log' = log /\ reply' = reply
  BY <1>t DEF CoordQuietly, Refuse, Create, Launch, LaunchFails, FirstSucceeds, FirstFails,
         SecondSucceeds, SecondFails, ReadTarget, CancelAtVenue, MarkFailed, orderVars, legVars
<1>2. /\ LegHolds(o)' <=> LegHolds(o)
      /\ leg[o] = "dropped" => leg'[o] = "dropped"
      /\ leg'[o] \in Early => leg[o] \in Early
  <2>1. CASE Launch(c)
    <3>1. Call(o) = c => leg[o] = "none"
      BY <1>t, <2>1 DEF Launch, LegInv, NotLaunched
    <3> QED
      BY <1>t, <2>1, <3>1 DEF Launch, LegHolds, Early, TypeOK
  <2>2. CASE ~Launch(c)
    BY <2>2 DEF CoordQuietly, Refuse, Create, LaunchFails, FirstSucceeds, FirstFails,
         SecondSucceeds, SecondFails, ReadTarget, CancelAtVenue, MarkFailed, legVars, LegHolds
  <2> QED
    BY <2>1, <2>2
<1>3. /\ coord'[Call(o)] = "queueing" <=> coord[Call(o)] = "queueing"
      /\ coord[Call(o)] = "queueing" => target'[Call(o)] = target[Call(o)]
      /\ coord'[Call(o)] \in {"idle", "creating", "invalid"}
           <=> coord[Call(o)] \in {"idle", "creating", "invalid"}
  <2>1. PICK s : /\ coord' = [coord EXCEPT ![c] = s]
                 /\ s # "queueing" /\ coord[c] # "queueing"
                 /\ s \in {"idle", "creating", "invalid"}
                      <=> coord[c] \in {"idle", "creating", "invalid"}
    BY DEF CoordQuietly, Refuse, Create, Launch, LaunchFails, FirstSucceeds, FirstFails,
         SecondSucceeds, SecondFails, ReadTarget, CancelAtVenue, MarkFailed
  <2>2. Call(o) # c => target'[Call(o)] = target[Call(o)]
    BY <1>t DEF CoordQuietly, Refuse, Create, Launch, LaunchFails, FirstSucceeds, FirstFails,
         SecondSucceeds, SecondFails, ReadTarget, CancelAtVenue, MarkFailed, TypeOK
  <2> QED
    BY <1>t, <2>1, <2>2 DEF TypeOK
<1>4. CoordHolds(o)' <=> CoordHolds(o)
  BY <1>3 DEF CoordHolds, Call, Leg
<1>5. Hit(o) => Hit(o)'
  <2>1. Call(o) # c => coord'[Call(o)] = coord[Call(o)] /\ target'[Call(o)] = target[Call(o)]
    BY <1>t DEF CoordQuietly, Refuse, Create, Launch, LaunchFails, FirstSucceeds, FirstFails,
         SecondSucceeds, SecondFails, ReadTarget, CancelAtVenue, MarkFailed, TypeOK
  <2>2. coord[c] \in AfterCancel => coord'[c] \in AfterCancel /\ target'[c] = target[c]
    BY <1>t DEF CoordQuietly, Refuse, Create, Launch, LaunchFails, FirstSucceeds, FirstFails,
         SecondSucceeds, SecondFails, ReadTarget, CancelAtVenue, MarkFailed, TypeOK,
         AfterCancel
  <2> QED
    BY <2>1, <2>2 DEF Hit, Call, Leg
<1> QED
  BY <1>t, <1>1, <1>2, <1>3, <1>4, <1>5, RecordKept

\* restore_order puts both orders in the cache, with nothing to replay.
LEMMA RestoreRecords ==
  ASSUME RInv, NEW c \in Calls, Restore(c), NEW o \in Orders
  PROVE  RecordInv(o)'
<1>t. TypeOK /\ RecordInv(o) /\ LegInv(o) /\ Call(o) \in Calls
  BY OrderPairs DEF RInv, IInv
<1>1. /\ status' = [p \in Orders |-> IF Call(p) = c THEN "Pending" ELSE status[p]]
      /\ coord[c] = "creating" /\ coord' = [coord EXCEPT ![c] = "restored"]
      /\ UNCHANGED <<moving, log, leg, reply, target>>
  BY DEF Restore, legVars
<1>2. CASE Call(o) = c
  <2>1. coord'[Call(o)] = "restored" /\ status'[o] = "Pending"
    BY <1>t, <1>1, <1>2 DEF TypeOK
  <2>2. leg[o] = "none" /\ moving[o] = Idle /\ log[o] = <<>>
    BY <1>t, <1>1, <1>2 DEF LegInv, NotLaunched, RecordInv, OneHolder, LegHolds, CoordHolds
  <2>3. OneHolder(o)'
    BY <1>1, <2>1, <2>2 DEF OneHolder, LegHolds, CoordHolds, Call
  <2>4. Recorded(o)'
    BY <1>1, <2>1, <2>2 DEF Recorded, RecordedAs, Linked, Replay
  <2> QED
    BY <1>1, <2>1, <2>2, <2>3, <2>4 DEF RecordInv, Absent, Call, LegHolds
<1>3. CASE Call(o) # c
  <2>1. coord'[Call(o)] = coord[Call(o)] /\ status'[o] = status[o]
    BY <1>t, <1>1, <1>3 DEF TypeOK
  <2>2. /\ (LegHolds(o)' <=> LegHolds(o)) /\ (CoordHolds(o)' <=> CoordHolds(o))
        /\ Hit(o) => Hit(o)'
    BY <1>1, <2>1 DEF LegHolds, CoordHolds, Hit, Call, Leg
  <2> QED
    BY <1>t, <1>1, <2>1, <2>2, RecordKept
<1> QED
  BY <1>2, <1>3

\* cancel_order's event: the coordinator takes the order's guard.
LEMMA CancelRecords ==
  ASSUME RInv, NEW c \in Calls, CancelTarget(c), NEW o \in Orders
  PROVE  RecordInv(o)'
<1> DEFINE k == <<c, target[c]>>
<1>t. TypeOK /\ RecordInv(o) /\ LegInv(o) /\ Call(o) \in Calls /\ target[c] \in Legs
  BY OrderPairs DEF RInv, IInv, TypeOK
<1>1. /\ coord[c] = "canceling" /\ coord' = [coord EXCEPT ![c] = "queueing"]
      /\ MoveOrder(k, "cancel")
      /\ UNCHANGED <<leg, reply, target>>
  BY DEF CancelTarget, legVars
<1>k. k \in Orders /\ Call(k) = c /\ Leg(k) = target[c]
  BY <1>t, OrderPairs
<1>2. CASE o = k
  <2>1. status[o] # Absent
    BY <1>t, <1>1, <1>2, <1>k DEF RecordInv
  <2>2. /\ status'[o] # Absent /\ moving'[o] # Idle
        /\ moving[o] = Idle /\ log'[o] = log[o]
        /\ \A s : RecordedAs(s, status[o], moving[o]) => RecordedAs(s, status'[o], moving'[o])
    BY <1>t, <1>1, <1>2, <1>k, <2>1, MoveRecorded
  <2>3. coord'[Call(o)] = "queueing" /\ Call(o) = c /\ ~Hit(o) /\ Hit(o)'
    BY <1>t, <1>1, <1>2, <1>k DEF TypeOK, Hit, AfterCancel, Call, Leg
  <2>4. ~LegHolds(o)' /\ CoordHolds(o)'
    BY <1>t, <1>1, <1>2, <1>k, <2>2, <2>3 DEF RecordInv, OneHolder, LegHolds, CoordHolds
  <2>5. OneHolder(o)'
    BY <2>2, <2>4 DEF OneHolder
  <2>6. Recorded(o) => Recorded(o)'
    BY <2>2 DEF Recorded
  <2>7. Lost(o) => Lost(o)'
    BY <1>1, <2>2, <2>3 DEF Lost
  <2> QED
    BY <1>t, <2>1, <2>2, <2>3, <2>4, <2>5, <2>6, <2>7 DEF RecordInv, Call
<1>3. CASE o # k
  <2>1. status'[o] = status[o] /\ moving'[o] = moving[o] /\ log'[o] = log[o]
    BY <1>t, <1>1, <1>3 DEF MoveOrder, TypeOK
  <2>2. LegHolds(o)' <=> LegHolds(o)
    BY <1>1 DEF LegHolds
  <2>3. Call(o) = c => Leg(o) # target[c]
    BY <1>3, OrderPairs
  <2>4. CoordHolds(o)' <=> CoordHolds(o)
    BY <1>t, <1>1, <2>3 DEF CoordHolds, Call, Leg, TypeOK
  <2>5. coord'[Call(o)] \in {"idle", "creating", "invalid"}
          <=> coord[Call(o)] \in {"idle", "creating", "invalid"}
    BY <1>t, <1>1 DEF TypeOK
  <2>6. Hit(o) => Hit(o)'
    BY <1>t, <1>1 DEF Hit, AfterCancel, Call, Leg, TypeOK
  <2> QED
    BY <1>t, <1>1, <2>1, <2>2, <2>4, <2>5, <2>6, RecordKept
<1> QED
  BY <1>2, <1>3

\* ... and lets it go when the transition is queued.
LEMMA QueueCancelRecords ==
  ASSUME RInv, NEW c \in Calls, QueueCancel(c), NEW o \in Orders
  PROVE  RecordInv(o)'
<1> DEFINE k == <<c, target[c]>>
<1>t. TypeOK /\ RecordInv(o) /\ LegInv(o) /\ Call(o) \in Calls /\ target[c] \in Legs
  BY OrderPairs DEF RInv, IInv, TypeOK
<1>1. /\ coord[c] = "queueing"
      /\ \E s \in {"venue", "marking"} : coord' = [coord EXCEPT ![c] = s]
      /\ QueueTransition(k)
      /\ UNCHANGED <<leg, reply, target>>
  BY DEF QueueCancel, legVars
<1>k. k \in Orders /\ Call(k) = c /\ Leg(k) = target[c]
  BY <1>t, OrderPairs
<1>c. coord'[c] \in {"venue", "marking"} /\ \A d \in Calls : d # c => coord'[d] = coord[d]
  BY <1>t, <1>1 DEF TypeOK
<1>2. CASE o = k
  <2>1. status[o] # Absent /\ CoordHolds(o)
    BY <1>t, <1>1, <1>2, <1>k DEF RecordInv, CoordHolds
  <2>2. moving[o] # Idle /\ ~LegHolds(o)
    BY <1>t, <2>1 DEF RecordInv, OneHolder
  <2>3. /\ moving'[o] = Idle /\ status'[o] = status[o]
        /\ log'[o] = Append(log[o], moving[o])
        /\ log[o] \in Seq(Transition) /\ moving[o] \in Transition
    BY <1>t, <1>1, <1>2, <1>k DEF QueueTransition, TypeOK
  <2>4. Recorded(o) => Recorded(o)'
    BY <2>2, <2>3, QueueRecorded DEF Recorded
  <2>5. ~LegHolds(o)' /\ ~CoordHolds(o)'
    BY <1>1, <1>2, <1>k, <1>c, <2>2 DEF LegHolds, CoordHolds, Call
  <2>6. OneHolder(o)'
    BY <2>3, <2>5 DEF OneHolder
  <2>7. Hit(o)'
    BY <1>1, <1>2, <1>k, <1>c DEF Hit, AfterCancel, Call, Leg
  <2>8. Lost(o) => Lost(o)'
    <3> SUFFICES ASSUME Lost(o) PROVE Lost(o)'
      OBVIOUS
    <3>1. PICK t \in Transition :
            /\ t.to \in Leads(reply[o])
            /\ RecordedAs(<<t>> \o log[o], status[o], moving[o])
      BY <2>2 DEF Lost
    <3>2. <<t>> \o log[o] \in Seq(Transition)
      BY <2>3
    <3>3. RecordedAs(Append(<<t>> \o log[o], moving[o]), status[o], Idle)
      BY <2>2, <2>3, <3>1, <3>2, QueueRecorded
    <3>4. RecordedAs(<<t>> \o log'[o], status'[o], moving'[o])
      BY <2>3, <3>3, FrontAndBack
    <3> QED
      BY <1>1, <3>1, <3>4 DEF Lost
  <2> QED
    BY <1>t, <1>2, <1>k, <1>c, <2>1, <2>3, <2>4, <2>5, <2>6, <2>7, <2>8 DEF RecordInv, Call
<1>3. CASE o # k
  <2>1. status'[o] = status[o] /\ moving'[o] = moving[o] /\ log'[o] = log[o]
    BY <1>t, <1>1, <1>3 DEF QueueTransition, TypeOK
  <2>2. LegHolds(o)' <=> LegHolds(o)
    BY <1>1 DEF LegHolds
  <2>3. Call(o) = c => Leg(o) # target[c]
    BY <1>3, OrderPairs
  <2>4. CoordHolds(o)' <=> CoordHolds(o)
    BY <1>t, <1>1, <1>c, <2>3 DEF CoordHolds, Call, Leg
  <2>5. coord'[Call(o)] \in {"idle", "creating", "invalid"}
          <=> coord[Call(o)] \in {"idle", "creating", "invalid"}
    BY <1>t, <1>1, <1>c
  <2>6. Hit(o) => Hit(o)'
    BY <1>t, <1>1, <1>c DEF Hit, AfterCancel, Call, Leg
  <2> QED
    BY <1>t, <1>1, <2>1, <2>2, <2>4, <2>5, <2>6, RecordKept
<1> QED
  BY <1>2, <1>3

\* The steps of a leg's task that feed its order nothing and hold no guard.
LegQuietly(p) ==
  \/ \E r \in Replies : VenueReplies(p, r)
  \/ SubmitFails(p) \/ RouteAck(p) \/ ReplyRefused(p) \/ NotifyCoordinator(p) \/ Conclude(p)

LEMMA LegQuietlyRecords ==
  ASSUME RInv, NEW p \in Orders, LegQuietly(p), NEW o \in Orders
  PROVE  RecordInv(o)'
<1>t. TypeOK /\ RecordInv(o)
  BY DEF RInv, IInv
<1>1. UNCHANGED <<status, moving, log, coord, target>>
  BY DEF LegQuietly, VenueReplies, SubmitFails, RouteAck, ReplyRefused, NotifyCoordinator,
         Conclude, orderVars, coordVars
<1>2. /\ LegHolds(o)' <=> LegHolds(o)
      /\ LegHolds(o) \/ leg[o] = "dropped" => reply'[o] = reply[o]
      /\ leg[o] = "dropped" => leg'[o] = "dropped"
      /\ leg'[o] \in Early => leg[o] \in Early
  BY <1>t DEF LegQuietly, VenueReplies, SubmitFails, RouteAck, ReplyRefused, NotifyCoordinator,
         Conclude, LegHolds, Early, TypeOK
<1>3. (CoordHolds(o)' <=> CoordHolds(o)) /\ (Hit(o) => Hit(o)')
  BY <1>1 DEF CoordHolds, Hit
<1> QED
  BY <1>t, <1>1, <1>2, <1>3, RecordKept

\* A step of another order's task.
LEMMA OtherLegRecords ==
  ASSUME RInv, NEW p \in Orders, NEW o \in Orders, o # p,
         status'[o] = status[o], moving'[o] = moving[o], log'[o] = log[o],
         leg'[o] = leg[o], reply'[o] = reply[o], UNCHANGED <<coord, target>>
  PROVE  RecordInv(o)'
<1>1. /\ (LegHolds(o)' <=> LegHolds(o)) /\ (CoordHolds(o)' <=> CoordHolds(o))
      /\ Hit(o) => Hit(o)'
  BY DEF LegHolds, CoordHolds, Hit
<1> QED
  BY <1>1, RecordKept DEF RInv

\* process_event with the venue's answer: the task takes the guard.
LEMMA ApplyRecords ==
  ASSUME RInv, NEW p \in Orders, ApplyReply(p), NEW o \in Orders
  PROVE  RecordInv(o)'
<1>t. TypeOK /\ RecordInv(o)
  BY DEF RInv, IInv
<1>1. /\ leg[p] = "applying" /\ leg' = [leg EXCEPT ![p] = "queueing"]
      /\ MoveOrder(p, reply[p])
      /\ UNCHANGED <<reply, coord, target>>
  BY DEF ApplyReply, coordVars
<1>2. CASE o = p
  <2>1. status[o] # Absent
    BY <1>1, <1>2, RunningIsCached
  <2>2. /\ status'[o] # Absent /\ moving'[o] # Idle
        /\ moving[o] = Idle /\ log'[o] = log[o]
        /\ moving'[o].to \in Leads(reply[o])
        /\ \A s : RecordedAs(s, status[o], moving[o]) => RecordedAs(s, status'[o], moving'[o])
    BY <1>t, <1>1, <1>2, <2>1, MoveRecorded
  <2>3. LegHolds(o)' /\ ~CoordHolds(o)'
    BY <1>t, <1>1, <1>2, <2>2 DEF RecordInv, OneHolder, LegHolds, CoordHolds, TypeOK
  <2>4. OneHolder(o)'
    BY <2>2, <2>3 DEF OneHolder
  <2>5. Recorded(o)'
    <3>1. Recorded(o)
      BY <1>t, <1>1, <1>2, <2>1 DEF RecordInv, Lost
    <3> QED
      BY <2>2, <3>1 DEF Recorded
  <2>6. ~Hit(o)' => log'[o] = <<>>
    BY <1>t, <1>1, <1>2, <2>2 DEF RecordInv, Early, Hit
  <2> QED
    BY <1>t, <1>1, <1>2, <2>1, <2>2, <2>4, <2>5, <2>6 DEF RecordInv
<1>3. CASE o # p
  BY <1>t, <1>1, <1>3, OtherLegRecords DEF MoveOrder, TypeOK
<1> QED
  BY <1>2, <1>3

\* ... and lets it go when the transition is queued.
LEMMA QueueReplyRecords ==
  ASSUME RInv, NEW p \in Orders, QueueReply(p), NEW o \in Orders
  PROVE  RecordInv(o)'
<1>t. TypeOK /\ RecordInv(o)
  BY DEF RInv, IInv
<1>1. /\ leg[p] = "queueing" /\ leg' = [leg EXCEPT ![p] = "notifying"]
      /\ QueueTransition(p)
      /\ UNCHANGED <<reply, coord, target>>
  BY DEF QueueReply, coordVars
<1>2. CASE o = p
  <2>1. status[o] # Absent /\ LegHolds(o)
    BY <1>1, <1>2, RunningIsCached DEF LegHolds
  <2>2. moving[o] # Idle /\ ~CoordHolds(o)
    BY <1>t, <2>1 DEF RecordInv, OneHolder
  <2>3. /\ moving'[o] = Idle /\ status'[o] = status[o]
        /\ log'[o] = Append(log[o], moving[o])
        /\ log[o] \in Seq(Transition) /\ moving[o] \in Transition
    BY <1>t, <1>1, <1>2 DEF QueueTransition, TypeOK
  <2>4. Recorded(o)'
    <3>1. Recorded(o)
      BY <1>t, <2>1 DEF RecordInv, Lost, LegHolds
    <3> QED
      BY <2>2, <2>3, <3>1, QueueRecorded DEF Recorded
  <2>5. ~LegHolds(o)' /\ ~CoordHolds(o)'
    BY <1>t, <1>1, <1>2, <2>2 DEF LegHolds, CoordHolds, TypeOK
  <2>6. OneHolder(o)'
    BY <2>3, <2>5 DEF OneHolder
  <2>7. leg'[o] \notin Early
    BY <1>t, <1>1, <1>2 DEF Early, TypeOK
  <2> QED
    BY <1>t, <1>1, <2>1, <2>3, <2>4, <2>5, <2>6, <2>7 DEF RecordInv
<1>3. CASE o # p
  BY <1>t, <1>1, <1>3, OtherLegRecords DEF QueueTransition, TypeOK
<1> QED
  BY <1>2, <1>3

\* An aborted task that is dropped lets the guard go; its transition was queued, or
\* is lost.
LEMMA DropRecords ==
  ASSUME RInv, NEW p \in Orders, DropLeg(p), NEW o \in Orders
  PROVE  RecordInv(o)'
<1>t. TypeOK /\ RecordInv(o)
  BY DEF RInv, IInv
<1>1. /\ leg[p] \in {"submitting", "queueing"} /\ leg' = [leg EXCEPT ![p] = "dropped"]
      /\ moving' = [moving EXCEPT ![p] = IF leg[p] = "queueing" THEN Idle ELSE @]
      /\ \/ log' = log
         \/ leg[p] = "queueing" /\ log' = [log EXCEPT ![p] = Append(@, moving[p])]
      /\ UNCHANGED <<status, reply, coord, target>>
  BY DEF DropLeg, coordVars
<1>2. CASE o = p
  <2>1. status[o] # Absent
    BY <1>1, <1>2, RunningIsCached
  <2>2. ~LegHolds(o)' /\ (CoordHolds(o)' <=> CoordHolds(o))
    BY <1>t, <1>1, <1>2 DEF LegHolds, CoordHolds, TypeOK
  <2>3. OneHolder(o)'
    <3>1. CASE leg[p] = "queueing"
      <4>1. moving'[o] = Idle /\ ~CoordHolds(o)
        BY <1>t, <1>1, <1>2, <3>1 DEF RecordInv, OneHolder, LegHolds, TypeOK
      <4> QED
        BY <2>2, <4>1 DEF OneHolder
    <3>2. CASE leg[p] # "queueing"
      <4>1. moving'[o] = moving[o] /\ ~LegHolds(o)
        BY <1>t, <1>1, <1>2, <3>2 DEF LegHolds, TypeOK
      <4> QED
        BY <1>t, <2>2, <4>1 DEF RecordInv, OneHolder
    <3> QED
      BY <3>1, <3>2
  <2>4. Recorded(o)
    BY <1>t, <1>1, <1>2, <2>1 DEF RecordInv, Lost
  <2>5. leg'[o] = "dropped"
    BY <1>t, <1>1, <1>2 DEF TypeOK
  <2>6. Recorded(o)' \/ Lost(o)'
    <3>1. CASE leg[p] = "submitting"
      BY <1>t, <1>1, <1>2, <2>4, <3>1 DEF Recorded, TypeOK
    <3>2. CASE leg[p] = "queueing"
      <4>1. /\ moving[o] # Idle /\ moving[o].to \in Leads(reply[o])
            /\ ~Hit(o) => log[o] = <<>>
        BY <1>t, <1>2, <3>2 DEF RecordInv, OneHolder, LegHolds, Early
      <4>2. /\ log[o] \in Seq(Transition) /\ moving[o] \in Transition
            /\ moving'[o] = Idle /\ status'[o] = status[o] /\ reply'[o] = reply[o]
            /\ log'[o] = log[o] \/ log'[o] = Append(log[o], moving[o])
        BY <1>t, <1>1, <1>2, <3>2 DEF TypeOK
      <4>3. RecordedAs(Append(log[o], moving[o]), status'[o], moving'[o])
        BY <2>4, <4>1, <4>2, QueueRecorded DEF Recorded
      <4>4. CASE log'[o] = Append(log[o], moving[o])
        BY <4>3, <4>4 DEF Recorded
      <4>5. CASE log'[o] = log[o] /\ Hit(o)
        <5>1. Hit(o)'
          BY <1>1, <4>5 DEF Hit, Call, Leg
        <5> QED
          BY <2>5, <4>1, <4>2, <4>3, <4>5, <5>1 DEF Lost
      <4>6. CASE log'[o] = log[o] /\ ~Hit(o)
        <5>1. Append(log[o], moving[o]) = <<moving[o]>> \o log'[o]
          BY <4>1, <4>2, <4>6
        <5> QED
          BY <2>5, <4>1, <4>2, <4>3, <5>1 DEF Lost
      <4> QED
        BY <4>2, <4>4, <4>5, <4>6
    <3> QED
      BY <1>1, <3>1, <3>2
  <2> QED
    BY <1>t, <1>1, <1>2, <2>1, <2>2, <2>3, <2>5, <2>6 DEF RecordInv, Early
<1>3. CASE o # p
  BY <1>t, <1>1, <1>3, OtherLegRecords DEF DropLeg, TypeOK
<1> QED
  BY <1>2, <1>3

LEMMA RInvStep == RInv /\ [Next]_vars => RInv'
<1> SUFFICES ASSUME RInv, [Next]_vars, NEW o \in Orders
             PROVE  RecordInv(o)'
  BY IInvStep DEF RInv
<1>1. ASSUME NEW c \in Calls, CoordStep(c)
      PROVE  RecordInv(o)'
  BY <1>1, CoordQuietlyRecords, RestoreRecords, CancelRecords, QueueCancelRecords
     DEF CoordStep, CoordQuietly
<1>2. ASSUME NEW p \in Orders, LegStep(p)
      PROVE  RecordInv(o)'
  BY <1>2, LegQuietlyRecords, ApplyRecords, QueueReplyRecords, DropRecords
     DEF LegStep, LegQuietly
<1>3. ASSUME UNCHANGED <<orderVars, coordVars, legVars>>
      PROVE  RecordInv(o)'
  <2>1. /\ (LegHolds(o)' <=> LegHolds(o)) /\ (CoordHolds(o)' <=> CoordHolds(o))
        /\ Hit(o) => Hit(o)'
    BY <1>3 DEF LegHolds, CoordHolds, Hit, legVars, coordVars
  <2> QED
    BY <1>3, <2>1, RecordKept DEF orderVars, coordVars, legVars, RInv
<1>4. ASSUME NEW p \in Orders, WriteStep(p)
      PROVE  UNCHANGED <<orderVars, coordVars, legVars>>
  BY <1>4 DEF WriteStep, WriteFails, WriteSucceeds
<1> QED
  BY <1>1, <1>2, <1>3, <1>4 DEF Next, vars

LEMMA RInvInvariant == Spec => []RInv
BY RInvInit, RInvStep, PTL DEF Spec

\* machine.rs:188: process_event awaits queue_transition after it has moved the
\* order.  Replaying what the writer was handed gives the cached status, if need
\* be with the one transition that an abort at that await took along.
THEOREM RecordsReplay == Spec => []LogReplays
<1>1. RInv => LogReplays
  BY DEF RInv, RecordInv, Recorded, RecordedAs, Lost, LogReplays, Tells, Unguarded
<1> QED
  BY <1>1, RInvInvariant, PTL

-----------------------------------------------------------------------------
(***************************************************************************)
(* The router.  Calls of one intent share their client ids, and the last   *)
(* one registered gets the venue's id of the others: the router's answers  *)
(* need calls of different intents.                                        *)
(***************************************************************************)
DistinctIntents == \A c, d \in Calls : c # d => IntentOf[c] # IntentOf[d]

\* The client id names the order once it is registered, the venue's id from the
\* moment the ACK is routed, before it is applied.
Routed(o) ==
  /\ coord[Call(o)] \notin {"idle", "invalid"} => clientMap[ClientId(o)] = o
  /\ leg[o] = "applying" /\ reply[o] = "ack" => venueMap[o] = o
  /\ acked[o] => venueMap[o] = o

RoutedInv == IInv /\ \A o \in Orders : Routed(o)

LEMMA ClientIds ==
  /\ \A o \in Orders : /\ ClientId(o) \in Intents \X Legs
                       /\ ClientId(o)[1] = IntentOf[Call(o)] /\ ClientId(o)[2] = Leg(o)
  /\ \A c \in Calls : IntentOf[c] \in Intents
BY OrderPairs, ConstantsAssumption DEF ClientId

LEMMA CoordRoutes ==
  ASSUME DistinctIntents, RoutedInv, NEW c \in Calls, CoordStep(c), NEW o \in Orders
  PROVE  Routed(o)'
<1>t. TypeOK /\ Routed(o) /\ LegInv(o) /\ Call(o) \in Calls
  BY OrderPairs DEF RoutedInv, IInv
<1>1. venueMap' = venueMap /\ reply' = reply
  BY DEF CoordStep, Refuse, Create, Restore, Launch, LaunchFails, FirstSucceeds, FirstFails,
         SecondSucceeds, SecondFails, ReadTarget, CancelTarget, QueueCancel, CancelAtVenue,
         MarkFailed, routerVars, legVars
<1>a. acked'[o] => acked[o]
  <2>1. CASE CancelTarget(c)
    <3>1. acked' = [acked EXCEPT ![<<c, target[c]>>] = @ \/ "cancel" = "ack"]
      BY <2>1 DEF CancelTarget, MoveOrder
    <3>2. "cancel" # "ack"
      OBVIOUS
    <3> QED
      BY <1>t, <3>1, <3>2 DEF TypeOK
  <2>2. CASE ~CancelTarget(c)
    BY <2>2 DEF CoordStep, Refuse, Create, Restore, Launch, LaunchFails, FirstSucceeds,
         FirstFails, SecondSucceeds, SecondFails, ReadTarget, QueueCancel, QueueTransition,
         CancelAtVenue, MarkFailed, orderVars
  <2> QED
    BY <2>1, <2>2
<1>2. leg'[o] = "applying" => leg[o] = "applying"
  BY <1>t DEF CoordStep, Refuse, Create, Restore, Launch, LaunchFails, FirstSucceeds, FirstFails,
         SecondSucceeds, SecondFails, ReadTarget, CancelTarget, QueueCancel, CancelAtVenue,
         MarkFailed, legVars, TypeOK
<1>3. coord'[Call(o)] \notin {"idle", "invalid"} => clientMap'[ClientId(o)] = o
  <2>1. CASE Create(c)
    <3>1. clientMap'[ClientId(o)] = IF IntentOf[Call(o)] = IntentOf[c] THEN <<c, Leg(o)>>
                                    ELSE clientMap[ClientId(o)]
      BY <2>1, ClientIds DEF Create
    <3>2. CASE Call(o) = c
      BY <3>1, <3>2, OrderPairs
    <3>3. CASE Call(o) # c
      <4>1. coord'[Call(o)] = coord[Call(o)]
        BY <1>t, <2>1, <3>3 DEF Create, TypeOK
      <4> QED
        BY <1>t, <3>1, <3>3, <4>1 DEF DistinctIntents, Routed
    <3> QED
      BY <3>2, <3>3
  <2>2. CASE ~Create(c)
    <3>1. clientMap' = clientMap
      BY <2>2 DEF CoordStep, Refuse, Restore, Launch, LaunchFails, FirstSucceeds, FirstFails,
         SecondSucceeds, SecondFails, ReadTarget, CancelTarget, QueueCancel, CancelAtVenue,
         MarkFailed, routerVars
    <3>2. coord'[Call(o)] \notin {"idle", "invalid"} => coord[Call(o)] \notin {"idle", "invalid"}
      BY <1>t, <2>2 DEF CoordStep, Refuse, Restore, Launch, LaunchFails, FirstSucceeds, FirstFails,
         SecondSucceeds, SecondFails, ReadTarget, CancelTarget, QueueCancel, CancelAtVenue,
         MarkFailed, TypeOK
    <3> QED
      BY <1>t, <3>1, <3>2 DEF Routed
  <2> QED
    BY <2>1, <2>2
<1> QED
  BY <1>t, <1>1, <1>a, <1>2, <1>3 DEF Routed, ClientId, Call, Leg

LEMMA LegRoutes ==
  ASSUME RoutedInv, NEW p \in Orders, LegStep(p), NEW o \in Orders
  PROVE  Routed(o)'
<1>t. TypeOK /\ Routed(o) /\ LegInv(o) /\ Routed(p) /\ LegInv(p)
  BY DEF RoutedInv, IInv
<1>1. clientMap' = clientMap /\ coord' = coord
  BY DEF LegStep, VenueReplies, SubmitFails, RouteAck, ApplyReply, ReplyRefused, QueueReply,
         NotifyCoordinator, Conclude, DropLeg, routerVars, coordVars
<1>2. venueMap'[o] = venueMap[o] \/ venueMap'[o] = o
  <2>1. CASE RouteAck(p)
    <3>1. coord[Call(p)] \notin {"idle", "invalid"} /\ venueMap' = [venueMap EXCEPT ![p] = p]
      BY <1>t, <2>1 DEF RouteAck, LegInv, NotLaunched, Routed
    <3> QED
      BY <1>t, <3>1 DEF TypeOK
  <2>2. CASE ~RouteAck(p)
    BY <2>2 DEF LegStep, VenueReplies, SubmitFails, ApplyReply, ReplyRefused, QueueReply,
         NotifyCoordinator, Conclude, DropLeg, routerVars
  <2> QED
    BY <2>1, <2>2
<1>3. leg'[o] = "applying" /\ reply'[o] = "ack" => venueMap'[o] = o
  <2>1. CASE RouteAck(p)
    <3>1. coord[Call(p)] \notin {"idle", "invalid"} /\ venueMap' = [venueMap EXCEPT ![p] = p]
      BY <1>t, <2>1 DEF RouteAck, LegInv, NotLaunched, Routed
    <3>2. reply' = reply /\ (o # p => leg'[o] = leg[o])
      BY <1>t, <2>1 DEF RouteAck, TypeOK
    <3> QED
      BY <1>t, <3>1, <3>2 DEF Routed, TypeOK
  <2>2. CASE ~RouteAck(p)
    <3>1. leg'[o] = "applying" /\ reply'[o] = "ack" => leg[o] = "applying" /\ reply[o] = "ack"
      BY <1>t, <2>2 DEF LegStep, VenueReplies, SubmitFails, ApplyReply, ReplyRefused, QueueReply,
         NotifyCoordinator, Conclude, DropLeg, TypeOK
    <3> QED
      BY <1>t, <1>2, <3>1 DEF Routed
  <2> QED
    BY <2>1, <2>2
<1>4. acked'[o] => venueMap'[o] = o
  <2>1. CASE ApplyReply(p)
    <3>1. venueMap' = venueMap /\ leg[p] = "applying"
      BY <2>1 DEF ApplyReply, routerVars
    <3>2. acked'[o] => acked[o] \/ (o = p /\ reply[p] = "ack")
      BY <1>t, <2>1 DEF ApplyReply, MoveOrder, TypeOK
    <3> QED
      BY <1>t, <3>1, <3>2 DEF Routed
  <2>2. CASE ~ApplyReply(p)
    <3>1. acked' = acked
      BY <2>2 DEF LegStep, VenueReplies, SubmitFails, RouteAck, ReplyRefused, QueueReply,
         QueueTransition, NotifyCoordinator, Conclude, DropLeg, orderVars
    <3> QED
      BY <1>t, <1>2, <3>1 DEF Routed
  <2> QED
    BY <2>1, <2>2
<1> QED
  BY <1>t, <1>1, <1>3, <1>4 DEF Routed, ClientId, Call, Leg

LEMMA RoutedStep ==
  ASSUME DistinctIntents, RoutedInv, [Next]_vars
  PROVE  RoutedInv'
<1> SUFFICES ASSUME NEW o \in Orders PROVE Routed(o)'
  BY IInvStep DEF RoutedInv
<1>1. ASSUME NEW p \in Orders, WriteStep(p)
      PROVE  UNCHANGED <<orderVars, routerVars, coordVars, legVars>>
  BY <1>1 DEF WriteStep, WriteFails, WriteSucceeds
<1>2. ASSUME UNCHANGED <<orderVars, routerVars, coordVars, legVars>>
      PROVE  Routed(o)'
  BY <1>2 DEF orderVars, routerVars, coordVars, legVars, RoutedInv, Routed, ClientId, Call, Leg
<1> QED
  BY <1>1, <1>2, CoordRoutes, LegRoutes DEF Next, vars

\* executor.rs:207: with calls of different intents, the router has the order's
\* venue id before the order counts as submitted, and keeps it.
THEOREM SubmittedStaysRoutable ==
  ASSUME DistinctIntents
  PROVE  Spec => []SubmittedIsRoutable
<1>1. Init => RoutedInv
  BY IInvInit, OrderPairs DEF RoutedInv, Routed, Init
<1>2. RoutedInv /\ [Next]_vars => RoutedInv'
  BY RoutedStep
<1>3. RoutedInv => SubmittedIsRoutable
  BY DEF RoutedInv, Routed, SubmittedIsRoutable
<1> QED
  BY <1>1, <1>2, <1>3, PTL DEF Spec

-----------------------------------------------------------------------------
(***************************************************************************)
(* The venue's answers: only an ACK or a reject gets past process_event,   *)
(* and an order whose task has the reject in hand is not live at its venue. *)
(***************************************************************************)
Answered(o) ==
  /\ leg[o] \in {"queueing", "notifying", "concluding"} => reply[o] \in {"ack", "reject"}
  /\ leg[o] \notin {"submitting", "dropped"} /\ reply[o] = "reject" => venue[o] # "live"

AnsweredInv == IInv /\ \A o \in Orders : Answered(o)

\* A task that waits for the venue has an order the venue does not know.
LEMMA SubmittingIsUnknown ==
  ASSUME IInv, NEW o \in Orders, leg[o] = "submitting", ~aborted[o]
  PROVE  venue[o] = "none"
<1>t. TypeOK /\ LegInv(o) /\ Call(o) \in Calls /\ CallInv(Call(o)) /\ o = <<Call(o), Leg(o)>>
  BY OrderPairs DEF IInv
<1>1. ~Hit(o)
  BY <1>t DEF Hit, CallInv, RollingBack, AfterCancel, Kept
<1> QED
  BY <1>t, <1>1 DEF LegInv, LegUntouched

\* process_event accepts no other answer from a leg's task.
LEMMA AppliedAnswer ==
  ASSUME IInv, NEW o \in Orders, ApplyReply(o)
  PROVE  reply[o] \in {"ack", "reject"}
<1>1. /\ leg[o] = "applying" /\ Accepts(status[o], reply[o])
      /\ Leads(reply[o]) # {}
  BY DEF ApplyReply, MoveOrder
<1>2. reply[o] \in {"ack", "fill", "reject", "err", "none"}
  BY ConstantsAssumption DEF IInv, TypeOK
<1>3. reply[o] \notin {"err", "none"}
  BY <1>1 DEF Leads
<1>4. reply[o] # "fill"
  BY <1>1 DEF IInv, LegInv, LegUntouched, Unanswered, Accepts
<1> QED
  BY <1>2, <1>3, <1>4

LEMMA AnsweredStep == AnsweredInv /\ [Next]_vars => AnsweredInv'
<1> SUFFICES ASSUME AnsweredInv, [Next]_vars, NEW o \in Orders
             PROVE  Answered(o)'
  BY IInvStep DEF AnsweredInv
<1>t. TypeOK /\ IInv /\ Answered(o)
  BY DEF AnsweredInv, IInv
<1>1. ASSUME NEW c \in Calls, CoordStep(c)
      PROVE  Answered(o)'
  <2>1. reply' = reply /\ (leg'[o] = leg[o] \/ leg'[o] = "submitting")
    BY <1>t, <1>1 DEF CoordStep, Refuse, Create, Restore, Launch, LaunchFails, FirstSucceeds,
         FirstFails, SecondSucceeds, SecondFails, ReadTarget, CancelTarget, QueueCancel,
         CancelAtVenue, MarkFailed, legVars, TypeOK
  <2>2. venue'[o] = venue[o] \/ venue'[o] \in {"canceled", "stuck"}
    <3>1. CASE CancelAtVenue(c)
      BY <1>t, <3>1 DEF CancelAtVenue, TypeOK
    <3>2. CASE ~CancelAtVenue(c)
      BY <1>1, <3>2 DEF CoordStep, Refuse, Create, Restore, Launch, LaunchFails, FirstSucceeds,
         FirstFails, SecondSucceeds, SecondFails, ReadTarget, CancelTarget, QueueCancel,
         MarkFailed
    <3> QED
      BY <3>1, <3>2
  <2> QED
    BY <1>t, <2>1, <2>2 DEF Answered
<1>2. ASSUME NEW p \in Orders, LegStep(p)
      PROVE  Answered(o)'
  <2>1. CASE \E r \in Replies : VenueReplies(p, r)
    <3>1. PICK r \in Replies : VenueReplies(p, r)
      BY <2>1
    <3>2. CASE o = p
      <4>1. venue[o] = "none"
        BY <1>t, <3>1, <3>2, SubmittingIsUnknown DEF VenueReplies
      <4>2. reply'[o] = r /\ leg'[o] \in {"routing", "applying"}
        BY <1>t, <3>1, <3>2 DEF VenueReplies, TypeOK
      <4>3. r = "reject" => venue'[o] = "none"
        BY <1>t, <3>1, <3>2, <4>1 DEF VenueReplies, TypeOK
      <4> QED
        BY <4>2, <4>3 DEF Answered
    <3>3. CASE o # p
      BY <1>t, <3>1, <3>3 DEF VenueReplies, Answered, TypeOK
    <3> QED
      BY <3>2, <3>3
  <2>2. CASE ApplyReply(p)
    <3>1. o = p => reply[o] \in {"ack", "reject"}
      BY <1>t, <2>2, AppliedAnswer
    <3> QED
      BY <1>t, <2>2, <3>1 DEF ApplyReply, Answered, TypeOK
  <2>3. CASE SubmitFails(p)
    BY <1>t, <2>3 DEF SubmitFails, Answered, TypeOK
  <2>4. CASE RouteAck(p) \/ ReplyRefused(p) \/ QueueReply(p) \/ NotifyCoordinator(p)
             \/ Conclude(p) \/ DropLeg(p)
    BY <1>t, <2>4 DEF RouteAck, ReplyRefused, QueueReply, NotifyCoordinator, Conclude, DropLeg,
                      Answered, TypeOK
  <2> QED
    BY <1>2, <2>1, <2>2, <2>3, <2>4 DEF LegStep
<1>3. ASSUME NEW p \in Orders, WriteStep(p)
      PROVE  Answered(o)'
  BY <1>t, <1>3 DEF WriteStep, WriteFails, WriteSucceeds, legVars, Answered
<1>4. CASE UNCHANGED vars
  BY <1>t, <1>4 DEF vars, legVars, Answered
<1> QED
  BY <1>1, <1>2, <1>3, <1>4 DEF Next

\* A leg whose task reports success was acknowledged, not rejected.
LEMMA SuccessIsNoReject ==
  ASSUME AnsweredInv, NEW o \in Orders, leg[o] = "done", Succeeded(o), ~Hit(o)
  PROVE  reply[o] # "reject"
BY DEF AnsweredInv, IInv, LegInv, LegUntouched, Succeeded, Acked, Answered

-----------------------------------------------------------------------------
(***************************************************************************)
(* The record in active_executions.  A leg of it is rejected only when the *)
(* leg's own task wrote that before it ended, or when the call failed on   *)
(* that leg, whose task has ended; the other call's intents are different. *)
(***************************************************************************)
LegRecorded(c, l) ==
  /\ execLegs[IntentOf[c]][l] \in {"Pending", "Submitted", "Filled", "Rejected"}
  /\ coord[c] # "failed" /\ execLegs[IntentOf[c]][l] = "Rejected"
       => reply[<<c, l>>] = "reject" /\ leg[<<c, l>>] \in {"concluding", "done"}

ExecInv(c) ==
  coord[c] \notin NotLaunched =>
    /\ execStatus[IntentOf[c]] = Evaluate(execLegs[IntentOf[c]])
    /\ \A l \in Legs : LegRecorded(c, l)
    /\ coord[c] = "failed" => execLegs[IntentOf[c]][Other(target[c])] = "Rejected"

VerdictInv == AnsweredInv /\ \A c \in Calls : ExecInv(c)

LEMMA UpdatedExecution ==
  ASSUME TypeOK, NEW i \in Intents, NEW l \in Legs, NEW s, UpdateExecution(i, l, s)
  PROVE  /\ execLegs'[i][l] = s
         /\ \A k \in Legs : k # l => execLegs'[i][k] = execLegs[i][k]
         /\ execStatus'[i] = Evaluate(execLegs'[i])
         /\ \A j \in Intents : j # i => execLegs'[j] = execLegs[j] /\ execStatus'[j] = execStatus[j]
<1>1. execLegs'[i] = [execLegs[i] EXCEPT ![l] = s] /\ execLegs[i] \in [Legs -> Status \cup {Absent}]
  BY DEF TypeOK, UpdateExecution
<1>2. execStatus'[i] = Evaluate(execLegs'[i])
  BY <1>1 DEF TypeOK, UpdateExecution
<1> QED
  BY <1>1, <1>2 DEF TypeOK, UpdateExecution

\* A step that leaves the call, its record and the answers its legs ended with alone.
LEMMA ExecKept ==
  ASSUME NEW c \in Calls, ExecInv(c),
         UNCHANGED <<coord[c], target[c], execLegs[IntentOf[c]], execStatus[IntentOf[c]]>>,
         \A l \in Legs : leg[<<c, l>>] \in {"concluding", "done"}
                           => /\ leg'[<<c, l>>] \in {"concluding", "done"}
                              /\ reply'[<<c, l>>] = reply[<<c, l>>]
  PROVE  ExecInv(c)'
BY DEF ExecInv, LegRecorded, NotLaunched, Evaluate

\* A step of another call's coordinator.
LEMMA OtherCallRecords ==
  ASSUME DistinctIntents, VerdictInv, NEW c \in Calls, NEW d \in Calls, c # d, CoordStep(d)
  PROVE  ExecInv(c)'
<1>t. TypeOK /\ ExecInv(c) /\ IntentOf[c] # IntentOf[d]
      /\ IntentOf[c] \in Intents /\ IntentOf[d] \in Intents /\ Other(target[d]) \in Legs
  BY ConstantsAssumption, OrderPairs DEF VerdictInv, AnsweredInv, IInv, DistinctIntents, TypeOK
<1>1. UNCHANGED <<coord[c], target[c]>> /\ reply' = reply
  BY <1>t DEF CoordStep, Refuse, Create, Restore, Launch, LaunchFails, FirstSucceeds, FirstFails,
         SecondSucceeds, SecondFails, ReadTarget, CancelTarget, QueueCancel, CancelAtVenue,
         MarkFailed, legVars, TypeOK
<1>2. \A l \in Legs : leg'[<<c, l>>] = leg[<<c, l>>]
  <2>1. CASE Launch(d)
    BY <1>t, <2>1, OrderPairs DEF Launch, TypeOK
  <2>2. CASE ~Launch(d)
    BY <2>2 DEF CoordStep, Refuse, Create, Restore, LaunchFails, FirstSucceeds, FirstFails,
         SecondSucceeds, SecondFails, ReadTarget, CancelTarget, QueueCancel, CancelAtVenue,
         MarkFailed, legVars
  <2> QED
    BY <2>1, <2>2
<1>3. UNCHANGED <<execLegs[IntentOf[c]], execStatus[IntentOf[c]]>>
  <2>1. CASE Launch(d) \/ LaunchFails(d)
    BY <1>t, <2>1 DEF Launch, LaunchFails, TrackExecution, TypeOK
  <2>2. CASE SecondSucceeds(d) \/ MarkFailed(d)
    <3>1. \E s : UpdateExecution(IntentOf[d], Other(target[d]), s)
      BY <2>2 DEF SecondSucceeds, MarkFailed, Leg
    <3> QED
      BY <1>t, <3>1, UpdatedExecution
  <2>3. CASE ~(Launch(d) \/ LaunchFails(d) \/ SecondSucceeds(d) \/ MarkFailed(d))
    BY <2>3 DEF CoordStep, Refuse, Create, Restore, FirstSucceeds, FirstFails,
         SecondFails, ReadTarget, CancelTarget, QueueCancel, CancelAtVenue, execVars
  <2> QED
    BY <2>1, <2>2, <2>3
<1> QED
  BY <1>t, <1>1, <1>2, <1>3, ExecKept

\* A step of the call's own coordinator.
LEMMA OwnCallRecords ==
  ASSUME VerdictInv, NEW c \in Calls, CoordStep(c)
  PROVE  ExecInv(c)'
<1> DEFINE i == IntentOf[c]
           k == Other(target[c])
<1>t. TypeOK /\ ExecInv(c) /\ i \in Intents /\ k \in Legs
  BY ConstantsAssumption, OrderPairs DEF VerdictInv, AnsweredInv, IInv, TypeOK
<1>1. CASE Refuse(c) \/ Create(c) \/ Restore(c) \/ LaunchFails(c)
  BY <1>t, <1>1 DEF Refuse, Create, Restore, LaunchFails, ExecInv, NotLaunched, TypeOK
<1>2. CASE Launch(c)
  <2>1. execLegs'[i] = [l \in Legs |-> "Pending"] /\ execStatus'[i] = "Pending"
        /\ coord'[c] = "racing"
    BY <1>t, <1>2 DEF Launch, TrackExecution, TypeOK
  <2>2. Evaluate(execLegs'[i]) = "Pending"
    BY <2>1 DEF Evaluate, Legs
  <2> QED
    BY <2>1, <2>2 DEF ExecInv, LegRecorded
<1>3. CASE SecondSucceeds(c)
  <2>1. UpdateExecution(i, k, "Filled") /\ coord'[c] = "completed" /\ coord[c] = "awaiting"
        /\ reply' = reply /\ leg' = leg
    BY <1>t, <1>3 DEF SecondSucceeds, Leg, TypeOK, legVars
  <2>2. ASSUME NEW l \in Legs PROVE LegRecorded(c, l)'
    <3>1. CASE l = k
      BY <1>t, <2>1, <3>1, UpdatedExecution DEF LegRecorded
    <3>2. CASE l # k
      <4>1. execLegs'[i][l] = execLegs[i][l]
        BY <1>t, <2>1, <3>2, UpdatedExecution
      <4> QED
        BY <1>t, <2>1, <4>1 DEF ExecInv, LegRecorded, NotLaunched
    <3> QED
      BY <3>1, <3>2
  <2>3. execStatus'[i] = Evaluate(execLegs'[i])
    BY <1>t, <2>1, UpdatedExecution
  <2> QED
    BY <2>1, <2>2, <2>3 DEF ExecInv, Evaluate
<1>4. CASE MarkFailed(c)
  <2>1. UpdateExecution(i, k, "Rejected") /\ coord'[c] = "failed" /\ coord[c] = "marking"
        /\ target' = target
    BY <1>t, <1>4 DEF MarkFailed, Leg, TypeOK
  <2>2. ASSUME NEW l \in Legs PROVE LegRecorded(c, l)'
    <3>1. CASE l = k
      BY <1>t, <2>1, <3>1, UpdatedExecution DEF LegRecorded
    <3>2. CASE l # k
      <4>1. execLegs'[i][l] = execLegs[i][l]
        BY <1>t, <2>1, <3>2, UpdatedExecution
      <4> QED
        BY <1>t, <2>1, <4>1 DEF ExecInv, LegRecorded, NotLaunched
    <3> QED
      BY <3>1, <3>2
  <2>3. execStatus'[i] = Evaluate(execLegs'[i]) /\ execLegs'[i][Other(target'[c])] = "Rejected"
    BY <1>t, <2>1, UpdatedExecution
  <2> QED
    BY <2>1, <2>2, <2>3 DEF ExecInv, Evaluate
<1>5. CASE \/ \E l \in Legs : FirstSucceeds(c, l) \/ FirstFails(c, l)
           \/ SecondFails(c) \/ ReadTarget(c) \/ CancelTarget(c) \/ QueueCancel(c)
           \/ CancelAtVenue(c)
  <2>1. UNCHANGED <<execLegs, execStatus, leg, reply>>
        /\ coord[c] \notin NotLaunched /\ coord'[c] # "failed" /\ coord[c] # "failed"
    BY <1>t, <1>5 DEF FirstSucceeds, FirstFails, SecondFails, ReadTarget, CancelTarget,
         QueueCancel, CancelAtVenue, execVars, legVars, NotLaunched, TypeOK
  <2> QED
    BY <1>t, <2>1 DEF ExecInv, LegRecorded, Evaluate
<1> QED
  BY <1>1, <1>2, <1>3, <1>4, <1>5 DEF CoordStep

\* A step of a leg's task; the task of another call's leg has another record.
LEMMA LegRecords ==
  ASSUME DistinctIntents, VerdictInv, NEW p \in Orders, LegStep(p), NEW c \in Calls
  PROVE  ExecInv(c)'
<1> DEFINE i == IntentOf[c]
<1>t. TypeOK /\ ExecInv(c) /\ i \in Intents /\ CallInv(c) /\ LegInv(p) /\ Answered(p)
      /\ Call(p) \in Calls /\ Leg(p) \in Legs /\ p = <<Call(p), Leg(p)>>
      /\ IntentOf[Call(p)] \in Intents
  BY ConstantsAssumption, OrderPairs DEF VerdictInv, AnsweredInv, IInv
<1>1. coord' = coord /\ target' = target
  BY DEF LegStep, VenueReplies, SubmitFails, RouteAck, ApplyReply, ReplyRefused, QueueReply,
         NotifyCoordinator, Conclude, DropLeg, coordVars
<1>2. \A l \in Legs : leg[<<c, l>>] \in {"concluding", "done"}
                        => /\ leg'[<<c, l>>] \in {"concluding", "done"}
                           /\ reply'[<<c, l>>] = reply[<<c, l>>]
  BY <1>t, OrderPairs DEF LegStep, VenueReplies, SubmitFails, RouteAck, ApplyReply, ReplyRefused,
         QueueReply, NotifyCoordinator, Conclude, DropLeg, TypeOK
<1>3. CASE NotifyCoordinator(p)
  <2> DEFINE s == IF reply[p] = "ack" THEN "Submitted"
                  ELSE IF reply[p] = "reject" THEN "Rejected" ELSE status[p]
  <2>1. UpdateExecution(IntentOf[Call(p)], Leg(p), s)
        /\ leg[p] = "notifying" /\ leg'[p] = "concluding" /\ reply' = reply
    BY <1>t, <1>3 DEF NotifyCoordinator, TypeOK
  <2>2. s = "Submitted" \/ (s = "Rejected" /\ reply[p] = "reject")
    BY <1>t, <2>1 DEF Answered
  <2>3. CASE Call(p) = c
    <3>1. coord[c] \notin NotLaunched
      BY <1>t, <2>1, <2>3 DEF LegInv
    <3>2. ASSUME NEW l \in Legs PROVE LegRecorded(c, l)'
      <4>1. CASE l = Leg(p)
        <5>1. execLegs'[i][l] = s /\ <<c, l>> = p
          BY <1>t, <2>1, <2>3, <4>1, UpdatedExecution
        <5> QED
          BY <2>1, <2>2, <5>1 DEF LegRecorded
      <4>2. CASE l # Leg(p)
        <5>1. execLegs'[i][l] = execLegs[i][l]
          BY <1>t, <2>1, <2>3, <4>2, UpdatedExecution
        <5> QED
          BY <1>t, <1>1, <1>2, <3>1, <5>1 DEF ExecInv, LegRecorded
      <4> QED
        BY <4>1, <4>2
    <3>3. coord[c] = "failed" => execLegs'[i][Other(target[c])] = "Rejected"
      <4> SUFFICES ASSUME coord[c] = "failed" PROVE execLegs'[i][Other(target[c])] = "Rejected"
        OBVIOUS
      <4>1. leg[<<c, Other(target[c])>>] = "done" /\ Other(target[c]) \in Legs
        BY <1>t, OrderPairs DEF CallInv, RollingBack, AfterCancel, Failed, TypeOK
      <4>2. Other(target[c]) # Leg(p)
        BY <1>t, <2>1, <2>3, <4>1
      <4> QED
        BY <1>t, <2>1, <2>3, <3>1, <4>1, <4>2, UpdatedExecution DEF ExecInv
    <3>4. execStatus'[i] = Evaluate(execLegs'[i])
      BY <1>t, <2>1, <2>3, UpdatedExecution
    <3> QED
      BY <1>1, <3>2, <3>3, <3>4 DEF ExecInv, Evaluate
  <2>4. CASE Call(p) # c
    <3>1. UNCHANGED <<execLegs[i], execStatus[i]>>
      BY <1>t, <2>1, <2>4, UpdatedExecution DEF DistinctIntents
    <3> QED
      BY <1>t, <1>1, <1>2, <3>1, ExecKept
  <2> QED
    BY <2>3, <2>4
<1>4. CASE ~NotifyCoordinator(p)
  <2>1. UNCHANGED <<execLegs, execStatus>>
    BY <1>4 DEF LegStep, VenueReplies, SubmitFails, RouteAck, ApplyReply, ReplyRefused, QueueReply,
         Conclude, DropLeg, execVars
  <2> QED
    BY <1>t, <1>1, <1>2, <2>1, ExecKept
<1> QED
  BY <1>3, <1>4

LEMMA VerdictStep ==
  ASSUME DistinctIntents, VerdictInv, [Next]_vars
  PROVE  VerdictInv'
<1> SUFFICES ASSUME NEW c \in Calls PROVE ExecInv(c)'
  BY AnsweredStep DEF VerdictInv
<1>1. ASSUME NEW p \in Orders, WriteStep(p)
      PROVE  UNCHANGED <<execVars, coordVars, legVars>>
  BY <1>1 DEF WriteStep, WriteFails, WriteSucceeds
<1>2. ASSUME UNCHANGED <<execVars, coordVars, legVars>>
      PROVE  ExecInv(c)'
  BY <1>2, ExecKept DEF execVars, coordVars, legVars, VerdictInv
<1> QED
  BY <1>1, <1>2, OtherCallRecords, OwnCallRecords, LegRecords DEF Next, vars

\* coordinator.rs:467: with calls of different intents, the record of an execution
\* never contradicts the verdict its call returned, whatever a leg's task writes
\* to it afterwards.
THEOREM VerdictsStayTrue ==
  ASSUME DistinctIntents
  PROVE  Spec => []VerdictsAgree
<1>1. Init => VerdictInv
  <2> SUFFICES ASSUME Init PROVE VerdictInv
    OBVIOUS
  <2>1. \A o \in Orders : Answered(o)
    BY DEF Init, Answered
  <2>2. \A c \in Calls : ExecInv(c)
    BY DEF Init, ExecInv, NotLaunched
  <2> QED
    BY <2>1, <2>2, IInvInit DEF VerdictInv, AnsweredInv
<1>2. VerdictInv /\ [Next]_vars => VerdictInv'
  BY VerdictStep
<1>3. VerdictInv => VerdictsAgree
  <2> SUFFICES ASSUME VerdictInv, NEW c \in Calls
               PROVE  /\ coord[c] = "completed"
                           => execStatus[IntentOf[c]] \notin {"Failed", "Canceled"}
                      /\ coord[c] = "failed" => execStatus[IntentOf[c]] = "Failed"
    BY DEF VerdictsAgree
  <2>t. ExecInv(c) /\ CallInv(c) /\ TypeOK
    BY DEF VerdictInv, AnsweredInv, IInv
  <2>1. CASE coord[c] = "completed"
    <3>1. ASSUME NEW l \in Legs
          PROVE  execLegs[IntentOf[c]][l] \notin {"Rejected", "Canceled"}
      <4>1. reply[<<c, l>>] # "reject"
        <5>1. leg[<<c, l>>] = "done" /\ Succeeded(<<c, l>>) /\ <<c, l>> \in Orders
              /\ ~Hit(<<c, l>>)
          BY <2>t, <2>1, OrderPairs DEF CallInv, Hit, AfterCancel
        <5> QED
          BY <5>1, SuccessIsNoReject DEF VerdictInv
      <4> QED
        BY <2>t, <2>1, <4>1 DEF ExecInv, LegRecorded, NotLaunched
    <3> QED
      BY <2>t, <2>1, <3>1 DEF ExecInv, NotLaunched, Evaluate
  <2>2. CASE coord[c] = "failed"
    <3>1. Other(target[c]) \in Legs
      BY <2>t, OrderPairs DEF TypeOK
    <3> QED
      BY <2>t, <2>2, <3>1 DEF ExecInv, NotLaunched, Evaluate
  <2> QED
    BY <2>1, <2>2
<1> QED
  BY <1>1, <1>2, <1>3, PTL DEF Spec

=============================================================================
