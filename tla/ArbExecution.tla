---------------------------- MODULE ArbExecution ----------------------------
(***************************************************************************)
(* One ArbExecutionCoordinator with the components an execution touches:   *)
(* the OrderRouter's two maps, the StateMachine's cache of orders, the     *)
(* active_executions map, the fire-and-forget order writes, and, per leg,  *)
(* the tokio task that runs VenueExecutor::execute_leg against its venue.  *)
(*                                                                         *)
(* Every call of enqueue_intent is a process (coord), every leg task a     *)
(* process (leg), every write task a process (row).  A step is the code    *)
(* between two points where the task can be suspended or where another     *)
(* thread can observe a shared map.                                        *)
(***************************************************************************)
EXTENDS OrderLifecycle, Sequences, Integers

CONSTANTS
  Calls,          \* calls of enqueue_intent
  Intents,        \* intent identifiers
  IntentOf,       \* the intent each call carries; two calls may carry the same
  InvalidIntents, \* intents that ArbExecutionIntent::validate refuses
  Unroutable,     \* <<intent, leg>> whose venue has no registered executor
  Replies,        \* what submit_order may return: "ack", "fill", "reject", "err"
  DbAnswers,      \* how write_order may end: "ok", "err"; {} if never while we look
  NoOrder         \* no entry in a router map

Legs     == {"A", "B"}
Other(l) == IF l = "A" THEN "B" ELSE "A"

\* An order is named by the local UUID enqueue_intent gives it, which is also
\* its key in active_orders: the call that made it and its leg.
Orders     == Calls \X Legs
Call(o)    == o[1]
Leg(o)     == o[2]
Sibling(o) == <<Call(o), Other(Leg(o))>>

\* client_order_id = {intent_id}_{leg}_{venue}: a function of intent and leg,
\* the same for two calls with one intent.
ClientId(o) == <<IntentOf[Call(o)], Leg(o)>>

ASSUME ConstantsAssumption ==
  /\ IntentOf \in [Calls -> Intents]
  /\ InvalidIntents \subseteq Intents
  /\ Unroutable \subseteq Intents \X Legs
  /\ Replies \subseteq {"ack", "fill", "reject", "err"}
  /\ DbAnswers \subseteq {"ok", "err"}
  /\ NoOrder \notin Orders

VARIABLES
  status,     \* OrderState.status in active_orders, or Absent
  acked,      \* OrderState.venue_order_id is Some
  synced,     \* OrderState.order_id holds the database's id
  moving,     \* the transition whose queue_transition await holds the order's RefMut
  log,        \* transitions of the order handed to the BatchWriter
  clientMap,  \* OrderRouter.client_order_map
  venueMap,   \* OrderRouter.venue_order_map, keyed by the order whose ACK carried the id
  execLegs,   \* ArbExecution.leg_a_state and leg_b_state
  execStatus, \* ArbExecution.status
  coord,      \* where each enqueue_intent call is
  target,     \* the leg that is rolled back if the other one fails
  snap,       \* the cloned OrderState in cancel_order had a venue_order_id
  leg,        \* where each leg task is
  reply,      \* what the leg's venue answered
  result,     \* what the leg's task returned
  aborted,    \* JoinHandle::abort was called on the leg's task
  row,        \* where each order's write task is
  venue       \* the order at its venue

orderVars  == <<status, acked, moving, log>>
routerVars == <<clientMap, venueMap>>
execVars   == <<execLegs, execStatus>>
coordVars  == <<coord, target, snap>>
legVars    == <<leg, reply, result, aborted>>
vars == <<orderVars, synced, routerVars, execVars, coordVars, legVars, row, venue>>

-----------------------------------------------------------------------------
ExecutionStatus == {"Pending", "Completed", "Failed", "Canceled", "Partial"}
Transition      == [from : Status \cup {Absent}, to : Status \cup {Absent}]
Idle            == [from |-> Absent, to |-> Absent]

Returned == {"completed", "failed", "invalid", "unroutable"}
CoordPC  == {"idle", "creating", "restored", "racing", "awaiting", "reading",
             "canceling", "queueing", "venue", "marking"} \cup Returned
LegPC    == {"none", "submitting", "routing", "applying", "queueing",
             "notifying", "concluding", "done", "dropped"}
LegResult == {"none", "filled", "acked", "rejected", "error"}

\* Shape of the state; the properties below are what is at stake.
TypeOK ==
  /\ status \in [Orders -> Status \cup {Absent}]
  /\ acked \in [Orders -> BOOLEAN]
  /\ synced \in [Orders -> BOOLEAN]
  /\ moving \in [Orders -> Transition]
  /\ log \in [Orders -> Seq(Transition)]
  /\ clientMap \in [Intents \X Legs -> Orders \cup {NoOrder}]
  /\ venueMap \in [Orders -> Orders \cup {NoOrder}]
  /\ execLegs \in [Intents -> [Legs -> Status \cup {Absent}]]
  /\ execStatus \in [Intents -> ExecutionStatus \cup {Absent}]
  /\ coord \in [Calls -> CoordPC]
  /\ target \in [Calls -> Legs]
  /\ snap \in [Calls -> BOOLEAN]
  /\ leg \in [Orders -> LegPC]
  /\ reply \in [Orders -> Replies \cup {"none"}]
  /\ result \in [Orders -> LegResult]
  /\ aborted \in [Orders -> BOOLEAN]
  /\ row \in [Orders -> {"none", "writing", "failed", "written"}]
  /\ venue \in [Orders -> {"none", "live", "filled", "canceled", "stuck"}]

Init ==
  /\ status = [o \in Orders |-> Absent]
  /\ acked = [o \in Orders |-> FALSE]
  /\ synced = [o \in Orders |-> FALSE]
  /\ moving = [o \in Orders |-> Idle]
  /\ log = [o \in Orders |-> <<>>]
  /\ clientMap = [k \in Intents \X Legs |-> NoOrder]
  /\ venueMap = [o \in Orders |-> NoOrder]
  /\ execLegs = [i \in Intents |-> [l \in Legs |-> Absent]]
  /\ execStatus = [i \in Intents |-> Absent]
  /\ coord = [c \in Calls |-> "idle"]
  /\ target = [c \in Calls |-> "A"]
  /\ snap = [c \in Calls |-> FALSE]
  /\ leg = [o \in Orders |-> "none"]
  /\ reply = [o \in Orders |-> "none"]
  /\ result = [o \in Orders |-> "none"]
  /\ aborted = [o \in Orders |-> FALSE]
  /\ row = [o \in Orders |-> "none"]
  /\ venue = [o \in Orders |-> "none"]

-----------------------------------------------------------------------------
(* Shared operations.                                                      *)

\* A RefMut of the order is held across an await: other accesses block.
Unguarded(o) == moving[o] = Idle

\* Mutant: the ACK does not store the venue_order_id.
MoveOrderForgetsVenueId(o, kind) ==
  /\ Unguarded(o)
  /\ Accepts(status[o], kind)
  /\ \E s \in Leads(kind) :
       /\ status' = [status EXCEPT ![o] = s]
       /\ moving' = [moving EXCEPT ![o] = [from |-> status[o], to |-> s]]
  /\ UNCHANGED <<acked, log>>

\* Mutant: from_status is read after the assignment.
MoveOrderReadsFromLate(o, kind) ==
  /\ Unguarded(o)
  /\ Accepts(status[o], kind)
  /\ \E s \in Leads(kind) :
       /\ status' = [status EXCEPT ![o] = s]
       /\ moving' = [moving EXCEPT ![o] = [from |-> s, to |-> s]]
  /\ acked' = [acked EXCEPT ![o] = @ \/ kind = "ack"]
  /\ UNCHANGED log

\* process_event up to its await: the event is accepted, the order moves in
\* memory and its guard stays held until the transition is queued.
MoveOrder(o, kind) ==
  /\ Unguarded(o)
  /\ Accepts(status[o], kind)
  /\ \E s \in Leads(kind) :
       /\ status' = [status EXCEPT ![o] = s]
       /\ moving' = [moving EXCEPT ![o] = [from |-> status[o], to |-> s]]
  /\ acked' = [acked EXCEPT ![o] = @ \/ kind = "ack"]
  /\ UNCHANGED log

\* process_event after its await: the transition reached the writer's queue.
QueueTransition(o) ==
  /\ log' = [log EXCEPT ![o] = Append(@, moving[o])]
  /\ moving' = [moving EXCEPT ![o] = Idle]
  /\ UNCHANGED <<status, acked>>

\* Mutant: a rejected leg's own status becomes the execution's.
EvaluatePassesLegStatus(legs) ==
  IF \A l \in Legs : legs[l] = "Filled" THEN "Completed"
  ELSE IF \E l \in Legs : legs[l] = "Rejected" THEN "Rejected"
  ELSE "Pending"

\* evaluate_execution_status
Evaluate(legs) ==
  IF \A l \in Legs : legs[l] = "Filled" THEN "Completed"
  ELSE IF \E l \in Legs : legs[l] = "Rejected" THEN "Failed"
  ELSE IF \E l \in Legs : legs[l] = "Canceled" THEN "Canceled"
  ELSE IF \E l \in Legs : legs[l] = "Filled" THEN "Partial"
  ELSE "Pending"

\* update_execution
UpdateExecution(i, l, s) ==
  /\ execLegs' = [execLegs EXCEPT ![i][l] = s]
  /\ execStatus' = [execStatus EXCEPT ![i] = Evaluate([execLegs[i] EXCEPT ![l] = s])]

-----------------------------------------------------------------------------
(* enqueue_intent.                                                         *)

\* Validation fails: the call returns an error before it touches any map
\* that is modelled here.
Refuse(c) ==
  /\ coord[c] = "idle"
  /\ IntentOf[c] \in InvalidIntents
  /\ coord' = [coord EXCEPT ![c] = "invalid"]
  /\ UNCHANGED <<orderVars, synced, routerVars, execVars, target, snap, legVars, row, venue>>

\* Mutant: only leg A is registered with the router.
CreateRegistersOneLeg(c) ==
  /\ coord[c] = "idle"
  /\ IntentOf[c] \notin InvalidIntents
  /\ coord' = [coord EXCEPT ![c] = "creating"]
  /\ row' = [o \in Orders |-> IF Call(o) = c THEN "writing" ELSE row[o]]
  /\ clientMap' = [clientMap EXCEPT ![<<IntentOf[c], "A">>] = <<c, "A">>]
  /\ UNCHANGED <<orderVars, synced, venueMap, execVars, target, snap, legVars, venue>>

\* Mutant: registering a call overwrites every intent's entries.
CreateClobbersRouter(c) ==
  /\ coord[c] = "idle"
  /\ IntentOf[c] \notin InvalidIntents
  /\ coord' = [coord EXCEPT ![c] = "creating"]
  /\ row' = [o \in Orders |-> IF Call(o) = c THEN "writing" ELSE row[o]]
  /\ clientMap' = [k \in Intents \X Legs |-> <<c, k[2]>>]
  /\ UNCHANGED <<orderVars, synced, venueMap, execVars, target, snap, legVars, venue>>

\* The write tasks are spawned, then both orders are registered with the router.
Create(c) ==
  /\ coord[c] = "idle"
  /\ IntentOf[c] \notin InvalidIntents
  /\ coord' = [coord EXCEPT ![c] = "creating"]
  /\ row' = [o \in Orders |-> IF Call(o) = c THEN "writing" ELSE row[o]]
  /\ clientMap' = [k \in Intents \X Legs |->
                     IF k[1] = IntentOf[c] THEN <<c, k[2]>> ELSE clientMap[k]]
  /\ UNCHANGED <<orderVars, synced, venueMap, execVars, target, snap, legVars, venue>>

\* restore_order for both legs.
Restore(c) ==
  /\ coord[c] = "creating"
  /\ coord' = [coord EXCEPT ![c] = "restored"]
  /\ status' = [o \in Orders |-> IF Call(o) = c THEN "Pending" ELSE status[o]]
  /\ UNCHANGED <<acked, moving, log, synced, routerVars, execVars, target, snap,
                 legVars, row, venue>>

\* Mutant: create_execution starts the map afresh.
TrackExecutionClearsMap(i) ==
  /\ execLegs' = [j \in Intents |-> [l \in Legs |-> "Pending"]]
  /\ execStatus' = [j \in Intents |-> "Pending"]

\* create_execution: a fresh record replaces whatever the map held for the intent.
TrackExecution(i) ==
  /\ execLegs' = [execLegs EXCEPT ![i] = [l \in Legs |-> "Pending"]]
  /\ execStatus' = [execStatus EXCEPT ![i] = "Pending"]

\* Both venues have an executor: the two leg tasks are spawned and raced.
Launch(c) ==
  /\ coord[c] = "restored"
  /\ \A l \in Legs : <<IntentOf[c], l>> \notin Unroutable
  /\ TrackExecution(IntentOf[c])
  /\ coord' = [coord EXCEPT ![c] = "racing"]
  /\ leg' = [o \in Orders |-> IF Call(o) = c THEN "submitting" ELSE leg[o]]
  /\ UNCHANGED <<orderVars, synced, routerVars, target, snap, reply, result, aborted,
                 row, venue>>

\* Mutant: leg A's task is spawned before leg B's venue is looked up.
LaunchFailsHalfway(c) ==
  /\ coord[c] = "restored"
  /\ <<IntentOf[c], "B">> \in Unroutable
  /\ TrackExecution(IntentOf[c])
  /\ coord' = [coord EXCEPT ![c] = "unroutable"]
  /\ leg' = [leg EXCEPT ![<<c, "A">>] = "submitting"]
  /\ UNCHANGED <<orderVars, synced, routerVars, target, snap, reply, result, aborted,
                 row, venue>>

\* A venue has no executor: the call returns UnknownVenue, with the orders
\* cached, registered and being written, and the execution pending.
LaunchFails(c) ==
  /\ coord[c] = "restored"
  /\ \E l \in Legs : <<IntentOf[c], l>> \in Unroutable
  /\ TrackExecution(IntentOf[c])
  /\ coord' = [coord EXCEPT ![c] = "unroutable"]
  /\ UNCHANGED <<orderVars, synced, routerVars, target, snap, legVars, row, venue>>

Succeeded(o) == result[o] \in {"filled", "acked"}

\* select!: leg l finished first and succeeded; it is the one to roll back.
FirstSucceeds(c, l) ==
  /\ coord[c] = "racing"
  /\ leg[<<c, l>>] = "done"
  /\ Succeeded(<<c, l>>)
  /\ coord' = [coord EXCEPT ![c] = "awaiting"]
  /\ target' = [target EXCEPT ![c] = l]
  /\ UNCHANGED <<orderVars, synced, routerVars, execVars, snap, legVars, row, venue>>

\* select!: leg l finished first and failed; the other task is aborted and its
\* order is the one to roll back.
FirstFails(c, l) ==
  /\ coord[c] = "racing"
  /\ leg[<<c, l>>] = "done"
  /\ ~Succeeded(<<c, l>>)
  /\ coord' = [coord EXCEPT ![c] = "reading"]
  /\ target' = [target EXCEPT ![c] = Other(l)]
  /\ aborted' = [aborted EXCEPT ![<<c, Other(l)>>] = TRUE]
  /\ UNCHANGED <<orderVars, synced, routerVars, execVars, snap, leg, reply, result,
                 row, venue>>

\* other_handle.await: the second leg succeeded too.
SecondSucceeds(c) ==
  LET o == <<c, Other(target[c])>> IN
  /\ coord[c] = "awaiting"
  /\ leg[o] = "done"
  /\ Succeeded(o)
  /\ UpdateExecution(IntentOf[c], Leg(o), "Filled")
  /\ coord' = [coord EXCEPT ![c] = "completed"]
  /\ UNCHANGED <<orderVars, synced, routerVars, target, snap, legVars, row, venue>>

\* other_handle.await: the second leg failed; the first is rolled back.
SecondFails(c) ==
  LET o == <<c, Other(target[c])>> IN
  /\ coord[c] = "awaiting"
  /\ leg[o] = "done"
  /\ ~Succeeded(o)
  /\ coord' = [coord EXCEPT ![c] = "reading"]
  /\ UNCHANGED <<orderVars, synced, routerVars, execVars, target, snap, legVars, row, venue>>

\* Mutant: the order is looked up by its client_order_id.
ReadTargetByClientId(c) ==
  LET o == clientMap[ClientId(<<c, target[c]>>)] IN
  /\ coord[c] = "reading"
  /\ Unguarded(o)
  /\ snap' = [snap EXCEPT ![c] = acked[o]]
  /\ coord' = [coord EXCEPT ![c] = "canceling"]
  /\ UNCHANGED <<orderVars, synced, routerVars, execVars, target, legVars, row, venue>>

\* cancel_order: get_order clones the state, the only copy the venue cancel sees.
ReadTarget(c) ==
  LET o == <<c, target[c]>> IN
  /\ coord[c] = "reading"
  /\ Unguarded(o)
  /\ snap' = [snap EXCEPT ![c] = acked[o]]
  /\ coord' = [coord EXCEPT ![c] = "canceling"]
  /\ UNCHANGED <<orderVars, synced, routerVars, execVars, target, legVars, row, venue>>

\* Mutant: the order is looked up by its client_order_id.
CancelTargetByClientId(c) ==
  LET o == clientMap[ClientId(<<c, target[c]>>)] IN
  /\ coord[c] = "canceling"
  /\ MoveOrder(o, "cancel")
  /\ coord' = [coord EXCEPT ![c] = "queueing"]
  /\ UNCHANGED <<synced, routerVars, execVars, target, snap, legVars, row, venue>>

\* cancel_order: the CoordinatorCancel event moves the order in memory.
CancelTarget(c) ==
  LET o == <<c, target[c]>> IN
  /\ coord[c] = "canceling"
  /\ MoveOrder(o, "cancel")
  /\ coord' = [coord EXCEPT ![c] = "queueing"]
  /\ UNCHANGED <<synced, routerVars, execVars, target, snap, legVars, row, venue>>

\* cancel_order: the transition is queued; the venue is told only if the clone
\* had a venue_order_id.
QueueCancel(c) ==
  LET o == <<c, target[c]>> IN
  /\ coord[c] = "queueing"
  /\ QueueTransition(o)
  /\ coord' = [coord EXCEPT ![c] = IF snap[c] THEN "venue" ELSE "marking"]
  /\ UNCHANGED <<synced, routerVars, execVars, target, snap, legVars, row, venue>>

\* cancel_order: best effort at the venue; an error is only logged.
CancelAtVenue(c) ==
  LET o == <<c, target[c]>> IN
  /\ coord[c] = "venue"
  /\ \E s \in {"canceled", "stuck"} : venue' = [venue EXCEPT ![o] = s]
  /\ coord' = [coord EXCEPT ![c] = "marking"]
  /\ UNCHANGED <<orderVars, synced, routerVars, execVars, target, snap, legVars, row>>

\* Mutant: the rolled-back leg is marked instead of the failed one.
MarkFailedMarksTarget(c) ==
  /\ coord[c] = "marking"
  /\ UpdateExecution(IntentOf[c], target[c], "Canceled")
  /\ coord' = [coord EXCEPT ![c] = "failed"]
  /\ UNCHANGED <<orderVars, synced, routerVars, target, snap, legVars, row, venue>>

\* The failed leg is marked rejected and the call returns Failed.
MarkFailed(c) ==
  /\ coord[c] = "marking"
  /\ UpdateExecution(IntentOf[c], Other(target[c]), "Rejected")
  /\ coord' = [coord EXCEPT ![c] = "failed"]
  /\ UNCHANGED <<orderVars, synced, routerVars, target, snap, legVars, row, venue>>

-----------------------------------------------------------------------------
(* execute_leg, run by the leg's task.                                     *)

\* submit_order returns Ok.  An aborted task that is suspended here is never
\* polled again, so the reply needs the abort not to have happened yet.
VenueReplies(o, r) ==
  /\ leg[o] = "submitting"
  /\ ~aborted[o]
  /\ r # "err"
  /\ reply' = [reply EXCEPT ![o] = r]
  /\ leg' = [leg EXCEPT ![o] = IF r = "ack" THEN "routing" ELSE "applying"]
  /\ venue' = [venue EXCEPT ![o] = IF r = "ack" THEN "live"
                                   ELSE IF r = "fill" THEN "filled" ELSE @]
  /\ UNCHANGED <<orderVars, synced, routerVars, execVars, coordVars, result, aborted, row>>

\* What a venue may hold of an order whose answer never reached the executor.
Unheard == {"none", "live", "filled"}

\* submit_order returns Err: it failed, or it timed out and the venue may have
\* the order all the same.  execute_leg returns the error.
SubmitFails(o) ==
  /\ leg[o] = "submitting"
  /\ ~aborted[o]
  /\ reply' = [reply EXCEPT ![o] = "err"]
  /\ leg' = [leg EXCEPT ![o] = "done"]
  /\ result' = [result EXCEPT ![o] = "error"]
  /\ \E v \in Unheard : venue' = [venue EXCEPT ![o] = v]
  /\ UNCHANGED <<orderVars, synced, routerVars, execVars, coordVars, aborted, row>>

\* process_venue_response, ACK: update_venue_order_id maps the venue's id to
\* whatever order the client_order_id names now.
RouteAck(o) ==
  /\ leg[o] = "routing"
  /\ venueMap' = [venueMap EXCEPT ![o] = clientMap[ClientId(o)]]
  /\ leg' = [leg EXCEPT ![o] = "applying"]
  /\ UNCHANGED <<orderVars, synced, clientMap, execVars, coordVars, reply, result,
                 aborted, row, venue>>

\* process_venue_response: the state machine accepts the reply's event.
ApplyReply(o) ==
  /\ leg[o] = "applying"
  /\ MoveOrder(o, reply[o])
  /\ leg' = [leg EXCEPT ![o] = "queueing"]
  /\ UNCHANGED <<synced, routerVars, execVars, coordVars, reply, result, aborted, row, venue>>

\* Mutant: a refused event is tried again until the order accepts it.
ReplyRefusedRetries(o) ==
  /\ leg[o] = "applying"
  /\ Unguarded(o)
  /\ ~Accepts(status[o], reply[o])
  /\ UNCHANGED vars

\* process_venue_response: the event is an InvalidTransition; the leg fails.
ReplyRefused(o) ==
  /\ leg[o] = "applying"
  /\ Unguarded(o)
  /\ ~Accepts(status[o], reply[o])
  /\ leg' = [leg EXCEPT ![o] = "done"]
  /\ result' = [result EXCEPT ![o] = "error"]
  /\ UNCHANGED <<orderVars, synced, routerVars, execVars, coordVars, reply, aborted,
                 row, venue>>

\* process_event's await completes.
QueueReply(o) ==
  /\ leg[o] = "queueing"
  /\ QueueTransition(o)
  /\ leg' = [leg EXCEPT ![o] = "notifying"]
  /\ UNCHANGED <<synced, routerVars, execVars, coordVars, reply, result, aborted, row, venue>>

\* process_venue_response: update_execution, with the status the reply stands for.
NotifyCoordinator(o) ==
  /\ leg[o] = "notifying"
  /\ UpdateExecution(IntentOf[Call(o)], Leg(o),
                     IF reply[o] = "ack" THEN "Submitted"
                     ELSE IF reply[o] = "reject" THEN "Rejected" ELSE status[o])
  /\ leg' = [leg EXCEPT ![o] = "concluding"]
  /\ UNCHANGED <<orderVars, synced, routerVars, coordVars, reply, result, aborted, row, venue>>

\* execute_leg's result is read back from the order's status.
Conclude(o) ==
  /\ leg[o] = "concluding"
  /\ Unguarded(o)
  /\ leg' = [leg EXCEPT ![o] = "done"]
  /\ result' = [result EXCEPT ![o] = IF status[o] = "Filled" THEN "filled"
                                       ELSE IF status[o] = "Rejected" THEN "rejected"
                                       ELSE "acked"]
  /\ UNCHANGED <<orderVars, synced, routerVars, execVars, coordVars, reply, aborted,
                 row, venue>>

\* The runtime drops an aborted task at an await: while it waits for the venue,
\* which may have the order by then, or inside queue_transition, before the
\* transition is pushed or after.
DropLeg(o) ==
  /\ aborted[o]
  /\ leg[o] \in {"submitting", "queueing"}
  /\ leg' = [leg EXCEPT ![o] = "dropped"]
  /\ moving' = [moving EXCEPT ![o] = IF leg[o] = "queueing" THEN Idle ELSE @]
  /\ \/ UNCHANGED log
     \/ leg[o] = "queueing" /\ log' = [log EXCEPT ![o] = Append(@, moving[o])]
  /\ \/ UNCHANGED venue
     \/ /\ leg[o] = "submitting"
        /\ \E v \in Unheard : venue' = [venue EXCEPT ![o] = v]
  /\ UNCHANGED <<status, acked, synced, routerVars, execVars, coordVars, reply,
                 result, aborted, row>>

-----------------------------------------------------------------------------
(* The fire-and-forget write of an order.                                  *)

\* write_order fails: the error is only logged.
WriteFails(o) ==
  /\ row[o] = "writing"
  /\ row' = [row EXCEPT ![o] = "failed"]
  /\ UNCHANGED <<orderVars, synced, routerVars, execVars, coordVars, legVars, venue>>

\* The orders update_order_id's scan can find for a client_order_id.
Cached(o) == {p \in Orders : ClientId(p) = ClientId(o) /\ status[p] # Absent}

\* write_order succeeds: update_order_id changes the first match of its scan,
\* if there is one already.
WriteSucceeds(o) ==
  /\ row[o] = "writing"
  /\ row' = [row EXCEPT ![o] = "written"]
  /\ \/ /\ Cached(o) = {}
        /\ UNCHANGED synced
     \/ \E p \in Cached(o) :
          /\ Unguarded(p)
          /\ synced' = [synced EXCEPT ![p] = TRUE]
  /\ UNCHANGED <<orderVars, routerVars, execVars, coordVars, legVars, venue>>

-----------------------------------------------------------------------------
CoordStep(c) ==
  \/ Refuse(c) \/ Create(c) \/ Restore(c) \/ Launch(c) \/ LaunchFails(c)
  \/ \E l \in Legs : FirstSucceeds(c, l) \/ FirstFails(c, l)
  \/ SecondSucceeds(c) \/ SecondFails(c)
  \/ ReadTarget(c) \/ CancelTarget(c) \/ QueueCancel(c) \/ CancelAtVenue(c)
  \/ MarkFailed(c)

LegStep(o) ==
  \/ \E r \in Replies : VenueReplies(o, r)
  \/ /\ "err" \in Replies
     /\ SubmitFails(o)
  \/ RouteAck(o) \/ ApplyReply(o) \/ ReplyRefused(o) \/ QueueReply(o)
  \/ NotifyCoordinator(o) \/ Conclude(o) \/ DropLeg(o)

WriteStep(o) ==
  \/ "err" \in DbAnswers /\ WriteFails(o)
  \/ "ok" \in DbAnswers /\ WriteSucceeds(o)

\* Every call has returned and every task has ended.
Settled ==
  /\ \A c \in Calls : coord[c] \in Returned
  /\ \A o \in Orders : leg[o] \in {"none", "done", "dropped"}
  /\ \A o \in Orders : row[o] = "writing" => DbAnswers = {}

Next ==
  \/ \E c \in Calls : CoordStep(c)
  \/ \E o \in Orders : LegStep(o) \/ WriteStep(o)
  \/ Settled /\ UNCHANGED vars

(***************************************************************************)
(* The tokio runtime polls every ready task and drops an aborted one;      *)
(* submit_order and the venue cancel are given timeouts, so each returns.  *)
(* The database owes nothing: write_order has no timeout, and neither has  *)
(* the flush that queue_transition may run, so the two steps that end its  *)
(* await (coord or leg "queueing") are left out.                           *)
(***************************************************************************)
Fairness ==
  /\ \A c \in Calls : WF_vars(coord[c] # "queueing" /\ CoordStep(c))
  /\ \A o \in Orders : /\ WF_vars(leg[o] # "queueing" /\ LegStep(o))
                       /\ WF_vars(DropLeg(o))

Spec     == Init /\ [][Next]_vars
FairSpec == Spec /\ Fairness

-----------------------------------------------------------------------------
(* Safety.                                                                 *)

\* When enqueue_intent ends an execution as Failed, no leg is live in the order
\* cache, and none becomes live afterwards although the aborted task may still
\* be running with the venue's ACK in hand: the cancel of cancel_order and the
\* ACK's guard in process_event decide it in either order.
NoLiveLegAfterFailure ==
  \A o \in Orders :
    coord[Call(o)] = "failed" => status[o] \in {"Pending", "Rejected", "Canceled"}

\* If the rollback did not have to abort a task - the surviving leg had already
\* returned - then by the time the call returns every order whose ACK a leg's
\* task received is canceled, or its cancel was sent and refused.  Of an order
\* whose submission timed out the executor has no venue id; nobody cancels it.
RollbackReachesVenue ==
  \A c \in Calls :
    (coord[c] = "failed" /\ \A l \in Legs : ~aborted[<<c, l>>])
      => \A l \in Legs : reply[<<c, l>>] = "ack" => venue[<<c, l>>] # "live"

\* The verdict of the call and the status recorded in active_executions do not
\* contradict each other, now or after late updates by a leg's task.
VerdictsAgree ==
  \A c \in Calls :
    /\ coord[c] = "completed" => execStatus[IntentOf[c]] \notin {"Failed", "Canceled"}
    /\ coord[c] = "failed"    => execStatus[IntentOf[c]] = "Failed"

\* Once an order counts as submitted the router can route the venue's events to
\* it: the map is filled before the state machine hears of the ACK.
SubmittedIsRoutable ==
  \A o \in Orders : acked[o] => venueMap[o] = o

\* The transitions handed to the writer start at Pending and link up.
Linked(s) ==
  /\ s # <<>> => s[1].from = "Pending"
  /\ \A n \in 1 .. Len(s) - 1 : s[n + 1].from = s[n].to

\* The order's status, as the queued transitions tell it.
Replay(s) == IF s = <<>> THEN "Pending" ELSE s[Len(s)].to

\* Transitions s are the order's whole history, up to the one being queued.
Tells(s, o) == Linked(s) /\ (Unguarded(o) => Replay(s) = status[o])

\* The writer is handed every transition once and in order.  An abort inside
\* process_event's await loses one of them, the reply's, and no other: with it
\* put back, in front of the coordinator's cancel or behind it, the history is
\* whole again.
LogReplays ==
  \A o \in Orders :
    status[o] # Absent =>
      \/ Tells(log[o], o)
      \/ /\ leg[o] = "dropped"
         /\ \E t \in Transition :
              /\ t.to \in Leads(reply[o])
              /\ Tells(<<t>> \o log[o], o) \/ Tells(Append(log[o], t), o)

(* Liveness.                                                               *)

\* No order's guard is held for ever over the await of queue_transition, which
\* may flush a batch to the database with no timeout.
GuardsReturned == \A o \in Orders : []<>Unguarded(o)

\* If the writer answers whoever queues a transition, every call that began
\* comes to an end, whatever the venues answer, whether or not the orders' rows
\* are ever written, and however the two tasks interleave with the rollback.
EnqueueReturns ==
  GuardsReturned =>
    \A c \in Calls : (coord[c] # "idle") ~> (coord[c] \in Returned)

\* If the writer answers, no leg task outlives its execution for ever: it ends,
\* or the abort reaches it.
LegsEnd ==
  GuardsReturned =>
    \A o \in Orders : (leg[o] # "none") ~> (leg[o] \in {"done", "dropped"})

(* Refinement.                                                             *)

\* What a call has reported, by how far it has come.
Verdict(pc) == IF pc \in {"invalid", "unroutable"} THEN "refused"
               ELSE IF pc \in {"completed", "failed"} THEN pc ELSE "open"

\* What the cache says of an order, for the one question that matters.
Book(s) == IF s \in {Absent, "Pending"} THEN "idle"
           ELSE IF s \in {"Rejected", "Canceled"} THEN "dead" ELSE "live"

\* The abstract execution: what the call reported and what the cache says.
Outcome == INSTANCE ArbOutcome WITH
  verdict <- [c \in Calls |-> Verdict(coord[c])],
  book    <- [o \in Orders |-> Book(status[o])]

\* The coordinator implements ArbOutcome: it completes only with both legs live,
\* fails only with none, and nothing happens to a leg after the verdict.
ImplementsOutcome == Outcome!Spec

-----------------------------------------------------------------------------
(* What the code's own words say, and the code does not do.                *)

\* "Coordinated Cancellation: tokio::select! + abort() for instant rollback":
\* a failed execution leaves nothing live at a venue that acknowledged the order,
\* once its tasks are over.
FailureLeavesNothingAtVenue ==
  \A c \in Calls :
    (coord[c] = "failed" /\ \A l \in Legs : leg[<<c, l>>] \in {"done", "dropped"})
      => \A l \in Legs : reply[<<c, l>>] = "ack" => venue[<<c, l>>] # "live"

=============================================================================
