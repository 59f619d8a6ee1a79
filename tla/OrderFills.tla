----------------------------- MODULE OrderFills -----------------------------
(***************************************************************************)
(* From the venue's trades to an order's filled size.  A venue trades an   *)
(* order it accepted, piece by piece, and announces each trade once or     *)
(* twice; the announcements overtake each other and the ACK.  A pump hands *)
(* each one to OrderRouter::route_event and the order it names to          *)
(* StateMachine::process_event.  The pump is external: the engine gives    *)
(* its simulators no fill callback (engine.rs:113-123) and they only log   *)
(* their fills, so nothing is assumed of it but the two calls, and no      *)
(* fairness.  Meanwhile the executor brings the answer of submit_order and *)
(* the coordinator may cancel.                                             *)
(*                                                                         *)
(* process_event holds the order's RefMut, so it is one step here; what    *)
(* its wait for the writer does is in ArbExecution and ShardGuard.         *)
(***************************************************************************)
EXTENDS OrderLifecycle, FixedPoint, Sequences, SequencesExt, FiniteSets, SeqFunctions

CONSTANTS
  Orders,      \* orders; two of them may come from one intent enqueued twice
  ClientIds,   \* client_order_ids
  Sizes,       \* sizes an order may have
  Pieces,      \* sizes a real venue may trade, next to the simulator's
  Scale,       \* size_scale of every order
  FillScales,  \* scales in which a venue may announce a size
  MaxTrades,   \* bound: trades of all orders
  MaxTwice,    \* bound: the first trades, which may be announced twice
  MaxLoad,     \* bound: registered orders and trades together
  NoOrder      \* no entry in a router map

ASSUME FillsAssumption ==
  /\ IsFiniteSet(Orders)
  /\ Sizes \subseteq 1..MaxInt
  /\ Pieces \subseteq 0..MaxInt
  /\ Scale \in FillScales
  /\ \A s \in FillScales : s \in Nat /\ s >= Scale /\ 10^(s - Scale) \in 1..MaxInt
  /\ MaxTrades \in Nat /\ MaxTwice \in Nat /\ MaxLoad \in Nat
  /\ NoOrder \notin Orders

VARIABLES
  client,     \* Order.client_order_id
  total,      \* OrderState.total_size_int
  phase,      \* how far the coordinator and the order's executor are
  clientMap,  \* OrderRouter.client_order_map
  venueMap,   \* OrderRouter.venue_order_map, keyed by the order the venue's id is of
  status,     \* OrderState.status, or Absent
  filled,     \* OrderState.filled_size_int
  log,        \* OrderState.transitions
  live,       \* the venue accepted the order
  trades      \* the venue's trades and where their announcements are

requestVars == <<client, total>>
routerVars  == <<clientMap, venueMap>>
orderVars   == <<status, filled, log>>
venueVars   == <<live, trades>>
vars == <<requestVars, phase, routerVars, orderVars, venueVars>>

-----------------------------------------------------------------------------
Phase == {"new", "registered", "cached", "acked", "routed", "answered"}

\* of: the order traded; size: at the order's scale; scale: of the announcement;
\* named: it carries the client_order_id next to the venue's id; due:
\* announcements not routed yet; at: routed ones, by the order they name;
\* lost: announcements with no route, or refused by process_event; wrapped: its
\* addition overflowed.
Trade == [of : Orders, size : 0..MaxInt, scale : FillScales, named : BOOLEAN,
          due : Nat, at : [Orders -> Nat], lost : Nat, wrapped : BOOLEAN]

\* trade: position in trades, 0 for other events.
Transition == [kind : EventKind, trade : Nat, from : Status, to : Status]

\* Shape of the state.
TypeOK ==
  /\ client \in [Orders -> ClientIds]
  /\ total \in [Orders -> Sizes]
  /\ phase \in [Orders -> Phase]
  /\ clientMap \in [ClientIds -> Orders \cup {NoOrder}]
  /\ venueMap \in [Orders -> Orders \cup {NoOrder}]
  /\ status \in [Orders -> Status \cup {Absent}]
  /\ filled \in [Orders -> MinInt..MaxInt]
  /\ log \in [Orders -> Seq(Transition)]
  /\ live \in [Orders -> BOOLEAN]
  /\ trades \in Seq(Trade)

\* generate_client_order_id: one id means one intent and leg, so one size.
Init ==
  /\ client \in [Orders -> ClientIds]
  /\ total \in [Orders -> Sizes]
  /\ \A o, p \in Orders : client[o] = client[p] => total[o] = total[p]
  /\ phase = [o \in Orders |-> "new"]
  /\ clientMap = [c \in ClientIds |-> NoOrder]
  /\ venueMap = [o \in Orders |-> NoOrder]
  /\ status = [o \in Orders |-> Absent]
  /\ filled = [o \in Orders |-> 0]
  /\ log = [o \in Orders |-> <<>>]
  /\ live = [o \in Orders |-> FALSE]
  /\ trades = <<>>

\* The bound of orders and trades leaves room for one more.
Spare == Len(trades) + Cardinality({o \in Orders : phase[o] # "new"}) < MaxLoad

-----------------------------------------------------------------------------
(* OrderRouter.                                                            *)

RegisterOrder(o) == clientMap' = [clientMap EXCEPT ![client[o]] = o]

\* update_venue_order_id: the venue's id now names the order the client id names.
UpdateVenueOrderId(o) ==
  venueMap' = IF clientMap[client[o]] = NoOrder THEN venueMap
              ELSE [venueMap EXCEPT ![o] = clientMap[client[o]]]

\* route_event: the venue's id first, then the client id if the event has one.
RouteEvent(o, named) ==
  IF venueMap[o] # NoOrder THEN venueMap[o]
  ELSE IF named THEN clientMap[client[o]] ELSE NoOrder

\* unregister_order removes the venue's id only if the Order it is given holds it.
UnregisterOrder(o, known) ==
  /\ venueMap' = IF known THEN [venueMap EXCEPT ![o] = NoOrder] ELSE venueMap
  /\ clientMap' = [clientMap EXCEPT ![client[o]] = NoOrder]

-----------------------------------------------------------------------------
(* StateMachine::process_event.                                            *)

\* The size of a trade as its announcement says it.
Announced(t) == trades[t].size * 10^(trades[t].scale - Scale)

\* Mutant: an order is filled only above its size.
FillLeadsAbove(o, n) == IF n > total[o] THEN "Filled" ELSE "Partial"

\* Mutant: any fill fills the order.
FillLeadsAlways(o, n) == IF n > 0 THEN "Filled" ELSE "Partial"

\* Mutant: an order that overshoots its size is not filled.
FillLeadsExactly(o, n) == IF n = total[o] THEN "Filled" ELSE "Partial"

FillLeads(o, n) == IF n >= total[o] THEN "Filled" ELSE "Partial"

\* The event is accepted and leads to s with the filled size n.
Transit(o, kind, t, s, n) ==
  /\ status' = [status EXCEPT ![o] = s]
  /\ filled' = [filled EXCEPT ![o] = n]
  /\ log' = [log EXCEPT ![o] =
               Append(@, [kind |-> kind, trade |-> t, from |-> status[o], to |-> s])]

\* An ACK, a reject, a timeout or a cancel; an ACK out of place changes nothing.
ProcessEvent(o, kind) ==
  IF Accepts(status[o], kind)
  THEN \E s \in Leads(kind) : Transit(o, kind, 0, s, filled[o])
  ELSE UNCHANGED orderVars

\* Mutant: the filled size is kept in a wider integer than the order's.
BookUnbounded(o, t) ==
  LET n == filled[o] + Announced(t) IN Transit(o, "fill", t, FillLeads(o, n), n)

\* A fill in place: the announced size is added as it stands, in machine integers.
Book(o, t) ==
  LET n == Wrap(filled[o] + Announced(t)) IN Transit(o, "fill", t, FillLeads(o, n), n)

-----------------------------------------------------------------------------
(* The coordinator and the executor of one order.                          *)

\* enqueue_intent registers the order, then puts it in the cache.
Register(o) ==
  /\ phase[o] = "new" /\ Spare
  /\ RegisterOrder(o)
  /\ phase' = [phase EXCEPT ![o] = "registered"]
  /\ UNCHANGED <<requestVars, venueMap, orderVars, venueVars>>

Restore(o) ==
  /\ phase[o] = "registered"
  /\ status' = [status EXCEPT ![o] = "Pending"]
  /\ phase' = [phase EXCEPT ![o] = "cached"]
  /\ UNCHANGED <<requestVars, routerVars, filled, log, venueVars>>

\* submit_order reaches the venue, which may trade from now on.
Accept(o) ==
  /\ phase[o] = "cached" /\ ~live[o]
  /\ live' = [live EXCEPT ![o] = TRUE]
  /\ UNCHANGED <<requestVars, phase, routerVars, orderVars, trades>>

\* The venue's ACK: the router first, then the order.
Acknowledged(o) ==
  /\ phase[o] = "cached" /\ live[o]
  /\ phase' = [phase EXCEPT ![o] = "acked"]
  /\ UNCHANGED <<requestVars, routerVars, orderVars, venueVars>>

RouteAck(o) ==
  /\ phase[o] = "acked"
  /\ UpdateVenueOrderId(o)
  /\ phase' = [phase EXCEPT ![o] = "routed"]
  /\ UNCHANGED <<requestVars, clientMap, orderVars, venueVars>>

ApplyAck(o) ==
  /\ phase[o] = "routed"
  /\ ProcessEvent(o, "ack")
  /\ phase' = [phase EXCEPT ![o] = "answered"]
  /\ UNCHANGED <<requestVars, routerVars, venueVars>>

Rejected(o) ==
  /\ phase[o] = "cached" /\ ~live[o]
  /\ ProcessEvent(o, "reject")
  /\ phase' = [phase EXCEPT ![o] = "answered"]
  /\ UNCHANGED <<requestVars, routerVars, venueVars>>

\* submit_order fails or times out, whether or not the venue took the order.
SubmitFails(o) ==
  /\ phase[o] = "cached"
  /\ phase' = [phase EXCEPT ![o] = "answered"]
  /\ UNCHANGED <<requestVars, routerVars, orderVars, venueVars>>

\* The coordinator rolls back, once per order.  (No code sends the timeout event,
\* which process_event treats in the same way.)
Cancel(o) ==
  /\ phase[o] \notin {"new", "registered"}
  /\ \A i \in DOMAIN log[o] : log[o][i].kind # "cancel"
  /\ ProcessEvent(o, "cancel")
  /\ UNCHANGED <<requestVars, phase, routerVars, venueVars>>

\* The pump's owner is through with an ended order.
Unregister(o) ==
  /\ phase[o] = "answered" /\ IsTerminal(status[o])
  /\ clientMap[client[o]] # NoOrder \/ venueMap[o] # NoOrder
  /\ \E known \in BOOLEAN : UnregisterOrder(o, known)
  /\ UNCHANGED <<requestVars, phase, orderVars, venueVars>>

-----------------------------------------------------------------------------
(* The venue and the pump.                                                 *)

TradesOf(S) == {t \in DOMAIN trades : trades[t].of \in S}
SumOf(T)    == Total([t \in DOMAIN trades |-> IF t \in T THEN trades[t].size ELSE 0])
Traded(o)   == SumOf(TradesOf({o}))

\* generate_fill: all of the order, or from 50% to below 90% of it.
SimulatorFill(n) == {n} \cup {SaturatingMul(n, pct) \div 10000 : pct \in {5000, 8999}}

NewTrade(o, size, scale, named, due) ==
  [of |-> o, size |-> size, scale |-> scale, named |-> named, due |-> due,
   at |-> [p \in Orders |-> 0], lost |-> 0, wrapped |-> FALSE]

\* A venue never trades more than the order, before, during or after a cancel:
\* the simulator's cancel_order does not stop a fill under way.
VenueTrades(o) ==
  /\ live[o] /\ Len(trades) < MaxTrades /\ Spare
  /\ \E size \in SimulatorFill(total[o]) \cup Pieces, scale \in FillScales,
        named \in BOOLEAN, due \in {1, 2} :
       /\ due = 2 => Len(trades) < MaxTwice
       /\ Traded(o) + size <= total[o]
       /\ Fits(size * 10^(scale - Scale))
       /\ trades' = Append(trades, NewTrade(o, size, scale, named, due))
  /\ UNCHANGED <<requestVars, phase, routerVars, orderVars, live>>

\* submit_order's answer is a fill: the executor hands it to process_event with
\* the order's own id, past the router and without an ACK.
AnsweredByFill(o) ==
  /\ phase[o] = "cached" /\ live[o] /\ Len(trades) < MaxTrades /\ Spare
  /\ Traded(o) = 0
  /\ phase' = [phase EXCEPT ![o] = "answered"]
  /\ trades' = Append(trades, [NewTrade(o, total[o], Scale, TRUE, 0) EXCEPT !.at[o] = 1])
  /\ UNCHANGED <<requestVars, routerVars, orderVars, live>>

\* The pump asks the router whose an announcement is.
Route(t) ==
  LET o == RouteEvent(trades[t].of, trades[t].named)
  IN  /\ trades[t].due > 0
      /\ trades' = IF o = NoOrder
                   THEN [trades EXCEPT ![t].due = @ - 1, ![t].lost = @ + 1]
                   ELSE [trades EXCEPT ![t].due = @ - 1, ![t].at[o] = @ + 1]
      /\ UNCHANGED <<requestVars, phase, routerVars, orderVars, live>>

\* process_event with a fill; an order that is not in the cache yet, a twin
\* registered a moment ago, is not found.
FillBooked(t, o) ==
  /\ trades[t].at[o] > 0
  /\ Accepts(status[o], "fill")
  /\ Book(o, t)
  /\ trades' = [trades EXCEPT ![t].at[o] = @ - 1,
                              ![t].wrapped = @ \/ ~Fits(filled[o] + Announced(t))]
  /\ UNCHANGED <<requestVars, phase, routerVars, live>>

\* Mutant: the size is added before the status is looked at.
FillRefusedLate(t, o) ==
  /\ trades[t].at[o] > 0
  /\ ~Accepts(status[o], "fill")
  /\ filled' = [filled EXCEPT ![o] = Wrap(@ + Announced(t))]
  /\ trades' = [trades EXCEPT ![t].at[o] = @ - 1, ![t].lost = @ + 1]
  /\ UNCHANGED <<requestVars, phase, routerVars, status, log, live>>

FillRefused(t, o) ==
  /\ trades[t].at[o] > 0
  /\ ~Accepts(status[o], "fill")
  /\ trades' = [trades EXCEPT ![t].at[o] = @ - 1, ![t].lost = @ + 1]
  /\ UNCHANGED <<requestVars, phase, routerVars, orderVars, live>>

\* Mutant: the status is assigned before the addition.
FillPanicsHalfway(t, o) ==
  /\ trades[t].at[o] > 0
  /\ Accepts(status[o], "fill")
  /\ ~Fits(filled[o] + Announced(t))
  /\ status' = [status EXCEPT ![o] = "Filled"]
  /\ trades' = [trades EXCEPT ![t].at[o] = @ - 1, ![t].wrapped = TRUE]
  /\ UNCHANGED <<requestVars, phase, routerVars, filled, log, live>>

\* A build with overflow checks panics in the addition, before it assigns.
FillPanics(t, o) ==
  /\ trades[t].at[o] > 0
  /\ Accepts(status[o], "fill")
  /\ ~Fits(filled[o] + Announced(t))
  /\ trades' = [trades EXCEPT ![t].at[o] = @ - 1, ![t].wrapped = TRUE]
  /\ UNCHANGED <<requestVars, phase, routerVars, orderVars, live>>

ProcessFill(t, o) == FillBooked(t, o) \/ FillRefused(t, o) \/ FillPanics(t, o)

-----------------------------------------------------------------------------
ExecutorStep(o) == RouteAck(o) \/ ApplyAck(o)
PumpStep(t)     == Route(t) \/ \E o \in Orders : ProcessFill(t, o)

Next ==
  \/ \E o \in Orders :
       \/ Register(o) \/ Restore(o) \/ Accept(o) \/ Acknowledged(o)
       \/ ExecutorStep(o) \/ Rejected(o) \/ SubmitFails(o)
       \/ Cancel(o) \/ Unregister(o) \/ VenueTrades(o) \/ AnsweredByFill(o)
  \/ \E t \in DOMAIN trades : PumpStep(t)

Spec == Init /\ [][Next]_vars

-----------------------------------------------------------------------------
(***************************************************************************)
(* Properties.                                                             *)
(***************************************************************************)

Twins(o)  == {p \in Orders : client[p] = client[o] /\ phase[p] # "new"}

\* What each transition of an order added to its filled size.
Executed(o) ==
  [i \in DOMAIN log[o] |-> IF log[o][i].kind = "fill" THEN Announced(log[o][i].trade) ELSE 0]

\* The transitions that booked a trade.
Booked(t) == UNION {{o} \X {i \in DOMAIN log[o] : log[o][i].trade = t} : o \in Orders}

\* The filled sizes of a set of orders, added up.
OrderSeq    == SetToSeq(Orders)
FilledOf(S) == Total([i \in DOMAIN OrderSeq |->
                        IF OrderSeq[i] \in S THEN filled[OrderSeq[i]] ELSE 0])

\* Status and filled size are what replaying the transitions gives, also when
\* events were refused in between, came twice, or overflowed.
FilledReplays ==
  \A o \in Orders :
    /\ filled[o] = Wrap(Total(Executed(o)))
    /\ log[o] # <<>> => status[o] = Last(log[o]).to
    /\ \A i \in 2..Len(log[o]) : log[o][i].from = log[o][i - 1].to

\* A reject or a cancel may overwrite a terminal status with another one, and a
\* trade or an ACK may arrive after it; the order never comes back to life, and what
\* it had executed by then stays as it was.
EndedStaysEnded ==
  [][\A o \in Orders :
       IsTerminal(status[o]) => IsTerminal(status'[o]) /\ filled'[o] = filled[o]]_vars

\* An order called filled was filled: as long as its venue announces in the
\* order's scale and no trade was booked twice, the orders of a client id never
\* show more than the venue traded of them, and one that says Filled has a
\* venue that traded it all.  (One intent enqueued twice shares the client id;
\* its orders' trades may be booked to the wrong twin, but are not invented.)
FilledIsTraded ==
  \A o \in Orders :
    LET T == TradesOf(Twins(o))
    IN  (\A t \in T : trades[t].scale = Scale /\ Cardinality(Booked(t)) <= 1) =>
          /\ FilledOf(Twins(o)) <= SumOf(T)
          /\ status[o] = "Filled" => SumOf(T) >= total[o]

\* The comment in process_event, "both use same scale": wherever that is so, the
\* order becomes Filled exactly when add_scaled and compare_scaled, which the
\* code does not call, say that the size is reached; and where add_scaled
\* reports an overflow, the order does not become Filled.
FillsAgreeWithFixedPoint ==
  \A t \in DOMAIN trades, o \in Orders :
    (trades[t].at[o] > 0 /\ Accepts(status[o], "fill") /\ trades[t].scale = Scale) =>
      LET sum == AddScaled(<<filled[o], Scale>>, <<Announced(t), trades[t].scale>>)
          now == FillLeads(o, Wrap(filled[o] + Announced(t)))
      IN  (now = "Filled") <=> (/\ sum.tag = "ok"
                                /\ CompareScaled(<<sum.value, sum.scale>>,
                                                 <<total[o], Scale>>) >= 0)

\* An order that was executed in full and has booked it has ended: once its own
\* transitions book every trade of a venue that traded all of it, each once or
\* twice, in any order and in any scale, and no addition overflowed, the order is
\* not left Partial.
ExecutedIsShown ==
  \A o \in Orders :
    LET seen == {log[o][i].trade : i \in DOMAIN log[o]} \ {0}
    IN  (/\ Traded(o) = total[o]
         /\ TradesOf({o}) \subseteq seen
         /\ \A t \in seen : ~trades[t].wrapped)
          => IsTerminal(status[o])

\* Numbers at the edges of the machine's integers, in three scales.
Operands == {v \in {0} \cup UNION {{n, -n, n - MaxInt, MaxInt - n} : n \in {0} \cup Sizes \cup Pieces} :
               Fits(v)} \X (0..2)

\* The operands do not depend on the state: they are compared once per set of
\* orders.
Untouched == \A o \in Orders : phase[o] = "new"

\* On every pair of Operands, add_scaled, subtract_scaled and compare_scaled are
\* exact if aligning the scales does not wrap, and multiply_scaled always; what does
\* not fit is an error.  Where it wraps, a sum or difference that is returned is off
\* by a multiple of 2^w.  divide_scaled gives the quotient of the two integers to one
\* unit of its last digit: a/b for equal scales, and off by the power of ten of the
\* scales' difference for others.
ArithmeticIsExact == Untouched => \A a, b \in Operands : ExactFor(a, b)

=============================================================================
