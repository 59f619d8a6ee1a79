------------------------- MODULE OrderFills_proofs --------------------------
(***************************************************************************)
(* Proofs about OrderFills for every width of the machine's integers, any  *)
(* orders and sizes, and any venue.                                        *)
(***************************************************************************)
EXTENDS OrderFills, SeqFunctions_proofs, FiniteSetTheorems, TLAPS

-----------------------------------------------------------------------------
(* Machine integers.                                                       *)

LEMMA WrapFits == \A x \in Int : Fits(Wrap(x))
BY MaxIntAssumption DEF Fits, Wrap, MinInt

LEMMA WrapKeeps == \A x \in Int : Fits(x) => Wrap(x) = x
BY MaxIntAssumption DEF Fits, Wrap, MinInt

\* A sum of two machine integers above MaxInt wraps to a negative number.
LEMMA WrapNegative ==
  \A x, y \in Int : Fits(x) /\ Fits(y) /\ x + y > MaxInt => Wrap(x + y) < 0
BY MaxIntAssumption, Z3 DEF Fits, Wrap, MinInt

\* The low bits decide what Wrap returns: it has the period 2 * (MaxInt + 1), so
\* that wrapping a part of a sum early changes nothing.
LEMMA SmallMultiple ==
  ASSUME NEW M \in Nat \ {0}, NEW d \in Int, NEW e \in Int, d * M = e, -M < e, e < M
  PROVE  d = 0
<1>1. CASE d >= 1
  BY <1>1
<1>2. CASE d <= -1
  BY <1>2
<1> QED
  BY <1>1, <1>2

LEMMA Division ==
  ASSUME NEW M \in Nat \ {0}, NEW x \in Int
  PROVE  x % M \in 0..(M - 1) /\ \E k \in Int : x = k * M + (x % M)
<1>1. x % M \in 0..(M - 1)
  OBVIOUS
<1>2. x = (x \div M) * M + (x % M) /\ x \div M \in Int
  OBVIOUS
<1> QED
  BY <1>1, <1>2, Zenon

LEMMA RemainderPeriod ==
  ASSUME NEW M \in Nat \ {0}, NEW x \in Int, NEW y \in Int, NEW k \in Int, y = x + k * M
  PROVE  x % M = y % M
<1> DEFINE r == x % M
           u == y % M
<1>1. PICK p \in Int : x = p * M + r
  BY Division
<1>2. PICK q \in Int : y = q * M + u
  BY Division
<1>3. r \in 0..(M - 1) /\ u \in 0..(M - 1)
  BY Division
<1> HIDE DEF r, u
<1>4. (p + k - q) * M = u - r
  <2>1. (p + k - q) * M = p * M + k * M - q * M
    OBVIOUS
  <2>2. p * M \in Int /\ k * M \in Int /\ q * M \in Int
    OBVIOUS
  <2> QED
    BY <1>1, <1>2, <1>3, <2>1, <2>2
<1>5. p + k - q = 0
  BY <1>3, <1>4, SmallMultiple
<1>6. r = u
  BY <1>3, <1>4, <1>5
<1> QED
  BY <1>6 DEF r, u

LEMMA WrapPeriod ==
  ASSUME NEW x \in Int, NEW y \in Int, NEW k \in Int, y = x + k * (2 * (MaxInt + 1))
  PROVE  Wrap(x) = Wrap(y)
<1> DEFINE M  == 2 * (MaxInt + 1)
           a  == x - MinInt
           b  == y - MinInt
           km == k * M
<1>1. M \in Nat \ {0} /\ a \in Int /\ b \in Int
  BY MaxIntAssumption DEF MinInt
<1>2. b = a + km
  <2>1. MinInt \in Int /\ km \in Int /\ y = x + km
    BY MaxIntAssumption DEF MinInt
  <2> HIDE DEF km
  <2> QED
    BY <2>1
<1>3. Wrap(x) = (a % M) + MinInt /\ Wrap(y) = (b % M) + MinInt
  BY DEF Wrap
<1> HIDE DEF M, a, b
<1>4. a % M = b % M
  BY <1>1, <1>2, RemainderPeriod
<1> QED
  BY <1>3, <1>4

LEMMA WrapAdds ==
  ASSUME NEW x \in Int, NEW y \in Int
  PROVE  Wrap(Wrap(x) + y) = Wrap(x + y)
<1> DEFINE M == 2 * (MaxInt + 1)
           a == x - MinInt
           r == a % M
           w == Wrap(x)
<1>1. M \in Nat \ {0} /\ MinInt \in Int /\ a \in Int
  BY MaxIntAssumption DEF MinInt
<1>2. w = r + MinInt
  BY DEF Wrap
<1> HIDE DEF M
<1>3. PICK k \in Int : a = k * M + r
  <2> HIDE DEF a
  <2> QED
    BY <1>1, Division
<1> DEFINE km == k * M
<1>4. r \in Int /\ km \in Int /\ a = km + r /\ a = x - MinInt
  BY <1>1, <1>3, Division
<1>5. w + y \in Int /\ x + y \in Int /\ x + y = (w + y) + km
  <2> HIDE DEF a, r, km, w
  <2> QED
    BY <1>1, <1>2, <1>4
<1> HIDE DEF w
<1>6. Wrap(w + y) = Wrap(x + y)
  BY <1>5, WrapPeriod DEF M
<1> QED
  BY <1>6 DEF w

\* Nothing that is not negative wraps to more than itself.
LEMMA WrapShrinks == \A x \in Nat : Wrap(x) <= x
<1> SUFFICES ASSUME NEW x \in Nat PROVE Wrap(x) <= x
  OBVIOUS
<1>1. CASE Fits(x)
  BY <1>1, WrapKeeps
<1>2. CASE ~Fits(x)
  <2>1. x > MaxInt
    BY <1>2, MaxIntAssumption DEF Fits, MinInt
  <2>2. Wrap(x) \in MinInt..MaxInt
    BY WrapFits DEF Fits
  <2> QED
    BY <2>1, <2>2, MaxIntAssumption DEF MinInt
<1> QED
  BY <1>1, <1>2

\* fixed_point.rs on operands of one scale: add_scaled is exact or an overflow,
\* and compare_scaled is the order of the integers.
LEMMA AddOneScale ==
  ASSUME NEW x \in Int, NEW y \in Int, NEW s \in Nat
  PROVE  AddScaled(<<x, s>>, <<y, s>>) =
           IF Fits(x + y) THEN Ok(x + y, s) ELSE Err("overflow")
<1>1. Larger(s, s) = s /\ Aligned(x, s, s) = x /\ Aligned(y, s, s) = y
  BY DEF Larger, Aligned
<1> QED
  BY <1>1 DEF AddScaled, Checked

LEMMA CompareOneScale ==
  ASSUME NEW x \in Int, NEW y \in Int, NEW s \in Nat
  PROVE  CompareScaled(<<x, s>>, <<y, s>>) >= 0 <=> x >= y
<1>1. Larger(s, s) = s /\ Aligned(x, s, s) = x /\ Aligned(y, s, s) = y
  BY DEF Larger, Aligned
<1> QED
  BY <1>1 DEF CompareScaled

-----------------------------------------------------------------------------
(* Type correctness.                                                       *)

OrderTypeOK ==
  /\ status \in [Orders -> Status \cup {Absent}]
  /\ filled \in [Orders -> MinInt..MaxInt]
  /\ log \in [Orders -> Seq(Transition)]

\* What a venue announces is an integer.
LEMMA AnnouncedType ==
  ASSUME TypeOK, NEW t \in DOMAIN trades
  PROVE  trades[t] \in Trade /\ Announced(t) \in Int
<1>1. trades[t] \in Trade
  BY DEF TypeOK
<1>2. trades[t].size \in Int /\ trades[t].scale \in FillScales
  BY <1>1, MaxIntAssumption DEF Trade
<1>3. 10^(trades[t].scale - Scale) \in Int
  BY <1>2, FillsAssumption, MaxIntAssumption DEF Fits, MinInt
<1> QED
  BY <1>1, <1>2, <1>3 DEF Announced

LEMMA TransitType ==
  ASSUME TypeOK, NEW o \in Orders, NEW kind \in EventKind, NEW t \in Nat,
         NEW s \in Status, NEW n \in MinInt..MaxInt, Transit(o, kind, t, s, n),
         status[o] \in Status
  PROVE  OrderTypeOK'
<1> DEFINE e == [kind |-> kind, trade |-> t, from |-> status[o], to |-> s]
<1>1. e \in Transition
  BY DEF Transition
<1>2. Append(log[o], e) \in Seq(Transition)
  BY <1>1 DEF TypeOK
<1> QED
  BY <1>2 DEF TypeOK, OrderTypeOK, Transit

LEMMA ProcessEventType ==
  ASSUME TypeOK, NEW o \in Orders, NEW kind \in EventKind, ProcessEvent(o, kind),
         status[o] # Absent
  PROVE  OrderTypeOK'
<1>1. CASE UNCHANGED orderVars
  BY <1>1 DEF orderVars, TypeOK, OrderTypeOK
<1>2. ASSUME NEW s \in Leads(kind), Transit(o, kind, 0, s, filled[o])
      PROVE  OrderTypeOK'
  <2>1. s \in Status /\ status[o] \in Status /\ filled[o] \in MinInt..MaxInt
    BY DEF Leads, TypeOK
  <2> QED
    BY <1>2, <2>1, TransitType
<1> QED
  BY <1>1, <1>2 DEF ProcessEvent

\* An order is in the cache from restore_order on.
Cached == \A o \in Orders : phase[o] \notin {"new", "registered"} => status[o] # Absent

FillsInv == TypeOK /\ Cached

LEMMA FillsInitInv == Init => FillsInv
<1> SUFFICES ASSUME Init PROVE FillsInv
  OBVIOUS
<1>1. 0 \in MinInt..MaxInt
  BY MaxIntAssumption DEF MinInt
<1> QED
  BY <1>1 DEF Init, FillsInv, TypeOK, Cached, Phase

\* What an event may change: the order it is for, and nothing else.
LEMMA TransitCached ==
  ASSUME FillsInv, NEW o \in Orders, NEW kind, NEW t, NEW s \in Status, NEW n,
         Transit(o, kind, t, s, n)
  PROVE  \A p \in Orders : status[p] # Absent => status'[p] # Absent
BY DEF FillsInv, TypeOK, Transit, Status, Absent

LEMMA ProcessEventCached ==
  ASSUME FillsInv, NEW o \in Orders, NEW kind, ProcessEvent(o, kind)
  PROVE  \A p \in Orders : status[p] # Absent => status'[p] # Absent
<1>1. Leads(kind) \subseteq Status
  BY DEF Leads
<1> QED
  BY <1>1, TransitCached DEF ProcessEvent, orderVars

(* The coordinator's and the executor's steps that feed an order an event. *)
LEMMA AnswerInv ==
  ASSUME FillsInv, NEW o \in Orders,
         \/ ApplyAck(o) \/ Rejected(o) \/ Cancel(o)
  PROVE  FillsInv'
<1>1. /\ phase[o] \notin {"new", "registered"}
      /\ \E kind \in EventKind : ProcessEvent(o, kind)
      /\ phase' \in {phase, [phase EXCEPT ![o] = "answered"]}
      /\ UNCHANGED <<requestVars, routerVars, venueVars>>
  BY DEF ApplyAck, Rejected, Cancel, EventKind
<1>2. status[o] # Absent
  BY <1>1 DEF FillsInv, Cached
<1>3. OrderTypeOK'
  BY <1>1, <1>2, ProcessEventType DEF FillsInv
<1>4. \A p \in Orders : status[p] # Absent => status'[p] # Absent
  BY <1>1, ProcessEventCached
<1>5. TypeOK'
  BY <1>1, <1>3 DEF FillsInv, TypeOK, OrderTypeOK, requestVars, routerVars, venueVars, Phase
<1>6. Cached'
  BY <1>1, <1>2, <1>4 DEF FillsInv, Cached, TypeOK
<1> QED
  BY <1>5, <1>6 DEF FillsInv

(* The steps that touch no order's status. *)
LEMMA OutsideInv ==
  ASSUME FillsInv, NEW o \in Orders,
         \/ Register(o) \/ Accept(o) \/ Acknowledged(o) \/ RouteAck(o) \/ SubmitFails(o)
         \/ Unregister(o)
  PROVE  FillsInv'
<1>1. /\ UNCHANGED <<requestVars, orderVars, trades>>
      /\ live' \in {live, [live EXCEPT ![o] = TRUE]}
      /\ \/ phase' = phase
         \/ phase[o] = "new" /\ phase' = [phase EXCEPT ![o] = "registered"]
         \/ /\ phase[o] \in {"cached", "acked"}
            /\ \E q \in {"acked", "routed", "answered"} : phase' = [phase EXCEPT ![o] = q]
  BY DEF Register, Accept, Acknowledged, RouteAck, SubmitFails, Unregister, venueVars
<1>2. clientMap' \in [ClientIds -> Orders \cup {NoOrder}]
  BY DEF Register, RegisterOrder, Accept, Acknowledged, RouteAck, SubmitFails, Unregister,
         UnregisterOrder, routerVars, FillsInv, TypeOK
<1>3. venueMap' \in [Orders -> Orders \cup {NoOrder}]
  BY DEF Register, Accept, Acknowledged, RouteAck, UpdateVenueOrderId, SubmitFails, Unregister,
         UnregisterOrder, routerVars, FillsInv, TypeOK
<1>4. phase' \in [Orders -> Phase] /\ Cached'
  BY <1>1 DEF FillsInv, TypeOK, Cached, Phase, orderVars
<1>5. live' \in [Orders -> BOOLEAN]
  BY <1>1 DEF FillsInv, TypeOK
<1> QED
  BY <1>1, <1>2, <1>3, <1>4, <1>5 DEF FillsInv, TypeOK, requestVars, orderVars

LEMMA RestoreInv == ASSUME FillsInv, NEW o \in Orders, Restore(o) PROVE FillsInv'
<1>1. TypeOK'
  BY DEF Restore, FillsInv, TypeOK, requestVars, routerVars, venueVars, Phase, Status
<1>2. Cached'
  BY DEF Restore, FillsInv, TypeOK, Cached, Status, Absent
<1> QED
  BY <1>1, <1>2 DEF FillsInv

\* The simulator's fill of an order is no larger than a machine integer.
LEMMA SimulatorFillType == ASSUME NEW n \in 1..MaxInt PROVE SimulatorFill(n) \subseteq 0..MaxInt
<1>1. ASSUME NEW pct \in {5000, 8999} PROVE SaturatingMul(n, pct) \div 10000 \in 0..MaxInt
  <2>1. SaturatingMul(n, pct) \in 0..MaxInt
    BY MaxIntAssumption DEF SaturatingMul
  <2>2. \A x \in 0..MaxInt : x \div 10000 \in 0..MaxInt
    BY MaxIntAssumption
  <2> QED
    BY <2>1, <2>2
<1>2. n \in 0..MaxInt
  BY MaxIntAssumption
<1> QED
  BY <1>1, <1>2 DEF SimulatorFill

LEMMA NewTradeType ==
  ASSUME NEW o \in Orders, NEW size \in 0..MaxInt, NEW scale \in FillScales,
         NEW named \in BOOLEAN, NEW due \in Nat
  PROVE  NewTrade(o, size, scale, named, due) \in Trade
BY DEF NewTrade, Trade

(* A new trade: nothing changes for the orders in the cache. *)
LEMMA TradeInv ==
  ASSUME FillsInv, NEW o \in Orders, VenueTrades(o) \/ AnsweredByFill(o)
  PROVE  FillsInv'
<1>t. total[o] \in 1..MaxInt
  BY FillsAssumption DEF FillsInv, TypeOK
<1>1. CASE VenueTrades(o)
  <2>1. PICK size \in SimulatorFill(total[o]) \cup Pieces, scale \in FillScales,
             named \in BOOLEAN, due \in {1, 2} :
          trades' = Append(trades, NewTrade(o, size, scale, named, due))
    BY <1>1 DEF VenueTrades
  <2>2. size \in 0..MaxInt
    <3>1. SimulatorFill(total[o]) \subseteq 0..MaxInt
      BY <1>t, SimulatorFillType
    <3>2. Pieces \subseteq 0..MaxInt
      BY FillsAssumption
    <3> QED
      BY <3>1, <3>2, Zenon
  <2>d. due \in Nat
    OBVIOUS
  <2>3. trades' \in Seq(Trade)
    BY <2>1, <2>2, <2>d, NewTradeType DEF FillsInv, TypeOK
  <2> QED
    BY <1>1, <2>3 DEF VenueTrades, FillsInv, TypeOK, Cached, requestVars, routerVars, orderVars
<1>2. CASE AnsweredByFill(o)
  <2> DEFINE new == NewTrade(o, total[o], Scale, TRUE, 0)
  <2>1. total[o] \in 0..MaxInt /\ Scale \in FillScales
    BY <1>t, MaxIntAssumption, FillsAssumption
  <2>2. new \in Trade
    BY <2>1, NewTradeType
  <2>3. [new EXCEPT !.at[o] = 1] \in Trade
    BY <2>2 DEF Trade
  <2>4. trades' \in Seq(Trade)
    BY <1>2, <2>3 DEF AnsweredByFill, FillsInv, TypeOK
  <2>5. phase' \in [Orders -> Phase] /\ Cached'
    BY <1>2 DEF AnsweredByFill, FillsInv, TypeOK, Cached, Phase, orderVars
  <2> QED
    BY <1>2, <2>4, <2>5 DEF AnsweredByFill, FillsInv, TypeOK, requestVars, routerVars, orderVars
<1> QED
  BY <1>1, <1>2

(* The pump. *)
LEMMA RouteInv == ASSUME FillsInv, NEW t \in DOMAIN trades, Route(t) PROVE FillsInv'
<1> DEFINE o == RouteEvent(trades[t].of, trades[t].named)
<1>1. trades[t] \in Trade
  BY DEF FillsInv, TypeOK
<1>2. o \in Orders \cup {NoOrder}
  BY <1>1 DEF RouteEvent, FillsInv, TypeOK, Trade
<1>3. /\ trades[t].due - 1 \in Nat /\ trades[t].lost + 1 \in Nat
      /\ \A p \in Orders : trades[t].at[p] + 1 \in Nat
  BY <1>1 DEF Route, Trade
<1>4. trades' \in Seq(Trade)
  <2>1. CASE o = NoOrder
    <3>1. [trades[t] EXCEPT !.due = @ - 1, !.lost = @ + 1] \in Trade
      BY <1>1, <1>3 DEF Trade
    <3>2. trades' = [trades EXCEPT ![t] = [trades[t] EXCEPT !.due = @ - 1, !.lost = @ + 1]]
      BY <2>1, <1>1 DEF Route, FillsInv, TypeOK, Trade
    <3> QED
      BY <3>1, <3>2 DEF FillsInv, TypeOK
  <2>2. CASE o # NoOrder
    <3>1. [trades[t] EXCEPT !.due = @ - 1, !.at[o] = @ + 1] \in Trade
      BY <1>1, <1>2, <1>3, <2>2 DEF Trade
    <3>2. trades' = [trades EXCEPT ![t] = [trades[t] EXCEPT !.due = @ - 1, !.at[o] = @ + 1]]
      BY <2>2, <1>1 DEF Route, FillsInv, TypeOK, Trade
    <3> QED
      BY <3>1, <3>2 DEF FillsInv, TypeOK
  <2> QED
    BY <2>1, <2>2
<1> QED
  BY <1>4 DEF Route, FillsInv, TypeOK, Cached, requestVars, routerVars, orderVars

\* The announcement of t to order o has been taken from the pump.
LEMMA TakenType ==
  ASSUME FillsInv, NEW t \in DOMAIN trades, NEW o \in Orders, trades[t].at[o] > 0,
         NEW l \in Nat, NEW w \in BOOLEAN
  PROVE  [trades EXCEPT ![t] = [trades[t] EXCEPT !.at[o] = @ - 1, !.lost = l, !.wrapped = w]]
           \in Seq(Trade)
<1>1. trades[t] \in Trade
  BY DEF FillsInv, TypeOK
<1>2. trades[t].at \in [Orders -> Nat] /\ trades[t].at[o] - 1 \in Nat
  BY <1>1 DEF Trade
<1>3. [trades[t].at EXCEPT ![o] = @ - 1] \in [Orders -> Nat]
  BY <1>2
<1>4. [trades[t] EXCEPT !.at = [trades[t].at EXCEPT ![o] = @ - 1], !.lost = l, !.wrapped = w]
        \in Trade
  BY <1>1, <1>3 DEF Trade
<1> QED
  BY <1>4 DEF FillsInv, TypeOK

LEMMA ProcessFillInv ==
  ASSUME FillsInv, NEW t \in DOMAIN trades, NEW o \in Orders, ProcessFill(t, o)
  PROVE  FillsInv'
<1>t. trades[t] \in Trade /\ Announced(t) \in Int /\ t \in Nat
  BY AnnouncedType DEF FillsInv, TypeOK
<1>f. filled[o] \in Int
  BY MaxIntAssumption DEF FillsInv, TypeOK, MinInt
<1>1. CASE FillBooked(t, o)
  <2> DEFINE w == trades[t].wrapped \/ ~Fits(filled[o] + Announced(t))
             n == Wrap(filled[o] + Announced(t))
  <2>1. trades[t].at[o] > 0 /\ Accepts(status[o], "fill") /\ Transit(o, "fill", t, FillLeads(o, n), n)
    BY <1>1 DEF FillBooked, Book
  <2>2. trades' = [trades EXCEPT ![t] =
                     [trades[t] EXCEPT !.at[o] = @ - 1, !.lost = trades[t].lost, !.wrapped = w]]
    BY <1>1, <1>t DEF FillBooked, FillsInv, TypeOK, Trade
  <2>3. trades' \in Seq(Trade)
    BY <1>t, <2>1, <2>2, TakenType DEF Trade
  <2>4. n \in MinInt..MaxInt
    <3>1. filled[o] + Announced(t) \in Int
      BY <1>t, <1>f
    <3> QED
      BY <3>1, WrapFits DEF Fits
  <2>5. FillLeads(o, n) \in Status /\ status[o] \in Status /\ "fill" \in EventKind
    BY <2>1 DEF FillLeads, Accepts, Status, EventKind
  <2>6. OrderTypeOK'
    BY <1>t, <2>1, <2>4, <2>5, TransitType DEF FillsInv
  <2>7. \A p \in Orders : status[p] # Absent => status'[p] # Absent
    BY <2>1, <2>5, TransitCached
  <2> QED
    BY <1>1, <2>3, <2>6, <2>7 DEF FillBooked, FillsInv, TypeOK, OrderTypeOK, Cached,
                                  requestVars, routerVars
<1>2. CASE FillRefused(t, o)
  <2>1. trades' = [trades EXCEPT ![t] =
                     [trades[t] EXCEPT !.at[o] = @ - 1, !.lost = trades[t].lost + 1,
                                       !.wrapped = trades[t].wrapped]]
    BY <1>2, <1>t DEF FillRefused, FillsInv, TypeOK, Trade
  <2>2. trades' \in Seq(Trade)
    <3>1. trades[t].lost + 1 \in Nat /\ trades[t].wrapped \in BOOLEAN /\ trades[t].at[o] > 0
      BY <1>t, <1>2 DEF FillRefused, Trade
    <3> QED
      BY <2>1, <3>1, TakenType
  <2> QED
    BY <1>2, <2>2 DEF FillRefused, FillsInv, TypeOK, Cached, requestVars, routerVars, orderVars
<1>3. CASE FillPanics(t, o)
  <2>1. trades' = [trades EXCEPT ![t] =
                     [trades[t] EXCEPT !.at[o] = @ - 1, !.lost = trades[t].lost, !.wrapped = TRUE]]
    BY <1>3, <1>t DEF FillPanics, FillsInv, TypeOK, Trade
  <2>2. trades' \in Seq(Trade)
    <3>1. trades[t].lost \in Nat /\ trades[t].at[o] > 0
      BY <1>t, <1>3 DEF FillPanics, Trade
    <3> QED
      BY <2>1, <3>1, TakenType
  <2> QED
    BY <1>3, <2>2 DEF FillPanics, FillsInv, TypeOK, Cached, requestVars, routerVars, orderVars
<1> QED
  BY <1>1, <1>2, <1>3 DEF ProcessFill

LEMMA FillsNextInv == FillsInv /\ [Next]_vars => FillsInv'
<1> SUFFICES ASSUME FillsInv, [Next]_vars
             PROVE  FillsInv'
  OBVIOUS
<1>1. ASSUME NEW t \in DOMAIN trades, PumpStep(t)
      PROVE  FillsInv'
  BY <1>1, RouteInv, ProcessFillInv DEF PumpStep
<1>2. CASE UNCHANGED vars
  BY <1>2 DEF vars, requestVars, routerVars, orderVars, venueVars, FillsInv, TypeOK, Cached
<1> QED
  BY <1>1, <1>2, AnswerInv, OutsideInv, RestoreInv, TradeInv DEF Next, ExecutorStep

LEMMA FillsInvariant == Spec => []FillsInv
BY FillsInitInv, FillsNextInv, PTL DEF Spec

\* The state keeps its shape; in particular filled_size_int stays a machine
\* integer, which the addition in process_event must wrap to do.
THEOREM FillsTypeCorrect == Spec => []TypeOK
<1>1. FillsInv => TypeOK
  BY DEF FillsInv
<1> QED
  BY <1>1, FillsInvariant, PTL

-----------------------------------------------------------------------------
(* process_event against fixed_point.rs.                                   *)

LEMMA FillAgrees ==
  ASSUME TypeOK, NEW t \in DOMAIN trades, NEW o \in Orders, trades[t].scale = Scale
  PROVE  LET sum == AddScaled(<<filled[o], Scale>>, <<Announced(t), trades[t].scale>>)
             now == FillLeads(o, Wrap(filled[o] + Announced(t)))
         IN  (now = "Filled") <=> (/\ sum.tag = "ok"
                                   /\ CompareScaled(<<sum.value, sum.scale>>,
                                                    <<total[o], Scale>>) >= 0)
<1> DEFINE x == filled[o]
           y == Announced(t)
           sum == AddScaled(<<x, Scale>>, <<y, Scale>>)
<1>1. Scale \in Nat
  BY FillsAssumption
<1>2. y \in 0..MaxInt
  <2>t. trades[t] \in Trade
    BY AnnouncedType
  <2>1. trades[t].size \in 0..MaxInt
    BY <2>t DEF Trade
  <2>2. Scale - Scale = 0 /\ 10^0 = 1
    BY <1>1
  <2>3. trades[t].size * 1 = trades[t].size
    BY <2>1, MaxIntAssumption
  <2> QED
    BY <2>1, <2>2, <2>3 DEF Announced
<1>3. x \in Int /\ y \in Int /\ x + y \in Int /\ Fits(x) /\ Fits(y) /\ total[o] \in Int /\ total[o] > 0
  <2>1. x \in MinInt..MaxInt /\ total[o] \in Sizes
    BY DEF TypeOK
  <2>2. total[o] \in 1..MaxInt
    BY <2>1, FillsAssumption
  <2> HIDE DEF x, y
  <2> QED
    BY <1>2, <2>1, <2>2, MaxIntAssumption DEF Fits, MinInt
<1>4. sum = IF Fits(x + y) THEN Ok(x + y, Scale) ELSE Err("overflow")
  BY <1>1, <1>3, AddOneScale
<1>5. CASE Fits(x + y)
  <2>1. sum.tag = "ok" /\ sum.value = x + y /\ sum.scale = Scale
    BY <1>4, <1>5 DEF Ok
  <2>2. Wrap(x + y) = x + y
    BY <1>3, <1>5, WrapKeeps
  <2>3. CompareScaled(<<x + y, Scale>>, <<total[o], Scale>>) >= 0 <=> x + y >= total[o]
    BY <1>1, <1>3, CompareOneScale
  <2> QED
    BY <2>1, <2>2, <2>3 DEF FillLeads
<1>6. CASE ~Fits(x + y)
  <2>1. sum.tag # "ok"
    BY <1>4, <1>6 DEF Err
  <2>2. x + y > MaxInt
    BY <1>2, <1>3, <1>6, MaxIntAssumption DEF Fits, MinInt
  <2>3. Wrap(x + y) < 0 /\ Wrap(x + y) \in Int
    BY <1>3, <2>2, WrapNegative, WrapFits, MaxIntAssumption DEF Fits, MinInt
  <2>4. FillLeads(o, Wrap(x + y)) # "Filled"
    BY <1>3, <2>3 DEF FillLeads
  <2> QED
    BY <2>1, <2>4
<1> QED
  BY <1>5, <1>6

\* process_event's unchecked sum and comparison agree with add_scaled and
\* compare_scaled wherever the scales are equal, whatever the integers' width: an
\* overflow never fills an order.
THEOREM FillsAgree == Spec => []FillsAgreeWithFixedPoint
<1>1. TypeOK => FillsAgreeWithFixedPoint
  BY FillAgrees DEF FillsAgreeWithFixedPoint
<1> QED
  BY <1>1, FillsTypeCorrect, PTL

-----------------------------------------------------------------------------
(* Sums over the orders.                                                   *)

\* OrderSeq lists every order once.
LEMMA OrderSeqFacts ==
  /\ OrderSeq \in Seq(Orders)
  /\ \A i, j \in DOMAIN OrderSeq : OrderSeq[i] = OrderSeq[j] => i = j
  /\ \A o \in Orders : \E i \in DOMAIN OrderSeq : OrderSeq[i] = o
<1> DEFINE n == Cardinality(Orders)
<1>1. IsFiniteSet(Orders) /\ n \in Nat /\ ExistsBijection(1..n, Orders)
  BY FillsAssumption, FS_CardinalityType
<1>2. \E f \in [1..n -> Orders] : IsInjective(f)
  BY <1>1, Zenon DEF ExistsBijection, Bijection, Injection
<1>3. OrderSeq \in [1..n -> Orders] /\ IsInjective(OrderSeq)
  BY <1>2, Zenon DEF OrderSeq, SetToSeq
<1>4. IsFiniteSet(1..n) /\ Cardinality(1..n) = n
  BY <1>1, FS_Interval
<1>5. OrderSeq \in Surjection(1..n, Orders)
  <2>1. OrderSeq \in Injection(1..n, Orders)
    BY <1>3 DEF Injection
  <2> HIDE DEF n
  <2> QED
    BY <1>1, <1>4, <2>1, FS_Injection DEF n
<1>6. DOMAIN OrderSeq = 1..n
  BY <1>3
<1>7. \A o \in Orders : \E i \in DOMAIN OrderSeq : OrderSeq[i] = o
  BY <1>5, <1>6 DEF Surjection
<1>8. OrderSeq \in Seq(Orders)
  BY <1>1, <1>3
<1>9. \A i, j \in DOMAIN OrderSeq : OrderSeq[i] = OrderSeq[j] => i = j
  BY <1>3 DEF IsInjective
<1> QED
  BY <1>7, <1>8, <1>9

OrderSum(g) == Total([i \in DOMAIN OrderSeq |-> g[OrderSeq[i]]])

LEMMA OrderTerms ==
  ASSUME NEW g \in [Orders -> Int]
  PROVE  LET w == [i \in DOMAIN OrderSeq |-> g[OrderSeq[i]]]
         IN  /\ w \in Seq(Int)
             /\ Len(w) = Len(OrderSeq)
             /\ \A i \in 1..Len(OrderSeq) : w[i] = g[OrderSeq[i]] /\ OrderSeq[i] \in Orders
<1>1. Len(OrderSeq) \in Nat /\ DOMAIN OrderSeq = 1..Len(OrderSeq)
      /\ \A i \in DOMAIN OrderSeq : OrderSeq[i] \in Orders
  BY OrderSeqFacts
<1> QED
  BY <1>1

LEMMA OrderSumType == ASSUME NEW g \in [Orders -> Int] PROVE OrderSum(g) \in Int
BY OrderTerms, TotalType DEF OrderSum

LEMMA OrderSumUpdate ==
  ASSUME NEW g \in [Orders -> Int], NEW h \in [Orders -> Int], NEW o \in Orders,
         \A p \in Orders : p # o => h[p] = g[p]
  PROVE  OrderSum(h) = OrderSum(g) + (h[o] - g[o])
<1> DEFINE w == [i \in DOMAIN OrderSeq |-> g[OrderSeq[i]]]
           v == [i \in DOMAIN OrderSeq |-> h[OrderSeq[i]]]
           N == Len(OrderSeq)
<1>1. /\ w \in Seq(Int) /\ Len(w) = N
      /\ \A i \in 1..N : w[i] = g[OrderSeq[i]] /\ OrderSeq[i] \in Orders
  BY OrderTerms
<1>2. /\ v \in Seq(Int) /\ Len(v) = N
      /\ \A i \in 1..N : v[i] = h[OrderSeq[i]]
  BY OrderTerms
<1>3. PICK k \in 1..N : OrderSeq[k] = o
  BY OrderSeqFacts
<1>4. \A i \in 1..N : i # k => OrderSeq[i] # o
  BY <1>3, OrderSeqFacts
<1> HIDE DEF w, v, N
<1>5. \A i \in 1..N : i # k => v[i] = w[i]
  BY <1>1, <1>2, <1>4
<1>6. Total(v) = Total(w) + (v[k] - w[k])
  <2>1. Len(v) = Len(w) /\ k \in 1..Len(w) /\ \A i \in 1..Len(w) : i # k => v[i] = w[i]
    BY <1>1, <1>2, <1>3, <1>5
  <2> QED
    BY <1>1, <1>2, <2>1, TotalUpdate
<1> QED
  BY <1>1, <1>2, <1>3, <1>6 DEF OrderSum, w, v

LEMMA OrderSumMonotone ==
  ASSUME NEW g \in [Orders -> Int], NEW h \in [Orders -> Int],
         \A p \in Orders : g[p] <= h[p]
  PROVE  OrderSum(g) <= OrderSum(h)
<1> DEFINE w == [i \in DOMAIN OrderSeq |-> g[OrderSeq[i]]]
           v == [i \in DOMAIN OrderSeq |-> h[OrderSeq[i]]]
           N == Len(OrderSeq)
<1>1. /\ w \in Seq(Int) /\ Len(w) = N
      /\ \A i \in 1..N : w[i] = g[OrderSeq[i]] /\ OrderSeq[i] \in Orders
  BY OrderTerms
<1>2. /\ v \in Seq(Int) /\ Len(v) = N
      /\ \A i \in 1..N : v[i] = h[OrderSeq[i]]
  BY OrderTerms
<1> HIDE DEF w, v, N
<1>3. \A i \in 1..N : w[i] <= v[i]
  BY <1>1, <1>2
<1>4. Total(w) <= Total(v)
  BY <1>1, <1>2, <1>3, TotalMonotone
<1> QED
  BY <1>4 DEF OrderSum, w, v

LEMMA OrderSumCovers ==
  ASSUME NEW g \in [Orders -> Int], \A p \in Orders : 0 <= g[p], NEW o \in Orders
  PROVE  g[o] <= OrderSum(g)
<1> DEFINE w == [i \in DOMAIN OrderSeq |-> g[OrderSeq[i]]]
           N == Len(OrderSeq)
<1>1. /\ w \in Seq(Int) /\ Len(w) = N
      /\ \A i \in 1..N : w[i] = g[OrderSeq[i]] /\ OrderSeq[i] \in Orders
  BY OrderTerms
<1>2. PICK k \in 1..N : OrderSeq[k] = o
  BY OrderSeqFacts
<1> HIDE DEF w, N
<1>3. \A i \in 1..N : 0 <= w[i]
  BY <1>1
<1>4. w[k] <= Total(w)
  BY <1>1, <1>2, <1>3, TotalCovers
<1> QED
  BY <1>1, <1>2, <1>4 DEF OrderSum, w

LEMMA OrderSumZero ==
  ASSUME NEW g \in [Orders -> Int], \A p \in Orders : g[p] = 0
  PROVE  OrderSum(g) = 0
<1> DEFINE w == [i \in DOMAIN OrderSeq |-> g[OrderSeq[i]]]
<1>1. /\ w \in Seq(Int) /\ Len(w) = Len(OrderSeq)
      /\ \A i \in 1..Len(w) : w[i] = g[OrderSeq[i]] /\ OrderSeq[i] \in Orders
  BY OrderTerms
<1> HIDE DEF w
<1>2. \A i \in 1..Len(w) : w[i] = 0
  BY <1>1
<1> QED
  BY <1>1, <1>2, TotalZero DEF OrderSum, w

-----------------------------------------------------------------------------
(* What a step may do to the orders and to the trades.                     *)

\* The trades stay what they were; at most one comes.
TradesKept ==
  /\ Len(trades') \in {Len(trades), Len(trades) + 1}
  /\ \A t \in DOMAIN trades : /\ trades'[t].of = trades[t].of
                              /\ trades'[t].size = trades[t].size
                              /\ trades'[t].scale = trades[t].scale

\* An event other than a fill was accepted.
Marked(o, kind, s) ==
  /\ status[o] # Absent /\ Accepts(status[o], kind)
  /\ Transit(o, kind, 0, s, filled[o])
  /\ trades' = trades

\* A trade whose announcements moved.
Moved(t, d, A, l, w) ==
  trades' = [trades EXCEPT ![t] = [trades[t] EXCEPT !.due = d, !.at = A, !.lost = l,
                                                    !.wrapped = w]]

LEMMA MovedKept ==
  ASSUME FillsInv, NEW t \in DOMAIN trades, NEW d, NEW A, NEW l, NEW w, Moved(t, d, A, l, w)
  PROVE  /\ TradesKept
         /\ Len(trades') = Len(trades)
         /\ trades'[t].at = A
         /\ \A u \in DOMAIN trades : u # t => trades'[u] = trades[u]
<1> DEFINE e == [trades[t] EXCEPT !.due = d, !.at = A, !.lost = l, !.wrapped = w]
<1>1. trades \in Seq(Trade) /\ trades[t] \in Trade
  BY DEF FillsInv, TypeOK
<1>2. /\ e.of = trades[t].of /\ e.size = trades[t].size /\ e.scale = trades[t].scale
      /\ e.at = A
  BY <1>1 DEF Trade
<1>3. trades' = [trades EXCEPT ![t] = e]
  BY DEF Moved
<1> HIDE DEF e
<1>4. DOMAIN trades = 1..Len(trades) /\ Len(trades) \in Nat
  BY <1>1
<1>5. DOMAIN trades' = 1..Len(trades) /\ Len(trades') = Len(trades)
  BY <1>1, <1>3, <1>4
<1>6. trades'[t] = e /\ \A u \in DOMAIN trades : u # t => trades'[u] = trades[u]
  BY <1>3, <1>4
<1> QED
  BY <1>2, <1>4, <1>5, <1>6 DEF TradesKept

LEMMA RouteMoves ==
  ASSUME FillsInv, NEW t \in DOMAIN trades, Route(t)
  PROVE  \E d, A, l, w :
           /\ Moved(t, d, A, l, w)
           /\ \A p \in Orders : A[p] > 0 => \/ trades[t].at[p] > 0
                                            \/ p = RouteEvent(trades[t].of, trades[t].named)
<1> DEFINE o == RouteEvent(trades[t].of, trades[t].named)
<1>1. trades[t] \in Trade /\ trades[t].at \in [Orders -> Nat]
  <2>1. trades[t] \in Trade
    BY DEF FillsInv, TypeOK
  <2> QED
    BY <2>1 DEF Trade
<1>2. o \in Orders \cup {NoOrder}
  BY <1>1 DEF RouteEvent, FillsInv, TypeOK, Trade
<1>3. CASE o = NoOrder
  <2>1. Moved(t, trades[t].due - 1, trades[t].at, trades[t].lost + 1, trades[t].wrapped)
    BY <1>1, <1>3 DEF Route, Moved, FillsInv, TypeOK, Trade
  <2> QED
    BY <2>1, Zenon
<1>4. CASE o # NoOrder
  <2> DEFINE A == [trades[t].at EXCEPT ![o] = @ + 1]
  <2>1. Moved(t, trades[t].due - 1, A, trades[t].lost, trades[t].wrapped)
    BY <1>1, <1>4 DEF Route, Moved, FillsInv, TypeOK, Trade
  <2>2. \A p \in Orders : A[p] > 0 => trades[t].at[p] > 0 \/ p = o
    BY <1>1
  <2> HIDE DEF A, o
  <2> QED
    BY <2>1, <2>2, Zenon DEF o
<1> QED
  BY <1>3, <1>4

LEMMA FillMoves ==
  ASSUME FillsInv, NEW t \in DOMAIN trades, NEW o \in Orders,
         \/ FillBooked(t, o) \/ FillRefused(t, o) \/ FillPanics(t, o)
  PROVE  \E d, A, l, w :
           /\ Moved(t, d, A, l, w)
           /\ \A p \in Orders : A[p] > 0 => trades[t].at[p] > 0
<1> DEFINE A == [trades[t].at EXCEPT ![o] = @ - 1]
           d == trades[t].due
<1>1. trades[t] \in Trade /\ trades[t].at \in [Orders -> Nat]
  <2>1. trades[t] \in Trade
    BY DEF FillsInv, TypeOK
  <2> QED
    BY <2>1 DEF Trade
<1>2. \A p \in Orders : A[p] > 0 => trades[t].at[p] > 0
  BY <1>1
<1>3. CASE FillBooked(t, o)
  <2> DEFINE w == trades[t].wrapped \/ ~Fits(filled[o] + Announced(t))
  <2>1. Moved(t, d, A, trades[t].lost, w)
    BY <1>1, <1>3 DEF FillBooked, Moved, FillsInv, TypeOK, Trade
  <2> HIDE DEF A, w, d
  <2> QED
    BY <1>2, <2>1, Zenon
<1>4. CASE FillRefused(t, o)
  <2>1. Moved(t, d, A, trades[t].lost + 1, trades[t].wrapped)
    BY <1>1, <1>4 DEF FillRefused, Moved, FillsInv, TypeOK, Trade
  <2> HIDE DEF A, d
  <2> QED
    BY <1>2, <2>1, Zenon
<1>5. CASE FillPanics(t, o)
  <2>1. Moved(t, d, A, trades[t].lost, TRUE)
    BY <1>1, <1>5 DEF FillPanics, Moved, FillsInv, TypeOK, Trade
  <2> HIDE DEF A, d
  <2> QED
    BY <1>2, <2>1, Zenon
<1> QED
  BY <1>3, <1>4, <1>5

LEMMA AnnouncementsKept ==
  ASSUME FillsInv, NEW t \in DOMAIN trades, NEW o \in Orders,
         \/ Route(t) \/ FillBooked(t, o) \/ FillRefused(t, o) \/ FillPanics(t, o)
  PROVE  TradesKept /\ Len(trades') = Len(trades)
<1>1. \E d, A, l, w : Moved(t, d, A, l, w)
  BY RouteMoves, FillMoves
<1> QED
  BY <1>1, MovedKept

LEMMA NewTradeKept ==
  ASSUME FillsInv, NEW e, trades' = Append(trades, e)
  PROVE  /\ TradesKept
         /\ Len(trades') = Len(trades) + 1
         /\ trades'[Len(trades) + 1] = e
<1>1. trades \in Seq(Trade)
  BY DEF FillsInv, TypeOK
<1> QED
  BY <1>1 DEF TradesKept

\* The venue's trade is an announcement nobody has routed; the executor's answer is
\* one routed to its own order.
LEMMA NewTrades ==
  ASSUME FillsInv, NEW o \in Orders, VenueTrades(o) \/ AnsweredByFill(o)
  PROVE  \E e \in Trade : /\ trades' = Append(trades, e)
                          /\ e.of = o
                          /\ \A p \in Orders : e.at[p] > 0 => p = o
<1>1. CASE VenueTrades(o)
  <2>1. PICK size \in SimulatorFill(total[o]) \cup Pieces, scale \in FillScales,
             named \in BOOLEAN, due \in {1, 2} :
          trades' = Append(trades, NewTrade(o, size, scale, named, due))
    BY <1>1 DEF VenueTrades
  <2> DEFINE e == NewTrade(o, size, scale, named, due)
  <2>2. e.of = o /\ \A p \in Orders : e.at[p] = 0
    BY DEF NewTrade
  <2>3. e \in Trade
    <3>1. size \in 0..MaxInt
      <4>1. total[o] \in 1..MaxInt
        BY FillsAssumption DEF FillsInv, TypeOK
      <4>2. SimulatorFill(total[o]) \subseteq 0..MaxInt /\ Pieces \subseteq 0..MaxInt
        BY <4>1, SimulatorFillType, FillsAssumption
      <4> QED
        BY <4>2, Zenon
    <3>2. due \in Nat
      OBVIOUS
    <3> QED
      BY <3>1, <3>2, NewTradeType
  <2> HIDE DEF e
  <2>4. \A p \in Orders : e.at[p] > 0 => p = o
    BY <2>2
  <2> QED
    BY <2>1, <2>2, <2>3, <2>4, Zenon DEF e
<1>2. CASE AnsweredByFill(o)
  <2> DEFINE new == NewTrade(o, total[o], Scale, TRUE, 0)
             e   == [new EXCEPT !.at[o] = 1]
  <2>1. total[o] \in 0..MaxInt /\ Scale \in FillScales
    <3>1. total[o] \in 1..MaxInt
      BY FillsAssumption DEF FillsInv, TypeOK
    <3> QED
      BY <3>1, MaxIntAssumption, FillsAssumption
  <2>2. new \in Trade /\ new.of = o /\ new.at = [p \in Orders |-> 0]
    BY <2>1, NewTradeType DEF NewTrade
  <2>3. trades' = Append(trades, e)
    BY <1>2 DEF AnsweredByFill
  <2> HIDE DEF new
  <2>4. e \in Trade
    BY <2>2 DEF Trade
  <2>5. e.of = o /\ e.at = [new.at EXCEPT ![o] = 1]
    BY <2>2 DEF Trade
  <2>6. \A p \in Orders : e.at[p] > 0 => p = o
    BY <2>2, <2>5
  <2> HIDE DEF e
  <2> QED
    BY <2>3, <2>4, <2>5, <2>6
<1> QED
  BY <1>1, <1>2

\* Every step leaves the orders alone, or restores one, or books one event.
LEMMA StepKinds ==
  ASSUME FillsInv, Next
  PROVE  \/ UNCHANGED orderVars /\ TradesKept
         \/ \E o \in Orders : Restore(o)
         \/ \E o \in Orders, kind \in EventKind \ {"fill"} :
              \E s \in Leads(kind) : Marked(o, kind, s)
         \/ \E t \in DOMAIN trades, o \in Orders : FillBooked(t, o)
<1> DEFINE Goal == \/ UNCHANGED orderVars /\ TradesKept
                   \/ \E o \in Orders : Restore(o)
                   \/ \E o \in Orders, kind \in EventKind \ {"fill"} :
                        \E s \in Leads(kind) : Marked(o, kind, s)
                   \/ \E t \in DOMAIN trades, o \in Orders : FillBooked(t, o)
<1>1. trades \in Seq(Trade)
  BY DEF FillsInv, TypeOK
<1>2. trades' = trades => TradesKept
  BY <1>1 DEF TradesKept
<1>3. ASSUME NEW o \in Orders,
             \/ Register(o) \/ Accept(o) \/ Acknowledged(o) \/ RouteAck(o)
             \/ SubmitFails(o) \/ Unregister(o)
      PROVE  UNCHANGED orderVars /\ trades' = trades
  BY <1>3 DEF Register, Accept, Acknowledged, RouteAck, SubmitFails, Unregister, venueVars
<1>4. ASSUME NEW o \in Orders, ApplyAck(o) \/ Rejected(o) \/ Cancel(o)
      PROVE  Goal
  <2>1. PICK kind \in EventKind \ {"fill"} : ProcessEvent(o, kind)
    BY <1>4 DEF ApplyAck, Rejected, Cancel, EventKind
  <2>2. trades' = trades /\ status[o] # Absent
    BY <1>4 DEF ApplyAck, Rejected, Cancel, venueVars, FillsInv, Cached
  <2>3. CASE UNCHANGED orderVars
    BY <1>2, <2>2, <2>3
  <2>4. ASSUME NEW s \in Leads(kind), Transit(o, kind, 0, s, filled[o]),
               Accepts(status[o], kind)
        PROVE  Goal
    <3>1. Marked(o, kind, s)
      BY <2>2, <2>4 DEF Marked
    <3> QED
      BY <3>1
  <2> QED
    BY <2>1, <2>3, <2>4 DEF ProcessEvent
<1>5. ASSUME NEW o \in Orders, VenueTrades(o) \/ AnsweredByFill(o)
      PROVE  Goal
  <2>1. TradesKept
    BY <1>5, NewTrades, NewTradeKept
  <2>2. UNCHANGED orderVars
    BY <1>5 DEF VenueTrades, AnsweredByFill
  <2> QED
    BY <2>1, <2>2
<1>6. ASSUME NEW t \in DOMAIN trades, Route(t)
      PROVE  Goal
  <2>1. \E o \in Orders : TRUE
    BY <1>1 DEF Trade
  <2>2. TradesKept
    BY <1>6, <2>1, AnnouncementsKept
  <2> QED
    BY <1>6, <2>2 DEF Route
<1>7. ASSUME NEW t \in DOMAIN trades, NEW o \in Orders, ProcessFill(t, o)
      PROVE  Goal
  <2>1. CASE FillBooked(t, o)
    BY <2>1
  <2>2. CASE FillRefused(t, o) \/ FillPanics(t, o)
    BY <2>2, AnnouncementsKept DEF FillRefused, FillPanics
  <2> QED
    BY <1>7, <2>1, <2>2 DEF ProcessFill
<1>8. ASSUME NEW t \in DOMAIN trades, PumpStep(t)
      PROVE  Goal
  BY <1>6, <1>7, <1>8 DEF PumpStep
<1>9. ASSUME NEW o \in Orders, Restore(o)
      PROVE  Goal
  BY <1>9
<1> HIDE DEF Goal
<1>10. Goal
  BY <1>2, <1>3, <1>4, <1>5, <1>8, <1>9 DEF Next, ExecutorStep, Goal
<1> QED
  BY <1>10 DEF Goal

\* client_order_ids and sizes never change, and an order does not go back.
LEMMA PhaseStep ==
  ASSUME FillsInv, Next
  PROVE  /\ client' = client /\ total' = total
         /\ \A p \in Orders :
              /\ phase[p] # "new" => phase'[p] # "new"
              /\ phase'[p] \in {"new", "registered"} => phase[p] \in {"new", "registered"}
<1>p. phase \in [Orders -> Phase]
  BY DEF FillsInv, TypeOK
<1>1. ASSUME NEW o \in Orders,
             \/ Register(o) \/ Restore(o) \/ Accept(o) \/ Acknowledged(o) \/ RouteAck(o)
             \/ ApplyAck(o) \/ Rejected(o) \/ SubmitFails(o) \/ Cancel(o) \/ Unregister(o)
             \/ VenueTrades(o) \/ AnsweredByFill(o)
      PROVE  /\ UNCHANGED requestVars
             /\ \/ phase' = phase
                \/ phase[o] = "new" /\ phase' = [phase EXCEPT ![o] = "registered"]
                \/ /\ phase[o] # "new"
                   /\ \E q \in Phase \ {"new", "registered"} : phase' = [phase EXCEPT ![o] = q]
  BY <1>1 DEF Register, Restore, Accept, Acknowledged, RouteAck, ApplyAck, Rejected, SubmitFails,
              Cancel, Unregister, VenueTrades, AnsweredByFill, Phase
<1>2. ASSUME NEW t \in DOMAIN trades, PumpStep(t)
      PROVE  UNCHANGED requestVars /\ phase' = phase
  BY <1>2 DEF PumpStep, Route, ProcessFill, FillBooked, FillRefused, FillPanics
<1>3. \/ UNCHANGED requestVars /\ phase' = phase
      \/ \E o \in Orders :
           /\ UNCHANGED requestVars
           /\ \/ phase' = phase
              \/ phase[o] = "new" /\ phase' = [phase EXCEPT ![o] = "registered"]
              \/ /\ phase[o] # "new"
                 /\ \E q \in Phase \ {"new", "registered"} : phase' = [phase EXCEPT ![o] = q]
  BY <1>1, <1>2 DEF Next, ExecutorStep
<1> QED
  BY <1>p, <1>3 DEF requestVars

-----------------------------------------------------------------------------
(* The router names orders of the client id it was asked about.            *)

MapsRouted ==
  /\ \A c \in ClientIds : clientMap[c] # NoOrder => client[clientMap[c]] = c
  /\ \A o \in Orders : venueMap[o] # NoOrder => client[venueMap[o]] = client[o]

\* A venue knows and trades registered orders; announcements stay among the twins.
TradesRouted ==
  /\ \A o \in Orders : live[o] => phase[o] # "new"
  /\ \A t \in DOMAIN trades :
       /\ phase[trades[t].of] # "new"
       /\ \A p \in Orders : trades[t].at[p] > 0 => client[p] = client[trades[t].of]

Routed == MapsRouted /\ TradesRouted

LEMMA MapsStep == ASSUME FillsInv, MapsRouted, Next PROVE MapsRouted'
<1>t. /\ client \in [Orders -> ClientIds]
      /\ clientMap \in [ClientIds -> Orders \cup {NoOrder}]
      /\ venueMap \in [Orders -> Orders \cup {NoOrder}]
      /\ NoOrder \notin Orders
  BY FillsAssumption DEF FillsInv, TypeOK
<1>c. client' = client
  BY PhaseStep
<1>1. ASSUME NEW o \in Orders, Register(o)
      PROVE  MapsRouted'
  BY <1>t, <1>c, <1>1 DEF Register, RegisterOrder, MapsRouted
<1>2. ASSUME NEW o \in Orders, RouteAck(o)
      PROVE  MapsRouted'
  BY <1>t, <1>c, <1>2 DEF RouteAck, UpdateVenueOrderId, MapsRouted
<1>3. ASSUME NEW o \in Orders, Unregister(o)
      PROVE  MapsRouted'
  BY <1>t, <1>c, <1>3 DEF Unregister, UnregisterOrder, MapsRouted
<1>4. ASSUME NEW o \in Orders,
             \/ Restore(o) \/ Accept(o) \/ Acknowledged(o) \/ ApplyAck(o) \/ Rejected(o)
             \/ SubmitFails(o) \/ Cancel(o) \/ VenueTrades(o) \/ AnsweredByFill(o)
      PROVE  UNCHANGED routerVars
  BY <1>4 DEF Restore, Accept, Acknowledged, ApplyAck, Rejected, SubmitFails, Cancel, VenueTrades,
              AnsweredByFill
<1>5. ASSUME NEW t \in DOMAIN trades, PumpStep(t)
      PROVE  UNCHANGED routerVars
  BY <1>5 DEF PumpStep, Route, ProcessFill, FillBooked, FillRefused, FillPanics
<1>6. UNCHANGED routerVars => MapsRouted'
  BY <1>c DEF routerVars, MapsRouted
<1> QED
  BY <1>1, <1>2, <1>3, <1>4, <1>5, <1>6 DEF Next, ExecutorStep

\* A twin is named by route_event, for the announcement's order.
LEMMA RouteNamesTwin ==
  ASSUME FillsInv, MapsRouted, NEW o \in Orders, NEW named \in BOOLEAN,
         RouteEvent(o, named) # NoOrder
  PROVE  client[RouteEvent(o, named)] = client[o]
BY DEF FillsInv, TypeOK, MapsRouted, RouteEvent

LEMMA LiveStep ==
  ASSUME FillsInv, Routed, Next, NEW o \in Orders, live'[o]
  PROVE  phase'[o] # "new"
<1>1. ASSUME NEW q \in Orders,
             \/ Register(q) \/ Restore(q) \/ Acknowledged(q) \/ RouteAck(q)
             \/ ApplyAck(q) \/ Rejected(q) \/ SubmitFails(q) \/ Cancel(q) \/ Unregister(q)
             \/ VenueTrades(q) \/ AnsweredByFill(q)
      PROVE  live' = live
  BY <1>1 DEF Register, Restore, Acknowledged, RouteAck, ApplyAck, Rejected, SubmitFails,
              Cancel, Unregister, VenueTrades, AnsweredByFill, venueVars
<1>2. ASSUME NEW t \in DOMAIN trades, PumpStep(t)
      PROVE  live' = live
  BY <1>2 DEF PumpStep, Route, ProcessFill, FillBooked, FillRefused, FillPanics
<1>3. live' = live \/ \E q \in Orders : phase[q] = "cached" /\ live' = [live EXCEPT ![q] = TRUE]
  BY <1>1, <1>2 DEF Next, ExecutorStep, Accept
<1>4. live[o] \/ phase[o] = "cached"
  BY <1>3 DEF FillsInv, TypeOK
<1>5. phase[o] # "new"
  BY <1>4 DEF Routed, TradesRouted
<1> QED
  BY <1>5, PhaseStep

\* The announcements of one trade after a step.
LEMMA TradeRoutedStep ==
  ASSUME FillsInv, Routed, Next, NEW t \in DOMAIN trades'
  PROVE  /\ phase'[trades'[t].of] # "new"
         /\ \A p \in Orders : trades'[t].at[p] > 0 => client'[p] = client'[trades'[t].of]
<1> DEFINE Good(u) == \A p \in Orders : trades'[u].at[p] > 0 => client[p] = client[trades'[u].of]
<1>t. trades \in Seq(Trade) /\ DOMAIN trades = 1..Len(trades) /\ Len(trades) \in Nat
  BY DEF FillsInv, TypeOK
<1>c. /\ client' = client
      /\ \A p \in Orders : phase[p] # "new" => phase'[p] # "new"
  BY PhaseStep
<1>u. \A u \in DOMAIN trades : trades[u].of \in Orders /\ trades[u].named \in BOOLEAN
  <2>1. \A e \in Trade : e.of \in Orders /\ e.named \in BOOLEAN
    BY DEF Trade
  <2> QED
    BY <1>t, <2>1
<1>r. \A u \in DOMAIN trades :
        /\ phase[trades[u].of] # "new"
        /\ \A p \in Orders : trades[u].at[p] > 0 => client[p] = client[trades[u].of]
  BY DEF Routed, TradesRouted
<1> DEFINE Goal == phase'[trades'[t].of] # "new" /\ Good(t)
<1>1. ASSUME trades' = trades
      PROVE  Goal
  BY <1>c, <1>u, <1>r, <1>1
<1>2. ASSUME NEW o \in Orders, VenueTrades(o) \/ AnsweredByFill(o)
      PROVE  Goal
  <2>1. PICK e \in Trade : /\ trades' = Append(trades, e) /\ e.of = o
                           /\ \A p \in Orders : e.at[p] > 0 => p = o
    BY <1>2, NewTrades
  <2>2. phase[o] # "new"
    BY <1>2 DEF VenueTrades, AnsweredByFill, Routed, TradesRouted
  <2>3. t \in 1..(Len(trades) + 1)
    BY <1>t, <2>1
  <2>4. CASE t = Len(trades) + 1
    <3>1. trades'[t] = e
      BY <1>t, <2>1, <2>4
    <3> QED
      BY <1>c, <2>1, <2>2, <3>1
  <2>5. CASE t \in DOMAIN trades
    <3>1. trades'[t] = trades[t]
      BY <1>t, <2>1, <2>5
    <3> QED
      BY <1>c, <1>u, <1>r, <2>5, <3>1
  <2> QED
    BY <1>t, <2>3, <2>4, <2>5
<1>3. ASSUME NEW u \in DOMAIN trades, NEW d, NEW A, NEW l, NEW w, Moved(u, d, A, l, w),
             \A p \in Orders : A[p] > 0 => client[p] = client[trades[u].of]
      PROVE  Goal
  <2>1. /\ TradesKept /\ Len(trades') = Len(trades) /\ trades'[u].at = A
        /\ \A v \in DOMAIN trades : v # u => trades'[v] = trades[v]
    BY <1>3, MovedKept
  <2>2. t \in DOMAIN trades
    <3>1. trades' \in Seq(Trade)
      BY FillsNextInv DEF FillsInv, TypeOK
    <3> QED
      BY <1>t, <2>1, <3>1
  <2>3. trades'[t].of = trades[t].of
    BY <2>1, <2>2 DEF TradesKept
  <2> QED
    BY <1>c, <1>u, <1>r, <1>3, <2>1, <2>2, <2>3
<1>4. ASSUME NEW u \in DOMAIN trades, Route(u)
      PROVE  Goal
  <2>1. PICK d, A, l, w :
          /\ Moved(u, d, A, l, w)
          /\ \A p \in Orders : A[p] > 0 => \/ trades[u].at[p] > 0
                                           \/ p = RouteEvent(trades[u].of, trades[u].named)
    BY <1>4, RouteMoves
  <2>2. trades[u].of \in Orders /\ trades[u].named \in BOOLEAN
    BY <1>u
  <2>3. ASSUME NEW p \in Orders, A[p] > 0
        PROVE  client[p] = client[trades[u].of]
    <3>1. p # NoOrder
      BY FillsAssumption
    <3> QED
      BY <1>r, <2>1, <2>2, <2>3, <3>1, RouteNamesTwin DEF Routed
  <2> QED
    BY <1>3, <2>1, <2>3
<1>5. ASSUME NEW u \in DOMAIN trades, NEW o \in Orders, ProcessFill(u, o)
      PROVE  Goal
  <2>1. PICK d, A, l, w : /\ Moved(u, d, A, l, w)
                          /\ \A p \in Orders : A[p] > 0 => trades[u].at[p] > 0
    BY <1>5, FillMoves DEF ProcessFill
  <2> QED
    BY <1>3, <1>r, <2>1
<1>6. ASSUME NEW o \in Orders,
             \/ Register(o) \/ Restore(o) \/ Accept(o) \/ Acknowledged(o) \/ RouteAck(o)
             \/ ApplyAck(o) \/ Rejected(o) \/ SubmitFails(o) \/ Cancel(o) \/ Unregister(o)
      PROVE  trades' = trades
  BY <1>6 DEF Register, Restore, Accept, Acknowledged, RouteAck, ApplyAck, Rejected, SubmitFails,
              Cancel, Unregister, venueVars
<1> HIDE DEF Goal
<1>7. Goal
  BY <1>1, <1>2, <1>4, <1>5, <1>6 DEF Next, ExecutorStep, PumpStep
<1> QED
  BY <1>7, <1>c DEF Goal

LEMMA RoutedStep == ASSUME FillsInv, Routed, Next PROVE Routed'
<1>1. MapsRouted'
  BY MapsStep DEF Routed
<1>2. TradesRouted'
  BY LiveStep, TradeRoutedStep DEF TradesRouted
<1> QED
  BY <1>1, <1>2 DEF Routed

-----------------------------------------------------------------------------
(* The transitions of an order.                                            *)

\* A fill's transition names a trade of a twin, the others none.
EntryOK(o, e) ==
  IF e.kind = "fill" THEN /\ e.trade \in DOMAIN trades
                          /\ client[trades[e.trade].of] = client[o]
  ELSE e.trade = 0

Logged ==
  \A o \in Orders :
    /\ status[o] = Absent => log[o] = <<>>
    /\ phase[o] \in {"new", "registered"} => status[o] = Absent
    /\ status[o] = "Filled" => filled[o] >= total[o]
    /\ \A i \in DOMAIN log[o] : EntryOK(o, log[o][i])

\* The status is where the last transition led, and each began where the one
\* before it ended.
Chained ==
  \A o \in Orders :
    /\ log[o] # <<>> => status[o] = Last(log[o]).to
    /\ \A i \in 2..Len(log[o]) : log[o][i].from = log[o][i - 1].to

LEMMA AnnouncedKept ==
  ASSUME FillsInv, TradesKept, NEW t \in DOMAIN trades
  PROVE  Announced(t)' = Announced(t)
BY DEF TradesKept, Announced

LEMMA DomainKept ==
  ASSUME FillsInv, FillsInv', TradesKept
  PROVE  /\ DOMAIN trades = 1..Len(trades) /\ Len(trades) \in Nat
         /\ DOMAIN trades' = 1..Len(trades')
         /\ DOMAIN trades \subseteq DOMAIN trades'
         /\ \A t \in DOMAIN trades' : t \in Nat \ {0}
<1>1. trades \in Seq(Trade) /\ trades' \in Seq(Trade)
  BY DEF FillsInv, TypeOK
<1>2. DOMAIN trades' = 1..Len(trades') /\ Len(trades') \in Nat
  BY <1>1
<1>3. \A t \in 1..Len(trades') : t \in Nat \ {0}
  BY <1>2
<1>4. DOMAIN trades = 1..Len(trades) /\ Len(trades) \in Nat
  BY <1>1
<1>5. DOMAIN trades \subseteq DOMAIN trades'
  <2>1. \A m, n \in Nat : n \in {m, m + 1} => 1..m \subseteq 1..n
    OBVIOUS
  <2>2. Len(trades') \in {Len(trades), Len(trades) + 1}
    BY DEF TradesKept
  <2>3. 1..Len(trades) \subseteq 1..Len(trades')
    BY <1>2, <1>4, <2>1, <2>2, Zenon
  <2> QED
    BY <1>2, <1>4, <2>3, Zenon
<1>6. \A t \in DOMAIN trades' : t \in Nat \ {0}
  BY <1>2, <1>3, Zenon
<1> QED
  BY <1>2, <1>4, <1>5, <1>6

LEMMA EntryKept ==
  ASSUME FillsInv, FillsInv', TradesKept, client' = client, NEW o \in Orders, NEW e, EntryOK(o, e)
  PROVE  IF e.kind = "fill" THEN /\ e.trade \in DOMAIN trades'
                                 /\ client'[trades'[e.trade].of] = client'[o]
         ELSE e.trade = 0
BY DomainKept DEF EntryOK, TradesKept

\* What an accepted event does to its order, and to no other.
LEMMA TransitEffect ==
  ASSUME FillsInv, NEW o \in Orders, NEW kind, NEW t, NEW s, NEW n, Transit(o, kind, t, s, n)
  PROVE  LET e == [kind |-> kind, trade |-> t, from |-> status[o], to |-> s]
         IN  /\ log' = [log EXCEPT ![o] = Append(log[o], e)]
             /\ log'[o] = Append(log[o], e)
             /\ log[o] \in Seq(Transition)
             /\ Len(log'[o]) = Len(log[o]) + 1
             /\ log'[o][Len(log[o]) + 1] = e
             /\ \A i \in 1..Len(log[o]) : log'[o][i] = log[o][i]
             /\ status'[o] = s /\ filled'[o] = n
             /\ \A p \in Orders : p # o => /\ log'[p] = log[p] /\ status'[p] = status[p]
                                           /\ filled'[p] = filled[p]
<1> DEFINE e == [kind |-> kind, trade |-> t, from |-> status[o], to |-> s]
<1>1. /\ log \in [Orders -> Seq(Transition)] /\ log[o] \in Seq(Transition)
      /\ status \in [Orders -> Status \cup {Absent}]
      /\ filled \in [Orders -> MinInt..MaxInt]
  BY DEF FillsInv, TypeOK
<1>2. /\ log' = [log EXCEPT ![o] = Append(log[o], e)]
      /\ status' = [status EXCEPT ![o] = s]
      /\ filled' = [filled EXCEPT ![o] = n]
  BY DEF Transit
<1> HIDE DEF e
<1>3. log'[o] = Append(log[o], e)
  BY <1>1, <1>2
<1>4. Len(log'[o]) = Len(log[o]) + 1 /\ log'[o][Len(log[o]) + 1] = e
      /\ \A i \in 1..Len(log[o]) : log'[o][i] = log[o][i]
  BY <1>1, <1>3
<1>5. /\ status'[o] = s /\ filled'[o] = n
      /\ \A p \in Orders : p # o => /\ log'[p] = log[p] /\ status'[p] = status[p]
                                    /\ filled'[p] = filled[p]
  BY <1>1, <1>2
<1> QED
  BY <1>1, <1>2, <1>3, <1>4, <1>5 DEF e

LEMMA TransitChained ==
  ASSUME FillsInv, Chained, NEW o \in Orders, NEW kind, NEW t, NEW s, NEW n,
         Transit(o, kind, t, s, n)
  PROVE  Chained'
<1> DEFINE e == [kind |-> kind, trade |-> t, from |-> status[o], to |-> s]
           N == Len(log[o])
<1>1. /\ log[o] \in Seq(Transition) /\ log'[o] = Append(log[o], e)
      /\ Len(log'[o]) = N + 1 /\ log'[o][N + 1] = e
      /\ \A i \in 1..N : log'[o][i] = log[o][i]
      /\ status'[o] = s
      /\ \A p \in Orders : p # o => log'[p] = log[p] /\ status'[p] = status[p]
  BY TransitEffect
<1>2. N \in Nat /\ e.from = status[o] /\ e.to = s
  BY <1>1
<1>3. N # 0 => status[o] = log[o][N].to
  <2>1. N # 0 => log[o] # <<>>
    BY <1>1
  <2> QED
    BY <2>1 DEF Chained, Last
<1> HIDE DEF e
<1>4. Last(log'[o]) = e
  BY <1>1 DEF Last
<1> HIDE DEF N
<1>5. \A i \in 2..Len(log'[o]) : log'[o][i].from = log'[o][i - 1].to
  <2> SUFFICES ASSUME NEW i \in 2..(N + 1)
               PROVE  log'[o][i].from = log'[o][i - 1].to
    BY <1>1, <1>2
  <2>1. CASE i = N + 1
    <3>1. i - 1 = N /\ N \in 1..N /\ N # 0
      BY <1>2, <2>1
    <3>2. log'[o][i - 1] = log[o][N] /\ log'[o][i] = e
      BY <1>1, <2>1, <3>1
    <3> QED
      BY <1>2, <1>3, <3>1, <3>2
  <2>2. CASE i # N + 1
    <3>1. i \in 2..N /\ i \in 1..N /\ i - 1 \in 1..N
      BY <1>2, <2>2
    <3>2. log'[o][i] = log[o][i] /\ log'[o][i - 1] = log[o][i - 1]
      BY <1>1, <3>1
    <3>3. log[o][i].from = log[o][i - 1].to
      BY <3>1 DEF Chained, N
    <3> QED
      BY <3>2, <3>3
  <2> QED
    BY <2>1, <2>2
<1>6. ASSUME NEW p \in Orders
      PROVE  /\ log'[p] # <<>> => status'[p] = Last(log'[p]).to
             /\ \A i \in 2..Len(log'[p]) : log'[p][i].from = log'[p][i - 1].to
  <2>1. CASE p = o
    BY <1>1, <1>2, <1>4, <1>5, <2>1
  <2>2. CASE p # o
    <3>1. log'[p] = log[p] /\ status'[p] = status[p]
      BY <1>1, <2>2
    <3> QED
      BY <3>1 DEF Chained
  <2> QED
    BY <2>1, <2>2
<1> QED
  BY <1>6 DEF Chained

LEMMA ChainedStep ==
  ASSUME FillsInv, Logged, Chained, Next
  PROVE  Chained'
<1>1. CASE UNCHANGED orderVars
  BY <1>1 DEF orderVars, Chained
<1>2. ASSUME NEW o \in Orders, Restore(o)
      PROVE  Chained'
  <2>1. log' = log /\ \A p \in Orders : p # o => status'[p] = status[p]
    BY <1>2 DEF Restore, FillsInv, TypeOK
  <2>2. log[o] = <<>>
    BY <1>2 DEF Restore, Logged
  <2> QED
    BY <2>1, <2>2 DEF Chained
<1>3. ASSUME NEW o \in Orders, NEW kind, NEW s, Marked(o, kind, s)
      PROVE  Chained'
  BY <1>3, TransitChained DEF Marked
<1>4. ASSUME NEW t \in DOMAIN trades, NEW o \in Orders, FillBooked(t, o)
      PROVE  Chained'
  BY <1>4, TransitChained DEF FillBooked, Book
<1> QED
  BY <1>1, <1>2, <1>3, <1>4, StepKinds

LEMMA LoggedStep ==
  ASSUME FillsInv, FillsInv', Routed, Logged, Next
  PROVE  Logged'
<1>c. /\ client' = client /\ total' = total
      /\ \A p \in Orders : phase'[p] \in {"new", "registered"} =>
                             phase[p] \in {"new", "registered"}
  BY PhaseStep
<1>1. CASE UNCHANGED orderVars /\ TradesKept
  <2>1. (\A p \in Orders : \A i \in DOMAIN log[p] : EntryOK(p, log[p][i]))'
    BY <1>1, <1>c, EntryKept DEF orderVars, Logged, EntryOK
  <2> QED
    BY <1>1, <1>c, <2>1 DEF orderVars, Logged
<1>2. ASSUME NEW o \in Orders, Restore(o)
      PROVE  Logged'
  <2>1. /\ log' = log /\ filled' = filled /\ status'[o] = "Pending" /\ phase'[o] = "cached"
        /\ \A p \in Orders : p # o => status'[p] = status[p]
    BY <1>2 DEF Restore, FillsInv, TypeOK
  <2>2. trades' = trades
    BY <1>2 DEF Restore, venueVars
  <2>3. TradesKept
    BY <2>2 DEF TradesKept
  <2>4. (\A p \in Orders : \A i \in DOMAIN log[p] : EntryOK(p, log[p][i]))'
    BY <1>c, <2>1, <2>3, EntryKept DEF Logged, EntryOK
  <2>5. \A p \in Orders : status'[p] = "Filled" => filled'[p] >= total'[p]
    BY <1>c, <2>1 DEF Logged
  <2>6. \A p \in Orders : /\ status'[p] = Absent => log'[p] = <<>>
                          /\ phase'[p] \in {"new", "registered"} => status'[p] = Absent
    BY <1>c, <2>1 DEF Logged, Absent
  <2> QED
    BY <2>4, <2>5, <2>6 DEF Logged
<1>3. ASSUME NEW o \in Orders, NEW kind, NEW t, NEW s \in Status, NEW n,
             TradesKept, Transit(o, kind, t, s, n), status[o] # Absent,
             s = "Filled" => n >= total[o],
             EntryOK(o, [kind |-> kind, trade |-> t, from |-> status[o], to |-> s])
      PROVE  Logged'
  <2> DEFINE e == [kind |-> kind, trade |-> t, from |-> status[o], to |-> s]
             N == Len(log[o])
  <2>1. /\ log[o] \in Seq(Transition)
        /\ Len(log'[o]) = N + 1 /\ log'[o][N + 1] = e /\ log'[o] = Append(log[o], e)
        /\ \A i \in 1..N : log'[o][i] = log[o][i]
        /\ status'[o] = s /\ filled'[o] = n
        /\ \A p \in Orders : p # o => /\ log'[p] = log[p] /\ status'[p] = status[p]
                                      /\ filled'[p] = filled[p]
    BY <1>3, TransitEffect
  <2>2. EntryOK(o, e)
    BY <1>3
  <2> HIDE DEF e
  <2>3. DOMAIN log'[o] = 1..(N + 1) /\ DOMAIN log[o] = 1..N /\ N \in Nat
    BY <2>1
  <2>4. ASSUME NEW p \in Orders, NEW i \in DOMAIN log'[p]
        PROVE  EntryOK(p, log'[p][i])
    <3>1. CASE p # o
      BY <2>1, <3>1 DEF Logged
    <3>2. CASE p = o /\ i = N + 1
      BY <2>1, <2>2, <3>2
    <3>3. CASE p = o /\ i # N + 1
      <4>1. i \in 1..N
        BY <2>3, <2>4, <3>3
      <4> QED
        BY <2>1, <2>3, <3>3, <4>1 DEF Logged
    <3> QED
      BY <3>1, <3>2, <3>3
  <2>5. (\A p \in Orders : \A i \in DOMAIN log[p] : EntryOK(p, log[p][i]))'
    BY <1>3, <1>c, <2>4, EntryKept DEF EntryOK
  <2>6. \A p \in Orders : status'[p] = "Filled" => filled'[p] >= total'[p]
    BY <1>c, <1>3, <2>1 DEF Logged
  <2>7. s # Absent
    BY <1>3 DEF Status, Absent
  <2>8. \A p \in Orders : status'[p] = Absent => log'[p] = <<>>
    BY <2>1, <2>7 DEF Logged
  <2>9. \A p \in Orders : phase'[p] \in {"new", "registered"} => status'[p] = Absent
    BY <1>c, <1>3, <2>1 DEF Logged
  <2> QED
    BY <2>5, <2>6, <2>8, <2>9 DEF Logged
<1>4. ASSUME NEW o \in Orders, NEW kind \in EventKind \ {"fill"}, NEW s \in Leads(kind),
             Marked(o, kind, s)
      PROVE  Logged'
  <2>1. s \in Status /\ s # "Filled"
    BY <1>4 DEF Leads
  <2>2. TradesKept
    BY <1>4 DEF Marked, TradesKept
  <2>3. EntryOK(o, [kind |-> kind, trade |-> 0, from |-> status[o], to |-> s])
    BY <1>4 DEF EntryOK
  <2>4. Transit(o, kind, 0, s, filled[o]) /\ status[o] # Absent
    BY <1>4 DEF Marked
  <2> QED
    BY <1>3, <2>1, <2>2, <2>3, <2>4
<1>5. ASSUME NEW t \in DOMAIN trades, NEW o \in Orders, FillBooked(t, o)
      PROVE  Logged'
  <2> DEFINE n == Wrap(filled[o] + Announced(t))
             s == FillLeads(o, n)
  <2>1. TradesKept
    BY <1>5, AnnouncementsKept
  <2>2. Transit(o, "fill", t, s, n)
    BY <1>5 DEF FillBooked, Book
  <2>3. s \in Status /\ (s = "Filled" => n >= total[o])
    BY DEF FillLeads, Status
  <2>4. status[o] # Absent
    BY <1>5 DEF FillBooked, Accepts, Absent
  <2>5. EntryOK(o, [kind |-> "fill", trade |-> t, from |-> status[o], to |-> s])
    BY <1>5 DEF FillBooked, EntryOK, Routed, TradesRouted
  <2> HIDE DEF n, s
  <2> QED
    BY <1>3, <2>1, <2>2, <2>3, <2>4, <2>5
<1> QED
  BY <1>1, <1>2, <1>4, <1>5, StepKinds

-----------------------------------------------------------------------------
(* What the orders executed, and what was booked of the trades.            *)

LEMMA ExecutedType ==
  ASSUME FillsInv, Logged, NEW o \in Orders
  PROVE  /\ Executed(o) \in Seq(Int)
         /\ Len(Executed(o)) = Len(log[o])
         /\ Total(Executed(o)) \in Int
<1>1. log[o] \in Seq(Transition)
  BY DEF FillsInv, TypeOK
<1>2. \A i \in DOMAIN log[o] : log[o][i].kind = "fill" => Announced(log[o][i].trade) \in Int
  BY AnnouncedType DEF Logged, EntryOK, FillsInv
<1>3. Executed(o) \in Seq(Int) /\ Len(Executed(o)) = Len(log[o])
  BY <1>1, <1>2 DEF Executed
<1> QED
  BY <1>3, TotalType

LEMMA ExecutedKept ==
  ASSUME FillsInv, Logged, TradesKept, NEW o \in Orders, log'[o] = log[o]
  PROVE  Executed(o)' = Executed(o)
<1>1. \A i \in DOMAIN log[o] : log[o][i].kind = "fill" =>
        /\ trades'[log[o][i].trade].size = trades[log[o][i].trade].size
        /\ trades'[log[o][i].trade].scale = trades[log[o][i].trade].scale
  BY DEF Logged, EntryOK, TradesKept
<1> QED
  BY <1>1 DEF Executed, Announced

LEMMA ExecutedAppended ==
  ASSUME FillsInv, Logged, TradesKept, NEW o \in Orders, NEW kind, NEW t, NEW s, NEW n,
         Transit(o, kind, t, s, n), kind = "fill" => t \in DOMAIN trades
  PROVE  LET x == IF kind = "fill" THEN Announced(t) ELSE 0
         IN  /\ x \in Int
             /\ Total(Executed(o)') = Total(Executed(o)) + x
             /\ \A p \in Orders : p # o => Executed(p)' = Executed(p)
<1> DEFINE x == IF kind = "fill" THEN Announced(t) ELSE 0
           e == [kind |-> kind, trade |-> t, from |-> status[o], to |-> s]
           N == Len(log[o])
           w == Executed(o)
           v == Executed(o)'
<1>1. /\ log[o] \in Seq(Transition) /\ log'[o] = Append(log[o], e)
      /\ \A p \in Orders : p # o => log'[p] = log[p]
  BY TransitEffect
<1>2. x \in Int
  BY AnnouncedType DEF FillsInv
<1>3. w \in Seq(Int) /\ Len(w) = N /\ DOMAIN w = 1..N /\ N \in Nat
  BY <1>1, ExecutedType
<1>4. DOMAIN log'[o] = 1..(N + 1) /\ log'[o][N + 1] = e
      /\ \A i \in 1..N : log'[o][i] = log[o][i]
  BY <1>1
<1>5. v[N + 1] = x /\ DOMAIN v = 1..(N + 1)
  <2>1. e.kind = kind /\ e.trade = t
    OBVIOUS
  <2>2. kind = "fill" => /\ trades'[t].size = trades[t].size
                         /\ trades'[t].scale = trades[t].scale
    BY DEF TradesKept
  <2>3. N + 1 \in DOMAIN log'[o]
    BY <1>3, <1>4
  <2> HIDE DEF e
  <2>4. v[N + 1] = x
    BY <1>4, <2>1, <2>2, <2>3 DEF Executed, Announced
  <2> HIDE DEF v
  <2>5. DOMAIN v = 1..(N + 1)
    BY <1>4 DEF v, Executed
  <2> QED
    BY <2>4, <2>5
<1>6. ASSUME NEW i \in 1..N
      PROVE  v[i] = w[i]
  <2>1. i \in DOMAIN log[o] /\ i \in DOMAIN log'[o] /\ log'[o][i] = log[o][i]
    BY <1>1, <1>3, <1>4
  <2>2. log[o][i].kind = "fill" =>
          /\ trades'[log[o][i].trade].size = trades[log[o][i].trade].size
          /\ trades'[log[o][i].trade].scale = trades[log[o][i].trade].scale
    BY <2>1 DEF Logged, EntryOK, TradesKept
  <2> QED
    BY <2>1, <2>2 DEF Executed, Announced
<1>7. v = Append(w, x)
  <2>1. v = [i \in 1..(N + 1) |-> v[i]]
    BY <1>5 DEF Executed
  <2> HIDE DEF v, w, x, N
  <2> DEFINE r == Append(w, x)
  <2>2. r \in Seq(Int) /\ Len(r) = N + 1 /\ r[N + 1] = x /\ \A i \in 1..N : r[i] = w[i]
    BY <1>2, <1>3
  <2> HIDE DEF r
  <2>3. r = [i \in 1..(N + 1) |-> r[i]]
    BY <2>2
  <2>4. \A i \in 1..(N + 1) : v[i] = r[i]
    BY <1>3, <1>5, <1>6, <2>2
  <2> QED
    BY <2>1, <2>3, <2>4 DEF r
<1>8. Total(v) = Total(w) + x
  <2> HIDE DEF v, w, x
  <2> QED
    BY <1>2, <1>3, <1>7, TotalAppend
<1>9. \A p \in Orders : p # o => Executed(p)' = Executed(p)
  BY <1>1, ExecutedKept
<1> QED
  BY <1>2, <1>8, <1>9

\* A transition more: one place more for the trade it names.
LEMMA BookedAppended ==
  ASSUME FillsInv, NEW o \in Orders, NEW kind, NEW t, NEW s, NEW n, Transit(o, kind, t, s, n),
         NEW u \in Nat
  PROVE  /\ u = t => Booked(u)' = Booked(u) \cup {<<o, Len(log[o]) + 1>>}
         /\ u # t => Booked(u)' = Booked(u)
         /\ <<o, Len(log[o]) + 1>> \notin Booked(u)
<1> DEFINE e == [kind |-> kind, trade |-> t, from |-> status[o], to |-> s]
           N == Len(log[o])
<1>1. /\ log[o] \in Seq(Transition) /\ log'[o] = Append(log[o], e)
      /\ \A p \in Orders : p # o => log'[p] = log[p]
  BY TransitEffect
<1>2. /\ DOMAIN log[o] = 1..N /\ DOMAIN log'[o] = 1..(N + 1) /\ N \in Nat
      /\ log'[o][N + 1].trade = t
      /\ \A i \in 1..N : log'[o][i] = log[o][i]
  BY <1>1
<1>3. \A p, i : <<p, i>> \in Booked(u) <=> p \in Orders /\ i \in DOMAIN log[p] /\ log[p][i].trade = u
  BY DEF Booked
<1>4. \A p, i : <<p, i>> \in Booked(u)' <=>
                  p \in Orders /\ i \in DOMAIN log'[p] /\ log'[p][i].trade = u
  BY DEF Booked
<1>5. \A x : x \in Booked(u) => \E p, i : x = <<p, i>>
  BY DEF Booked
<1>6. \A x : x \in Booked(u)' => \E p, i : x = <<p, i>>
  BY DEF Booked
<1> DEFINE B == Booked(u)
           C == Booked(u)'
<1> HIDE DEF B, C, N, e
<1>7. \A p, i : <<p, i>> \in C <=> \/ <<p, i>> \in B
                                   \/ u = t /\ p = o /\ i = N + 1
  <2> SUFFICES ASSUME NEW p, NEW i
               PROVE  <<p, i>> \in C <=> <<p, i>> \in B \/ (u = t /\ p = o /\ i = N + 1)
    OBVIOUS
  <2>1. CASE p # o
    BY <1>1, <1>3, <1>4, <2>1 DEF B, C
  <2>2. CASE p = o /\ i = N + 1
    BY <1>2, <1>3, <1>4, <2>2 DEF B, C
  <2>3. CASE p = o /\ i # N + 1
    <3>1. i \in 1..(N + 1) <=> i \in 1..N
      BY <1>2, <2>3
    <3> QED
      BY <1>2, <1>3, <1>4, <2>3, <3>1 DEF B, C
  <2> QED
    BY <2>1, <2>2, <2>3
<1>8. <<o, N + 1>> \notin B
  BY <1>2, <1>3 DEF B
<1>9. u = t => C = B \cup {<<o, N + 1>>}
  <2> SUFFICES ASSUME u = t PROVE C = B \cup {<<o, N + 1>>}
    OBVIOUS
  <2>1. \A x : x \in C => x \in B \cup {<<o, N + 1>>}
    BY <1>6, <1>7 DEF C
  <2>2. \A x : x \in B => x \in C
    BY <1>5, <1>7 DEF B
  <2>3. <<o, N + 1>> \in C
    BY <1>7
  <2> QED
    BY <2>1, <2>2, <2>3
<1>10. u # t => C = B
  <2> SUFFICES ASSUME u # t PROVE C = B
    OBVIOUS
  <2>1. \A x : x \in C => x \in B
    BY <1>6, <1>7 DEF C
  <2>2. \A x : x \in B => x \in C
    BY <1>5, <1>7 DEF B
  <2> QED
    BY <2>1, <2>2
<1> QED
  BY <1>8, <1>9, <1>10 DEF B, C, N

LEMMA BookedKept == ASSUME log' = log, NEW u \in Nat PROVE Booked(u)' = Booked(u)
BY DEF Booked

\* Nothing is booked of a trade that is not there.
LEMMA BookedLater ==
  ASSUME Logged, NEW u \in Nat \ {0}, u \notin DOMAIN trades
  PROVE  Booked(u) = {}
BY DEF Booked, Logged, EntryOK

-----------------------------------------------------------------------------
(* The books of a client id balance: what its orders executed is what was  *)
(* booked of its trades, each as often as it was booked.                   *)

Replayed == \A o \in Orders : filled[o] = Wrap(Total(Executed(o)))

OrderTerm(c, o) == IF client[o] = c THEN Total(Executed(o)) ELSE 0
TradeTerm(c, t) ==
  IF client[trades[t].of] = c THEN Announced(t) * Cardinality(Booked(t)) ELSE 0

ExecutedOf(c) == OrderSum([o \in Orders |-> OrderTerm(c, o)])
BookedOf(c)   == Total([t \in DOMAIN trades |-> TradeTerm(c, t)])

BookedFinite == \A t \in DOMAIN trades : IsFiniteSet(Booked(t))
Balanced == BookedFinite /\ \A c \in ClientIds : ExecutedOf(c) = BookedOf(c)

LEMMA OrderTermType ==
  ASSUME FillsInv, Logged, NEW c
  PROVE  [o \in Orders |-> OrderTerm(c, o)] \in [Orders -> Int]
BY ExecutedType DEF OrderTerm

LEMMA TradeTermType ==
  ASSUME FillsInv, BookedFinite, NEW c
  PROVE  LET w == [t \in DOMAIN trades |-> TradeTerm(c, t)]
         IN  /\ w \in Seq(Int)
             /\ Len(w) = Len(trades) /\ DOMAIN w = 1..Len(trades) /\ Len(trades) \in Nat
             /\ \A t \in DOMAIN trades : w[t] = TradeTerm(c, t)
<1>1. DOMAIN trades = 1..Len(trades) /\ Len(trades) \in Nat
  BY DEF FillsInv, TypeOK
<1>2. ASSUME NEW t \in DOMAIN trades
      PROVE  TradeTerm(c, t) \in Int
  <2>1. Announced(t) \in Int
    BY AnnouncedType DEF FillsInv
  <2>2. Cardinality(Booked(t)) \in Int
    BY FS_CardinalityType DEF BookedFinite
  <2>3. Announced(t) * Cardinality(Booked(t)) \in Int
    BY <2>1, <2>2
  <2> QED
    BY <2>3 DEF TradeTerm
<1> QED
  BY <1>1, <1>2

LEMMA SumsBegin == ASSUME Init PROVE Replayed /\ Balanced
<1>1. FillsInv /\ trades = <<>> /\ \A o \in Orders : log[o] = <<>> /\ filled[o] = 0
  BY FillsInitInv DEF Init
<1>2. Logged
  BY DEF Init, Logged, Absent
<1>3. \A o \in Orders : Total(Executed(o)) = 0
  <2>1. \A o \in Orders : Executed(o) \in Seq(Int) /\ Len(Executed(o)) = 0
    BY <1>1, <1>2, ExecutedType
  <2> QED
    BY <2>1, TotalZero
<1>4. Replayed
  <2>1. Wrap(0) = 0
    BY WrapKeeps, MaxIntAssumption DEF Fits, MinInt
  <2> QED
    BY <1>1, <1>3, <2>1 DEF Replayed
<1>5. BookedFinite
  BY <1>1 DEF BookedFinite
<1>6. ASSUME NEW c \in ClientIds
      PROVE  ExecutedOf(c) = BookedOf(c)
  <2> DEFINE g == [o \in Orders |-> OrderTerm(c, o)]
             w == [t \in DOMAIN trades |-> TradeTerm(c, t)]
  <2>1. g \in [Orders -> Int] /\ \A o \in Orders : g[o] = 0
    BY <1>1, <1>2, <1>3, OrderTermType DEF OrderTerm
  <2>2. w \in Seq(Int) /\ \A n \in 1..Len(w) : w[n] = 0
    <3>1. w \in Seq(Int) /\ Len(w) = 0
      BY <1>1, <1>5, TradeTermType
    <3> QED
      BY <3>1
  <2> HIDE DEF g, w
  <2>3. OrderSum(g) = 0
    BY <2>1, OrderSumZero
  <2>4. Total(w) = 0
    BY <2>2, TotalZero
  <2> QED
    BY <2>3, <2>4 DEF ExecutedOf, BookedOf, g, w
<1> QED
  BY <1>4, <1>5, <1>6 DEF Balanced

LEMMA AnnouncedInt == \A e \in Trade : e.size * 10^(e.scale - Scale) \in Int
<1> SUFFICES ASSUME NEW e \in Trade PROVE e.size * 10^(e.scale - Scale) \in Int
  OBVIOUS
<1>1. e.size \in Int /\ e.scale \in FillScales
  BY MaxIntAssumption DEF Trade
<1>2. 10^(e.scale - Scale) \in Int
  BY <1>1, FillsAssumption, MaxIntAssumption DEF Fits, MinInt
<1> QED
  BY <1>1, <1>2

\* A step that books nothing.
LEMMA BooksQuiet ==
  ASSUME FillsInv, FillsInv', Logged, Balanced, TradesKept, client' = client,
         \A o \in Orders : Total(Executed(o)') = Total(Executed(o)),
         \A u \in Nat \ {0} : Booked(u)' = Booked(u)
  PROVE  Balanced'
<1>d. /\ DOMAIN trades = 1..Len(trades) /\ Len(trades) \in Nat
      /\ DOMAIN trades' = 1..Len(trades')
      /\ DOMAIN trades \subseteq DOMAIN trades'
      /\ Len(trades') \in {Len(trades), Len(trades) + 1}
      /\ \A t \in DOMAIN trades' : t \in Nat \ {0}
  BY DomainKept DEF TradesKept
<1>b. \A t \in DOMAIN trades' : Booked(t)' = Booked(t)
  BY <1>d, Zenon
<1>1. \A t \in DOMAIN trades' : t \notin DOMAIN trades => Booked(t)' = {}
  <2>1. ASSUME NEW t \in DOMAIN trades', t \notin DOMAIN trades
        PROVE  Booked(t) = {}
    <3>1. t \in Nat \ {0}
      BY <1>d, Zenon
    <3> QED
      BY <2>1, <3>1, BookedLater, Zenon
  <2> QED
    BY <1>b, <2>1, Zenon
<1>2. BookedFinite'
  <2>1. ASSUME NEW t \in DOMAIN trades'
        PROVE  IsFiniteSet(Booked(t)')
    <3>1. CASE t \in DOMAIN trades
      BY <1>b, <3>1, Zenon DEF Balanced, BookedFinite
    <3>2. CASE t \notin DOMAIN trades
      BY <1>1, <3>2, FS_EmptySet, Zenon
    <3> QED
      BY <3>1, <3>2
  <2> QED
    BY <2>1 DEF BookedFinite
<1>3. ASSUME NEW c \in ClientIds
      PROVE  (ExecutedOf(c) = BookedOf(c))'
  <2> DEFINE w == [t \in DOMAIN trades |-> TradeTerm(c, t)]
             v == [t \in DOMAIN trades' |-> TradeTerm(c, t)']
             N == Len(trades)
  <2>1. ExecutedOf(c)' = ExecutedOf(c)
    <3>1. \A o \in Orders : OrderTerm(c, o)' = OrderTerm(c, o)
      BY DEF OrderTerm
    <3>2. [o \in Orders |-> OrderTerm(c, o)'] = [o \in Orders |-> OrderTerm(c, o)]
      BY <3>1
    <3> QED
      BY <3>2 DEF ExecutedOf
  <2>2. \A t \in DOMAIN trades : TradeTerm(c, t)' = TradeTerm(c, t)
    <3> SUFFICES ASSUME NEW t \in DOMAIN trades PROVE TradeTerm(c, t)' = TradeTerm(c, t)
      OBVIOUS
    <3>1. Announced(t)' = Announced(t) /\ trades'[t].of = trades[t].of
      BY AnnouncedKept DEF TradesKept
    <3>2. Booked(t)' = Booked(t)
      BY <1>b, <1>d, Zenon
    <3> QED
      BY <3>1, <3>2 DEF TradeTerm
  <2>3. w \in Seq(Int) /\ Len(w) = N /\ \A t \in DOMAIN trades : w[t] = TradeTerm(c, t)
    BY TradeTermType DEF Balanced
  <2>4. DOMAIN v = 1..Len(trades') /\ \A t \in DOMAIN trades : v[t] = w[t]
    BY <1>d, <2>2, <2>3
  <2>5. CASE Len(trades') = N
    <3> HIDE DEF w
    <3>1. v = [t \in 1..N |-> v[t]] /\ w = [t \in 1..N |-> w[t]]
      BY <1>d, <2>3, <2>5
    <3> HIDE DEF v
    <3>2. v = w
      BY <1>d, <2>4, <3>1
    <3> QED
      BY <2>1, <3>2 DEF v, w, BookedOf, Balanced
  <2>6. CASE Len(trades') = N + 1
    <3>n. N \in Nat /\ N + 1 \in Nat
      <4>1. \A n \in Nat : n + 1 \in Nat
        OBVIOUS
      <4> QED
        BY <1>d, <4>1, Zenon
    <3>k. PICK k \in Nat : k = N + 1
      BY <3>n, Zenon
    <3>1. k \in DOMAIN trades' /\ k \notin DOMAIN trades
      BY <1>d, <2>6, <3>k
    <3>2. v[k] = 0
      <4>1. Cardinality(Booked(k)') = 0
        BY <1>1, <3>1, FS_EmptySet, Zenon
      <4>2. Announced(k)' \in Int
        <5>1. trades'[k] \in Trade
          BY <3>1 DEF FillsInv, TypeOK
        <5> QED
          BY <5>1, AnnouncedInt DEF Announced
      <4>3. TradeTerm(c, k)' = 0
        BY <4>1, <4>2 DEF TradeTerm
      <4> QED
        BY <3>1, <4>3
    <3>3. v = [t \in 1..k |-> v[t]]
      BY <1>d, <2>6, <3>k
    <3> DEFINE r == Append(w, 0)
    <3> HIDE DEF v, w, N
    <3>4. r \in Seq(Int) /\ Len(r) = k /\ r[k] = 0 /\ \A t \in 1..N : r[t] = w[t]
      BY <2>3, <3>n, <3>k
    <3> HIDE DEF r
    <3>5. r = [t \in 1..k |-> r[t]]
      BY <3>4
    <3>6. \A t \in 1..k : v[t] = r[t]
      <4>1. \A t \in 1..k : t # k => t \in 1..N
        BY <3>n, <3>k
      <4>2. \A t \in 1..N : v[t] = w[t]
        BY <1>d, <2>4 DEF N
      <4> QED
        BY <3>2, <3>4, <4>1, <4>2
    <3>7. v = r
      BY <3>3, <3>5, <3>6
    <3>8. Total(v) = Total(w)
      <4>1. Total(r) = Total(w) + 0 /\ Total(w) \in Int
        BY <2>3, TotalAppend, TotalType DEF r
      <4> QED
        BY <3>7, <4>1
    <3> QED
      BY <2>1, <3>8 DEF v, w, BookedOf, Balanced
  <2> QED
    BY <1>d, <2>5, <2>6
<1> QED
  BY <1>2, <1>3 DEF Balanced

\* A fill is booked: once more of its trade, and as much more of its order.
LEMMA BooksFill ==
  ASSUME FillsInv, FillsInv', Routed, Logged, Balanced, client' = client,
         NEW t \in DOMAIN trades, NEW o \in Orders, FillBooked(t, o)
  PROVE  Balanced'
<1> DEFINE n == Wrap(filled[o] + Announced(t))
           s == FillLeads(o, n)
           place == <<o, Len(log[o]) + 1>>
<1>1. TradesKept /\ Len(trades') = Len(trades)
  BY AnnouncementsKept
<1>2. Transit(o, "fill", t, s, n)
  BY DEF FillBooked, Book
<1>d. /\ DOMAIN trades = 1..Len(trades) /\ Len(trades) \in Nat
      /\ DOMAIN trades' = DOMAIN trades
  BY <1>1, DomainKept
<1>3. /\ Announced(t) \in Int
      /\ Total(Executed(o)') = Total(Executed(o)) + Announced(t)
      /\ \A p \in Orders : p # o => Executed(p)' = Executed(p)
  BY <1>1, <1>2, ExecutedAppended
<1>4. /\ Booked(t)' = Booked(t) \cup {place} /\ place \notin Booked(t)
      /\ \A u \in DOMAIN trades : u # t => Booked(u)' = Booked(u)
  BY <1>d, <1>2, BookedAppended
<1>5. /\ IsFiniteSet(Booked(t)) /\ Cardinality(Booked(t)) \in Nat
      /\ IsFiniteSet(Booked(t)') /\ Cardinality(Booked(t)') = Cardinality(Booked(t)) + 1
  <2>1. IsFiniteSet(Booked(t)) /\ Cardinality(Booked(t)) \in Nat
    BY FS_CardinalityType DEF Balanced, BookedFinite
  <2>2. /\ IsFiniteSet(Booked(t) \cup {place})
        /\ Cardinality(Booked(t) \cup {place}) = Cardinality(Booked(t)) + 1
    BY <1>4, <2>1, FS_AddElement
  <2> QED
    BY <1>4, <2>1, <2>2, Zenon
<1>6. BookedFinite'
  BY <1>d, <1>4, <1>5 DEF Balanced, BookedFinite
<1>7. client[trades[t].of] = client[o] /\ trades'[t].of = trades[t].of
  BY <1>1 DEF FillBooked, Routed, TradesRouted, TradesKept
<1>8. ASSUME NEW c \in ClientIds
      PROVE  (ExecutedOf(c) = BookedOf(c))'
  <2> DEFINE w == [u \in DOMAIN trades |-> TradeTerm(c, u)]
             v == [u \in DOMAIN trades' |-> TradeTerm(c, u)']
             g == [p \in Orders |-> OrderTerm(c, p)]
             h == [p \in Orders |-> OrderTerm(c, p)']
             x == IF client[o] = c THEN Announced(t) ELSE 0
  <2>1. g \in [Orders -> Int] /\ w \in Seq(Int) /\ Len(w) = Len(trades) /\ x \in Int
    BY <1>3, OrderTermType, TradeTermType DEF Balanced
  <2>2. h[o] = g[o] + x /\ \A p \in Orders : p # o => h[p] = g[p]
    <3>1. OrderTerm(c, o)' = OrderTerm(c, o) + x
      <4>1. Total(Executed(o)) \in Int
        BY ExecutedType
      <4> QED
        BY <1>3, <4>1 DEF OrderTerm
    <3>2. \A p \in Orders : p # o => OrderTerm(c, p)' = OrderTerm(c, p)
      BY <1>3 DEF OrderTerm
    <3> QED
      BY <3>1, <3>2
  <2>3. \A u \in DOMAIN trades : u # t => v[u] = w[u]
    <3> SUFFICES ASSUME NEW u \in DOMAIN trades, u # t PROVE TradeTerm(c, u)' = TradeTerm(c, u)
      BY <1>d
    <3>1. Announced(u)' = Announced(u) /\ trades'[u].of = trades[u].of
      BY <1>1, AnnouncedKept DEF TradesKept
    <3>2. Booked(u)' = Booked(u)
      BY <1>4
    <3> QED
      BY <3>1, <3>2 DEF TradeTerm
  <2>4. v[t] = w[t] + x
    <3>1. Announced(t)' = Announced(t)
      BY <1>1, AnnouncedKept
    <3>2. TradeTerm(c, t)' = IF client[o] = c
                             THEN Announced(t) * (Cardinality(Booked(t)) + 1) ELSE 0
      BY <1>5, <1>7, <3>1 DEF TradeTerm
    <3>3. TradeTerm(c, t) = IF client[o] = c THEN Announced(t) * Cardinality(Booked(t)) ELSE 0
      BY <1>7 DEF TradeTerm
    <3>4. Announced(t) * (Cardinality(Booked(t)) + 1)
            = Announced(t) * Cardinality(Booked(t)) + Announced(t)
      BY <1>3, <1>5
    <3> QED
      BY <1>d, <3>2, <3>3, <3>4
  <2>5. DOMAIN v = 1..Len(trades) /\ DOMAIN h = Orders
    BY <1>d
  <2> HIDE DEF w, v, g, h, x
  <2>6. h \in [Orders -> Int]
    <3>1. \A p \in Orders : h[p] \in Int
      BY <2>1, <2>2
    <3>2. h = [p \in Orders |-> h[p]]
      BY DEF h
    <3> QED
      BY <3>1, <3>2
  <2>7. v \in Seq(Int) /\ Len(v) = Len(w)
    <3>1. \A u \in 1..Len(trades) : v[u] \in Int
      BY <1>d, <2>1, <2>3, <2>4
    <3>2. v = [u \in 1..Len(trades) |-> v[u]]
      BY <1>d DEF v
    <3> QED
      BY <1>d, <2>1, <3>1, <3>2
  <2>8. OrderSum(h) = OrderSum(g) + x
    <3>1. OrderSum(h) = OrderSum(g) + (h[o] - g[o])
      BY <2>1, <2>2, <2>6, OrderSumUpdate
    <3>2. g[o] \in Int /\ OrderSum(g) \in Int
      BY <2>1, OrderSumType
    <3> QED
      BY <2>1, <2>2, <3>1, <3>2
  <2>9. Total(v) = Total(w) + x
    <3>1. t \in 1..Len(w) /\ \A u \in 1..Len(w) : u # t => v[u] = w[u]
      BY <1>d, <2>1, <2>3
    <3>2. Total(v) = Total(w) + (v[t] - w[t])
      BY <2>1, <2>7, <3>1, TotalUpdate
    <3>3. w[t] \in Int /\ Total(w) \in Int
      BY <2>1, <3>1, TotalType
    <3> QED
      BY <2>1, <2>4, <3>2, <3>3
  <2>10. OrderSum(g) = Total(w)
    BY DEF Balanced, ExecutedOf, BookedOf, g, w
  <2>11. OrderSum(h) = Total(v)
    BY <2>8, <2>9, <2>10
  <2> QED
    BY <2>11 DEF ExecutedOf, BookedOf, h, v
<1> QED
  BY <1>6, <1>8 DEF Balanced

(* The balance and the replay over a step of any kind.                     *)
LEMMA SumsStep ==
  ASSUME FillsInv, FillsInv', Routed, Logged, Replayed, Balanced, Next
  PROVE  Replayed' /\ Balanced'
<1>c. client' = client
  BY PhaseStep
<1>f. \A o \in Orders : filled[o] \in Int
  BY MaxIntAssumption DEF FillsInv, TypeOK, MinInt
<1>q. ASSUME TradesKept, log' = log, filled' = filled
      PROVE  Replayed' /\ Balanced'
  <2>1. \A o \in Orders : Executed(o)' = Executed(o)
    BY <1>q, ExecutedKept
  <2>2. \A u \in Nat \ {0} : Booked(u)' = Booked(u)
    BY <1>q, BookedKept
  <2>3. \A o \in Orders : Total(Executed(o)') = Total(Executed(o))
    BY <2>1
  <2>4. Replayed'
    BY <1>q, <2>3 DEF Replayed
  <2>5. Balanced'
    BY <1>c, <1>q, <2>2, <2>3, BooksQuiet
  <2> QED
    BY <2>4, <2>5
<1>1. CASE UNCHANGED orderVars /\ TradesKept
  BY <1>1, <1>q DEF orderVars
<1>2. ASSUME NEW o \in Orders, Restore(o)
      PROVE  Replayed' /\ Balanced'
  BY <1>2, <1>q DEF Restore, venueVars, TradesKept
<1>3. ASSUME NEW o \in Orders, NEW kind \in EventKind \ {"fill"}, NEW s \in Leads(kind),
             Marked(o, kind, s)
      PROVE  Replayed' /\ Balanced'
  <2>1. Transit(o, kind, 0, s, filled[o]) /\ TradesKept
    BY <1>3 DEF Marked, TradesKept
  <2>2. kind # "fill"
    OBVIOUS
  <2>3. /\ Total(Executed(o)') = Total(Executed(o)) + 0
        /\ \A p \in Orders : p # o => Executed(p)' = Executed(p)
    BY <2>1, <2>2, ExecutedAppended
  <2>4. \A p \in Orders : Total(Executed(p)') = Total(Executed(p))
    <3>1. Total(Executed(o)) \in Int
      BY ExecutedType
    <3> QED
      BY <2>3, <3>1
  <2>5. \A u \in Nat \ {0} : Booked(u)' = Booked(u)
    BY <2>1, BookedAppended
  <2>6. \A p \in Orders : filled'[p] = filled[p]
    BY <2>1 DEF Transit, FillsInv, TypeOK
  <2>7. Replayed'
    BY <2>4, <2>6 DEF Replayed
  <2>8. Balanced'
    BY <1>c, <2>1, <2>4, <2>5, BooksQuiet
  <2> QED
    BY <2>7, <2>8
<1>4. ASSUME NEW t \in DOMAIN trades, NEW o \in Orders, FillBooked(t, o)
      PROVE  Replayed' /\ Balanced'
  <2> DEFINE n == Wrap(filled[o] + Announced(t))
             s == FillLeads(o, n)
             x == Total(Executed(o))
             y == Announced(t)
  <2>1. TradesKept
    BY <1>4, AnnouncementsKept
  <2>2. Transit(o, "fill", t, s, n)
    BY <1>4 DEF FillBooked, Book
  <2>3. /\ Total(Executed(o)') = x + y
        /\ \A p \in Orders : p # o => Executed(p)' = Executed(p)
    BY <2>1, <2>2, ExecutedAppended
  <2>4. filled'[o] = n /\ \A p \in Orders : p # o => filled'[p] = filled[p]
    BY <2>2 DEF Transit, FillsInv, TypeOK
  <2>5. n = Wrap(x + y)
    <3>1. x \in Int /\ y \in Int
      BY ExecutedType, AnnouncedType DEF FillsInv
    <3>2. filled[o] = Wrap(x)
      BY DEF Replayed
    <3> HIDE DEF x, y
    <3>3. Wrap(Wrap(x) + y) = Wrap(x + y)
      BY <3>1, WrapAdds
    <3> QED
      BY <3>2, <3>3 DEF y
  <2>6. Replayed'
    <3>1. filled'[o] = Wrap(Total(Executed(o)'))
      BY <2>3, <2>4, <2>5
    <3>2. ASSUME NEW p \in Orders, p # o
          PROVE  filled'[p] = Wrap(Total(Executed(p)'))
      <4>1. filled'[p] = filled[p] /\ Executed(p)' = Executed(p)
        BY <2>3, <2>4, <3>2
      <4> QED
        BY <4>1 DEF Replayed
    <3> QED
      BY <3>1, <3>2 DEF Replayed
  <2>7. Balanced'
    BY <1>c, <1>4, BooksFill
  <2> QED
    BY <2>6, <2>7
<1> QED
  BY <1>1, <1>2, <1>3, <1>4, StepKinds

BooksInv ==
  /\ FillsInv /\ Routed
  /\ Logged /\ Chained
  /\ Replayed /\ Balanced

LEMMA BooksBegin == Init => BooksInv
<1> SUFFICES ASSUME Init PROVE BooksInv
  OBVIOUS
<1>1. Routed
  BY DEF Init, Routed, MapsRouted, TradesRouted
<1>2. Logged /\ Chained
  BY DEF Init, Logged, Chained, Absent
<1> QED
  BY <1>1, <1>2, FillsInitInv, SumsBegin DEF BooksInv

LEMMA BooksStay == ASSUME UNCHANGED vars, BooksInv PROVE BooksInv'
<1>u. /\ client' = client /\ total' = total /\ phase' = phase /\ clientMap' = clientMap
      /\ venueMap' = venueMap /\ status' = status /\ filled' = filled /\ log' = log
      /\ live' = live /\ trades' = trades
  BY DEF vars, requestVars, routerVars, orderVars, venueVars
<1>1. FillsInv'
  BY <1>u DEF BooksInv, FillsInv, TypeOK, Cached
<1>2. Routed'
  BY <1>u DEF BooksInv, Routed, MapsRouted, TradesRouted
<1>3. Logged' /\ Chained'
  BY <1>u DEF BooksInv, Logged, Chained, EntryOK
<1>4. Replayed' /\ Balanced'
  <2>1. \A o \in Orders : Executed(o)' = Executed(o)
    BY <1>u DEF Executed, Announced
  <2>2. \A o \in Orders : Total(Executed(o)') = Total(Executed(o))
    BY <2>1
  <2>3. \A u \in Nat \ {0} : Booked(u)' = Booked(u)
    BY <1>u, BookedKept
  <2>4. TradesKept
    BY <1>u DEF TradesKept
  <2>5. Replayed'
    BY <1>u, <2>2 DEF BooksInv, Replayed
  <2>6. Balanced'
    BY <1>u, <1>1, <2>2, <2>3, <2>4, BooksQuiet DEF BooksInv
  <2> QED
    BY <2>5, <2>6
<1> QED
  BY <1>1, <1>2, <1>3, <1>4 DEF BooksInv

LEMMA BooksNext == BooksInv /\ [Next]_vars => BooksInv'
<1>1. ASSUME BooksInv, Next PROVE BooksInv'
  <2>1. FillsInv /\ Routed /\ Logged /\ Chained /\ Replayed /\ Balanced /\ Next
    BY <1>1 DEF BooksInv
  <2>2. FillsInv'
    BY <2>1, FillsNextInv
  <2>3. Routed'
    BY <2>1, RoutedStep
  <2>4. Logged' /\ Chained'
    BY <2>1, <2>2, LoggedStep, ChainedStep
  <2>5. Replayed' /\ Balanced'
    BY <2>1, <2>2, SumsStep
  <2> QED
    BY <2>2, <2>3, <2>4, <2>5 DEF BooksInv
<1> QED
  BY <1>1, BooksStay

LEMMA BooksInvariant == Spec => []BooksInv
BY BooksBegin, BooksNext, PTL DEF Spec

\* Replaying an order's transitions gives its status and its filled size, whatever
\* process_event refused in between, was handed twice, or let overflow.
THEOREM FilledSizeReplays == Spec => []FilledReplays
<1>1. BooksInv => FilledReplays
  BY DEF BooksInv, Chained, Replayed, FilledReplays
<1> QED
  BY <1>1, BooksInvariant, PTL

\* An order that was traded in the order's scale, each trade booked once at most.
LEMMA OneScaleBooks ==
  ASSUME BooksInv, NEW o \in Orders,
         \A t \in TradesOf(Twins(o)) : trades[t].scale = Scale /\ Cardinality(Booked(t)) <= 1
  PROVE  /\ \A p \in Orders : client[p] = client[o] =>
              Total(Executed(p)) \in Nat /\ filled[p] <= Total(Executed(p))
         /\ BookedOf(client[o]) <= SumOf(TradesOf(Twins(o)))
<1> DEFINE T == TradesOf(Twins(o))
           c == client[o]
<1>i. FillsInv /\ Routed /\ Logged /\ Replayed /\ Balanced
  BY DEF BooksInv
<1>t. \A t \in DOMAIN trades : trades[t] \in Trade
  BY <1>i DEF FillsInv, TypeOK
<1>1. \A t \in DOMAIN trades : trades[t].of \in Orders /\ trades[t].size \in Nat
  <2>1. \A e \in Trade : e.of \in Orders /\ e.size \in Nat
    BY MaxIntAssumption DEF Trade
  <2> QED
    BY <1>t, <2>1
<1>2. \A t \in DOMAIN trades : client[trades[t].of] = c => t \in T
  BY <1>1, <1>i DEF Routed, TradesRouted, Twins, TradesOf
<1>3. ASSUME NEW t \in T
      PROVE  Announced(t) = trades[t].size
  <2>1. t \in DOMAIN trades /\ trades[t].scale = Scale
    BY DEF TradesOf
  <2>2. Scale - Scale = 0 /\ 10^0 = 1
    BY FillsAssumption
  <2>3. trades[t].size * 1 = trades[t].size
    BY <1>1, <2>1
  <2> QED
    BY <2>1, <2>2, <2>3 DEF Announced
<1>4. ASSUME NEW p \in Orders, client[p] = c
      PROVE  Total(Executed(p)) \in Nat /\ filled[p] <= Total(Executed(p))
  <2> DEFINE w == Executed(p)
  <2>1. w \in Seq(Int) /\ Len(w) = Len(log[p]) /\ Total(w) \in Int
    BY <1>i, ExecutedType
  <2>2. ASSUME NEW i \in 1..Len(w)
        PROVE  0 <= w[i]
    <3>1. i \in DOMAIN log[p]
      BY <1>i, <2>1 DEF FillsInv, TypeOK
    <3>2. CASE log[p][i].kind = "fill"
      <4> DEFINE t == log[p][i].trade
      <4>1. t \in DOMAIN trades /\ client[trades[t].of] = c
        BY <1>i, <1>4, <3>1, <3>2 DEF Logged, EntryOK
      <4>2. Announced(t) \in Nat
        BY <1>1, <1>2, <1>3, <4>1
      <4>3. w[i] = Announced(t)
        BY <3>1, <3>2 DEF Executed
      <4> QED
        BY <4>2, <4>3
    <3>3. CASE log[p][i].kind # "fill"
      BY <3>1, <3>3 DEF Executed
    <3> QED
      BY <3>2, <3>3
  <2>3. 0 <= Total(w)
    <3> HIDE DEF w
    <3> DEFINE z == [n \in 1..Len(w) |-> 0]
    <3>1. Len(w) \in Nat
      BY <2>1
    <3>2. z \in Seq(Int) /\ Len(z) = Len(w) /\ \A n \in 1..Len(w) : z[n] = 0
      BY <3>1
    <3> HIDE DEF z
    <3>3. Total(z) = 0
      BY <3>2, TotalZero
    <3>4. \A n \in 1..Len(z) : z[n] <= w[n]
      BY <2>2, <3>2
    <3>5. Total(z) <= Total(w)
      BY <2>1, <3>2, <3>4, TotalMonotone
    <3> QED
      BY <3>3, <3>5
  <2>4. filled[p] = Wrap(Total(w))
    BY <1>i DEF Replayed
  <2> HIDE DEF w
  <2>5. Total(w) \in Nat
    BY <2>1, <2>3
  <2>6. filled[p] <= Total(w)
    BY <2>4, <2>5, WrapShrinks
  <2> QED
    BY <2>5, <2>6 DEF w
<1>5. BookedOf(c) <= SumOf(T)
  <2> DEFINE w == [t \in DOMAIN trades |-> TradeTerm(c, t)]
             v == [t \in DOMAIN trades |-> IF t \in T THEN trades[t].size ELSE 0]
  <2>1. w \in Seq(Int) /\ Len(w) = Len(trades)
        /\ DOMAIN trades = 1..Len(trades) /\ Len(trades) \in Nat
    BY <1>i, TradeTermType DEF Balanced
  <2>2. v \in Seq(Int) /\ Len(v) = Len(w)
    BY <1>1, <2>1
  <2>3. ASSUME NEW t \in DOMAIN trades
        PROVE  TradeTerm(c, t) <= IF t \in T THEN trades[t].size ELSE 0
    <3>1. CASE client[trades[t].of] = c
      <4>1. t \in T /\ Announced(t) = trades[t].size /\ trades[t].size \in Nat
        BY <1>1, <1>2, <1>3, <3>1
      <4>2. Cardinality(Booked(t)) \in {0, 1}
        <5>1. Cardinality(Booked(t)) \in Nat
          BY <1>i, FS_CardinalityType DEF Balanced, BookedFinite
        <5>2. Cardinality(Booked(t)) <= 1
          BY <4>1
        <5> QED
          BY <5>1, <5>2
      <4>3. Announced(t) * Cardinality(Booked(t)) <= trades[t].size
        BY <4>1, <4>2
      <4> QED
        BY <3>1, <4>1, <4>3 DEF TradeTerm
    <3>2. CASE client[trades[t].of] # c
      BY <1>1, <3>2 DEF TradeTerm
    <3> QED
      BY <3>1, <3>2
  <2>4. \A n \in 1..Len(w) : w[n] <= v[n]
    BY <2>1, <2>3
  <2> HIDE DEF w, v
  <2>5. Total(w) <= Total(v)
    BY <2>1, <2>2, <2>4, TotalMonotone
  <2> QED
    BY <2>5 DEF BookedOf, SumOf, w, v
<1> QED
  BY <1>4, <1>5

\* Under the property's premise the twins' filled sizes are below what the balance
\* gives them, and one that says Filled shows its whole size among them.
LEMMA TwinsShowTrades ==
  ASSUME BooksInv, NEW o \in Orders,
         \A t \in TradesOf(Twins(o)) : trades[t].scale = Scale /\ Cardinality(Booked(t)) <= 1
  PROVE  /\ FilledOf(Twins(o)) <= SumOf(TradesOf(Twins(o)))
         /\ status[o] = "Filled" => SumOf(TradesOf(Twins(o))) >= total[o]
<1> DEFINE c == client[o]
           g == [p \in Orders |-> IF p \in Twins(o) THEN filled[p] ELSE 0]
           h == [p \in Orders |-> OrderTerm(c, p)]
           S == SumOf(TradesOf(Twins(o)))
<1>i. FillsInv /\ Logged /\ Balanced
  BY DEF BooksInv
<1>c. c \in ClientIds /\ total[o] \in Int /\ filled[o] \in Int
      /\ \A p \in Orders : filled[p] \in Int
  <2>1. client[o] \in ClientIds
    BY <1>i DEF FillsInv, TypeOK
  <2>2. total[o] \in 1..MaxInt
    BY <1>i, FillsAssumption DEF FillsInv, TypeOK
  <2>3. \A p \in Orders : filled[p] \in Int
    BY <1>i, MaxIntAssumption DEF FillsInv, TypeOK, MinInt
  <2> QED
    BY <2>1, <2>2, <2>3
<1>1. \A p \in Orders : client[p] = c =>
        Total(Executed(p)) \in Nat /\ filled[p] <= Total(Executed(p))
  BY OneScaleBooks
<1>2. BookedOf(c) <= S
  BY OneScaleBooks
<1>3. g \in [Orders -> Int] /\ h \in [Orders -> Int]
  BY <1>c, <1>i, OrderTermType
<1>4. \A p \in Orders : g[p] <= h[p] /\ 0 <= h[p]
  BY <1>1 DEF OrderTerm, Twins
<1>5. FilledOf(Twins(o)) = OrderSum(g)
  <2>1. \A i \in DOMAIN OrderSeq : OrderSeq[i] \in Orders
    BY OrderSeqFacts
  <2>2. [i \in DOMAIN OrderSeq |-> g[OrderSeq[i]]]
          = [i \in DOMAIN OrderSeq |-> IF OrderSeq[i] \in Twins(o) THEN filled[OrderSeq[i]] ELSE 0]
    BY <2>1
  <2> HIDE DEF g
  <2> QED
    BY <2>2 DEF FilledOf, OrderSum
<1>6. OrderSum(h) = BookedOf(c)
  BY <1>c, <1>i DEF Balanced, ExecutedOf
<1>7. h[o] = Total(Executed(o))
  BY DEF OrderTerm
<1>8. S \in Int
  <2>1. \A t \in DOMAIN trades : trades[t].size \in Int
    <3>1. \A e \in Trade : e.size \in Int
      BY MaxIntAssumption DEF Trade
    <3> QED
      BY <1>i, <3>1 DEF FillsInv, TypeOK
  <2> DEFINE T == TradesOf(Twins(o))
             v == [t \in DOMAIN trades |-> IF t \in T THEN trades[t].size ELSE 0]
  <2>2. DOMAIN trades = 1..Len(trades) /\ Len(trades) \in Nat
    BY <1>i DEF FillsInv, TypeOK
  <2>3. v \in Seq(Int)
    BY <2>1, <2>2
  <2> HIDE DEF v
  <2>4. Total(v) \in Int
    BY <2>3, TotalType
  <2> QED
    BY <2>4 DEF v, SumOf
<1> HIDE DEF g, h, S
<1>9. OrderSum(g) <= OrderSum(h) /\ h[o] <= OrderSum(h)
  BY <1>3, <1>4, OrderSumMonotone, OrderSumCovers
<1>10. OrderSum(g) \in Int /\ OrderSum(h) \in Int
  BY <1>3, OrderSumType
<1>11. FilledOf(Twins(o)) <= S
  BY <1>2, <1>5, <1>6, <1>8, <1>9, <1>10
<1>12. status[o] = "Filled" => S >= total[o]
  <2> SUFFICES ASSUME status[o] = "Filled" PROVE S >= total[o]
    OBVIOUS
  <2>1. filled[o] >= total[o]
    BY <1>i DEF Logged
  <2>2. filled[o] <= h[o] /\ h[o] \in Int
    BY <1>1, <1>3, <1>7
  <2> QED
    BY <1>2, <1>6, <1>8, <1>9, <1>10, <1>c, <2>1, <2>2
<1> QED
  BY <1>11, <1>12 DEF S

\* Where venues announce in the order's scale and no trade was booked twice, the
\* twins never show more than their venue traded, and an order that says Filled was
\* traded in full: route_event may book a trade to the wrong twin, but the books of
\* a client id balance.
THEOREM FilledWasTraded == Spec => []FilledIsTraded
<1>1. BooksInv => FilledIsTraded
  <2> SUFFICES ASSUME BooksInv PROVE FilledIsTraded
    OBVIOUS
  <2>1. ASSUME NEW o \in Orders,
               \A t \in TradesOf(Twins(o)) :
                 trades[t].scale = Scale /\ Cardinality(Booked(t)) <= 1
        PROVE  /\ FilledOf(Twins(o)) <= SumOf(TradesOf(Twins(o)))
               /\ status[o] = "Filled" => SumOf(TradesOf(Twins(o))) >= total[o]
    BY <2>1, TwinsShowTrades
  <2> QED
    BY <2>1 DEF FilledIsTraded
<1> QED
  BY <1>1, BooksInvariant, PTL

-----------------------------------------------------------------------------
(* Ended orders.                                                           *)

LEMMA EndedStep ==
  ASSUME BooksInv, Next, NEW p \in Orders, IsTerminal(status[p])
  PROVE  IsTerminal(status'[p]) /\ filled'[p] = filled[p]
<1>i. FillsInv /\ Logged
  BY DEF BooksInv
<1>1. CASE UNCHANGED orderVars /\ TradesKept
  BY <1>1 DEF orderVars
<1>2. ASSUME NEW o \in Orders, Restore(o)
      PROVE  status'[p] = status[p] /\ filled' = filled
  <2>1. status[o] = Absent
    BY <1>i, <1>2 DEF Restore, Logged
  <2>2. p # o
    BY <2>1 DEF IsTerminal, Absent
  <2> QED
    BY <1>i, <1>2, <2>2 DEF Restore, FillsInv, TypeOK
<1>3. ASSUME NEW o \in Orders, NEW kind \in EventKind \ {"fill"}, NEW s \in Leads(kind),
             Marked(o, kind, s)
      PROVE  IsTerminal(status'[p]) /\ filled'[p] = filled[p]
  <2>1. Transit(o, kind, 0, s, filled[o]) /\ Accepts(status[o], kind)
    BY <1>3 DEF Marked
  <2>2. CASE p # o
    <3>1. filled'[p] = filled[p] /\ status'[p] = status[p]
      BY <1>i, <2>1, <2>2, TransitEffect
    <3> QED
      BY <3>1
  <2>3. CASE p = o
    <3>1. status'[p] = s /\ filled'[p] = filled[p]
      BY <1>i, <2>1, <2>3 DEF Transit, FillsInv, TypeOK
    <3>2. IsTerminal(s) \/ (s = "Submitted" /\ status[p] = "Pending")
      BY <2>1, <2>3 DEF Leads, Accepts, EventKind, IsTerminal
    <3>3. status[p] # "Pending"
      BY DEF IsTerminal
    <3> QED
      BY <3>1, <3>2, <3>3
  <2> QED
    BY <2>2, <2>3
<1>4. ASSUME NEW t \in DOMAIN trades, NEW o \in Orders, FillBooked(t, o)
      PROVE  status'[p] = status[p] /\ filled'[p] = filled[p]
  <2>1. p # o
    BY <1>4 DEF FillBooked, Accepts, IsTerminal
  <2> QED
    BY <1>i, <1>4, <2>1, TransitEffect DEF FillBooked, Book
<1> QED
  BY <1>i, <1>1, <1>2, <1>3, <1>4, StepKinds

\* process_event lets a reject or a cancel overwrite a terminal status with another
\* one; no event brings the order back to life, and what it had executed when it
\* ended never changes again.
THEOREM EndedOrderStaysEnded == Spec => EndedStaysEnded
<1> DEFINE Step == \A o \in Orders :
                     IsTerminal(status[o]) => IsTerminal(status'[o]) /\ filled'[o] = filled[o]
<1>1. BooksInv /\ [Next]_vars => [Step]_vars
  BY EndedStep
<1>2. Spec => [][Step]_vars
  BY <1>1, BooksInvariant, PTL DEF Spec
<1> QED
  BY <1>2 DEF EndedStaysEnded

-----------------------------------------------------------------------------
(* An order that booked all its trades has ended.                          *)

\* The trades an order booked, and their sizes added up.
Seen(o)       == {log[o][i].trade : i \in DOMAIN log[o]} \ {0}
SizesIn(q, T) == [t \in DOMAIN q |-> IF t \in T THEN q[t].size ELSE 0]
SeenSizes(o)  == SizesIn(trades, Seen(o))

\* What the order executed is at least the sizes of the trades it booked; its filled
\* size is what it executed, if no addition overflowed; it is Partial only below its
\* size, and one that booked anything is Partial or has ended.
Counted(o) ==
  /\ Total(SeenSizes(o)) <= Total(Executed(o))
  /\ (\A t \in Seen(o) : ~trades[t].wrapped) => filled[o] = Total(Executed(o))
  /\ status[o] = "Partial" => filled[o] < total[o]
  /\ Seen(o) # {} => status[o] = "Partial" \/ IsTerminal(status[o])

LEMMA SizesInType ==
  ASSUME NEW q \in Seq(Trade), NEW T
  PROVE  /\ DOMAIN q = 1..Len(q) /\ Len(q) \in Nat
         /\ SizesIn(q, T) \in Seq(Int) /\ Len(SizesIn(q, T)) = Len(q)
         /\ \A t \in DOMAIN q : /\ q[t].size \in Nat
                                /\ SizesIn(q, T)[t] = IF t \in T THEN q[t].size ELSE 0
<1>1. \A e \in Trade : e.size \in Nat
  BY MaxIntAssumption DEF Trade
<1>2. /\ DOMAIN q = 1..Len(q) /\ Len(q) \in Nat
      /\ \A t \in DOMAIN q : q[t].size \in Nat
  BY <1>1
<1>3. SizesIn(q, T) \in Seq(Int) /\ Len(SizesIn(q, T)) = Len(q)
  BY <1>2 DEF SizesIn
<1> QED
  BY <1>2, <1>3 DEF SizesIn

LEMMA SeenTrades ==
  ASSUME FillsInv, Logged, NEW o \in Orders
  PROVE  /\ Seen(o) \subseteq DOMAIN trades
         /\ DOMAIN trades = 1..Len(trades) /\ Len(trades) \in Nat
         /\ SeenSizes(o) \in Seq(Int) /\ Len(SeenSizes(o)) = Len(trades)
         /\ \A t \in DOMAIN trades : /\ trades[t].size \in Nat
                                     /\ SeenSizes(o)[t] = IF t \in Seen(o) THEN trades[t].size ELSE 0
<1>1. trades \in Seq(Trade)
  BY DEF FillsInv, TypeOK
<1>2. Seen(o) \subseteq DOMAIN trades
  BY DEF Seen, Logged, EntryOK
<1> QED
  BY <1>1, <1>2, SizesInType DEF SeenSizes

\* A transition books its trade with the order it is of.
LEMMA TransitBooks ==
  ASSUME FillsInv, NEW o \in Orders, NEW kind, NEW t, NEW s, NEW n, Transit(o, kind, t, s, n)
  PROVE  /\ status'[o] = s /\ filled'[o] = n
         /\ Seen(o)' = Seen(o) \cup ({t} \ {0})
<1> DEFINE e == [kind |-> kind, trade |-> t, from |-> status[o], to |-> s]
           N == Len(log[o])
<1>1. /\ log[o] \in Seq(Transition) /\ log'[o] = Append(log[o], e)
      /\ status'[o] = s /\ filled'[o] = n
  BY TransitEffect
<1>2. e.trade = t
  OBVIOUS
<1> HIDE DEF e
<1>3. /\ DOMAIN log[o] = 1..N /\ N \in Nat /\ DOMAIN log'[o] = 1..(N + 1)
      /\ log'[o][N + 1] = e /\ \A i \in 1..N : log'[o][i] = log[o][i]
  BY <1>1
<1>4. {log'[o][i].trade : i \in DOMAIN log'[o]} = {log[o][i].trade : i \in DOMAIN log[o]} \cup {t}
  BY <1>2, <1>3
<1> QED
  BY <1>1, <1>4 DEF Seen

\* An overflow is not forgotten, and the one that books a fill is noted.
LEMMA WrappedStep ==
  ASSUME FillsInv, Next
  PROVE  \A t \in DOMAIN trades : trades[t].wrapped => trades'[t].wrapped
<1>t. trades \in Seq(Trade) /\ DOMAIN trades = 1..Len(trades) /\ Len(trades) \in Nat
  BY DEF FillsInv, TypeOK
<1>1. ASSUME NEW o \in Orders,
             \/ Register(o) \/ Restore(o) \/ Accept(o) \/ Acknowledged(o) \/ ExecutorStep(o)
             \/ Rejected(o) \/ SubmitFails(o) \/ Cancel(o) \/ Unregister(o)
      PROVE  trades' = trades
  BY <1>1 DEF Register, Restore, Accept, Acknowledged, ExecutorStep, RouteAck, ApplyAck,
              Rejected, SubmitFails, Cancel, Unregister, venueVars
<1>2. ASSUME NEW o \in Orders, VenueTrades(o) \/ AnsweredByFill(o), NEW t \in DOMAIN trades
      PROVE  trades'[t] = trades[t]
  <2>1. PICK e \in Trade : trades' = Append(trades, e)
    BY <1>2, NewTrades
  <2> QED
    BY <1>t, <2>1
<1>3. ASSUME NEW t \in DOMAIN trades, PumpStep(t), NEW u \in DOMAIN trades, trades[u].wrapped
      PROVE  trades'[u].wrapped
  <2>1. trades[t] \in Trade
    BY <1>t
  <2>2. CASE Route(t)
    BY <1>t, <1>3, <2>1, <2>2 DEF Route, Trade
  <2>3. ASSUME NEW o \in Orders, ProcessFill(t, o)
        PROVE  trades'[u].wrapped
    BY <1>t, <1>3, <2>1, <2>3 DEF ProcessFill, FillBooked, FillRefused, FillPanics, Trade
  <2> QED
    BY <1>3, <2>2, <2>3 DEF PumpStep
<1> QED
  BY <1>1, <1>2, <1>3 DEF Next

\* Nothing is booked for the order.
LEMMA CountedQuiet ==
  ASSUME FillsInv, FillsInv', Logged, Logged', TradesKept, NEW o \in Orders,
         Counted(o), total'[o] = total[o],
         Seen(o)' = Seen(o), Total(Executed(o)') = Total(Executed(o)), filled'[o] = filled[o],
         \A t \in DOMAIN trades : trades[t].wrapped => trades'[t].wrapped,
         \/ status'[o] = status[o] \/ IsTerminal(status'[o])
         \/ status'[o] \in {"Pending", "Submitted"} /\ Seen(o) = {}
  PROVE  Counted(o)'
<1> DEFINE w == SeenSizes(o)
           v == SeenSizes(o)'
<1>1. /\ Seen(o) \subseteq DOMAIN trades
      /\ DOMAIN trades = 1..Len(trades) /\ Len(trades) \in Nat
      /\ w \in Seq(Int) /\ Len(w) = Len(trades)
      /\ \A t \in DOMAIN trades : w[t] = IF t \in Seen(o) THEN trades[t].size ELSE 0
  BY SeenTrades
<1>2. /\ DOMAIN trades' = 1..Len(trades')
      /\ v \in Seq(Int) /\ Len(v) = Len(trades')
      /\ \A t \in DOMAIN trades' : v[t] = IF t \in Seen(o)' THEN trades'[t].size ELSE 0
  <2>1. trades' \in Seq(Trade) /\ v = SizesIn(trades', Seen(o)')
    BY DEF FillsInv, TypeOK, SeenSizes
  <2> HIDE DEF v
  <2> QED
    BY <2>1, SizesInType
<1>3. Len(trades') \in {Len(trades), Len(trades) + 1}
      /\ \A t \in DOMAIN trades : trades'[t].size = trades[t].size
  BY DEF TradesKept
<1> HIDE DEF w, v
<1>4. \A t \in 1..Len(w) : v[t] = w[t]
  <2> SUFFICES ASSUME NEW t \in 1..Len(w) PROVE v[t] = w[t]
    OBVIOUS
  <2>1. t \in DOMAIN trades /\ t \in DOMAIN trades'
    <3>1. Len(w) = Len(trades) /\ Len(trades) \in Nat /\ DOMAIN trades = 1..Len(trades)
      BY <1>1
    <3>2. DOMAIN trades' = 1..Len(trades')
      BY <1>2
    <3>3. Len(trades') = Len(trades) \/ Len(trades') = Len(trades) + 1
      BY <1>3
    <3>4. t \in 1..Len(trades)
      BY <3>1
    <3>5. t \in 1..Len(trades')
      BY <3>1, <3>3, <3>4
    <3> QED
      BY <3>1, <3>2, <3>4, <3>5
  <2>2. w[t] = IF t \in Seen(o) THEN trades[t].size ELSE 0
    BY <1>1, <2>1
  <2>3. v[t] = IF t \in Seen(o)' THEN trades'[t].size ELSE 0
    BY <1>2, <2>1
  <2> QED
    BY <1>3, <2>1, <2>2, <2>3
<1>5. Len(v) = Len(w) + 1 => v[Len(w) + 1] = 0
  BY <1>1, <1>2, <1>3
<1>6. Total(v) = Total(w)
  BY <1>1, <1>2, <1>3, <1>4, <1>5, TotalPadded
<1>7. Total(v) <= Total(Executed(o)')
  BY <1>6 DEF Counted, w
<1>8. (\A t \in Seen(o)' : ~trades'[t].wrapped) => filled'[o] = Total(Executed(o)')
  BY <1>1 DEF Counted
<1>9. /\ status'[o] = "Partial" => filled'[o] < total'[o]
      /\ Seen(o)' # {} => status'[o] = "Partial" \/ IsTerminal(status'[o])
  BY DEF Counted, IsTerminal
<1> QED
  BY <1>7, <1>8, <1>9 DEF Counted, v

\* The order books one of the trades.
LEMMA CountedFill ==
  ASSUME FillsInv, FillsInv', Logged, Logged', NEW t \in DOMAIN trades, NEW o \in Orders,
         Counted(o), total'[o] = total[o], FillBooked(t, o),
         \A u \in DOMAIN trades : trades[u].wrapped => trades'[u].wrapped
  PROVE  Counted(o)'
<1> DEFINE y == Announced(t)
           n == Wrap(filled[o] + y)
           s == FillLeads(o, n)
           x == Total(Executed(o))
           w == SeenSizes(o)
           v == SeenSizes(o)'
<1>1. TradesKept /\ Len(trades') = Len(trades)
  BY AnnouncementsKept
<1>2. Transit(o, "fill", t, s, n)
  BY DEF FillBooked, Book
<1>3. Total(Executed(o)') = x + y /\ x \in Int /\ y \in Int
  BY <1>1, <1>2, ExecutedAppended, ExecutedType, AnnouncedType DEF FillsInv
<1>4. filled'[o] = n /\ status'[o] = s /\ Seen(o)' = Seen(o) \cup ({t} \ {0})
  <2> HIDE DEF n, s
  <2> QED
    BY <1>2, TransitBooks
<1>5. Seen(o)' = Seen(o) \cup {t}
  <2>1. t # 0
    BY DEF FillsInv, TypeOK
  <2> QED
    BY <1>4, <2>1
<1>6. trades[t].size \in Nat /\ trades[t].size <= y
  <2>1. trades[t] \in Trade
    BY DEF FillsInv, TypeOK
  <2>2. trades[t].size \in Nat /\ trades[t].scale \in FillScales
    BY <2>1, MaxIntAssumption DEF Trade
  <2>3. PICK k \in Nat : 10^(trades[t].scale - Scale) = k /\ k >= 1
    <3>1. 10^(trades[t].scale - Scale) \in 1..MaxInt
      BY <2>2, FillsAssumption
    <3>2. \A k \in 1..MaxInt : k \in Nat /\ k >= 1
      BY MaxIntAssumption
    <3> QED
      BY <3>1, <3>2, Zenon
  <2>4. \A z \in Nat : z <= z * k
    <3> SUFFICES ASSUME NEW z \in Nat PROVE z <= z * k
      OBVIOUS
    <3> DEFINE j == k - 1
    <3>1. j \in Nat /\ k = j + 1
      BY <2>3
    <3> HIDE DEF j
    <3>2. z * (j + 1) = z * j + z /\ z * j \in Nat
      BY <3>1
    <3> QED
      BY <3>1, <3>2
  <2> QED
    BY <2>2, <2>3, <2>4 DEF Announced
<1>7. /\ Seen(o) \subseteq DOMAIN trades
      /\ DOMAIN trades = 1..Len(trades) /\ Len(trades) \in Nat
      /\ w \in Seq(Int) /\ Len(w) = Len(trades)
      /\ \A u \in DOMAIN trades : w[u] = IF u \in Seen(o) THEN trades[u].size ELSE 0
  BY SeenTrades
<1>8. /\ DOMAIN trades' = 1..Len(trades')
      /\ v \in Seq(Int) /\ Len(v) = Len(trades')
      /\ \A u \in DOMAIN trades' : v[u] = IF u \in Seen(o)' THEN trades'[u].size ELSE 0
  <2>1. trades' \in Seq(Trade) /\ v = SizesIn(trades', Seen(o)')
    BY DEF FillsInv, TypeOK, SeenSizes
  <2> HIDE DEF v
  <2> QED
    BY <2>1, SizesInType
<1>9. \A u \in DOMAIN trades : trades'[u].size = trades[u].size
  BY <1>1 DEF TradesKept
<1>w. trades'[t].wrapped <=> trades[t].wrapped \/ ~Fits(filled[o] + y)
  <2>1. trades[t] \in Trade /\ trades \in Seq(Trade)
    BY DEF FillsInv, TypeOK
  <2> HIDE DEF y
  <2> QED
    BY <2>1 DEF FillBooked, Trade, y
<1>p. Total(w) <= x
  BY DEF Counted
<1>q. (\A u \in Seen(o) : ~trades[u].wrapped) => filled[o] = x
  BY DEF Counted
<1> HIDE DEF w, v, y, x
<1>10. Total(v) <= Total(Executed(o)')
  <2>1. Total(v) = Total(w) + (v[t] - w[t])
    <3>1. Len(v) = Len(w) /\ t \in 1..Len(w)
      BY <1>1, <1>7, <1>8
    <3>2. \A u \in 1..Len(w) : u # t => v[u] = w[u]
      BY <1>1, <1>5, <1>7, <1>8, <1>9
    <3> QED
      BY <1>7, <1>8, <3>1, <3>2, TotalUpdate
  <2>2. v[t] = trades[t].size /\ w[t] \in {0, trades[t].size}
    BY <1>1, <1>5, <1>7, <1>8, <1>9
  <2>3. Total(w) \in Int
    BY <1>7, TotalType
  <2> QED
    BY <1>3, <1>6, <1>p, <2>1, <2>2, <2>3
<1>11. (\A u \in Seen(o)' : ~trades'[u].wrapped) => filled'[o] = Total(Executed(o)')
  <2> SUFFICES ASSUME \A u \in Seen(o)' : ~trades'[u].wrapped
               PROVE  filled'[o] = Total(Executed(o)')
    OBVIOUS
  <2>1. Fits(filled[o] + y)
    BY <1>5, <1>w
  <2>2. \A u \in Seen(o) : ~trades[u].wrapped
    BY <1>5, <1>7
  <2>3. filled[o] = x
    BY <1>q, <2>2
  <2>4. x + y \in Int /\ Wrap(x + y) = x + y
    BY <1>3, <2>1, <2>3, WrapKeeps
  <2> QED
    BY <1>3, <1>4, <2>3, <2>4
<1>12. status'[o] = "Partial" => filled'[o] < total'[o]
  <2>1. n \in Int
    <3>1. filled[o] + y \in Int
      BY <1>3, MaxIntAssumption DEF FillsInv, TypeOK, MinInt
    <3>2. Fits(n)
      BY <3>1, WrapFits
    <3> QED
      BY <3>2, MaxIntAssumption DEF Fits, MinInt
  <2>2. total[o] \in Int
    BY FillsAssumption DEF FillsInv, TypeOK
  <2> HIDE DEF n
  <2>3. s = "Partial" => ~(n >= total[o])
    BY DEF FillLeads
  <2> QED
    BY <1>4, <2>1, <2>2, <2>3
<1>13. status'[o] = "Partial" \/ IsTerminal(status'[o])
  BY <1>4 DEF FillLeads, IsTerminal
<1> QED
  BY <1>10, <1>11, <1>12, <1>13 DEF Counted, v

ShownInv == BooksInv /\ \A o \in Orders : Counted(o)

LEMMA ShownBegin == Init => ShownInv
<1> SUFFICES ASSUME Init PROVE ShownInv
  OBVIOUS
<1>1. BooksInv
  BY BooksBegin
<1>2. ASSUME NEW o \in Orders PROVE Counted(o)
  <2>1. trades = <<>> /\ log[o] = <<>> /\ filled[o] = 0 /\ status[o] = Absent
    BY DEF Init
  <2>2. FillsInv /\ Logged
    BY <1>1 DEF BooksInv
  <2>3. Seen(o) = {}
    BY <2>1 DEF Seen
  <2>4. Executed(o) \in Seq(Int) /\ Len(Executed(o)) = 0
    BY <2>1, <2>2, ExecutedType
  <2>5. Total(Executed(o)) = 0
    <3>1. \A i \in 1..Len(Executed(o)) : Executed(o)[i] = 0
      BY <2>4
    <3> QED
      BY <2>4, <3>1, TotalZero
  <2>6. SeenSizes(o) \in Seq(Int) /\ Len(SeenSizes(o)) = 0
    BY <2>1, <2>2, SeenTrades
  <2>7. Total(SeenSizes(o)) = 0
    <3>1. \A i \in 1..Len(SeenSizes(o)) : SeenSizes(o)[i] = 0
      BY <2>6
    <3> QED
      BY <2>6, <3>1, TotalZero
  <2> QED
    BY <2>1, <2>3, <2>5, <2>7 DEF Counted, Absent
<1> QED
  BY <1>1, <1>2 DEF ShownInv

LEMMA CountedStep ==
  ASSUME ShownInv, BooksInv', Next, NEW p \in Orders
  PROVE  Counted(p)'
<1>i. /\ FillsInv /\ FillsInv' /\ Logged /\ Logged' /\ Counted(p)
  BY DEF ShownInv, BooksInv
<1>c. total'[p] = total[p]
  BY <1>i, PhaseStep
<1>w. \A t \in DOMAIN trades : trades[t].wrapped => trades'[t].wrapped
  BY <1>i, WrappedStep
<1>q. ASSUME TradesKept, log'[p] = log[p], filled'[p] = filled[p],
             status'[p] = status[p] \/ (log[p] = <<>> /\ status'[p] = "Pending")
      PROVE  Counted(p)'
  <2>1. Seen(p)' = Seen(p)
    BY <1>q DEF Seen
  <2>2. Total(Executed(p)') = Total(Executed(p))
    BY <1>i, <1>q, ExecutedKept
  <2>3. log[p] = <<>> => Seen(p) = {}
    BY DEF Seen
  <2> QED
    BY <1>i, <1>c, <1>w, <1>q, <2>1, <2>2, <2>3, CountedQuiet
<1>1. CASE UNCHANGED orderVars /\ TradesKept
  BY <1>1, <1>q DEF orderVars
<1>2. ASSUME NEW o \in Orders, Restore(o)
      PROVE  Counted(p)'
  <2>1. log' = log /\ filled' = filled /\ TradesKept
    BY <1>2 DEF Restore, venueVars, TradesKept
  <2>2. log[o] = <<>>
    BY <1>2, <1>i DEF Restore, Logged
  <2>3. status'[p] = status[p] \/ (p = o /\ status'[p] = "Pending")
    BY <1>2, <1>i DEF Restore, FillsInv, TypeOK
  <2> QED
    BY <1>q, <2>1, <2>2, <2>3
<1>3. ASSUME NEW o \in Orders, NEW kind \in EventKind \ {"fill"}, NEW s \in Leads(kind),
             Marked(o, kind, s)
      PROVE  Counted(p)'
  <2>1. Transit(o, kind, 0, s, filled[o]) /\ TradesKept /\ Accepts(status[o], kind)
    BY <1>3 DEF Marked, TradesKept
  <2>2. CASE p # o
    <3>1. log'[p] = log[p] /\ filled'[p] = filled[p] /\ status'[p] = status[p]
      BY <1>i, <2>1, <2>2, TransitEffect
    <3> QED
      BY <1>q, <2>1, <3>1
  <2>3. CASE p = o
    <3>1. status'[p] = s /\ filled'[p] = filled[p] /\ Seen(p)' = Seen(p) \cup ({0} \ {0})
      BY <1>i, <2>1, <2>3, TransitBooks
    <3>4. Seen(p)' = Seen(p)
      BY <3>1
    <3>5. Total(Executed(p)') = Total(Executed(p)) + 0 /\ Total(Executed(p)) \in Int
      BY <1>i, <2>1, <2>3, ExecutedAppended, ExecutedType
    <3>6. Total(Executed(p)') = Total(Executed(p))
      BY <3>5
    <3>7. IsTerminal(s) \/ (s = "Submitted" /\ status[p] = "Pending")
      BY <2>1, <2>3 DEF Leads, Accepts, EventKind, IsTerminal
    <3>8. status[p] = "Pending" => Seen(p) = {}
      BY <1>i DEF Counted, IsTerminal
    <3> QED
      BY <1>i, <1>c, <1>w, <2>1, <3>1, <3>4, <3>6, <3>7, <3>8, CountedQuiet
  <2> QED
    BY <2>2, <2>3
<1>4. ASSUME NEW t \in DOMAIN trades, NEW o \in Orders, FillBooked(t, o)
      PROVE  Counted(p)'
  <2>1. TradesKept
    BY <1>4, <1>i, AnnouncementsKept
  <2>2. CASE p = o
    BY <1>4, <1>i, <1>c, <1>w, <2>2, CountedFill
  <2>3. CASE p # o
    <3>1. log'[p] = log[p] /\ filled'[p] = filled[p] /\ status'[p] = status[p]
      BY <1>4, <1>i, <2>3, TransitEffect DEF FillBooked, Book
    <3> QED
      BY <1>q, <2>1, <3>1
  <2> QED
    BY <2>2, <2>3
<1> QED
  BY <1>i, <1>1, <1>2, <1>3, <1>4, StepKinds

LEMMA ShownNext == ShownInv /\ [Next]_vars => ShownInv'
<1> SUFFICES ASSUME ShownInv, [Next]_vars PROVE ShownInv'
  OBVIOUS
<1>1. BooksInv'
  BY BooksNext DEF ShownInv
<1>2. CASE Next
  BY <1>1, <1>2, CountedStep DEF ShownInv
<1>3. CASE UNCHANGED vars
  <2>1. /\ total' = total /\ status' = status /\ filled' = filled /\ log' = log
        /\ trades' = trades
    BY <1>3 DEF vars, requestVars, orderVars, venueVars
  <2>2. \A o \in Orders : Seen(o)' = Seen(o) /\ SeenSizes(o)' = SeenSizes(o)
                          /\ Executed(o)' = Executed(o)
    BY <2>1 DEF Seen, SeenSizes, Executed, Announced
  <2>3. \A o \in Orders : Total(SeenSizes(o)') = Total(SeenSizes(o))
                          /\ Total(Executed(o)') = Total(Executed(o))
    BY <2>2
  <2>4. \A o \in Orders : Counted(o)'
    BY <2>1, <2>2, <2>3 DEF ShownInv, Counted
  <2> QED
    BY <1>1, <2>4 DEF ShownInv
<1> QED
  BY <1>2, <1>3

\* process_event leaves no order Partial that has booked all of a fully executed
\* order's trades, repeated or rescaled ones included, unless an addition
\* overflowed: for any orders, sizes and trades.
THEOREM BookedInFullHasEnded == Spec => []ExecutedIsShown
<1>1. ASSUME ShownInv PROVE ExecutedIsShown
  <2> SUFFICES ASSUME NEW o \in Orders, Traded(o) = total[o], TradesOf({o}) \subseteq Seen(o),
                      \A t \in Seen(o) : ~trades[t].wrapped
               PROVE  IsTerminal(status[o])
    BY DEF ExecutedIsShown, Seen
  <2> DEFINE v == [t \in DOMAIN trades |-> IF t \in TradesOf({o}) THEN trades[t].size ELSE 0]
             w == SeenSizes(o)
  <2>1. FillsInv /\ Logged /\ Counted(o)
    BY <1>1 DEF ShownInv, BooksInv
  <2>2. /\ DOMAIN trades = 1..Len(trades) /\ Len(trades) \in Nat
        /\ w \in Seq(Int) /\ Len(w) = Len(trades)
        /\ \A t \in DOMAIN trades : /\ trades[t].size \in Nat
                                    /\ w[t] = IF t \in Seen(o) THEN trades[t].size ELSE 0
    BY <2>1, SeenTrades
  <2>3. /\ v \in Seq(Int) /\ Len(v) = Len(trades)
        /\ \A t \in DOMAIN trades : v[t] = IF t \in TradesOf({o}) THEN trades[t].size ELSE 0
    BY <2>2
  <2>4. total[o] \in Int /\ total[o] >= 1
    <3>1. total[o] \in 1..MaxInt
      BY <2>1, FillsAssumption DEF FillsInv, TypeOK
    <3> QED
      BY <3>1, MaxIntAssumption
  <2>5. Total(v) = total[o]
    BY DEF Traded, SumOf
  <2>6. filled[o] = Total(Executed(o)) /\ Total(w) <= Total(Executed(o))
    BY <2>1 DEF Counted
  <2>7. Total(Executed(o)) \in Int
    BY <2>1, ExecutedType
  <2> HIDE DEF v, w
  <2>8. Seen(o) # {}
    <3> SUFFICES ASSUME Seen(o) = {} PROVE FALSE
      OBVIOUS
    <3>1. \A t \in 1..Len(v) : v[t] = 0
      BY <2>2, <2>3
    <3>2. Total(v) = 0
      BY <2>3, <3>1, TotalZero
    <3> QED
      BY <2>4, <2>5, <3>2
  <2>9. Total(v) <= Total(w)
    <3>1. ASSUME NEW t \in 1..Len(v) PROVE v[t] <= w[t]
      <4>1. t \in DOMAIN trades
        BY <2>2, <2>3
      <4>2. v[t] = IF t \in TradesOf({o}) THEN trades[t].size ELSE 0
        BY <2>3, <4>1
      <4>3. w[t] = (IF t \in Seen(o) THEN trades[t].size ELSE 0) /\ trades[t].size \in Nat
        BY <2>2, <4>1
      <4>4. t \in TradesOf({o}) => t \in Seen(o)
        OBVIOUS
      <4>5. v[t] = trades[t].size \/ v[t] = 0
        BY <4>2
      <4>6. CASE t \in Seen(o)
        BY <4>3, <4>5, <4>6
      <4>7. CASE t \notin Seen(o)
        BY <4>2, <4>3, <4>4, <4>7
      <4> QED
        BY <4>6, <4>7
    <3> QED
      BY <2>2, <2>3, <3>1, TotalMonotone
  <2>10. ~(filled[o] < total[o])
    <3>1. Total(w) \in Int
      BY <2>2, TotalType
    <3> QED
      BY <2>4, <2>5, <2>6, <2>7, <2>9, <3>1
  <2> QED
    BY <2>1, <2>8, <2>10 DEF Counted
<1> QED
  BY <1>1, ShownBegin, ShownNext, PTL DEF Spec

-----------------------------------------------------------------------------
(* The operations of fixed_point.rs on any two numbers.                    *)

LEMMA AlignedExact ==
  ASSUME NEW v \in Int, NEW s \in Nat, NEW t \in Nat, t >= s, Fits(v), AlignmentFits(v, s, t)
  PROVE  Aligned(v, s, t) = v * 10^(t - s) /\ Aligned(v, s, t) \in Int
<1> DEFINE p == 10^(t - s)
<1>1. Fits(p) /\ Fits(v * p)
  BY DEF AlignmentFits
<1>2. p \in Int /\ v * p \in Int
  BY <1>1, MaxIntAssumption DEF Fits, MinInt
<1>3. CASE t > s
  <2>1. Aligned(v, s, t) = Wrap(v * Wrap(p))
    BY <1>3 DEF Aligned
  <2> HIDE DEF p
  <2>2. Wrap(p) = p /\ Wrap(v * p) = v * p
    BY <1>1, <1>2, WrapKeeps
  <2> QED
    BY <1>2, <2>1, <2>2 DEF p
<1>4. CASE ~(t > s)
  <2>1. Aligned(v, s, t) = v
    BY <1>4 DEF Aligned
  <2>2. t - s = 0
    BY <1>4
  <2>3. 10^0 = 1 /\ v * 1 = v
    OBVIOUS
  <2> QED
    BY <2>1, <2>2, <2>3
<1> QED
  BY <1>3, <1>4

\* The low bits of a product do not depend on the high ones of its factors.
LEMMA WrapCongruent ==
  ASSUME NEW x \in Int
  PROVE  Wrap(x) \in Int /\ \E k \in Int : Wrap(x) = x + k * (2 * (MaxInt + 1))
<1> DEFINE M == 2 * (MaxInt + 1)
           y == x - MinInt
<1>1. M \in Nat \ {0} /\ y \in Int /\ x = y + MinInt /\ MinInt \in Int
  BY MaxIntAssumption DEF MinInt
<1>2. Wrap(x) = (y % M) + MinInt
  BY DEF Wrap
<1> HIDE DEF M, y
<1> DEFINE q == y \div M
<1>3. q \in Int /\ (y % M) \in Int /\ y = q * M + (y % M)
  BY <1>1
<1> HIDE DEF q
<1>4. q * M \in Int /\ (-q) * M = -(q * M) /\ -q \in Int
  BY <1>1, <1>3
<1>5. Wrap(x) = x + (-q) * M
  <2> DEFINE qM == q * M
             nM == (-q) * M
             r == y % M
  <2>1. qM \in Int /\ nM = -qM
    BY <1>4
  <2>2. r \in Int /\ y = qM + r /\ Wrap(x) = r + MinInt
    BY <1>2, <1>3
  <2> HIDE DEF qM, nM, r
  <2>3. Wrap(x) = x + nM
    BY <1>1, <2>1, <2>2
  <2> QED
    BY <2>3 DEF nM
<1>6. Wrap(x) \in Int
  BY <1>1, <1>2, <1>3
<1> QED
  BY <1>4, <1>5, <1>6 DEF M

LEMMA AlignedCongruent ==
  ASSUME NEW v \in Int, NEW s \in Nat, NEW t \in Nat, t >= s
  PROVE  /\ v * 10^(t - s) \in Int /\ Aligned(v, s, t) \in Int
         /\ \E k \in Int : Aligned(v, s, t) = v * 10^(t - s) + k * (2 * (MaxInt + 1))
<1> DEFINE p == 10^(t - s)
           g == Wrap(p)
           M == 2 * (MaxInt + 1)
<1>1. p \in Int
  <2>1. \A n \in Nat : 10^n \in Int
    OBVIOUS
  <2>2. t - s \in Nat
    OBVIOUS
  <2> QED
    BY <2>1, <2>2
<1>m. M \in Int
  BY MaxIntAssumption
<1>2. CASE t > s
  <2>1. Aligned(v, s, t) = Wrap(v * g)
    BY <1>2 DEF Aligned
  <2> HIDE DEF p
  <2>2. g \in Int /\ \E k \in Int : g = p + k * M
    BY <1>1, WrapCongruent
  <2>3. PICK j \in Int : g = p + j * M
    BY <2>2
  <2> HIDE DEF g
  <2>4. v * g \in Int
    BY <2>2
  <2>5. Wrap(v * g) \in Int /\ \E k \in Int : Wrap(v * g) = v * g + k * M
    BY <2>4, WrapCongruent
  <2>6. PICK k \in Int : Wrap(v * g) = v * g + k * M
    BY <2>5
  <2> HIDE DEF M
  <2>7. v * g = v * p + (v * j) * M
    <3>1. v * (p + j * M) = v * p + (v * j) * M
      BY <1>1, <1>m
    <3> QED
      BY <2>3, <3>1
  <2>8. v * p \in Int /\ v * j \in Int /\ (v * j) * M \in Int /\ k * M \in Int
    BY <1>1, <1>m
  <2>9. ((v * j) + k) * M = (v * j) * M + k * M
    BY <1>m, <2>8
  <2>10. Wrap(v * g) = v * p + ((v * j) + k) * M
    BY <2>6, <2>7, <2>8, <2>9
  <2>11. (v * j) + k \in Int
    BY <2>8
  <2> QED
    BY <2>1, <2>5, <2>8, <2>10, <2>11 DEF p, M
<1>3. CASE ~(t > s)
  <2>1. Aligned(v, s, t) = v
    BY <1>3 DEF Aligned
  <2>2. t - s = 0
    BY <1>3
  <2>3. 10^0 = 1 /\ v * 1 = v /\ 0 * M = 0 /\ v + 0 = v
    BY <1>m
  <2> QED
    BY <2>1, <2>2, <2>3
<1> QED
  BY <1>2, <1>3

LEMMA CheckedReturns ==
  ASSUME NEW x \in Int, NEW t, NEW e \in {"overflow", "underflow"}
  PROVE  Returns(Checked(x, t, e), Wrap(x))
<1>1. CASE Fits(x)
  BY <1>1, WrapKeeps DEF Returns, Checked, Ok
<1>2. CASE ~Fits(x)
  BY <1>2 DEF Returns, Checked, Err
<1> QED
  BY <1>1, <1>2

LEMMA CheckedRepresents ==
  ASSUME NEW x \in Int, NEW t, NEW e \in {"overflow", "underflow"}
  PROVE  Represents(Checked(x, t, e), x, t)
BY DEF Represents, Checked, Ok, Err

\* Division of naturals: what it leaves over, and when it makes nothing smaller.
LEMMA DividedNat ==
  ASSUME NEW n \in Nat, NEW m \in Nat \ {0}
  PROVE  LET q == n \div m
         IN  /\ q \in Nat /\ q * m \in Nat
             /\ q * m <= n /\ n - q * m < m
             /\ q <= n
             /\ q = n /\ n > 0 => m = 1
<1> DEFINE q == n \div m
           r == n % m
           d == m - 1
<1>1. q \in Nat /\ r \in 0..(m - 1) /\ n = q * m + r
  <2>1. n \div m \in Int /\ n % m \in 0..(m - 1) /\ n = (n \div m) * m + (n % m)
    OBVIOUS
  <2>2. n \div m >= 0
    OBVIOUS
  <2> QED
    BY <2>1, <2>2
<1> HIDE DEF q, r
<1>2. d \in Nat /\ m = d + 1
  OBVIOUS
<1> HIDE DEF d
<1>3. q * d \in Nat /\ q * m = q * d + q
  <2>1. q * d \in Nat
    BY <1>1, <1>2
  <2>2. q * (d + 1) = q * d + q
    BY <1>1, <1>2
  <2> QED
    BY <1>2, <2>1, <2>2
<1>4. q = n /\ n > 0 => m = 1
  <2> SUFFICES ASSUME q = n, n > 0, m # 1 PROVE FALSE
    OBVIOUS
  <2>1. d >= 1
    BY <1>2
  <2>2. q * d >= q
    <3> DEFINE f == d - 1
    <3>1. f \in Nat /\ d = f + 1
      BY <1>2, <2>1
    <3> HIDE DEF f
    <3>2. q * f \in Nat /\ q * (f + 1) = q * f + q
      BY <1>1, <3>1
    <3> QED
      BY <1>1, <3>1, <3>2
  <2> QED
    BY <1>1, <1>3, <2>2
<1>5. q * m \in Nat /\ q * m <= n /\ n - q * m < m /\ q <= n
  <2> DEFINE qm == q * m
             qd == q * d
  <2>1. qd \in Nat /\ qm = qd + q /\ n = qm + r
    BY <1>1, <1>3
  <2> HIDE DEF qm, qd
  <2>2. qm \in Nat /\ qm <= n /\ n - qm < m /\ q <= n
    BY <1>1, <2>1
  <2> QED
    BY <2>2 DEF qm
<1> QED
  BY <1>1, <1>4, <1>5 DEF q

\* The machine's division: nearer to zero than the quotient by less than one, and
\* too large only for MinInt by -1.
LEMMA TruncatedNear ==
  ASSUME NEW n \in Int, Fits(n), NEW b \in Int, b # 0
  PROVE  LET q == Truncated(n, b)
         IN  /\ q \in Int
             /\ Abs(n - q * b) < Abs(b) /\ Abs(q * b) <= Abs(n)
             /\ Fits(q) \/ (n = MinInt /\ b = -1)
<1> DEFINE x == Abs(n)
           m == Abs(b)
           p == x \div m
           pm == p * m
           q == Truncated(n, b)
<1>1. x \in Nat /\ m \in Nat \ {0}
      /\ (n < 0 => x = -n) /\ (n >= 0 => x = n) /\ (b < 0 => m = -b) /\ (b >= 0 => m = b)
  BY DEF Abs
<1>2. q = IF (n < 0) = (b < 0) THEN p ELSE -p
  BY DEF Truncated
<1> HIDE DEF x, m, q
<1>3. p \in Nat /\ pm \in Nat /\ pm <= x /\ x - pm < m /\ p <= x /\ (p = x /\ x > 0 => m = 1)
  BY <1>1, DividedNat
<1> HIDE DEF p
<1>4. q \in Int
  BY <1>2, <1>3
<1>5. q * b = IF n < 0 THEN -pm ELSE pm
  <2>1. CASE n < 0 /\ b < 0
    <3>1. q = p /\ b = -m
      BY <1>1, <1>2, <2>1
    <3>2. p * (-m) = -(p * m)
      BY <1>1, <1>3
    <3> QED
      BY <2>1, <3>1, <3>2
  <2>2. CASE n < 0 /\ b >= 0
    <3>1. q = -p /\ b = m
      BY <1>1, <1>2, <2>2
    <3>2. (-p) * m = -(p * m)
      BY <1>1, <1>3
    <3> QED
      BY <2>2, <3>1, <3>2
  <2>3. CASE n >= 0 /\ b < 0
    <3>1. q = -p /\ b = -m
      BY <1>1, <1>2, <2>3
    <3>2. (-p) * (-m) = p * m
      BY <1>1, <1>3
    <3> QED
      BY <2>3, <3>1, <3>2
  <2>4. CASE n >= 0 /\ b >= 0
    <3>1. q = p /\ b = m
      BY <1>1, <1>2, <2>4
    <3> QED
      BY <2>4, <3>1
  <2> QED
    BY <2>1, <2>2, <2>3, <2>4
<1> HIDE DEF pm
<1> DEFINE z == q * b
<1>6. z \in Int /\ z = IF n < 0 THEN -pm ELSE pm
  BY <1>3, <1>5
<1> HIDE DEF z
<1>7. Abs(n - z) < m /\ Abs(z) <= x
  BY <1>1, <1>3, <1>6 DEF Abs
<1>8. Fits(q) \/ (n = MinInt /\ b = -1)
  <2>1. n >= MinInt /\ n <= MaxInt /\ MinInt = -MaxInt - 1 /\ MaxInt \in Nat
    BY MaxIntAssumption DEF Fits, MinInt
  <2>2. p <= MaxInt + 1 /\ x <= MaxInt + 1
    BY <1>1, <1>3, <2>1
  <2>3. CASE p <= MaxInt
    <3>1. q >= MinInt /\ q <= MaxInt
      BY <1>2, <1>3, <2>1, <2>3
    <3> QED
      BY <1>4, <2>1, <3>1 DEF Fits
  <2>4. CASE p = MaxInt + 1
    <3>1. x = MaxInt + 1 /\ n = MinInt /\ n < 0 /\ m = 1
      BY <1>1, <1>3, <2>1, <2>2, <2>4
    <3>2. CASE b < 0
      BY <1>1, <3>1, <3>2
    <3>3. CASE b >= 0
      <4>1. q = MinInt
        BY <1>2, <2>1, <2>4, <3>1, <3>3
      <4> QED
        BY <2>1, <4>1 DEF Fits
    <3> QED
      BY <3>2, <3>3
  <2> QED
    BY <1>3, <2>1, <2>2, <2>3, <2>4
<1> QED
  BY <1>4, <1>7, <1>8 DEF z, q, x, m

\* Every operation on every pair of machine numbers.
LEMMA OperationsExact ==
  ASSUME NEW x \in Int, NEW s \in Nat, Fits(x), NEW y \in Int, NEW u \in Nat, Fits(y)
  PROVE  ExactFor(<<x, s>>, <<y, u>>)
<1> DEFINE a == <<x, s>>
           b == <<y, u>>
           t == Larger(s, u)
           d == Exact(a, t) - Exact(b, t)
<1>1. t \in Nat /\ t >= s /\ t >= u
  BY DEF Larger
<1>2. ASSUME AlignmentFits(x, s, t), AlignmentFits(y, u, t)
      PROVE  /\ Represents(AddScaled(a, b), Exact(a, t) + Exact(b, t), t)
             /\ Represents(SubtractScaled(a, b), d, t)
             /\ CompareScaled(a, b) = IF d < 0 THEN -1 ELSE IF d = 0 THEN 0 ELSE 1
  <2> DEFINE v == Aligned(x, s, t)
             w == Aligned(y, u, t)
  <2>1. v = Exact(a, t) /\ v \in Int /\ w = Exact(b, t) /\ w \in Int
    BY <1>1, <1>2, AlignedExact DEF Exact
  <2>2. /\ AddScaled(a, b) = Checked(v + w, t, "overflow")
        /\ SubtractScaled(a, b) = Checked(v - w, t, "underflow")
        /\ CompareScaled(a, b) = IF v < w THEN -1 ELSE IF v = w THEN 0 ELSE 1
    BY DEF AddScaled, SubtractScaled, CompareScaled
  <2> HIDE DEF v, w, a, b, t
  <2>3. v + w \in Int /\ v - w \in Int
    BY <2>1
  <2>4. Represents(AddScaled(a, b), v + w, t) /\ Represents(SubtractScaled(a, b), v - w, t)
    BY <2>2, <2>3, CheckedRepresents
  <2>5. CompareScaled(a, b) = IF v - w < 0 THEN -1 ELSE IF v - w = 0 THEN 0 ELSE 1
    BY <2>1, <2>2
  <2> QED
    BY <2>1, <2>4, <2>5
<1>w. /\ Returns(AddScaled(a, b), Wrap(Exact(a, t) + Exact(b, t)))
      /\ Returns(SubtractScaled(a, b), Wrap(d))
  <2> DEFINE v == Aligned(x, s, t)
             w == Aligned(y, u, t)
             ea == Exact(a, t)
             eb == Exact(b, t)
             M == 2 * (MaxInt + 1)
  <2>1. ea \in Int /\ v \in Int /\ \E k \in Int : v = ea + k * M
    BY <1>1, AlignedCongruent DEF Exact
  <2>2. eb \in Int /\ w \in Int /\ \E k \in Int : w = eb + k * M
    BY <1>1, AlignedCongruent DEF Exact
  <2>3. /\ AddScaled(a, b) = Checked(v + w, t, "overflow")
        /\ SubtractScaled(a, b) = Checked(v - w, t, "underflow")
    BY DEF AddScaled, SubtractScaled
  <2> HIDE DEF v, w, ea, eb, a, b, t
  <2>4. PICK j \in Int : v = ea + j * M
    BY <2>1
  <2>5. PICK k \in Int : w = eb + k * M
    BY <2>2
  <2>6. M \in Int
    BY MaxIntAssumption
  <2> HIDE DEF M
  <2>7. v + w = (ea + eb) + (j + k) * M /\ v - w = (ea - eb) + (j - k) * M
    <3>1. (j + k) * M = j * M + k * M /\ (j - k) * M = j * M - k * M
      BY <2>6
    <3>2. j * M \in Int /\ k * M \in Int
      BY <2>6
    <3> QED
      BY <2>1, <2>2, <2>4, <2>5, <3>1, <3>2
  <2>8. Wrap(ea + eb) = Wrap(v + w) /\ Wrap(ea - eb) = Wrap(v - w)
    <3>1. /\ v + w \in Int /\ v - w \in Int /\ ea + eb \in Int /\ ea - eb \in Int
          /\ j + k \in Int /\ j - k \in Int
      BY <2>1, <2>2
    <3> QED
      BY <2>7, <3>1, WrapPeriod DEF M
  <2>9. v + w \in Int /\ v - w \in Int
    BY <2>1, <2>2
  <2>10. Returns(AddScaled(a, b), Wrap(ea + eb)) /\ Returns(SubtractScaled(a, b), Wrap(ea - eb))
    BY <2>3, <2>8, <2>9, CheckedReturns
  <2> QED
    BY <2>10 DEF ea, eb
<1>3. Represents(MultiplyScaled(a, b), x * y, s + u)
  BY CheckedRepresents DEF MultiplyScaled
<1>4. y = 0 => DivideScaled(a, b) = Err("division by zero")
  BY DEF DivideScaled
<1>5. ASSUME y # 0, Fits(x * 10^t), Fits(10^t)
      PROVE  LET r == DivideScaled(a, b)
                 n == x * 10^t
             IN  \/ r.tag = "overflow" /\ n = MinInt /\ y = -1
                 \/ /\ r.tag = "ok" /\ r.scale = t
                    /\ Abs(n - r.value * y) < Abs(y)
                    /\ Abs(r.value * y) <= Abs(n)
  <2> DEFINE p == 10^t
             n == x * p
             q == Truncated(n, y)
  <2>1. p \in Int /\ n \in Int /\ Fits(p) /\ Fits(n)
    BY <1>5, MaxIntAssumption DEF Fits, MinInt
  <2>2. Wrap(p) = p
    <3> HIDE DEF p
    <3> QED
      BY <2>1, WrapKeeps
  <2>3. DivideScaled(a, b) = Checked(q, t, "overflow")
    BY <1>5, <2>1, <2>2 DEF DivideScaled
  <2> HIDE DEF p, n
  <2>4. /\ q \in Int
        /\ Abs(n - q * y) < Abs(y) /\ Abs(q * y) <= Abs(n)
        /\ Fits(q) \/ (n = MinInt /\ y = -1)
    BY <1>5, <2>1, TruncatedNear
  <2> HIDE DEF q
  <2>5. CASE Fits(q)
    <3>1. DivideScaled(a, b) = Ok(q, t)
      BY <2>3, <2>5 DEF Checked
    <3> QED
      BY <2>4, <3>1 DEF Ok, n, p
  <2>6. CASE ~Fits(q)
    <3>1. DivideScaled(a, b) = Err("overflow")
      BY <2>3, <2>6 DEF Checked
    <3> QED
      BY <2>4, <2>6, <3>1 DEF Err, n, p
  <2> QED
    BY <2>5, <2>6
<1> QED
  BY <1>2, <1>w, <1>3, <1>4, <1>5 DEF ExactFor

\* On every two machine numbers of any scales: multiply_scaled is exact or says that
\* it is not; so are add_scaled, subtract_scaled and compare_scaled where alignment
\* does not wrap, and where it does, what add_scaled and subtract_scaled return is
\* off by a multiple of 2^w, which no error tells.  Where its numerator fits,
\* divide_scaled gives the quotient of the two integers at the larger scale: that of
\* the two numbers when their scales are equal, and a wrong one when they are not.
THEOREM ScaledArithmeticIsExact ==
  /\ \A x, y \in MinInt..MaxInt, s, u \in Nat : ExactFor(<<x, s>>, <<y, u>>)
  /\ Spec => []ArithmeticIsExact
<1>1. \A x, y \in MinInt..MaxInt, s, u \in Nat : ExactFor(<<x, s>>, <<y, u>>)
  <2>1. \A x \in MinInt..MaxInt : x \in Int /\ Fits(x)
    BY MaxIntAssumption DEF Fits, MinInt
  <2> QED
    BY <2>1, OperationsExact
<1>2. ArithmeticIsExact
  <2>1. ASSUME NEW a \in Operands
        PROVE  \E x \in MinInt..MaxInt, s \in Nat : a = <<x, s>>
    <3> DEFINE All == {0} \cup UNION {{n, -n, n - MaxInt, MaxInt - n} :
                                       n \in {0} \cup Sizes \cup Pieces}
               V   == {v \in All : Fits(v)}
    <3>1. a \in V \X (0..2)
      BY DEF Operands
    <3> HIDE DEF All
    <3>2. V \subseteq MinInt..MaxInt
      BY DEF Fits
    <3> HIDE DEF V
    <3>3. PICK x \in V, s \in 0..2 : a = <<x, s>>
      BY <3>1
    <3>4. s \in Nat
      OBVIOUS
    <3> QED
      BY <3>2, <3>3, <3>4, Zenon
  <2> QED
    BY <1>1, <2>1 DEF ArithmeticIsExact
<1>3. []ArithmeticIsExact
  BY <1>2, PTL
<1> QED
  BY <1>1, <1>3

=============================================================================
