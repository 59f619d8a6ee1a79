------------------------- MODULE BatchWriter_proofs -------------------------
(***************************************************************************)
(* Proofs about BatchWriter for every set of events, batch size, number of *)
(* retries and fault model: what shutdown's flush takes, the types, where  *)
(* every event is, and that the writer implements EventLedger.             *)
(***************************************************************************)
EXTENDS BatchWriter, SeqFunctions_proofs

TaskPC == {"idle", "draining", "inserting", "requeueing", "done"}

\* shutdown's own flush has looked at the pending batch.
Looked ==
  \/ closing = "flush" /\ pc[Closer] # "draining"
  \/ closing \in {"await_retries", "await_retrier", "done"}

(***************************************************************************)
(* What is owed was queued before the signal, so nobody puts it back into  *)
(* the pending batch; once shutdown's flush has looked, it is not there.   *)
(***************************************************************************)
FlushInv ==
  /\ pending \in Seq(Events)
  /\ pc \in [Tasks -> TaskPC]
  /\ owed \subseteq {e \in Events : Queued(e)}
  /\ closing \in {"off", "await_flusher"} => pc[Closer] = "idle"
  /\ Looked /\ open => owed \cap ToSet(pending) = {}

LEMMA TaskNames == Flusher \in Tasks /\ Closer \in Tasks /\ Flusher # Closer /\ Events \subseteq Tasks
BY DEF Flusher, Closer, Tasks

LEMMA FlushInvInit == Init => FlushInv
BY TaskNames DEF Init, FlushInv, TaskPC, Looked, Queued

\* A step that takes nothing into the pending batch and lets no task forget
\* that it has queued.
LEMMA FlushKept ==
  ASSUME FlushInv,
         pending' = pending, owed' = owed, open' => open,
         pc' \in [Tasks -> TaskPC], \A e \in Events : pc[e] # "idle" => pc'[e] # "idle",
         closing' \in {"off", "await_flusher"} => pc'[Closer] = "idle",
         Looked' => Looked
  PROVE  FlushInv'
BY DEF FlushInv, Queued

\* queue_transition's caller has not queued before, so it was owed nothing.
LEMMA QueueKeepsFlush ==
  ASSUME FlushInv, NEW e \in Events, QueueEvent(e)
  PROVE  FlushInv'
<1>1. /\ pc[e] = "idle" /\ pending' = Append(pending, e)
      /\ pc' = [pc EXCEPT ![e] = pc'[e]] /\ pc'[e] \in {"draining", "done"}
      /\ UNCHANGED <<owed, open, closing>>
  BY TaskNames DEF QueueEvent, FlushInv, dbVars, closeVars
<1>2. e \notin owed /\ e # Closer
  BY <1>1, WriterAssumption DEF FlushInv, Queued
<1>3. ToSet(pending') = ToSet(pending) \cup {e}
  <2>1. /\ Len(pending') = Len(pending) + 1 /\ pending'[Len(pending) + 1] = e
        /\ \A n \in 1..Len(pending) : pending'[n] = pending[n]
        /\ Len(pending) \in Nat /\ DOMAIN pending = 1..Len(pending)
        /\ DOMAIN pending' = 1..(Len(pending) + 1)
    BY <1>1 DEF FlushInv
  <2> QED
    BY <2>1 DEF ToSet
<1>4. pc' \in [Tasks -> TaskPC] /\ pc'[Closer] = pc[Closer] /\ pending' \in Seq(Events)
  BY <1>1, <1>2, TaskNames DEF FlushInv, TaskPC
<1>5. \A d \in Events : pc[d] # "idle" => pc'[d] # "idle"
  BY <1>1, TaskNames DEF FlushInv
<1> QED
  BY <1>1, <1>2, <1>3, <1>4, <1>5 DEF FlushInv, Queued, Looked

\* flush_transitions, by whichever task runs it.
LEMMA FlushStepKeepsFlush ==
  ASSUME FlushInv, NEW t \in Tasks, FlushStep(t)
  PROVE  FlushInv'
<1>1. pc' = [pc EXCEPT ![t] = pc'[t]] /\ pc'[t] \in {"inserting", "requeueing", "idle", "done"}
      /\ UNCHANGED <<owed, open, closing>>
  BY DEF FlushStep, Drain, SkipFlush, InsertBatch, InsertBatchFails, QueueFailed, AfterFlush,
         FlushInv, dbVars, closeVars
<1>2. pc' \in [Tasks -> TaskPC]
  BY <1>1 DEF FlushInv, TaskPC
<1>3. pc'[t] = "idle" => t = Flusher
  BY DEF FlushStep, Drain, SkipFlush, InsertBatch, InsertBatchFails, QueueFailed, AfterFlush,
         FlushInv
<1>4. \A e \in Events : pc[e] # "idle" => pc'[e] # "idle"
  BY <1>1, <1>3, TaskNames, WriterAssumption DEF FlushInv
<1>5. closing' \in {"off", "await_flusher"} => pc'[Closer] = "idle"
  <2>1. CASE t = Closer
    <3>1. pc[Closer] # "idle"
      BY <2>1, TaskNames DEF FlushStep, Drain, SkipFlush, InsertBatch, InsertBatchFails,
                             QueueFailed, AtFlush
    <3> QED
      BY <1>1, <3>1 DEF FlushInv
  <2>2. CASE t # Closer
    BY <1>1, <2>2, TaskNames DEF FlushInv
  <2> QED
    BY <2>1, <2>2
<1>6. CASE Drain(t)
  <2>1. pending' = <<>>
    BY <1>6 DEF Drain
  <2> QED
    BY <1>1, <1>2, <1>4, <1>5, <2>1 DEF FlushInv, Queued, ToSet
<1>7. CASE SkipFlush(t)
  <2>1. pending' = pending /\ (~open \/ pending = <<>>)
    BY <1>7 DEF SkipFlush
  <2> QED
    BY <1>1, <1>2, <1>4, <1>5, <2>1 DEF FlushInv, Queued, ToSet
<1>8. CASE InsertBatch(t) \/ InsertBatchFails(t) \/ QueueFailed(t)
  <2>1. pending' = pending /\ pc[t] # "draining"
    BY <1>8 DEF InsertBatch, InsertBatchFails, QueueFailed
  <2>2. pc[Closer] = "draining" => pc'[Closer] = "draining"
    BY <1>1, <2>1, TaskNames DEF FlushInv
  <2>3. Looked' => Looked
    BY <1>1, <2>2 DEF Looked
  <2> QED
    BY <1>1, <1>2, <1>4, <1>5, <2>1, <2>3, FlushKept
<1> QED
  BY <1>6, <1>7, <1>8 DEF FlushStep

\* A task that is dropped in the middle of a flush.
LEMMA DropKeepsFlush ==
  ASSUME FlushInv, NEW t \in Tasks, t # Closer, DropFlush(t),
         UNCHANGED <<pending, owed, open, closing>>
  PROVE  FlushInv'
<1>1. pc' = [pc EXCEPT ![t] = "done"]
  BY DEF DropFlush
<1>2. pc' \in [Tasks -> TaskPC] /\ pc'[Closer] = pc[Closer]
      /\ \A e \in Events : pc[e] # "idle" => pc'[e] # "idle"
  BY <1>1, TaskNames DEF FlushInv, TaskPC
<1>3. Looked' => Looked
  BY <1>2 DEF Looked
<1> QED
  BY <1>2, <1>3, FlushKept DEF FlushInv

LEMMA CloserKeepsFlush ==
  ASSUME FlushInv, CloserStep
  PROVE  FlushInv'
<1>1. CASE FlusherEnded
  <2>1. /\ pc' = [pc EXCEPT ![Closer] = "draining"] /\ closing' = "flush"
        /\ UNCHANGED <<pending, owed, open>>
    BY <1>1 DEF FlusherEnded, dbVars
  <2>2. pc' \in [Tasks -> TaskPC] /\ pc'[Closer] = "draining"
        /\ \A e \in Events : pc[e] # "idle" => pc'[e] # "idle"
    BY <2>1, TaskNames DEF FlushInv, TaskPC
  <2> QED
    BY <2>1, <2>2, FlushKept DEF Looked
<1>2. CASE FlusherAborted
  BY <1>2, TaskNames, DropKeepsFlush DEF FlusherAborted, closeVars
<1>3. CASE FinalFlushEnded \/ RetriesAwaited \/ RetriesNotAwaited \/ RetrierEnded \/ RetrierAborted
  <2>1. /\ UNCHANGED <<pending, pc, owed, open>>
        /\ Looked
        /\ closing' \notin {"off", "await_flusher"}
    BY <1>3 DEF FinalFlushEnded, RetriesAwaited, RetriesNotAwaited, RetrierEnded, RetrierAborted,
                flushVars, dbVars, Looked
  <2> QED
    BY <2>1, FlushKept DEF FlushInv
<1> QED
  BY <1>1, <1>2, <1>3 DEF CloserStep

LEMMA FlushInvStep == FlushInv /\ [Next]_vars => FlushInv'
<1> SUFFICES ASSUME FlushInv, [Next]_vars PROVE FlushInv'
  OBVIOUS
<1>1. ASSUME NEW e \in Events, AbortCaller(e) PROVE FlushInv'
  <2>1. e \in Tasks /\ e # Closer
    BY TaskNames, WriterAssumption
  <2> QED
    BY <1>1, <2>1, DropKeepsFlush DEF AbortCaller, closeVars
<1>2. CASE FlusherStops
  <2>1. /\ pc' = [pc EXCEPT ![Flusher] = "draining"]
        /\ UNCHANGED <<pending, owed, open, closing>>
    BY <1>2 DEF FlusherStops, dbVars, closeVars
  <2>2. pc' \in [Tasks -> TaskPC] /\ pc'[Closer] = pc[Closer]
        /\ \A e \in Events : pc[e] # "idle" => pc'[e] # "idle"
    BY <2>1, TaskNames DEF FlushInv, TaskPC
  <2> QED
    BY <2>1, <2>2, FlushKept DEF FlushInv, Looked
<1>3. CASE Signal
  <2>1. /\ owed' = {e \in Events : pc[e] # "idle"} /\ closing = "off"
        /\ closing' = "await_flusher" /\ UNCHANGED <<pending, pc, open>>
    BY <1>3 DEF Signal, flushVars, dbVars
  <2> QED
    BY <2>1 DEF FlushInv, Queued, Looked
<1>4. CASE \/ \E o \in OrderIds : WriteOrder(o)
           \/ ClosePool
           \/ \E n \in DOMAIN failed : BackoffElapses(n)
           \/ RetryStep \/ RetrierStops \/ ShutDown \/ UNCHANGED vars
  <2>1. UNCHANGED <<pending, pc, owed, closing>> /\ (open' => open)
    BY <1>4 DEF WriteOrder, ClosePool, BackoffElapses, RetryStep, TakeDue, LookupOrders,
         LookupFails, RetryEvent, RetryEventFails, BuryEvent, RetryEnds, NothingToTake,
         RetrierStops, ShutDown, vars, flushVars, dbVars, closeVars
  <2> QED
    BY <2>1, FlushKept DEF FlushInv, Looked
<1> QED
  BY <1>1, <1>2, <1>3, <1>4, QueueKeepsFlush, FlushStepKeepsFlush, CloserKeepsFlush DEF Next

\* writer.rs: with the pool open to the end, shutdown leaves nothing in the pending
\* batch that was queued before it was signalled, however the callers' flushes, the
\* flush task (aborted after two seconds or not) and the final flush interleave.
THEOREM ShutdownFlushes == Spec => []FlushedAtShutdown
<1>1. FlushInv => FlushedAtShutdown
  BY DEF FlushInv, Looked, FlushedAtShutdown
<1> QED
  BY <1>1, FlushInvInit, FlushInvStep, PTL DEF Spec

-----------------------------------------------------------------------------
(***************************************************************************)
(* Sequences of retry entries: their events, and no event twice.           *)
(***************************************************************************)
LEMMA EntryEvents ==
  ASSUME NEW s \in Seq(Entry)
  PROVE  /\ EventsOf(s) = {s[n].ev : n \in DOMAIN s}
         /\ EventsOf(s) \subseteq Events
         /\ \A n \in DOMAIN s : s[n] \in Entry /\ s[n].ev \in EventsOf(s)
<1>1. \A n \in DOMAIN s : s[n] \in Entry
  OBVIOUS
<1>2. EventsOf(s) = {s[n].ev : n \in DOMAIN s}
  BY DEF EventsOf, ToSet
<1> QED
  BY <1>1, <1>2 DEF Entry

LEMMA NoEntries == EventsOf(<<>>) = {} /\ Distinct(<<>>)
BY DEF EventsOf, ToSet, Distinct

LEMMA AppendEntry ==
  ASSUME NEW s \in Seq(Entry), NEW x \in Entry
  PROVE  /\ EventsOf(Append(s, x)) = EventsOf(s) \cup {x.ev}
         /\ Distinct(s) /\ x.ev \notin EventsOf(s) => Distinct(Append(s, x))
<1> DEFINE r == Append(s, x)
<1>1. /\ Len(s) \in Nat /\ DOMAIN s = 1..Len(s) /\ r \in Seq(Entry)
      /\ DOMAIN r = 1..(Len(s) + 1) /\ r[Len(s) + 1] = x
      /\ \A n \in 1..Len(s) : r[n] = s[n]
  OBVIOUS
<1> HIDE DEF r
<1>2. /\ EventsOf(s) = {s[n].ev : n \in DOMAIN s}
      /\ EventsOf(r) = {r[n].ev : n \in DOMAIN r}
  BY <1>1, EntryEvents
<1>3. EventsOf(r) = EventsOf(s) \cup {x.ev}
  BY <1>1, <1>2
<1>4. ASSUME Distinct(s), x.ev \notin EventsOf(s)
      PROVE  Distinct(r)
  <2>1. \A n \in 1..Len(s) : r[n].ev # x.ev
    BY <1>1, <1>2, <1>4
  <2> SUFFICES ASSUME NEW a \in DOMAIN r, NEW b \in DOMAIN r, r[a].ev = r[b].ev
               PROVE  a = b
    BY DEF Distinct
  <2>2. (a = Len(s) + 1 \/ a \in 1..Len(s)) /\ (b = Len(s) + 1 \/ b \in 1..Len(s))
    BY <1>1
  <2> QED
    BY <1>1, <1>4, <2>1, <2>2 DEF Distinct
<1> QED
  BY <1>3, <1>4 DEF r

LEMMA ConcatEntries ==
  ASSUME NEW s \in Seq(Entry), NEW t \in Seq(Entry)
  PROVE  /\ EventsOf(s \o t) = EventsOf(s) \cup EventsOf(t)
         /\ Distinct(s) /\ Distinct(t) /\ EventsOf(s) \cap EventsOf(t) = {}
              => Distinct(s \o t)
<1> DEFINE r == s \o t
           m == Len(s)
           k == Len(t)
<1>1. /\ m \in Nat /\ k \in Nat /\ DOMAIN s = 1..m /\ DOMAIN t = 1..k /\ DOMAIN r = 1..(m + k)
      /\ \A n \in 1..m : r[n] = s[n]
      /\ \A n \in (m + 1)..(m + k) : r[n] = t[n - m]
  OBVIOUS
<1>2. EventsOf(r) = EventsOf(s) \cup EventsOf(t)
  BY ConcatElements DEF EventsOf
<1>3. (\A n \in DOMAIN s : s[n].ev \in EventsOf(s)) /\ (\A n \in DOMAIN t : t[n].ev \in EventsOf(t))
  BY EntryEvents
<1> HIDE DEF r, m, k
<1>4. \A n \in DOMAIN r : n \in 1..m \/ (n \in (m + 1)..(m + k) /\ n - m \in 1..k)
  BY <1>1
<1>5. ASSUME Distinct(s), Distinct(t), EventsOf(s) \cap EventsOf(t) = {}
      PROVE  Distinct(r)
  <2>1. \A i \in 1..m, j \in 1..k : s[i].ev # t[j].ev
    BY <1>1, <1>3, <1>5
  <2> SUFFICES ASSUME NEW a \in DOMAIN r, NEW b \in DOMAIN r, r[a].ev = r[b].ev
               PROVE  a = b
    BY DEF Distinct
  <2>2. CASE a \in 1..m /\ b \in 1..m
    BY <1>1, <1>5, <2>2 DEF Distinct
  <2>3. CASE a \notin 1..m /\ b \notin 1..m
    <3>1. a - m \in 1..k /\ b - m \in 1..k /\ t[a - m].ev = t[b - m].ev
      BY <1>1, <1>4, <2>3
    <3>2. a - m = b - m
      BY <1>1, <1>5, <3>1 DEF Distinct
    <3> QED
      BY <1>1, <3>2
  <2>4. CASE a \in 1..m /\ b \notin 1..m
    BY <1>1, <1>4, <2>1, <2>4
  <2>5. CASE a \notin 1..m /\ b \in 1..m
    BY <1>1, <1>4, <2>1, <2>5
  <2> QED
    BY <2>2, <2>3, <2>4, <2>5
<1> QED
  BY <1>2, <1>5 DEF r

\* What is taken of a queue of different events are different events.
LEMMA KeptEntries ==
  ASSUME NEW s \in Seq(Entry), NEW T, Distinct(s)
  PROVE  Distinct(Kept(s, T))
<1> DEFINE r == Kept(s, T)
<1>1. PICK at \in [DOMAIN r -> DOMAIN s] :
         /\ \A i, j \in DOMAIN r : i < j => at[i] < at[j]
         /\ \A i \in DOMAIN r : r[i] = s[at[i]]
  BY KeptPlaces
<1>2. r \in Seq(Entry)
  BY KeptSeq
<1> HIDE DEF r
<1>3. DOMAIN r \subseteq Nat /\ DOMAIN s \subseteq Nat
  BY <1>2
<1>4. ASSUME NEW i \in DOMAIN r, NEW j \in DOMAIN r, r[i].ev = r[j].ev
      PROVE  i = j
  <2>1. at[i] = at[j]
    BY <1>1, <1>4 DEF Distinct
  <2> QED
    BY <1>1, <1>3, <2>1
<1> QED
  BY <1>4 DEF Distinct, r

\* Taking out what is due splits the queue's events in two.
LEMMA SplitEntries ==
  ASSUME NEW s \in Seq(Entry), NEW T, Distinct(s)
  PROVE  LET kept == Kept(s, T)
             left == Kept(s, Entry \ T)
         IN  /\ EventsOf(kept) \cup EventsOf(left) = EventsOf(s)
             /\ EventsOf(kept) \cap EventsOf(left) = {}
<1> DEFINE kept == Kept(s, T)
           left == Kept(s, Entry \ T)
<1>1. ToSet(kept) = ToSet(s) \cap T /\ ToSet(left) = ToSet(s) \cap (Entry \ T)
  BY KeptElements
<1>2. ToSet(s) \subseteq Entry
  BY SeqElements
<1> HIDE DEF kept, left
<1>3. EventsOf(kept) \cup EventsOf(left) = EventsOf(s)
  BY <1>1, <1>2 DEF EventsOf
<1>4. \A x, y \in ToSet(s) : x.ev = y.ev => x = y
  BY DEF Distinct, ToSet
<1>5. EventsOf(kept) \cap EventsOf(left) = {}
  BY <1>1, <1>4 DEF EventsOf
<1> QED
  BY <1>3, <1>5 DEF kept, left

LEMMA ReverseEntries ==
  ASSUME NEW s \in Seq(Entry)
  PROVE  /\ Reverse(s) \in Seq(Entry)
         /\ EventsOf(Reverse(s)) = EventsOf(s)
         /\ Distinct(s) => Distinct(Reverse(s))
<1> DEFINE r == Reverse(s)
           m == Len(s)
<1>1. m \in Nat /\ DOMAIN s = 1..m /\ \A n \in 1..m : s[n] \in Entry
  OBVIOUS
<1>2. r = [n \in 1..m |-> s[m - n + 1]]
  BY DEF Reverse
<1> HIDE DEF r, m
<1>3. \A n \in 1..m : m - n + 1 \in 1..m /\ m - (m - n + 1) + 1 = n
  BY <1>1
<1>4. r \in Seq(Entry) /\ DOMAIN r = 1..m /\ \A n \in 1..m : r[n] = s[m - n + 1]
  BY <1>1, <1>2, <1>3
<1>5. \A n \in 1..m : s[n] = r[m - n + 1]
  BY <1>3, <1>4
<1>6. EventsOf(r) = EventsOf(s)
  <2>1. EventsOf(r) = {r[n].ev : n \in 1..m} /\ EventsOf(s) = {s[n].ev : n \in 1..m}
    BY <1>1, <1>4, EntryEvents
  <2> QED
    BY <1>3, <1>4, <1>5, <2>1
<1>7. ASSUME Distinct(s), NEW a \in 1..m, NEW b \in 1..m, r[a].ev = r[b].ev
      PROVE  a = b
  <2>1. m - a + 1 = m - b + 1
    BY <1>1, <1>3, <1>4, <1>7 DEF Distinct
  <2> QED
    BY <1>1, <2>1
<1> QED
  BY <1>4, <1>6, <1>7 DEF Distinct, r

LEMMA TailEntries ==
  ASSUME NEW s \in Seq(Entry), s # <<>>
  PROVE  /\ Head(s) \in Entry /\ Tail(s) \in Seq(Entry)
         /\ EventsOf(s) = EventsOf(Tail(s)) \cup {Head(s).ev}
         /\ Distinct(s) => Head(s).ev \notin EventsOf(Tail(s)) /\ Distinct(Tail(s))
<1> DEFINE r == Tail(s)
           x == Head(s)
           m == Len(s)
<1>1. /\ m \in Nat \ {0} /\ DOMAIN s = 1..m /\ x = s[1] /\ x \in Entry /\ r \in Seq(Entry)
      /\ DOMAIN r = 1..(m - 1) /\ \A n \in 1..(m - 1) : r[n] = s[n + 1]
  OBVIOUS
<1> HIDE DEF r, x, m
<1>2. EventsOf(s) = {s[n].ev : n \in DOMAIN s} /\ EventsOf(r) = {r[n].ev : n \in DOMAIN r}
  BY <1>1, EntryEvents
<1>3. \A n \in 1..m : n = 1 \/ \E k \in 1..(m - 1) : n = k + 1
  <2>1. TAKE n \in 1..m
  <2>2. CASE n # 1
    <3>1. n - 1 \in 1..(m - 1) /\ n = (n - 1) + 1
      BY <1>1, <2>2
    <3> QED
      BY <3>1
  <2> QED
    BY <2>2
<1>4. 1 \in 1..m /\ \A n \in 1..(m - 1) : n + 1 \in 1..m /\ n + 1 # 1
  BY <1>1
<1>5. EventsOf(s) = EventsOf(r) \cup {x.ev}
  <2>1. \A n \in 1..m : s[n].ev \in EventsOf(r) \cup {x.ev}
    BY <1>1, <1>2, <1>3
  <2>2. x.ev \in EventsOf(s) /\ \A k \in 1..(m - 1) : r[k].ev \in EventsOf(s)
    BY <1>1, <1>2, <1>4
  <2> QED
    BY <1>1, <1>2, <2>1, <2>2
<1>6. ASSUME Distinct(s), x.ev \in EventsOf(r)
      PROVE  FALSE
  <2>1. PICK k \in 1..(m - 1) : r[k].ev = x.ev
    BY <1>1, <1>2, <1>6
  <2>2. k + 1 \in DOMAIN s /\ 1 \in DOMAIN s /\ s[k + 1].ev = s[1].ev
    BY <1>1, <1>4, <2>1
  <2>3. k + 1 = 1
    BY <1>6, <2>2 DEF Distinct
  <2> QED
    BY <1>4, <2>3
<1>7. ASSUME Distinct(s), NEW a \in DOMAIN r, NEW b \in DOMAIN r, r[a].ev = r[b].ev
      PROVE  a = b
  <2>1. a \in 1..(m - 1) /\ b \in 1..(m - 1)
    BY <1>1
  <2>2. a + 1 \in DOMAIN s /\ b + 1 \in DOMAIN s /\ s[a + 1].ev = s[b + 1].ev
    BY <1>1, <1>4, <1>7, <2>1
  <2>3. a + 1 = b + 1
    BY <1>7, <2>2 DEF Distinct
  <2> QED
    BY <2>1, <2>3
<1> QED
  BY <1>1, <1>5, <1>6, <1>7 DEF Distinct, r, x

-----------------------------------------------------------------------------
(***************************************************************************)
(* TypeOK.                                                                 *)
(***************************************************************************)

\* ON CONFLICT DO NOTHING: the table gets what it does not have, once.
LEMMA InsertFacts ==
  ASSUME table \in Seq(Events), NEW s \in Seq(Events)
  PROVE  /\ Insert(s) \in Seq(Events)
         /\ ToSet(Insert(s)) = ToSet(table) \cup ToSet(s)
         /\ IsInjective(table) /\ IsInjective(s) => IsInjective(Insert(s))
<1> DEFINE k == Kept(s, Events \ ToSet(table))
<1>1. k \in Seq(Events) /\ ToSet(k) = ToSet(s) \cap (Events \ ToSet(table))
  BY KeptSeq, KeptElements
<1>2. IsInjective(s) => IsInjective(k)
  BY KeptInjective
<1>3. ToSet(s) \subseteq Events
  BY SeqElements
<1> HIDE DEF k
<1>4. table \o k \in Seq(Events)
  BY <1>1
<1>5. /\ ToSet(table \o k) = ToSet(table) \cup ToSet(k)
      /\ IsInjective(table) /\ IsInjective(k) => IsInjective(table \o k)
  BY <1>1, ConcatElements
<1> QED
  BY <1>1, <1>2, <1>3, <1>4, <1>5 DEF Insert, k

LEMMA QueueType ==
  ASSUME TypeOK, NEW e \in Events, QueueEvent(e)
  PROVE  TypeOK'
<1>1. e \in Tasks
  BY TaskNames
<1>2. /\ good' \in [Events -> BOOLEAN] /\ pending' \in Seq(Events) /\ pc' \in [Tasks -> TaskPC]
  BY <1>1 DEF QueueEvent, TypeOK, TaskPC
<1> QED
  BY <1>2 DEF QueueEvent, TypeOK, TaskPC, retryVars, dbVars, closeVars

LEMMA FlushStepType ==
  ASSUME TypeOK, NEW t \in Tasks, FlushStep(t)
  PROVE  TypeOK'
<1>b. batch[t] \in Seq(Events)
  BY DEF TypeOK
<1>p. pc' \in [Tasks -> TaskPC]
  BY DEF FlushStep, Drain, SkipFlush, InsertBatch, InsertBatchFails, QueueFailed, AfterFlush,
         TypeOK, TaskPC
<1>t. Insert(batch[t]) \in Seq(Events)
  BY <1>b, InsertFacts DEF TypeOK
<1>1. CASE Drain(t)
  BY <1>1, <1>p DEF Drain, TypeOK, TaskPC, retryVars, dbVars, closeVars
<1>2. CASE SkipFlush(t)
  BY <1>2, <1>p DEF SkipFlush, TypeOK, TaskPC, retryVars, dbVars, closeVars
<1>3. CASE InsertBatch(t)
  BY <1>3, <1>p, <1>t DEF InsertBatch, TypeOK, TaskPC, retryVars, closeVars
<1>4. CASE InsertBatchFails(t)
  BY <1>4, <1>p, <1>t DEF InsertBatchFails, TypeOK, TaskPC, retryVars, closeVars
<1>5. CASE QueueFailed(t)
  <2>1. [n \in 1..Len(batch[t]) |-> [ev |-> batch[t][n], tries |-> 0, due |-> FALSE]] \in Seq(Entry)
    BY <1>b, WriterAssumption DEF Entry
  <2>2. failed' \in Seq(Entry)
    BY <1>5, <2>1 DEF QueueFailed, TypeOK
  <2> QED
    BY <1>5, <1>p, <2>2 DEF QueueFailed, TypeOK, TaskPC, retryVars, dbVars, closeVars
<1> QED
  BY <1>1, <1>2, <1>3, <1>4, <1>5 DEF FlushStep

LEMMA DropType ==
  ASSUME TypeOK, NEW t \in Tasks, DropFlush(t),
         UNCHANGED <<pending, good, final, failed, retryVars, rows, open, closeVars>>
  PROVE  TypeOK'
<1>1. batch[t] \in Seq(Events)
  BY DEF TypeOK
<1>2. table' \in Seq(Events) /\ ToSet(batch[t]) \subseteq Events
  BY <1>1, InsertFacts, SeqElements DEF DropFlush, TypeOK
<1> QED
  BY <1>2 DEF DropFlush, TypeOK, TaskPC, retryVars, closeVars

\* A retry entry that goes back with one more retry is one still.
LEMMA RetriedEntry ==
  ASSUME NEW x \in Entry, ~ (x.tries + 1 >= MaxRetries)
  PROVE  /\ [x EXCEPT !.tries = @ + 1, !.due = FALSE] \in Entry
         /\ [x EXCEPT !.tries = @ + 1, !.due = FALSE].ev = x.ev
<1>1. x.tries \in 0..(MaxRetries - 1) /\ x.tries + 1 \in 0..(MaxRetries - 1)
  BY WriterAssumption DEF Entry
<1> QED
  BY <1>1 DEF Entry

\* An entry whose backoff has elapsed is one still.
LEMMA DueEntry ==
  ASSUME NEW x \in Entry
  PROVE  [x EXCEPT !.due = TRUE] \in Entry /\ [x EXCEPT !.due = TRUE].ev = x.ev
BY DEF Entry

LEMMA RetryStepType ==
  ASSUME TypeOK, RetryStep
  PROVE  TypeOK'
<1> DEFINE x == Head(hand)
<1>h. hand # <<>> => /\ x \in Entry /\ x.ev \in Events /\ Tail(hand) \in Seq(Entry)
                     /\ <<x.ev>> \in Seq(Events)
  <2>1. hand # <<>> => x \in Entry /\ Tail(hand) \in Seq(Entry)
    BY TailEntries DEF TypeOK
  <2> QED
    BY <2>1 DEF Entry
<1>t. hand # <<>> => Insert(<<x.ev>>) \in Seq(Events)
  BY <1>h, InsertFacts DEF TypeOK
<1> HIDE DEF x
<1>1. CASE TakeDue
  <2>1. Reverse(Kept(failed, Due)) \in Seq(Entry) /\ Kept(failed, NotDue) \in Seq(Entry)
    BY KeptSeq, ReverseEntries DEF TypeOK
  <2> QED
    BY <1>1, <2>1 DEF TakeDue, TypeOK, flushVars, dbVars, closeVars
<1>2. CASE LookupOrders
  <2>1. found' \subseteq OrderIds
    BY <1>2 DEF LookupOrders, TypeOK
  <2> QED
    BY <1>2, <2>1 DEF LookupOrders, TypeOK, flushVars, dbVars, closeVars
<1>3. CASE LookupFails
  <2>1. failed' \in Seq(Entry) /\ hand' \in Seq(Entry)
    BY <1>3 DEF LookupFails, TypeOK
  <2> QED
    BY <1>3, <2>1 DEF LookupFails, AfterRetry, TypeOK, flushVars, dbVars, closeVars
<1>4. CASE RetryEvent
  BY <1>4, <1>h, <1>t DEF RetryEvent, TypeOK, flushVars, closeVars, x
<1>5. CASE RetryEventFails
  <2>1. hand # <<>> /\ hand' = Tail(hand) /\ (UNCHANGED table \/ table' = Insert(<<x.ev>>))
    BY <1>5, Zenon DEF RetryEventFails, x
  <2> DEFINE y == [x EXCEPT !.tries = @ + 1, !.due = FALSE]
  <2>2. \/ dlq' = dlq \cup {x.ev} /\ UNCHANGED failed
        \/ ~ (x.tries + 1 >= MaxRetries) /\ failed' = Append(failed, y) /\ UNCHANGED dlq
    BY <1>5 DEF RetryEventFails, x
  <2>y. ~ (x.tries + 1 >= MaxRetries) => y \in Entry
    BY <1>h, <2>1, RetriedEntry
  <2> HIDE DEF y
  <2>3. failed' \in Seq(Entry) /\ dlq' \subseteq Events
    <3>1. x.ev \in Events /\ failed \in Seq(Entry) /\ dlq \subseteq Events
      BY <1>h, <2>1, Zenon DEF TypeOK
    <3>2. ASSUME y \in Entry
          PROVE  Append(failed, y) \in Seq(Entry)
      BY <3>1, <3>2
    <3>3. dlq \cup {x.ev} \subseteq Events
      BY <3>1
    <3> QED
      BY <2>2, <2>y, <3>1, <3>2, <3>3, Zenon
  <2> QED
    BY <1>5, <1>h, <1>t, <2>1, <2>3 DEF RetryEventFails, TypeOK, flushVars, closeVars
<1>6. CASE BuryEvent
  BY <1>6, <1>h DEF BuryEvent, TypeOK, flushVars, dbVars, closeVars, x
<1>7. CASE RetryEnds
  BY <1>7 DEF RetryEnds, AfterRetry, TypeOK, flushVars, dbVars, closeVars
<1>8. CASE NothingToTake
  BY <1>8 DEF NothingToTake, TypeOK, flushVars, dbVars, closeVars
<1> QED
  BY <1>1, <1>2, <1>3, <1>4, <1>5, <1>6, <1>7, <1>8 DEF RetryStep

LEMMA CloserType ==
  ASSUME TypeOK, CloserStep
  PROVE  TypeOK'
<1>1. CASE FlusherEnded \/ FinalFlushEnded \/ RetriesAwaited \/ RetriesNotAwaited \/ RetrierEnded
  <2>1. pc' \in [Tasks -> TaskPC]
    BY <1>1 DEF FlusherEnded, FinalFlushEnded, RetriesAwaited, RetriesNotAwaited, RetrierEnded,
                flushVars, TypeOK, TaskPC
  <2> QED
    BY <1>1, <2>1 DEF FlusherEnded, FinalFlushEnded, RetriesAwaited, RetriesNotAwaited,
       RetrierEnded, flushVars, retryVars, dbVars, TypeOK, TaskPC
<1>2. CASE FlusherAborted
  BY <1>2, DropType, TaskNames DEF FlusherAborted
<1>3. CASE RetrierAborted
  <2>1. EventsOf(hand) \subseteq Events
    BY EntryEvents DEF TypeOK
  <2>2. dropped' \subseteq Events
    BY <1>3, <2>1 DEF RetrierAborted, EventsOf, TypeOK
  <2>3. table' \in Seq(Events)
    <3>1. hand # <<>> => <<Head(hand).ev>> \in Seq(Events)
      <4>1. hand # <<>> => Head(hand) \in Entry
        BY TailEntries DEF TypeOK
      <4> QED
        BY <4>1 DEF Entry
    <3>2. UNCHANGED table \/ (hand # <<>> /\ table' = Insert(<<Head(hand).ev>>))
      BY <1>3 DEF RetrierAborted
    <3> QED
      BY <3>1, <3>2, InsertFacts DEF TypeOK
  <2> QED
    BY <1>3, <2>2, <2>3 DEF RetrierAborted, TypeOK, flushVars
<1> QED
  BY <1>1, <1>2, <1>3 DEF CloserStep

LEMMA TypeNext == TypeOK /\ [Next]_vars => TypeOK'
<1> SUFFICES ASSUME TypeOK, [Next]_vars
             PROVE  TypeOK'
  OBVIOUS
<1>1. ASSUME NEW e \in Events, AbortCaller(e)
      PROVE  TypeOK'
  BY <1>1, DropType, TaskNames DEF AbortCaller
<1>2. ASSUME NEW n \in DOMAIN failed, BackoffElapses(n)
      PROVE  TypeOK'
  <2>1. failed' \in Seq(Entry)
    <3>1. failed[n] \in Entry /\ [failed[n] EXCEPT !.due = TRUE] \in Entry
      BY DueEntry DEF TypeOK
    <3> QED
      BY <1>2, <3>1 DEF BackoffElapses, TypeOK
  <2> QED
    BY <1>2, <2>1 DEF BackoffElapses, TypeOK, flushVars, retryVars, dbVars, closeVars
<1>3. CASE \E o \in OrderIds : WriteOrder(o)
  BY <1>3 DEF WriteOrder, TypeOK, flushVars, retryVars, closeVars
<1>4. CASE ClosePool \/ FlusherStops \/ RetrierStops \/ ShutDown \/ UNCHANGED vars
  <2>1. pc' \in [Tasks -> TaskPC]
    BY <1>4 DEF ClosePool, FlusherStops, RetrierStops, ShutDown, vars, flushVars, TypeOK, TaskPC
  <2> QED
    BY <1>4, <2>1 DEF ClosePool, FlusherStops, RetrierStops, ShutDown, vars, flushVars, retryVars,
                      dbVars, closeVars, TypeOK, TaskPC
<1>5. CASE Signal
  BY <1>5 DEF Signal, TypeOK, flushVars, retryVars, dbVars
<1> QED
  BY <1>1, <1>2, <1>3, <1>4, <1>5, QueueType, FlushStepType, RetryStepType, CloserType DEF Next

\* Types in DatabaseWriter: batches and retries hold events that were queued, no
\* entry in the retry queue has used up its retries.
THEOREM WriterTypeOK == Spec => []TypeOK
<1>1. Init => TypeOK
  <2>1. <<>> \in Seq(Events) /\ <<>> \in Seq(Entry) /\ [t \in Tasks |-> <<>>] \in [Tasks -> Seq(Events)]
    OBVIOUS
  <2>2. Init => /\ pending \in Seq(Events) /\ failed \in Seq(Entry) /\ hand \in Seq(Entry)
                /\ table \in Seq(Events) /\ batch \in [Tasks -> Seq(Events)]
    BY <2>1 DEF Init
  <2>3. Init => /\ good \in [Events -> BOOLEAN]
                /\ pc \in [Tasks -> {"idle", "draining", "inserting", "requeueing", "done"}]
    BY DEF Init
  <2> QED
    BY <2>2, <2>3 DEF Init, TypeOK
<1> QED
  BY <1>1, TypeNext, PTL DEF Spec

-----------------------------------------------------------------------------
(***************************************************************************)
(* Where the events are.  A task outside its insert and a scheduler        *)
(* outside its retries have nothing in hand, so what a step takes replaces *)
(* nothing; and the events the writer knows are those that were queued, so *)
(* a task that queues its event brings a new one.                          *)
(***************************************************************************)
Emptied ==
  /\ \A t \in Tasks : pc[t] \notin {"inserting", "requeueing"} => batch[t] = <<>>
  /\ retrier \notin {"looking", "retrying"} => hand = <<>>

Known == Held \cup dlq \cup ToSet(table) \cup dropped

Accounted == Known = {e \in Events : Queued(e)}

BatchesOnce ==
  /\ \A t, u \in Tasks : t # u => ToSet(batch[t]) \cap ToSet(batch[u]) = {}
  /\ \A t \in Tasks : IsInjective(batch[t])

OnceInv == Emptied /\ Accounted /\ HeldOnce /\ RecordedOnce

\* The five places, pair by pair.
Apart(P, U, F, H, D) ==
  /\ P \cap U = {} /\ P \cap F = {} /\ P \cap H = {} /\ P \cap D = {}
  /\ U \cap F = {} /\ U \cap H = {} /\ U \cap D = {}
  /\ F \cap H = {} /\ F \cap D = {} /\ H \cap D = {}

LEMMA PairByPair ==
  ASSUME NEW P, NEW U, NEW F, NEW H, NEW D, NEW at, at = <<P, U, F, H, D>>
  PROVE  (\A j \in 1..5 : \A i \in 1..(j - 1) : at[i] \cap at[j] = {}) <=> Apart(P, U, F, H, D)
<1>1. at[1] = P /\ at[2] = U /\ at[3] = F /\ at[4] = H /\ at[5] = D
  OBVIOUS
<1>2. ASSUME \A j \in 1..5 : \A i \in 1..(j - 1) : at[i] \cap at[j] = {}
      PROVE  Apart(P, U, F, H, D)
  <2>1. /\ at[1] \cap at[2] = {} /\ at[1] \cap at[3] = {} /\ at[1] \cap at[4] = {}
        /\ at[1] \cap at[5] = {} /\ at[2] \cap at[3] = {} /\ at[2] \cap at[4] = {}
        /\ at[2] \cap at[5] = {} /\ at[3] \cap at[4] = {} /\ at[3] \cap at[5] = {}
        /\ at[4] \cap at[5] = {}
    <3> HIDE <1>1
    <3> QED
      BY <1>2
  <2> QED
    BY <1>1, <2>1 DEF Apart
<1>3. ASSUME Apart(P, U, F, H, D), NEW j \in 1..5, NEW i \in 1..(j - 1)
      PROVE  at[i] \cap at[j] = {}
  <2>1. j \in {2, 3, 4, 5} /\ i \in {1, 2, 3, 4} /\ i < j
    OBVIOUS
  <2> QED
    BY <1>1, <1>3, <2>1 DEF Apart
<1> QED
  BY <1>2, <1>3

LEMMA HeldOnceParts ==
  HeldOnce <=> /\ Apart(ToSet(pending), InBatch, EventsOf(failed), EventsOf(hand), dlq)
               /\ BatchesOnce /\ IsInjective(pending) /\ Distinct(failed) /\ Distinct(hand)
BY PairByPair, Zenon DEF HeldOnce, Places, BatchesOnce

LEMMA HeldOncePartsNext ==
  HeldOnce' <=> /\ Apart(ToSet(pending'), InBatch', EventsOf(failed'), EventsOf(hand'), dlq')
                /\ BatchesOnce' /\ IsInjective(pending') /\ Distinct(failed') /\ Distinct(hand')
BY PairByPair, Zenon DEF HeldOnce, Places, BatchesOnce

\* A task without a batch gets one, of events that no other task has.
LEMMA BatchFilled ==
  ASSUME TypeOK, BatchesOnce, NEW t \in Tasks, batch[t] = <<>>,
         NEW s \in Seq(Events), IsInjective(s), ToSet(s) \cap InBatch = {},
         batch' = [batch EXCEPT ![t] = s]
  PROVE  InBatch' = InBatch \cup ToSet(s) /\ BatchesOnce'
<1>1. \A u \in Tasks : batch'[u] = IF u = t THEN s ELSE batch[u]
  BY DEF TypeOK
<1>2. ToSet(batch[t]) = {}
  BY EmptyElements
<1>3. InBatch' = InBatch \cup ToSet(s)
  BY <1>1, <1>2 DEF InBatch
<1>4. \A u \in Tasks : ToSet(batch[u]) \subseteq InBatch
  BY DEF InBatch
<1> QED
  BY <1>1, <1>3, <1>4 DEF BatchesOnce

\* A task lets its batch go.
LEMMA BatchCleared ==
  ASSUME TypeOK, BatchesOnce, NEW t \in Tasks, batch' = [batch EXCEPT ![t] = <<>>]
  PROVE  /\ InBatch' = InBatch \ ToSet(batch[t]) /\ BatchesOnce'
         /\ ToSet(batch[t]) \subseteq InBatch
<1>1. \A u \in Tasks : batch'[u] = IF u = t THEN <<>> ELSE batch[u]
  BY DEF TypeOK
<1>2. ToSet(<<>>) = {} /\ IsInjective(<<>>)
  BY EmptyElements
<1>3. InBatch' = InBatch \ ToSet(batch[t])
  BY <1>1, <1>2 DEF InBatch, BatchesOnce
<1>4. BatchesOnce'
  BY <1>1, <1>2 DEF BatchesOnce
<1> QED
  BY <1>3, <1>4 DEF InBatch

-----------------------------------------------------------------------------
(***************************************************************************)
(* Each step keeps OnceInv and is a step of EventLedger or a stutter.      *)
(***************************************************************************)
LedgerStep == [Ledger!Next]_(Ledger!vars)

LEMMA LedgerQuiet ==
  ASSUME Held' = Held, ToSet(table') = ToSet(table), UNCHANGED <<dlq, dropped>>
  PROVE  LedgerStep
BY DEF LedgerStep, Ledger!vars

LEMMA LedgerCommits ==
  ASSUME NEW S, S \subseteq Held, Held' = Held \/ Held' = Held \ S,
         ToSet(table') = ToSet(table) \cup S, UNCHANGED <<dlq, dropped>>
  PROVE  LedgerStep
<1>1. Ledger!Commit(S)
  BY DEF Ledger!Commit
<1> QED
  BY <1>1 DEF LedgerStep, Ledger!Next

LEMMA LedgerBuries ==
  ASSUME NEW e \in Held, Held' = Held \ {e}, dlq' = dlq \cup {e},
         ToSet(table') = ToSet(table) \/ ToSet(table') = ToSet(table) \cup {e},
         UNCHANGED dropped
  PROVE  LedgerStep
<1>1. Ledger!Bury(e)
  BY DEF Ledger!Bury
<1> QED
  BY <1>1 DEF LedgerStep, Ledger!Next

LEMMA LedgerLoses ==
  ASSUME NEW S, S \subseteq Held, NEW C, C \subseteq S, Held' = Held \ S,
         ToSet(table') = ToSet(table) \cup C, dropped' = dropped \cup S, UNCHANGED dlq
  PROVE  LedgerStep
<1>1. Ledger!Lose(S)
  BY DEF Ledger!Lose
<1> QED
  BY <1>1 DEF LedgerStep, Ledger!Next

\* A step that moves no event.
LEMMA NothingMoves ==
  ASSUME OnceInv, UNCHANGED <<pending, batch, failed, hand, dlq, table, dropped>>,
         \A e \in Events : (pc'[e] # "idle") <=> (pc[e] # "idle"), Emptied'
  PROVE  OnceInv' /\ LedgerStep
<1>1. Held' = Held
  BY DEF Held, InBatch, EventsOf
<1>2. Accounted'
  BY <1>1 DEF OnceInv, Accounted, Known, Queued
<1>3. HeldOnce' /\ RecordedOnce'
  <2>1. InBatch' = InBatch /\ (BatchesOnce => BatchesOnce')
    BY DEF InBatch, BatchesOnce
  <2> QED
    BY <2>1, HeldOnceParts, HeldOncePartsNext DEF OnceInv, RecordedOnce
<1> QED
  BY <1>1, <1>2, <1>3, LedgerQuiet DEF OnceInv

\* What the writer knows of is not changed by the moves of a step that queues
\* nothing: only where it is.
LEMMA OnceKept ==
  ASSUME OnceInv, Known' = Known, Emptied', RecordedOnce',
         \A e \in Events : (pc'[e] # "idle") <=> (pc[e] # "idle"),
         Apart(ToSet(pending'), InBatch', EventsOf(failed'), EventsOf(hand'), dlq'),
         BatchesOnce', IsInjective(pending'), Distinct(failed'), Distinct(hand')
  PROVE  OnceInv'
<1>1. Accounted'
  BY DEF OnceInv, Accounted, Queued
<1>2. HeldOnce'
  BY HeldOncePartsNext
<1> QED
  BY <1>1, <1>2 DEF OnceInv

\* queue_transition
LEMMA QueueOnce ==
  ASSUME TypeOK, OnceInv, NEW e \in Events, QueueEvent(e)
  PROVE  OnceInv' /\ LedgerStep
<1>1. /\ pc[e] = "idle" /\ pending' = Append(pending, e)
      /\ pc' = [pc EXCEPT ![e] = pc'[e]] /\ pc'[e] \in {"draining", "done"}
      /\ UNCHANGED <<batch, failed, retrier, hand, dlq, table, dropped>>
  BY TaskNames DEF QueueEvent, TypeOK, retryVars, dbVars
<1>2. e \notin Known
  BY <1>1 DEF OnceInv, Accounted, Queued
<1>3. /\ ToSet(pending') = ToSet(pending) \cup {e}
      /\ IsInjective(pending) /\ e \notin ToSet(pending) => IsInjective(pending')
  BY <1>1, AppendElements DEF TypeOK
<1>4. InBatch' = InBatch /\ EventsOf(failed') = EventsOf(failed) /\ EventsOf(hand') = EventsOf(hand)
  BY <1>1 DEF InBatch
<1>5. Held' = Held \cup {e} /\ Known' = Known \cup {e}
  BY <1>1, <1>3, <1>4 DEF Held, Known
<1>6. Accounted'
  <2>1. \A d \in Events : pc'[d] = IF d = e THEN pc'[e] ELSE pc[d]
    BY <1>1, TaskNames DEF TypeOK
  <2> QED
    BY <1>1, <1>5, <2>1 DEF OnceInv, Accounted, Queued
<1>7. HeldOnce'
  <2>1. Apart(ToSet(pending), InBatch, EventsOf(failed), EventsOf(hand), dlq)
        /\ BatchesOnce /\ IsInjective(pending) /\ Distinct(failed) /\ Distinct(hand)
    BY HeldOnceParts DEF OnceInv
  <2>2. Apart(ToSet(pending'), InBatch', EventsOf(failed'), EventsOf(hand'), dlq')
    BY <1>1, <1>2, <1>3, <1>4, <2>1 DEF Apart, Known, Held
  <2>3. IsInjective(pending')
    BY <1>2, <1>3, <2>1 DEF Known, Held
  <2>4. BatchesOnce' /\ Distinct(failed') /\ Distinct(hand')
    BY <1>1, <2>1 DEF BatchesOnce, Distinct
  <2> QED
    BY <2>2, <2>3, <2>4, HeldOncePartsNext
<1>8. Emptied'
  BY <1>1, TaskNames DEF OnceInv, Emptied, TypeOK
<1>9. RecordedOnce'
  BY <1>1 DEF OnceInv, RecordedOnce
<1>10. LedgerStep
  <2>1. Ledger!Accept(e)
    BY <1>1, <1>2, <1>5 DEF Ledger!Accept, Known
  <2> QED
    BY <2>1 DEF LedgerStep, Ledger!Next
<1> QED
  BY <1>6, <1>7, <1>8, <1>9, <1>10 DEF OnceInv

\* A step that empties the batch of t moves its events to one other place.
LEMMA FlushMoves ==
  ASSUME TypeOK, OnceInv, NEW t \in Tasks,
         batch' = [batch EXCEPT ![t] = <<>>],
         pc' \in {[pc EXCEPT ![t] = p] : p \in TaskPC \ {"inserting", "requeueing"}},
         t \in Events => pc[t] # "idle" /\ pc'[t] # "idle",
         UNCHANGED <<pending, retrier, hand, dlq>>,
         \/ failed' = failed
         \/ EventsOf(failed') = EventsOf(failed) \cup ToSet(batch[t]) /\ Distinct(failed'),
         table' \in {table, Insert(batch[t])},
         \/ table' = Insert(batch[t]) /\ failed' = failed /\ dropped' = dropped
         \/ table' = table /\ EventsOf(failed') = EventsOf(failed) \cup ToSet(batch[t])
              /\ dropped' = dropped
         \/ failed' = failed /\ dropped' = dropped \cup ToSet(batch[t])
  PROVE  OnceInv' /\ LedgerStep
<1> DEFINE S == ToSet(batch[t])
<1>1. Apart(ToSet(pending), InBatch, EventsOf(failed), EventsOf(hand), dlq)
      /\ BatchesOnce /\ IsInjective(pending) /\ Distinct(failed) /\ Distinct(hand)
  BY HeldOnceParts DEF OnceInv
<1>2. InBatch' = InBatch \ S /\ BatchesOnce' /\ S \subseteq InBatch
  BY <1>1, BatchCleared
<1>3. /\ ToSet(Insert(batch[t])) = ToSet(table) \cup S
      /\ IsInjective(Insert(batch[t]))
  <2>1. batch[t] \in Seq(Events) /\ IsInjective(batch[t]) /\ IsInjective(table)
    BY <1>1 DEF TypeOK, BatchesOnce, OnceInv, RecordedOnce
  <2> QED
    BY <2>1, InsertFacts DEF TypeOK
<1>4. RecordedOnce' /\ ToSet(table') \in {ToSet(table), ToSet(table) \cup S}
  BY <1>3 DEF OnceInv, RecordedOnce
<1>5. Distinct(failed') /\ Distinct(hand') /\ IsInjective(pending')
  BY <1>1 DEF Distinct
<1> HIDE DEF S
<1>6. EventsOf(failed') \in {EventsOf(failed), EventsOf(failed) \cup S} /\ EventsOf(hand') = EventsOf(hand)
  BY DEF S
<1>7. Apart(ToSet(pending'), InBatch', EventsOf(failed'), EventsOf(hand'), dlq')
  BY <1>1, <1>2, <1>6 DEF Apart
<1>8. Emptied'
  BY DEF OnceInv, Emptied, TypeOK
<1>9. \A e \in Events : (pc'[e] # "idle") <=> (pc[e] # "idle")
  BY TaskNames DEF TypeOK
<1>10. \/ /\ ToSet(table') = ToSet(table) \cup S /\ EventsOf(failed') = EventsOf(failed)
          /\ dropped' = dropped
       \/ /\ ToSet(table') = ToSet(table) /\ EventsOf(failed') = EventsOf(failed) \cup S
          /\ dropped' = dropped
       \/ /\ EventsOf(failed') = EventsOf(failed) /\ dropped' = dropped \cup S
  BY <1>3 DEF S
<1>11. Known' = Known /\ S \subseteq Held
  BY <1>2, <1>4, <1>6, <1>10 DEF Known, Held
<1>12. OnceInv'
  BY <1>2, <1>4, <1>5, <1>7, <1>8, <1>9, <1>11, OnceKept
<1>13. LedgerStep
  <2>1. CASE ToSet(table') = ToSet(table) \cup S /\ EventsOf(failed') = EventsOf(failed) /\ dropped' = dropped
    <3>1. Held' = Held \ S
      BY <1>1, <1>2, <1>6, <2>1 DEF Held, Apart
    <3> QED
      BY <1>11, <2>1, <3>1, LedgerCommits
  <2>2. CASE ToSet(table') = ToSet(table) /\ EventsOf(failed') = EventsOf(failed) \cup S /\ dropped' = dropped
    <3>1. Held' = Held
      BY <1>1, <1>2, <1>6, <2>2 DEF Held, Apart
    <3> QED
      BY <2>2, <3>1, LedgerQuiet
  <2>3. CASE EventsOf(failed') = EventsOf(failed) /\ dropped' = dropped \cup S
    <3>1. Held' = Held \ S
      BY <1>1, <1>2, <1>6, <2>3 DEF Held, Apart
    <3>2. \E C : C \subseteq S /\ ToSet(table') = ToSet(table) \cup C
      <4>1. ToSet(table) = ToSet(table) \cup {} /\ {} \subseteq S /\ S \subseteq S
        OBVIOUS
      <4> QED
        BY <1>4, <4>1, Zenon
    <3> QED
      BY <1>11, <2>3, <3>1, <3>2, LedgerLoses
  <2> QED
    BY <1>10, <2>1, <2>2, <2>3
<1> QED
  BY <1>12, <1>13

\* flush_transitions
LEMMA FlushOnce ==
  ASSUME TypeOK, OnceInv, NEW t \in Tasks, FlushStep(t)
  PROVE  OnceInv' /\ LedgerStep
<1>0. /\ batch[t] \in Seq(Events) /\ pending \in Seq(Events) /\ pc \in [Tasks -> TaskPC]
      /\ Flusher \notin Events /\ "inserting" # "idle" /\ "requeueing" # "idle"
  BY WriterAssumption DEF TypeOK, TaskPC
<1>1. /\ Apart(ToSet(pending), InBatch, EventsOf(failed), EventsOf(hand), dlq)
      /\ BatchesOnce /\ IsInjective(pending) /\ Distinct(failed) /\ Distinct(hand)
  BY HeldOnceParts DEF OnceInv
<1>2. CASE Drain(t)
  <2>1. /\ pc[t] \in {"draining", "idle"} /\ (pc[t] = "idle" => t = Flusher)
        /\ pc' = [pc EXCEPT ![t] = "inserting"] /\ batch' = [batch EXCEPT ![t] = pending]
        /\ pending' = <<>> /\ UNCHANGED <<failed, retrier, hand, dlq, table, dropped>>
    BY <1>2 DEF Drain, AtFlush, retryVars, dbVars
  <2>2. batch[t] = <<>>
    BY <2>1 DEF OnceInv, Emptied
  <2>3. ToSet(pending) \cap InBatch = {}
    BY <1>1 DEF Apart
  <2>4. InBatch' = InBatch \cup ToSet(pending) /\ BatchesOnce'
    BY <1>0, <1>1, <2>1, <2>2, <2>3, BatchFilled
  <2>5. ToSet(pending') = {} /\ IsInjective(pending')
    BY <2>1, EmptyElements
  <2>6. EventsOf(failed') = EventsOf(failed) /\ EventsOf(hand') = EventsOf(hand)
        /\ Distinct(failed') /\ Distinct(hand') /\ RecordedOnce'
    BY <1>1, <2>1 DEF OnceInv, RecordedOnce
  <2>7. Held' = Held /\ Known' = Known
    BY <2>1, <2>4, <2>5, <2>6 DEF Held, Known
  <2>8. Apart(ToSet(pending'), InBatch', EventsOf(failed'), EventsOf(hand'), dlq')
    BY <1>1, <2>1, <2>4, <2>5, <2>6 DEF Apart
  <2>9. Emptied'
    BY <1>0, <2>1 DEF OnceInv, Emptied, TypeOK
  <2>10. \A e \in Events : (pc'[e] # "idle") <=> (pc[e] # "idle")
    BY <1>0, <2>1, TaskNames
  <2>11. OnceInv'
    BY <2>4, <2>5, <2>6, <2>7, <2>8, <2>9, <2>10, OnceKept
  <2>12. LedgerStep
    BY <2>1, <2>7, LedgerQuiet
  <2> QED
    BY <2>11, <2>12
<1>3. CASE SkipFlush(t)
  <2>1. /\ pc[t] \in {"draining", "idle"} /\ (pc[t] = "idle" => t = Flusher)
        /\ pc' = [pc EXCEPT ![t] = AfterFlush(t)]
        /\ UNCHANGED <<pending, batch, failed, retrier, hand, dlq, table, dropped>>
    BY <1>3 DEF SkipFlush, AtFlush, retryVars, dbVars
  <2>2. \A e \in Events : (pc'[e] # "idle") <=> (pc[e] # "idle")
    BY <1>0, <2>1, TaskNames DEF AfterFlush
  <2>3. Emptied'
    BY <1>0, <2>1 DEF OnceInv, Emptied, AfterFlush
  <2> QED
    BY <2>1, <2>2, <2>3, NothingMoves
<1>4. CASE InsertBatch(t)
  <2>1. /\ pc[t] = "inserting" /\ pc' = [pc EXCEPT ![t] = AfterFlush(t)]
        /\ batch' = [batch EXCEPT ![t] = <<>>] /\ table' = Insert(batch[t])
        /\ UNCHANGED <<pending, failed, retrier, hand, dlq, dropped>>
    BY <1>4 DEF InsertBatch, retryVars
  <2>2. /\ AfterFlush(t) \in TaskPC \ {"inserting", "requeueing"}
        /\ t \in Events => pc[t] # "idle" /\ pc'[t] # "idle"
    BY <1>0, <2>1 DEF AfterFlush, TaskPC
  <2> QED
    BY <2>1, <2>2, FlushMoves
<1>5. CASE InsertBatchFails(t)
  <2> DEFINE S == ToSet(batch[t])
  <2>1. /\ pc[t] = "inserting" /\ pc' = [pc EXCEPT ![t] = "requeueing"]
        /\ table' \in {table, Insert(batch[t])}
        /\ UNCHANGED <<pending, batch, failed, retrier, hand, dlq, dropped>>
    BY <1>5 DEF InsertBatchFails, retryVars
  <2>2. ToSet(Insert(batch[t])) = ToSet(table) \cup S /\ IsInjective(Insert(batch[t]))
    BY <1>0, <1>1, InsertFacts DEF OnceInv, RecordedOnce, BatchesOnce, TypeOK
  <2>3. S \subseteq InBatch
    BY DEF InBatch
  <2> HIDE DEF S
  <2>4. InBatch' = InBatch /\ BatchesOnce' /\ RecordedOnce'
    BY <1>1, <2>1, <2>2 DEF InBatch, BatchesOnce, OnceInv, RecordedOnce
  <2>5. Held' = Held /\ S \subseteq Held
    BY <2>1, <2>3, <2>4 DEF Held
  <2>6. Known' = Known
    BY <2>1, <2>2, <2>5 DEF Known
  <2>7. Emptied'
    BY <1>0, <2>1 DEF OnceInv, Emptied
  <2>8. \A e \in Events : (pc'[e] # "idle") <=> (pc[e] # "idle")
    BY <1>0, <2>1, TaskNames
  <2>9. OnceInv'
    BY <1>1, <2>1, <2>4, <2>6, <2>7, <2>8, OnceKept
  <2>10. LedgerStep
    BY <2>1, <2>2, <2>5, LedgerCommits, LedgerQuiet
  <2> QED
    BY <2>9, <2>10
<1>6. CASE QueueFailed(t)
  <2> DEFINE back == [n \in 1..Len(batch[t]) |->
                        [ev |-> batch[t][n], tries |-> 0, due |-> FALSE]]
  <2>1. /\ pc[t] = "requeueing" /\ pc' = [pc EXCEPT ![t] = AfterFlush(t)]
        /\ batch' = [batch EXCEPT ![t] = <<>>] /\ failed' = failed \o back
        /\ UNCHANGED <<pending, retrier, hand, dlq, table, dropped>>
    BY <1>6 DEF QueueFailed, retryVars, dbVars
  <2>2. /\ AfterFlush(t) \in TaskPC \ {"inserting", "requeueing"}
        /\ t \in Events => pc[t] # "idle" /\ pc'[t] # "idle"
    BY <1>0, <2>1 DEF AfterFlush, TaskPC
  <2>3. back \in Seq(Entry) /\ DOMAIN back = DOMAIN batch[t]
        /\ \A n \in DOMAIN back : back[n].ev = batch[t][n]
    BY <1>0, WriterAssumption DEF Entry
  <2> HIDE DEF back
  <2>4. EventsOf(back) = ToSet(batch[t]) /\ Distinct(back)
    BY <1>1, <2>3, EntryEvents DEF ToSet, Distinct, BatchesOnce, IsInjective
  <2>5. EventsOf(failed) \cap EventsOf(back) = {}
    BY <1>1, <2>4 DEF Apart, InBatch
  <2>6. EventsOf(failed') = EventsOf(failed) \cup ToSet(batch[t]) /\ Distinct(failed')
    BY <1>1, <2>1, <2>3, <2>4, <2>5, ConcatEntries DEF TypeOK
  <2> QED
    BY <2>1, <2>2, <2>6, FlushMoves
<1> QED
  BY <1>2, <1>3, <1>4, <1>5, <1>6 DEF FlushStep

\* A task is aborted, or the flush task.
LEMMA DropOnce ==
  ASSUME TypeOK, OnceInv, NEW t \in Tasks, DropFlush(t), t \in Events => pc[t] # "idle",
         UNCHANGED <<pending, failed, retrier, hand, dlq>>
  PROVE  OnceInv' /\ LedgerStep
<1>1. /\ pc' = [pc EXCEPT ![t] = "done"] /\ batch' = [batch EXCEPT ![t] = <<>>]
      /\ table' \in {table, Insert(batch[t])} /\ dropped' = dropped \cup ToSet(batch[t])
  BY DEF DropFlush
<1>2. pc'[t] = "done" /\ "done" \in TaskPC \ {"inserting", "requeueing"}
  BY <1>1 DEF TypeOK, TaskPC
<1> QED
  BY <1>1, <1>2, FlushMoves

\* A step of the retry scheduler with one entry x in hand: x is recorded, goes
\* back to the queue, or into the dead letter queue.
LEMMA RetryMoves ==
  ASSUME TypeOK, OnceInv, retrier = "retrying", hand # <<>>, NEW e, e = Head(hand).ev,
         hand' = Tail(hand), table' \in {table, Insert(<<e>>)},
         \/ table' = Insert(<<e>>) /\ failed' = failed /\ dlq' = dlq
         \/ \E y \in Entry : y.ev = e /\ failed' = Append(failed, y) /\ dlq' = dlq
         \/ failed' = failed /\ dlq' = dlq \cup {e},
         UNCHANGED <<pending, batch, pc, retrier, dropped>>
  PROVE  OnceInv' /\ LedgerStep
<1>1. /\ Apart(ToSet(pending), InBatch, EventsOf(failed), EventsOf(hand), dlq)
      /\ BatchesOnce /\ IsInjective(pending) /\ Distinct(failed) /\ Distinct(hand)
  BY HeldOnceParts DEF OnceInv
<1>2. /\ Head(hand) \in Entry /\ Tail(hand) \in Seq(Entry)
      /\ EventsOf(hand) = EventsOf(Tail(hand)) \cup {e}
      /\ e \notin EventsOf(Tail(hand)) /\ Distinct(Tail(hand))
  BY <1>1, TailEntries DEF TypeOK
<1>3. e \in Events /\ <<e>> \in Seq(Events) /\ ToSet(<<e>>) = {e} /\ IsInjective(<<e>>)
  <2>1. e \in Events
    BY <1>2 DEF Entry
  <2> QED
    BY <2>1 DEF ToSet, IsInjective
<1>4. ToSet(Insert(<<e>>)) = ToSet(table) \cup {e} /\ IsInjective(Insert(<<e>>))
  BY <1>3, InsertFacts DEF OnceInv, RecordedOnce, TypeOK
<1>5. RecordedOnce' /\ ToSet(table') \in {ToSet(table), ToSet(table) \cup {e}}
  BY <1>4 DEF OnceInv, RecordedOnce
<1>6. \/ /\ ToSet(table') = ToSet(table) \cup {e} /\ EventsOf(failed') = EventsOf(failed)
         /\ dlq' = dlq
      \/ EventsOf(failed') = EventsOf(failed) \cup {e} /\ dlq' = dlq
      \/ EventsOf(failed') = EventsOf(failed) /\ dlq' = dlq \cup {e}
  <2>1. ASSUME NEW y \in Entry, y.ev = e, failed' = Append(failed, y)
        PROVE  EventsOf(failed') = EventsOf(failed) \cup {e}
    BY <2>1, AppendEntry DEF TypeOK
  <2> QED
    BY <1>4, <2>1
<1>7. Distinct(failed')
  <2>1. e \notin EventsOf(failed)
    BY <1>1, <1>2 DEF Apart
  <2>2. ASSUME NEW y \in Entry, y.ev = e, failed' = Append(failed, y)
        PROVE  Distinct(failed')
    BY <1>1, <2>1, <2>2, AppendEntry DEF TypeOK
  <2> QED
    BY <1>1, <2>2
<1>8. InBatch' = InBatch /\ BatchesOnce'
  BY <1>1 DEF InBatch, BatchesOnce
<1>9. EventsOf(hand') = EventsOf(hand) \ {e} /\ e \in EventsOf(hand)
  BY <1>2
<1>10. Apart(ToSet(pending'), InBatch', EventsOf(failed'), EventsOf(hand'), dlq')
  BY <1>1, <1>6, <1>8, <1>9 DEF Apart
<1>11. Known' = Known /\ e \in Held
  BY <1>5, <1>6, <1>8, <1>9 DEF Known, Held
<1>12. Emptied'
  BY DEF OnceInv, Emptied
<1>13. OnceInv'
  BY <1>1, <1>2, <1>5, <1>7, <1>8, <1>10, <1>11, <1>12, OnceKept
<1>14. LedgerStep
  <2>1. CASE /\ ToSet(table') = ToSet(table) \cup {e} /\ EventsOf(failed') = EventsOf(failed)
             /\ dlq' = dlq
    <3>1. Held' = Held \ {e}
      BY <1>1, <1>8, <1>9, <2>1 DEF Held, Apart
    <3> QED
      BY <1>11, <2>1, <3>1, LedgerCommits
  <2>2. CASE EventsOf(failed') = EventsOf(failed) \cup {e} /\ dlq' = dlq
    <3>1. Held' = Held
      BY <1>8, <1>9, <2>2 DEF Held
    <3>2. CASE ToSet(table') = ToSet(table)
      BY <2>2, <3>1, <3>2, LedgerQuiet
    <3>3. CASE ToSet(table') = ToSet(table) \cup {e}
      <4>1. {e} \subseteq Held
        BY <1>11
      <4> QED
        BY <2>2, <3>1, <3>3, <4>1, LedgerCommits
    <3> QED
      BY <1>5, <3>2, <3>3
  <2>3. CASE EventsOf(failed') = EventsOf(failed) /\ dlq' = dlq \cup {e}
    <3>1. Held' = Held \ {e}
      BY <1>1, <1>8, <1>9, <2>3 DEF Held, Apart
    <3> QED
      BY <1>5, <1>11, <2>3, <3>1, LedgerBuries
  <2> QED
    BY <1>6, <2>1, <2>2, <2>3
<1> QED
  BY <1>13, <1>14

\* The entries go from the queue into the hand, or back.
LEMMA QueueAndHand ==
  ASSUME OnceInv, EventsOf(failed') \cup EventsOf(hand') = EventsOf(failed) \cup EventsOf(hand),
         EventsOf(failed') \cap EventsOf(hand') = {}, Distinct(failed'), Distinct(hand'),
         Emptied', UNCHANGED <<pending, batch, pc, dlq, table, dropped>>
  PROVE  OnceInv' /\ LedgerStep
<1>1. /\ Apart(ToSet(pending), InBatch, EventsOf(failed), EventsOf(hand), dlq)
      /\ BatchesOnce /\ IsInjective(pending)
  BY HeldOnceParts DEF OnceInv
<1>2. InBatch' = InBatch /\ BatchesOnce' /\ RecordedOnce'
  BY <1>1 DEF InBatch, BatchesOnce, OnceInv, RecordedOnce
<1>3. Held' = Held /\ Known' = Known
  BY <1>2 DEF Held, Known
<1>4. Apart(ToSet(pending'), InBatch', EventsOf(failed'), EventsOf(hand'), dlq')
  BY <1>1, <1>2 DEF Apart
<1> QED
  BY <1>1, <1>2, <1>3, <1>4, OnceKept, LedgerQuiet

\* retry_failed_transitions
LEMMA RetryOnce ==
  ASSUME TypeOK, OnceInv, RetryStep
  PROVE  OnceInv' /\ LedgerStep
<1>0. /\ Apart(ToSet(pending), InBatch, EventsOf(failed), EventsOf(hand), dlq)
      /\ Distinct(failed) /\ Distinct(hand) /\ failed \in Seq(Entry) /\ hand \in Seq(Entry)
  BY HeldOnceParts DEF OnceInv, TypeOK
<1>1. CASE TakeDue
  <2>1. /\ retrier \in {"idle", "taking"} /\ retrier' = "looking"
        /\ hand' = Reverse(Kept(failed, Due)) /\ failed' = Kept(failed, NotDue)
        /\ UNCHANGED <<pending, batch, pc, dlq, table, dropped>>
    BY <1>1 DEF TakeDue, flushVars, dbVars
  <2>2. EventsOf(hand) = {}
    BY <2>1, NoEntries DEF OnceInv, Emptied
  <2>3. Kept(failed, Due) \in Seq(Entry) /\ Distinct(Kept(failed, Due)) /\ Distinct(failed')
    BY <1>0, <2>1, KeptSeq, KeptEntries
  <2>4. /\ EventsOf(Kept(failed, Due)) \cup EventsOf(failed') = EventsOf(failed)
        /\ EventsOf(Kept(failed, Due)) \cap EventsOf(failed') = {}
    BY <1>0, <2>1, SplitEntries DEF NotDue
  <2>5. EventsOf(hand') = EventsOf(Kept(failed, Due)) /\ Distinct(hand')
    BY <2>1, <2>3, ReverseEntries
  <2>6. Emptied'
    BY <2>1 DEF OnceInv, Emptied
  <2> QED
    BY <2>1, <2>2, <2>3, <2>4, <2>5, <2>6, QueueAndHand
<1>2. CASE LookupFails
  <2>1. /\ failed' = failed \o hand /\ hand' = <<>>
        /\ UNCHANGED <<pending, batch, pc, dlq, table, dropped>>
    BY <1>2 DEF LookupFails, flushVars, dbVars
  <2>2. EventsOf(failed) \cap EventsOf(hand) = {}
    BY <1>0 DEF Apart
  <2>3. EventsOf(failed') = EventsOf(failed) \cup EventsOf(hand) /\ Distinct(failed')
    BY <1>0, <2>1, <2>2, ConcatEntries
  <2>4. EventsOf(hand') = {} /\ Distinct(hand')
    BY <2>1, NoEntries
  <2>5. Emptied'
    BY <2>1 DEF OnceInv, Emptied
  <2> QED
    BY <2>1, <2>3, <2>4, <2>5, QueueAndHand
<1>3. CASE RetryEvent
  BY <1>3, RetryMoves DEF RetryEvent, flushVars
<1>4. CASE RetryEventFails
  <2> DEFINE x == Head(hand)
             y == [x EXCEPT !.tries = @ + 1, !.due = FALSE]
  <2>1. /\ retrier = "retrying" /\ hand # <<>> /\ hand' = Tail(hand)
        /\ table' \in {table, Insert(<<x.ev>>)}
        /\ UNCHANGED <<pending, batch, pc, retrier, dropped>>
    BY <1>4 DEF RetryEventFails, flushVars
  <2>2. \/ dlq' = dlq \cup {x.ev} /\ UNCHANGED failed
        \/ ~ (x.tries + 1 >= MaxRetries) /\ failed' = Append(failed, y) /\ UNCHANGED dlq
    BY <1>4 DEF RetryEventFails
  <2>3. x \in Entry
    BY <1>0, <2>1, TailEntries
  <2>4. ~ (x.tries + 1 >= MaxRetries) => y \in Entry /\ y.ev = x.ev
    BY <2>3, RetriedEntry
  <2> HIDE DEF x, y
  <2>5. \/ failed' = failed /\ dlq' = dlq \cup {x.ev}
        \/ \E z \in Entry : z.ev = x.ev /\ failed' = Append(failed, z) /\ dlq' = dlq
    BY <2>2, <2>4, Zenon
  <2> QED
    BY <2>1, <2>5, RetryMoves DEF x
<1>5. CASE BuryEvent
  BY <1>5, RetryMoves DEF BuryEvent, flushVars, dbVars
<1>6. CASE LookupOrders \/ RetryEnds \/ NothingToTake
  <2>1. /\ UNCHANGED <<pending, batch, pc, failed, hand, dlq, table, dropped>>
        /\ retrier' \notin {"looking", "retrying"} => hand = <<>>
    BY <1>6 DEF LookupOrders, RetryEnds, NothingToTake, flushVars, dbVars, OnceInv, Emptied
  <2>2. Emptied'
    BY <2>1 DEF OnceInv, Emptied
  <2> QED
    BY <2>1, <2>2, NothingMoves
<1> QED
  BY <1>1, <1>2, <1>3, <1>4, <1>5, <1>6 DEF RetryStep

\* shutdown
LEMMA CloserOnce ==
  ASSUME TypeOK, FlushInv, OnceInv, CloserStep
  PROVE  OnceInv' /\ LedgerStep
<1>1. CASE FlusherEnded \/ FinalFlushEnded \/ RetriesAwaited \/ RetriesNotAwaited \/ RetrierEnded
  <2>1. /\ UNCHANGED <<pending, batch, failed, retrier, hand, dlq, table, dropped>>
        /\ pc' = pc \/ (closing = "await_flusher" /\ pc' = [pc EXCEPT ![Closer] = "draining"])
    BY <1>1 DEF FlusherEnded, FinalFlushEnded, RetriesAwaited, RetriesNotAwaited, RetrierEnded,
                flushVars, retryVars, dbVars
  <2>2. closing = "await_flusher" => pc[Closer] = "idle" /\ Closer \in Tasks /\ Closer \notin Events
    BY TaskNames, WriterAssumption DEF FlushInv
  <2>3. \A t \in Tasks : pc'[t] = pc[t] \/ (t = Closer /\ pc[t] = "idle")
    BY <2>1, <2>2 DEF TypeOK
  <2>4. Emptied'
    BY <2>1, <2>3 DEF OnceInv, Emptied
  <2>5. \A e \in Events : (pc'[e] # "idle") <=> (pc[e] # "idle")
    BY <2>3, TaskNames, WriterAssumption
  <2> QED
    BY <2>1, <2>4, <2>5, NothingMoves
<1>2. CASE FlusherAborted
  <2>1. DropFlush(Flusher) /\ UNCHANGED <<pending, failed, retrier, hand, dlq>>
    BY <1>2 DEF FlusherAborted, retryVars
  <2> QED
    BY <2>1, TaskNames, WriterAssumption, DropOnce
<1>3. CASE RetrierAborted
  <2> DEFINE S == EventsOf(hand)
             e == Head(hand).ev
             C == ToSet(table') \cap S
  <2>1. /\ Apart(ToSet(pending), InBatch, EventsOf(failed), S, dlq)
        /\ BatchesOnce /\ IsInjective(pending) /\ Distinct(failed) /\ Distinct(hand)
    BY HeldOnceParts DEF OnceInv
  <2>2. /\ retrier' = "stopped" /\ hand' = <<>> /\ dropped' = dropped \cup S
        /\ table' = table \/ (hand # <<>> /\ table' = Insert(<<e>>))
        /\ UNCHANGED <<pending, batch, pc, failed, dlq>>
    BY <1>3 DEF RetrierAborted, flushVars, EventsOf
  <2>3. ToSet(table') = ToSet(table) \cup C /\ IsInjective(table')
    <3>1. IsInjective(table)
      BY DEF OnceInv, RecordedOnce
    <3>2. ASSUME hand # <<>>, table' = Insert(<<e>>)
          PROVE  ToSet(table') = ToSet(table) \cup {e} /\ {e} \subseteq S /\ IsInjective(table')
      <4>1. Head(hand) \in Entry /\ e \in S
        BY <2>1, <3>2, TailEntries DEF TypeOK
      <4>2. <<e>> \in Seq(Events) /\ ToSet(<<e>>) = {e} /\ IsInjective(<<e>>)
        <5>1. e \in Events
          BY <4>1 DEF Entry
        <5> QED
          BY <5>1 DEF ToSet, IsInjective
      <4> QED
        BY <3>1, <3>2, <4>1, <4>2, InsertFacts DEF TypeOK
    <3> HIDE DEF S, e
    <3>3. CASE table' = table
      BY <3>1, <3>3
    <3>4. CASE hand # <<>> /\ table' = Insert(<<e>>)
      BY <3>2, <3>4
    <3> QED
      BY <2>2, <3>3, <3>4
  <2>4. EventsOf(hand') = {} /\ Distinct(hand')
    BY <2>2, NoEntries
  <2>5. C \subseteq S
    OBVIOUS
  <2> HIDE DEF S, C
  <2>6. InBatch' = InBatch /\ BatchesOnce' /\ RecordedOnce'
    BY <2>1, <2>2, <2>3 DEF InBatch, BatchesOnce, RecordedOnce
  <2>7. S \subseteq Held /\ Held' = Held \ S
    BY <2>1, <2>2, <2>4, <2>6 DEF Held, Apart, S
  <2>8. Known' = Known
    BY <2>2, <2>3, <2>5, <2>7 DEF Known
  <2>9. Apart(ToSet(pending'), InBatch', EventsOf(failed'), EventsOf(hand'), dlq')
    BY <2>1, <2>2, <2>4, <2>6 DEF Apart
  <2>10. Emptied'
    BY <2>2 DEF OnceInv, Emptied
  <2>11. OnceInv'
    BY <2>1, <2>2, <2>4, <2>6, <2>8, <2>9, <2>10, OnceKept
  <2>12. LedgerStep
    BY <2>2, <2>3, <2>5, <2>7, LedgerLoses
  <2> QED
    BY <2>11, <2>12
<1> QED
  BY <1>1, <1>2, <1>3 DEF CloserStep

\* An entry that falls due stays the entry of the same event.
LEMMA BackoffOnce ==
  ASSUME TypeOK, OnceInv, NEW n \in DOMAIN failed, BackoffElapses(n)
  PROVE  OnceInv' /\ LedgerStep
<1>1. /\ failed' = [failed EXCEPT ![n].due = TRUE]
      /\ UNCHANGED <<pending, batch, pc, retrier, hand, dlq, table, dropped>>
  BY DEF BackoffElapses, flushVars, retryVars, dbVars
<1>2. /\ failed' \in Seq(Entry) /\ DOMAIN failed' = DOMAIN failed
      /\ \A m \in DOMAIN failed : failed'[m].ev = failed[m].ev
  BY <1>1, DueEntry DEF TypeOK
<1>3. EventsOf(failed') = EventsOf(failed) /\ (Distinct(failed) => Distinct(failed'))
  BY <1>2 DEF EventsOf, ToSet, Distinct
<1>4. /\ Apart(ToSet(pending), InBatch, EventsOf(failed), EventsOf(hand), dlq)
      /\ Distinct(failed) /\ Distinct(hand)
  BY HeldOnceParts DEF OnceInv
<1>5. EventsOf(hand') = EventsOf(hand) /\ Distinct(hand') /\ Emptied'
  BY <1>1, <1>4 DEF OnceInv, Emptied
<1> QED
  BY <1>1, <1>3, <1>4, <1>5, QueueAndHand DEF Apart

LEMMA OnceInit == Init => OnceInv /\ Ledger!Init
<1> SUFFICES ASSUME Init PROVE OnceInv /\ Ledger!Init
  OBVIOUS
<1>1. /\ pending = <<>> /\ failed = <<>> /\ hand = <<>> /\ table = <<>> /\ dlq = {}
      /\ dropped = {} /\ \A t \in Tasks : batch[t] = <<>> /\ pc[t] = "idle"
  BY DEF Init
<1>2. ToSet(<<>>) = {} /\ IsInjective(<<>>) /\ EventsOf(<<>>) = {} /\ Distinct(<<>>)
  BY EmptyElements, NoEntries
<1>3. InBatch = {} /\ BatchesOnce
  BY <1>1, <1>2 DEF InBatch, BatchesOnce
<1>4. Held = {} /\ Known = {}
  BY <1>1, <1>2, <1>3 DEF Held, Known
<1>5. HeldOnce
  BY <1>1, <1>2, <1>3, HeldOnceParts DEF Apart
<1>6. Accounted
  BY <1>1, <1>4, TaskNames DEF Accounted, Queued
<1>7. Ledger!Init
  BY <1>1, <1>2, <1>4 DEF Ledger!Init
<1> QED
  BY <1>1, <1>2, <1>5, <1>6, <1>7 DEF OnceInv, Emptied, RecordedOnce

LEMMA OnceNext ==
  ASSUME TypeOK, FlushInv, OnceInv, [Next]_vars
  PROVE  OnceInv' /\ LedgerStep
<1>1. ASSUME NEW e \in Events, QueueEvent(e) \/ AbortCaller(e)
      PROVE  OnceInv' /\ LedgerStep
  <2>1. CASE AbortCaller(e)
    <3>1. DropFlush(e) /\ pc[e] # "idle" /\ UNCHANGED <<pending, failed, retrier, hand, dlq>>
      BY <2>1 DEF AbortCaller, retryVars
    <3> QED
      BY <3>1, TaskNames, DropOnce
  <2> QED
    BY <1>1, <2>1, QueueOnce
<1>2. CASE \/ \E o \in OrderIds : WriteOrder(o)
           \/ ClosePool \/ FlusherStops \/ RetrierStops \/ Signal \/ ShutDown \/ UNCHANGED vars
  <2>1. /\ UNCHANGED <<pending, batch, failed, hand, dlq, table, dropped>>
        /\ pc' = pc \/ (pc[Flusher] = "idle" /\ pc' = [pc EXCEPT ![Flusher] = "draining"])
        /\ retrier' = retrier \/ (retrier = "idle" /\ retrier' = "taking")
    BY <1>2 DEF WriteOrder, ClosePool, FlusherStops, RetrierStops, Signal, ShutDown, vars,
                flushVars, retryVars, dbVars
  <2>2. \A t \in Tasks : pc'[t] = pc[t] \/ (t = Flusher /\ pc[t] = "idle")
    BY <2>1 DEF TypeOK
  <2>3. Emptied'
    BY <2>1, <2>2 DEF OnceInv, Emptied
  <2>4. \A e \in Events : (pc'[e] # "idle") <=> (pc[e] # "idle")
    BY <2>2, TaskNames, WriterAssumption
  <2> QED
    BY <2>1, <2>3, <2>4, NothingMoves
<1> QED
  BY <1>1, <1>2, FlushOnce, BackoffOnce, RetryOnce, CloserOnce DEF Next

LEMMA WriterInvariant == Spec => [](TypeOK /\ FlushInv /\ OnceInv)
<1>1. Init => OnceInv
  BY OnceInit
<1>2. TypeOK /\ FlushInv /\ OnceInv /\ [Next]_vars => OnceInv'
  BY OnceNext
<1>3. Init => FlushInv
  BY FlushInvInit
<1>4. FlushInv /\ [Next]_vars => FlushInv'
  BY FlushInvStep
<1> QED
  BY <1>1, <1>2, <1>3, <1>4, WriterTypeOK, PTL DEF Spec

\* DatabaseWriter forgets no event it was given.
THEOREM WriterNeverForgets == Spec => []NeverForgotten
<1>1. OnceInv => NeverForgotten
  BY DEF OnceInv, Accounted, Known, NeverForgotten
<1> QED
  BY <1>1, WriterInvariant, PTL

\* DatabaseWriter has every event in one place only: the pending batch, one
\* task's batch, the retry queue, the scheduler's hand or the dead letter queue.
THEOREM WriterHoldsOnce == Spec => []HeldOnce
<1>1. OnceInv => HeldOnce
  BY DEF OnceInv
<1> QED
  BY <1>1, WriterInvariant, PTL

\* order_events has at most one row for an event, however often it is inserted.
THEOREM WriterRecordsOnce == Spec => []RecordedOnce
<1>1. OnceInv => RecordedOnce
  BY DEF OnceInv
<1> QED
  BY <1>1, WriterInvariant, PTL

\* DatabaseWriter implements EventLedger: every step of its tasks accepts one
\* event, records some it holds, buries or loses what it holds, or does none of
\* these.
THEOREM WriterImplementsLedger == Spec => ImplementsLedger
<1>1. Init => Ledger!Init
  BY OnceInit
<1>2. TypeOK /\ FlushInv /\ OnceInv /\ [Next]_vars => [Ledger!Next]_(Ledger!vars)
  BY OnceNext DEF LedgerStep
<1> QED
  BY <1>1, <1>2, WriterInvariant, PTL DEF Spec, ImplementsLedger, Ledger!Spec

=============================================================================
