---------------------------- MODULE BatchWriter ----------------------------
(***************************************************************************)
(* DatabaseWriter: the tasks that call queue_transition (and flush inline  *)
(* when a batch is full), the background flush task, the retry scheduler,  *)
(* the dead letter queue, graceful shutdown, and the order_events table    *)
(* they all write to.  An event is one StateTransition; it belongs to an   *)
(* order and carries either the id the database gave the order or the      *)
(* local UUID, with which its insert violates the foreign key.             *)
(***************************************************************************)
EXTENDS Sequences, SequencesExt, Naturals, SeqFunctions

CONSTANTS
  Events,       \* transitions; each has its own event_id and queueing task
  OrderIds,     \* client_order_ids
  OrderOf,      \* the order each event belongs to
  BatchSize,    \* transition_batch_size
  MaxRetries,   \* MAX_RETRIES
  Faults,       \* what the database may do: "error" (statement fails), "lost_reply"
                \* (it commits, the client sees an error), "lookup" (the lookup fails)
  Abortable,    \* events queued by leg tasks that may be aborted
  MayShutDown,  \* shutdown may be called
  MayExpire,    \* the waits of shutdown (2 s, 5 s, 2 s) may expire early
  MayClose      \* the pool may be closed by its owner

Flusher == "flusher"   \* the background flush task
Closer  == "closer"    \* the task that calls shutdown
Tasks   == Events \cup {Flusher, Closer}

ASSUME WriterAssumption ==
  /\ OrderOf \in [Events -> OrderIds]
  /\ BatchSize \in Nat \ {0}
  /\ MaxRetries \in Nat \ {0}
  /\ Faults \subseteq {"error", "lost_reply", "lookup"}
  /\ Abortable \subseteq Events
  /\ {MayShutDown, MayExpire, MayClose} \subseteq BOOLEAN
  /\ Flusher \notin Events /\ Closer \notin Events

VARIABLES
  pending,   \* pending_transitions
  good,      \* the order_id queued with the event is the database's
  pc,        \* where each task is in flush_transitions
  batch,     \* the batch each task has drained
  final,     \* the flush task has left its loop
  failed,    \* failed_transitions
  retrier,   \* where the retry scheduler is
  stopping,  \* the retry scheduler has left its loop
  hand,      \* the entries retry_failed_transitions has taken out
  found,     \* orders its lookup found
  dlq,       \* dead_letter_queue
  table,     \* rows of order_events
  rows,      \* rows of orders
  open,      \* the pool is open
  closing,   \* where shutdown is
  owed,      \* events already queued when shutdown was signalled
  dropped    \* events lost with an aborted task

flushVars == <<pending, good, pc, batch, final>>
retryVars == <<retrier, stopping, hand, found, dlq>>
dbVars    == <<table, rows, open>>
closeVars == <<closing, owed>>
vars == <<flushVars, failed, retryVars, dbVars, closeVars, dropped>>

\* A FailedTransition; due stands for next_retry <= now.
Entry == [ev : Events, tries : 0 .. MaxRetries - 1, due : BOOLEAN]

TypeOK ==
  /\ pending \in Seq(Events)
  /\ good \in [Events -> BOOLEAN]
  /\ pc \in [Tasks -> {"idle", "draining", "inserting", "requeueing", "done"}]
  /\ batch \in [Tasks -> Seq(Events)]
  /\ final \in BOOLEAN
  /\ failed \in Seq(Entry)
  /\ retrier \in {"idle", "taking", "looking", "retrying", "stopped"}
  /\ stopping \in BOOLEAN
  /\ hand \in Seq(Entry)
  /\ found \subseteq OrderIds
  /\ dlq \subseteq Events
  /\ table \in Seq(Events)
  /\ rows \subseteq OrderIds
  /\ open \in BOOLEAN
  /\ closing \in {"off", "await_flusher", "flush", "await_retries", "await_retrier", "done"}
  /\ owed \subseteq Events
  /\ dropped \subseteq Events

Init ==
  /\ pending = <<>>
  /\ good = [e \in Events |-> FALSE]
  /\ pc = [t \in Tasks |-> "idle"]
  /\ batch = [t \in Tasks |-> <<>>]
  /\ final = FALSE
  /\ failed = <<>>
  /\ retrier = "idle"
  /\ stopping = FALSE
  /\ hand = <<>>
  /\ found = {}
  /\ dlq = {}
  /\ table = <<>>
  /\ rows = {}
  /\ open = TRUE
  /\ closing = "off"
  /\ owed = {}
  /\ dropped = {}

-----------------------------------------------------------------------------
(* The database.                                                           *)

\* Mutant: no ON CONFLICT clause.
InsertAgain(s) == table \o s

\* ON CONFLICT (event_id) DO NOTHING, which needs a unique index on event_id: the
\* database has one, though testdbschema.txt does not list it (external).
Insert(s) == table \o Kept(s, Events \ ToSet(table))

\* write_order commits an order's row.
WriteOrder(o) ==
  /\ open
  /\ o \notin rows
  /\ rows' = rows \cup {o}
  /\ UNCHANGED <<flushVars, failed, retryVars, table, open, closeVars, dropped>>

ClosePool ==
  /\ MayClose
  /\ open
  /\ open' = FALSE
  /\ UNCHANGED <<flushVars, failed, retryVars, table, rows, closeVars, dropped>>

-----------------------------------------------------------------------------
(* queue_transition and flush_transitions.                                 *)

\* The event joins the pending batch, with the database's order id only if the
\* order's row exists; a full batch is flushed by the caller itself.
QueueEvent(e) ==
  /\ pc[e] = "idle"
  /\ \E g \in BOOLEAN :
       /\ g => OrderOf[e] \in rows
       /\ good' = [good EXCEPT ![e] = g]
  /\ pending' = Append(pending, e)
  /\ pc' = [pc EXCEPT ![e] = IF Len(pending') >= BatchSize THEN "draining" ELSE "done"]
  /\ UNCHANGED <<batch, final, failed, retryVars, dbVars, closeVars, dropped>>

\* Where a task goes when its flush is over.
AfterFlush(t) == IF t = Flusher /\ ~final THEN "idle" ELSE "done"

\* At the start of flush_transitions; the flush task starts it on every tick.
AtFlush(t) == pc[t] = "draining" \/ (t = Flusher /\ pc[t] = "idle")

\* The pending batch is taken under the lock, which is then released.
Drain(t) ==
  /\ AtFlush(t)
  /\ open
  /\ pending # <<>>
  /\ batch' = [batch EXCEPT ![t] = pending]
  /\ pending' = <<>>
  /\ pc' = [pc EXCEPT ![t] = "inserting"]
  /\ UNCHANGED <<good, final, failed, retryVars, dbVars, closeVars, dropped>>

\* Nothing to flush, or the pool is closed.
SkipFlush(t) ==
  /\ AtFlush(t)
  /\ ~open \/ pending = <<>>
  /\ pc' = [pc EXCEPT ![t] = AfterFlush(t)]
  /\ UNCHANGED <<pending, good, batch, final, failed, retryVars, dbVars, closeVars, dropped>>

\* One statement inserts the whole batch: a single wrong order_id fails it.
CanCommit(t) == open /\ \A e \in ToSet(batch[t]) : good[e]

InsertBatch(t) ==
  /\ pc[t] = "inserting"
  /\ CanCommit(t)
  /\ table' = Insert(batch[t])
  /\ batch' = [batch EXCEPT ![t] = <<>>]
  /\ pc' = [pc EXCEPT ![t] = AfterFlush(t)]
  /\ UNCHANGED <<pending, good, final, failed, retryVars, rows, open, closeVars, dropped>>

\* The insert reports an error; the statement may have committed all the same.
InsertBatchFails(t) ==
  /\ pc[t] = "inserting"
  /\ \/ (~CanCommit(t) \/ "error" \in Faults) /\ UNCHANGED table
     \/ CanCommit(t) /\ "lost_reply" \in Faults /\ table' = Insert(batch[t])
  /\ pc' = [pc EXCEPT ![t] = "requeueing"]
  /\ UNCHANGED <<pending, good, batch, final, failed, retryVars, rows, open, closeVars,
                 dropped>>

\* retry_failed_transitions holds the lock of failed_transitions while it inserts.
FailedUnlocked == retrier # "retrying"

\* queue_failed_transitions: the whole batch is queued for retry.
QueueFailed(t) ==
  /\ pc[t] = "requeueing"
  /\ FailedUnlocked
  /\ failed' = failed \o [n \in 1 .. Len(batch[t]) |->
                            [ev |-> batch[t][n], tries |-> 0, due |-> FALSE]]
  /\ batch' = [batch EXCEPT ![t] = <<>>]
  /\ pc' = [pc EXCEPT ![t] = AfterFlush(t)]
  /\ UNCHANGED <<pending, good, final, retryVars, dbVars, closeVars, dropped>>

\* A task that is aborted in the middle of a flush: the batch it drained is gone,
\* unless the insert that was under way commits anyway.
DropFlush(t) ==
  /\ \/ UNCHANGED table
     \/ pc[t] = "inserting" /\ CanCommit(t) /\ table' = Insert(batch[t])
  /\ dropped' = dropped \cup ToSet(batch[t])
  /\ batch' = [batch EXCEPT ![t] = <<>>]
  /\ pc' = [pc EXCEPT ![t] = "done"]

AbortCaller(e) ==
  /\ e \in Abortable
  /\ pc[e] \notin {"idle", "done"}
  /\ DropFlush(e)
  /\ UNCHANGED <<pending, good, final, failed, retryVars, rows, open, closeVars>>

\* The flush task hears the signal between two ticks: one last flush.
FlusherStops ==
  /\ closing # "off"
  /\ ~final
  /\ pc[Flusher] = "idle"
  /\ final' = TRUE
  /\ pc' = [pc EXCEPT ![Flusher] = "draining"]
  /\ UNCHANGED <<pending, good, batch, failed, retryVars, dbVars, closeVars, dropped>>

-----------------------------------------------------------------------------
(* retry_failed_transitions, run by the retry scheduler.                   *)

\* An entry's backoff has elapsed.
BackoffElapses(n) ==
  /\ n \in DOMAIN failed
  /\ ~failed[n].due
  /\ failed' = [failed EXCEPT ![n].due = TRUE]
  /\ UNCHANGED <<flushVars, retryVars, dbVars, closeVars, dropped>>

Due    == {x \in Entry : x.due}
NotDue == Entry \ Due

AfterRetry == IF stopping THEN "stopped" ELSE "idle"

\* Mutant: the entries that are due are copied, not removed.
TakeDueCopies ==
  /\ retrier \in {"idle", "taking"}
  /\ open
  /\ \E n \in DOMAIN failed : failed[n].due
  /\ hand' = Reverse(Kept(failed, Due))
  /\ retrier' = "looking"
  /\ UNCHANGED <<flushVars, failed, stopping, found, dlq, dbVars, closeVars, dropped>>

\* The entries that are due leave the queue, the last one first.
TakeDue ==
  /\ retrier \in {"idle", "taking"}
  /\ open
  /\ \E n \in DOMAIN failed : failed[n].due
  /\ hand' = Reverse(Kept(failed, Due))
  /\ failed' = Kept(failed, NotDue)
  /\ retrier' = "looking"
  /\ UNCHANGED <<flushVars, stopping, found, dlq, dbVars, closeVars, dropped>>

\* The lookup maps the client_order_ids that have a row; the queue is locked again.
LookupOrders ==
  /\ retrier = "looking"
  /\ open
  /\ found' = {OrderOf[x.ev] : x \in ToSet(hand)} \cap rows
  /\ retrier' = "retrying"
  /\ UNCHANGED <<flushVars, failed, stopping, hand, dlq, dbVars, closeVars, dropped>>

\* Mutant: a failed lookup returns early with the entries still in hand.
LookupFailsForgets ==
  /\ retrier = "looking"
  /\ ~open \/ "lookup" \in Faults
  /\ hand' = <<>>
  /\ retrier' = AfterRetry
  /\ UNCHANGED <<flushVars, failed, stopping, found, dlq, dbVars, closeVars, dropped>>

\* The lookup fails: everything goes back as it was, due and with its old count.
LookupFails ==
  /\ retrier = "looking"
  /\ ~open \/ "lookup" \in Faults
  /\ failed' = failed \o hand
  /\ hand' = <<>>
  /\ retrier' = AfterRetry
  /\ UNCHANGED <<flushVars, stopping, found, dlq, dbVars, closeVars, dropped>>

\* insert_single_event succeeds for the next entry.
RetryEvent ==
  /\ retrier = "retrying"
  /\ hand # <<>>
  /\ OrderOf[Head(hand).ev] \in found
  /\ open
  /\ table' = Insert(<<Head(hand).ev>>)
  /\ hand' = Tail(hand)
  /\ UNCHANGED <<flushVars, failed, retrier, stopping, found, dlq, rows, open, closeVars,
                 dropped>>

\* Mutant: one retry too many.
RetryEventFailsLate ==
  LET x == Head(hand) IN
  /\ retrier = "retrying"
  /\ hand # <<>>
  /\ OrderOf[x.ev] \in found
  /\ \/ (~open \/ "error" \in Faults) /\ UNCHANGED table
     \/ open /\ "lost_reply" \in Faults /\ table' = Insert(<<x.ev>>)
  /\ IF x.tries + 1 > MaxRetries
     THEN dlq' = dlq \cup {x.ev} /\ UNCHANGED failed
     ELSE /\ failed' = Append(failed, [x EXCEPT !.tries = @ + 1, !.due = FALSE])
          /\ UNCHANGED dlq
  /\ hand' = Tail(hand)
  /\ UNCHANGED <<flushVars, retrier, stopping, found, rows, open, closeVars, dropped>>

\* Mutant: the retry is not counted.
RetryEventFailsUncounted ==
  LET x == Head(hand) IN
  /\ retrier = "retrying"
  /\ hand # <<>>
  /\ OrderOf[x.ev] \in found
  /\ \/ (~open \/ "error" \in Faults) /\ UNCHANGED table
     \/ open /\ "lost_reply" \in Faults /\ table' = Insert(<<x.ev>>)
  /\ IF x.tries + 1 >= MaxRetries
     THEN dlq' = dlq \cup {x.ev} /\ UNCHANGED failed
     ELSE /\ failed' = Append(failed, [x EXCEPT !.due = FALSE])
          /\ UNCHANGED dlq
  /\ hand' = Tail(hand)
  /\ UNCHANGED <<flushVars, retrier, stopping, found, rows, open, closeVars, dropped>>

\* insert_single_event fails: another retry later, or the dead letter queue.
RetryEventFails ==
  LET x == Head(hand) IN
  /\ retrier = "retrying"
  /\ hand # <<>>
  /\ OrderOf[x.ev] \in found
  /\ \/ (~open \/ "error" \in Faults) /\ UNCHANGED table
     \/ open /\ "lost_reply" \in Faults /\ table' = Insert(<<x.ev>>)
  /\ IF x.tries + 1 >= MaxRetries
     THEN dlq' = dlq \cup {x.ev} /\ UNCHANGED failed
     ELSE /\ failed' = Append(failed, [x EXCEPT !.tries = @ + 1, !.due = FALSE])
          /\ UNCHANGED dlq
  /\ hand' = Tail(hand)
  /\ UNCHANGED <<flushVars, retrier, stopping, found, rows, open, closeVars, dropped>>

\* Mutant: the event is declared dead and goes back to the queue as well.
BuryEventRequeues ==
  /\ retrier = "retrying"
  /\ hand # <<>>
  /\ OrderOf[Head(hand).ev] \notin found
  /\ dlq' = dlq \cup {Head(hand).ev}
  /\ failed' = Append(failed, Head(hand))
  /\ hand' = Tail(hand)
  /\ UNCHANGED <<flushVars, retrier, stopping, found, dbVars, closeVars, dropped>>

\* The order was not found: straight to the dead letter queue.
BuryEvent ==
  /\ retrier = "retrying"
  /\ hand # <<>>
  /\ OrderOf[Head(hand).ev] \notin found
  /\ dlq' = dlq \cup {Head(hand).ev}
  /\ hand' = Tail(hand)
  /\ UNCHANGED <<flushVars, failed, retrier, stopping, found, dbVars, closeVars, dropped>>

RetryEnds ==
  /\ retrier = "retrying"
  /\ hand = <<>>
  /\ retrier' = AfterRetry
  /\ UNCHANGED <<flushVars, failed, stopping, hand, found, dlq, dbVars, closeVars, dropped>>

\* The retry scheduler hears the signal: one last attempt at what is due now.
RetrierStops ==
  /\ closing # "off"
  /\ retrier = "idle"
  /\ stopping' = TRUE
  /\ retrier' = "taking"
  /\ UNCHANGED <<flushVars, failed, hand, found, dlq, dbVars, closeVars, dropped>>

NothingToTake ==
  /\ retrier = "taking"
  /\ ~open \/ \A n \in DOMAIN failed : ~failed[n].due
  /\ retrier' = "stopped"
  /\ UNCHANGED <<flushVars, failed, stopping, hand, found, dlq, dbVars, closeVars, dropped>>

-----------------------------------------------------------------------------
(* shutdown.                                                               *)

\* Step 1: both background tasks are signalled.
Signal ==
  /\ MayShutDown
  /\ closing = "off"
  /\ closing' = "await_flusher"
  /\ owed' = {e \in Events : pc[e] # "idle"}
  /\ UNCHANGED <<flushVars, failed, retryVars, dbVars, dropped>>

\* Mutant: shutdown trusts the flush task's last flush and skips its own.
FlusherEndedSkipsFlush ==
  /\ closing = "await_flusher"
  /\ pc[Flusher] = "done"
  /\ closing' = "await_retries"
  /\ UNCHANGED <<flushVars, failed, retryVars, dbVars, owed, dropped>>

\* Step 2: the flush task has ended, or is aborted after two seconds; step 3 begins.
FlusherEnded ==
  /\ closing = "await_flusher"
  /\ pc[Flusher] = "done"
  /\ closing' = "flush"
  /\ pc' = [pc EXCEPT ![Closer] = "draining"]
  /\ UNCHANGED <<pending, good, batch, final, failed, retryVars, dbVars, owed, dropped>>

FlusherAborted ==
  /\ MayExpire
  /\ closing = "await_flusher"
  /\ pc[Flusher] # "done"
  /\ DropFlush(Flusher)
  /\ UNCHANGED <<pending, good, final, failed, retryVars, rows, open, closeVars>>

\* Step 3 is over, step 4 begins.
FinalFlushEnded ==
  /\ closing = "flush"
  /\ pc[Closer] = "done"
  /\ closing' = "await_retries"
  /\ UNCHANGED <<flushVars, failed, retryVars, dbVars, owed, dropped>>

\* Step 4: wait_for_retries finds the queue empty.
RetriesAwaited ==
  /\ closing = "await_retries"
  /\ open
  /\ FailedUnlocked
  /\ failed = <<>>
  /\ closing' = "await_retrier"
  /\ UNCHANGED <<flushVars, failed, retryVars, dbVars, owed, dropped>>

\* Mutant: no timeout, only a closed pool ends the wait.
RetriesAwaitedForEver ==
  /\ closing = "await_retries"
  /\ FailedUnlocked
  /\ ~open
  /\ closing' = "await_retrier"
  /\ UNCHANGED <<flushVars, failed, retryVars, dbVars, owed, dropped>>

\* Step 4: the pool is closed or five seconds have passed, which they always do
\* when nobody is left to empty the queue; shutdown goes on.
RetriesNotAwaited ==
  /\ closing = "await_retries"
  /\ FailedUnlocked
  /\ ~open \/ (failed # <<>> /\ (MayExpire \/ retrier = "stopped"))
  /\ closing' = "await_retrier"
  /\ UNCHANGED <<flushVars, failed, retryVars, dbVars, owed, dropped>>

\* Step 5: the retry scheduler has ended, or is aborted after two seconds.
RetrierEnded ==
  /\ closing = "await_retrier"
  /\ retrier = "stopped"
  /\ closing' = "done"
  /\ UNCHANGED <<flushVars, failed, retryVars, dbVars, owed, dropped>>

RetrierAborted ==
  /\ MayExpire
  /\ closing = "await_retrier"
  /\ retrier # "stopped"
  /\ retrier' = "stopped"
  /\ stopping' = TRUE
  /\ \/ UNCHANGED table
     \/ /\ retrier = "retrying" /\ hand # <<>> /\ open
        /\ OrderOf[Head(hand).ev] \in found
        /\ table' = Insert(<<Head(hand).ev>>)
  /\ dropped' = dropped \cup {x.ev : x \in ToSet(hand)}
  /\ hand' = <<>>
  /\ closing' = "done"
  /\ UNCHANGED <<flushVars, failed, found, dlq, rows, open, owed>>

-----------------------------------------------------------------------------
(* The specification.                                                      *)

\* What is left in memory once shutdown has returned stays there.
ShutDown ==
  /\ closing = "done"
  /\ UNCHANGED vars

FlushStep(t) ==
  Drain(t) \/ SkipFlush(t) \/ InsertBatch(t) \/ InsertBatchFails(t) \/ QueueFailed(t)

RetryStep ==
  \/ TakeDue \/ LookupOrders \/ LookupFails \/ RetryEvent \/ RetryEventFails
  \/ BuryEvent \/ RetryEnds \/ NothingToTake

CloserStep ==
  \/ FlusherEnded \/ FlusherAborted \/ FinalFlushEnded \/ RetriesAwaited
  \/ RetriesNotAwaited \/ RetrierEnded \/ RetrierAborted

Next ==
  \/ \E o \in OrderIds : WriteOrder(o)
  \/ ClosePool
  \/ \E e \in Events : QueueEvent(e) \/ AbortCaller(e)
  \/ \E t \in Tasks : FlushStep(t)
  \/ FlusherStops
  \/ \E n \in DOMAIN failed : BackoffElapses(n)
  \/ RetryStep
  \/ RetrierStops
  \/ Signal
  \/ CloserStep
  \/ ShutDown

Spec == Init /\ [][Next]_vars

(***************************************************************************)
(* What the runtime and the timers owe: a task that can go on does, backoffs *)
(* and the waits of shutdown elapse, a lookup ends (it has a timeout), and  *)
(* select! does not overlook the signal for ever (it polls its branches in *)
(* random order).  The inserts have no timeout: an answer to one, with the *)
(* task that waits for it, is left out.                                    *)
(***************************************************************************)
Fairness ==
  /\ \A t \in Tasks : WF_vars(pc[t] # "inserting" /\ FlushStep(t))
  /\ WF_vars(\E n \in DOMAIN failed : BackoffElapses(n))
  /\ WF_vars(TakeDue \/ LookupOrders \/ LookupFails \/ BuryEvent \/ RetryEnds
             \/ NothingToTake)
  /\ SF_vars(FlusherStops)
  /\ SF_vars(RetrierStops)
  /\ WF_vars(CloserStep)

FairSpec == Spec /\ Fairness

-----------------------------------------------------------------------------
(* Properties.                                                             *)

Queued(e) == pc[e] # "idle"

\* The events a sequence of retry entries stands for.
EventsOf(s) == {x.ev : x \in ToSet(s)}

\* The events of all batches.
InBatch == UNION {ToSet(batch[t]) : t \in Tasks}

\* The events the writer answers for, wherever it has them.
Held == ToSet(pending) \cup InBatch \cup EventsOf(failed) \cup EventsOf(hand)

\* A queued event is always somewhere: waiting, in a batch or a retry, in the
\* dead letter queue, in the table, or lost with the task that was aborted.
NeverForgotten ==
  \A e \in Events : Queued(e) => e \in Held \cup dlq \cup ToSet(table) \cup dropped

\* The places where the writer keeps events.
Places == <<ToSet(pending), InBatch, EventsOf(failed), EventsOf(hand), dlq>>

\* The entries of s are for different events.
Distinct(s) == \A m, n \in DOMAIN s : s[m].ev = s[n].ev => m = n

\* No event is held twice, whatever fails and goes back: a retry never runs
\* beside a batch or another retry of the same event, or after its burial.
HeldOnce ==
  /\ LET at == Places IN \A j \in 1..5 : \A i \in 1..(j - 1) : at[i] \cap at[j] = {}
  /\ \A t, u \in Tasks : t # u => ToSet(batch[t]) \cap ToSet(batch[u]) = {}
  /\ IsInjective(pending) /\ \A t \in Tasks : IsInjective(batch[t])
  /\ Distinct(failed) /\ Distinct(hand)

\* An event is recorded once, even when the reply to its first insert was lost
\* and it is inserted again.
RecordedOnce == IsInjective(table)

\* Shutdown leaves nothing it owed in the pending batch: the flush task's last
\* flush or shutdown's own takes it, the first one aborted or not.
FlushedAtShutdown ==
  (closing = "done" /\ open) => owed \cap ToSet(pending) = {}

(* Refinement.                                                             *)

Ledger == INSTANCE EventLedger WITH
  held <- Held, recorded <- ToSet(table), dead <- dlq, gone <- dropped

\* The writer implements EventLedger: no queue, batch or hand loses an event but
\* with its task, no event is taken up again once it was recorded, declared dead
\* or lost, and none reaches the table that the writer does not answer for.
ImplementsLedger == Ledger!Spec

(* Liveness.                                                               *)

\* Every insert of task t's batch is answered.
BatchAnswered(t) == []<>(pc[t] # "inserting")

\* The inserts of a retry, which holds failed_transitions' lock meanwhile, are.
RetriesAnswered == []<>(retrier # "retrying")

\* If the database answers inserts, and lookups that are tried again and again in
\* the end, with whatever errors, a queued event is recorded or declared dead,
\* unless a shutdown or a closed pool cuts its retries short.
EventSettles ==
  (\A t \in Tasks : BatchAnswered(t)) /\ RetriesAnswered /\ SF_vars(LookupOrders) =>
    \A e \in Events :
      Queued(e) ~> (e \in dlq \cup ToSet(table) \/ closing # "off" \/ ~open)

\* Shutdown returns, whatever is still queued, whether or not lookups and the
\* inserts of all other tasks are answered, if the two are for which it has no
\* timeout: that of its own flush, and that of a retry that holds the lock.
ShutdownEnds ==
  BatchAnswered(Closer) /\ RetriesAnswered => (closing # "off") ~> (closing = "done")

-----------------------------------------------------------------------------
(* What the code's own words say, and the code does not do.                *)

\* "4. Wait for retries to complete (consumers finish)": with a database that
\* never fails and no wait cut short, everything owed is settled by then.
ShutdownSettlesAll ==
  closing = "done" => owed \subseteq ToSet(table) \cup dlq \cup dropped

\* "This ensures any in-flight batches are written before waiting for retries": no
\* batch that was queued before the signal is lost with the aborted flush task.
InFlightIsWritten ==
  closing \in {"await_retries", "await_retrier", "done"} =>
    owed \cap dropped \subseteq ToSet(table)

\* "If wrong initially, retry mechanism will fix it": an event queued with the
\* local order_id is not given up on while its order's row is on its way.
RetryFixesOrderId == \A e \in dlq : OrderOf[e] \notin rows

=============================================================================
