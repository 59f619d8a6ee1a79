----------------------------- MODULE ShardGuard -----------------------------
(***************************************************************************)
(* The order cache as the runtime's worker threads see it.  active_orders  *)
(* is a DashMap: orders live in shards, each behind a lock whose waiters   *)
(* block their thread.  process_event keeps its RefMut, the lock of the    *)
(* order's shard, while it awaits queue_transition; a full batch makes     *)
(* that await a database statement, during which the task leaves its       *)
(* worker and keeps the lock.  update_order_id walks over all shards.      *)
(*                                                                         *)
(* A task is one call.  A dropped (aborted) call also needs a worker to    *)
(* let its lock go: it is a call that resumes only to end.                 *)
(***************************************************************************)
EXTENDS Integers, FiniteSets

CONSTANTS
  Workers,    \* threads of the runtime: one per core under #[tokio::main]
  Tasks,      \* calls into the state machine
  CallOf,     \* which one: "process_event", "get_order", "update_order_id", "restore_order"
  Shards,     \* number of shards
  ShardOf,    \* the shard of the order the call is about
  Nobody      \* an idle worker, a free lock

VARIABLES
  at,       \* where each call is
  running,  \* the call each worker runs, or blocks in
  lock,     \* the call that has the write lock of each shard
  next      \* the next shard of each update_order_id

vars == <<at, running, lock, next>>

At == {"runnable", "started", "awaiting", "resumable", "resumed", "done"}

TypeOK ==
  /\ at \in [Tasks -> At]
  /\ running \in [Workers -> Tasks \cup {Nobody}]
  /\ lock \in [1..Shards -> Tasks \cup {Nobody}]
  /\ next \in [Tasks -> 1..(Shards + 1)]

Init ==
  /\ at = [t \in Tasks |-> "runnable"]
  /\ running = [w \in Workers |-> Nobody]
  /\ lock = [s \in 1..Shards |-> Nobody]
  /\ next = [t \in Tasks |-> 1]

-----------------------------------------------------------------------------
(* The runtime.                                                            *)

Goto(t, place) == at' = [at EXCEPT ![t] = place]

\* The worker's call suspends or ends: the worker takes another.
Leave(w) == running' = [running EXCEPT ![w] = Nobody]

Poll(w, t) ==
  /\ running[w] = Nobody
  /\ at[t] \in {"runnable", "resumable"}
  /\ running' = [running EXCEPT ![w] = t]
  /\ Goto(t, IF at[t] = "runnable" THEN "started" ELSE "resumed")
  /\ UNCHANGED <<lock, next>>

\* The batch is written, or is not: queue_transition returns.
FlushEnds(t) ==
  /\ at[t] = "awaiting"
  /\ Goto(t, "resumable")
  /\ UNCHANGED <<running, lock, next>>

-----------------------------------------------------------------------------
(* The calls.  A call whose guard on lock is false blocks its worker.      *)

Runs(w, t, call) == running[w] = t /\ at[t] = "started" /\ CallOf[t] = call

\* get_order_mut, the transition, and a queue_transition that is ready at once.
ProcessEvent(w, t) ==
  /\ Runs(w, t, "process_event")
  /\ lock[ShardOf[t]] = Nobody
  /\ Goto(t, "done") /\ Leave(w)
  /\ UNCHANGED <<lock, next>>

\* The same with a full batch, whose flush is awaited with the lock held.
ProcessEventSuspends(w, t) ==
  /\ Runs(w, t, "process_event")
  /\ lock[ShardOf[t]] = Nobody
  /\ lock' = [lock EXCEPT ![ShardOf[t]] = t]
  /\ Goto(t, "awaiting") /\ Leave(w)
  /\ UNCHANGED next

ProcessEventEnds(w, t) ==
  /\ running[w] = t /\ at[t] = "resumed"
  /\ lock' = [lock EXCEPT ![ShardOf[t]] = Nobody]
  /\ Goto(t, "done") /\ Leave(w)
  /\ UNCHANGED next

\* get_order clones under a read lock, restore_order inserts under a write lock;
\* neither keeps it.
Touch(w, t) ==
  /\ Runs(w, t, "get_order") \/ Runs(w, t, "restore_order")
  /\ lock[ShardOf[t]] = Nobody
  /\ Goto(t, "done") /\ Leave(w)
  /\ UNCHANGED <<lock, next>>

\* iter_mut takes the next shard's lock before it lets the last one go.
Scan(w, t) ==
  LET s == next[t]
  IN  /\ Runs(w, t, "update_order_id")
      /\ s <= Shards /\ lock[s] = Nobody
      /\ IF s = ShardOf[t]
         THEN /\ lock' = [i \in 1..Shards |-> IF lock[i] = t THEN Nobody ELSE lock[i]]
              /\ Goto(t, "done") /\ Leave(w)
              /\ UNCHANGED next
         ELSE /\ lock' = [i \in 1..Shards |-> IF i = s THEN t
                                              ELSE IF lock[i] = t THEN Nobody ELSE lock[i]]
              /\ next' = [next EXCEPT ![t] = s + 1]
              /\ UNCHANGED <<at, running>>

-----------------------------------------------------------------------------
WorkerStep(w) ==
  \E t \in Tasks : \/ ProcessEvent(w, t) \/ ProcessEventSuspends(w, t)
                   \/ ProcessEventEnds(w, t) \/ Touch(w, t) \/ Scan(w, t)

Next ==
  \/ \E w \in Workers : WorkerStep(w) \/ \E t \in Tasks : Poll(w, t)
  \/ \E t \in Tasks : FlushEnds(t)

\* Workers run, tasks that can run are taken by a free worker, and the database
\* answers.
Fairness ==
  /\ \A w \in Workers : WF_vars(WorkerStep(w))
  /\ \A t \in Tasks : WF_vars(\E w \in Workers : Poll(w, t)) /\ WF_vars(FlushEnds(t))

Spec == Init /\ [][Next]_vars /\ Fairness

\* "Lock-free concurrent hashmaps ... No Mutex on the hot path": a call into the
\* cache that a worker has begun comes to its end.  (Violated: the call that
\* awaits the flush keeps its shard's lock, the calls that want it block every
\* worker, and none is left to resume the first.)
BegunCallsEnd == \A t \in Tasks : at[t] = "started" ~> at[t] = "done"

=============================================================================
