-------------------------- MODULE ShardGuard_proofs -------------------------
(***************************************************************************)
(* What ShardGuard does keep, for every number of workers, calls and       *)
(* shards: no cycle of calls that wait for each other's shard locks.  The  *)
(* run that refutes BegunCallsEnd needs the workers for its cycle.         *)
(***************************************************************************)
EXTENDS ShardGuard, TLAPS

\* The call holds its order's lock across the await of queue_transition.
Flushing(t) == at[t] \in {"awaiting", "resumable", "resumed"}

\* iter_mut between two shards: it holds s and wants the next one.
Walking(t, s) ==
  /\ CallOf[t] = "update_order_id" /\ at[t] = "started"
  /\ next[t] = s + 1

\* A call that holds a lock wants none, or wants one of a higher shard.
LocksAreOrdered ==
  \A t \in Tasks, s \in 1..Shards :
    lock[s] = t => (Flushing(t) /\ s = ShardOf[t]) \/ Walking(t, s)

GuardInv == TypeOK /\ LocksAreOrdered

LEMMA GuardInit == Shards \in Nat /\ Nobody \notin Tasks /\ Init => GuardInv
BY DEF Init, GuardInv, TypeOK, At, LocksAreOrdered

LEMMA GuardStep ==
  ASSUME Shards \in Nat, Nobody \notin Tasks, GuardInv, [Next]_vars
  PROVE  GuardInv'
<1> USE DEF GuardInv, TypeOK, LocksAreOrdered, Flushing, Walking, Goto, Leave, Runs, At
<1>1. ASSUME NEW w \in Workers, NEW t \in Tasks, Poll(w, t) PROVE GuardInv'
  BY <1>1 DEF Poll
<1>2. ASSUME NEW t \in Tasks, FlushEnds(t) PROVE GuardInv'
  BY <1>2 DEF FlushEnds
<1>3. ASSUME NEW w \in Workers, NEW t \in Tasks, ProcessEvent(w, t) PROVE GuardInv'
  BY <1>3 DEF ProcessEvent
<1>4. ASSUME NEW w \in Workers, NEW t \in Tasks, ProcessEventSuspends(w, t) PROVE GuardInv'
  BY <1>4 DEF ProcessEventSuspends
<1>5. ASSUME NEW w \in Workers, NEW t \in Tasks, ProcessEventEnds(w, t) PROVE GuardInv'
  BY <1>5 DEF ProcessEventEnds
<1>6. ASSUME NEW w \in Workers, NEW t \in Tasks, Touch(w, t) PROVE GuardInv'
  BY <1>6 DEF Touch
<1>7. ASSUME NEW w \in Workers, NEW t \in Tasks, Scan(w, t) PROVE GuardInv'
  <2>1. /\ CallOf[t] = "update_order_id" /\ at[t] = "started"
        /\ next[t] \in 1..Shards
    BY <1>7 DEF Scan
  <2>2. CASE next[t] = ShardOf[t]
    <3>1. /\ lock' = [i \in 1..Shards |-> IF lock[i] = t THEN Nobody ELSE lock[i]]
          /\ at' = [at EXCEPT ![t] = "done"]
          /\ running' = [running EXCEPT ![w] = Nobody]
          /\ next' = next
      BY <1>7, <2>2 DEF Scan
    <3>2. TypeOK'
      BY <3>1
    <3>3. LocksAreOrdered'
      BY <2>1, <3>1
    <3> QED
      BY <3>2, <3>3
  <2>3. CASE next[t] # ShardOf[t]
    <3>1. /\ lock' = [i \in 1..Shards |-> IF i = next[t] THEN t
                                          ELSE IF lock[i] = t THEN Nobody ELSE lock[i]]
          /\ next' = [next EXCEPT ![t] = next[t] + 1]
          /\ at' = at /\ running' = running
      BY <1>7, <2>3 DEF Scan
    <3>2. TypeOK'
      BY <2>1, <3>1
    <3>3. LocksAreOrdered'
      BY <2>1, <3>1
    <3> QED
      BY <3>2, <3>3
  <2> QED
    BY <2>2, <2>3
<1>8. CASE UNCHANGED vars
  BY <1>8 DEF vars
<1> QED
  BY <1>1, <1>2, <1>3, <1>4, <1>5, <1>6, <1>7, <1>8 DEF Next, WorkerStep

\* active_orders' shard locks by themselves cannot deadlock: a call of process_event,
\* get_order, restore_order or update_order_id that holds one either waits for
\* the database only, or wants the lock of a higher shard.
THEOREM LocksAloneDoNotDeadlock ==
  ASSUME Shards \in Nat, Nobody \notin Tasks
  PROVE  Spec => [](TypeOK /\ LocksAreOrdered)
<1>1. Init => GuardInv
  BY GuardInit
<1>2. GuardInv /\ [Next]_vars => GuardInv'
  BY GuardStep
<1>3. GuardInv => TypeOK /\ LocksAreOrdered
  BY DEF GuardInv
<1> QED
  BY <1>1, <1>2, <1>3, PTL DEF Spec

=============================================================================
