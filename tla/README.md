# Verification of the dry-testing engine

TLA+ models of the dry-testing engine (`src/src`), TLC runs that check them on
small instances, and TLAPS proofs of what matters most for instances of any
size. The code is the reference: each definition names the lines it stands for
in `PROJECT.json`, and a comment in the module names the function.

## The system

| Component | State | Operations | Talks to |
|---|---|---|---|
| Lane router (`execution/router.rs`) and sequence generator (`core/sequence.rs`) | an atomic counter | `enqueue_intent` takes a number and awaits the coordinator | coordinator |
| Arbitrage coordinator (`coordinator/coordinator.rs`) | `active_executions`, `venue_executors` (DashMaps) | `enqueue_intent`, `create_execution`, `update_execution`, `handle_leg_completion`, `cancel_order` | router, state machine, writer (spawned writes), executors (spawned, raced with `select!`, aborted) |
| Venue executor (`execution/executor.rs`) | none; one task per leg | `execute_leg`, `process_venue_response` | venue, router, state machine, coordinator |
| Order state machine (`state_machine/`) | `active_orders` (DashMap) | `process_event`, `get_order`, `restore_order`, `update_order_id` | writer (await with the order's guard held) |
| Order router (`routing/router.rs`) | client-id map, venue-id map | `register_order`, `update_venue_order_id`, `route_event`, `unregister_order` | - |
| Database writer (`db/writer.rs`) | pending batch, failed queue, dead letters, shutdown signal, two background tasks | `write_order`, `queue_transition`, flush, retry, `wait_for_retries`, `shutdown` | PostgreSQL |
| Venue simulator and adapter (`venue/`) | none | `submit_order`, `cancel_order`, `generate_fill`, delayed fill callback | a pump that is not in the source: it would hand each announcement to `route_event` and `process_event` |
| Fixed point (`types/fixed_point.rs`) | none | scaled add, subtract, multiply, divide, compare | - |
| Intent generator (`intent_generator/`) | a configuration | `generate_from_pair_id`, `generate_batch`, `setup_test_customer_scope_strategy` | PostgreSQL, under a timeout per query |
| Migration runner (`bin/run_migration.rs`) | none | splits a script and runs its statements | PostgreSQL |
| Engine (`execution/engine.rs`), recovery, timing, errors, types | wiring, stubs, measurements, plain data | `with_pool`, `shutdown`, `recover` (stub) | everything |

What is hard here:

* **The rollback.** `tokio::select!` hands the coordinator the first leg that
  ends; if it failed, the other leg's task is aborted, which stops it only at its
  next await. The aborted task may be holding the venue's ACK while the
  coordinator cancels the same order in memory and, from a clone made earlier,
  at the venue.
* **Shared maps.** Executions of any number of intents write to the same
  DashMaps; an intent enqueued twice shares its client order ids and its
  execution record with itself.
* **Fire and forget.** Order rows are written in the background while events of
  the order are already queued under a local id that the foreign key refuses.
* **Writer.** Any caller flushes when the batch is full, next to the flush task and
  to `shutdown`; batches fail whole; the retry scheduler empties the failed
  queue into its hands and puts part of it back; statements may commit and
  still report an error; tasks are aborted at shutdown.
* **Announcements.** Trades arrive early, late, twice and in other scales, are
  routed by two maps that the executor fills meanwhile, and are added to the
  order's size without a check.
* **Arithmetic** on 64-bit integers: aligning two scales wraps before anything is
  checked, and `process_event` does not use the checked functions at all.
* **Worker threads.** `process_event` holds a DashMap guard while it awaits the
  writer; whoever needs the shard meanwhile blocks a thread, not a task.
* **Set-up and generation.** Statements dropped by their timeout may have
  committed; set-ups of one customer overlap; a batch's queries run next to
  each other over tables that change.

What makes each component correct: the coordinator ends an execution with both
legs live or none, and its record says so; the executor never revives an order; the
router's answer exists before the order counts as submitted; the state
machine hands the writer every transition once and in order; the writer forgets
nothing it accepted, holds and records nothing twice, and comes to an end; an order
says Filled only when its venue traded it, and has ended once it booked all of it;
an ended order stays ended and keeps what it had executed; the arithmetic is exact
or reports an error; every call into the cache ends; numbers follow the calls; the
set-up is idempotent; a batch accounts for every pair it was asked for, truthfully,
and returns.

## Modules

**`OrderLifecycle`** holds the guards and targets of `process_event` as operators
on statuses. An accepted fill leads to Partial or Filled; which of the two is
`OrderFills`' subject, and open in `ArbExecution`.

**`ArbExecution`** is the core: coordinator, leg tasks, state machine, order
router, execution records and the background writes. A process is a call of
`enqueue_intent` (`coord`), a leg task (`leg`) or a write task (`row`); a step is
the code between two points where the task can be suspended or where another
thread can see a shared map.

| Code | Model |
|---|---|
| `active_orders` | `status`, `acked` (`venue_order_id` is Some), `synced` (database id) |
| the `RefMut` held across `queue_transition().await` | `moving[o] # Idle`; every access to the order needs `Unguarded(o)` |
| `client_order_map`, `venue_order_map` | `clientMap`, `venueMap` |
| `active_executions` | `execLegs`, `execStatus` |
| transitions handed to the writer | `log` |
| `JoinHandle::abort` | `aborted`; `DropLeg` drops the task at an await: before the venue's answer, or inside `queue_transition`, before or after the push |
| `submit_order`'s `Err` and its timeout | `SubmitFails`: the executor hears an error, and the venue has nothing, or the order (`Unheard`); a task dropped before the answer leaves the same doubt |
| the clone in `cancel_order` | `snap` |
| the venue | `venue` |

An order is named by the call that made it and its leg (its local UUID); its client
order id is a function of intent and leg, so two calls with one intent clash in
the router and in `update_order_id`'s scan as they do in the code.
`validate` is the set `InvalidIntents`, a venue without an executor is a member of
`Unroutable`.

**`ArbOutcome`** is the abstract specification: orders of an open call go live
or die; a call completes only with all legs live, fails only with none, is
refused only with none touched; and after the verdict nothing happens to its
orders. `ArbExecution` implements it under the refinement mapping `Outcome`.

**`BatchWriter`** is the writer: one task per queued event, the flush task, the
retry scheduler and the caller of `shutdown`, with the `order_events` table they
write to, in a database that has the unique index on `event_id` which the
statements' ON CONFLICT needs (testdbschema.txt does not show it: an assumption
about the database). `good[e]` says whether the event carries the id the database knows; one
wrong id fails the whole batch (one INSERT statement). The lock of the failed
queue, held by `retry_failed_transitions` during its inserts, is
`FailedUnlocked`. Time is abstracted: `BackoffElapses` makes an entry due,
`MayExpire` lets the waits of `shutdown` expire. Fills and events without an
`event_id`, which no code queues, are left out.

**`EventLedger`** is what the writer promises: an accepted event is held until the
table, the dead letter queue or an aborted task has it, reaches the table only
while it is held, and is never taken up again. `BatchWriter` implements it under
the mapping `Ledger`, which gathers batches, queues and hands into `held`.

**`FixedPoint`** has the five operations of `fixed_point.rs` on pairs of a machine
integer and a scale: the powers of ten and the products that align two scales
wrap (`Aligned`), only the last operation is checked. `ExactFor` compares them
with integers without bounds. The width is a constant.

**`OrderFills`** is the way from the venue's trades to an order's filled size.

| Code | Model |
|---|---|
| `OrderState.filled_size_int`, `total_size_int`, `transitions` | `filled`, `total`, `log` (each transition names the trade it booked) |
| the coordinator's and the executor's position | `phase`: registered, cached, the ACK in hand, routed, applied |
| the two router maps | `clientMap`, `venueMap`, with `RouteEvent` (venue id first) and `UnregisterOrder` as the code has them |
| a trade and the announcements made of it | a record in `trades`: `due` not routed yet, `at` routed to an order, `lost` without a route or refused |
| `filled_size_int + fill_size` | `Wrap(...)`, or `FillPanics` in a build with overflow checks |
| `fill_size` is added as it stands | `Announced`: the size in the announcement's scale |

Here `process_event` is one step, because nothing but the order itself is read under
its guard. The venue is either the simulator (all of the order, or from 50% to below
90%, with the saturating product) or one that trades in pieces, in another scale
if it likes. The pump that would carry announcements to `route_event` is not in the
source (engine.rs:113-123 installs no fill callback, so that the simulator's fills
are only logged): `Route` is what its use of the two functions must be, marked
external, and nothing here assumes that it ever runs.

**`ShardGuard`** looks at the same cache from below: worker threads (`running`),
shard locks (`lock`), and calls that block their thread on a lock or leave it at an
await with the lock kept. `iter_mut` takes the next shard's lock before it lets
the last one go.

**`Lane`** is `enqueue_intent` of the lane with its counter: the number is one step, the
coordinator's answer another. **`TestSetup`** is the set-up of a test customer,
statement by statement, with statements that fail after they committed and
callers that call again. **`IntentBatch`** is `generate_batch`: a task per position
of the request, the queries of `generate_from_pair_id` in their order, pairs that
are deactivated meanwhile, tasks that panic, whose `JoinError` is only logged, and
the partition of the other results; what may be wrong
with a pair's rows is one of `Defects`, in the order the code finds it out.
`ConfigValid` and `IntentValid` are the two `validate` functions, field by field.
**`Intake`** composes the three: set-ups, then a batch, then a lane call per intent,
whose acceptance needs the coordinator's `validate`.

**`SeqFunctions`** has two operators that the writer, the batch and the fills share, as
recursive functions, which proofs can reason about: `Kept(s, T)`, the elements of a
sequence that are in a set, in their order, and `Total(w)`, the sum of a sequence.

`MCArbExecution`, `MCBatchWriter`, `MCOrderFills`, `MCShardGuard` and `MCIntake` give the
constants their values; the modules named `..._proofs` hold the proofs. Operators
named as mutants stand before the definition they alter; no action uses them.
They are the plausible bugs each property has been seen to catch.

## Runs

| Run | Question | Instance |
|---|---|---|
| `arb_single` | Is a rollback clean, the record consistent, the log replayable, and do the call and its tasks end if the writer answers? | 1 call, 4 venue answers, 2 database answers, fairness |
| `arb_mixed` | Do calls of different intents leave each other alone, and do they implement `ArbOutcome`? | 3 calls: one good, one invalid, one unroutable; 4 venue answers |
| `arb_same` | Does each of two calls with one intent roll back its own orders? | 2 calls, 1 intent, answers ack and reject |
| `writer_faults` | Is anything forgotten, held twice, recorded twice or taken up again, whatever fails; does the writer implement `EventLedger`? | 2 events of 2 orders, batch size 2, 2 retries; every fault, abort, expiry, close, shutdown |
| `writer_live` | Which answers of the database let every event settle and every shutdown return? | 2 events of one order, statement errors, failing lookups, expiring waits, fairness |
| `fills` | Does an order's size say what its venue traded, has it ended once it booked all of it, and is the arithmetic exact? | 2 orders that may be twins, sizes 1, 3 and the largest integer, 2 trades, the first announced once or twice, 2 scales, 16-bit integers |
| `intake` | Is the set-up idempotent, is a batch accounted for, sound and true, do numbers follow the calls, does the batch return? | 2 callers with 2 failures, 2 pairs with any defects, requests of up to 3 for batches of 2, 13 configurations, fairness |
| `found_rollback_gap` | (violated) a failed execution leaves nothing live at a venue | 1 call |
| `found_shutdown_abandons` | (violated) shutdown settles what it owes, with a database that never fails | 1 event |
| `found_early_dead_letter` | (violated) a late order row does not cost an event its retries | 1 event |
| `found_inflight_batch` | (violated) a batch queued before shutdown's signal is not lost with the aborted flush task | 1 event |
| `found_guard_deadlock` | (violated) a call into the cache that has begun ends | 2 workers, 3 shards, one call of each kind, fairness |

Bounds. The protocol is per call and has two legs; calls meet only in the maps
keyed by intent and client order id, so two calls with one intent and three with
different fates cover the ways they can meet. For the writer, a batch of two
events makes a batch mix good and wrong ids, lets two callers and the flush task
race for one batch, and two retries reach both the second attempt and the dead
letter queue. In `fills`,
two orders make twins of one intent (or strangers); the sizes are the smallest,
of which the simulator's part is nothing, one that can be traded in parts, and the
largest, where a trade announced twice overflows; the second scale puts a factor of
ten between the announcement and the order. `MaxTrades`, `MaxTwice` and `MaxLoad`
bound trades, repeated announcements and their sum with the orders in play.
Sixteen bits keep every product within TLC's integers; the proofs hold for any
width. In `intake`, two positions show one failing next to one that succeeds and
one pair asked for twice; a third is what a batch of two refuses; `MaxFaults`
bounds the set-ups that fail, `MaxAsked` the request; the configurations are one at
the edge of the legal values and one beyond it for each field. `found_guard_deadlock`
needs as many blocked calls as workers, two. No other counter is unbounded: an order's log
in `ArbExecution` grows by at most two transitions, retries stop at `MaxRetries`.

Fairness. `WF` for what the runtime and the timers owe: tokio polls every ready task
and drops an aborted one; `submit_order`, the venue cancel and the lookups have
timeouts; backoffs and the waits of `shutdown` elapse. `SF` for hearing the
shutdown signal: `select!` polls its branches in random order, so a tick that is
always ready cannot hide the signal for ever. The writer's INSERTs have no timeout,
so neither `FairSpec` assumes an answer to one: the steps that end the await of
`queue_transition`, the writes of order rows, and the flushes and retries that wait
for a statement are left out, and so are aborts, calls, the closing of the pool and
the shutdown itself. What a liveness property needs of the database beyond that is
a condition in the property, and the least that was found to do:

* `EnqueueReturns` and `LegsEnd`: no order's guard is held for ever
  (`GuardsReturned`), that is, whoever queues a transition gets its answer.
  `found_guard_deadlock` shows what happens otherwise. Order rows need not be
  written.
* `EventSettles`: every insert is answered, by an error if need be, and so is, in
  the end, a lookup that is tried again and again. With lookups that always fail, an
  event is retried without end, uncounted (writer.rs:606).
* `ShutdownEnds`: shutdown's own flush is answered and so is a retry that holds the
  failed queue's lock. Nothing else need be: not the flush task, which is aborted,
  nor the callers.

The writer's deadlock check is meaningful: the flush task's idle tick is a step
until it stops, and only a finished shutdown may stutter. `OrderFills` states no
fairness, as nothing in the source carries announcements. In `Intake`, timers fire
and `join_all` is woken; the database owes no answer. In `ShardGuard`, a
worker that can go on does, a ready task is taken by a free worker, and the
database answers: the violation does not need any of them to be late. The runs of
these three do not check deadlock, as the modelled calls simply end.

## What the checks show

Holds: in every interleaving, a call that reports a failure has no live order in
the cache, then or later; whenever no abort was needed, the venue has been told
of every order it acknowledged; verdict and record never contradict each other
about failure; an order that counts as submitted is routable; the writer's log
replays to the cached status, but for the one transition that an abort may lose;
and if the writer answers, the call and its tasks end. The writer never forgets,
doubles, re-records or takes up again an event under any combination of faults, and
leaves no accepted event in the pending batch at shutdown.

An order's status and size are always what its transitions replay to. As long as
the venue announces in the order's scale and no trade is booked twice, orders
never show more than was traded, and one that says Filled was; without either
condition they may. An order that booked all trades of a venue that traded all of
it has ended, unless an addition overflowed; an ended order never comes back to
life. In equal scales the unchecked sum decides as the checked functions would. The
set-up is idempotent under overlap and lost answers, every position of a batch whose
task did not panic is in exactly one of its results with the right reason, no
configuration gets an illegal leg past both checks, and a batch returns although the
database never answers.

Does not hold:

* `FailureLeavesNothingAtVenue` against `src/lib.rs:11` ("instant rollback"):
  `cancel_order` (coordinator.rs:647) clones the order before the cancel; if the
  aborted task applies its ACK in between, the order is live at the venue and
  nobody cancels it.
* `ShutdownSettlesAll` against writer.rs:928 ("consumers finish"): the signal of
  step 1 (939) stops the retry scheduler too. If the flush task's last flush fails
  after that, step 4 waits five seconds for a queue nobody empties.
* `RetryFixesOrderId` against machine.rs:186 ("retry mechanism will fix it"): an
  order that the first lookup does not find sends its event to the dead letter
  queue without using any of the ten retries.
* `InFlightIsWritten` against writer.rs:967 ("any in-flight batches are written"): if
  the wait for the flush task expires, it is aborted (963) inside the insert of a
  batch it has drained; the final flush takes the pending batch, which does not
  have those events any more, and they are gone.
* `BegunCallsEnd` against the claim of lock-free maps on the hot path
  (machine.rs:44 and 188): one call awaits the flush of a full batch with its
  shard's lock, calls that want the shard block their worker threads, and when all
  of them are blocked nobody resumes the first.

Seen in the models and not given a run of their own:

* A submission that times out is an error to the executor (executor.rs:122), but the
  venue may have the order; the cache has no venue id for it, and nobody cancels it.
* Only the second leg of a completed call is set to Filled (coordinator.rs:565), so
  the record says Partial.
* An `update_order_id` that runs before `restore_order` is lost (coordinator.rs:206
  against 296); a failed order row is logged as one that "will retry in background"
  (coordinator.rs:225, 280), and nothing retries it.
* With an intent enqueued twice, the first order's ACK is mapped to the second order
  (router.rs:30) and trades of the two may be booked to the wrong one
  (router.rs:49).
* A venue that answers a submission with a fill has it refused, as the order is still
  Pending (machine.rs:91 against adapter.rs:42). A trade announced twice is booked
  twice (machine.rs:82), one announced in another scale is added as it stands
  (machine.rs:100).
* Rejects, timeouts and cancels replace a terminal status by another one
  (machine.rs:127, 161 against order.rs:93, "no further transitions possible").
* An abort at machine.rs:188 loses the transition that memory already shows.
* `wait_for_retries` returns Ok while the scheduler holds entries in a local vector
  (writer.rs:889 against 857), and does not see its deadline while it waits for the
  lock that a retry holds over an insert without a timeout (writer.rs:623 against
  979, "timeout protection prevents indefinite blocking").
* A failed lookup puts its entries back uncounted (writer.rs:606): while lookups
  fail, nothing becomes a dead letter.
* `add_scaled` may return Ok with a sum that is off by a multiple of 2^64, where
  aligning the scales wraps (fixed_point.rs:35), and `divide_scaled` one that is off
  by a power of ten for unequal scales (101): 1 / 0.1 is 1.0.
* The pair of a task that panics is in neither result of `generate_batch`
  (generator.rs:296 against 227, "processes all pairs even if some fail").

## Proofs

All theorems hold for every value of the constants that the named assumptions
admit; the wording of each is in its module.

**The coordinator** (`ArbExecution_proofs`, from `ConstantsAssumption` alone: any calls
and intents, any sharing of intents, any refused or unroutable ones):
`TypeCorrect`, `FailureIsClean` (`NoLiveLegAfterFailure`),
`UnabortedRollbackIsComplete` (`RollbackReachesVenue`, about the legs whose ACK a task
received; a submission that timed out may leave an order live) and
`CoordinatorImplementsOutcome` (`ImplementsOutcome`).

None of the three safety statements is inductive. `IInv` adds, per leg, what its
task's position says of its order and of the venue (an ACK in hand means live at
the venue and an order either untouched or canceled; a finished task's result
matches its order), and, per call, what the coordinator's position says of both
legs: from `awaiting` on, the kept leg has succeeded; from `reading` on, the failed
leg cannot be live; from `queueing` on, the target is canceled and no event can
revive it. The refinement maps a step of a call to a report, a step that moves an
order to `GoLive` or `Die`, and everything else to a stutter.

**Its records** (`ArbRecords_proofs`, on top of `IInv`):

* `RecordsReplay` (`LogReplays`). `RecordInv` says who can hold an order's guard: the
  leg's task or the coordinator, never both, and one of them exactly while a
  transition is on its way; that transition starts where the log ends. An abort
  inside that await may lose it; the theorem says that the log then lacks this one
  transition, to where the venue's reply leads, and no other, in front of the
  coordinator's cancel or behind it.
* `SubmittedStaysRoutable` (`SubmittedIsRoutable`), under `DistinctIntents`. The client id
  names the order once it is registered, and the venue's id names it from the
  routing of the ACK on, before the ACK is applied.
* `VerdictsStayTrue` (`VerdictsAgree`), under `DistinctIntents`. A leg of the record is
  rejected only by its own task, which has then ended or is about to end with the
  venue's reject, or by the call that failed on it; that leg's task has ended and
  cannot overwrite it. It needs that only an ACK or a reject gets past
  `process_event` in a leg's task (`AnsweredInv`).

`DistinctIntents` says that no two calls carry one intent. It is necessary: of two
such calls the second takes over the first one's client ids and record, which
is why `arb_same` checks other properties.

**The writer** (`BatchWriter_proofs`, from `WriterAssumption`: any events, batch
size, number of retries and combination of faults and aborts):

* `WriterTypeOK` (`TypeOK`).
* `ShutdownFlushes` (`FlushedAtShutdown`). What is owed was queued before the
  signal, so nobody puts it back into the pending batch (a failed batch goes to
  the retry queue); once shutdown's own flush has looked, it is not there,
  whether the flush task ended or was aborted (`FlushInv`).
* `WriterNeverForgets` (`NeverForgotten`), `WriterHoldsOnce` (`HeldOnce`) and
  `WriterRecordsOnce` (`RecordedOnce`). None is inductive alone: a step that
  moves events has to put them where they are not yet, and a batch that a task
  takes must not replace another. `OnceInv` is the last two with `Emptied` (a
  task outside its insert and a scheduler outside its retries have nothing in
  hand) and `Accounted`, which is stronger than `NeverForgotten`: the events the
  writer holds, buried, recorded or lost are exactly those that were queued, so
  a task that queues its event brings a new one. The scheduler splits its queue
  by `Kept` into what is due and what is not; the parts share no event and make
  up the queue.
* `WriterImplementsLedger` (`ImplementsLedger`). A step is mapped by what it
  does to the set of held events: `QueueEvent` to taking one up, an insert that
  the table keeps to recording, a burial to the dead letters, an abort to a
  loss, and every move between batch, queue and hand to a stutter.

**Fills** (`OrderFills_proofs`, from `FillsAssumption` and `MaxIntAssumption`):

* `FillsTypeCorrect` (`TypeOK`) and `FillsAgree` (`FillsAgreeWithFixedPoint`, by
  the lemmas that `Wrap` keeps what fits and turns a sum above the largest
  integer negative).
* `FilledSizeReplays` (`FilledReplays`) and `FilledWasTraded`
  (`FilledIsTraded`), from one inductive invariant, `BooksInv`. `Routed`: the
  maps and the announcements on their way name orders of the right client id.
  `Logged`: a transition that books a trade books one that exists, and an order
  that says Filled has the size. `Chained`: each transition starts where the
  last one ended. `Replayed`: the filled size is the wrapped sum of what the log
  booked (`WrapAdds`: wrapping at each step or once at the end is the same).
  `Balanced` is what the second theorem turns on: per client id, what its orders
  booked is what was announced of its trades, each as often as it was booked. A
  single order's books need not balance, since `route_event` may hand a trade to
  the order's twin; and the sum has no bound, so that an addition that wrapped
  does not hide in it. From there the wrapped size is at most the sum, as no
  size in the log is negative.
* `EndedOrderStaysEnded` (`EndedStaysEnded`), over `StepKinds`: a step leaves the
  orders alone, restores one, or books one event, and no guard lets an ACK or a
  fill into an ended order.
* `BookedInFullHasEnded` (`ExecutedIsShown`). `Counted` relates an order's status and
  size to the trades in its log: what it executed is at least their sum, a Partial
  order is below its size, and one that booked anything is Partial or has ended.
  With no overflow its size is what it executed, so one that booked all of its
  venue's trades, each at least once and at its scale or a finer one, is not
  Partial.
* `ScaledArithmeticIsExact` (`ArithmeticIsExact`): `ExactFor` holds for every
  two machine numbers of any scales and for integers of any width, not on the
  run's operands only. Where aligning wraps it promises no more than the low bits
  of a sum or difference (`AlignedCongruent`, `WrapPeriod`); of a quotient it says
  that it is the one of the two integers, which is a/b for equal scales only.
  Division is treated by `TruncatedNear`: truncation towards zero is less than one
  divisor away.

`FillsAssumption` asks that the orders be finite, as the sums over them have no
meaning otherwise.

**Intake**: `SetupIdempotent` in `TestSetup_proofs` (a call that knows an id
knows that of the only row); in `Intake_proofs`, `LaneLaterIsLarger` (every number
that was given is below the counter), the same two for the composition, whose steps
are steps of the parts or leave them alone, `IntakeTypeOK`, `IntakeIntentsAreSound` and `IntakeResultsAreTrue`, and
`IntakeBatchAccounts` (`BatchAccounts`): the two results are the positions
`Kept` by their outcome, in the request's order, and a position has one outcome,
so it is in one of them, once, or, if its task panicked, in neither.

**Sequences** (`SeqFunctions_proofs`): the library's induction theorems take a
predicate as a parameter, which the provers cannot instantiate. Here the
predicate is the set of the numbers it fails for: a set of naturals that is not
empty has a least member (`LeastNumber`, from the library's `WFMin` and
`NatLessThanWellFounded`), from which follow `Induction`, the existence of
functions defined by it (`IterationExists`), and what `Kept` and `Total` return
for every sequence.

**Locks** (`ShardGuard_proofs`): `LocksAloneDoNotDeadlock`. A call that holds a shard's
lock wants none, or wants a higher shard's: calls never wait for each other's
locks in a circle. The deadlock of `found_guard_deadlock` closes its circle over
the worker threads.

Every safety invariant and action property of the passing runs is a theorem, and so
are both refinements. Only model-checked are the liveness properties (`EnqueueReturns`,
`LegsEnd`, `ShutdownEnds`, `EventSettles`, `BatchReturns`), as liveness
under fairness rests on `ENABLED`, which is out of this prover's reach. What the
violated runs refute has no proof to look for.

## Plan

In the order of what they would add:

1. `ArbExecution` and `BatchWriter` in one module, with the order's row on one side
   and its events on the other: the consequence of a local order id.
2. Running executions next to `shutdown`.

## Not modelled

* The migration runner: a sequential split of a script's text, with no state to
  speak of.
* Recovery, which is a stub, and the engine's wiring; `DatabaseWriter::shutdown`,
  the one operation of the engine with an effect, is in `BatchWriter`.
* Timing: measurements no control depends on. Errors, database and venue types:
  plain data and conversions; of `types/order.rs` and `types/execution.rs` the
  statuses, ids and `validate` are modelled, their formatting is not.
* In the writer, fills (`queue_fill`, `flush_fills`) and events without an `event_id`,
  which no code queues, and the order of the inserts within one retry.
* `get_order_status`, a constant nobody asks for; `list_active_pairs` and
  `get_first_scope`, which only read, and whose results are the requests' inputs;
  `SequenceGenerator::reset` and `with_initial`, which nobody calls.
* Two contract specs read from different versions of a pair's rows, and the order in
  which intents reach the coordinator, which nothing promises.
