----------------------------- MODULE IntentBatch ----------------------------
(***************************************************************************)
(* IntentGenerator::generate_batch: one task per requested pair, each with *)
(* generate_from_pair_id's queries one after the other, over tables that   *)
(* change meanwhile; and the partition of their results.  Every query runs *)
(* under a timeout; a task that panics has no result.                      *)
(***************************************************************************)
EXTENDS Integers, Sequences, SequencesExt, FiniteSets, SeqFunctions

CONSTANTS
  Pairs,     \* verified pairs
  MaxBatch,  \* MAX_BATCH_SIZE, scaled down
  Configs,   \* test configurations
  MaxScale   \* 18

\* What may be wrong with the rows of a pair, in the order it is found out.
Defects == {"none", "not found", "not active", "one market", "bad mapping",
            "no spec", "bad spec", "no YES_A", "unknown venue"}

VARIABLES
  config,    \* IntentGenerator.config
  active,    \* the pair has not been deactivated since the request
  defect,    \* what was wrong with each pair's rows when it was made
  asked,     \* pair_ids
  task,      \* the query each task awaits
  specs,     \* the legs whose contract spec each task has got
  result,    \* what joining each task gives: "intent", an error, or "panicked"
  batch,     \* where the call is
  intents,   \* positions in asked of the first vector returned
  errors     \* positions in asked of the second one

dbVars    == <<active, defect>>
taskVars  == <<task, specs, result>>
batchVars == <<config, dbVars, asked, taskVars, batch, intents, errors>>

-----------------------------------------------------------------------------
(* TestConfig::validate, the intent made of a configuration, and           *)
(* ArbExecutionIntent::validate.                                           *)

ScaleFits(s) == s \in 0..MaxScale

\* Mutant: leg B's scale is not looked at.
ConfigValidLegA(c) ==
  /\ ScaleFits(c.priceScaleA) /\ ScaleFits(c.sizeScale) /\ ScaleFits(c.profitScale)
  /\ c.priceA >= 0 /\ c.priceB >= 0 /\ c.size > 0 /\ c.profit >= 0

ConfigValid(c) ==
  /\ ScaleFits(c.priceScaleA) /\ ScaleFits(c.priceScaleB)
  /\ ScaleFits(c.sizeScale) /\ ScaleFits(c.profitScale)
  /\ c.priceA >= 0 /\ c.priceB >= 0 /\ c.size > 0 /\ c.profit >= 0

LegSpec(price, priceScale, c) ==
  [price |-> price, priceScale |-> priceScale, size |-> c.size, sizeScale |-> c.sizeScale]

IntentOf(c) ==
  [A |-> LegSpec(c.priceA, c.priceScaleA, c), B |-> LegSpec(c.priceB, c.priceScaleB, c),
   profit |-> c.profit, profitScale |-> c.profitScale]

LegSane(leg) ==
  leg.price >= 0 /\ leg.size > 0 /\ ScaleFits(leg.priceScale) /\ ScaleFits(leg.sizeScale)

\* The coordinator's check; the scales of leg B and of the profit go unseen.
IntentValid(i) ==
  /\ i.profit >= 0
  /\ LegSane(i.A)
  /\ i.B.price >= 0 /\ i.B.size > 0

-----------------------------------------------------------------------------
TaskPC  == {"pair", "markets", "specs", "done"}
Error   == (Defects \ {"none"}) \cup {"timeout", "database"}
BatchPC == {"none", "running", "returned", "too big", "bad config"}

\* The positions of the request that have a task.
Positions == DOMAIN task

BatchTypeOK ==
  /\ config \in Configs
  /\ active \in [Pairs -> BOOLEAN]
  /\ defect \in [Pairs -> Defects]
  /\ asked \in Seq(Pairs)
  /\ task \in Seq(TaskPC)
  /\ specs \in [Positions -> SUBSET {"A", "B"}]
  /\ result \in [Positions -> Error \cup {"none", "intent", "panicked"}]
  /\ batch \in BatchPC
  /\ intents \in Seq(Nat) /\ errors \in Seq(Nat)

BatchInit ==
  /\ config \in Configs
  /\ active = [p \in Pairs |-> TRUE]
  /\ defect = [p \in Pairs |-> "none"]
  /\ asked = <<>>
  /\ task = <<>> /\ specs = <<>> /\ result = <<>>
  /\ batch = "none"
  /\ intents = <<>> /\ errors = <<>>

\* IntentGenerator::new refuses the configuration.
RefuseConfig ==
  /\ batch = "none" /\ ~ConfigValid(config)
  /\ batch' = "bad config"
  /\ UNCHANGED <<config, dbVars, asked, taskVars, intents, errors>>

\* generate_batch(pair_ids): what list_active_pairs returned, or any ids.
Request(list, wrong) ==
  /\ batch = "none" /\ ConfigValid(config)
  /\ asked' = list
  /\ defect' = wrong
  /\ IF Len(list) > MaxBatch
     THEN batch' = "too big" /\ UNCHANGED taskVars
     ELSE /\ batch' = "running"
          /\ task' = [k \in DOMAIN list |-> "pair"]
          /\ specs' = [k \in DOMAIN list |-> {}]
          /\ result' = [k \in DOMAIN list |-> "none"]
  /\ UNCHANGED <<config, active, intents, errors>>

\* The tables change under the running tasks.
Deactivate(p) ==
  /\ batch = "running" /\ active[p]
  /\ active' = [active EXCEPT ![p] = FALSE]
  /\ UNCHANGED <<config, defect, asked, taskVars, batch, intents, errors>>

-----------------------------------------------------------------------------
(* generate_from_pair_id at position k.                                    *)

Proceed(k, place) == task' = [task EXCEPT ![k] = place] /\ UNCHANGED result

Finish(k, r) ==
  /\ task' = [task EXCEPT ![k] = "done"]
  /\ result' = [result EXCEPT ![k] = r]

\* Continue unless the pair's rows have one of these defects.
Unless(k, wrong, place) ==
  IF defect[asked[k]] \in wrong THEN Finish(k, defect[asked[k]]) ELSE Proceed(k, place)

\* Mutant: a pair that is not active is reported like one that does not exist.
ReadPairBlurs(k) ==
  /\ task[k] = "pair"
  /\ IF active[asked[k]] THEN Unless(k, {"not found", "not active"}, "markets")
     ELSE Finish(k, "not found")
  /\ UNCHANGED specs

\* get_verified_pair
ReadPair(k) ==
  /\ task[k] = "pair"
  /\ IF active[asked[k]] THEN Unless(k, {"not found", "not active"}, "markets")
     ELSE Finish(k, IF defect[asked[k]] = "not found" THEN "not found" ELSE "not active")
  /\ UNCHANGED specs

\* get_markets, the count of its rows, parse_outcome_mapping
ReadMarkets(k) ==
  /\ task[k] = "markets"
  /\ Unless(k, {"one market", "bad mapping"}, "specs")
  /\ UNCHANGED specs

\* One get_contract_spec of try_join!; after the other one, parse_spec_outcomes,
\* the YES_A key, and the venues of the intent.
ReadSpec(k, leg) ==
  /\ task[k] = "specs" /\ leg \notin specs[k]
  /\ specs' = [specs EXCEPT ![k] = @ \cup {leg}]
  /\ IF defect[asked[k]] = "no spec" THEN Finish(k, "no spec")
     ELSE IF specs[k] = {} THEN Proceed(k, "specs")
     ELSE Finish(k, IF defect[asked[k]] = "none" THEN "intent" ELSE defect[asked[k]])

QueryFails(k) ==
  /\ task[k] # "done"
  /\ Finish(k, "database")
  /\ UNCHANGED specs

\* Mutant: get_contract_spec has no timeout.
QueryTimesOutButSpecs(k) ==
  /\ task[k] \in {"pair", "markets"}
  /\ Finish(k, "timeout")
  /\ UNCHANGED specs

\* timeout(query_timeout, ...)
QueryTimesOut(k) ==
  /\ task[k] # "done"
  /\ Finish(k, "timeout")
  /\ UNCHANGED specs

\* join_all gets a JoinError.
TaskPanics(k) ==
  /\ task[k] # "done"
  /\ Finish(k, "panicked")
  /\ UNCHANGED specs

InTask ==
  /\ batch = "running"
  /\ UNCHANGED <<config, dbVars, asked, batch, intents, errors>>

TaskStep(k) ==
  /\ InTask
  /\ \/ ReadPair(k) \/ ReadMarkets(k) \/ QueryFails(k) \/ TaskPanics(k)
     \/ \E leg \in {"A", "B"} : ReadSpec(k, leg)

TimeOut(k) == InTask /\ QueryTimesOut(k)

-----------------------------------------------------------------------------
\* The members of S in the order of the request.
Collected(S) == Kept([k \in Positions |-> k], S)

\* Mutant: timeouts are logged and dropped.
ReturnWithoutTimeouts ==
  /\ batch = "running"
  /\ \A k \in Positions : task[k] = "done"
  /\ batch' = "returned"
  /\ intents' = Collected({k \in Positions : result[k] = "intent"})
  /\ errors' = Collected({k \in Positions : result[k] \notin {"intent", "timeout", "panicked"}})
  /\ UNCHANGED <<config, dbVars, asked, taskVars>>

\* join_all waits for every task and keeps the order of the request; a position
\* whose task panicked is logged and goes into neither vector.
ReturnBatch ==
  /\ batch = "running"
  /\ \A k \in Positions : task[k] = "done"
  /\ batch' = "returned"
  /\ intents' = Collected({k \in Positions : result[k] = "intent"})
  /\ errors' = Collected({k \in Positions : result[k] \notin {"intent", "panicked"}})
  /\ UNCHANGED <<config, dbVars, asked, taskVars>>

=============================================================================
