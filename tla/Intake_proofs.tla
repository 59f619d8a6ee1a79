---------------------------- MODULE Intake_proofs ---------------------------
(***************************************************************************)
(* Proofs about Intake, for every number of callers, pairs, requests,      *)
(* configurations and failures.  The set-up and the lane keep in the       *)
(* composition what they promise alone; what a batch returns is sound and  *)
(* true, and accounts for every pair whose task did not panic.             *)
(***************************************************************************)
EXTENDS Intake, TestSetup_proofs, SeqFunctions_proofs

-----------------------------------------------------------------------------
(***************************************************************************)
(* The lane alone, for every set of calls: the numbers given out grow in   *)
(* the order of the calls' fetch_adds, whatever becomes of the intents.    *)
(***************************************************************************)
\* Every number given out is below the counter.
GivenOut == \A c \in Calls : lane[c] # "outside" => number[c] < counter

LaneInv == LaneTypeOK /\ GivenOut

LEMMA LaneInitInv == LaneInit => LaneInv
BY DEF LaneInit, LaneInv, LaneTypeOK, LanePC, GivenOut

\* fetch_add: the number is new, as all others are below the counter.
LEMMA TakeNumberInv ==
  ASSUME LaneInv, NEW c \in Calls, TakeNumber(c)
  PROVE  LaneInv'
<1> USE DEF LaneInv, TakeNumber
<1>1. LaneTypeOK'
  BY DEF LaneTypeOK, LanePC
<1>2. GivenOut'
  BY DEF GivenOut, LaneTypeOK
<1> QED
  BY <1>1, <1>2

\* A delegated or refused intent keeps its number.
LEMMA DelegateInv ==
  ASSUME LaneInv, NEW c \in Calls, NEW accepted \in BOOLEAN, Delegate(c, accepted)
  PROVE  LaneInv'
<1> USE DEF LaneInv, Delegate
<1>1. LaneTypeOK'
  BY DEF LaneTypeOK, LanePC
<1>2. GivenOut'
  BY DEF GivenOut, LaneTypeOK
<1> QED
  BY <1>1, <1>2

LEMMA LaneNextInv == LaneInv /\ [LaneNext]_laneVars => LaneInv'
<1> SUFFICES ASSUME LaneInv, [LaneNext]_laneVars
             PROVE  LaneInv'
  OBVIOUS
<1>1. CASE LaneNext
  BY <1>1, TakeNumberInv, DelegateInv DEF LaneNext
<1>2. CASE UNCHANGED laneVars
  BY <1>2 DEF laneVars, LaneInv, LaneTypeOK, GivenOut
<1> QED
  BY <1>1, <1>2

\* A call that takes its number while another has one takes a larger one.
LEMMA LaterStep ==
  ASSUME LaneInv, LaneNext, NEW c \in Calls, NEW d \in Calls,
         lane[c] # "outside", lane[d] = "outside", lane'[d] # "outside"
  PROVE  number'[d] > number[c]
<1>1. TakeNumber(d)
  BY DEF LaneNext, TakeNumber, Delegate, LaneInv, LaneTypeOK
<1>2. number'[d] = counter /\ number[c] < counter /\ counter \in Nat /\ number[c] \in Nat
  BY <1>1 DEF TakeNumber, LaneInv, LaneTypeOK, GivenOut
<1> QED
  BY <1>2

LEMMA LaneAlwaysInv == LaneSpec => []LaneInv
BY LaneInitInv, LaneNextInv, PTL DEF LaneSpec

\* SequenceGenerator::next, "monotonically increasing": the call that takes its
\* number later has the larger one.
THEOREM LaneLaterIsLarger == LaneSpec => LaterIsLarger
<1> DEFINE Step == \A c, d \in Calls :
                     lane[c] # "outside" /\ lane[d] = "outside" /\ lane'[d] # "outside"
                       => number'[d] > number[c]
<1>1. LaneInv /\ [LaneNext]_laneVars => [Step]_laneVars
  BY LaterStep
<1>2. LaneSpec => [][Step]_laneVars
  BY <1>1, LaneAlwaysInv, PTL DEF LaneSpec
<1> QED
  BY <1>2 DEF LaterIsLarger

-----------------------------------------------------------------------------
(***************************************************************************)
(* Composition: a step of the whole is a step or a stutter of each part.   *)
(***************************************************************************)
LEMMA StepOfSetup == [Next]_vars => [SetupNext]_setupVars
BY DEF Next, vars, RunSetup, StartBatch, RunBatch, EndBatch, RunLane, QueryTimeOut

LEMMA StepOfLane == [Next]_vars => [LaneNext]_laneVars
BY DEF Next, vars, RunSetup, StartBatch, RunBatch, EndBatch, RunLane, QueryTimeOut,
       LaneNext

\* setup_test_customer_scope_strategy before a batch: still idempotent.
THEOREM IntakeSetupIdempotent == Spec => []SetupIsIdempotent
<1>1. Spec => SetupSpec
  BY StepOfSetup, PTL DEF Spec, Init, SetupSpec
<1> QED
  BY <1>1, SetupIdempotent

\* enqueue_intent for the intents of a batch: a later call has a larger number.
THEOREM IntakeLaterIsLarger == Spec => LaterIsLarger
<1>1. Spec => LaneSpec
  BY StepOfLane, PTL DEF Spec, Init, LaneSpec
<1> QED
  BY <1>1, LaneLaterIsLarger

-----------------------------------------------------------------------------
(***************************************************************************)
(* IntentsAreSound: a batch runs only with a valid configuration, which    *)
(* does not change, and intents appear only when it returns.               *)
(***************************************************************************)
SoundInv ==
  /\ batch \in {"running", "returned"} => ConfigValid(config)
  /\ batch # "returned" => intents = <<>>

LEMMA SoundNext == SoundInv /\ [Next]_vars => SoundInv'
<1> SUFFICES ASSUME SoundInv, [Next]_vars
             PROVE  SoundInv'
  OBVIOUS
<1>1. CASE UNCHANGED batchVars
  BY <1>1 DEF batchVars, SoundInv, ConfigValid
<1>2. CASE StartBatch
  BY <1>2 DEF StartBatch, RefuseConfig, Request, SoundInv, ConfigValid
<1>3. CASE RunBatch
  BY <1>3 DEF RunBatch, Deactivate, TaskStep, InTask, SoundInv, ConfigValid
<1>4. CASE \E k \in 1..MaxBatch : QueryTimeOut(k)
  BY <1>4 DEF QueryTimeOut, TimeOut, InTask, SoundInv, ConfigValid
<1>5. CASE EndBatch
  BY <1>5 DEF EndBatch, ReturnBatch, SoundInv, ConfigValid
<1> QED
  BY <1>1, <1>2, <1>3, <1>4, <1>5 DEF Next, vars, RunSetup, RunLane

\* A valid configuration makes an intent that ArbExecutionIntent::validate
\* accepts, with leg B within the bounds that validate leaves unchecked.
LEMMA ValidConfigIsSound ==
  ASSUME ConfigValid(config)
  PROVE  IntentValid(IntentOf(config)) /\ LegSane(IntentOf(config).B)
BY DEF ConfigValid, IntentOf, LegSpec, IntentValid, LegSane, ScaleFits

\* generate_batch and TestConfig::validate: whatever is configured and asked, the
\* intents that reach the lane are sound on both legs.
THEOREM IntakeIntentsAreSound == Spec => []IntentsAreSound
<1>1. Init => SoundInv
  BY DEF Init, BatchInit, SoundInv
<1>2. SoundInv => IntentsAreSound
  <2> SUFFICES ASSUME SoundInv, NEW i \in DOMAIN intents
               PROVE  IntentValid(IntentOf(config)) /\ LegSane(IntentOf(config).B)
    BY DEF IntentsAreSound
  <2>1. batch = "returned"
    BY DEF SoundInv
  <2> QED
    BY <2>1, ValidConfigIsSound DEF SoundInv
<1> QED
  BY <1>1, <1>2, SoundNext, PTL DEF Spec

-----------------------------------------------------------------------------
(***************************************************************************)
(* ResultsAreTrue: each query either finds the pair's defect or goes on;   *)
(* a pair that is inactive once stays so while the batch runs.             *)
(***************************************************************************)
ResultsInv ==
  /\ task = [k \in Positions |-> task[k]]
  /\ result = [k \in Positions |-> result[k]]
  /\ batch = "none" => Positions = {}
  /\ active \in [Pairs -> BOOLEAN]
  /\ \A k \in Positions : asked[k] \in Pairs /\ defect[asked[k]] \in Defects
  /\ ResultsAreTrue

\* A task that ends at k with a true result leaves the results true.
LEMMA FinishTrue ==
  ASSUME ResultsInv, NEW k \in Positions, NEW r, Finish(k, r),
         UNCHANGED <<active, defect, asked, batch>>,
         r = "intent" => defect[asked[k]] = "none",
         r \in Defects \ {"none"} =>
           r = defect[asked[k]] \/ (r = "not active" /\ ~active[asked[k]])
  PROVE  ResultsInv'
<1>1. /\ Positions' = Positions
      /\ task' = [j \in Positions' |-> task'[j]]
      /\ result' = [j \in Positions' |-> result'[j]]
  BY DEF Finish, ResultsInv, Positions
<1>2. \A j \in Positions : result'[j] = IF j = k THEN r ELSE result[j]
  BY DEF Finish, ResultsInv, Positions
<1>3. ResultsAreTrue'
  BY <1>1, <1>2 DEF ResultsAreTrue, ResultsInv
<1>4. \A j \in Positions' : asked'[j] \in Pairs /\ defect'[asked'[j]] \in Defects
  BY <1>1 DEF ResultsInv
<1> QED
  BY <1>1, <1>3, <1>4 DEF ResultsInv

LEMMA ProceedTrue ==
  ASSUME ResultsInv, NEW k \in Positions, NEW place, Proceed(k, place),
         UNCHANGED <<active, defect, asked, batch>>
  PROVE  ResultsInv'
BY DEF Proceed, ResultsInv, ResultsAreTrue, Positions

LEMMA UnlessTrue ==
  ASSUME ResultsInv, NEW k \in Positions, NEW wrong, NEW place, Unless(k, wrong, place),
         "none" \notin wrong, wrong \subseteq Defects, UNCHANGED <<active, defect, asked, batch>>
  PROVE  ResultsInv'
<1>1. CASE defect[asked[k]] \in wrong
  <2>1. defect[asked[k]] # "intent"
    BY <1>1 DEF Defects
  <2> QED
    BY <1>1, <2>1, FinishTrue DEF Unless
<1>2. CASE defect[asked[k]] \notin wrong
  BY <1>2, ProceedTrue DEF Unless
<1> QED
  BY <1>1, <1>2

\* Each query, its failure and its timeout, and a panic.
LEMMA QueryTrue ==
  ASSUME ResultsInv, NEW k \in Positions, InTask,
         \/ ReadPair(k) \/ ReadMarkets(k) \/ QueryFails(k) \/ QueryTimesOut(k) \/ TaskPanics(k)
         \/ \E leg \in {"A", "B"} : ReadSpec(k, leg)
  PROVE  ResultsInv'
<1>u. UNCHANGED <<active, defect, asked, batch>>
  BY DEF InTask, dbVars
<1>1. CASE ReadPair(k)
  <2>1. CASE active[asked[k]]
    BY <1>u, <1>1, <2>1, UnlessTrue DEF ReadPair, Defects
  <2>2. CASE ~active[asked[k]]
    BY <1>u, <1>1, <2>2, FinishTrue DEF ReadPair, Defects
  <2> QED
    BY <2>1, <2>2
<1>2. CASE ReadMarkets(k)
  BY <1>u, <1>2, UnlessTrue DEF ReadMarkets, Defects
<1>3. CASE QueryFails(k) \/ QueryTimesOut(k) \/ TaskPanics(k)
  BY <1>u, <1>3, FinishTrue DEF QueryFails, QueryTimesOut, TaskPanics, Defects
<1>4. ASSUME NEW leg \in {"A", "B"}, ReadSpec(k, leg)
      PROVE  ResultsInv'
  <2>1. CASE defect[asked[k]] = "no spec"
    BY <1>u, <1>4, <2>1, FinishTrue DEF ReadSpec
  <2>2. CASE defect[asked[k]] # "no spec" /\ specs[k] = {}
    BY <1>u, <1>4, <2>2, ProceedTrue DEF ReadSpec
  <2>3. CASE defect[asked[k]] = "none" /\ specs[k] # {}
    BY <1>u, <1>4, <2>3, FinishTrue DEF ReadSpec, Defects
  <2>4. CASE defect[asked[k]] \notin {"none", "no spec"} /\ specs[k] # {}
    <3>1. defect[asked[k]] # "intent"
      BY DEF ResultsInv, Defects
    <3> QED
      BY <1>u, <1>4, <2>4, <3>1, FinishTrue DEF ReadSpec
  <2> QED
    BY <2>1, <2>2, <2>3, <2>4
<1> QED
  BY <1>1, <1>2, <1>3, <1>4

LEMMA ResultsNext == ResultsInv /\ [Next]_vars => ResultsInv'
<1> SUFFICES ASSUME ResultsInv, [Next]_vars
             PROVE  ResultsInv'
  OBVIOUS
<1>1. CASE UNCHANGED <<dbVars, asked, taskVars, batch>>
  BY <1>1 DEF dbVars, taskVars, ResultsInv, ResultsAreTrue, Positions
<1>2. CASE StartBatch
  <2>1. CASE RefuseConfig
    BY <2>1 DEF RefuseConfig, dbVars, taskVars, ResultsInv, ResultsAreTrue, Positions
  <2>2. ASSUME NEW list \in SeqOf(Pairs, MaxAsked), NEW wrong \in [Pairs -> Defects],
               Request(list, wrong)
        PROVE  ResultsInv'
    <3>1. CASE UNCHANGED taskVars /\ batch' = "too big"
      BY <2>2, <3>1 DEF Request, taskVars, ResultsInv, ResultsAreTrue, Positions
    <3>2. CASE /\ task' = [k \in DOMAIN list |-> "pair"]
               /\ result' = [k \in DOMAIN list |-> "none"]
               /\ batch' = "running"
      <4>1. Positions' = DOMAIN list
        BY <3>2 DEF Positions
      <4>2. \A k \in DOMAIN list : list[k] \in Pairs /\ wrong[list[k]] \in Defects
        BY DEF SeqOf
      <4>3. \A k \in Positions' : /\ asked'[k] \in Pairs
                                  /\ defect'[asked'[k]] \in Defects
                                  /\ result'[k] = "none"
        BY <2>2, <3>2, <4>1, <4>2 DEF Request
      <4> QED
        BY <2>2, <3>2, <4>1, <4>3 DEF Request, ResultsInv, ResultsAreTrue
    <3> QED
      BY <2>2, <3>1, <3>2 DEF Request
  <2> QED
    BY <1>2, <2>1, <2>2 DEF StartBatch
<1>3. ASSUME NEW p \in Pairs, Deactivate(p)
      PROVE  ResultsInv'
  <2>1. Positions' = Positions /\ active' \in [Pairs -> BOOLEAN]
    BY <1>3 DEF Deactivate, taskVars, ResultsInv, Positions
  <2>2. \A q \in Pairs : ~active[q] => ~active'[q]
    BY <1>3 DEF Deactivate, ResultsInv
  <2>3. ResultsAreTrue'
    BY <1>3, <2>1, <2>2 DEF Deactivate, taskVars, ResultsInv, ResultsAreTrue
  <2> QED
    BY <1>3, <2>1, <2>3 DEF Deactivate, taskVars, ResultsInv
<1>4. CASE EndBatch
  BY <1>4 DEF EndBatch, ReturnBatch, dbVars, taskVars, ResultsInv, ResultsAreTrue, Positions
<1>5. ASSUME NEW k \in Positions, TaskStep(k) \/ TimeOut(k)
      PROVE  ResultsInv'
  BY <1>5, QueryTrue DEF TaskStep, TimeOut
<1> QED
  BY <1>1, <1>2, <1>3, <1>4, <1>5
     DEF Next, vars, batchVars, RunSetup, RunBatch, RunLane, QueryTimeOut

LEMMA ResultsInit == Init => ResultsInv
BY DEF Init, BatchInit, ResultsInv, ResultsAreTrue, Positions

\* generate_from_pair_id over tables that change: an intent comes only of complete
\* rows, and an error names what was wrong with the pair.
THEOREM IntakeResultsAreTrue == Spec => []ResultsAreTrue
<1>1. ResultsInv => ResultsAreTrue
  BY DEF ResultsInv
<1> QED
  BY <1>1, ResultsInit, ResultsNext, PTL DEF Spec

-----------------------------------------------------------------------------
(***************************************************************************)
(* Types.  Between the request and the return, a task goes from query to   *)
(* query; nothing else of the batch changes.                               *)
(***************************************************************************)
Outcomes == Error \cup {"none", "intent", "panicked"}

LEMMA TaskType ==
  ASSUME BatchTypeOK, NEW k \in Positions, NEW p \in TaskPC, NEW r \in Outcomes,
         UNCHANGED <<config, active, defect, asked, batch, intents, errors>>,
         task' = [task EXCEPT ![k] = p],
         result' = result \/ result' = [result EXCEPT ![k] = r],
         specs' \in [Positions -> SUBSET {"A", "B"}]
  PROVE  BatchTypeOK'
<1>1. task' \in Seq(TaskPC) /\ Positions' = Positions
  BY DEF BatchTypeOK, Positions
<1>2. result' \in [Positions -> Outcomes]
  BY DEF BatchTypeOK, Outcomes
<1> QED
  BY <1>1, <1>2 DEF BatchTypeOK, Outcomes

LEMMA FinishType ==
  ASSUME BatchTypeOK, NEW k \in Positions, NEW r \in Outcomes, InTask, Finish(k, r),
         specs' \in [Positions -> SUBSET {"A", "B"}]
  PROVE  BatchTypeOK'
<1>1. "done" \in TaskPC
  BY DEF TaskPC
<1> QED
  BY <1>1, TaskType DEF Finish, InTask, dbVars

LEMMA ProceedType ==
  ASSUME BatchTypeOK, NEW k \in Positions, NEW p \in TaskPC, InTask, Proceed(k, p),
         specs' \in [Positions -> SUBSET {"A", "B"}]
  PROVE  BatchTypeOK'
<1>1. "none" \in Outcomes
  BY DEF Outcomes
<1> QED
  BY <1>1, TaskType DEF Proceed, InTask, dbVars

LEMMA QueryType ==
  ASSUME BatchTypeOK, ResultsInv, NEW k \in Positions, InTask,
         \/ ReadPair(k) \/ ReadMarkets(k) \/ QueryFails(k) \/ QueryTimesOut(k) \/ TaskPanics(k)
         \/ \E leg \in {"A", "B"} : ReadSpec(k, leg)
  PROVE  BatchTypeOK'
<1>1. defect[asked[k]] \in Outcomes
  BY DEF ResultsInv, Outcomes, Error
<1>2. /\ {"not found", "not active", "intent", "database", "timeout", "panicked", "no spec"} \subseteq Outcomes
      /\ {"markets", "specs"} \subseteq TaskPC
  BY DEF Outcomes, Error, Defects, TaskPC
<1>3. specs \in [Positions -> SUBSET {"A", "B"}]
  BY DEF BatchTypeOK
<1>4. ASSUME NEW leg \in {"A", "B"}, ReadSpec(k, leg)
      PROVE  BatchTypeOK'
  <2>1. specs' \in [Positions -> SUBSET {"A", "B"}]
    BY <1>3, <1>4 DEF ReadSpec
  <2>2. (\E r \in Outcomes : Finish(k, r)) \/ Proceed(k, "specs")
    BY <1>1, <1>2, <1>4 DEF ReadSpec
  <2> QED
    BY <1>2, <2>1, <2>2, FinishType, ProceedType
<1>5. CASE ReadPair(k) \/ ReadMarkets(k) \/ QueryFails(k) \/ QueryTimesOut(k) \/ TaskPanics(k)
  <2>1. specs' \in [Positions -> SUBSET {"A", "B"}]
    BY <1>3, <1>5 DEF ReadPair, ReadMarkets, QueryFails, QueryTimesOut, TaskPanics
  <2>2. (\E r \in Outcomes : Finish(k, r)) \/ (\E p \in TaskPC : Proceed(k, p))
    BY <1>1, <1>2, <1>5 DEF ReadPair, ReadMarkets, QueryFails, QueryTimesOut, TaskPanics, Unless
  <2> QED
    BY <2>1, <2>2, FinishType, ProceedType
<1> QED
  BY <1>4, <1>5

\* The positions of a request, in its order.
Places == [k \in Positions |-> k]

LEMMA PlacesSeq ==
  ASSUME BatchTypeOK
  PROVE  /\ Places \in Seq(Nat) /\ DOMAIN Places = Positions /\ Positions \subseteq Nat
         /\ \A k \in Positions : Places[k] = k
         /\ ToSet(Places) = Positions
<1>1. Positions = 1..Len(task) /\ Len(task) \in Nat
  BY DEF BatchTypeOK, Positions
<1>2. DOMAIN Places = Positions /\ \A k \in Positions : Places[k] = k
  BY DEF Places
<1>3. Places \in Seq(Nat)
  BY <1>1 DEF Places
<1> QED
  BY <1>1, <1>2, <1>3 DEF ToSet

LEMMA BatchTypeNext ==
  ASSUME BatchTypeOK, ResultsInv, [Next]_vars
  PROVE  BatchTypeOK'
<1>1. CASE UNCHANGED batchVars
  BY <1>1 DEF batchVars, dbVars, taskVars, BatchTypeOK, Positions
<1>2. CASE StartBatch
  <2>1. CASE RefuseConfig
    BY <2>1 DEF RefuseConfig, dbVars, taskVars, BatchTypeOK, Positions, BatchPC
  <2>2. ASSUME NEW list \in SeqOf(Pairs, MaxAsked), NEW wrong \in [Pairs -> Defects],
               Request(list, wrong)
        PROVE  BatchTypeOK'
    <3>1. list \in Seq(Pairs)
      BY DEF SeqOf
    <3>2. /\ asked' \in Seq(Pairs) /\ defect' \in [Pairs -> Defects]
          /\ UNCHANGED <<config, active, intents, errors>> /\ batch' \in BatchPC
      BY <2>2, <3>1 DEF Request, BatchPC
    <3>3. CASE UNCHANGED taskVars
      BY <3>2, <3>3 DEF taskVars, BatchTypeOK, Positions
    <3>4. CASE /\ task' = [k \in DOMAIN list |-> "pair"]
               /\ specs' = [k \in DOMAIN list |-> {}]
               /\ result' = [k \in DOMAIN list |-> "none"]
      <4>1. task' \in Seq(TaskPC) /\ Positions' = DOMAIN list
        BY <3>1, <3>4 DEF Positions, TaskPC
      <4>2. specs' \in [Positions' -> SUBSET {"A", "B"}] /\ result' \in [Positions' -> Outcomes]
        BY <3>4, <4>1 DEF Outcomes
      <4> QED
        BY <3>2, <4>1, <4>2 DEF BatchTypeOK, Outcomes
    <3> QED
      BY <2>2, <3>3, <3>4 DEF Request
  <2> QED
    BY <1>2, <2>1, <2>2 DEF StartBatch
<1>3. ASSUME NEW p \in Pairs, Deactivate(p)
      PROVE  BatchTypeOK'
  BY <1>3 DEF Deactivate, taskVars, BatchTypeOK, Positions
<1>4. CASE EndBatch
  <2>1. \A S : Collected(S) \in Seq(Nat)
    BY PlacesSeq, KeptSeq DEF Collected, Places
  <2>2. intents' \in Seq(Nat) /\ errors' \in Seq(Nat) /\ batch' \in BatchPC
    BY <1>4, <2>1 DEF EndBatch, ReturnBatch, BatchPC
  <2> QED
    BY <1>4, <2>2 DEF EndBatch, ReturnBatch, dbVars, taskVars, BatchTypeOK, Positions
<1>5. ASSUME NEW k \in Positions, TaskStep(k) \/ TimeOut(k)
      PROVE  BatchTypeOK'
  BY <1>5, QueryType DEF TaskStep, TimeOut
<1> QED
  BY <1>1, <1>2, <1>3, <1>4, <1>5 DEF Next, vars, RunSetup, RunBatch, RunLane, QueryTimeOut

-----------------------------------------------------------------------------
(***************************************************************************)
(* BatchAccounts: the two vectors are selections of the request's          *)
(* positions by what each task returned.                                   *)
(***************************************************************************)
Succeeded == {k \in Positions : result[k] = "intent"}
Failed    == {k \in Positions : result[k] \notin {"intent", "panicked"}}

AccountsInv ==
  batch = "returned" => intents = Collected(Succeeded) /\ errors = Collected(Failed)

LEMMA AccountsNext == AccountsInv /\ [Next]_vars => AccountsInv'
<1> SUFFICES ASSUME AccountsInv, [Next]_vars
             PROVE  AccountsInv'
  OBVIOUS
<1> USE DEF AccountsInv
<1>1. CASE UNCHANGED <<taskVars, batch, intents, errors>>
  BY <1>1 DEF taskVars, Succeeded, Failed, Collected, Positions
<1>2. CASE StartBatch
  BY <1>2 DEF StartBatch, RefuseConfig, Request
<1>3. CASE RunBatch
  BY <1>3 DEF RunBatch, Deactivate, TaskStep, InTask
<1>4. CASE \E k \in 1..MaxBatch : QueryTimeOut(k)
  BY <1>4 DEF QueryTimeOut, TimeOut, InTask
<1>5. CASE EndBatch
  BY <1>5 DEF EndBatch, ReturnBatch, taskVars, Succeeded, Failed, Collected, Positions
<1> QED
  BY <1>1, <1>2, <1>3, <1>4, <1>5 DEF Next, vars, RunSetup, RunLane, batchVars

\* A selection has each of its positions once, in the order of the request.
LEMMA CollectedOnce ==
  ASSUME BatchTypeOK, NEW S
  PROVE  /\ \A i, j \in DOMAIN Collected(S) : i < j => Collected(S)[i] < Collected(S)[j]
         /\ \A k \in Positions :
              /\ Contains(Collected(S), k) <=> k \in S
              /\ Cardinality({i \in DOMAIN Collected(S) : Collected(S)[i] = k})
                   = IF k \in S THEN 1 ELSE 0
<1> DEFINE c == Collected(S)
<1>1. /\ Places \in Seq(Nat) /\ DOMAIN Places = Positions /\ Positions \subseteq Nat
      /\ \A k \in Positions : Places[k] = k
      /\ ToSet(Places) = Positions
  BY PlacesSeq
<1>2. c = Kept(Places, S)
  BY DEF Collected, Places
<1>3. c \in Seq(Nat) /\ ToSet(c) = Positions \cap S
  BY <1>1, <1>2, KeptSeq, KeptElements
<1>4. \A i, j \in DOMAIN c : i < j => c[i] < c[j]
  <2>1. PICK at \in [DOMAIN c -> Positions] :
           /\ \A i, j \in DOMAIN c : i < j => at[i] < at[j]
           /\ \A i \in DOMAIN c : c[i] = Places[at[i]]
    BY <1>1, <1>2, KeptPlaces
  <2>2. \A i \in DOMAIN c : c[i] = at[i]
    BY <1>1, <2>1
  <2> QED
    BY <2>1, <2>2
<1> HIDE DEF c
<1>5. DOMAIN c = 1..Len(c) /\ Len(c) \in Nat
  BY <1>3
<1>6. ASSUME NEW k \in Positions
      PROVE  /\ Contains(c, k) <=> k \in S
             /\ Cardinality({i \in DOMAIN c : c[i] = k}) = IF k \in S THEN 1 ELSE 0
  <2>1. Contains(c, k) <=> k \in S
    BY <1>3, <1>5 DEF Contains, ToSet
  <2>2. CASE k \notin S
    <3>1. {i \in DOMAIN c : c[i] = k} = {}
      BY <1>3, <2>2 DEF ToSet
    <3> QED
      BY <2>1, <2>2, <3>1, FS_EmptySet
  <2>3. CASE k \in S
    <3>1. PICK i \in DOMAIN c : c[i] = k
      BY <1>3, <2>3 DEF ToSet
    <3>2. ASSUME NEW j \in DOMAIN c, c[j] = k
          PROVE  j = i
      <4>1. c[i] \in Nat /\ c[j] \in Nat /\ i \in Int /\ j \in Int
        BY <1>3, <1>5
      <4>2. ~ (i < j) /\ ~ (j < i)
        BY <1>4, <3>1, <3>2, <4>1
      <4> QED
        BY <4>1, <4>2
    <3>3. {j \in DOMAIN c : c[j] = k} = {i}
      BY <3>1, <3>2
    <3> QED
      BY <2>1, <2>3, <3>3, FS_Singleton
  <2> QED
    BY <2>2, <2>3
<1> QED
  BY <1>4, <1>6 DEF c

\* Types of the batch and of the lane behind it, whatever the tables hold.
THEOREM IntakeTypeOK == Spec => []TypeOK
<1>1. Init => BatchTypeOK
  BY DEF Init, BatchInit, BatchTypeOK, Positions, BatchPC, TaskPC, Defects
<1>2. Spec => [](BatchTypeOK /\ ResultsInv)
  BY <1>1, ResultsInit, ResultsNext, BatchTypeNext, PTL DEF Spec
<1>3. Spec => LaneSpec
  BY StepOfLane, PTL DEF Spec, Init, LaneSpec
<1>4. LaneInv => LaneTypeOK
  BY DEF LaneInv
<1> QED
  BY <1>2, <1>3, <1>4, LaneAlwaysInv, PTL DEF TypeOK

\* generate_batch: join_all's results are split so that every position of the
\* request whose task ended by itself, repeated pairs included, is in one of the two
\* vectors, once and in the request's order, and one whose task panicked in none.
THEOREM IntakeBatchAccounts == Spec => []BatchAccounts
<1>1. Init => AccountsInv
  BY DEF Init, BatchInit, AccountsInv
<1>2. ASSUME BatchTypeOK, AccountsInv
      PROVE  BatchAccounts
  <2> SUFFICES ASSUME batch = "returned"
               PROVE  /\ \A k \in Positions :
                           /\ Cardinality({i \in DOMAIN intents : intents[i] = k})
                                + Cardinality({i \in DOMAIN errors : errors[i] = k})
                                    = IF result[k] = "panicked" THEN 0 ELSE 1
                           /\ Contains(intents, k) <=> result[k] = "intent"
                      /\ \A s \in {intents, errors} :
                           \A i, j \in DOMAIN s : i < j => s[i] < s[j]
    BY DEF BatchAccounts
  <2>1. intents = Collected(Succeeded) /\ errors = Collected(Failed)
    BY <1>2 DEF AccountsInv
  <2>2. \A k \in Positions : /\ k \in Succeeded <=> result[k] = "intent"
                             /\ k \in Failed <=> result[k] \notin {"intent", "panicked"}
    BY DEF Succeeded, Failed
  <2>3. \A k \in Positions :
          /\ Contains(intents, k) <=> k \in Succeeded
          /\ Cardinality({i \in DOMAIN intents : intents[i] = k})
               = IF k \in Succeeded THEN 1 ELSE 0
          /\ Cardinality({i \in DOMAIN errors : errors[i] = k})
               = IF k \in Failed THEN 1 ELSE 0
    BY <1>2, <2>1, CollectedOnce
  <2>4. \A s \in {intents, errors} : \A i, j \in DOMAIN s : i < j => s[i] < s[j]
    BY <1>2, <2>1, CollectedOnce
  <2> QED
    BY <2>2, <2>3, <2>4
<1>3. Spec => []BatchTypeOK
  BY IntakeTypeOK, PTL DEF TypeOK
<1> QED
  BY <1>1, <1>2, <1>3, AccountsNext, PTL DEF Spec

=============================================================================
