------------------------------- MODULE Intake -------------------------------
(***************************************************************************)
(* The way of an intent into the engine, as the tests and the example in   *)
(* the generator's documentation go it: set up the test customer, generate *)
(* a batch from the database, and hand each intent to the execution lane,  *)
(* which numbers it and delegates it to the coordinator.                   *)
(***************************************************************************)
EXTENDS TestSetup, IntentBatch, Lane

CONSTANT MaxAsked   \* bound: pair ids in a request

\* A call of the lane is named by its intent's place in the vector of intents.
ASSUME IntakeAssumption == Calls = 1..MaxBatch /\ MaxAsked > MaxBatch

vars == <<setupVars, batchVars, laneVars>>

Init == SetupInit /\ BatchInit /\ LaneInit

\* Setup is over: "called once in test setup, not during execution".
SetupDone == \A c \in Callers : setup[c] = "returned"

RunSetup ==
  /\ batch = "none"
  /\ SetupNext
  /\ UNCHANGED <<batchVars, laneVars>>

StartBatch ==
  /\ SetupDone
  /\ \/ RefuseConfig
     \/ \E list \in SeqOf(Pairs, MaxAsked), wrong \in [Pairs -> Defects] : Request(list, wrong)
  /\ UNCHANGED <<setupVars, laneVars>>

RunBatch ==
  /\ \/ \E p \in Pairs : Deactivate(p)
     \/ \E k \in Positions : TaskStep(k)
  /\ UNCHANGED <<setupVars, laneVars>>

QueryTimeOut(k) == k \in Positions /\ TimeOut(k) /\ UNCHANGED <<setupVars, laneVars>>

EndBatch == ReturnBatch /\ UNCHANGED <<setupVars, laneVars>>

\* The coordinator validates the intent before anything else; later it may still
\* return an error.
RunLane ==
  /\ batch = "returned"
  /\ \E c \in Calls :
       /\ c <= Len(intents)
       /\ \/ TakeNumber(c)
          \/ \E accepted \in BOOLEAN :
               /\ accepted => IntentValid(IntentOf(config))
               /\ Delegate(c, accepted)
  /\ UNCHANGED <<setupVars, batchVars>>

Next == \/ RunSetup \/ StartBatch \/ RunBatch \/ EndBatch \/ RunLane
        \/ \E k \in 1..MaxBatch : QueryTimeOut(k)

\* Timers fire and join_all is woken; the database owes no answer.
Fairness == WF_vars(EndBatch) /\ \A k \in 1..MaxBatch : WF_vars(QueryTimeOut(k))

Spec == Init /\ [][Next]_vars /\ Fairness

-----------------------------------------------------------------------------
\* Shape of the state.
TypeOK == BatchTypeOK /\ LaneTypeOK

\* Of the requested positions, repeated pairs included, each whose task ended by
\* itself is in exactly one of the two vectors, once, in the order of the request,
\* and in the first one iff its pair became an intent; the others are in neither.
BatchAccounts ==
  batch = "returned" =>
    /\ \A k \in Positions :
         /\ Cardinality({i \in DOMAIN intents : intents[i] = k})
              + Cardinality({i \in DOMAIN errors : errors[i] = k})
                  = IF result[k] = "panicked" THEN 0 ELSE 1
         /\ Contains(intents, k) <=> result[k] = "intent"
    /\ \A s \in {intents, errors} : \A i, j \in DOMAIN s : i < j => s[i] < s[j]

\* What reaches the lane is sound: the coordinator's validate accepts it, and leg
\* B's scales, which validate does not look at, are within bounds as well.
IntentsAreSound ==
  \A i \in DOMAIN intents : IntentValid(IntentOf(config)) /\ LegSane(IntentOf(config).B)

\* Only a pair whose rows were complete becomes an intent, and an error names what
\* is wrong: a pair is called inactive only if it was, or became so meanwhile.
ResultsAreTrue ==
  \A k \in Positions :
    LET wrong == defect[asked[k]]
    IN  /\ result[k] = "intent" => wrong = "none"
        /\ result[k] \in Defects \ {"none"} =>
             result[k] = wrong \/ (result[k] = "not active" /\ ~active[asked[k]])

\* A batch returns although the database never answers: every query is timed.
BatchReturns == batch = "running" ~> batch = "returned"

=============================================================================
