-------------------------------- MODULE Lane --------------------------------
(***************************************************************************)
(* ExecutionLaneRouter::enqueue_intent with its SequenceGenerator: a call  *)
(* takes a number (fetch_add) and then awaits the coordinator.  Between    *)
(* the two steps other calls overtake it, so intents reach the coordinator *)
(* in any order of their numbers.                                          *)
(***************************************************************************)
EXTENDS Integers, Sequences

CONSTANT Calls   \* calls of enqueue_intent

VARIABLES
  counter,   \* SequenceGenerator.counter
  number,    \* ArbExecutionIntent.sequence_number; 0, as it was generated, before
  lane       \* where each call is

laneVars == <<counter, number, lane>>

LanePC == {"outside", "numbered", "accepted", "refused"}

LaneTypeOK ==
  /\ counter \in Nat
  /\ number \in [Calls -> Nat]
  /\ lane \in [Calls -> LanePC]

LaneInit ==
  /\ counter = 0
  /\ number = [c \in Calls |-> 0]
  /\ lane = [c \in Calls |-> "outside"]

\* Mutant: the number before the next one.
TakeNumberBefore(c) ==
  /\ lane[c] = "outside"
  /\ number' = [number EXCEPT ![c] = counter - 1]
  /\ counter' = counter + 1
  /\ lane' = [lane EXCEPT ![c] = "numbered"]

\* SequenceGenerator::next is one fetch_add.
TakeNumber(c) ==
  /\ lane[c] = "outside"
  /\ number' = [number EXCEPT ![c] = counter]
  /\ counter' = counter + 1
  /\ lane' = [lane EXCEPT ![c] = "numbered"]

\* Mutant: a refused intent gives its number back.
DelegateGivesBack(c, accepted) ==
  /\ lane[c] = "numbered"
  /\ lane' = [lane EXCEPT ![c] = IF accepted THEN "accepted" ELSE "refused"]
  /\ counter' = IF accepted THEN counter ELSE counter - 1
  /\ UNCHANGED number

\* The coordinator takes the intent or returns an error; the number is spent.
Delegate(c, accepted) ==
  /\ lane[c] = "numbered"
  /\ lane' = [lane EXCEPT ![c] = IF accepted THEN "accepted" ELSE "refused"]
  /\ UNCHANGED <<counter, number>>

LaneNext ==
  \E c \in Calls : TakeNumber(c) \/ \E accepted \in BOOLEAN : Delegate(c, accepted)

LaneSpec == LaneInit /\ [][LaneNext]_laneVars

\* "Monotonically increasing": a call that takes its number later has the larger
\* one, wherever the earlier calls are by then and whether they were refused.  (No
\* two intents share a number, then; the order in which they reach the
\* coordinator is another matter, and nothing promises it.)
LaterIsLarger ==
  [][\A c, d \in Calls :
       lane[c] # "outside" /\ lane[d] = "outside" /\ lane'[d] # "outside"
         => number'[d] > number[c]]_laneVars

=============================================================================
