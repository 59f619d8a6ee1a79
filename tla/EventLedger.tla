----------------------------- MODULE EventLedger ----------------------------
(***************************************************************************)
(* What DatabaseWriter promises about an event it accepted, with no        *)
(* batches, queues or tasks: it holds the event until the database, the    *)
(* dead letter queue or an aborted task has it.  An event is recorded only *)
(* while it is held (so the writer may learn of it later than the table    *)
(* does), and once let go it is never taken up again.                      *)
(***************************************************************************)
CONSTANT Events

VARIABLES
  held,      \* events the writer answers for
  recorded,  \* events in the table
  dead,      \* events in the dead letter queue
  gone       \* events lost with an aborted task

vars == <<held, recorded, dead, gone>>

Init == held = {} /\ recorded = {} /\ dead = {} /\ gone = {}

Accept(e) ==
  /\ e \notin held \cup recorded \cup dead \cup gone
  /\ held' = held \cup {e}
  /\ UNCHANGED <<recorded, dead, gone>>

\* Held events reach the table; the writer lets them go if it hears of it.
Commit(S) ==
  /\ recorded' = recorded \cup S
  /\ held' \in {held, held \ S}
  /\ UNCHANGED <<dead, gone>>

\* The writer gives up; its last attempt may have reached the table all the same.
Bury(e) ==
  /\ dead' = dead \cup {e}
  /\ held' = held \ {e}
  /\ recorded' \in {recorded, recorded \cup {e}}
  /\ UNCHANGED gone

\* A task is aborted with what it had in hand, some of which reached the table.
Lose(S) ==
  /\ gone' = gone \cup S
  /\ held' = held \ S
  /\ \E C \in SUBSET S : recorded' = recorded \cup C
  /\ UNCHANGED dead

Next ==
  \/ \E e \in Events : Accept(e)
  \/ \E S \in SUBSET held : Commit(S) \/ Lose(S)
  \/ \E e \in held : Bury(e)

Spec == Init /\ [][Next]_vars
=============================================================================
