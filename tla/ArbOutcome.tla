----------------------------- MODULE ArbOutcome -----------------------------
(***************************************************************************)
(* What the coordinator promises about a two-legged execution, with no     *)
(* tasks, races or venues: while a call is open its orders may go live or  *)
(* die; the call completes only when every leg is live and fails only when *)
(* none is; and the verdict freezes the legs' fate.                        *)
(***************************************************************************)
CONSTANTS Calls, Legs

VARIABLES
  verdict,  \* what each call of enqueue_intent has reported
  book      \* what the order cache says of each leg's order

vars == <<verdict, book>>

OutcomeOrders == Calls \X Legs
LegsOf(c)     == {c} \X Legs

TypeOK ==
  /\ verdict \in [Calls -> {"open", "completed", "failed", "refused"}]
  /\ book \in [OutcomeOrders -> {"idle", "live", "dead"}]

Init ==
  /\ verdict = [c \in Calls |-> "open"]
  /\ book = [o \in OutcomeOrders |-> "idle"]

\* The venue acknowledged the order of an open call.
GoLive(o) ==
  /\ verdict[o[1]] = "open"
  /\ book[o] = "idle"
  /\ book' = [book EXCEPT ![o] = "live"]
  /\ UNCHANGED verdict

\* The order of an open call was rejected or canceled: it never revives.
Die(o) ==
  /\ verdict[o[1]] = "open"
  /\ book[o] # "dead"
  /\ book' = [book EXCEPT ![o] = "dead"]
  /\ UNCHANGED verdict

Report(c, v) ==
  /\ verdict[c] = "open"
  /\ verdict' = [verdict EXCEPT ![c] = v]
  /\ UNCHANGED book

Complete(c) == (\A o \in LegsOf(c) : book[o] = "live") /\ Report(c, "completed")
Fail(c)     == (\A o \in LegsOf(c) : book[o] # "live") /\ Report(c, "failed")
Refuse(c)   == (\A o \in LegsOf(c) : book[o] = "idle") /\ Report(c, "refused")

Next ==
  \/ \E o \in OutcomeOrders : GoLive(o) \/ Die(o)
  \/ \E c \in Calls : Complete(c) \/ Fail(c) \/ Refuse(c)

Spec == Init /\ [][Next]_vars
=============================================================================
