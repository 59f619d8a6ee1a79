----------------------------- MODULE TestSetup ------------------------------
(***************************************************************************)
(* DatabaseReader::setup_test_customer_scope_strategy, called by several   *)
(* tests for one customer at once: user, customer and scope are inserted   *)
(* or, on conflict, found; then get_or_create_test_strategy checks the     *)
(* scope, looks for the strategy, and inserts it if it saw none.  Every    *)
(* statement runs under a timeout, which drops it without knowing whether  *)
(* it took effect; the caller may call again.                              *)
(***************************************************************************)
EXTENDS Integers, Sequences, FiniteSets

CONSTANTS
  Callers,   \* tests that set up the customer
  MaxFaults  \* bound: calls that fail

Tables == {"users", "customers", "scopes", "strategies"}

VARIABLES
  rows,     \* the ids of the customer's rows in each table
  setup,    \* the statement each call awaits
  ids,      \* the ids each call has got: 0 is none
  faults    \* calls that have failed

setupVars == <<rows, setup, ids, faults>>

SetupPC == {"idle", "users", "customers", "scopes", "check", "select", "strategies",
            "returned", "failed"}

SetupInit ==
  /\ rows = [t \in Tables |-> {}]
  /\ setup = [c \in Callers |-> "idle"]
  /\ ids = [c \in Callers |-> [t \in Tables |-> 0]]
  /\ faults = 0

\* The statement after the one of this table.
After(t) == CASE t = "users" -> "customers"  [] t = "customers" -> "scopes"
              [] t = "scopes" -> "check"     [] t = "strategies" -> "returned"

CallSetup(c) ==
  /\ setup[c] \in {"idle", "failed"}
  /\ setup' = [setup EXCEPT ![c] = "users"]
  /\ UNCHANGED <<rows, ids, faults>>

\* Mutant: an INSERT without ON CONFLICT.
InsertedAlways(t) == rows[t] \cup {Cardinality(rows[t]) + 1}

\* INSERT ... ON CONFLICT DO UPDATE: a new row only if there is none.
Inserted(t) == IF rows[t] = {} THEN {1} ELSE rows[t]

\* The statement commits, and RETURNING gives the row's id.
Upsert(c) ==
  LET t == setup[c]
  IN  /\ t \in Tables
      /\ rows' = [rows EXCEPT ![t] = Inserted(t)]
      /\ ids' = [ids EXCEPT ![c][t] = Cardinality(Inserted(t))]
      /\ setup' = [setup EXCEPT ![c] = After(t)]
      /\ UNCHANGED faults

\* get_or_create_test_strategy: the scope must exist.
CheckScope(c) ==
  /\ setup[c] = "check"
  /\ setup' = [setup EXCEPT ![c] =
                 IF ids[c]["scopes"] \in rows["scopes"] THEN "select" ELSE "failed"]
  /\ UNCHANGED <<rows, ids, faults>>

\* A strategy that exists is taken; otherwise it is inserted next.
SelectStrategy(c) ==
  /\ setup[c] = "select"
  /\ \/ /\ rows["strategies"] = {}
        /\ setup' = [setup EXCEPT ![c] = "strategies"]
        /\ UNCHANGED ids
     \/ \E id \in rows["strategies"] :
          /\ setup' = [setup EXCEPT ![c] = "returned"]
          /\ ids' = [ids EXCEPT ![c]["strategies"] = id]
  /\ UNCHANGED <<rows, faults>>

\* The statement fails or its time is over; an insert may have committed.  What
\* the call knew is gone.
SetupFails(c) ==
  /\ setup[c] \notin {"idle", "returned", "failed"} /\ faults < MaxFaults
  /\ \/ UNCHANGED rows
     \/ /\ setup[c] \in Tables
        /\ rows' = [rows EXCEPT ![setup[c]] = Inserted(setup[c])]
  /\ setup' = [setup EXCEPT ![c] = "failed"]
  /\ ids' = [ids EXCEPT ![c] = [t \in Tables |-> 0]]
  /\ faults' = faults + 1

SetupStep(c) == CallSetup(c) \/ Upsert(c) \/ CheckScope(c) \/ SelectStrategy(c) \/ SetupFails(c)

SetupNext == \E c \in Callers : SetupStep(c)

SetupSpec == SetupInit /\ [][SetupNext]_setupVars

\* "All operations are idempotent": however calls overlap, fail half-way, commit
\* without an answer and are repeated, each table gets one row, and every call
\* that returns names the same ones.
SetupIsIdempotent ==
  /\ \A t \in Tables : Cardinality(rows[t]) <= 1
  /\ \A c, d \in Callers : setup[c] = "returned" /\ setup[d] = "returned" => ids[c] = ids[d]
  /\ \A c \in Callers : setup[c] = "returned" => \A t \in Tables : ids[c][t] \in rows[t]

=============================================================================
