-------------------------- MODULE TestSetup_proofs --------------------------
(***************************************************************************)
(* Proofs about TestSetup for every set of callers and any number of       *)
(* failures: the set-up is idempotent.                                     *)
(***************************************************************************)
EXTENDS TestSetup, TLAPS, FiniteSetTheorems

\* A call that is at one of these places has the id of t, and t has its row.
HasFrom(t, places) ==
  \A c \in Callers : setup[c] \in places => ids[c][t] = 1 /\ rows[t] = {1}

PastScopes == {"check", "select", "strategies", "returned"}

SetupTypeOK ==
  /\ rows \in [Tables -> SUBSET {1}]
  /\ setup \in [Callers -> SetupPC]
  /\ ids \in [Callers -> [Tables -> {0, 1}]]
  /\ faults \in Nat

\* The statements of a call run in order, and rows are never removed.
SetupInv ==
  /\ SetupTypeOK
  /\ HasFrom("users", {"customers", "scopes"} \cup PastScopes)
  /\ HasFrom("customers", {"scopes"} \cup PastScopes)
  /\ HasFrom("scopes", PastScopes)
  /\ HasFrom("strategies", {"returned"})

LEMMA SetupInitInv == SetupInit => SetupInv
BY DEF SetupInit, SetupInv, SetupTypeOK, SetupPC, HasFrom, PastScopes

\* A table of one id at most: an upsert leaves exactly that id.
LEMMA InsertedIsOne ==
  ASSUME SetupTypeOK, NEW t \in Tables
  PROVE  Inserted(t) = {1} /\ Cardinality(Inserted(t)) = 1
<1>1. rows[t] = {} \/ rows[t] = {1}
  BY DEF SetupTypeOK
<1>2. Inserted(t) = {1}
  BY <1>1 DEF Inserted
<1> QED
  BY <1>2, FS_Singleton

LEMMA UpsertInv == ASSUME SetupInv, NEW c \in Callers, Upsert(c) PROVE SetupInv'
<1> DEFINE t == setup[c]
<1>1. /\ t \in Tables
      /\ rows' = [rows EXCEPT ![t] = {1}]
      /\ ids' = [ids EXCEPT ![c] = [ids[c] EXCEPT ![t] = 1]]
      /\ setup' = [setup EXCEPT ![c] = After(t)]
      /\ faults' = faults
  BY InsertedIsOne DEF Upsert, SetupInv
<1>2. SetupTypeOK'
  BY <1>1 DEF SetupInv, SetupTypeOK, SetupPC, After, Tables
<1> QED
  BY <1>1, <1>2 DEF SetupInv, SetupTypeOK, HasFrom, PastScopes, After, Tables

LEMMA SelectInv == ASSUME SetupInv, NEW c \in Callers, SelectStrategy(c) PROVE SetupInv'
<1>1. CASE /\ setup' = [setup EXCEPT ![c] = "strategies"]
           /\ ids' = ids
  BY <1>1 DEF SelectStrategy, SetupInv, SetupTypeOK, SetupPC, HasFrom, PastScopes
<1>2. ASSUME NEW id \in rows["strategies"],
             setup' = [setup EXCEPT ![c] = "returned"],
             ids' = [ids EXCEPT ![c]["strategies"] = id]
      PROVE  SetupInv'
  <2>1. rows["strategies"] \subseteq {1}
    BY DEF SetupInv, SetupTypeOK, Tables
  <2>2. id = 1 /\ rows["strategies"] = {1}
    BY <2>1
  <2>3. ids' = [ids EXCEPT ![c] = [ids[c] EXCEPT !["strategies"] = 1]]
    BY <1>2, <2>2
  <2>4. setup[c] = "select" /\ rows' = rows /\ faults' = faults
    BY DEF SelectStrategy
  <2>5. SetupTypeOK'
    BY <1>2, <2>3, <2>4 DEF SetupInv, SetupTypeOK, SetupPC, Tables
  <2> QED
    BY <1>2, <2>2, <2>3, <2>4, <2>5 DEF SetupInv, SetupTypeOK, HasFrom, PastScopes, Tables
<1> QED
  BY <1>1, <1>2 DEF SelectStrategy

\* A statement that fails may have committed: a row of id 1 is added, never removed.
LEMMA FailInv == ASSUME SetupInv, NEW c \in Callers, SetupFails(c) PROVE SetupInv'
<1>1. /\ setup' = [setup EXCEPT ![c] = "failed"]
      /\ ids' = [ids EXCEPT ![c] = [t \in Tables |-> 0]]
      /\ faults' = faults + 1
  BY DEF SetupFails
<1>2. /\ rows' \in [Tables -> SUBSET {1}]
      /\ \A t \in Tables : rows[t] \subseteq rows'[t]
  <2>1. CASE rows' = rows
    BY <2>1 DEF SetupInv, SetupTypeOK
  <2>2. CASE setup[c] \in Tables /\ rows' = [rows EXCEPT ![setup[c]] = {1}]
    BY <2>2 DEF SetupInv, SetupTypeOK
  <2> QED
    BY <2>1, <2>2, InsertedIsOne DEF SetupFails, SetupInv
<1>3. SetupTypeOK'
  BY <1>1, <1>2 DEF SetupInv, SetupTypeOK, SetupPC
<1> QED
  BY <1>1, <1>2, <1>3 DEF SetupInv, SetupTypeOK, HasFrom, PastScopes, Tables

LEMMA SetupNextInv == SetupInv /\ [SetupNext]_setupVars => SetupInv'
<1> SUFFICES ASSUME SetupInv, [SetupNext]_setupVars
             PROVE  SetupInv'
  OBVIOUS
<1>1. ASSUME NEW c \in Callers, CallSetup(c) PROVE SetupInv'
  BY <1>1 DEF CallSetup, SetupInv, SetupTypeOK, SetupPC, HasFrom, PastScopes
<1>2. ASSUME NEW c \in Callers, CheckScope(c) PROVE SetupInv'
  BY <1>2 DEF CheckScope, SetupInv, SetupTypeOK, SetupPC, HasFrom, PastScopes
<1>3. CASE UNCHANGED setupVars
  BY <1>3 DEF setupVars, SetupInv, SetupTypeOK, HasFrom
<1> QED
  BY <1>1, <1>2, <1>3, UpsertInv, SelectInv, FailInv DEF SetupNext, SetupStep

LEMMA SetupInvImplies == SetupInv => SetupIsIdempotent
<1> SUFFICES ASSUME SetupInv PROVE SetupIsIdempotent
  OBVIOUS
<1>1. \A t \in Tables : Cardinality(rows[t]) <= 1
  <2>1. \A t \in Tables : rows[t] = {} \/ rows[t] = {1}
    BY DEF SetupInv, SetupTypeOK
  <2>2. Cardinality({}) = 0 /\ Cardinality({1}) = 1
    BY FS_EmptySet, FS_Singleton
  <2> QED
    BY <2>1, <2>2
<1>2. ASSUME NEW c \in Callers, setup[c] = "returned"
      PROVE  \A t \in Tables : ids[c][t] = 1 /\ rows[t] = {1}
  BY <1>2 DEF SetupInv, HasFrom, PastScopes, Tables
<1>3. ASSUME NEW c \in Callers, NEW d \in Callers, setup[c] = "returned", setup[d] = "returned"
      PROVE  ids[c] = ids[d]
  BY <1>2, <1>3 DEF SetupInv, SetupTypeOK
<1> QED
  BY <1>1, <1>2, <1>3 DEF SetupIsIdempotent

\* setup_test_customer_scope_strategy, "all operations are idempotent": for any
\* number of callers that overlap, fail after a commit and call again, each table
\* gets one row and every call that returns names it.
THEOREM SetupIdempotent == SetupSpec => []SetupIsIdempotent
BY SetupInitInv, SetupNextInv, SetupInvImplies, PTL DEF SetupSpec

=============================================================================
