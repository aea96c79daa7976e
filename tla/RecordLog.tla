------------------------------ MODULE RecordLog ------------------------------
(***************************************************************************)
(* What recording a URL promises (src/record): a record that is accepted   *)
(* stays in memory until it becomes a row of table urlrecord, once, or is  *)
(* lost, and then never comes back.  Nothing is said of threads, batches   *)
(* or locks.                                                               *)
(***************************************************************************)
EXTENDS Naturals

CONSTANT Entry  \* the records

VARIABLES
  memory,  \* records accepted and not settled yet
  rows,    \* rows of the table, by record
  lost     \* records the database refused or a crash took

vars == <<memory, rows, lost>>

Init == memory = {} /\ rows = [e \in Entry |-> 0] /\ lost = {}

Accept(e) ==
  /\ e \notin memory \cup lost /\ rows[e] = 0
  /\ memory' = memory \cup {e}
  /\ UNCHANGED <<rows, lost>>

Write(e) ==
  /\ e \in memory
  /\ memory' = memory \ {e}
  /\ rows' = [rows EXCEPT ![e] = @ + 1]
  /\ UNCHANGED lost

Lose(S) ==
  /\ memory' = memory \ S
  /\ lost' = lost \cup S
  /\ UNCHANGED rows

Next ==
  \/ \E e \in Entry : Accept(e) \/ Write(e)
  \/ \E S \in SUBSET memory : Lose(S)

Spec == Init /\ [][Next]_vars
=============================================================================
