----------------------------- MODULE MCMigration -----------------------------
(***************************************************************************)
(* Migration for TLC: one table is full, so an INSERT overflows, another    *)
(* is empty.  The loops of ViewOrder run on every graph of the views; a     *)
(* dump is followed to its restore where one view uses another and the      *)
(* rest stand alone.  Writers, on one side or the other, are followed for   *)
(* dumps that export everything.                                            *)
(***************************************************************************)
EXTENDS Migration, TLC

MCInitialRows == [t \in Tables |-> IF t = CHOOSE u \in Tables : TRUE THEN MaxRows ELSE 0]
Symmetry == Permutations(Views)

Edges == {e \in Views \X Views : e[2] \in dependencies[e[1]]}

\* At most one view uses an unselected database, one that uses no view, or an object
\* that is not exported.
Simple ==
  /\ Cardinality(Edges) = 1 /\ \A v \in Views : v \notin dependencies[v]
  /\ Cardinality(external \cup lacking) <= 1
  /\ \A v \in external : dependencies[v] = {}

Followed ==
  /\ lacking # {} => Simple
  /\ dump \in {"idle", "inspect", "refused"} \/ Simple
  /\ IF trigger \/ external # {} THEN writes = 0 /\ ~meddled ELSE ~ignore /\ (meddled => writes = 0)
=============================================================================
