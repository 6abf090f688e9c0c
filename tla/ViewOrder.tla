------------------------------ MODULE ViewOrder ------------------------------
(***************************************************************************)
(* Which views a dump exports and in which order it creates them:          *)
(* prune_unsupported_views and order_views of                              *)
(* python/pylibseekdb/_migration.py, loop by loop.  A dictionary is walked *)
(* in any order; the views of one round are written in the order of their  *)
(* names, which no dependency can tell.                                    *)
(***************************************************************************)
EXTENDS Integers, Sequences, FiniteSets

CONSTANT Views  \* the ordinary views of the selected databases

ASSUME ViewsAssumption == IsFiniteSet(Views)

VARIABLES
  dependencies,  \* view_dependencies: the selected views a view uses
  external,      \* external_dependencies: views that use an unselected database
  stage,         \* "prune", "order", "ordered", or "cyclic" (PreflightError)
  skipped,       \* views that are not exported
  visiting,      \* views the current pass of the pruning loop has yet to visit
  changed,       \* the pass has skipped a view
  remaining,     \* order_views: keys left in its copy of the dictionary
  waits,         \* the values of that copy
  ordered        \* the views written so far, round by round

given == <<dependencies, external>>
pruning == <<skipped, visiting, changed>>
ordering == <<remaining, waits, ordered>>
viewVars == <<given, stage, pruning, ordering>>

\* What inspect_dump records of VIEW_TABLE_USAGE.  Tables, and objects of a selected
\* database that are not exported, leave no trace in it (see lacking in Migration).
GivenViews ==
  /\ dependencies \in [Views -> SUBSET Views]
  /\ external \in SUBSET Views

\* A pass of the loop begins with changed = False; the first one is under way.
Start ==
  /\ stage = "prune"
  /\ skipped = external
  /\ visiting = Views /\ changed = FALSE
  /\ remaining = {} /\ waits = [v \in Views |-> {}] /\ ordered = <<>>

ViewInit == GivenViews /\ Start

-----------------------------------------------------------------------------
\* A view that uses a skipped view is skipped.
Visit(v) ==
  /\ stage = "prune" /\ v \in visiting
  /\ visiting' = visiting \ {v}
  /\ IF v \notin skipped /\ dependencies[v] \cap skipped # {}
     THEN skipped' = skipped \cup {v} /\ changed' = TRUE
     ELSE UNCHANGED <<skipped, changed>>
  /\ UNCHANGED <<given, stage, ordering>>

EndPass_Once ==
  /\ stage = "prune" /\ visiting = {}
  /\ stage' = "order"
  /\ remaining' = Views \ skipped
  /\ waits' = [v \in Views |-> dependencies[v] \ skipped]
  /\ UNCHANGED <<given, pruning, ordered>>

EndPass_Unreset ==
  /\ stage = "prune" /\ visiting = {}
  /\ IF changed
     THEN visiting' = Views /\ UNCHANGED <<changed, stage, remaining, waits>>
     ELSE /\ stage' = "order"
          /\ remaining' = Views \ skipped
          /\ waits' = [v \in Views |-> dependencies[v] \ skipped]
          /\ UNCHANGED <<visiting, changed>>
  /\ UNCHANGED <<given, skipped, ordered>>

EndPass_KeepsSkipped ==
  /\ stage = "prune" /\ visiting = {}
  /\ IF changed
     THEN visiting' = Views /\ changed' = FALSE /\ UNCHANGED <<stage, remaining, waits>>
     ELSE /\ stage' = "order"
          /\ remaining' = Views \ skipped
          /\ waits' = [v \in Views |-> dependencies[v] \cap skipped]
          /\ UNCHANGED <<visiting, changed>>
  /\ UNCHANGED <<given, skipped, ordered>>

\* Passes are repeated until one changes nothing; what is left is exported, with
\* its dependencies among what is left.
EndPass ==
  /\ stage = "prune" /\ visiting = {}
  /\ IF changed
     THEN visiting' = Views /\ changed' = FALSE /\ UNCHANGED <<stage, remaining, waits>>
     ELSE /\ stage' = "order"
          /\ remaining' = Views \ skipped
          /\ waits' = [v \in Views |-> dependencies[v] \ skipped]
          /\ UNCHANGED <<visiting, changed>>
  /\ UNCHANGED <<given, skipped, ordered>>

OrderRound_KeepsValues ==
  LET ready == {v \in remaining : waits[v] = {}} IN
  /\ stage = "order" /\ remaining # {}
  /\ IF ready = {}
     THEN stage' = "cyclic" /\ UNCHANGED ordering
     ELSE /\ ordered' = Append(ordered, ready)
          /\ remaining' = remaining \ ready
          /\ UNCHANGED <<stage, waits>>
  /\ UNCHANGED <<given, pruning>>

\* One round of order_views: the views that wait for nothing are written and no
\* other view waits for them any more.
OrderRound ==
  LET ready == {v \in remaining : waits[v] = {}} IN
  /\ stage = "order" /\ remaining # {}
  /\ IF ready = {}
     THEN stage' = "cyclic" /\ UNCHANGED ordering
     ELSE /\ ordered' = Append(ordered, ready)
          /\ remaining' = remaining \ ready
          /\ waits' = [v \in Views |-> waits[v] \ ready]
          /\ UNCHANGED stage
  /\ UNCHANGED <<given, pruning>>

Ordered ==
  /\ stage = "order" /\ remaining = {}
  /\ stage' = "ordered"
  /\ UNCHANGED <<given, pruning, ordering>>

ViewStep == EndPass \/ OrderRound \/ Ordered \/ \E v \in Views : Visit(v)

ViewSpec == ViewInit /\ [][ViewStep]_viewVars

-----------------------------------------------------------------------------
ViewTypeOK ==
  /\ GivenViews
  /\ stage \in {"prune", "order", "ordered", "cyclic"}
  /\ skipped \in SUBSET Views /\ visiting \in SUBSET Views /\ changed \in BOOLEAN
  /\ remaining \in SUBSET Views
  /\ waits \in [Views -> SUBSET Views]
  /\ ordered \in Seq((SUBSET Views) \ {{}})

\* C holds the views with external dependencies, and with a view all that use it.
Closed(C) ==
  /\ external \subseteq C
  /\ \A v \in Views : dependencies[v] \cap C # {} => v \in C

\* Pruning skips the views that reach an unselected database, through any number
\* of views, and no other: it skips a part of every closed set, and ends with one.
PrunedExactly ==
  /\ \A C \in SUBSET Views : Closed(C) => skipped \subseteq C
  /\ stage # "prune" => Closed(skipped)

\* A view is created after every view it uses, so its CREATE VIEW can succeed.
DependenciesFirst ==
  \A i \in DOMAIN ordered : \A v \in ordered[i] : \A w \in dependencies[v] :
    \E j \in 1..(i - 1) : w \in ordered[j]

\* The rounds and the rest make up the exported views; none is written twice.
EachOnce ==
  stage # "prune" =>
    /\ remaining \cup UNION {ordered[i] : i \in DOMAIN ordered} = Views \ skipped
    /\ \A i \in DOMAIN ordered :
         /\ ordered[i] \cap remaining = {}
         /\ \A j \in DOMAIN ordered : ordered[i] \cap ordered[j] # {} => i = j
    /\ stage = "ordered" => remaining = {}

\* A dump is refused as cyclic only if views of it wait for each other in a circle.
CyclicMeansCycle ==
  stage = "cyclic" =>
    remaining # {} /\ \A v \in remaining : dependencies[v] \cap remaining # {}

\* What order_views answers is right, order or refusal.
OrderSound == DependenciesFirst /\ CyclicMeansCycle

Below(m, n) ==
  \/ m[1] < n[1]
  \/ m[1] = n[1] /\ m[2] < n[2]
  \/ m[1] = n[1] /\ m[2] = n[2] /\ m[3] < n[3]

\* Work left in the loops: natural numbers, so what goes down with every step ends.
WorkLeft ==
  CASE stage = "prune" -> <<2 + Cardinality(Views \ skipped), IF changed THEN 1 ELSE 0,
                            Cardinality(visiting)>>
    [] stage = "order" -> <<1, Cardinality(remaining), 0>>
    [] OTHER           -> <<0, 0, 0>>

\* Both loops end, on every graph: a pass that does not skip a view is the last one,
\* and a round that writes no view is refused.
LoopsDescend == [][Below(WorkLeft', WorkLeft)]_viewVars
=============================================================================
