--------------------------- MODULE MigrationProofs ---------------------------
(***************************************************************************)
(* Proofs about seekdb-dump and seekdb-restore, for any tables, views,     *)
(* numbers of rows and length of an INSERT; first about the loops over the *)
(* views alone.                                                            *)
(*                                                                         *)
(* The dump is a sequence that grows by one item at a time (Wrote).  Four  *)
(* invariants speak about all of its items: it starts with its header      *)
(* (HeaderInv), it tells what was so at one moment and ends only after all *)
(* of it (ContentInv), the reader has noted the items it consumed          *)
(* (ReaderInv), and an empty target replays it without a refusal           *)
(* (ReplayInv).  Each theorem at the end of a part follows from one or two *)
(* of them.                                                                *)
(***************************************************************************)
EXTENDS Migration, SequenceTheorems, FiniteSetTheorems, TLAPS

-----------------------------------------------------------------------------
(* ViewOrder: what it exports, the order it writes and why its loops end,   *)
(* for every finite set of views and every dependency graph.               *)

\* What the finished part of a pass has established.
PassInv ==
  /\ external \subseteq skipped
  /\ ~changed => \A v \in Views \ visiting : v \notin skipped => dependencies[v] \cap skipped = {}
  /\ stage = "prune" => ordered = <<>>

\* What an unwritten view waits for.
WaitInv ==
  stage # "prune" => \A v \in remaining : waits[v] = dependencies[v] \cap remaining

ViewInv ==
  /\ ViewTypeOK
  /\ PassInv
  /\ WaitInv
  /\ PrunedExactly
  /\ DependenciesFirst
  /\ EachOnce
  /\ CyclicMeansCycle

-----------------------------------------------------------------------------
LEMMA ViewInitInv == ViewInit => ViewInv
<1> SUFFICES ASSUME ViewInit PROVE ViewInv OBVIOUS
<1> USE DEF ViewInit, Start, GivenViews
<1>1. ViewTypeOK
  <2>1. <<>> \in Seq((SUBSET Views) \ {{}}) OBVIOUS
  <2> QED BY <2>1 DEF ViewTypeOK
<1>2. PassInv /\ WaitInv BY DEF PassInv, WaitInv
<1>3. PrunedExactly BY DEF PrunedExactly, Closed
<1>4. DependenciesFirst /\ EachOnce /\ CyclicMeansCycle
  BY DEF DependenciesFirst, EachOnce, CyclicMeansCycle
<1> QED BY <1>1, <1>2, <1>3, <1>4 DEF ViewInv

LEMMA VisitStep ==
  ASSUME ViewInv, NEW v \in Views, Visit(v)
  PROVE  ViewInv'
<1> USE DEF ViewInv, Visit, given, ordering
<1>1. ViewTypeOK' BY DEF ViewTypeOK, GivenViews
<1>2. PassInv' BY DEF ViewTypeOK, GivenViews, PassInv
<1>3. WaitInv' BY DEF WaitInv
<1>4. PrunedExactly'
  <2>1. ASSUME NEW C \in SUBSET Views, Closed(C)' PROVE skipped' \subseteq C
    BY <2>1 DEF PrunedExactly, Closed, ViewTypeOK, GivenViews
  <2> QED BY <2>1 DEF PrunedExactly
<1>5. DependenciesFirst' BY DEF DependenciesFirst
<1>6. EachOnce' BY DEF EachOnce
<1>7. CyclicMeansCycle' BY DEF CyclicMeansCycle
<1> QED BY <1>1, <1>2, <1>3, <1>4, <1>5, <1>6, <1>7 DEF ViewInv

LEMMA EndPassStep ==
  ASSUME ViewInv, EndPass
  PROVE  ViewInv'
<1> USE DEF ViewInv, EndPass, given
<1>1. ViewTypeOK' BY DEF ViewTypeOK, GivenViews
<1>2. PassInv' BY DEF ViewTypeOK, GivenViews, PassInv
<1>3. stage' # "prune" => Closed(skipped)
  BY DEF PassInv, Closed, ViewTypeOK, GivenViews
<1>4. WaitInv'
  <2> SUFFICES ASSUME stage' # "prune", NEW v \in remaining'
               PROVE  waits'[v] = dependencies'[v] \cap remaining'
    BY DEF WaitInv
  <2> QED BY DEF ViewTypeOK, GivenViews
<1>5. PrunedExactly' BY <1>3 DEF PrunedExactly, Closed
<1>6. DependenciesFirst' BY DEF DependenciesFirst
<1>7. EachOnce'
  <2>1. ordered' = <<>> BY DEF PassInv
  <2> QED BY <2>1 DEF EachOnce, ViewTypeOK
<1>8. CyclicMeansCycle' BY DEF CyclicMeansCycle
<1> QED BY <1>1, <1>2, <1>4, <1>5, <1>6, <1>7, <1>8 DEF ViewInv

LEMMA OrderRoundStep ==
  ASSUME ViewInv, OrderRound
  PROVE  ViewInv'
<1> DEFINE ready == {v \in remaining : waits[v] = {}}
<1>1. CASE ready = {}
  <2>1. /\ UNCHANGED <<given, pruning, ordering>>
        /\ stage = "order" /\ stage' = "cyclic" /\ remaining # {}
    BY <1>1 DEF OrderRound
  <2>2. CyclicMeansCycle' BY <1>1, <2>1 DEF ViewInv, WaitInv, CyclicMeansCycle, given, ordering
  <2> QED BY <2>1, <2>2 DEF ViewInv, ViewTypeOK, GivenViews, PassInv, WaitInv, PrunedExactly, Closed,
        DependenciesFirst, EachOnce, given, pruning, ordering
<1>2. CASE ready # {}
  <2> DEFINE n == Len(ordered)
  <2>1. /\ UNCHANGED <<given, pruning>> /\ stage = "order" /\ stage' = "order"
        /\ ordered' = Append(ordered, ready)
        /\ remaining' = remaining \ ready
        /\ waits' = [v \in Views |-> waits[v] \ ready]
    BY <1>2 DEF OrderRound
  <2>2. ready \in (SUBSET Views) \ {{}} BY <1>2 DEF ViewInv, ViewTypeOK
  <2>3. ordered \in Seq((SUBSET Views) \ {{}}) BY DEF ViewInv, ViewTypeOK
  <2>4. /\ n \in Nat /\ DOMAIN ordered = 1..n /\ DOMAIN ordered' = 1..(n + 1)
        /\ \A i \in 1..n : ordered'[i] = ordered[i]
        /\ ordered'[n + 1] = ready
        /\ ordered' \in Seq((SUBSET Views) \ {{}})
    BY <2>1, <2>2, <2>3
  <2> HIDE DEF n
  <2>5. ViewTypeOK' BY <2>1, <2>4 DEF ViewInv, ViewTypeOK, GivenViews, given, pruning
  <2>6. PassInv' BY <2>1 DEF ViewInv, PassInv, given, pruning
  <2>7. WaitInv' BY <2>1 DEF ViewInv, ViewTypeOK, WaitInv, given
  <2>8. PrunedExactly' BY <2>1 DEF ViewInv, PrunedExactly, Closed, given, pruning
  <2>9. ASSUME NEW v \in ready, NEW w \in dependencies[v]
        PROVE  \E j \in 1..n : w \in ordered[j]
    <3>1. v \in remaining /\ waits[v] = {} OBVIOUS
    <3>2. v \in Views /\ w \in Views BY <3>1, <2>9 DEF ViewInv, ViewTypeOK, GivenViews
    <3>3. w \notin remaining BY <2>1, <2>9, <3>1 DEF ViewInv, WaitInv
    <3>4. v \notin skipped BY <2>1, <3>1 DEF ViewInv, EachOnce
    <3>5. w \notin skipped BY <2>1, <2>9, <3>2, <3>4 DEF ViewInv, PrunedExactly, Closed
    <3> QED BY <2>1, <2>4, <3>2, <3>3, <3>5 DEF ViewInv, EachOnce
  <2>10. DependenciesFirst'
    <3> SUFFICES ASSUME NEW i \in DOMAIN ordered', NEW v \in ordered'[i],
                        NEW w \in dependencies[v]
                 PROVE  \E j \in 1..(i - 1) : w \in ordered'[j]
      BY <2>1 DEF DependenciesFirst, given
    <3>1. CASE i = n + 1
      <4>1. PICK j \in 1..n : w \in ordered[j] BY <2>4, <2>9, <3>1
      <4> QED BY <2>4, <3>1, <4>1
    <3>2. CASE i \in 1..n
      <4>1. PICK j \in 1..(i - 1) : w \in ordered[j]
        BY <2>4, <3>2 DEF ViewInv, DependenciesFirst
      <4> QED BY <2>4, <3>2, <4>1
    <3> QED BY <2>4, <3>1, <3>2
  <2>11. EachOnce'
    <3> DEFINE written == UNION {ordered[i] : i \in DOMAIN ordered}
    <3>1. UNION {ordered'[i] : i \in DOMAIN ordered'} = written \cup ready BY <2>4
    <3>2. remaining \cup written = Views \ skipped /\ ready \subseteq remaining
      BY <2>1 DEF ViewInv, EachOnce
    <3>3. remaining' \cup (written \cup ready) = Views \ skipped BY <2>1, <3>2
    <3>4. \A i \in 1..n : ordered[i] \cap remaining = {}
      BY <2>1, <2>4 DEF ViewInv, EachOnce
    <3>5. \A i, j \in 1..n : ordered[i] \cap ordered[j] # {} => i = j
      BY <2>1, <2>4 DEF ViewInv, EachOnce
    <3>6. \A i \in DOMAIN ordered' : ordered'[i] \cap remaining' = {} BY <2>1, <2>4, <3>4
    <3>7. \A i, j \in DOMAIN ordered' : ordered'[i] \cap ordered'[j] # {} => i = j
      BY <2>4, <3>2, <3>4, <3>5
    <3> QED BY <2>1, <3>1, <3>3, <3>6, <3>7 DEF EachOnce, pruning
  <2>12. CyclicMeansCycle' BY <2>1 DEF CyclicMeansCycle
  <2> QED BY <2>5, <2>6, <2>7, <2>8, <2>10, <2>11, <2>12 DEF ViewInv
<1> QED BY <1>1, <1>2

LEMMA OrderedStep ==
  ASSUME ViewInv, Ordered
  PROVE  ViewInv'
BY DEF ViewInv, Ordered, ViewTypeOK, GivenViews, PassInv, WaitInv, PrunedExactly, Closed,
       DependenciesFirst, EachOnce, CyclicMeansCycle, given, pruning, ordering

LEMMA ViewStepInv == ViewInv /\ [ViewStep]_viewVars => ViewInv'
<1> SUFFICES ASSUME ViewInv, [ViewStep]_viewVars PROVE ViewInv' OBVIOUS
<1>1. CASE EndPass BY <1>1, EndPassStep
<1>2. CASE OrderRound BY <1>2, OrderRoundStep
<1>3. CASE Ordered BY <1>3, OrderedStep
<1>4. ASSUME NEW v \in Views, Visit(v) PROVE ViewInv' BY <1>4, VisitStep
<1>5. CASE UNCHANGED viewVars
  BY <1>5 DEF ViewInv, ViewTypeOK, GivenViews, PassInv, WaitInv, PrunedExactly, Closed,
     DependenciesFirst, EachOnce, CyclicMeansCycle, viewVars, given, pruning, ordering
<1> QED BY <1>1, <1>2, <1>3, <1>4, <1>5 DEF ViewStep

\* The dictionaries and sequences of both loops keep their types, and no round of
\* order_views is empty.
THEOREM ViewTypes == ViewSpec => []ViewTypeOK
<1>1. ViewInv => ViewTypeOK BY DEF ViewInv
<1> QED BY <1>1, ViewInitInv, ViewStepInv, PTL DEF ViewSpec

\* Pruning skips exactly the views that reach an unselected database.
THEOREM Pruned == ViewSpec => []PrunedExactly
<1>1. ViewInv => PrunedExactly BY DEF ViewInv
<1> QED BY <1>1, ViewInitInv, ViewStepInv, PTL DEF ViewSpec

\* The dump creates every view after the views it uses, and a dump is refused as cyclic
\* only for a cycle.
THEOREM Topological == ViewSpec => []OrderSound
<1>1. ViewInv => OrderSound BY DEF ViewInv, OrderSound
<1> QED BY <1>1, ViewInitInv, ViewStepInv, PTL DEF ViewSpec

\* The dump creates every exported view once.
THEOREM WrittenOnce == ViewSpec => []EachOnce
<1>1. ViewInv => EachOnce BY DEF ViewInv
<1> QED BY <1>1, ViewInitInv, ViewStepInv, PTL DEF ViewSpec

-----------------------------------------------------------------------------
LEMMA Smaller ==
  ASSUME NEW S \in SUBSET Views, NEW T \in SUBSET S, S # T
  PROVE  Cardinality(T) < Cardinality(S)
<1>1. IsFiniteSet(S) BY ViewsAssumption, FS_Subset
<1>2. Cardinality(T) <= Cardinality(S) /\ Cardinality(T) # Cardinality(S)
  BY <1>1, FS_Subset
<1>3. IsFiniteSet(T) BY <1>1, FS_Subset
<1> QED BY <1>1, <1>2, <1>3, FS_CardinalityType

LEMMA Counted ==
  ASSUME NEW S \in SUBSET Views
  PROVE  Cardinality(S) \in Nat
BY ViewsAssumption, FS_Subset, FS_CardinalityType

LEMMA StepDescends == ViewInv /\ [ViewStep]_viewVars => [Below(WorkLeft', WorkLeft)]_viewVars
<1> SUFFICES ASSUME ViewInv, ViewStep PROVE Below(WorkLeft', WorkLeft) OBVIOUS
<1> USE DEF ViewInv, ViewTypeOK
<1>1. ASSUME NEW v \in Views, Visit(v) PROVE Below(WorkLeft', WorkLeft)
  <2> USE <1>1 DEF Visit, given
  <2>1. CASE v \notin skipped /\ dependencies[v] \cap skipped # {}
    <3>1. Cardinality(Views \ skipped') < Cardinality(Views \ skipped)
      BY <2>1, Smaller
    <3>2. Cardinality(Views \ skipped) \in Nat /\ Cardinality(Views \ skipped') \in Nat
      BY Counted
    <3>3. WorkLeft[1] = 2 + Cardinality(Views \ skipped) BY DEF WorkLeft
    <3>4. WorkLeft'[1] = 2 + Cardinality(Views \ skipped') BY DEF WorkLeft
    <3>5. WorkLeft'[1] < WorkLeft[1] BY <3>1, <3>2, <3>3, <3>4
    <3> QED BY <3>5 DEF Below
  <2>2. CASE ~(v \notin skipped /\ dependencies[v] \cap skipped # {})
    <3>1. Cardinality(visiting') < Cardinality(visiting) BY Smaller
    <3>2. UNCHANGED <<skipped, changed, stage>> BY <2>2
    <3> QED BY <3>1, <3>2 DEF WorkLeft, Below
  <2> QED BY <2>1, <2>2
<1>2. CASE EndPass
  <2> USE <1>2 DEF EndPass
  <2>1. CASE changed
    <3>1. changed' = FALSE /\ UNCHANGED <<stage, skipped>> BY <2>1
    <3> QED BY <2>1, <3>1 DEF WorkLeft, Below
  <2>2. CASE ~changed
    <3>1. Cardinality(Views \ skipped) \in Nat BY Counted
    <3>2. WorkLeft[1] = 2 + Cardinality(Views \ skipped) BY DEF WorkLeft
    <3>3. WorkLeft'[1] = 1 BY <2>2 DEF WorkLeft
    <3>4. WorkLeft'[1] < WorkLeft[1] BY <3>1, <3>2, <3>3
    <3> QED BY <3>4 DEF Below
  <2> QED BY <2>1, <2>2
<1>3. CASE OrderRound
  <2> USE <1>3 DEF OrderRound
  <2> DEFINE ready == {v \in remaining : waits[v] = {}}
  <2>1. CASE ready = {} BY <2>1 DEF WorkLeft, Below
  <2>2. CASE ready # {}
    <3>1. remaining' = remaining \ ready /\ UNCHANGED stage BY <2>2
    <3>2. remaining' \in SUBSET remaining /\ remaining # remaining' BY <2>2, <3>1
    <3>3. Cardinality(remaining') < Cardinality(remaining) BY <3>2, Smaller
    <3> QED BY <3>1, <3>3 DEF WorkLeft, Below
  <2> QED BY <2>1, <2>2
<1>4. CASE Ordered BY <1>4 DEF Ordered, WorkLeft, Below
<1> QED BY <1>1, <1>2, <1>3, <1>4 DEF ViewStep

\* On every graph the pruning loop and the ordering loop end: each step takes away from
\* the work that is left.
THEOREM Descends == ViewSpec => LoopsDescend
<1>1. ViewSpec => [][Below(WorkLeft', WorkLeft)]_viewVars
  BY ViewInitInv, ViewStepInv, StepDescends, PTL DEF ViewSpec
<1> QED BY <1>1 DEF LoopsDescend

-----------------------------------------------------------------------------
(* The dump and the restore.                                               *)

\* What a line of a dump can be.
Items ==
  {<<"format">>, <<"set">>, <<"complete">>, Malformed} \cup {<<"incomplete", b>> : b \in BOOLEAN}
  \cup {<<"table", t>> : t \in Tables} \cup {<<"view", v>> : v \in Views}
  \cup {<<"rows", t, n>> : t \in Tables, n \in 0..MaxRows}
  \cup {<<"count", t, n>> : t \in Tables, n \in 0..MaxRows}

\* The dump as far as it was written.
Stream == IF destination = Absent THEN temporary ELSE destination

LEMMA Kinds ==
  ASSUME NEW x \in Items
  PROVE  /\ x[1] = "format" => x = <<"format">>
         /\ x[1] = "complete" => x = <<"complete">>
         /\ x[1] = "malformed" => x = Malformed
         /\ x[1] = "incomplete" => x[2] \in BOOLEAN /\ x = <<"incomplete", x[2]>>
         /\ x[1] = "table" => x[2] \in Tables /\ x = <<"table", x[2]>>
         /\ x[1] = "view" => x[2] \in Views /\ x = <<"view", x[2]>>
         /\ x[1] = "rows" => x[2] \in Tables /\ x[3] \in 0..MaxRows /\ x = <<"rows", x[2], x[3]>>
         /\ x[1] = "count" => x[2] \in Tables /\ x[3] \in 0..MaxRows /\ x = <<"count", x[2], x[3]>>
         /\ x[1] \in {"format", "set", "complete", "malformed", "incomplete", "table", "view",
                      "rows", "count"}
BY DEF Items, Malformed

LEMMA ItemsMade ==
  /\ <<"format">> \in Items /\ <<"set">> \in Items /\ <<"complete">> \in Items
  /\ Malformed \in Items /\ Malformed[1] = "malformed"
  /\ \A b \in BOOLEAN : <<"incomplete", b>> \in Items
  /\ \A t \in Tables : <<"table", t>> \in Items
  /\ \A v \in Views : <<"view", v>> \in Items
  /\ \A t \in Tables, n \in 0..MaxRows : <<"rows", t, n>> \in Items /\ <<"count", t, n>> \in Items
BY DEF Items, Malformed

\* A missing file is no dump.
LEMMA AbsentIsNone == Absent \notin Seq(Items)
<1> SUFFICES ASSUME Absent \in Seq(Items) PROVE FALSE OBVIOUS
<1>1. Len(Absent) = 1 /\ Absent[1] = <<"absent">> BY DEF Absent
<1>2. Absent[1] \in Items BY <1>1
<1>3. <<"absent">>[1] = "absent" OBVIOUS
<1> QED BY <1>1, <1>2, <1>3, Kinds

LEMMA AddOne ==
  ASSUME NEW d \in Seq(Items), NEW x \in Items
  PROVE  /\ d \o <<x>> \in Seq(Items)
         /\ Len(d \o <<x>>) = Len(d) + 1
         /\ \A i \in 1..Len(d) : (d \o <<x>>)[i] = d[i]
         /\ (d \o <<x>>)[Len(d) + 1] = x
<1>1. <<x>> \in Seq(Items) /\ Len(<<x>>) = 1 /\ <<x>>[1] = x OBVIOUS
<1> QED BY <1>1, ConcatProperties

-----------------------------------------------------------------------------
\* What the dump leaves alone, and what the restore does.
Ended == dump \in {"done", "failed", "refused", "crashed"}

LEMMA DumpKeeps ==
  ASSUME DumpStep \/ DumpFails \/ DumpCrash
  PROVE  /\ UNCHANGED <<source, chosen, reader, fault, given>>
         /\ ~Ended /\ (dump # "inspect" => UNCHANGED viewVars)
<1> USE DEF Goto, Ended
<1>1. CASE Inspect \/ Preflight
  <2>1. UNCHANGED <<viewVars, source, chosen, reader, fault>> /\ dump \in {"idle", "inspect"}
    BY <1>1 DEF Inspect, Preflight
  <2> QED BY <2>1 DEF viewVars
<1>2. CASE OrderViews
  <2>1. UNCHANGED <<source, dumper, reader, fault>> /\ dump = "inspect" /\ ViewStep
    BY <1>2 DEF OrderViews
  <2>2. UNCHANGED given BY <2>1 DEF ViewStep, EndPass, OrderRound, Ordered, Visit
  <2> QED BY <2>1, <2>2 DEF dumper
<1>3. CASE Begin \/ WriteHeader \/ TablesWritten \/ DataWritten \/ WriteFooter \/ Publish \/ Rollback
  <2>1. /\ UNCHANGED <<viewVars, source, chosen, reader, fault>>
        /\ dump \in {"begin", "header", "tables", "data", "views", "close", "rollback"}
    BY <1>3 DEF Begin, WriteHeader, TablesWritten, DataWritten, WriteFooter, Publish, Rollback
  <2> QED BY <2>1 DEF viewVars
<1>4. CASE ReadRow \/ FlushBatch \/ WriteCount
  <2>1. UNCHANGED <<viewVars, source, chosen, reader, fault>> /\ dump = "data"
    BY <1>4 DEF ReadRow, FlushBatch, WriteCount
  <2> QED BY <2>1 DEF viewVars
<1>5. ASSUME NEW t \in Tables, WriteTable(t) \/ ReadTable(t)
      PROVE  /\ UNCHANGED <<source, chosen, reader, fault, given>>
             /\ ~Ended /\ (dump # "inspect" => UNCHANGED viewVars)
  <2>1. UNCHANGED <<viewVars, source, chosen, reader, fault>> /\ dump \in {"tables", "data"}
    BY <1>5 DEF WriteTable, ReadTable
  <2> QED BY <2>1 DEF viewVars
<1>6. ASSUME NEW v \in Views, WriteView(v)
      PROVE  /\ UNCHANGED <<source, chosen, reader, fault, given>>
             /\ ~Ended /\ (dump # "inspect" => UNCHANGED viewVars)
  <2>1. UNCHANGED <<viewVars, source, chosen, reader, fault>> /\ dump = "views"
    BY <1>6 DEF WriteView
  <2> QED BY <2>1 DEF viewVars
<1>7. CASE DumpFails \/ DumpCrash
  <2>1. UNCHANGED <<viewVars, source, chosen, reader, fault>> /\ ~Ended
    BY <1>7 DEF DumpFails, DumpCrash, Writing
  <2> QED BY <2>1 DEF viewVars
<1> QED BY <1>1, <1>2, <1>3, <1>4, <1>5, <1>6, <1>7 DEF DumpStep

LEMMA RestoreKeeps ==
  ASSUME RestoreStep \/ RestoreFails \/ Meddle
  PROVE  /\ UNCHANGED <<viewVars, source, dumper>>
         /\ restore' # "idle" /\ (restore # "idle" => UNCHANGED input)
         /\ (fault => fault') /\ (meddled => meddled')
<1> USE DEF reader, target
<1>1. CASE Open BY <1>1 DEF Open
<1>2. CASE ReadPrefix BY <1>2 DEF ReadPrefix
<1>3. CASE InspectTarget BY <1>3 DEF InspectTarget
<1>4. CASE Apply BY <1>4 DEF Apply
<1>5. CASE Finish \/ EndCount BY <1>5 DEF Finish, EndCount
<1>6. ASSUME NEW t \in Tables, CountTable(t)
      PROVE  /\ UNCHANGED <<viewVars, source, dumper>>
             /\ restore' # "idle" /\ (restore # "idle" => UNCHANGED input)
             /\ (fault => fault') /\ (meddled => meddled')
  BY <1>6 DEF CountTable
<1>7. CASE RestoreFails BY <1>7 DEF RestoreFails
<1>8. CASE Meddle BY <1>8 DEF Meddle
<1> QED BY <1>1, <1>2, <1>3, <1>4, <1>5, <1>6, <1>7, <1>8 DEF RestoreStep

LEMMA WriteKeeps ==
  ASSUME Write
  PROVE  /\ UNCHANGED <<viewVars, trigger, lacking, dumper, reader, fault>>
         /\ past \subseteq past'
BY DEF Write

LEMMA TruncateKeeps ==
  ASSUME Truncate
  PROVE  /\ UNCHANGED <<viewVars, source, dump, chosen, reading, temporary, reader>>
         /\ toFile /\ destination # Absent /\ Ended /\ restore = "idle" /\ fault' = TRUE
BY DEF Truncate, DumpEnded, Ended

\* Only the phase that prunes and orders moves the variables of ViewOrder, by its steps.
LEMMA ViewsStep == [Next]_vars => [ViewStep]_viewVars
<1> SUFFICES ASSUME [Next]_vars PROVE [ViewStep]_viewVars OBVIOUS
<1>1. CASE DumpStep /\ dump # "inspect" BY <1>1, DumpKeeps
<1>2. CASE DumpStep /\ dump = "inspect"
  <2> USE DEF Goto
  <2>1. ASSUME NEW t \in Tables, WriteTable(t) \/ ReadTable(t) PROVE FALSE
    BY <1>2, <2>1 DEF WriteTable, ReadTable
  <2>2. ASSUME NEW v \in Views, WriteView(v) PROVE FALSE BY <1>2, <2>2 DEF WriteView
  <2>3. OrderViews \/ Preflight
    BY <1>2, <2>1, <2>2 DEF DumpStep, Inspect, Begin, WriteHeader, TablesWritten, ReadRow, FlushBatch,
      WriteCount, DataWritten, WriteFooter, Publish, Rollback
  <2> QED BY <2>3 DEF OrderViews, Preflight
<1>3. CASE DumpFails \/ DumpCrash BY <1>3 DEF DumpFails, DumpCrash
<1>4. CASE RestoreStep \/ RestoreFails \/ Meddle BY <1>4, RestoreKeeps
<1>5. CASE Write \/ Truncate BY <1>5, WriteKeeps, TruncateKeeps
<1>6. CASE UNCHANGED vars BY <1>6 DEF vars
<1> QED BY <1>1, <1>2, <1>3, <1>4, <1>5, <1>6 DEF Next

LEMMA GivenKept ==
  ASSUME [Next]_vars
  PROVE  /\ UNCHANGED <<trigger, lacking, ignore, toFile, dependencies>>
         /\ past \subseteq past'
         /\ dump # "inspect" => UNCHANGED viewVars
         /\ (fault => fault') /\ (meddled => meddled')
         /\ Ended => UNCHANGED dump
         /\ restore # "idle" => UNCHANGED input /\ restore' # "idle"
<1> USE DEF source, chosen, dumper, reader, target, viewVars, given
<1>1. CASE DumpStep \/ DumpFails \/ DumpCrash BY <1>1, DumpKeeps
<1>2. CASE RestoreStep \/ RestoreFails \/ Meddle BY <1>2, RestoreKeeps
<1>3. CASE Write BY <1>3, WriteKeeps
<1>4. CASE Truncate BY <1>4, TruncateKeeps
<1>5. CASE UNCHANGED vars BY <1>5 DEF vars
<1> QED BY <1>1, <1>2, <1>3, <1>4, <1>5 DEF Next

-----------------------------------------------------------------------------
\* Types, and with them what each phase leaves in the variables it shares with others.
Metadata ==
  [format : BOOLEAN, incomplete : BOOLEAN, complete : BOOLEAN, expected : [Tables -> -1..MaxRows]]

SourceTypes ==
  /\ trigger \in BOOLEAN /\ lacking \subseteq Views /\ data \in past /\ past \subseteq Moments

DumpTypes ==
  /\ dump \in {"idle", "inspect", "begin", "header", "tables", "data", "views", "close",
               "rollback", "done", "failed", "refused", "crashed"}
  /\ ignore \in BOOLEAN /\ toFile \in BOOLEAN
  /\ snapshot \in Moments \cup {Null} /\ (Writing => snapshot \in past)
  /\ todo \subseteq Tables \cup Views /\ (dump \in {"tables", "data"} => todo \subseteq Tables)
  /\ table \in Tables \cup {Null}
  /\ unread \in Nat /\ count \in Nat /\ unread + count <= MaxRows /\ batch \in 0..count
  /\ table = Null => unread = 0 /\ count = 0 /\ batch = 0

FileTypes ==
  /\ temporary \in Seq(Items)
  /\ destination = Absent \/ destination \in Seq(Items)
  /\ destination = Absent => toFile /\ dump \notin {"rollback", "done"}
  /\ toFile /\ destination # Absent => dump \in {"rollback", "done", "failed", "crashed"}
  /\ dump \in {"idle", "inspect", "begin", "header"} => Stream = <<>>

RestoreTypes ==
  /\ restore \in {"idle", "prefix", "target", "apply", "count", "ok", "failed", "refused"}
  /\ input \in Seq(Items)
  /\ toFile /\ restore # "idle" => fault \/ dump \in {"rollback", "done", "failed", "crashed"}
  /\ toFile /\ restore \notin {"idle", "failed"} => dump \in {"rollback", "done", "failed", "crashed"}
  /\ metadata \in Metadata /\ fault \in BOOLEAN /\ meddled \in BOOLEAN

TargetTypes ==
  /\ tables \in [Tables -> Nat \cup {-1}] /\ views \subseteq Views
  /\ counted \in [Tables -> Nat \cup {-1}]
  /\ pos \in 0..Len(Input)
  /\ restore \in {"idle", "prefix", "target"} =>
       /\ pos = 0 /\ views = {} /\ tables = NoCount
       /\ metadata.expected = NoCount /\ ~metadata.complete
  /\ restore \in {"idle", "prefix", "target", "apply"} => counted = NoCount
  /\ restore = "idle" => ~metadata.format
  /\ restore \in {"count", "ok"} => AtEnd
  /\ restore = "count" => (metadata.format => metadata.complete)
  /\ theirs # {} => restore = "refused"

TypeInv == SourceTypes /\ DumpTypes /\ FileTypes /\ RestoreTypes /\ TargetTypes

LEMMA SourceTypesStep == TypeInv /\ [Next]_vars => SourceTypes'
<1> SUFFICES ASSUME TypeInv, [Next]_vars PROVE SourceTypes' OBVIOUS
<1> USE DEF TypeInv, SourceTypes
<1>1. CASE DumpStep \/ DumpFails \/ DumpCrash \/ RestoreStep \/ RestoreFails \/ Meddle \/ Truncate
  <2>1. UNCHANGED source BY <1>1, DumpKeeps, RestoreKeeps, TruncateKeeps
  <2> QED BY <2>1 DEF source
<1>2. CASE Write BY <1>2 DEF Write
<1>3. CASE UNCHANGED vars BY <1>3 DEF vars, source
<1> QED BY <1>1, <1>2, <1>3 DEF Next

LEMMA DumpTypesStep == TypeInv /\ [Next]_vars => DumpTypes'
<1> SUFFICES ASSUME TypeInv, [Next]_vars PROVE DumpTypes' OBVIOUS
<1> USE RowsAssumption, NullAssumption
    DEF TypeInv, SourceTypes, DumpTypes, source, chosen, reading, rows, Goto, Writing, Moments
<1>1. CASE UNCHANGED <<dumper, past>> BY <1>1 DEF dumper
<1>2. CASE Inspect \/ Preflight BY <1>2 DEF Inspect, Preflight
<1>3. CASE OrderViews BY <1>1, <1>3 DEF OrderViews
<1>4. CASE Begin \/ WriteHeader \/ TablesWritten \/ DataWritten \/ WriteFooter
  BY <1>4 DEF Begin, WriteHeader, TablesWritten, DataWritten, WriteFooter
<1>5. CASE Publish \/ Rollback BY <1>5 DEF Publish, Rollback
<1>6. ASSUME NEW t \in Tables, WriteTable(t) PROVE DumpTypes' BY <1>6 DEF WriteTable
<1>7. ASSUME NEW t \in Tables, ReadTable(t) PROVE DumpTypes'
  <2>1. /\ dump = "data" /\ table = Null /\ table' = t /\ todo' = todo \ {t}
        /\ UNCHANGED <<dump, chosen, snapshot, count, batch, past>>
        /\ unread' = snapshot[t] /\ snapshot \in Moments
    BY <1>7 DEF ReadTable
  <2>2. unread' \in 0..MaxRows BY <2>1
  <2> QED BY <2>1, <2>2
<1>8. ASSUME NEW v \in Views, WriteView(v) PROVE DumpTypes' BY <1>8 DEF WriteView
<1>9. CASE ReadRow
  <2>1. /\ dump = "data" /\ unread > 0 /\ unread' = unread - 1 /\ count' = count + 1
        /\ batch' = 1 \/ batch' = batch + 1
        /\ UNCHANGED <<dump, chosen, snapshot, todo, table, past>>
    BY <1>9 DEF ReadRow
  <2>2. unread' \in Nat /\ count' \in Nat /\ unread' + count' = unread + count BY <2>1
  <2>3. batch' \in 0..count' BY <2>1
  <2>4. table # Null BY <2>1
  <2> QED BY <2>1, <2>2, <2>3, <2>4
<1>10. CASE FlushBatch BY <1>10 DEF FlushBatch
<1>11. CASE WriteCount BY <1>11 DEF WriteCount
<1>12. CASE RestoreStep \/ RestoreFails \/ Meddle BY <1>1, <1>12, RestoreKeeps
<1>13. CASE DumpFails \/ DumpCrash BY <1>13 DEF DumpFails, DumpCrash
<1>14. CASE Write
  <2>1. UNCHANGED dumper /\ past \subseteq past' BY <1>14, WriteKeeps
  <2> QED BY <2>1 DEF dumper
<1>15. CASE Truncate
  <2>1. UNCHANGED <<dump, chosen, reading, source>> BY <1>15, TruncateKeeps
  <2> QED BY <2>1
<1>16. CASE UNCHANGED vars BY <1>1, <1>16 DEF vars
<1> QED BY <1>2, <1>3, <1>4, <1>5, <1>6, <1>7, <1>8, <1>9, <1>10, <1>11, <1>12, <1>13, <1>14, <1>15,
  <1>16 DEF Next, DumpStep

\* One item more, where the dump is written.
Wrote(x) ==
  /\ x \in Items
  /\ Stream' \in Seq(Items) /\ Len(Stream') = Len(Stream) + 1
  /\ \A i \in 1..Len(Stream) : Stream'[i] = Stream[i]
  /\ Stream'[Len(Stream) + 1] = x
  /\ IF toFile THEN temporary' = Stream' /\ UNCHANGED destination
     ELSE destination' = Stream' /\ UNCHANGED temporary
  /\ UNCHANGED toFile

LEMMA StreamType == TypeInv => Stream \in Seq(Items) /\ Len(Stream) \in Nat
BY DEF TypeInv, FileTypes, Stream

LEMMA Emitted ==
  ASSUME TypeInv, Writing, NEW x \in Items, Emit(<<x>>), UNCHANGED toFile
  PROVE  Wrote(x)
<1>1. toFile <=> destination = Absent BY DEF Writing, TypeInv, FileTypes
<1>2. CASE toFile
  <2>1. /\ Stream = temporary /\ Stream' = temporary'
        /\ temporary' = temporary \o <<x>> /\ UNCHANGED destination
    BY <1>1, <1>2 DEF Emit, Stream
  <2>2. temporary \in Seq(Items) BY DEF TypeInv, FileTypes
  <2> QED BY <1>2, <2>1, <2>2, AddOne DEF Wrote
<1>3. CASE ~toFile
  <2>1. /\ destination \in Seq(Items) /\ Stream = destination
        /\ destination' = destination \o <<x>> /\ UNCHANGED temporary
    BY <1>1, <1>3 DEF Emit, Stream, TypeInv, FileTypes
  <2>2. destination' \in Seq(Items) BY <2>1, AddOne
  <2>3. Stream' = destination' BY <2>2, AbsentIsNone DEF Stream
  <2> QED BY <1>3, <2>1, <2>3, AddOne DEF Wrote
<1> QED BY <1>2, <1>3

\* What write_dump_header puts first.
Header == <<<<"format">>, <<"incomplete", Unsupported>>, <<"set">>>>

LEMMA HeaderWritten ==
  ASSUME TypeInv, WriteHeader
  PROVE  /\ Stream = <<>> /\ Stream' = Header /\ Header \in Seq(Items)
         /\ IF toFile THEN temporary' = Header /\ UNCHANGED destination
            ELSE destination' = Header /\ UNCHANGED temporary
         /\ UNCHANGED <<toFile, fault, reader, viewVars, source>>
<1> USE DEF TypeInv, FileTypes, SourceTypes, DumpTypes, Stream, WriteHeader, Goto, chosen, source
<1>1. <<"incomplete", Unsupported>> \in Items
  <2>1. Unsupported \in BOOLEAN BY DEF Unsupported
  <2> QED BY <2>1, ItemsMade
<1>2. Header \in Seq(Items) BY <1>1, ItemsMade DEF Header
<1>3. <<>> \o Header = Header BY <1>2, ConcatEmptySeq
<1>4. Stream = <<>> BY DEF WriteHeader
<1>5. CASE toFile
  <2>1. destination = Absent /\ temporary = <<>> /\ Stream' = temporary \o Header
    BY <1>4, <1>5 DEF Emit, Header
  <2> QED BY <1>2, <1>3, <1>4, <1>5, <2>1 DEF Emit, Header
<1>6. CASE ~toFile
  <2>1. destination = <<>> /\ destination' = destination \o Header /\ UNCHANGED temporary
    BY <1>4, <1>6 DEF Emit, Header
  <2>2. destination' = Header BY <1>3, <2>1
  <2>3. Stream' = Header BY <1>2, <2>2, AbsentIsNone
  <2> QED BY <1>2, <1>4, <1>6, <2>1, <2>2, <2>3
<1> QED BY <1>5, <1>6

\* Every statement of the dump after its header is one item; the torn one of a dump
\* that is killed is the last.
LEMMA ItemWritten ==
  ASSUME TypeInv
  PROVE  /\ \A t \in Tables : WriteTable(t) => Wrote(<<"table", t>>)
         /\ \A v \in Views : WriteView(v) => Wrote(<<"view", v>>)
         /\ ReadRow => \/ UNCHANGED files /\ batch' = batch + 1
                       \/ /\ Wrote(<<"rows", table, batch>>)
                          /\ batch > 0 /\ batch' = 1
         /\ FlushBatch => Wrote(<<"rows", table, batch>>)
         /\ WriteCount => Wrote(<<"count", table, count>>)
         /\ WriteFooter => Wrote(<<"complete">>)
         /\ DumpCrash => UNCHANGED files
                         \/ \E x \in Items : Wrote(x) /\ x[1] \in {"rows", "malformed"}
                                             /\ dump \in {"header", "tables", "data", "views"}
<1> USE DEF Writing, chosen
<1>0. dump = "data" /\ batch > 0 => <<"rows", table, batch>> \in Items
  <2> SUFFICES ASSUME dump = "data", batch > 0 PROVE <<"rows", table, batch>> \in Items OBVIOUS
  <2>1. table \in Tables /\ batch \in 0..MaxRows BY RowsAssumption DEF TypeInv, DumpTypes
  <2> QED BY <2>1, ItemsMade
<1>1. ASSUME NEW t \in Tables, WriteTable(t) PROVE Wrote(<<"table", t>>)
  BY <1>1, Emitted, ItemsMade DEF WriteTable
<1>2. ASSUME NEW v \in Views, WriteView(v) PROVE Wrote(<<"view", v>>)
  BY <1>2, Emitted, ItemsMade DEF WriteView
<1>3. ASSUME ReadRow
      PROVE  \/ UNCHANGED files /\ batch' = batch + 1
             \/ Wrote(<<"rows", table, batch>>) /\ batch > 0 /\ batch' = 1
  <2>1. \/ UNCHANGED files /\ batch' = batch + 1
        \/ Emit(<<<<"rows", table, batch>>>>) /\ batch > 0 /\ batch' = 1
    BY <1>3 DEF ReadRow
  <2>2. dump = "data" /\ UNCHANGED toFile BY <1>3 DEF ReadRow
  <2> QED BY <1>0, <2>1, <2>2, Emitted
<1>4. ASSUME FlushBatch PROVE Wrote(<<"rows", table, batch>>)
  BY <1>0, <1>4, Emitted DEF FlushBatch
<1>5. ASSUME WriteCount PROVE Wrote(<<"count", table, count>>)
  <2>1. table \in Tables /\ count \in 0..MaxRows
    BY <1>5, RowsAssumption DEF WriteCount, TypeInv, DumpTypes
  <2> QED BY <1>5, <2>1, Emitted, ItemsMade DEF WriteCount
<1>6. ASSUME WriteFooter PROVE Wrote(<<"complete">>)
  BY <1>6, Emitted, ItemsMade DEF WriteFooter, Goto
<1>7. ASSUME DumpCrash
      PROVE  UNCHANGED files
             \/ \E x \in Items : Wrote(x) /\ x[1] \in {"rows", "malformed"}
                                 /\ dump \in {"header", "tables", "data", "views"}
  <2>1. CASE UNCHANGED files BY <2>1
  <2>2. ASSUME dump \notin {"close", "rollback"}, NEW x \in Torn, Emit(<<x>>)
        PROVE  Wrote(x) /\ x \in Items /\ x[1] \in {"rows", "malformed"}
               /\ dump \in {"header", "tables", "data", "views"}
    <3>1. dump \in {"header", "tables", "data", "views"} /\ UNCHANGED toFile
      BY <1>7, <2>2 DEF DumpCrash
    <3>2. x \in Items /\ x[1] \in {"rows", "malformed"}
      <4>1. CASE x = Malformed BY <4>1, ItemsMade
      <4>2. ASSUME NEW n \in 1..(batch - 1), x = <<"rows", table, n>>
            PROVE  x \in Items /\ x[1] \in {"rows", "malformed"}
        <5>1. table \in Tables /\ n \in 0..MaxRows BY <4>2, RowsAssumption DEF TypeInv, DumpTypes
        <5> QED BY <4>2, <5>1, ItemsMade
      <4> QED BY <2>2, <4>1, <4>2 DEF Torn
    <3> QED BY <2>2, <3>1, <3>2, Emitted
  <2>3. \/ UNCHANGED files
        \/ dump \notin {"close", "rollback"} /\ \E x \in Torn : Emit(<<x>>)
    BY <1>7 DEF DumpCrash
  <2> QED BY <2>1, <2>2, <2>3
<1> QED BY <1>1, <1>2, <1>3, <1>4, <1>5, <1>6, <1>7

\* A truncated file holds the items before the cut, and perhaps a torn one.
LEMMA Cut ==
  ASSUME destination \in Seq(Items), Truncate
  PROVE  /\ destination' \in Seq(Items)
         /\ \A i \in 1..Len(destination') :
              /\ i \in 1..Len(destination)
              /\ \/ destination'[i] = destination[i]
                 \/ i = Len(destination') /\ destination'[i][1] \in {"rows", "malformed"}
<1> DEFINE Goal == /\ destination' \in Seq(Items)
                   /\ \A i \in 1..Len(destination') :
                        /\ i \in 1..Len(destination)
                        /\ \/ destination'[i] = destination[i]
                           \/ i = Len(destination') /\ destination'[i][1] \in {"rows", "malformed"}
<1>1. PICK k \in 0..(Len(destination) - 1) :
        LET kept == SubSeq(destination, 1, k)
            cut  == destination[k + 1]
        IN  \/ destination' = kept
            \/ destination' = Append(kept, Malformed)
            \/ /\ cut[1] = "rows"
               /\ \E n \in 1..(cut[3] - 1) : destination' = Append(kept, <<"rows", cut[2], n>>)
  BY DEF Truncate
<1> DEFINE kept == SubSeq(destination, 1, k)
           cut == destination[k + 1]
<1>2. /\ kept \in Seq(Items) /\ Len(kept) = k
      /\ \A i \in 1..k : kept[i] = destination[i] /\ i \in 1..Len(destination)
  OBVIOUS
<1>3. k + 1 \in 1..Len(destination) /\ cut \in Items OBVIOUS
<1> HIDE DEF kept
<1>4. ASSUME destination' = kept PROVE Goal BY <1>2, <1>4
<1>5. ASSUME NEW x \in Items, x[1] \in {"rows", "malformed"}, destination' = Append(kept, x) PROVE Goal
  <2>1. /\ destination' \in Seq(Items) /\ Len(destination') = k + 1
        /\ destination'[k + 1] = x
        /\ \A i \in 1..k : destination'[i] = kept[i]
    BY <1>2, <1>5
  <2>2. \A i \in 1..(k + 1) : i \in 1..k \/ i = k + 1 OBVIOUS
  <2> QED BY <1>2, <1>3, <1>5, <2>1, <2>2
<1>6. ASSUME cut[1] = "rows", NEW n \in 1..(cut[3] - 1),
             destination' = Append(kept, <<"rows", cut[2], n>>)
      PROVE  Goal
  <2>1. cut[2] \in Tables /\ cut[3] \in 0..MaxRows BY <1>3, <1>6, Kinds
  <2>2. n \in 0..MaxRows BY <2>1, <1>6, RowsAssumption
  <2> DEFINE x == <<"rows", cut[2], n>>
  <2>3. x \in Items /\ x[1] = "rows" BY <2>1, <2>2, ItemsMade
  <2> HIDE DEF x
  <2>4. destination' = Append(kept, x) BY <1>6 DEF x
  <2> HIDE DEF Goal
  <2> QED BY <1>5, <2>3, <2>4
<1>7. ASSUME destination' = Append(kept, Malformed) PROVE Goal
  <2> HIDE DEF Goal
  <2> QED BY <1>5, <1>7, ItemsMade
<1>8. Goal
  <2> HIDE DEF Goal
  <2> QED BY <1>1, <1>4, <1>6, <1>7 DEF kept
<1> QED BY <1>8

LEMMA FileTypesStep == TypeInv /\ [Next]_vars => FileTypes'
<1> SUFFICES ASSUME TypeInv, [Next]_vars PROVE FileTypes' OBVIOUS
<1>0. <<>> \in Seq(Items) OBVIOUS
<1> USE DEF TypeInv, FileTypes, files, Goto, Writing, Stream
<1>1. ASSUME UNCHANGED <<dump, toFile, files>> PROVE FileTypes' BY <1>1
<1>2. CASE Inspect \/ OrderViews \/ Preflight \/ Begin
  <2>1. UNCHANGED <<chosen, files>> BY <1>2 DEF Inspect, OrderViews, Preflight, Begin, dumper
  <2>2. /\ dump \in {"idle", "inspect", "begin"}
        /\ dump' \in {"inspect", "begin", "header", "refused"}
    BY <1>2 DEF Inspect, OrderViews, Preflight, Begin, dumper
  <2> QED BY <2>1, <2>2 DEF chosen
<1>3. CASE TablesWritten \/ DataWritten
  <2>1. UNCHANGED <<chosen, files>> /\ dump \in {"tables", "data"} /\ dump' \in {"data", "views"}
    BY <1>3 DEF TablesWritten, DataWritten
  <2> QED BY <2>1 DEF chosen
<1>4. CASE WriteHeader
  <2>1. dump = "header" /\ dump' = "tables" BY <1>4 DEF WriteHeader
  <2> QED BY <1>4, <2>1, HeaderWritten, AbsentIsNone
<1>5. CASE Publish
  <2>1. /\ dump = "close" /\ dump' = "rollback" /\ UNCHANGED toFile
        /\ IF toFile THEN destination' = temporary /\ temporary' = <<>> ELSE UNCHANGED files
    BY <1>5 DEF Publish, chosen
  <2> QED BY <1>0, <2>1, AbsentIsNone
<1>6. CASE Rollback
  <2>1. dump = "rollback" /\ dump' = "done" /\ UNCHANGED <<toFile, files>>
    BY <1>6 DEF Rollback, chosen
  <2> QED BY <2>1
<1>7. ASSUME NEW t \in Tables, ReadTable(t) PROVE FileTypes'
  BY <1>1, <1>7 DEF ReadTable, chosen
<1>8. ASSUME NEW x \in Items, Wrote(x), dump \in {"header", "tables", "data", "views", "close"},
             dump' \in {"tables", "data", "views", "close", "crashed"}
      PROVE  FileTypes'
  <2>1. CASE toFile
    <3>1. destination = Absent /\ UNCHANGED <<destination, toFile>> /\ temporary' \in Seq(Items)
      BY <1>8, <2>1 DEF Wrote
    <3> QED BY <1>8, <2>1, <3>1
  <2>2. CASE ~toFile
    <3>1. UNCHANGED <<temporary, toFile>> /\ destination' \in Seq(Items) BY <1>8, <2>2 DEF Wrote
    <3> QED BY <1>8, <2>2, <3>1, AbsentIsNone
  <2> QED BY <2>1, <2>2
<1>9. ASSUME NEW t \in Tables, WriteTable(t) PROVE FileTypes'
  BY <1>8, <1>9, ItemWritten, ItemsMade DEF WriteTable
<1>10. ASSUME NEW v \in Views, WriteView(v) PROVE FileTypes'
  BY <1>8, <1>10, ItemWritten, ItemsMade DEF WriteView
<1>11. CASE ReadRow
  <2>1. dump = "data" /\ UNCHANGED <<dump, toFile>> BY <1>11 DEF ReadRow, chosen
  <2>2. CASE UNCHANGED files BY <1>1, <2>1, <2>2
  <2>3. CASE Wrote(<<"rows", table, batch>>) BY <1>8, <2>1, <2>3 DEF Wrote
  <2> QED BY <1>11, <2>2, <2>3, ItemWritten
<1>12. CASE FlushBatch \/ WriteCount \/ WriteFooter
  BY <1>8, <1>12, ItemWritten DEF FlushBatch, WriteCount, WriteFooter, Wrote
<1>13. CASE DumpFails
  <2>1. /\ temporary' = <<>> /\ dump' = "failed" /\ UNCHANGED <<toFile, destination>>
    BY <1>13 DEF DumpFails, chosen
  <2> QED BY <1>0, <2>1
<1>14. CASE DumpCrash
  <2>1. /\ dump \in {"header", "tables", "data", "views", "close", "rollback"}
        /\ dump' = "crashed" /\ UNCHANGED toFile
    BY <1>14 DEF DumpCrash, chosen
  <2>2. CASE UNCHANGED files BY <2>1, <2>2
  <2>3. ASSUME NEW x \in Items, Wrote(x), dump \in {"header", "tables", "data", "views"}
        PROVE  FileTypes'
    BY <1>8, <2>1, <2>3
  <2> QED BY <1>14, <2>2, <2>3, ItemWritten
<1>15. CASE RestoreStep \/ RestoreFails \/ Meddle \/ Write
  <2>1. UNCHANGED dumper BY <1>15, RestoreKeeps, WriteKeeps
  <2> QED BY <1>1, <2>1 DEF dumper, chosen
<1>16. CASE Truncate
  <2>1. /\ destination \in Seq(Items) /\ toFile /\ dump \in {"done", "failed", "refused", "crashed"}
        /\ UNCHANGED <<dump, temporary, toFile>> /\ destination # Absent
    BY <1>16, TruncateKeeps DEF Ended, chosen
  <2>2. destination' \in Seq(Items) BY <1>16, <2>1, Cut
  <2> QED BY <2>1, <2>2, AbsentIsNone
<1>17. CASE UNCHANGED vars BY <1>1, <1>17 DEF vars, dumper, chosen
<1> QED BY <1>2, <1>3, <1>4, <1>5, <1>6, <1>7, <1>9, <1>10, <1>11, <1>12, <1>13, <1>14, <1>15, <1>16,
  <1>17 DEF Next, DumpStep

\* e continues d.
Grown(d, e) == Len(d) <= Len(e) /\ \A i \in 1..Len(d) : e[i] = d[i]

LEMMA PipeGrows ==
  ASSUME TypeInv, [Next]_vars, ~toFile
  PROVE  Grown(destination, destination') /\ (Ended => UNCHANGED destination)
<1> DEFINE Goal == Grown(destination, destination') /\ (Ended => UNCHANGED destination)
<1>0. destination \in Seq(Items) /\ destination # Absent BY AbsentIsNone DEF TypeInv, FileTypes
<1>1. ASSUME UNCHANGED destination PROVE Goal BY <1>0, <1>1 DEF Grown
<1>2. ASSUME NEW x, Wrote(x), ~Ended PROVE Goal
  BY <1>0, <1>2, AbsentIsNone DEF Grown, Wrote, Stream
<1>3. ASSUME DumpStep \/ DumpFails \/ DumpCrash PROVE ~Ended BY <1>3, DumpKeeps
<1> SUFFICES Goal OBVIOUS
<1> HIDE DEF Goal
<1> USE DEF files, dumper
<1>4. CASE Inspect \/ OrderViews \/ Preflight \/ Begin \/ TablesWritten \/ DataWritten \/ Rollback
  BY <1>1, <1>4 DEF Inspect, OrderViews, Preflight, Begin, TablesWritten, DataWritten, Rollback
<1>5. CASE WriteHeader
  <2>1. destination = <<>> BY <1>0, <1>5, HeaderWritten DEF Stream
  <2>2. destination' = Header /\ Header \in Seq(Items) BY <1>5, HeaderWritten
  <2>3. ~Ended BY <1>5 DEF WriteHeader, Goto, Ended
  <2> QED BY <2>1, <2>2, <2>3 DEF Grown, Goal
<1>6. CASE Publish BY <1>1, <1>6 DEF Publish
<1>7. ASSUME NEW t \in Tables, WriteTable(t) \/ ReadTable(t) PROVE Goal
  <2>1. CASE WriteTable(t) BY <1>2, <1>3, <2>1, ItemWritten DEF DumpStep
  <2>2. CASE ReadTable(t) BY <1>1, <2>2 DEF ReadTable
  <2> QED BY <1>7, <2>1, <2>2
<1>8. ASSUME NEW v \in Views, WriteView(v) PROVE Goal
  BY <1>2, <1>3, <1>8, ItemWritten DEF DumpStep
<1>9. CASE ReadRow \/ FlushBatch \/ WriteCount \/ WriteFooter
  <2>1. ~Ended BY <1>3, <1>9 DEF DumpStep
  <2> QED BY <1>1, <1>2, <1>9, <2>1, ItemWritten
<1>10. CASE DumpFails BY <1>1, <1>10 DEF DumpFails
<1>11. CASE DumpCrash BY <1>1, <1>2, <1>3, <1>11, ItemWritten
<1>12. CASE RestoreStep \/ RestoreFails \/ Meddle \/ Write
  BY <1>1, <1>12, RestoreKeeps, WriteKeeps
<1>13. CASE Truncate BY <1>13, TruncateKeeps DEF chosen
<1>14. CASE UNCHANGED vars BY <1>1, <1>14 DEF vars
<1> QED BY <1>4, <1>5, <1>6, <1>7, <1>8, <1>9, <1>10, <1>11, <1>12, <1>13, <1>14 DEF Next, DumpStep

\* What a restore reads stays, and may become longer while a pipe is written.
LEMMA InputGrows ==
  ASSUME TypeInv, [Next]_vars, restore # "idle"
  PROVE  Grown(Input, Input') /\ (toFile \/ Ended => UNCHANGED Input)
<1>1. CASE toFile
  <2>1. Input' = Input BY <1>1, GivenKept DEF Input
  <2>2. Input \in Seq(Items) BY <1>1 DEF Input, TypeInv, RestoreTypes
  <2> QED BY <2>1, <2>2 DEF Grown
<1>2. CASE ~toFile BY <1>2, GivenKept, PipeGrows DEF Input
<1> QED BY <1>1, <1>2

LEMMA InputType == TypeInv => Input \in Seq(Items) /\ Len(Input) \in Nat
BY DEF TypeInv, FileTypes, RestoreTypes, Input

\* A comment of a known form sets its field of the metadata and no other.
LEMMA NotedType ==
  ASSUME metadata \in Metadata, NEW x \in Items
  PROVE  Noted(x) \in Metadata
<1> USE DEF Metadata
<1>1. CASE x[1] = "format"
  <2>1. Noted(x) = [metadata EXCEPT !.format = TRUE] BY <1>1 DEF Noted
  <2> QED BY <2>1
<1>2. CASE x[1] = "incomplete"
  <2>1. Noted(x) = [metadata EXCEPT !.incomplete = x[2]] BY <1>2 DEF Noted
  <2>2. x[2] \in BOOLEAN BY <1>2, Kinds
  <2> QED BY <2>1, <2>2
<1>3. CASE x[1] = "complete"
  <2>1. Noted(x) = [metadata EXCEPT !.complete = TRUE] BY <1>3 DEF Noted
  <2> QED BY <2>1
<1>4. CASE x[1] = "count"
  <2>1. Noted(x) = [metadata EXCEPT !.expected[x[2]] = x[3]] BY <1>4 DEF Noted
  <2>2. x[2] \in Tables /\ x[3] \in -1..MaxRows BY <1>4, Kinds, RowsAssumption
  <2> QED BY <2>1, <2>2
<1>5. CASE x[1] \notin {"format", "incomplete", "complete", "count"}
  BY <1>5 DEF Noted
<1> QED BY <1>1, <1>2, <1>3, <1>4, <1>5

LEMMA NotedFields ==
  ASSUME metadata \in Metadata, NEW x \in Items
  PROVE  /\ Noted(x).expected =
              (IF x[1] = "count" THEN [metadata.expected EXCEPT ![x[2]] = x[3]]
               ELSE metadata.expected)
         /\ Noted(x).complete = (x[1] = "complete" \/ metadata.complete)
         /\ Noted(x).format = (x[1] = "format" \/ metadata.format)
<1> USE DEF Metadata
<1>1. CASE x[1] = "format"
  <2>1. Noted(x) = [metadata EXCEPT !.format = TRUE] BY <1>1 DEF Noted
  <2> QED BY <1>1, <2>1
<1>2. CASE x[1] = "incomplete"
  <2>1. Noted(x) = [metadata EXCEPT !.incomplete = x[2]] BY <1>2 DEF Noted
  <2> QED BY <1>2, <2>1
<1>3. CASE x[1] = "complete"
  <2>1. Noted(x) = [metadata EXCEPT !.complete = TRUE] BY <1>3 DEF Noted
  <2> QED BY <1>3, <2>1
<1>4. CASE x[1] = "count"
  <2>1. Noted(x) = [metadata EXCEPT !.expected[x[2]] = x[3]] BY <1>4 DEF Noted
  <2> QED BY <1>4, <2>1
<1>5. CASE x[1] \notin {"format", "incomplete", "complete", "count"}
  BY <1>5 DEF Noted
<1> QED BY <1>1, <1>2, <1>3, <1>4, <1>5

LEMMA MetadataRead ==
  ASSUME ReadPrefix, metadata \in Metadata
  PROVE  /\ metadata' \in Metadata
         /\ metadata'.expected = metadata.expected /\ metadata'.complete = metadata.complete
<1> DEFINE f == Len(Input) >= 1
           n == Len(Input) >= 2 /\ Input[2] = <<"incomplete", TRUE>>
<1>1. \/ metadata' = metadata
      \/ metadata' = [[metadata EXCEPT !.format = f] EXCEPT !.incomplete = n]
  BY DEF ReadPrefix
<1>2. f \in BOOLEAN /\ n \in BOOLEAN OBVIOUS
<1> HIDE DEF f, n
<1> QED BY <1>1, <1>2 DEF Metadata

LEMMA RestoreTypesStep == TypeInv /\ [Next]_vars => RestoreTypes'
<1> SUFFICES ASSUME TypeInv, [Next]_vars PROVE RestoreTypes' OBVIOUS
<1> USE DEF TypeInv, RestoreTypes, reader, target
<1>1. DumpTypes' BY DumpTypesStep
<1>2. dump \in {"rollback", "done", "failed", "crashed"} =>
        dump' \in {"rollback", "done", "failed", "crashed"}
  <2>1. dump = "rollback" => dump' \in {"rollback", "done", "failed", "crashed"}
    <3> SUFFICES ASSUME dump = "rollback" PROVE dump' \in {"rollback", "done", "failed", "crashed"}
      OBVIOUS
    <3>1. CASE DumpStep
      <4> USE DEF Goto
      <4>1. ASSUME NEW t \in Tables, WriteTable(t) \/ ReadTable(t) PROVE FALSE
        BY <4>1 DEF WriteTable, ReadTable
      <4>2. ASSUME NEW v \in Views, WriteView(v) PROVE FALSE BY <4>2 DEF WriteView
      <4>3. ~(Inspect \/ OrderViews \/ Preflight \/ Begin \/ WriteHeader \/ TablesWritten)
        BY DEF Inspect, OrderViews, Preflight, Begin, WriteHeader, TablesWritten
      <4>4. ~(ReadRow \/ FlushBatch \/ WriteCount \/ DataWritten \/ WriteFooter \/ Publish)
        BY DEF ReadRow, FlushBatch, WriteCount, DataWritten, WriteFooter, Publish
      <4>5. Rollback BY <3>1, <4>1, <4>2, <4>3, <4>4 DEF DumpStep
      <4> QED BY <4>5 DEF Rollback
    <3>2. CASE DumpFails \/ DumpCrash BY <3>2 DEF DumpFails, DumpCrash
    <3>3. CASE RestoreStep \/ RestoreFails \/ Meddle \/ Write \/ Truncate
      BY <3>3, RestoreKeeps, WriteKeeps, TruncateKeeps DEF dumper
    <3>4. CASE UNCHANGED vars BY <3>4 DEF vars, dumper
    <3> QED BY <3>1, <3>2, <3>3, <3>4 DEF Next
  <2> QED BY <2>1, GivenKept DEF Ended
<1>3. UNCHANGED toFile /\ (fault => fault') BY GivenKept
<1>4. ASSUME UNCHANGED <<reader, fault>> PROVE RestoreTypes' BY <1>2, <1>3, <1>4
<1>5. CASE DumpStep \/ DumpFails \/ DumpCrash \/ Write
  BY <1>4, <1>5, DumpKeeps, WriteKeeps
<1>6. CASE Open
  <2>1. <<>> \in Seq(Items) OBVIOUS
  <2>2. destination # Absent =>
          /\ destination \in Seq(Items)
          /\ toFile => dump \in {"rollback", "done", "failed", "crashed"}
    BY DEF FileTypes
  <2>3. /\ restore' = IF destination = Absent THEN "failed" ELSE "prefix"
        /\ input' = IF toFile /\ destination # Absent THEN destination ELSE <<>>
        /\ fault' = (fault \/ destination = Absent)
        /\ UNCHANGED <<metadata, meddled, dump>>
    BY <1>6 DEF Open, dumper
  <2> QED BY <1>3, <2>1, <2>2, <2>3
<1>7. CASE ReadPrefix
  <2>1. metadata' \in Metadata BY <1>7, MetadataRead
  <2>2. restore = "prefix" /\ restore' \in {"target", "failed"} /\ UNCHANGED <<input, meddled, fault>>
    BY <1>7 DEF ReadPrefix
  <2> QED BY <1>2, <1>3, <2>1, <2>2
<1>8. CASE InspectTarget
  <2>1. /\ restore = "target" /\ restore' \in {"refused", "apply"}
        /\ UNCHANGED <<input, metadata, meddled, fault>>
    BY <1>8 DEF InspectTarget
  <2> QED BY <1>2, <1>3, <2>1
<1>9. CASE Apply
  <2>1. Input[pos + 1] \in Items BY <1>9, InputType DEF Apply, TargetTypes
  <2>2. Noted(Input[pos + 1]) \in Metadata BY <2>1, NotedType
  <2>3. /\ restore = "apply" /\ restore' \in {"failed", "apply"}
        /\ metadata' \in {metadata, Noted(Input[pos + 1])}
        /\ UNCHANGED <<input, meddled, fault>>
    BY <1>9 DEF Apply
  <2> QED BY <1>2, <1>3, <2>2, <2>3
<1>10. CASE Finish \/ EndCount
  <2>1. /\ restore \in {"apply", "count"} /\ restore' \in {"failed", "count", "ok"}
        /\ UNCHANGED <<input, metadata, meddled, fault>>
    BY <1>10 DEF Finish, EndCount
  <2> QED BY <1>2, <1>3, <2>1
<1>11. ASSUME NEW t \in Tables, CountTable(t) PROVE RestoreTypes'
  <2>1. /\ restore = "count" /\ restore' \in {"failed", "count"}
        /\ UNCHANGED <<input, metadata, meddled, fault>>
    BY <1>11 DEF CountTable
  <2> QED BY <1>2, <1>3, <2>1
<1>12. CASE RestoreFails
  <2>1. restore' = "failed" /\ fault' = TRUE /\ UNCHANGED <<input, metadata, meddled>>
    BY <1>12 DEF RestoreFails
  <2> QED BY <2>1
<1>13. CASE Meddle
  <2>1. UNCHANGED <<restore, input, metadata, fault>> /\ meddled' = TRUE BY <1>13 DEF Meddle
  <2> QED BY <1>2, <1>3, <2>1
<1>14. CASE Truncate
  <2>1. UNCHANGED reader /\ fault' = TRUE BY <1>14, TruncateKeeps
  <2> QED BY <1>2, <1>3, <2>1
<1>15. CASE UNCHANGED vars BY <1>4, <1>15 DEF vars
<1> QED BY <1>5, <1>6, <1>7, <1>8, <1>9, <1>10, <1>11, <1>12, <1>13, <1>14, <1>15 DEF Next, RestoreStep

LEMMA TargetTypesStep == TypeInv /\ [Next]_vars => TargetTypes'
<1> SUFFICES ASSUME TypeInv, [Next]_vars PROVE TargetTypes' OBVIOUS
<1>0. Input \in Seq(Items) /\ Len(Input) \in Nat /\ (restore # "idle" => Len(Input) <= Len(Input'))
  BY InputType, InputGrows DEF Grown
<1>00. Input' \in Seq(Items) /\ Len(Input') \in Nat
  BY FileTypesStep, RestoreTypesStep DEF FileTypes, RestoreTypes, Input
<1>01. AtEnd <=> pos = Len(Input) /\ (toFile \/ Ended) BY DEF AtEnd, DumpEnded, Ended
<1>02. restore # "idle" /\ AtEnd /\ UNCHANGED pos => AtEnd'
  <2> SUFFICES ASSUME restore # "idle", AtEnd, UNCHANGED pos PROVE AtEnd' OBVIOUS
  <2>1. Input' = Input /\ pos = Len(Input) /\ (toFile \/ Ended) BY <1>01, InputGrows
  <2>2. (toFile \/ Ended)' BY <2>1, GivenKept DEF Ended
  <2> QED BY <2>1, <2>2 DEF AtEnd, DumpEnded, Ended
<1> USE DEF TypeInv, TargetTypes, reader, target
<1>03. pos \in 0..Len(Input')
  <2>1. CASE restore = "idle" BY <1>00, <2>1
  <2>2. CASE restore # "idle" BY <1>0, <1>00, <2>2
  <2> QED BY <2>1, <2>2
<1>1. ASSUME UNCHANGED reader PROVE TargetTypes' BY <1>1, <1>02, <1>03
<1>2. CASE DumpStep \/ DumpFails \/ DumpCrash \/ Write \/ Truncate
  BY <1>1, <1>2, DumpKeeps, WriteKeeps, TruncateKeeps
<1>3. CASE Open
  <2>1. /\ restore = "idle" /\ restore' \in {"failed", "prefix"}
        /\ UNCHANGED <<pos, metadata, counted, target>>
    BY <1>3 DEF Open
  <2> QED BY <1>00, <2>1
<1>4. CASE ReadPrefix
  <2>1. /\ restore = "prefix" /\ restore' \in {"failed", "target"}
        /\ UNCHANGED <<pos, counted, target>>
    BY <1>4 DEF ReadPrefix
  <2>2. metadata'.expected = metadata.expected /\ metadata'.complete = metadata.complete
    BY <1>4, MetadataRead DEF RestoreTypes
  <2> QED BY <1>00, <2>1, <2>2
<1>5. CASE InspectTarget
  <2>1. /\ restore = "target" /\ restore' \in {"refused", "apply"}
        /\ theirs' # {} => restore' = "refused"
        /\ UNCHANGED <<input, pos, metadata, counted, tables, views>>
    BY <1>5 DEF InspectTarget
  <2> QED BY <1>03, <2>1
<1>6. CASE Apply
  <2> DEFINE item == Input[pos + 1]
  <2>1. item \in Items BY <1>0, <1>6 DEF Apply
  <2>2. pos + 1 \in 0..Len(Input) BY <1>0, <1>6 DEF Apply
  <2>5. restore = "apply" /\ theirs = {} /\ UNCHANGED <<theirs, counted>> BY <1>6 DEF Apply
  <2>3. CASE Accepted(item)
    <3>1. pos' = pos + 1 /\ Execute(item) /\ restore' = "apply"
      BY <1>6, <2>3 DEF Apply
    <3>2. tables' \in [Tables -> Nat \cup {-1}]
      <4>1. CASE item[1] = "table"
        BY <2>1, <3>1, <4>1, Kinds DEF Execute
      <4>2. CASE item[1] = "rows"
        <5>1. item[2] \in Tables /\ item[3] \in Nat BY <2>1, <4>2, Kinds
        <5>2. tables[item[2]] # -1 BY <2>3, <4>2 DEF Accepted
        <5>3. tables' = [tables EXCEPT ![item[2]] = @ + item[3]] BY <3>1, <4>2 DEF Execute
        <5> HIDE DEF item
        <5>4. tables[item[2]] + item[3] \in Nat BY <5>1, <5>2
        <5> QED BY <5>1, <5>3, <5>4
      <4>3. CASE item[1] \notin {"table", "rows"} BY <3>1, <4>3 DEF Execute
      <4> QED BY <4>1, <4>2, <4>3
    <3>3. views' \subseteq Views
      <4>1. item[1] = "view" => item[2] \in Views BY <2>1, Kinds
      <4> QED BY <3>1, <4>1 DEF Execute
    <3>4. pos' \in 0..Len(Input')
      <4>1. Len(Input) <= Len(Input') BY <1>0, <2>5
      <4>2. pos' = pos + 1 BY <3>1
      <4> HIDE DEF item
      <4> QED BY <1>0, <1>00, <2>2, <4>1, <4>2
    <3> QED BY <2>5, <3>1, <3>2, <3>3, <3>4
  <2>4. CASE ~Accepted(item)
    <3>1. restore' = "failed" /\ UNCHANGED <<tables, views, metadata, pos>>
      BY <1>6, <2>4 DEF Apply
    <3> QED BY <1>03, <2>5, <3>1
  <2> QED BY <2>3, <2>4
<1>7. CASE Finish
  <2>1. /\ restore = "apply" /\ AtEnd /\ restore' \in {"failed", "count"}
        /\ restore' = "count" => (metadata.format => metadata.complete)
        /\ UNCHANGED <<pos, metadata, counted, target>>
    BY <1>7 DEF Finish
  <2> QED BY <1>02, <1>03, <2>1
<1>8. CASE EndCount
  <2>1. /\ restore = "count" /\ restore' \in {"failed", "ok"}
        /\ UNCHANGED <<pos, metadata, counted, target>>
    BY <1>8 DEF EndCount
  <2> QED BY <1>02, <1>03, <2>1
<1>9. ASSUME NEW t \in Tables, CountTable(t) PROVE TargetTypes'
  <2>1. /\ restore = "count" /\ restore' \in {"failed", "count"}
        /\ counted' \in [Tables -> Nat \cup {-1}]
        /\ UNCHANGED <<pos, metadata, target>>
    <3>1. CASE tables[t] = -1 BY <1>9, <3>1 DEF CountTable
    <3>2. CASE tables[t] # -1
      <4>1. tables[t] \in Nat \cup {-1} OBVIOUS
      <4>2. restore = "count" /\ UNCHANGED <<restore, pos, metadata, target>>
        BY <1>9, <3>2 DEF CountTable
      <4>3. counted' = [counted EXCEPT ![t] = tables[t]] BY <1>9, <3>2 DEF CountTable
      <4> QED BY <4>1, <4>2, <4>3
    <3> QED BY <3>1, <3>2
  <2> QED BY <1>02, <1>03, <2>1
<1>10. CASE RestoreFails
  <2>1. restore \in {"target", "apply", "count"} /\ restore' = "failed" /\ UNCHANGED <<pos, metadata, counted, target>>
    BY <1>10 DEF RestoreFails
  <2> QED BY <1>03, <2>1
<1>11. CASE Meddle
  <2>1. /\ UNCHANGED <<restore, pos, metadata, counted, theirs>> /\ restore \in {"apply", "count"}
        /\ tables' \in [Tables -> Nat \cup {-1}] /\ views' \subseteq Views
    BY <1>11, RowsAssumption DEF Meddle
  <2> QED BY <1>02, <1>03, <2>1
<1>12. CASE UNCHANGED vars BY <1>1, <1>12 DEF vars
<1> QED BY <1>2, <1>3, <1>4, <1>5, <1>6, <1>7, <1>8, <1>9, <1>10, <1>11, <1>12 DEF Next, RestoreStep

LEMMA TypeInit == Init => TypeInv
<1> SUFFICES ASSUME Init PROVE TypeInv OBVIOUS
<1>0. <<>> \in Seq(Items) /\ Len(<<>>) = 0 /\ Absent # <<>>
  <2>1. <<>> \in Seq(Items) /\ Len(<<>>) = 0 OBVIOUS
  <2> QED BY <2>1, AbsentIsNone
<1>1. NoCount \in [Tables -> Nat \cup {-1}] /\ NoCount \in [Tables -> -1..MaxRows]
  BY RowsAssumption DEF NoCount
<1>2. NoMetadata \in Metadata /\ NoMetadata.expected = NoCount /\ ~NoMetadata.complete /\ ~NoMetadata.format
  BY <1>1 DEF NoMetadata, Metadata
<1>3. SourceTypes BY RowsAssumption DEF Init, SourceTypes
<1>4. DumpTypes BY RowsAssumption DEF Init, DumpTypes, Writing
<1>5. FileTypes BY <1>0 DEF Init, FileTypes, Stream
<1>6. RestoreTypes BY <1>0, <1>2 DEF Init, RestoreTypes
<1>7. Input = <<>> BY DEF Init, Input
<1>8. TargetTypes BY <1>0, <1>1, <1>2, <1>7 DEF Init, TargetTypes
<1> QED BY <1>3, <1>4, <1>5, <1>6, <1>8 DEF TypeInv

LEMMA TypeStep == TypeInv /\ [Next]_vars => TypeInv'
BY SourceTypesStep, DumpTypesStep, FileTypesStep, RestoreTypesStep, TargetTypesStep DEF TypeInv

\* Types of every variable of dump, file, restore and target, for any values of the
\* constants: run_dump and run_restore only ever hold items they could have written.
THEOREM TypesKept == Spec => []TypeInv
BY TypeInit, TypeStep, PTL DEF Spec

\* A dump carries out ViewOrder: every step is one of its loops' or leaves them alone, so
\* what is proved of prune_unsupported_views and order_views holds inside run_dump.
THEOREM ViewsRun == Spec => ViewSpec
<1>1. Init => ViewInit BY DEF Init
<1> QED BY <1>1, ViewsStep, PTL DEF Spec, ViewSpec

\* The type invariant of Migration.
THEOREM MigrationTypes == Spec => []TypeOK
<1>1. TypeInv /\ ViewTypeOK => TypeOK
  BY RowsAssumption DEF TypeInv, TypeOK, SourceTypes, DumpTypes, RestoreTypes, TargetTypes
<1> QED BY <1>1, TypesKept, ViewsRun, ViewTypes, PTL

\* inspect_empty_target refuses a target that holds anything, and no statement of the dump
\* has been executed there, then or later.
THEOREM Untouched == Spec => TargetUntouched
<1>1. TypeInv /\ [Next]_vars => [theirs # {} => UNCHANGED <<tables, views>>]_vars
  <2> SUFFICES ASSUME TypeInv, Next, theirs # {} PROVE UNCHANGED <<tables, views>> OBVIOUS
  <2>1. restore = "refused" BY DEF TypeInv, TargetTypes
  <2> USE DEF reader, target
  <2>2. CASE DumpStep \/ DumpFails \/ DumpCrash \/ Write \/ Truncate
    BY <2>2, DumpKeeps, WriteKeeps, TruncateKeeps
  <2>3. ASSUME NEW t \in Tables, CountTable(t) PROVE FALSE BY <2>1, <2>3 DEF CountTable
  <2>4. ~(RestoreStep \/ RestoreFails \/ Meddle)
    BY <2>1, <2>3 DEF RestoreStep, Open, ReadPrefix, InspectTarget, Apply, Finish, EndCount, RestoreFails,
       Meddle
  <2> QED BY <2>2, <2>4 DEF Next
<1> QED BY <1>1, TypesKept, PTL DEF Spec, TargetUntouched


-----------------------------------------------------------------------------
\* Every dump begins with the line that names its format, then says whether it is
\* incomplete; what is not exported was asked for with --ignore-unsupported.
Warned(d) == Len(d) > 2 => d[2] = <<"incomplete", Unsupported>> /\ (Unsupported => ignore)

HeaderInv ==
  /\ Warned(Stream)
  /\ dump \in {"tables", "data", "views", "close"} => Len(Stream) > 2 /\ Stream[1] = <<"format">>
  /\ dump = "close" => Stream[Len(Stream)] = <<"complete">>
  /\ toFile /\ destination # Absent /\ ~fault => Whole(destination)
  /\ dump = "begin" \/ Writing => (Unsupported => ignore)

LEMMA HeaderInit == Init => HeaderInv
<1> SUFFICES ASSUME Init PROVE HeaderInv OBVIOUS
<1>1. Stream = <<>> /\ dump = "idle" /\ (toFile => destination = Absent) BY DEF Init, Stream
<1> QED BY <1>1 DEF HeaderInv, Warned, Writing

LEMMA HeaderStep == TypeInv /\ HeaderInv /\ [Next]_vars => HeaderInv'
<1> SUFFICES ASSUME TypeInv, HeaderInv, [Next]_vars PROVE HeaderInv' OBVIOUS
<1>0. UNCHANGED Unsupported \/ dump = "inspect" BY GivenKept DEF Unsupported, viewVars, pruning
<1>1. UNCHANGED <<ignore, toFile>> /\ (fault => fault') BY GivenKept
<1>2. /\ Len(<<>>) = 0 /\ (dump \in {"idle", "inspect", "begin", "header"} => Stream = <<>>)
      /\ toFile /\ destination # Absent => dump \in {"rollback", "done", "failed", "crashed"}
  BY DEF TypeInv, FileTypes
<1> USE DEF Goto, files
<1>3. ASSUME UNCHANGED <<Stream, destination, dump>> PROVE HeaderInv'
  BY <1>0, <1>1, <1>2, <1>3 DEF HeaderInv, Warned, Writing, Whole
<1>4. CASE Inspect \/ TablesWritten \/ DataWritten \/ Begin
  <2>1. /\ UNCHANGED <<Stream, destination>> /\ dump # "inspect"
        /\ <<dump, dump'>> \in {<<"idle", "inspect">>, <<"tables", "data">>,
                                <<"data", "views">>, <<"begin", "header">>}
    BY <1>4 DEF Inspect, TablesWritten, DataWritten, Begin, Stream
  <2> QED BY <1>0, <1>1, <2>1 DEF HeaderInv, Warned, Writing, Whole
<1>5. CASE Preflight
  <2>1. /\ UNCHANGED <<Stream, destination, Unsupported>>
        /\ dump = "inspect" /\ dump' \in {"refused", "begin"}
        /\ dump' = "begin" => (Unsupported => ignore)
    BY <1>5 DEF Preflight, Stream, Unsupported, source, viewVars, pruning
  <2> QED BY <1>1, <1>2, <2>1 DEF HeaderInv, Warned, Writing, Whole
<1>6. CASE OrderViews
  <2>1. UNCHANGED <<Stream, destination, dump>> BY <1>6 DEF OrderViews, dumper, Stream
  <2> QED BY <1>3, <2>1
<1>7. CASE WriteHeader
  <2>1. /\ Stream' = Header /\ Len(Header) = 3 /\ Header[1] = <<"format">>
        /\ Header[2] = <<"incomplete", Unsupported>>
        /\ dump' = "tables" /\ dump = "header" /\ (Unsupported => ignore)
        /\ toFile => destination' = Absent
    BY <1>2, <1>7, HeaderWritten DEF Header, WriteHeader, HeaderInv, Writing
  <2> QED BY <1>0, <1>1, <2>1 DEF HeaderInv, Warned, Writing, Whole
<1>8. ASSUME NEW x, Wrote(x), dump \in {"tables", "data", "views"},
             dump' \in {"tables", "data", "views", "close"}, dump' = "close" => x = <<"complete">>
      PROVE  HeaderInv'
  <2>1. Stream \in Seq(Items) /\ Len(Stream) \in Nat /\ Len(Stream) > 2 /\ Stream[1] = <<"format">>
    BY <1>8, StreamType DEF HeaderInv
  <2>2. /\ Len(Stream') = Len(Stream) + 1 /\ Stream'[Len(Stream) + 1] = x
        /\ Stream'[1] = Stream[1] /\ Stream'[2] = Stream[2]
    BY <1>8, <2>1 DEF Wrote
  <2>3. toFile => destination' = Absent BY <1>2, <1>8 DEF Wrote
  <2>4. Warned(Stream)' /\ (dump' = "close" => Stream'[Len(Stream')] = <<"complete">>)
    BY <1>0, <1>1, <1>8, <2>1, <2>2 DEF HeaderInv, Warned
  <2> QED BY <1>0, <1>1, <1>8, <2>1, <2>2, <2>3, <2>4 DEF HeaderInv, Writing
<1>9. ASSUME NEW t \in Tables, WriteTable(t) PROVE HeaderInv'
  BY <1>8, <1>9, ItemWritten DEF WriteTable
<1>10. ASSUME NEW v \in Views, WriteView(v) PROVE HeaderInv'
  BY <1>8, <1>10, ItemWritten DEF WriteView
<1>11. CASE ReadRow
  <2>1. dump = "data" /\ UNCHANGED dump BY <1>11 DEF ReadRow
  <2>2. CASE UNCHANGED files BY <1>3, <2>1, <2>2 DEF Stream
  <2>3. CASE Wrote(<<"rows", table, batch>>) BY <1>8, <2>1, <2>3
  <2> QED BY <1>11, <2>2, <2>3, ItemWritten
<1>12. CASE FlushBatch \/ WriteCount BY <1>8, <1>12, ItemWritten DEF FlushBatch, WriteCount
<1>13. CASE WriteFooter BY <1>8, <1>13, ItemWritten DEF WriteFooter
<1>14. ASSUME NEW t \in Tables, ReadTable(t) PROVE HeaderInv'
  <2>1. UNCHANGED <<Stream, destination, dump>> BY <1>14 DEF ReadTable, Stream
  <2> QED BY <1>3, <2>1
<1>15. CASE Publish
  <2>1. /\ dump = "close" /\ dump' = "rollback"
        /\ IF toFile THEN destination' = temporary ELSE UNCHANGED files
    BY <1>15 DEF Publish
  <2>2. Stream' = Stream /\ (toFile => destination' = Stream)
    <3>1. toFile <=> destination = Absent BY <2>1 DEF TypeInv, FileTypes
    <3>2. CASE toFile
      <4>1. Stream = temporary BY <3>1, <3>2 DEF Stream
      <4>2. destination' # Absent BY <2>1, <3>2, AbsentIsNone DEF TypeInv, FileTypes
      <4> QED BY <2>1, <3>2, <4>1, <4>2 DEF Stream
    <3>3. CASE ~toFile BY <2>1, <3>3 DEF Stream
    <3> QED BY <3>2, <3>3
  <2>3. Len(Stream) > 2 /\ Stream[1] = <<"format">> /\ Stream[Len(Stream)] = <<"complete">>
    BY <2>1 DEF HeaderInv
  <2>4. toFile => Whole(destination)' BY <2>2, <2>3 DEF Whole
  <2> QED BY <1>0, <1>1, <2>1, <2>2, <2>4 DEF HeaderInv, Warned, Writing
<1>16. CASE Rollback
  <2>1. dump = "rollback" /\ dump' = "done" /\ UNCHANGED <<Stream, destination>>
    BY <1>16 DEF Rollback, Stream
  <2> QED BY <1>0, <1>1, <2>1 DEF HeaderInv, Warned, Writing, Whole
<1>17. CASE DumpFails
  <2>1. dump' = "failed" /\ Stream' \in {<<>>, Stream} /\ UNCHANGED destination
    BY <1>17 DEF DumpFails, Stream
  <2> QED BY <1>0, <1>1, <1>2, <2>1 DEF HeaderInv, Warned, Writing, Whole
<1>18. CASE DumpCrash
  <2>1. /\ dump' = "crashed"
        /\ dump \in {"header", "tables", "data", "views", "close", "rollback"}
    BY <1>18 DEF DumpCrash, Writing
  <2>2. CASE UNCHANGED files
    BY <1>0, <1>1, <2>1, <2>2 DEF HeaderInv, Warned, Writing, Whole, Stream
  <2>3. ASSUME NEW x \in Items, Wrote(x), dump \in {"header", "tables", "data", "views"}
        PROVE  HeaderInv'
    <3>1. toFile => destination' = Absent BY <1>2, <2>3 DEF Wrote
    <3>2. Stream \in Seq(Items) /\ Len(Stream) \in Nat BY StreamType
    <3>3. Len(Stream') = Len(Stream) + 1 /\ (Len(Stream) > 2 => Stream'[2] = Stream[2])
      BY <2>3, <3>2 DEF Wrote
    <3>4. Len(Stream) = 0 \/ Len(Stream) > 2 BY <1>2, <2>3 DEF HeaderInv
    <3>5. Warned(Stream)' BY <1>0, <1>1, <2>1, <3>2, <3>3, <3>4 DEF HeaderInv, Warned
    <3> QED BY <1>1, <2>1, <3>1, <3>5 DEF HeaderInv, Writing
  <2> QED BY <1>18, <2>2, <2>3, ItemWritten
<1>19. CASE Write \/ RestoreStep \/ RestoreFails \/ Meddle
  <2>1. UNCHANGED dumper BY <1>19, RestoreKeeps, WriteKeeps
  <2>2. UNCHANGED <<Stream, destination, dump>> BY <2>1 DEF Stream, dumper
  <2> QED BY <1>3, <2>2
<1>20. CASE Truncate
  <2>1. /\ dump' = dump /\ dump \in {"done", "failed", "refused", "crashed"} /\ fault' = TRUE
        /\ destination # Absent
    BY <1>20, TruncateKeeps DEF Ended
  <2>2. destination \in Seq(Items) /\ Stream = destination BY <2>1 DEF TypeInv, FileTypes, Stream
  <2>3. destination' \in Seq(Items) /\ Stream' = destination'
    BY <1>20, <2>2, Cut, AbsentIsNone DEF Stream
  <2>4. ASSUME Len(destination') > 2 PROVE destination'[2] = destination[2] /\ Len(destination) > 2
    <3> DEFINE n == Len(destination')
    <3>1. n \in Nat BY <2>3
    <3> HIDE DEF n
    <3>2. n > 2 BY <2>4 DEF n
    <3>3. 2 \in 1..n /\ 2 # n /\ 3 \in 1..n BY <3>1, <3>2
    <3>4. destination'[2] = destination[2] /\ 3 \in 1..Len(destination)
      BY <1>20, <2>2, <3>3, Cut DEF n
    <3> QED BY <2>2, <3>4
  <2>5. Warned(Stream)' BY <1>0, <1>1, <2>1, <2>2, <2>3, <2>4 DEF HeaderInv, Warned
  <2> QED BY <1>1, <2>1, <2>5 DEF HeaderInv, Writing
<1>21. CASE UNCHANGED vars
  <2>1. UNCHANGED <<Stream, destination, dump>> BY <1>21 DEF vars, dumper, Stream
  <2> QED BY <1>3, <2>1
<1> QED BY <1>4, <1>5, <1>6, <1>7, <1>9, <1>10, <1>11, <1>12, <1>13, <1>14, <1>15, <1>16,
  <1>17, <1>18, <1>19, <1>20, <1>21 DEF Next, DumpStep

\* dump_output renames only a finished file over its destination: what is found there
\* is a whole dump, however the dump ended.
THEOREM OutputKept == Spec => []OutputWhole
<1>1. HeaderInv => OutputWhole BY DEF HeaderInv, OutputWhole
<1> QED BY <1>1, TypeInit, TypeStep, HeaderInit, HeaderStep, PTL DEF Spec

\* A dump that leaves out views, triggers or other objects says so in its second line, and
\* was asked to with --ignore-unsupported.
THEOREM OmissionSaid == Spec => []NoSilentOmission
<1>1. TypeInv /\ HeaderInv => NoSilentOmission
  BY DEF TypeInv, SourceTypes, HeaderInv, NoSilentOmission, Warned, Unsupported, Stream
<1> QED BY <1>1, TypeInit, TypeStep, HeaderInit, HeaderStep, PTL DEF Spec

-----------------------------------------------------------------------------
Exported == Views \ skipped

CountsIn(d, T, s) == \A t \in T : \E j \in 1..Len(d) : d[j] = <<"count", t, s[t]>>
ViewsIn(d, V) == \A v \in V : \E j \in 1..Len(d) : d[j] = <<"view", v>>

\* d says of tables and views what was so at s, and before its end marker it has named
\* all of them.
Tells(d, s, exported) ==
  \A i \in 1..Len(d) :
    /\ d[i][1] = "count" => d[i][3] = s[d[i][2]]
    /\ d[i][1] = "view" => d[i][2] \in exported
    /\ d[i][1] = "complete" =>
         /\ \A t \in Tables : \E j \in 1..(i - 1) : d[j] = <<"count", t, s[t]>>
         /\ \A v \in exported : \E j \in 1..(i - 1) : d[j] = <<"view", v>>

\* What was written so far is told of the snapshot, a moment of the source; a published
\* dump, and the file a restore has opened, of some moment.
ContentInv ==
  /\ dump \notin {"rollback", "done", "failed", "crashed"} => input = <<>>
  /\ dump \notin {"data", "failed", "crashed"} => table = Null
  /\ dump = "data" /\ table # Null => count + unread = snapshot[table]
  /\ dump = "views" => todo \subseteq Exported
  /\ dump \in {"tables", "data", "views"} =>
       \A i \in 1..Len(Stream) : Stream[i][1] # "complete"
  /\ dump = "data" => CountsIn(Stream, (Tables \ todo) \ {table}, snapshot)
  /\ dump = "views" => CountsIn(Stream, Tables, snapshot) /\ ViewsIn(Stream, Exported \ todo)
  /\ dump \in {"tables", "data", "views", "close"} => Tells(Stream, snapshot, Exported)
  /\ \E s \in past : Tells(Stream, s, Exported)
  /\ \E s \in past : Tells(input, s, Exported)

LEMMA OneMoreTold ==
  ASSUME NEW d \in Seq(Items), NEW e \in Seq(Items), NEW x \in Items, NEW s,
         Len(e) = Len(d) + 1, \A i \in 1..Len(d) : e[i] = d[i], e[Len(d) + 1] = x,
         Tells(d, s, Exported),
         x[1] = "count" => x[3] = s[x[2]],
         x[1] = "view" => x[2] \in Exported,
         x[1] = "complete" => CountsIn(d, Tables, s) /\ ViewsIn(d, Exported)
  PROVE  Tells(e, s, Exported)
<1> DEFINE Told(i) ==
      /\ e[i][1] = "count" => e[i][3] = s[e[i][2]]
      /\ e[i][1] = "view" => e[i][2] \in Exported
      /\ e[i][1] = "complete" =>
           /\ \A t \in Tables : \E j \in 1..(i - 1) : e[j] = <<"count", t, s[t]>>
           /\ \A v \in Exported : \E j \in 1..(i - 1) : e[j] = <<"view", v>>
<1>1. ASSUME NEW i \in 1..Len(d) PROVE Told(i)
  <2>1. e[i] = d[i] /\ \A j \in 1..(i - 1) : e[j] = d[j] OBVIOUS
  <2>2. /\ d[i][1] = "count" => d[i][3] = s[d[i][2]]
        /\ d[i][1] = "view" => d[i][2] \in Exported
        /\ d[i][1] = "complete" =>
             /\ \A t \in Tables : \E j \in 1..(i - 1) : d[j] = <<"count", t, s[t]>>
             /\ \A v \in Exported : \E j \in 1..(i - 1) : d[j] = <<"view", v>>
    BY DEF Tells
  <2> QED BY <2>1, <2>2
<1>2. Told(Len(d) + 1)
  <2>1. (Len(d) + 1) - 1 = Len(d) OBVIOUS
  <2> QED BY <2>1 DEF CountsIn, ViewsIn
<1>3. \A i \in 1..Len(e) : i \in 1..Len(d) \/ i = Len(d) + 1 OBVIOUS
<1>4. \A i \in 1..Len(e) : Told(i) BY <1>1, <1>2, <1>3
<1> QED BY <1>4 DEF Tells

LEMMA CutTold ==
  ASSUME destination \in Seq(Items), Truncate, NEW s, Tells(destination, s, Exported)
  PROVE  Tells(destination', s, Exported)
<1> DEFINE d == destination
           e == destination'
<1>1. \A i \in 1..Len(e) :
        /\ i \in 1..Len(d)
        /\ e[i] = d[i] \/ (i = Len(e) /\ e[i][1] \in {"rows", "malformed"})
  BY Cut
<1>2. e \in Seq(Items) /\ Len(e) \in Nat
  <2>1. e \in Seq(Items) BY Cut
  <2> QED BY <2>1
<1> SUFFICES ASSUME NEW i \in 1..Len(e)
    PROVE /\ e[i][1] = "count" => e[i][3] = s[e[i][2]]
          /\ e[i][1] = "view" => e[i][2] \in Exported
          /\ e[i][1] = "complete" =>
               /\ \A t \in Tables : \E j \in 1..(i - 1) : e[j] = <<"count", t, s[t]>>
               /\ \A v \in Exported : \E j \in 1..(i - 1) : e[j] = <<"view", v>>
  BY DEF Tells
<1>3. /\ d[i][1] = "count" => d[i][3] = s[d[i][2]]
      /\ d[i][1] = "view" => d[i][2] \in Exported
      /\ d[i][1] = "complete" =>
           /\ \A t \in Tables : \E j \in 1..(i - 1) : d[j] = <<"count", t, s[t]>>
           /\ \A v \in Exported : \E j \in 1..(i - 1) : d[j] = <<"view", v>>
  BY <1>1 DEF Tells
<1>4. \A j \in 1..(i - 1) : j \in 1..Len(e) /\ j # Len(e) BY <1>2
<1>5. \A j \in 1..(i - 1) : e[j] = d[j] BY <1>1, <1>4
<1> HIDE DEF d, e
<1>6. e[i][1] \notin {"rows", "malformed"} => e[i] = d[i] BY <1>1
<1> QED BY <1>3, <1>5, <1>6

LEMMA ContentInit == Init => ContentInv
<1> SUFFICES ASSUME Init PROVE ContentInv OBVIOUS
<1>1. \A s : Tells(<<>>, s, Exported) BY DEF Tells
<1>2. Stream = <<>> BY DEF Init, Stream
<1> QED BY <1>1, <1>2 DEF Init, ContentInv


LEMMA ContentStep == TypeInv /\ ContentInv /\ [Next]_vars => ContentInv'
<1> SUFFICES ASSUME TypeInv, ContentInv, [Next]_vars PROVE ContentInv' OBVIOUS
<1>1. Stream \in Seq(Items) /\ Len(Stream) \in Nat BY StreamType
<1>2. dump # "inspect" => Exported' = Exported BY GivenKept DEF Exported, viewVars, pruning
<1>3. dump = "inspect" => Stream = <<>> /\ input = <<>> BY DEF TypeInv, FileTypes, ContentInv
<1>4. \A s, E : Tells(<<>>, s, E) BY DEF Tells
<1>5. ASSUME UNCHANGED <<Stream, input>>
      PROVE  /\ (\E s \in past : Tells(Stream, s, Exported))'
             /\ (\E s \in past : Tells(input, s, Exported))'
  BY <1>2, <1>3, <1>4, <1>5, GivenKept DEF ContentInv
<1>6. ASSUME UNCHANGED <<Stream, input, dump, table, count, unread, snapshot, todo>>
      PROVE  ContentInv'
  <2>1. CASE dump = "inspect" BY <1>3, <1>5, <1>6, <2>1 DEF ContentInv
  <2>2. CASE dump # "inspect" BY <1>2, <1>5, <1>6, <2>2 DEF ContentInv, CountsIn, ViewsIn
  <2> QED BY <2>1, <2>2
<1>7. ASSUME NEW x \in Items, Wrote(x), dump \in {"tables", "data", "views"},
             UNCHANGED <<input, snapshot>>,
             x[1] = "count" => x[3] = snapshot[x[2]],
             x[1] = "view" => x[2] \in Exported,
             x[1] = "complete" => dump = "views" /\ todo = {}
      PROVE  /\ Tells(Stream', snapshot, Exported)
             /\ Exported' = Exported
             /\ (\E s \in past : Tells(Stream, s, Exported))'
             /\ (\E s \in past : Tells(input, s, Exported))'
             /\ \A T : CountsIn(Stream, T, snapshot) => CountsIn(Stream', T, snapshot)
             /\ \A V : ViewsIn(Stream, V) => ViewsIn(Stream', V)
             /\ \E j \in 1..Len(Stream') : Stream'[j] = x
             /\ x[1] # "complete" => \A i \in 1..Len(Stream') : Stream'[i][1] # "complete"
  <2>1. /\ Stream' \in Seq(Items) /\ Len(Stream') = Len(Stream) + 1
        /\ \A i \in 1..Len(Stream) : Stream'[i] = Stream[i]
        /\ Stream'[Len(Stream) + 1] = x
    BY <1>7 DEF Wrote
  <2>2. Tells(Stream, snapshot, Exported) /\ snapshot \in past /\ Exported' = Exported
    BY <1>2, <1>7 DEF ContentInv, TypeInv, DumpTypes, Writing
  <2>3. x[1] = "complete" => CountsIn(Stream, Tables, snapshot) /\ ViewsIn(Stream, Exported)
    BY <1>7 DEF ContentInv, ViewsIn
  <2>4. Tells(Stream', snapshot, Exported)
    BY <1>1, <1>7, <2>1, <2>2, <2>3, OneMoreTold
  <2>5. (\E s \in past : Tells(Stream, s, Exported))'
    BY <2>2, <2>4, GivenKept
  <2>6. (\E s \in past : Tells(input, s, Exported))'
    BY <1>7, <2>2, GivenKept DEF ContentInv
  <2>7. \A j \in 1..Len(Stream) : j \in 1..Len(Stream') /\ Stream'[j] = Stream[j] BY <1>1, <2>1
  <2>8. \A T : CountsIn(Stream, T, snapshot) => CountsIn(Stream', T, snapshot)
    <3> SUFFICES ASSUME NEW T, CountsIn(Stream, T, snapshot), NEW t \in T
                 PROVE  \E j \in 1..Len(Stream') : Stream'[j] = <<"count", t, snapshot[t]>>
      BY DEF CountsIn
    <3>1. PICK j \in 1..Len(Stream) : Stream[j] = <<"count", t, snapshot[t]>> BY DEF CountsIn
    <3> QED BY <2>7, <3>1
  <2>9. \A V : ViewsIn(Stream, V) => ViewsIn(Stream', V)
    <3> SUFFICES ASSUME NEW V, ViewsIn(Stream, V), NEW v \in V
                 PROVE  \E j \in 1..Len(Stream') : Stream'[j] = <<"view", v>>
      BY DEF ViewsIn
    <3>1. PICK j \in 1..Len(Stream) : Stream[j] = <<"view", v>> BY DEF ViewsIn
    <3> QED BY <2>7, <3>1
  <2>10. Len(Stream) + 1 \in 1..Len(Stream') BY <1>1, <2>1
  <2>11. x[1] # "complete" => \A i \in 1..Len(Stream') : Stream'[i][1] # "complete"
    <3>1. \A i \in 1..Len(Stream') : i \in 1..Len(Stream) \/ i = Len(Stream) + 1 BY <1>1, <2>1
    <3>2. \A i \in 1..Len(Stream) : Stream[i][1] # "complete" BY <1>7 DEF ContentInv
    <3> QED BY <2>1, <3>1, <3>2
  <2> QED BY <2>1, <2>2, <2>4, <2>5, <2>6, <2>8, <2>9, <2>10, <2>11
<1>8. DumpStep \/ DumpFails \/ DumpCrash => UNCHANGED input BY DumpKeeps DEF reader
<1> USE DEF Goto
<1>9. CASE Inspect \/ Preflight \/ Begin
  <2>1. /\ UNCHANGED <<Stream, table>>
        /\ dump \in {"idle", "inspect", "begin"} /\ dump' \in {"inspect", "refused", "begin", "header"}
    BY <1>9 DEF Inspect, Preflight, Begin, Stream, files, reading, rows
  <2> QED BY <1>5, <1>8, <1>9, <2>1 DEF ContentInv, DumpStep
<1>10. CASE OrderViews
  <2>1. UNCHANGED <<Stream, input, dump, table, count, unread, snapshot, todo>>
    BY <1>10 DEF OrderViews, Stream, files, reading, rows, reader, dumper
  <2> QED BY <1>6, <2>1
<1>11. CASE WriteHeader
  <2>1. /\ Stream' = Header /\ Header \in Seq(Items) /\ Len(Header) = 3
        /\ Header[1][1] = "format" /\ Header[2][1] = "incomplete" /\ Header[3][1] = "set"
    BY <1>11, HeaderWritten DEF Header
  <2>2. \A i \in 1..Len(Header) : Header[i][1] \notin {"count", "view", "complete"} BY <2>1
  <2>3. \A s, E : Tells(Header, s, E) BY <2>2 DEF Tells
  <2>4. /\ dump = "header" /\ dump' = "tables" /\ UNCHANGED <<table, snapshot, input, past>>
    BY <1>11 DEF WriteHeader, reader, source, rows
  <2>5. (\E s \in past : Tells(input, s, Exported))' BY <1>2, <2>4 DEF ContentInv
  <2>6. (\E s \in past : Tells(Stream, s, Exported))' BY <2>1, <2>3, <2>4 DEF TypeInv, SourceTypes
  <2> QED BY <2>1, <2>2, <2>3, <2>4, <2>5, <2>6 DEF ContentInv
<1>12. ASSUME NEW t \in Tables, WriteTable(t) PROVE ContentInv'
  <2>1. /\ Wrote(<<"table", t>>) /\ <<"table", t>> \in Items
        /\ UNCHANGED <<input, snapshot, dump, table>> /\ dump = "tables"
    BY <1>12, ItemWritten, ItemsMade DEF WriteTable, reader, rows
  <2> DEFINE x == <<"table", t>>
  <2>2. x[1] = "table" OBVIOUS
  <2> HIDE DEF x
  <2>3. /\ Tells(Stream', snapshot, Exported) /\ Exported' = Exported
        /\ (\E s \in past : Tells(Stream, s, Exported))'
        /\ (\E s \in past : Tells(input, s, Exported))'
        /\ \A i \in 1..Len(Stream') : Stream'[i][1] # "complete"
    BY <1>7, <2>1, <2>2 DEF x
  <2> QED BY <2>1, <2>3 DEF ContentInv
<1>13. CASE TablesWritten
  <2>1. /\ UNCHANGED <<Stream, input, table, snapshot>> /\ todo' = Tables
        /\ dump = "tables" /\ dump' = "data"
    BY <1>13 DEF TablesWritten, Stream, files, reader, rows
  <2> QED BY <1>2, <1>5, <2>1 DEF ContentInv, CountsIn
<1>14. ASSUME NEW t \in Tables, ReadTable(t) PROVE ContentInv'
  <2>1. /\ UNCHANGED <<Stream, input, snapshot, dump>> /\ dump = "data" /\ table = Null
        /\ todo' = todo \ {t} /\ table' = t
    BY <1>14 DEF ReadTable, Stream, files, reader
  <2>2. count' = 0 /\ unread' = snapshot[t] /\ snapshot[t] \in Nat
    <3>1. snapshot \in Moments /\ count = 0
      BY <2>1 DEF TypeInv, DumpTypes, SourceTypes, Writing
    <3>2. snapshot # Null BY <3>1, NullAssumption
    <3>3. count' = count /\ unread' = snapshot[t] BY <1>14, <3>2 DEF ReadTable
    <3> QED BY <3>1, <3>3 DEF Moments
  <2>3. (Tables \ todo') \ {t} \subseteq (Tables \ todo) \ {table}
    BY <2>1, NullAssumption
  <2>4. CountsIn(Stream, (Tables \ todo') \ {t}, snapshot)
    BY <2>1, <2>3 DEF ContentInv, CountsIn
  <2>5. count' + unread' = snapshot[t] BY <2>2
  <2> QED BY <1>2, <1>5, <2>1, <2>4, <2>5 DEF ContentInv
<1>15. CASE ReadRow
  <2>1. /\ UNCHANGED <<input, snapshot, dump, table, todo>> /\ dump = "data"
        /\ count' + unread' = count + unread
    BY <1>15 DEF ReadRow, reader, TypeInv, DumpTypes
  <2>2. CASE UNCHANGED files
    BY <1>2, <1>5, <2>1, <2>2 DEF ContentInv, CountsIn, Stream, files
  <2>3. CASE Wrote(<<"rows", table, batch>>)
    <3> DEFINE x == <<"rows", table, batch>>
    <3>1. Wrote(x) /\ x \in Items /\ x[1] = "rows" BY <2>3 DEF Wrote
    <3> HIDE DEF x
    <3>2. /\ Tells(Stream', snapshot, Exported) /\ Exported' = Exported
          /\ (\E s \in past : Tells(Stream, s, Exported))'
          /\ (\E s \in past : Tells(input, s, Exported))'
          /\ \A i \in 1..Len(Stream') : Stream'[i][1] # "complete"
          /\ CountsIn(Stream', (Tables \ todo) \ {table}, snapshot)
      BY <1>7, <2>1, <3>1 DEF ContentInv
    <3> QED BY <2>1, <3>2 DEF ContentInv
  <2> QED BY <1>15, <2>2, <2>3, ItemWritten
<1>16. CASE FlushBatch
  <2> DEFINE x == <<"rows", table, batch>>
  <2>1. /\ Wrote(x) /\ x \in Items /\ x[1] = "rows"
        /\ UNCHANGED <<input, snapshot, dump, table, count, unread, todo>> /\ dump = "data"
    BY <1>16, ItemWritten DEF FlushBatch, reader, Wrote
  <2> HIDE DEF x
  <2>2. /\ Tells(Stream', snapshot, Exported) /\ Exported' = Exported
        /\ (\E s \in past : Tells(Stream, s, Exported))'
        /\ (\E s \in past : Tells(input, s, Exported))'
        /\ \A i \in 1..Len(Stream') : Stream'[i][1] # "complete"
        /\ CountsIn(Stream', (Tables \ todo) \ {table}, snapshot)
    BY <1>7, <2>1 DEF ContentInv
  <2> QED BY <2>1, <2>2 DEF ContentInv
<1>17. CASE WriteCount
  <2> DEFINE x == <<"count", table, count>>
  <2>1. /\ Wrote(x) /\ x \in Items /\ unread = 0
        /\ UNCHANGED <<input, snapshot, dump, todo>> /\ dump = "data" /\ table # Null /\ table' = Null
    BY <1>17, ItemWritten DEF WriteCount, reader, Wrote
  <2>2. x[1] = "count" /\ x[2] = table /\ x[3] = snapshot[table] /\ x = <<"count", table, snapshot[table]>>
    <3>1. count = snapshot[table] BY <2>1 DEF ContentInv, TypeInv, DumpTypes
    <3> QED BY <3>1
  <2> HIDE DEF x
  <2>3. /\ Tells(Stream', snapshot, Exported) /\ Exported' = Exported
        /\ (\E s \in past : Tells(Stream, s, Exported))'
        /\ (\E s \in past : Tells(input, s, Exported))'
        /\ \A i \in 1..Len(Stream') : Stream'[i][1] # "complete"
        /\ CountsIn(Stream', (Tables \ todo) \ {table}, snapshot)
        /\ \E j \in 1..Len(Stream') : Stream'[j] = x
    BY <1>7, <2>1, <2>2 DEF ContentInv
  <2>4. CountsIn(Stream', (Tables \ todo) \ {Null}, snapshot) BY <2>2, <2>3 DEF CountsIn
  <2> QED BY <2>1, <2>3, <2>4 DEF ContentInv
<1>18. CASE DataWritten
  <2>1. /\ UNCHANGED <<Stream, input, snapshot, table>> /\ dump = "data" /\ table = Null
        /\ todo = {} /\ todo' = Exported /\ dump' = "views"
    BY <1>18 DEF DataWritten, Stream, files, reader, rows, Exported
  <2>2. (Tables \ todo) \ {table} = Tables BY <2>1, NullAssumption
  <2> QED BY <1>2, <1>5, <2>1, <2>2 DEF ContentInv, CountsIn, ViewsIn
<1>19. ASSUME NEW v \in Views, WriteView(v) PROVE ContentInv'
  <2> DEFINE x == <<"view", v>>
  <2>1. /\ Wrote(x) /\ x \in Items /\ x[1] = "view" /\ x[2] = v
        /\ UNCHANGED <<input, snapshot, dump, table>> /\ dump = "views"
        /\ v \in todo /\ todo' = todo \ {v}
    BY <1>19, ItemWritten, ItemsMade DEF WriteView, reader, rows
  <2>2. v \in Exported BY <2>1 DEF ContentInv
  <2> HIDE DEF x
  <2>3. /\ Tells(Stream', snapshot, Exported) /\ Exported' = Exported
        /\ (\E s \in past : Tells(Stream, s, Exported))'
        /\ (\E s \in past : Tells(input, s, Exported))'
        /\ \A i \in 1..Len(Stream') : Stream'[i][1] # "complete"
        /\ CountsIn(Stream', Tables, snapshot) /\ ViewsIn(Stream', Exported \ todo)
        /\ \E j \in 1..Len(Stream') : Stream'[j] = x
    BY <1>7, <2>1, <2>2 DEF ContentInv
  <2>4. ViewsIn(Stream', Exported \ todo') BY <2>1, <2>3 DEF ViewsIn, x
  <2> QED BY <2>1, <2>3, <2>4 DEF ContentInv
<1>20. CASE WriteFooter
  <2> DEFINE x == <<"complete">>
  <2>1. /\ Wrote(x) /\ x \in Items /\ x[1] = "complete"
        /\ UNCHANGED <<input, snapshot, table>> /\ dump = "views" /\ todo = {} /\ dump' = "close"
    BY <1>20, ItemWritten, ItemsMade DEF WriteFooter, reader, reading, rows
  <2> HIDE DEF x
  <2>3. /\ Tells(Stream', snapshot, Exported) /\ Exported' = Exported
        /\ (\E s \in past : Tells(Stream, s, Exported))'
        /\ (\E s \in past : Tells(input, s, Exported))'
    BY <1>7, <2>1
  <2> QED BY <2>1, <2>3 DEF ContentInv
<1>21. CASE Publish
  <2>1. /\ UNCHANGED <<input, table, toFile>> /\ dump = "close" /\ dump' = "rollback"
        /\ IF toFile THEN destination' = temporary ELSE UNCHANGED files
    BY <1>21 DEF Publish, chosen, reader, reading, rows
  <2>2. UNCHANGED Stream
    <3>1. toFile <=> destination = Absent BY <2>1 DEF TypeInv, FileTypes
    <3>2. temporary # Absent BY AbsentIsNone DEF TypeInv, FileTypes
    <3> QED BY <2>1, <3>1, <3>2 DEF Stream, files
  <2> QED BY <1>5, <2>1, <2>2 DEF ContentInv
<1>22. CASE Rollback
  <2>1. UNCHANGED <<Stream, input, table>> /\ dump = "rollback" /\ dump' = "done"
    BY <1>22 DEF Rollback, Stream, files, reader, rows
  <2> QED BY <1>5, <2>1 DEF ContentInv
<1>23. CASE DumpFails
  <2>1. Stream' \in {<<>>, Stream} /\ dump' = "failed" BY <1>23 DEF DumpFails, Stream
  <2>2. (\E s \in past : Tells(Stream, s, Exported))'
    <3>1. CASE Stream' = <<>> BY <1>4, <3>1, GivenKept DEF ContentInv
    <3>2. CASE Stream' = Stream BY <1>5, <1>8, <1>23, <3>2
    <3> QED BY <2>1, <3>1, <3>2
  <2>3. (\E s \in past : Tells(input, s, Exported))'
    BY <1>2, <1>3, <1>4, <1>8, <1>23, GivenKept DEF ContentInv
  <2> QED BY <2>1, <2>2, <2>3 DEF ContentInv
<1>24. CASE DumpCrash
  <2>1. dump' = "crashed" BY <1>24 DEF DumpCrash
  <2>2. CASE UNCHANGED files BY <1>5, <1>8, <1>24, <2>1, <2>2 DEF ContentInv, Stream, files
  <2>3. ASSUME NEW x \in Items, Wrote(x), x[1] \in {"rows", "malformed"},
               dump \in {"header", "tables", "data", "views"}
        PROVE  ContentInv'
    <3>1. PICK s \in past : Tells(Stream, s, Exported) BY DEF ContentInv
    <3>2. /\ Stream' \in Seq(Items) /\ Len(Stream') = Len(Stream) + 1
          /\ \A i \in 1..Len(Stream) : Stream'[i] = Stream[i]
          /\ Stream'[Len(Stream) + 1] = x
      BY <2>3 DEF Wrote
    <3>3. Tells(Stream', s, Exported) BY <1>1, <2>3, <3>1, <3>2, OneMoreTold
    <3>4. (\E z \in past : Tells(Stream, z, Exported))' BY <1>2, <2>3, <3>1, <3>3, GivenKept
    <3>5. (\E z \in past : Tells(input, z, Exported))'
      BY <1>2, <1>8, <1>24, <2>3, GivenKept DEF ContentInv
    <3> QED BY <2>1, <3>4, <3>5 DEF ContentInv
  <2> QED BY <1>24, <2>2, <2>3, ItemWritten
<1>25. CASE (RestoreStep \/ RestoreFails \/ Meddle \/ Write) /\ UNCHANGED input
  <2>1. UNCHANGED dumper BY <1>25, RestoreKeeps, WriteKeeps
  <2> QED BY <1>6, <1>25, <2>1 DEF dumper, Stream, files, reading, rows
<1>26. CASE Write \/ (RestoreStep /\ ~Open) \/ RestoreFails \/ Meddle
  <2>1. UNCHANGED input
    BY <1>26 DEF RestoreStep, ReadPrefix, InspectTarget, Apply, Finish, CountTable, EndCount, RestoreFails,
       Meddle, Write, reader
  <2> QED BY <1>25, <1>26, <2>1
<1>27. CASE Open
  <2>1. /\ UNCHANGED <<viewVars, dumper, source>>
        /\ input' = IF toFile /\ destination # Absent THEN destination ELSE <<>>
    BY <1>27 DEF Open
  <2>2. UNCHANGED <<Stream, dump, table, count, unread, snapshot, todo, past>>
    BY <2>1 DEF dumper, Stream, files, reading, rows, source
  <2>3. input' = <<>> \/ (input' = Stream /\ dump \in {"rollback", "done", "failed", "crashed"})
    BY <2>1 DEF Stream, TypeInv, FileTypes
  <2>4. Exported' = Exported BY <2>1 DEF viewVars, pruning, Exported
  <2>5. \E s \in past : Tells(input', s, Exported) BY <1>4, <2>3 DEF ContentInv
  <2> QED BY <2>1, <2>2, <2>3, <2>4, <2>5 DEF ContentInv
<1>28. CASE Truncate
  <2>1. /\ UNCHANGED <<dump, input, table>> /\ destination # Absent
        /\ dump \in {"done", "failed", "refused", "crashed"}
    BY <1>28, TruncateKeeps DEF Ended, reader, reading, rows
  <2>2. destination \in Seq(Items) /\ Stream = destination BY <2>1 DEF TypeInv, FileTypes, Stream
  <2>3. PICK s \in past : Tells(destination, s, Exported) BY <2>2 DEF ContentInv
  <2>4. Tells(destination', s, Exported) BY <1>28, <2>2, <2>3, CutTold
  <2>5. Stream' = destination' BY <1>28, <2>2, Cut, AbsentIsNone DEF Stream
  <2>6. (\E z \in past : Tells(input, z, Exported))'
    BY <1>2, <2>1, GivenKept DEF ContentInv
  <2>7. (\E z \in past : Tells(Stream, z, Exported))'
    BY <1>2, <2>1, <2>3, <2>4, <2>5, GivenKept
  <2> QED BY <2>1, <2>6, <2>7 DEF ContentInv
<1>29. CASE UNCHANGED vars
  <2>1. UNCHANGED <<dumper, input>> BY <1>29 DEF vars, reader
  <2> QED BY <1>6, <2>1 DEF dumper, Stream, files, reading, rows
<1> QED BY <1>9, <1>10, <1>11, <1>12, <1>13, <1>14, <1>15, <1>16, <1>17, <1>18, <1>19, <1>20, <1>21,
  <1>22, <1>23, <1>24, <1>26, <1>27, <1>28, <1>29 DEF Next, DumpStep, RestoreStep

-----------------------------------------------------------------------------
\* The metadata m are those of the first n items of d, and w the views they create.
Consumed(d, n, m) ==
  /\ \A i \in 1..n : d[i][1] = "count" => m.expected[d[i][2]] = d[i][3]
  /\ \A t \in Tables : m.expected[t] # -1 =>
       \E i \in 1..n : d[i] = <<"count", t, m.expected[t]>>
  /\ m.complete <=> \E i \in 1..n : d[i] = <<"complete">>

Shown(d, n, w) == \A v \in Views : v \in w <=> \E i \in 1..n : d[i] = <<"view", v>>

\* Until another client changes the target, its views are those of the items consumed and
\* its tables what SELECT COUNT(*) has answered.
Undisturbed ==
  ~meddled => Shown(Input, pos, views) /\ \A t \in Tables : counted[t] \in {-1, tables[t]}

ReaderInv == Consumed(Input, pos, metadata) /\ Undisturbed

LEMMA NothingConsumed ==
  ASSUME NEW d, NEW m, m.expected = NoCount, ~m.complete
  PROVE  Consumed(d, 0, m) /\ Shown(d, 0, {})
BY DEF Consumed, Shown, NoCount

LEMMA GrownConsumed ==
  ASSUME NEW d, NEW e, NEW n \in 0..Len(d), Len(d) \in Nat, Grown(d, e), NEW m, NEW w
  PROVE  /\ Consumed(d, n, m) => Consumed(e, n, m)
         /\ Shown(d, n, w) => Shown(e, n, w)
<1>1. \A i \in 1..n : e[i] = d[i] BY DEF Grown
<1> QED BY <1>1 DEF Consumed, Shown

LEMMA MoreConsumed ==
  ASSUME metadata \in Metadata, pos \in Nat,
         NEW d \in Seq(Items), pos + 1 \in 1..Len(d), NEW s,
         Tells(d, s, Exported), Consumed(d, pos, metadata)
  PROVE  Consumed(d, pos + 1, Noted(d[pos + 1]))
<1> DEFINE x == d[pos + 1]
           n == Noted(x)
<1>1. x \in Items OBVIOUS
<1>2. \A i \in 1..(pos + 1) : i \in 1..pos \/ i = pos + 1 OBVIOUS
<1>3. \A i \in 1..pos : i \in 1..(pos + 1) /\ i \in 1..Len(d) /\ d[i] \in Items OBVIOUS
<1>4. pos + 1 \in 1..(pos + 1) OBVIOUS
<1>5. \A i \in 1..pos : d[i][1] = "count" => d[i][2] \in Tables /\ d[i][3] = s[d[i][2]]
  BY <1>3, Kinds DEF Tells
<1>6. x[1] = "count" => x[2] \in Tables /\ x[3] = s[x[2]] /\ x = <<"count", x[2], x[3]>>
  BY <1>1, Kinds DEF Tells
<1>7. n.expected = (IF x[1] = "count" THEN [metadata.expected EXCEPT ![x[2]] = x[3]]
               ELSE metadata.expected)
      /\ n.complete = (x[1] = "complete" \/ metadata.complete)
  BY <1>1, NotedFields
<1>8. metadata.expected \in [Tables -> -1..MaxRows] BY DEF Metadata
<1> HIDE DEF n
<1>9. ASSUME NEW i \in 1..(pos + 1), d[i][1] = "count"
      PROVE  n.expected[d[i][2]] = d[i][3]
  <2>1. CASE i = pos + 1 BY <1>6, <1>7, <1>8, <1>9, <2>1
  <2>2. CASE i \in 1..pos
    <3>1. metadata.expected[d[i][2]] = d[i][3] BY <1>9, <2>2 DEF Consumed
    <3>2. d[i][2] \in Tables /\ d[i][3] = s[d[i][2]] BY <1>5, <1>9, <2>2
    <3> HIDE DEF x
    <3>3. CASE x[1] = "count" /\ x[2] = d[i][2] BY <1>6, <1>7, <1>8, <3>2, <3>3
    <3>4. CASE ~(x[1] = "count" /\ x[2] = d[i][2]) BY <1>6, <1>7, <1>8, <3>1, <3>2, <3>4
    <3> QED BY <3>3, <3>4
  <2> QED BY <1>2, <2>1, <2>2
<1>10. ASSUME NEW t \in Tables, n.expected[t] # -1
       PROVE  \E i \in 1..(pos + 1) : d[i] = <<"count", t, n.expected[t]>>
  <2>1. CASE x[1] = "count" /\ x[2] = t
    <3>1. n.expected[t] = x[3] BY <1>6, <1>7, <1>8, <2>1
    <3>2. x = <<"count", t, n.expected[t]>> BY <1>6, <2>1, <3>1
    <3> QED BY <1>4, <3>2
  <2>2. CASE ~(x[1] = "count" /\ x[2] = t)
    <3>1. n.expected[t] = metadata.expected[t] BY <1>6, <1>7, <1>8, <2>2
    <3>2. \E i \in 1..pos : d[i] = <<"count", t, metadata.expected[t]>>
      BY <1>10, <3>1 DEF Consumed
    <3> QED BY <1>3, <3>1, <3>2
  <2> QED BY <2>1, <2>2
<1>11. n.complete <=> \E i \in 1..(pos + 1) : d[i] = <<"complete">>
  <2>1. metadata.complete <=> \E i \in 1..pos : d[i] = <<"complete">> BY DEF Consumed
  <2>2. x[1] = "complete" <=> x = <<"complete">> BY <1>1, Kinds
  <2>3. (\E i \in 1..(pos + 1) : d[i] = <<"complete">>)
        <=> x = <<"complete">> \/ \E i \in 1..pos : d[i] = <<"complete">>
    BY <1>2, <1>3, <1>4
  <2> HIDE DEF x
  <2>4. metadata.complete \in BOOLEAN BY DEF Metadata
  <2> QED BY <1>7, <2>1, <2>2, <2>3, <2>4
<1>12. Consumed(d, pos + 1, n) BY <1>9, <1>10, <1>11 DEF Consumed
<1> QED BY <1>12 DEF n

LEMMA MoreShown ==
  ASSUME pos \in Nat, NEW d \in Seq(Items), pos + 1 \in 1..Len(d), Shown(d, pos, views)
  PROVE  Shown(d, pos + 1, IF d[pos + 1][1] = "view" THEN views \cup {d[pos + 1][2]} ELSE views)
<1> DEFINE x == d[pos + 1]
           w == IF x[1] = "view" THEN views \cup {x[2]} ELSE views
<1>1. x \in Items OBVIOUS
<1>2. \A i \in 1..(pos + 1) : i \in 1..pos \/ i = pos + 1 OBVIOUS
<1>3. \A i \in 1..pos : i \in 1..(pos + 1) OBVIOUS
<1>4. pos + 1 \in 1..(pos + 1) OBVIOUS
<1>5. ASSUME NEW v \in Views
      PROVE  v \in w <=> \E i \in 1..(pos + 1) : d[i] = <<"view", v>>
  <2>1. v \in views <=> \E i \in 1..pos : d[i] = <<"view", v>> BY DEF Shown
  <2>2. (x[1] = "view" /\ x[2] = v) <=> x = <<"view", v>> BY <1>1, Kinds
  <2>3. (\E i \in 1..(pos + 1) : d[i] = <<"view", v>>)
        <=> x = <<"view", v>> \/ \E i \in 1..pos : d[i] = <<"view", v>>
    BY <1>2, <1>3, <1>4
  <2>4. v \in w <=> v \in views \/ (x[1] = "view" /\ x[2] = v) OBVIOUS
  <2> HIDE DEF x, w
  <2> QED BY <2>1, <2>2, <2>3, <2>4
<1> QED BY <1>5 DEF Shown

LEMMA InputTold == TypeInv /\ ContentInv => \E s \in past : Tells(Input, s, Exported)
<1> SUFFICES ASSUME TypeInv, ContentInv PROVE \E s \in past : Tells(Input, s, Exported) OBVIOUS
<1>1. CASE toFile BY <1>1 DEF ContentInv, Input
<1>2. CASE ~toFile
  <2>1. destination # Absent BY <1>2 DEF TypeInv, FileTypes
  <2> QED BY <1>2, <2>1 DEF ContentInv, Input, Stream
<1> QED BY <1>1, <1>2

LEMMA ReaderInit == Init => ReaderInv
<1> SUFFICES ASSUME Init PROVE ReaderInv OBVIOUS
<1>1. metadata.expected = NoCount /\ ~metadata.complete BY DEF Init, NoMetadata
<1>2. \A t \in Tables : counted[t] = -1 BY DEF Init, NoCount
<1> QED BY <1>1, <1>2, NothingConsumed DEF Init, ReaderInv, Undisturbed

LEMMA ReaderStep == TypeInv /\ ContentInv /\ ReaderInv /\ [Next]_vars => ReaderInv'
<1> SUFFICES ASSUME TypeInv, ContentInv, ReaderInv, [Next]_vars PROVE ReaderInv' OBVIOUS
<1>1. Input \in Seq(Items) /\ Len(Input) \in Nat /\ pos \in 0..Len(Input) /\ metadata \in Metadata
  BY InputType DEF TypeInv, TargetTypes, RestoreTypes
<1>2. \A t \in Tables : NoCount[t] = -1 BY DEF NoCount
<1>3. ASSUME UNCHANGED <<pos, metadata>>
      PROVE  /\ Consumed(Input, pos, metadata)'
             /\ Shown(Input, pos, views) => Shown(Input', pos', views)
  <2>1. CASE restore = "idle"
    BY <1>3, <2>1, NothingConsumed DEF TypeInv, TargetTypes, ReaderInv
  <2>2. CASE restore # "idle"
    BY <1>1, <1>3, <2>2, InputGrows, GrownConsumed DEF ReaderInv
  <2> QED BY <2>1, <2>2
<1>4. ASSUME UNCHANGED <<pos, metadata, counted, tables, views, meddled>> PROVE ReaderInv'
  BY <1>3, <1>4 DEF ReaderInv, Undisturbed
<1>5. ASSUME UNCHANGED <<pos, metadata>>, meddled' = TRUE PROVE ReaderInv'
  BY <1>3, <1>5 DEF ReaderInv, Undisturbed
<1> USE DEF reader, target
<1>6. CASE DumpStep \/ DumpFails \/ DumpCrash \/ Write \/ Truncate
  BY <1>4, <1>6, DumpKeeps, WriteKeeps, TruncateKeeps
<1>7. CASE Open \/ InspectTarget \/ Finish \/ EndCount \/ RestoreFails
  <2>1. UNCHANGED <<pos, metadata, counted, tables, views, meddled>>
    BY <1>7 DEF Open, InspectTarget, Finish, EndCount, RestoreFails
  <2> QED BY <1>4, <2>1
<1>8. CASE ReadPrefix
  <2>1. pos' = 0 /\ views' = {} /\ counted' = NoCount
    BY <1>8 DEF ReadPrefix, TypeInv, TargetTypes
  <2>2. metadata'.expected = NoCount /\ ~metadata'.complete
    BY <1>8, MetadataRead DEF ReadPrefix, TypeInv, TargetTypes, RestoreTypes
  <2> QED BY <1>2, <2>1, <2>2, NothingConsumed DEF ReaderInv, Undisturbed
<1>9. CASE Apply
  <2> DEFINE item == Input[pos + 1]
  <2>1. pos + 1 \in 1..Len(Input) /\ UNCHANGED <<Input, counted, meddled>> /\ counted = NoCount
    BY <1>1, <1>9 DEF Apply, Input, dumper, chosen, files, TypeInv, TargetTypes
  <2>2. CASE Accepted(item)
    <3>1. /\ pos' = pos + 1 /\ metadata' = Noted(item)
          /\ views' = IF item[1] = "view" THEN views \cup {item[2]} ELSE views
      BY <1>9, <2>2 DEF Apply, Execute
    <3>2. PICK s \in past : Tells(Input, s, Exported) BY InputTold
    <3>3. pos \in Nat BY <1>1
    <3>4. Consumed(Input, pos + 1, Noted(item))
      BY <1>1, <2>1, <3>2, <3>3, MoreConsumed DEF ReaderInv
    <3>5. ~meddled => Shown(Input, pos + 1, views')
      BY <1>1, <2>1, <3>1, <3>3, MoreShown DEF ReaderInv, Undisturbed
    <3> QED BY <1>2, <2>1, <3>1, <3>4, <3>5 DEF ReaderInv, Undisturbed
  <2>3. CASE ~Accepted(item)
    BY <1>4, <1>9, <2>3 DEF Apply
  <2> QED BY <2>2, <2>3
<1>10. ASSUME NEW t \in Tables, CountTable(t) PROVE ReaderInv'
  <2>1. UNCHANGED <<pos, metadata, tables, views, meddled>> BY <1>10 DEF CountTable
  <2>2. counted' = counted \/ counted' = [counted EXCEPT ![t] = tables[t]]
    BY <1>10 DEF CountTable
  <2>3. counted \in [Tables -> Nat \cup {-1}] BY DEF TypeInv, TargetTypes
  <2>4. \A u \in Tables : counted'[u] \in {counted[u], tables[u]} BY <2>2, <2>3
  <2> QED BY <1>3, <2>1, <2>4 DEF ReaderInv, Undisturbed
<1>11. CASE Meddle
  <2>1. UNCHANGED <<pos, metadata>> /\ meddled' = TRUE BY <1>11 DEF Meddle
  <2> QED BY <1>5, <2>1
<1>12. CASE UNCHANGED vars BY <1>4, <1>12 DEF vars
<1> QED BY <1>6, <1>7, <1>8, <1>9, <1>10, <1>11, <1>12 DEF Next, RestoreStep

LEMMA FinishWhole ==
  ASSUME TypeInv, ContentInv, ReaderInv, metadata.complete,
         \A t \in Expected : counted[t] = metadata.expected[t]
  PROVE  counted \in past /\ (~meddled => tables = counted /\ views = Exported)
<1>1. PICK s \in past : Tells(Input, s, Exported) BY InputTold
<1>2. Input \in Seq(Items) /\ pos \in 0..Len(Input) BY InputType DEF TypeInv, TargetTypes
<1>3. PICK i \in 1..pos : Input[i] = <<"complete">> BY DEF ReaderInv, Consumed
<1>4. i \in 1..Len(Input) /\ Input[i][1] = "complete" BY <1>2, <1>3
<1>5. /\ \A t \in Tables : \E j \in 1..(i - 1) : Input[j] = <<"count", t, s[t]>>
      /\ \A v \in Exported : \E j \in 1..(i - 1) : Input[j] = <<"view", v>>
  BY <1>1, <1>4 DEF Tells
<1>6. \A j \in 1..(i - 1) : j \in 1..pos BY <1>2
<1>7. /\ s \in [Tables -> Nat] /\ tables \in [Tables -> Nat \cup {-1}]
      /\ counted \in [Tables -> Nat \cup {-1}]
  BY <1>1, RowsAssumption DEF TypeInv, SourceTypes, TargetTypes, Moments
<1>8. ASSUME NEW t \in Tables PROVE counted[t] = s[t]
  <2>1. PICK j \in 1..pos : Input[j] = <<"count", t, s[t]>> BY <1>5, <1>6
  <2>2. metadata.expected[t] = s[t] BY <2>1 DEF ReaderInv, Consumed
  <2>3. s[t] # -1 BY <1>7
  <2> QED BY <2>2, <2>3 DEF Expected
<1>9. counted = s BY <1>7, <1>8
<1>10. ASSUME ~meddled PROVE tables = counted
  <2>1. \A t \in Tables : counted[t] \in {-1, tables[t]} BY <1>10 DEF ReaderInv, Undisturbed
  <2>2. \A t \in Tables : s[t] # -1 BY <1>7
  <2>3. \A t \in Tables : tables[t] = counted[t] BY <1>8, <2>1, <2>2
  <2> QED BY <1>7, <2>3
<1>11. ASSUME ~meddled PROVE views = Exported
  <2>1. Shown(Input, pos, views) BY <1>11 DEF ReaderInv, Undisturbed
  <2>2. Exported \subseteq views BY <1>5, <1>6, <2>1 DEF Shown, Exported
  <2>3. ASSUME NEW v \in views PROVE v \in Exported
    <3>1. v \in Views BY DEF TypeInv, TargetTypes
    <3>2. PICK j \in 1..pos : Input[j] = <<"view", v>> BY <2>1, <3>1 DEF Shown
    <3>3. j \in 1..Len(Input) /\ Input[j][1] = "view" /\ Input[j][2] = v BY <1>2, <3>2
    <3> QED BY <1>1, <3>3 DEF Tells
  <2> QED BY <2>2, <2>3
<1> QED BY <1>1, <1>9, <1>10, <1>11

LEMMA RestoredStep ==
  TypeInv /\ ContentInv /\ ReaderInv /\ RestoredWhole /\ [Next]_vars => RestoredWhole'
<1> SUFFICES ASSUME TypeInv, ContentInv, ReaderInv, RestoredWhole, [Next]_vars
        PROVE RestoredWhole' OBVIOUS
<1>1. ASSUME restore' = "ok" => restore = "ok" /\ UNCHANGED <<counted, target, metadata>>
      PROVE  RestoredWhole'
  <2>1. restore = "ok" => dump # "inspect"
    BY DEF TypeInv, TargetTypes, RestoreTypes, AtEnd, DumpEnded
  <2> QED BY <1>1, <2>1, GivenKept DEF RestoredWhole, viewVars, pruning, target
<1> USE DEF reader
<1>2. CASE DumpStep \/ DumpFails \/ DumpCrash \/ Write \/ Truncate
  BY <1>1, <1>2, DumpKeeps, WriteKeeps, TruncateKeeps
<1>3. CASE Open \/ ReadPrefix \/ InspectTarget \/ Apply \/ Finish \/ RestoreFails \/ Meddle
  <2>1. restore' # "ok"
    BY <1>3 DEF Open, ReadPrefix, InspectTarget, Apply, Finish, RestoreFails, Meddle
  <2> QED BY <1>1, <2>1
<1>4. ASSUME NEW t \in Tables, CountTable(t) PROVE RestoredWhole'
  <2>1. restore' # "ok" BY <1>4 DEF CountTable
  <2> QED BY <1>1, <2>1
<1>5. CASE EndCount
  <2>1. /\ restore = "count"
        /\ restore' = "ok" => \A t \in Expected : counted[t] = metadata.expected[t]
        /\ UNCHANGED <<counted, tables, views, meddled, metadata, past, skipped>>
    BY <1>5 DEF EndCount, source, viewVars, pruning, target
  <2>2. metadata.format => metadata.complete BY <2>1 DEF TypeInv, TargetTypes
  <2> QED BY <2>1, <2>2, FinishWhole DEF RestoredWhole, Exported
<1>6. CASE UNCHANGED vars BY <1>1, <1>6 DEF vars
<1> QED BY <1>2, <1>3, <1>4, <1>5, <1>6 DEF Next, RestoreStep

\* A restore that reports success has counted, in every table, what one moment of the source
\* had, whatever was written there meanwhile and whatever happened to the file; its tables
\* and views are those unless another client of the target changed them.
THEOREM OneMoment == Spec => []RestoredWhole
<1>1. Init => RestoredWhole BY DEF Init, RestoredWhole
<1> QED BY <1>1, TypeInit, TypeStep, ContentInit, ContentStep, ReaderInit, ReaderStep, RestoredStep, PTL
    DEF Spec

-----------------------------------------------------------------------------
\* The views are ordered before anything is written, and a view is written once.
PlaceInv ==
  /\ dump = "begin" \/ Writing => stage = "ordered"
  /\ dump \in {"tables", "data"} => \A i \in 1..Len(Stream) : Stream[i][1] # "view"
  /\ dump = "views" => \A i \in 1..Len(Stream) : Stream[i][1] = "view" => Stream[i][2] \notin todo

LEMMA PlaceStep == TypeInv /\ PlaceInv /\ [Next]_vars => PlaceInv'
<1> SUFFICES ASSUME TypeInv, PlaceInv, [Next]_vars PROVE PlaceInv' OBVIOUS
<1>1. Stream \in Seq(Items) /\ Len(Stream) \in Nat BY StreamType
<1>2. dump # "inspect" => UNCHANGED stage BY GivenKept DEF viewVars
<1>3. ASSUME dump' = dump, dump # "inspect", UNCHANGED <<Stream, todo>> PROVE PlaceInv'
  BY <1>2, <1>3 DEF PlaceInv, Writing
<1>4. ASSUME dump' = dump, dump \notin {"tables", "data", "views"} PROVE PlaceInv'
  BY <1>2, <1>4 DEF PlaceInv, Writing
<1>5. ASSUME dump' \notin {"begin", "header", "tables", "data", "views", "close"} PROVE PlaceInv'
  BY <1>5 DEF PlaceInv, Writing
<1>6. ASSUME NEW x, Wrote(x), dump' = dump, dump \in {"tables", "data", "views"}, todo' \subseteq todo,
             x[1] = "view" => dump = "views" /\ x[2] \notin todo'
      PROVE  PlaceInv'
  <2>1. /\ \A i \in 1..Len(Stream) : Stream'[i] = Stream[i]
        /\ Stream'[Len(Stream) + 1] = x
        /\ \A i \in 1..Len(Stream') : i \in 1..Len(Stream) \/ i = Len(Stream) + 1
    BY <1>1, <1>6 DEF Wrote
  <2>2. stage' = "ordered" BY <1>2, <1>6 DEF PlaceInv, Writing
  <2> QED BY <1>6, <2>1, <2>2 DEF PlaceInv
<1> USE DEF Goto
<1>7. CASE Inspect BY <1>5, <1>7 DEF Inspect
<1>8. CASE OrderViews BY <1>5, <1>8 DEF OrderViews, dumper
<1>9. CASE Preflight
  <2>1. \/ dump' = "refused"
        \/ dump' = "begin" /\ stage' = "ordered"
    BY <1>9 DEF Preflight, viewVars
  <2> QED BY <2>1 DEF PlaceInv, Writing
<1>10. CASE Begin
  <2>1. dump = "begin" /\ dump' = "header" BY <1>10 DEF Begin
  <2> QED BY <1>2, <2>1 DEF PlaceInv, Writing
<1>11. CASE WriteHeader
  <2>1. /\ Stream' = Header /\ Len(Header) = 3
        /\ Header[1][1] = "format" /\ Header[2][1] = "incomplete" /\ Header[3][1] = "set"
    BY <1>11, HeaderWritten DEF Header
  <2>2. dump = "header" /\ dump' = "tables" BY <1>11 DEF WriteHeader
  <2>3. \A i \in 1..3 : Header[i][1] # "view" BY <2>1
  <2> QED BY <1>2, <2>1, <2>2, <2>3 DEF PlaceInv, Writing
<1>12. ASSUME NEW t \in Tables, WriteTable(t) PROVE PlaceInv'
  BY <1>6, <1>12, ItemWritten DEF WriteTable
<1>13. CASE TablesWritten
  <2>1. dump = "tables" /\ dump' = "data" /\ UNCHANGED Stream
    BY <1>13 DEF TablesWritten, Stream, files
  <2> QED BY <1>2, <2>1 DEF PlaceInv, Writing
<1>14. ASSUME NEW t \in Tables, ReadTable(t) PROVE PlaceInv'
  <2>1. dump = "data" /\ dump' = "data" /\ UNCHANGED Stream
    BY <1>14 DEF ReadTable, Stream, files
  <2> QED BY <1>2, <2>1 DEF PlaceInv, Writing
<1>15. CASE ReadRow
  <2>1. dump = "data" /\ UNCHANGED <<dump, todo>> BY <1>15 DEF ReadRow
  <2>2. CASE UNCHANGED files BY <1>3, <2>1, <2>2 DEF Stream, files
  <2>3. CASE Wrote(<<"rows", table, batch>>) BY <1>6, <2>1, <2>3
  <2> QED BY <1>15, <2>2, <2>3, ItemWritten
<1>16. CASE FlushBatch \/ WriteCount BY <1>6, <1>16, ItemWritten DEF FlushBatch, WriteCount
<1>17. CASE DataWritten
  <2>1. dump = "data" /\ dump' = "views" /\ UNCHANGED Stream
    BY <1>17 DEF DataWritten, Stream, files
  <2> QED BY <1>2, <2>1 DEF PlaceInv, Writing
<1>18. ASSUME NEW v \in Views, WriteView(v) PROVE PlaceInv'
  BY <1>6, <1>18, ItemWritten DEF WriteView
<1>19. CASE WriteFooter
  <2>1. dump = "views" /\ dump' = "close" BY <1>19 DEF WriteFooter
  <2> QED BY <1>2, <2>1 DEF PlaceInv, Writing
<1>20. CASE Publish \/ Rollback BY <1>5, <1>20 DEF Publish, Rollback
<1>21. CASE DumpFails \/ DumpCrash BY <1>5, <1>21 DEF DumpFails, DumpCrash
<1>22. CASE Write \/ RestoreStep \/ RestoreFails \/ Meddle
  <2>1. UNCHANGED dumper BY <1>22, RestoreKeeps, WriteKeeps
  <2>2. UNCHANGED <<dump, Stream, todo>> BY <2>1 DEF dumper, reading, files, Stream
  <2> QED BY <1>3, <1>5, <2>2
<1>23. CASE Truncate BY <1>5, <1>23, TruncateKeeps DEF Ended
<1>24. CASE UNCHANGED vars
  <2>1. UNCHANGED <<dump, Stream, todo>> BY <1>24 DEF vars, dumper, reading, files, Stream
  <2> QED BY <1>3, <1>5, <2>1
<1> QED BY <1>7, <1>8, <1>9, <1>10, <1>11, <1>12, <1>13, <1>14, <1>15, <1>16, <1>17, <1>18,
  <1>19, <1>20, <1>21, <1>22, <1>23, <1>24 DEF Next, DumpStep

-----------------------------------------------------------------------------
Targets == [Tables -> Nat \cup {-1}]

\* What a statement makes of the tables of the target.
Effect(m, x) ==
  CASE x[1] = "table" -> [m EXCEPT ![x[2]] = 0]
    [] x[1] = "rows"  -> [m EXCEPT ![x[2]] = @ + x[3]]
    [] OTHER          -> m

\* An empty target that replays d has the tables r[i] after i items, and accepts each;
\* at the end they are those of s.
Replays(d, s, r, dep) ==
  /\ r[0] = NoCount
  /\ \A i \in 1..Len(d) :
       /\ d[i] # Malformed
       /\ r[i] = Effect(r[i - 1], d[i])
       /\ d[i][1] = "table" => r[i - 1][d[i][2]] = -1
       /\ d[i][1] = "rows" => r[i - 1][d[i][2]] # -1
       /\ d[i][1] = "view" =>
            /\ \A j \in 1..(i - 1) : d[j] # <<"view", d[i][2]>>
            /\ \A w \in dep[d[i][2]] : \E j \in 1..(i - 1) : d[j] = <<"view", w>>
       /\ d[i][1] = "complete" => r[i] = s

\* The tables that what was written makes.
Made(m) ==
  /\ dump = "tables" => m = [t \in Tables |-> IF t \in todo THEN -1 ELSE 0]
  /\ dump = "data" =>
       /\ table \notin todo
       /\ m = [t \in Tables |-> IF t \in todo THEN 0
                               ELSE IF t = table THEN count - batch ELSE snapshot[t]]
  /\ dump \in {"views", "close"} => m = snapshot

Copied(s, r) ==
  /\ Replays(Stream, s, r, dependencies)
  /\ Tells(Stream, s, Exported)
  /\ Writing => s = snapshot /\ Made(r[Len(Stream)])
  /\ dump \in {"rollback", "done"} => Stream # <<>> /\ Stream[Len(Stream)] = <<"complete">>
  /\ restore # "idle" => Input = Stream
  /\ restore = "failed" => AtLackingView
  /\ tables = r[pos]

ReplayInv ==
  \/ fault \/ meddled
  \/ dump \in {"failed", "refused", "crashed"}
  \/ \E s \in Moments, r \in [Nat -> Targets] : Copied(s, r)

LEMMA EffectType ==
  ASSUME NEW m \in Targets, NEW x \in Items, x[1] = "rows" => m[x[2]] # -1
  PROVE  Effect(m, x) \in Targets
<1> USE DEF Targets
<1>1. CASE x[1] = "table" BY <1>1, Kinds DEF Effect
<1>2. CASE x[1] = "rows"
  <2>1. x[2] \in Tables /\ x[3] \in Nat BY <1>2, Kinds
  <2>2. m[x[2]] + x[3] \in Nat BY <1>2, <2>1
  <2>3. Effect(m, x) = [m EXCEPT ![x[2]] = @ + x[3]] BY <1>2 DEF Effect
  <2> QED BY <2>1, <2>2, <2>3
<1>3. CASE x[1] \notin {"table", "rows"} BY <1>3 DEF Effect
<1> QED BY <1>1, <1>2, <1>3

\* The target that has replayed d accepts x, and x is the end marker only of all of s.
Accepts(d, s, m, dep, x) ==
  /\ x # Malformed
  /\ x[1] = "table" => m[x[2]] = -1
  /\ x[1] = "rows" => m[x[2]] # -1
  /\ x[1] = "view" => /\ \A j \in 1..Len(d) : d[j] # <<"view", x[2]>>
                      /\ ViewsIn(d, dep[x[2]])
  /\ x[1] = "complete" => m = s

LEMMA OneMoreReplayed ==
  ASSUME NEW d \in Seq(Items), NEW e \in Seq(Items), NEW x \in Items, NEW s, NEW dep,
         NEW r \in [Nat -> Targets],
         Len(e) = Len(d) + 1, \A i \in 1..Len(d) : e[i] = d[i], e[Len(d) + 1] = x,
         Replays(d, s, r, dep), Accepts(d, s, r[Len(d)], dep, x)
  PROVE  \E q \in [Nat -> Targets] :
           /\ Replays(e, s, q, dep)
           /\ \A i \in 0..Len(d) : q[i] = r[i]
           /\ q[Len(e)] = Effect(r[Len(d)], x)
<1> DEFINE n == Len(d)
           q == [r EXCEPT ![n + 1] = Effect(r[n], x)]
<1>1. n \in Nat OBVIOUS
<1>2. Effect(r[n], x) \in Targets BY <1>1, EffectType DEF Accepts
<1>3. q \in [Nat -> Targets] /\ q[n + 1] = Effect(r[n], x) /\ \A i \in 0..n : q[i] = r[i]
  BY <1>1, <1>2
<1> HIDE DEF q
<1>4. q[0] = NoCount BY <1>1, <1>3 DEF Replays
<1> DEFINE Fits(i) ==
       /\ e[i] # Malformed
       /\ q[i] = Effect(q[i - 1], e[i])
       /\ e[i][1] = "table" => q[i - 1][e[i][2]] = -1
       /\ e[i][1] = "rows" => q[i - 1][e[i][2]] # -1
       /\ e[i][1] = "view" =>
            /\ \A j \in 1..(i - 1) : e[j] # <<"view", e[i][2]>>
            /\ \A w \in dep[e[i][2]] : \E j \in 1..(i - 1) : e[j] = <<"view", w>>
       /\ e[i][1] = "complete" => q[i] = s
<1>5. ASSUME NEW i \in 1..n PROVE Fits(i)
  <2>1. e[i] = d[i] /\ (\A j \in 1..(i - 1) : e[j] = d[j]) /\ q[i] = r[i] /\ q[i - 1] = r[i - 1]
    BY <1>1, <1>3
  <2>2. /\ d[i] # Malformed
        /\ r[i] = Effect(r[i - 1], d[i])
        /\ d[i][1] = "table" => r[i - 1][d[i][2]] = -1
        /\ d[i][1] = "rows" => r[i - 1][d[i][2]] # -1
        /\ d[i][1] = "view" =>
             /\ \A j \in 1..(i - 1) : d[j] # <<"view", d[i][2]>>
             /\ \A w \in dep[d[i][2]] : \E j \in 1..(i - 1) : d[j] = <<"view", w>>
        /\ d[i][1] = "complete" => r[i] = s
    BY DEF Replays
  <2> QED BY <2>1, <2>2
<1>6. Fits(n + 1)
  <2> DEFINE m == r[n]
  <2>1. (n + 1) - 1 = n /\ e[n + 1] = x /\ q[n] = m /\ q[n + 1] = Effect(m, x) BY <1>1, <1>3
  <2>2. x[1] = "complete" => Effect(m, x) = m BY DEF Effect
  <2>3. /\ x # Malformed
        /\ x[1] = "table" => m[x[2]] = -1
        /\ x[1] = "rows" => m[x[2]] # -1
        /\ x[1] = "complete" => m = s
    BY DEF Accepts
  <2>4. x[1] = "view" => /\ \A j \in 1..n : e[j] # <<"view", x[2]>>
                         /\ \A w \in dep[x[2]] : \E j \in 1..n : e[j] = <<"view", w>>
    BY DEF Accepts, ViewsIn
  <2> HIDE DEF m, n
  <2> QED BY <2>1, <2>2, <2>3, <2>4
<1>7. \A i \in 1..Len(e) : i \in 1..n \/ i = n + 1 BY <1>1
<1>8. \A i \in 1..Len(e) : Fits(i) BY <1>5, <1>6, <1>7
<1>9. Replays(e, s, q, dep) BY <1>4, <1>8 DEF Replays
<1> QED BY <1>3, <1>9

\* What is wanted of a failed restore, and what an undisturbed one reads.
LEMMA StaysLacking ==
  ASSUME TypeInv, [Next]_vars, UNCHANGED <<restore, pos>>, restore = "failed" => AtLackingView
  PROVE  restore' = "failed" => AtLackingView'
<1> SUFFICES ASSUME restore = "failed" PROVE AtLackingView' OBVIOUS
<1>1. UNCHANGED lacking BY GivenKept
<1>2. Grown(Input, Input') BY InputGrows
<1>3. Len(Input) \in Nat /\ pos \in 0..Len(Input) BY InputType DEF TypeInv, TargetTypes
<1>4. Len(Input') \in Nat BY TypeStep, InputType
<1>5. pos < Len(Input) BY DEF AtLackingView
<1>6. pos + 1 \in 1..Len(Input) BY <1>3, <1>5
<1>7. Input'[pos + 1] = Input[pos + 1] /\ pos < Len(Input') BY <1>2, <1>3, <1>4, <1>5, <1>6 DEF Grown
<1> QED BY <1>1, <1>7 DEF AtLackingView

LEMMA InputIsStream ==
  ASSUME TypeInv, ~fault, NEW s, NEW r, Copied(s, r)
  PROVE  /\ ~toFile => Input = Stream
         /\ toFile /\ dump \notin {"rollback", "done", "failed", "crashed"} => restore = "idle"
         /\ pos \in 0..Len(Stream) /\ Len(Stream) \in Nat /\ Stream \in Seq(Items)
         /\ restore = "idle" => pos = 0
<1>1. ~toFile => Input = Stream BY DEF Input, Stream, TypeInv, FileTypes
<1>2. toFile /\ dump \notin {"rollback", "done", "failed", "crashed"} => restore = "idle"
  BY DEF TypeInv, RestoreTypes
<1>3. restore = "idle" => pos = 0 BY DEF TypeInv, TargetTypes
<1>4. Stream \in Seq(Items) /\ Len(Stream) \in Nat BY StreamType
<1>5. pos \in 0..Len(Stream) BY <1>3, <1>4 DEF TypeInv, TargetTypes, Copied
<1> QED BY <1>1, <1>2, <1>3, <1>4, <1>5

LEMMA ReplayInit == Init => ReplayInv
<1> SUFFICES ASSUME Init PROVE ReplayInv OBVIOUS
<1> DEFINE r == [n \in Nat |-> NoCount]
<1>1. NoCount \in Targets BY DEF NoCount, Targets
<1>2. r \in [Nat -> Targets] /\ r[0] = NoCount BY <1>1
<1>3. Stream = <<>> /\ pos = 0 /\ tables = NoCount /\ dump = "idle" /\ restore = "idle"
  BY DEF Init, Stream
<1>4. Replays(Stream, InitialRows, r, dependencies) BY <1>2, <1>3 DEF Replays
<1>5. Tells(Stream, InitialRows, Exported) BY <1>3 DEF Tells
<1>6. Copied(InitialRows, r) BY <1>2, <1>3, <1>4, <1>5 DEF Copied, Writing
<1> QED BY <1>2, <1>6, RowsAssumption DEF ReplayInv

\* An item more: the dump goes on, and what it makes is what was asked for.
LEMMA WroteReplay ==
  ASSUME TypeInv, [Next]_vars, ~fault, ContentInv', NEW s \in Moments, NEW r \in [Nat -> Targets], Copied(s, r),
         NEW x \in Items, Wrote(x),
         dump \in {"tables", "data", "views"}, dump' \in {"tables", "data", "views", "close"},
         UNCHANGED <<reader, snapshot, dependencies>>,
         Accepts(Stream, s, r[Len(Stream)], dependencies, x),
         \A m : m = Effect(r[Len(Stream)], x) => Made(m)'
  PROVE  ReplayInv'
<1>1. /\ Stream \in Seq(Items) /\ Len(Stream) \in Nat /\ pos \in 0..Len(Stream)
      /\ Stream' \in Seq(Items) /\ Len(Stream') = Len(Stream) + 1
      /\ \A i \in 1..Len(Stream) : Stream'[i] = Stream[i]
      /\ Stream'[Len(Stream) + 1] = x
  BY InputIsStream DEF Wrote
<1>2. Replays(Stream, s, r, dependencies) /\ s = snapshot BY DEF Copied, Writing
<1>3. PICK q \in [Nat -> Targets] :
        /\ Replays(Stream', s, q, dependencies)
        /\ \A i \in 0..Len(Stream) : q[i] = r[i]
        /\ q[Len(Stream')] = Effect(r[Len(Stream)], x)
  BY <1>1, <1>2, OneMoreReplayed
<1>4. Tells(Stream', s, Exported') BY <1>2 DEF ContentInv
<1>5. Made(q[Len(Stream)])' BY <1>3
<1>6. UNCHANGED <<restore, pos, tables, input, toFile>> BY DEF reader, target, Wrote
<1>7. restore # "idle" => Input' = Stream'
  <2> SUFFICES ASSUME restore # "idle" PROVE Input' = Stream' OBVIOUS
  <2>1. ~toFile BY InputIsStream
  <2>2. destination' # Absent BY <1>1, <2>1, AbsentIsNone DEF Wrote
  <2> QED BY <1>6, <2>1, <2>2 DEF Input, Stream
<1>8. tables' = q[pos'] BY <1>1, <1>3, <1>6 DEF Copied
<1>9. restore' = "failed" => AtLackingView' BY <1>6, StaysLacking DEF Copied
<1>10. Copied(s, q)' BY <1>2, <1>3, <1>4, <1>5, <1>6, <1>7, <1>8, <1>9 DEF Copied, Writing
<1> QED BY <1>10 DEF ReplayInv

LEMMA ReplayStep ==
  /\ TypeInv /\ HeaderInv /\ ContentInv /\ ReaderInv /\ PlaceInv /\ ViewInv /\ ReplayInv
  /\ [Next]_vars
  => ReplayInv'
<1> SUFFICES ASSUME TypeInv, HeaderInv, ContentInv, ReaderInv, PlaceInv, ViewInv, ReplayInv, [Next]_vars,
                    ~fault', ~meddled', dump' \notin {"failed", "refused", "crashed"}
             PROVE  ReplayInv'
  BY DEF ReplayInv
<1>0. ~fault /\ ~meddled /\ dump \notin {"failed", "refused", "crashed"}
  <2>1. (fault => fault') /\ (meddled => meddled') /\ (Ended => UNCHANGED dump)
    BY GivenKept
  <2>2. ASSUME dump \in {"failed", "refused", "crashed"} PROVE FALSE BY <2>1, <2>2 DEF Ended
  <2> QED BY <2>1, <2>2
<1>1. PICK s \in Moments, r \in [Nat -> Targets] : Copied(s, r) BY <1>0 DEF ReplayInv
<1>2. /\ ~toFile => Input = Stream
      /\ toFile /\ dump \notin {"rollback", "done"} => restore = "idle"
      /\ pos \in 0..Len(Stream) /\ Len(Stream) \in Nat /\ Stream \in Seq(Items)
      /\ restore = "idle" => pos = 0
  BY <1>0, <1>1, InputIsStream
<1>3. UNCHANGED <<dependencies, toFile>> /\ (dump # "inspect" => UNCHANGED viewVars)
  BY GivenKept
<1>4. dump # "inspect" => UNCHANGED <<Exported, stage>> BY <1>3 DEF Exported, viewVars, pruning
<1>5. ~toFile => Input' = Stream'
  BY <1>3, TypeStep DEF Input, Stream, TypeInv, FileTypes
<1>6. ContentInv' BY ContentStep
\* Before anything is written.
<1>7. ASSUME Stream = <<>>, Stream' = <<>>, dump' \in {"idle", "inspect", "begin", "header"},
             UNCHANGED reader, dump \notin {"rollback", "done"}, NEW z \in Moments, dump' = "header" => z = snapshot'
      PROVE  ReplayInv'
  <2>1. Replays(Stream', z, r, dependencies') BY <1>1, <1>7 DEF Copied, Replays
  <2>2. Tells(Stream', z, Exported') BY <1>7 DEF Tells
  <2>3. UNCHANGED <<restore, input, pos, tables>> BY <1>7 DEF reader, target
  <2>4. restore' # "idle" => Input' = Stream' BY <1>2, <1>5, <1>7, <2>3
  <2>5. restore' = "failed" => AtLackingView' BY <1>1, <2>3, StaysLacking DEF Copied
  <2>6. Copied(z, r)' BY <1>1, <1>7, <2>1, <2>2, <2>3, <2>4, <2>5 DEF Copied, Writing, Made
  <2> QED BY <2>6 DEF ReplayInv
\* What was written stays.
<1>8. ASSUME UNCHANGED <<Stream, reader>>, dump # "inspect",
             Writing' => Writing /\ UNCHANGED snapshot /\ Made(r[Len(Stream)])',
             dump' \in {"rollback", "done"} => Stream # <<>> /\ Stream[Len(Stream)] = <<"complete">>
      PROVE  ReplayInv'
  <2>1. UNCHANGED <<restore, input, pos, tables>> BY <1>8 DEF reader, target
  <2>2. restore' # "idle" => Input' = Stream'
    <3>1. CASE toFile BY <1>1, <1>3, <1>8, <2>1, <3>1 DEF Copied, Input
    <3>2. CASE ~toFile BY <1>5, <3>2
    <3> QED BY <3>1, <3>2
  <2>3. restore' = "failed" => AtLackingView' BY <1>1, <2>1, StaysLacking DEF Copied
  <2>4. Copied(s, r)' BY <1>1, <1>3, <1>4, <1>8, <2>1, <2>2, <2>3 DEF Copied
  <2> QED BY <2>4 DEF ReplayInv
\* Only the restore goes on.
<1>9. ASSUME UNCHANGED <<dumper, skipped>>, restore' # "idle" => Input' = Stream',
             restore' = "failed" => AtLackingView', tables' = r[pos']
      PROVE  ReplayInv'
  <2>1. UNCHANGED <<Stream, dump, todo, table, count, batch, snapshot, Exported>>
    BY <1>9 DEF dumper, files, reading, rows, Stream, Exported
  <2>2. Copied(s, r)' BY <1>1, <1>3, <1>9, <2>1 DEF Copied, Made, Writing
  <2> QED BY <2>2 DEF ReplayInv
<1> USE DEF Goto
<1>10. CASE Inspect
  <2>1. /\ Stream = <<>> /\ UNCHANGED Stream /\ dump = "idle" /\ dump' = "inspect" /\ UNCHANGED reader
    BY <1>10 DEF Inspect, Stream, files, TypeInv, FileTypes
  <2> QED BY <1>7, <2>1
<1>11. CASE OrderViews
  <2>1. /\ Stream = <<>> /\ UNCHANGED Stream /\ dump = "inspect" /\ dump' = "inspect" /\ UNCHANGED reader
    BY <1>11 DEF OrderViews, dumper, Stream, files, TypeInv, FileTypes
  <2> QED BY <1>7, <2>1
<1>12. CASE Preflight
  <2>1. /\ Stream = <<>> /\ UNCHANGED Stream /\ dump = "inspect" /\ dump' \in {"refused", "begin"}
        /\ UNCHANGED reader
    BY <1>12 DEF Preflight, Stream, files, TypeInv, FileTypes
  <2> QED BY <1>7, <2>1
<1>13. CASE Begin
  <2>1. /\ Stream = <<>> /\ UNCHANGED Stream /\ dump = "begin" /\ dump' = "header"
        /\ UNCHANGED reader /\ snapshot' = data
    BY <1>13 DEF Begin, Stream, files, TypeInv, FileTypes
  <2>2. data \in Moments BY DEF TypeInv, SourceTypes
  <2> QED BY <1>7, <2>1, <2>2
<1>14. CASE WriteHeader
  <2> DEFINE q == [n \in Nat |-> NoCount]
  <2>1. /\ Stream = <<>> /\ Stream' = Header /\ Len(Header) = 3 /\ Header \in Seq(Items)
        /\ Header[1][1] = "format" /\ Header[2][1] = "incomplete" /\ Header[3][1] = "set"
    BY <1>14, HeaderWritten DEF Header
  <2>2. /\ dump = "header" /\ dump' = "tables" /\ todo' = Tables
        /\ UNCHANGED <<restore, pos, tables, input, snapshot>>
    BY <1>14 DEF WriteHeader, reader, target
  <2>3. NoCount \in Targets BY DEF NoCount, Targets
  <2>4. q \in [Nat -> Targets] /\ \A n \in Nat : q[n] = NoCount BY <2>3
  <2> HIDE DEF q
  <2>5. tables = NoCount /\ pos = 0
    <3>1. pos = 0 BY <1>2, <2>1
    <3> QED BY <1>1, <3>1 DEF Copied, Replays
  <2>6. \A i \in 1..3 : Header[i][1] \notin {"table", "rows", "view", "complete", "malformed"} BY <2>1
  <2>7. Replays(Header, s, q, dependencies)
    <3>1. ASSUME NEW i \in 1..3 PROVE q[i] = Effect(q[i - 1], Header[i])
      BY <2>4, <2>6 DEF Effect
    <3>2. \A i \in 1..3 : Header[i] # Malformed BY <2>6, ItemsMade
    <3> QED BY <2>1, <2>4, <2>6, <3>1, <3>2 DEF Replays
  <2>8. s = snapshot' BY <1>1, <2>2 DEF Copied, Writing
  <2>9. Tells(Stream', s, Exported') BY <1>6, <2>2, <2>8 DEF ContentInv
  <2>10. NoCount = [t \in Tables |-> IF t \in Tables THEN -1 ELSE 0] BY DEF NoCount
  <2>11. Made(q[Len(Stream)])' BY <2>1, <2>2, <2>4, <2>10 DEF Made
  <2>12. restore' # "idle" => Input' = Stream' BY <1>2, <1>5, <2>2
  <2>13. restore' = "failed" => AtLackingView' BY <1>1, <2>2, StaysLacking DEF Copied
  <2>14. Copied(s, q)' BY <1>3, <2>1, <2>2, <2>4, <2>5, <2>7, <2>8, <2>9, <2>11, <2>12, <2>13
      DEF Copied
  <2> QED BY <2>4, <2>14 DEF ReplayInv
<1> DEFINE m == r[Len(Stream)]
<1>15. m \in Targets /\ (Writing => Made(m) /\ s = snapshot)
  BY <1>1, <1>2 DEF Copied
<1> HIDE DEF m
<1>16. ASSUME NEW t \in Tables, WriteTable(t) PROVE ReplayInv'
  <2> DEFINE x == <<"table", t>>
  <2>1. /\ x \in Items /\ Wrote(x) /\ x[1] = "table" /\ x[2] = t /\ x # Malformed
        /\ UNCHANGED <<reader, snapshot, dependencies>>
        /\ dump = "tables" /\ dump' = "tables" /\ t \in todo /\ todo' = todo \ {t}
    BY <1>3, <1>16, ItemWritten, ItemsMade DEF WriteTable, Malformed, rows
  <2> HIDE DEF x
  <2>2. m = [u \in Tables |-> IF u \in todo THEN -1 ELSE 0] BY <1>15, <2>1 DEF Made, Writing
  <2>3. Effect(m, x) = [m EXCEPT ![t] = 0] BY <2>1 DEF Effect
  <2>4. Effect(m, x) = [u \in Tables |-> IF u \in todo' THEN -1 ELSE 0] BY <2>1, <2>2, <2>3
  <2>5. Accepts(Stream, s, m, dependencies, x) BY <2>1, <2>2 DEF Accepts
  <2>6. \A z : z = Effect(m, x) => Made(z)' BY <2>1, <2>4 DEF Made
  <2> QED BY <1>0, <1>1, <1>6, <2>1, <2>5, <2>6, WroteReplay DEF m
<1>17. CASE TablesWritten
  <2>1. /\ UNCHANGED <<Stream, reader, snapshot>> /\ dump = "tables" /\ dump' = "data"
        /\ todo = {} /\ todo' = Tables /\ UNCHANGED table /\ table = Null
    BY <1>17 DEF TablesWritten, Stream, files, rows, ContentInv
  <2>2. m = [u \in Tables |-> IF u \in todo THEN -1 ELSE 0] BY <1>15, <2>1 DEF Made, Writing
  <2>3. m = [u \in Tables |-> IF u \in todo' THEN 0
                            ELSE IF u = table' THEN count' - batch' ELSE snapshot'[u]]
    BY <2>1, <2>2
  <2>4. table' \notin todo' BY <2>1, NullAssumption
  <2>9. m' = m BY <2>1 DEF m
  <2>5. Made(m)' BY <2>1, <2>9, <2>3, <2>4 DEF Made
  <2> QED BY <1>8, <2>1, <2>5 DEF m, Writing
<1>18. ASSUME NEW t \in Tables, ReadTable(t) PROVE ReplayInv'
  <2>1. /\ UNCHANGED <<Stream, reader, snapshot>> /\ dump = "data" /\ dump' = "data"
        /\ table = Null /\ table' = t /\ t \in todo /\ todo' = todo \ {t}
        /\ UNCHANGED <<count, batch>>
    BY <1>18 DEF ReadTable, Stream, files
  <2>2. m = [u \in Tables |-> IF u \in todo THEN 0
                              ELSE IF u = table THEN count - batch ELSE snapshot[u]]
    BY <1>15, <2>1 DEF Made, Writing
  <2>3. count' - batch' = 0 BY <2>1 DEF TypeInv, DumpTypes
  <2>4. m = [u \in Tables |-> IF u \in todo' THEN 0
                            ELSE IF u = table' THEN count' - batch' ELSE snapshot'[u]]
    BY <2>1, <2>2, <2>3, NullAssumption
  <2>9. m' = m BY <2>1 DEF m
  <2>5. Made(m)' BY <2>1, <2>9, <2>4 DEF Made
  <2> QED BY <1>8, <2>1, <2>5 DEF m, Writing
<1>19. CASE ReadRow
  <2> DEFINE x == <<"rows", table, batch>>
  <2>1. /\ UNCHANGED <<reader, snapshot, dependencies, todo, table>>
        /\ dump = "data" /\ dump' = "data" /\ count' = count + 1
        /\ table \in Tables /\ count \in Nat /\ batch \in 0..count
    BY <1>3, <1>19 DEF ReadRow, TypeInv, DumpTypes
  <2>2. /\ table \notin todo
        /\ m = [u \in Tables |-> IF u \in todo THEN 0
                              ELSE IF u = table THEN count - batch ELSE snapshot[u]]
    BY <1>15, <2>1 DEF Made, Writing
  <2>3. CASE UNCHANGED files /\ batch' = batch + 1
    <3>1. UNCHANGED Stream /\ m' = m BY <2>3 DEF Stream, files, m
    <3>2. count' - batch' = count - batch BY <2>1, <2>3
    <3>3. Made(m)' BY <2>1, <2>2, <3>1, <3>2 DEF Made
    <3> QED BY <1>8, <2>1, <3>1, <3>3 DEF m, Writing
  <2>4. CASE Wrote(x) /\ batch > 0 /\ batch' = 1
    <3>1. x \in Items /\ x[1] = "rows" /\ x[2] = table /\ x[3] = batch /\ x # Malformed
      BY <2>4 DEF Wrote, Malformed
    <3> HIDE DEF x
    <3>2. Effect(m, x) = [m EXCEPT ![table] = m[table] + batch] BY <3>1 DEF Effect
    <3>3. m[table] = count - batch /\ m[table] # -1 BY <2>1, <2>2
    <3>4. (count - batch) + batch = count' - batch' BY <2>1, <2>4
    <3>5. Effect(m, x) = [u \in Tables |-> IF u \in todo THEN 0
                                        ELSE IF u = table THEN count' - batch' ELSE snapshot[u]]
      BY <2>1, <2>2, <3>2, <3>3, <3>4
    <3>6. Accepts(Stream, s, m, dependencies, x) BY <3>1, <3>3 DEF Accepts
    <3>7. \A z : z = Effect(m, x) => Made(z)' BY <2>1, <2>2, <3>5 DEF Made
    <3> QED BY <1>0, <1>1, <1>6, <2>1, <2>4, <3>1, <3>6, <3>7, WroteReplay DEF m
  <2> QED BY <1>19, <2>3, <2>4, ItemWritten
<1>20. CASE FlushBatch
  <2> DEFINE x == <<"rows", table, batch>>
  <2>1. /\ Wrote(x) /\ x \in Items /\ x[1] = "rows" /\ x[2] = table /\ x[3] = batch /\ x # Malformed
        /\ UNCHANGED <<reader, snapshot, dependencies, todo, table, count>>
        /\ dump = "data" /\ dump' = "data" /\ batch' = 0
        /\ table \in Tables /\ count \in Nat /\ batch \in 0..count
    BY <1>3, <1>20, ItemWritten DEF FlushBatch, Wrote, Malformed, TypeInv, DumpTypes
  <2> HIDE DEF x
  <2>2. /\ table \notin todo
        /\ m = [u \in Tables |-> IF u \in todo THEN 0
                              ELSE IF u = table THEN count - batch ELSE snapshot[u]]
    BY <1>15, <2>1 DEF Made, Writing
  <2>3. Effect(m, x) = [m EXCEPT ![table] = m[table] + batch] BY <2>1 DEF Effect
  <2>4. m[table] = count - batch /\ m[table] # -1 BY <2>1, <2>2
  <2>5. (count - batch) + batch = count - batch' BY <2>1
  <2>6. Effect(m, x) = [u \in Tables |-> IF u \in todo THEN 0
                                        ELSE IF u = table THEN count - batch' ELSE snapshot[u]]
    BY <2>1, <2>2, <2>3, <2>4, <2>5
  <2>7. Accepts(Stream, s, m, dependencies, x) BY <2>1, <2>4 DEF Accepts
  <2>8. \A z : z = Effect(m, x) => Made(z)' BY <2>1, <2>2, <2>6 DEF Made
  <2> QED BY <1>0, <1>1, <1>6, <2>1, <2>7, <2>8, WroteReplay DEF m
<1>21. CASE WriteCount
  <2> DEFINE x == <<"count", table, count>>
  <2>1. /\ Wrote(x) /\ x \in Items /\ x[1] = "count" /\ x # Malformed
        /\ UNCHANGED <<reader, snapshot, dependencies, todo>>
        /\ dump = "data" /\ dump' = "data" /\ unread = 0 /\ UNCHANGED batch
        /\ batch = 0 /\ table # Null /\ table' = Null
    BY <1>3, <1>21, ItemWritten DEF WriteCount, Wrote, Malformed
  <2>2. count - batch = snapshot[table] /\ todo \subseteq Tables
    BY <2>1 DEF ContentInv, TypeInv, DumpTypes
  <2> HIDE DEF x
  <2>3. m = [u \in Tables |-> IF u \in todo THEN 0
                              ELSE IF u = table THEN count - batch ELSE snapshot[u]]
    BY <1>15, <2>1 DEF Made, Writing
  <2>4. Effect(m, x) = m BY <2>1 DEF Effect
  <2>5. m = [u \in Tables |-> IF u \in todo' THEN 0
                            ELSE IF u = table' THEN count' - batch' ELSE snapshot'[u]]
    BY <2>1, <2>2, <2>3, NullAssumption
  <2>6. table' \notin todo' BY <2>1, <2>2, NullAssumption
  <2>7. \A z : z = Effect(m, x) => Made(z)' BY <2>1, <2>4, <2>5, <2>6 DEF Made
  <2>8. Accepts(Stream, s, m, dependencies, x) BY <2>1 DEF Accepts
  <2> QED BY <1>0, <1>1, <1>6, <2>1, <2>7, <2>8, WroteReplay DEF m
<1>22. CASE DataWritten
  <2>1. /\ UNCHANGED <<Stream, reader, snapshot>> /\ dump = "data" /\ dump' = "views"
        /\ todo = {} /\ table = Null
    BY <1>22 DEF DataWritten, Stream, files
  <2>2. m = [u \in Tables |-> IF u \in todo THEN 0
                              ELSE IF u = table THEN count - batch ELSE snapshot[u]]
    BY <1>15, <2>1 DEF Made, Writing
  <2>3. snapshot \in Moments /\ DOMAIN snapshot = Tables
    BY <1>15, <2>1 DEF Writing, Moments
  <2>4. m = [u \in Tables |-> snapshot[u]] BY <2>1, <2>2, NullAssumption
  <2>5. m = snapshot' BY <2>1, <2>3, <2>4 DEF Moments
  <2>9. m' = m BY <2>1 DEF m
  <2>6. Made(m)' BY <2>1, <2>9, <2>5 DEF Made
  <2> QED BY <1>8, <2>1, <2>6 DEF m, Writing
<1>23. ASSUME NEW v \in Views, WriteView(v) PROVE ReplayInv'
  <2> DEFINE x == <<"view", v>>
  <2>1. /\ Wrote(x) /\ x \in Items /\ x[1] = "view" /\ x[2] = v /\ x # Malformed
        /\ UNCHANGED <<reader, snapshot, dependencies>>
        /\ dump = "views" /\ dump' = "views" /\ v \in todo
    BY <1>3, <1>23, ItemWritten, ItemsMade DEF WriteView, Malformed
  <2>2. \A j \in 1..Len(Stream) : Stream[j] # <<"view", v>> BY <2>1 DEF PlaceInv
  <2>3. ASSUME NEW w \in dependencies[v] PROVE w \in Exported \ todo
    <3>1. stage = "ordered" /\ ordered \in Seq((SUBSET Views) \ {{}})
      BY <2>1 DEF PlaceInv, Writing, ViewInv, ViewTypeOK
    <3>2. PICK i \in DOMAIN ordered :
            v \in ordered[i] /\ \A j \in 1..(i - 1) : ordered[j] \cap todo = {}
      BY <1>23 DEF WriteView
    <3>3. PICK j \in 1..(i - 1) : w \in ordered[j]
      BY <2>3, <3>2 DEF ViewInv, DependenciesFirst
    <3>4. j \in DOMAIN ordered BY <3>1, <3>2, <3>3
    <3>5. w \in Exported BY <3>1, <3>3, <3>4 DEF ViewInv, EachOnce, Exported
    <3> QED BY <3>2, <3>3, <3>5
  <2>4. ViewsIn(Stream, dependencies[v]) BY <2>1, <2>3 DEF ContentInv, ViewsIn
  <2> HIDE DEF x
  <2>5. x = <<"view", v>> BY DEF x
  <2>6. Accepts(Stream, s, m, dependencies, x) BY <2>1, <2>2, <2>4 DEF Accepts
  <2>7. Effect(m, x) = m /\ m = snapshot BY <1>15, <2>1 DEF Effect, Made, Writing
  <2>8. \A z : z = Effect(m, x) => Made(z)' BY <2>1, <2>7 DEF Made
  <2> QED BY <1>0, <1>1, <1>6, <2>1, <2>6, <2>8, WroteReplay DEF m
<1>24. CASE WriteFooter
  <2> DEFINE x == <<"complete">>
  <2>1. /\ Wrote(x) /\ x \in Items /\ x[1] = "complete" /\ x # Malformed
        /\ UNCHANGED <<reader, snapshot, dependencies>> /\ dump = "views" /\ dump' = "close"
    BY <1>3, <1>24, ItemWritten, ItemsMade DEF WriteFooter, reading, Malformed
  <2> HIDE DEF x
  <2>2. Effect(m, x) = m /\ m = snapshot /\ s = snapshot BY <1>15, <2>1 DEF Effect, Made, Writing
  <2>3. Accepts(Stream, s, m, dependencies, x) BY <2>1, <2>2 DEF Accepts
  <2>4. \A z : z = Effect(m, x) => Made(z)' BY <2>1, <2>2 DEF Made
  <2> QED BY <1>0, <1>1, <1>6, <2>1, <2>3, <2>4, WroteReplay DEF m
<1>25. CASE Publish
  <2>1. /\ UNCHANGED reader /\ dump = "close" /\ dump' = "rollback"
        /\ IF toFile THEN destination' = temporary ELSE UNCHANGED files
    BY <1>25 DEF Publish
  <2>2. UNCHANGED Stream
    <3>1. toFile <=> destination = Absent BY <2>1 DEF TypeInv, FileTypes
    <3>2. temporary # Absent BY AbsentIsNone DEF TypeInv, FileTypes
    <3> QED BY <2>1, <3>1, <3>2 DEF Stream, files
  <2>3. Len(Stream) > 2 /\ Stream[Len(Stream)] = <<"complete">> BY <2>1 DEF HeaderInv
  <2>4. Stream # <<>> BY <2>3
  <2> QED BY <1>8, <2>1, <2>2, <2>3, <2>4 DEF Writing
<1>26. CASE Rollback
  <2>1. UNCHANGED <<Stream, reader>> /\ dump = "rollback" /\ dump' = "done"
    BY <1>26 DEF Rollback, Stream, files
  <2>2. Stream # <<>> /\ Stream[Len(Stream)] = <<"complete">> BY <1>1, <2>1 DEF Copied
  <2> QED BY <1>8, <2>1, <2>2 DEF Writing
\* The restore.
<1>27. ASSUME UNCHANGED <<dumper, input>>, restore # "idle" PROVE Input' = Stream'
  BY <1>1, <1>27 DEF Copied, Input, Stream, dumper, chosen, files
<1>28. ASSUME UNCHANGED <<dumper, reader, skipped>> PROVE ReplayInv'
  <2>1. UNCHANGED <<restore, pos, tables, input>> BY <1>28 DEF reader, target
  <2>2. restore' = "failed" => AtLackingView' BY <1>1, <2>1, StaysLacking DEF Copied
  <2>3. restore' # "idle" => Input' = Stream' BY <1>27, <1>28, <2>1
  <2> QED BY <1>1, <1>9, <1>28, <2>1, <2>2, <2>3 DEF Copied
<1>29. CASE Write BY <1>28, <1>29, WriteKeeps DEF viewVars, pruning
<1>30. CASE Open
  <2>1. /\ UNCHANGED <<dumper, skipped, pos, tables>> /\ restore' \in {"prefix", "failed"}
        /\ restore' = "failed" => fault'
        /\ input' = IF toFile /\ destination # Absent THEN destination ELSE <<>>
        /\ fault' = (fault \/ destination = Absent)
    BY <1>30 DEF Open, target, viewVars, pruning
  <2>2. destination # Absent /\ restore' = "prefix" /\ input' = IF toFile THEN destination ELSE <<>>
    BY <2>1
  <2>3. Input' = Stream' BY <1>5, <2>1, <2>2 DEF dumper, chosen, files, Input, Stream
  <2> QED BY <1>1, <1>9, <2>1, <2>2, <2>3 DEF Copied
<1>31. CASE ReadPrefix
  <2>1. /\ UNCHANGED <<dumper, skipped, pos, tables, input>> /\ restore = "prefix"
        /\ (\E i \in {1, 2} : i <= Len(Input) /\ Input[i] = Malformed) \/ restore' = "target"
    BY <1>31 DEF ReadPrefix, target, viewVars, pruning
  <2>2. Input = Stream BY <1>1, <2>1 DEF Copied
  <2>3. \A i \in 1..Len(Stream) : Stream[i] # Malformed BY <1>1 DEF Copied, Replays
  <2>4. \A i \in {1, 2} : i <= Len(Stream) => i \in 1..Len(Stream) BY <1>2
  <2>5. restore' = "target" BY <2>1, <2>2, <2>3, <2>4
  <2> QED BY <1>1, <1>9, <1>27, <2>1, <2>5 DEF Copied
<1>32. CASE InspectTarget
  <2>1. /\ UNCHANGED <<dumper, skipped, pos, tables, input>>
        /\ restore' \in {"refused", "apply"} /\ restore # "idle"
    BY <1>32 DEF InspectTarget, viewVars, pruning
  <2> QED BY <1>1, <1>9, <1>27, <2>1 DEF Copied
<1>33. CASE Apply
  <2> DEFINE i == pos + 1
             item == Input[pos + 1]
  <2>1. UNCHANGED <<dumper, skipped, lacking, input>> /\ restore = "apply" /\ pos < Len(Input)
    BY <1>33 DEF Apply, viewVars, pruning, source
  <2>2. Input = Stream /\ item = Stream[i] /\ i \in 1..Len(Stream) /\ i - 1 = pos /\ tables = r[i - 1]
    BY <1>1, <1>2, <2>1 DEF Copied
  <2>3. /\ r[i] = Effect(tables, item) /\ item # Malformed
        /\ item[1] = "table" => tables[item[2]] = -1
        /\ item[1] = "rows" => tables[item[2]] # -1
        /\ item[1] = "view" =>
             /\ \A j \in 1..pos : Stream[j] # <<"view", item[2]>>
             /\ \A w \in dependencies[item[2]] : \E j \in 1..pos : Stream[j] = <<"view", w>>
    BY <1>1, <2>2 DEF Copied, Replays
  <2>4. item \in Items BY <1>2, <2>2
  <2>5. CASE item[1] = "view" /\ item[2] \in lacking
    <3>1. ~Accepted(item) BY <2>5 DEF Accepted
    <3>2. restore' = "failed" /\ UNCHANGED <<tables, pos>> BY <1>33, <3>1 DEF Apply
    <3>3. AtLackingView BY <2>1, <2>5 DEF AtLackingView
    <3>4. Input' = Input BY <1>27, <2>1, <2>2 DEF dumper, chosen, files, Stream
    <3>5. AtLackingView' BY <2>1, <3>2, <3>3, <3>4 DEF AtLackingView
    <3> QED BY <1>1, <1>9, <1>27, <2>1, <3>2, <3>5 DEF Copied
  <2>6. CASE ~(item[1] = "view" /\ item[2] \in lacking)
    <3>1. Accepted(item)
      <4>1. CASE item[1] = "view"
        <5>1. item[2] \in Views BY <2>4, <4>1, Kinds
        <5>2. dependencies[item[2]] \subseteq Views BY <5>1 DEF ViewInv, ViewTypeOK, GivenViews
        <5>3. \A u \in Views : u \in views <=> \E j \in 1..pos : Stream[j] = <<"view", u>>
          BY <1>0, <2>2 DEF ReaderInv, Undisturbed, Shown
        <5> QED BY <2>3, <2>6, <4>1, <5>1, <5>2, <5>3 DEF Accepted
      <4>2. CASE item[1] # "view" BY <2>3, <4>2 DEF Accepted
      <4> QED BY <4>1, <4>2
    <3>2. pos' = i /\ restore' = "apply" /\ Execute(item)
      BY <1>33, <2>1, <3>1 DEF Apply
    <3>3. tables' = Effect(tables, item) BY <3>2 DEF Execute, Effect
    <3> QED BY <1>9, <1>27, <2>1, <2>3, <3>2, <3>3
  <2> QED BY <2>5, <2>6
\* At the end of an undisturbed restore everything is there.
<1>34. ASSUME restore \in {"apply", "count"}, AtEnd
       PROVE  /\ metadata.complete /\ tables = s
              /\ \A t \in Expected : metadata.expected[t] = s[t]
  <2>1. dump \in {"rollback", "done"}
    BY <1>0, <1>34 DEF TypeInv, RestoreTypes, AtEnd, DumpEnded
  <2>2. Input = Stream /\ pos = Len(Stream) /\ Stream[Len(Stream)] = <<"complete">> /\ Stream # <<>>
    BY <1>1, <1>34, <2>1 DEF Copied, AtEnd
  <2>3. pos \in 1..pos /\ pos \in 1..Len(Stream) /\ Stream[pos][1] = "complete"
    BY <1>2, <2>2
  <2>4. metadata.complete BY <2>2, <2>3 DEF ReaderInv, Consumed
  <2>5. tables = s BY <1>1, <2>2, <2>3 DEF Copied, Replays
  <2>6. ASSUME NEW t \in Expected PROVE metadata.expected[t] = s[t]
    <3>1. PICK j \in 1..pos : Stream[j] = <<"count", t, metadata.expected[t]>>
      BY <2>2 DEF ReaderInv, Consumed, Expected
    <3>2. Stream[j][3] = s[Stream[j][2]] BY <1>1, <2>2, <3>1 DEF Copied, Tells
    <3> QED BY <3>1, <3>2
  <2> QED BY <2>4, <2>5, <2>6
<1>35. CASE Finish
  <2>1. UNCHANGED <<dumper, skipped, input, pos, tables>> /\ restore = "apply" /\ AtEnd
    BY <1>35 DEF Finish, target, viewVars, pruning
  <2>2. restore' = "count" BY <1>35, <1>34, <2>1 DEF Finish
  <2> QED BY <1>1, <1>9, <1>27, <2>1, <2>2 DEF Copied
<1>36. ASSUME NEW t \in Tables, CountTable(t) PROVE ReplayInv'
  <2>1. UNCHANGED <<dumper, skipped, input, pos, tables>> /\ restore = "count" /\ AtEnd
    BY <1>36 DEF CountTable, target, viewVars, pruning, TypeInv, TargetTypes
  <2>2. tables[t] # -1
    <3>1. tables = s BY <1>34, <2>1
    <3> QED BY <3>1 DEF Moments
  <2>3. restore' = "count" BY <1>36, <2>1, <2>2 DEF CountTable
  <2> QED BY <1>1, <1>9, <1>27, <2>1, <2>3 DEF Copied
<1>37. CASE EndCount
  <2>1. /\ UNCHANGED <<dumper, skipped, input, pos, tables>> /\ restore = "count" /\ AtEnd
        /\ \A t \in Expected : counted[t] # -1
    BY <1>37 DEF EndCount, target, viewVars, pruning, TypeInv, TargetTypes
  <2>2. ASSUME NEW t \in Expected PROVE counted[t] = metadata.expected[t]
    <3>1. t \in Tables /\ counted[t] \in {-1, tables[t]}
      BY <1>0 DEF ReaderInv, Undisturbed, Expected
    <3>2. counted[t] = tables[t] BY <2>1, <3>1
    <3> QED BY <1>34, <2>1, <3>2
  <2>3. restore' = "ok" BY <1>37, <2>2 DEF EndCount
  <2> QED BY <1>1, <1>9, <1>27, <2>1, <2>3 DEF Copied
<1>38. CASE DumpFails \/ DumpCrash BY <1>38 DEF DumpFails, DumpCrash
<1>39. CASE RestoreFails BY <1>39 DEF RestoreFails
<1>40. CASE Meddle BY <1>40 DEF Meddle
<1>41. CASE Truncate BY <1>41, TruncateKeeps
<1>42. CASE UNCHANGED vars BY <1>28, <1>42 DEF vars, viewVars, pruning
<1> QED BY <1>10, <1>11, <1>12, <1>13, <1>14, <1>16, <1>17, <1>18, <1>19, <1>20, <1>21, <1>22, <1>23,
  <1>24, <1>25, <1>26, <1>29, <1>30, <1>31, <1>32, <1>33, <1>35, <1>36, <1>37, <1>38, <1>39, <1>40, <1>41,
  <1>42 DEF Next, DumpStep, RestoreStep

\* A restore fails only at a view that uses an object which is not exported, or when
\* somebody damaged the dump or disturbed the target, or the dump itself had not
\* succeeded: everything else that run_dump writes is accepted by an empty target.
THEOREM FailuresHaveCauses == Spec => []FailuresExplained
<1>1. Init => PlaceInv BY DEF Init, PlaceInv, Writing
<1>2. Init => ViewInv BY ViewInitInv DEF Init
<1>3. ViewInv /\ [Next]_vars => ViewInv' BY ViewsStep, ViewStepInv
<1>4. ReplayInv => FailuresExplained BY DEF ReplayInv, FailuresExplained, Copied
<1> QED BY <1>1, <1>2, <1>3, <1>4, TypeInit, TypeStep, HeaderInit, HeaderStep, ContentInit, ContentStep,
  ReaderInit, ReaderStep, PlaceStep, ReplayInit, ReplayStep, PTL DEF Spec
=============================================================================
