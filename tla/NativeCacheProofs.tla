--------------------------- MODULE NativeCacheProofs ---------------------------
(***************************************************************************)
(* NativeCache implements CacheEntry, for any set of processes, any number *)
(* of rounds and any meddling, and keeps its other invariants; and so does *)
(* GenerationCache (W), which publishes on Windows.                        *)
(***************************************************************************)
EXTENDS MCNativeCache, TLAPS

Before == {"idle", "ensure", "extract"}
Ready == {"round", "rename", "lost", "stat", "exchange"}

\* A tree is private to its process until that process publishes it, or an outsider
\* removes it.
Private(p) == p # entry /\ p \notin deleted /\ \A q \in Processes : loaded[q] # p

PlaceInv ==
  /\ entry \notin deleted
  /\ \A p \in Processes :
       /\ staging[p] \in {Null, p}
       /\ pc[p] \in Before => staging[p] = Null /\ Private(p)
       /\ pc[p] \in {"store", "mark"} \cup Ready => staging[p] = p \/ p \in robbed
       /\ staging[p] = p => Private(p)

\* A tree that is ready to be published is complete.
ContentInv ==
  \A p \in Processes : staging[p] = p =>
    /\ pc[p] = "store" => "files" \in content[p]
    /\ pc[p] = "mark" => {"files", "archive"} \subseteq content[p]
    /\ pc[p] \in Ready => content[p] = Parts

\* seen is up to date, and a process that has read the marker of a tree nobody saw
\* complete will not find that tree's files.
HasFiles == entry # Null /\ "files" \in content[entry]

SeenInv ==
  \A p \in Processes :
    /\ Calling(p) /\ Complete(entry) => seen[p]
    /\ marked[p] => pc[p] \in Checks \cup {"crashed"}
    /\ marked[p] /\ pc[p] \in Checks /\ HasFiles => seen[p]
    /\ pc[p] = "path" => seen[p]

\* Every round but the current one met a disappearance of its own.
RoundInv ==
  \A p \in Processes :
    /\ tries[p] < Tries \/ pc[p] = "gaveup"
    /\ p \notin Refused \cup robbed => tries[p] <= vanished
    /\ p \notin Refused \cup robbed /\ pc[p] \in {"lost", "stat", "exchange"} =>
         entry # Null \/ tries[p] < vanished
    /\ pc[p] = "published" => Complete(entry) \/ meddled > 0

IInv == TypeOK /\ PlaceInv /\ ContentInv /\ PublishedComplete /\ MappedFilesKept
        /\ SeenInv /\ RoundInv /\ ErrorsExplained

-----------------------------------------------------------------------------
\* Every step keeps the types.
LEMMA TypeStep ==
  ASSUME TypeOK, RoundInv, [Next]_vars
  PROVE  TypeOK'
<1> USE TreesAssumption, TriesAssumption, RefusedAssumption
  DEF TypeOK, RoundInv, Trees, Parts, Checks, Done, Calling, outside
<1>1. CASE Meddle BY <1>1 DEF Meddle
<1>2. ASSUME NEW p \in Processes, Begin(p) PROVE TypeOK'
  <2>1. Complete(entry) \in BOOLEAN BY DEF Complete
  <2>2. seen' \in [Processes -> BOOLEAN] BY <1>2, <2>1 DEF Begin
  <2> QED BY <1>2, <2>2 DEF Begin
<1>3. ASSUME NEW p \in Processes, CheckMarker(p) PROVE TypeOK'
  <2>1. CASE entry # Null /\ "marker" \in content[entry] BY <1>3, <2>1 DEF CheckMarker
  <2>2. CASE ~(entry # Null /\ "marker" \in content[entry])
    <3>1. Reject(p) /\ UNCHANGED <<marked, tries, entry, loaded, outside, seen>>
      BY <1>3, <2>2 DEF CheckMarker
    <3> QED BY <1>3, <3>1 DEF CheckMarker, Reject, AfterReject, Return
  <2> QED BY <2>1, <2>2
<1>4. ASSUME NEW p \in Processes, CheckFiles(p) PROVE TypeOK'
  BY <1>4 DEF CheckFiles, Reject, AfterReject, Return
<1>5. ASSUME NEW p \in Processes, Extract(p) PROVE TypeOK'
  BY <1>5 DEF Extract, Fill
<1>6. ASSUME NEW p \in Processes, store_archive(p) PROVE TypeOK'
  BY <1>6 DEF store_archive, Fill
<1>7. ASSUME NEW p \in Processes, WriteMarker(p) PROVE TypeOK'
  BY <1>7 DEF WriteMarker, Fill
<1>8. ASSUME NEW p \in Processes, IOError(p) PROVE TypeOK'
  BY <1>8 DEF IOError, Return
<1>9. ASSUME NEW p \in Processes, Rename(p) PROVE TypeOK'
  <2>1. seen' \in [Processes -> BOOLEAN]
    <3>1. CASE UNCHANGED seen BY <3>1
    <3>2. CASE Publish(p) BY <3>2 DEF Publish
    <3> QED BY <1>9, <3>1, <3>2 DEF Rename
  <2>2. (/\ pc' \in [Processes -> Checks \cup Done \cup
             {"idle", "extract", "store", "mark", "rename", "stat", "exchange"}]
         /\ marked' \in [Processes -> BOOLEAN]
         /\ tries' \in [Processes -> 0..Tries]
         /\ entry' \in Trees \cup {Null}
         /\ staging' \in [Processes -> Trees \cup {Null}]
         /\ content' \in [Trees -> SUBSET Parts]
         /\ deleted' \subseteq Trees
         /\ loaded' \in [Processes -> Trees \cup {Null}]
         /\ meddled' \in Nat /\ vanished' \in 0..meddled'
         /\ robbed' \subseteq Processes)
    BY <1>9 DEF Rename, Publish
  <2> QED BY <2>1, <2>2
<1>10. ASSUME NEW p \in Processes, RenameRefused(p) PROVE TypeOK'
  BY <1>10 DEF RenameRefused
<1>11. ASSUME NEW p \in Processes, Stat(p) PROVE TypeOK'
  BY <1>11 DEF Stat, Continue, Return
<1>12. ASSUME NEW p \in Processes, Exchange(p) PROVE TypeOK'
  <2>1. seen' \in [Processes -> BOOLEAN]
    <3>1. CASE UNCHANGED seen BY <3>1
    <3>2. CASE Publish(p) BY <3>2 DEF Publish
    <3> QED BY <1>12, <3>1, <3>2 DEF Exchange
  <2>2. (/\ pc' \in [Processes -> Checks \cup Done \cup
             {"idle", "extract", "store", "mark", "rename", "stat", "exchange"}]
         /\ marked' \in [Processes -> BOOLEAN]
         /\ tries' \in [Processes -> 0..Tries]
         /\ entry' \in Trees \cup {Null}
         /\ staging' \in [Processes -> Trees \cup {Null}]
         /\ content' \in [Trees -> SUBSET Parts]
         /\ deleted' \subseteq Trees
         /\ loaded' \in [Processes -> Trees \cup {Null}]
         /\ meddled' \in Nat /\ vanished' \in 0..meddled'
         /\ robbed' \subseteq Processes)
    BY <1>12 DEF Exchange, Publish, Continue, Return
  <2> QED BY <2>1, <2>2
<1>13. ASSUME NEW p \in Processes, Load(p) PROVE TypeOK'
  BY <1>13 DEF Load
<1>14. ASSUME NEW p \in Processes, Crash(p) PROVE TypeOK'
  BY <1>14 DEF Crash
<1>15. CASE UNCHANGED vars BY <1>15 DEF vars
<1> QED BY <1>1, <1>2, <1>3, <1>4, <1>5, <1>6, <1>7, <1>8, <1>9, <1>10, <1>11, <1>12,
  <1>13, <1>14, <1>15 DEF Next, Step

\* A tree is private until published, and published trees are never deleted.
LEMMA PlaceStep ==
  ASSUME TypeOK, PlaceInv, MappedFilesKept, [Next]_vars
  PROVE  PlaceInv' /\ MappedFilesKept'
<1> USE TreesAssumption, TriesAssumption, RefusedAssumption
  DEF TypeOK, PlaceInv, Private, MappedFilesKept, Trees, Parts, Before, Ready, Checks,
      Done, Calling, outside
<1>1. CASE Meddle BY <1>1 DEF Meddle
<1>2. ASSUME NEW p \in Processes, Begin(p) PROVE PlaceInv' /\ MappedFilesKept'
  BY <1>2 DEF Begin
<1>3. ASSUME NEW p \in Processes, CheckMarker(p) PROVE PlaceInv' /\ MappedFilesKept'
  BY <1>3 DEF CheckMarker, Reject, AfterReject, Return
<1>4. ASSUME NEW p \in Processes, CheckFiles(p) PROVE PlaceInv' /\ MappedFilesKept'
  BY <1>4 DEF CheckFiles, Reject, AfterReject, Return
<1>5. ASSUME NEW p \in Processes, Extract(p) PROVE PlaceInv' /\ MappedFilesKept'
  BY <1>5 DEF Extract, Fill
<1>6. ASSUME NEW p \in Processes, store_archive(p) PROVE PlaceInv' /\ MappedFilesKept'
  BY <1>6 DEF store_archive, Fill
<1>7. ASSUME NEW p \in Processes, WriteMarker(p) PROVE PlaceInv' /\ MappedFilesKept'
  BY <1>7 DEF WriteMarker, Fill
<1>8. ASSUME NEW p \in Processes, IOError(p) PROVE PlaceInv' /\ MappedFilesKept'
  BY <1>8 DEF IOError, Return
<1>9. ASSUME NEW p \in Processes, Rename(p) PROVE PlaceInv' /\ MappedFilesKept'
  BY <1>9 DEF Rename, Publish
<1>10. ASSUME NEW p \in Processes, RenameRefused(p) PROVE PlaceInv' /\ MappedFilesKept'
  BY <1>10 DEF RenameRefused
<1>11. ASSUME NEW p \in Processes, Stat(p) PROVE PlaceInv' /\ MappedFilesKept'
  BY <1>11 DEF Stat, Continue, Return
<1>12. ASSUME NEW p \in Processes, Exchange(p) PROVE PlaceInv' /\ MappedFilesKept'
  BY <1>12 DEF Exchange, Publish, Continue, Return
<1>13. ASSUME NEW p \in Processes, Load(p) PROVE PlaceInv' /\ MappedFilesKept'
  BY <1>13 DEF Load
<1>14. ASSUME NEW p \in Processes, Crash(p) PROVE PlaceInv' /\ MappedFilesKept'
  BY <1>14 DEF Crash
<1>15. CASE UNCHANGED vars BY <1>15 DEF vars
<1> QED BY <1>1, <1>2, <1>3, <1>4, <1>5, <1>6, <1>7, <1>8, <1>9, <1>10, <1>11, <1>12,
  <1>13, <1>14, <1>15 DEF Next, Step

\* A tree is complete before it is published.
LEMMA ContentStep ==
  ASSUME TypeOK, PlaceInv, ContentInv, PublishedComplete, [Next]_vars
  PROVE  ContentInv' /\ PublishedComplete'
<1> USE TreesAssumption, TriesAssumption, RefusedAssumption
  DEF TypeOK, PlaceInv, Private, ContentInv, PublishedComplete, Trees, Parts, Before,
      Ready, Checks, Done, Calling, outside
<1>1. CASE Meddle BY <1>1 DEF Meddle
<1>2. ASSUME NEW p \in Processes, Begin(p) PROVE ContentInv' /\ PublishedComplete'
  BY <1>2 DEF Begin
<1>3. ASSUME NEW p \in Processes, CheckMarker(p) PROVE ContentInv' /\ PublishedComplete'
  BY <1>3 DEF CheckMarker, Reject, AfterReject, Return
<1>4. ASSUME NEW p \in Processes, CheckFiles(p) PROVE ContentInv' /\ PublishedComplete'
  BY <1>4 DEF CheckFiles, Reject, AfterReject, Return
<1>5. ASSUME NEW p \in Processes, Extract(p) PROVE ContentInv' /\ PublishedComplete'
  BY <1>5 DEF Extract, Fill
<1>6. ASSUME NEW p \in Processes, store_archive(p) PROVE ContentInv' /\ PublishedComplete'
  BY <1>6 DEF store_archive, Fill
<1>7. ASSUME NEW p \in Processes, WriteMarker(p) PROVE ContentInv' /\ PublishedComplete'
  BY <1>7 DEF WriteMarker, Fill
<1>8. ASSUME NEW p \in Processes, IOError(p) PROVE ContentInv' /\ PublishedComplete'
  BY <1>8 DEF IOError, Return
<1>9. ASSUME NEW p \in Processes, Rename(p) PROVE ContentInv' /\ PublishedComplete'
  BY <1>9 DEF Rename, Publish
<1>10. ASSUME NEW p \in Processes, RenameRefused(p)
  PROVE ContentInv' /\ PublishedComplete'
  BY <1>10 DEF RenameRefused
<1>11. ASSUME NEW p \in Processes, Stat(p) PROVE ContentInv' /\ PublishedComplete'
  BY <1>11 DEF Stat, Continue, Return
<1>12. ASSUME NEW p \in Processes, Exchange(p) PROVE ContentInv' /\ PublishedComplete'
  BY <1>12 DEF Exchange, Publish, Continue, Return
<1>13. ASSUME NEW p \in Processes, Load(p) PROVE ContentInv' /\ PublishedComplete'
  BY <1>13 DEF Load
<1>14. ASSUME NEW p \in Processes, Crash(p) PROVE ContentInv' /\ PublishedComplete'
  BY <1>14 DEF Crash
<1>15. CASE UNCHANGED vars BY <1>15 DEF vars
<1> QED BY <1>1, <1>2, <1>3, <1>4, <1>5, <1>6, <1>7, <1>8, <1>9, <1>10, <1>11, <1>12,
  <1>13, <1>14, <1>15 DEF Next, Step

\* A path is answered only for an entry that was complete during the call.
LEMMA SeenStep ==
  ASSUME TypeOK, PlaceInv, ContentInv, SeenInv, [Next]_vars
  PROVE  SeenInv'
<1> USE TreesAssumption, TriesAssumption, RefusedAssumption
  DEF TypeOK, PlaceInv, Private, ContentInv, SeenInv, HasFiles, Complete, Trees, Parts,
      Before, Ready, Checks, Done, Calling, outside
<1>1. CASE Meddle BY <1>1 DEF Meddle
<1>2. ASSUME NEW p \in Processes, Begin(p) PROVE SeenInv'
  <2>1. Complete(entry) \in BOOLEAN BY DEF Complete
  <2>2. (seen'[p] <=> Complete(entry)) /\ \A q \in Processes : q # p => seen'[q] = seen[q]
    <3> HIDE DEF Complete
    <3> QED BY <1>2, <2>1 DEF Begin
  <2> QED BY <1>2, <2>2 DEF Begin
<1>3. ASSUME NEW p \in Processes, CheckMarker(p) PROVE SeenInv'
  BY <1>3 DEF CheckMarker, Reject, AfterReject, Return
<1>4. ASSUME NEW p \in Processes, CheckFiles(p) PROVE SeenInv'
  BY <1>4 DEF CheckFiles, Reject, AfterReject, Return
<1>5. ASSUME NEW p \in Processes, Extract(p) PROVE SeenInv'
  BY <1>5 DEF Extract, Fill
<1>6. ASSUME NEW p \in Processes, store_archive(p) PROVE SeenInv'
  BY <1>6 DEF store_archive, Fill
<1>7. ASSUME NEW p \in Processes, WriteMarker(p) PROVE SeenInv'
  BY <1>7 DEF WriteMarker, Fill
<1>8. ASSUME NEW p \in Processes, IOError(p) PROVE SeenInv'
  BY <1>8 DEF IOError, Return
<1>9. ASSUME NEW p \in Processes, Rename(p) PROVE SeenInv'
  <2>1. CASE Publish(p) /\ staging[p] # Null /\ UNCHANGED <<content, marked, deleted>>
    <3>1. Complete(staging[p]) BY <1>9, <2>1 DEF Rename
    <3>2. \A q \in Processes : seen'[q] <=> seen[q] \/ (Calling(q) /\ Complete(staging[p]))
      BY <2>1 DEF Publish
    <3> QED BY <1>9, <2>1, <3>1, <3>2 DEF Publish, Rename
  <2>2. CASE UNCHANGED <<entry, seen, marked>>
    BY <1>9, <2>2 DEF Rename, Publish
  <2> QED BY <1>9, <2>1, <2>2 DEF Rename
<1>10. ASSUME NEW p \in Processes, RenameRefused(p) PROVE SeenInv'
  BY <1>10 DEF RenameRefused
<1>11. ASSUME NEW p \in Processes, Stat(p) PROVE SeenInv'
  BY <1>11 DEF Stat, Continue, Return
<1>12. ASSUME NEW p \in Processes, Exchange(p) PROVE SeenInv'
  <2>1. CASE Publish(p) /\ staging[p] # Null /\ UNCHANGED <<content, marked, deleted>>
    <3>1. Complete(staging[p]) BY <1>12, <2>1 DEF Exchange
    <3>2. \A q \in Processes : seen'[q] <=> seen[q] \/ (Calling(q) /\ Complete(staging[p]))
      BY <2>1 DEF Publish
    <3> QED BY <1>12, <2>1, <3>1, <3>2 DEF Publish, Exchange
  <2>2. CASE UNCHANGED <<entry, seen, marked>>
    BY <1>12, <2>2 DEF Exchange, Publish, Continue, Return
  <2> QED BY <1>12, <2>1, <2>2 DEF Exchange
<1>13. ASSUME NEW p \in Processes, Load(p) PROVE SeenInv'
  BY <1>13 DEF Load
<1>14. ASSUME NEW p \in Processes, Crash(p) PROVE SeenInv'
  BY <1>14 DEF Crash
<1>15. CASE UNCHANGED vars BY <1>15 DEF vars
<1> QED BY <1>1, <1>2, <1>3, <1>4, <1>5, <1>6, <1>7, <1>8, <1>9, <1>10, <1>11, <1>12,
  <1>13, <1>14, <1>15 DEF Next, Step

\* Rounds are paid for by disappearances.
LEMMA RoundStep ==
  ASSUME TypeOK, PlaceInv, ContentInv, RoundInv, ErrorsExplained, [Next]_vars
  PROVE  RoundInv' /\ ErrorsExplained'
<1> USE TreesAssumption, TriesAssumption, RefusedAssumption
  DEF TypeOK, PlaceInv, Private, ContentInv, RoundInv, ErrorsExplained, HasFiles,
      Complete, Trees, Parts, Before, Ready, Checks, Done, Calling, outside
<1>1. CASE Meddle BY <1>1 DEF Meddle
<1>2. ASSUME NEW p \in Processes, Begin(p) PROVE RoundInv' /\ ErrorsExplained'
  BY <1>2 DEF Begin
<1>3. ASSUME NEW p \in Processes, CheckMarker(p) PROVE RoundInv' /\ ErrorsExplained'
  BY <1>3 DEF CheckMarker, Reject, AfterReject, Return
<1>4. ASSUME NEW p \in Processes, CheckFiles(p) PROVE RoundInv' /\ ErrorsExplained'
  BY <1>4 DEF CheckFiles, Reject, AfterReject, Return
<1>5. ASSUME NEW p \in Processes, Extract(p) PROVE RoundInv' /\ ErrorsExplained'
  BY <1>5 DEF Extract, Fill
<1>6. ASSUME NEW p \in Processes, store_archive(p) PROVE RoundInv' /\ ErrorsExplained'
  BY <1>6 DEF store_archive, Fill
<1>7. ASSUME NEW p \in Processes, WriteMarker(p) PROVE RoundInv' /\ ErrorsExplained'
  BY <1>7 DEF WriteMarker, Fill
<1>8. ASSUME NEW p \in Processes, IOError(p) PROVE RoundInv' /\ ErrorsExplained'
  BY <1>8 DEF IOError, Return
<1>9. ASSUME NEW p \in Processes, Rename(p) PROVE RoundInv' /\ ErrorsExplained'
  BY <1>9 DEF Rename, Publish
<1>10. ASSUME NEW p \in Processes, RenameRefused(p) PROVE RoundInv' /\ ErrorsExplained'
  BY <1>10 DEF RenameRefused
<1>11. ASSUME NEW p \in Processes, Stat(p) PROVE RoundInv' /\ ErrorsExplained'
  BY <1>11 DEF Stat, Continue, Return
<1>12. ASSUME NEW p \in Processes, Exchange(p) PROVE RoundInv' /\ ErrorsExplained'
  BY <1>12 DEF Exchange, Publish, Continue, Return
<1>13. ASSUME NEW p \in Processes, Load(p) PROVE RoundInv' /\ ErrorsExplained'
  BY <1>13 DEF Load
<1>14. ASSUME NEW p \in Processes, Crash(p) PROVE RoundInv' /\ ErrorsExplained'
  BY <1>14 DEF Crash
<1>15. CASE UNCHANGED vars BY <1>15 DEF vars
<1> QED BY <1>1, <1>2, <1>3, <1>4, <1>5, <1>6, <1>7, <1>8, <1>9, <1>10, <1>11, <1>12,
  <1>13, <1>14, <1>15 DEF Next, Step

-----------------------------------------------------------------------------
\* The initial states satisfy the invariant.
LEMMA InitInv == Init => IInv
<1> SUFFICES ASSUME Init PROVE IInv OBVIOUS
<1> USE TreesAssumption, TriesAssumption, RefusedAssumption
    DEF Init, Trees, Parts, Checks, Done
<1>1. TypeOK BY DEF TypeOK
<1>2. PlaceInv BY DEF PlaceInv, Private, Before, Ready
<1>3. ContentInv BY DEF ContentInv, Ready
<1>4. PublishedComplete BY DEF PublishedComplete
<1>5. MappedFilesKept BY DEF MappedFilesKept
<1>6. SeenInv BY DEF SeenInv, Calling
<1>7. RoundInv BY DEF RoundInv
<1>8. ErrorsExplained BY DEF ErrorsExplained
<1> QED BY <1>1, <1>2, <1>3, <1>4, <1>5, <1>6, <1>7, <1>8 DEF IInv

\* Every step keeps the invariant.
LEMMA StepInv == IInv /\ [Next]_vars => IInv'
<1> SUFFICES ASSUME IInv, [Next]_vars PROVE IInv' OBVIOUS
<1>1. /\ TypeOK /\ PlaceInv /\ ContentInv /\ PublishedComplete
      /\ MappedFilesKept /\ SeenInv /\ RoundInv /\ ErrorsExplained
  BY DEF IInv
<1>2. TypeOK' BY <1>1, TypeStep
<1>3. PlaceInv' /\ MappedFilesKept' BY <1>1, PlaceStep
<1>4. ContentInv' /\ PublishedComplete' BY <1>1, ContentStep
<1>5. SeenInv' BY <1>1, SeenStep
<1>6. RoundInv' /\ ErrorsExplained' BY <1>1, RoundStep
<1> QED BY <1>2, <1>3, <1>4, <1>5, <1>6 DEF IInv

\* The inductive invariant holds in every reachable state.
THEOREM CacheInvariant == Spec => []IInv
<1> QED BY InitInv, StepInv, PTL DEF Spec

\* Every reachable state is of the types the module declares.
THEOREM CacheTypes == Spec => []TypeOK
<1>1. IInv => TypeOK BY DEF IInv
<1> QED BY <1>1, CacheInvariant, PTL

\* The files a process has mapped are never removed by the crate.
THEOREM MappedFiles == Spec => []MappedFilesKept
<1>1. IInv => MappedFilesKept BY DEF IInv
<1> QED BY <1>1, CacheInvariant, PTL

\* What the crate publishes is complete.
THEOREM CompleteEntries == Spec => []PublishedComplete
<1>1. IInv => PublishedComplete BY DEF IInv
<1> QED BY <1>1, CacheInvariant, PTL

\* ensure fails without an I/O error of its own only if outsiders interfered.
THEOREM ExplainedErrors == Spec => []ErrorsExplained
<1>1. IInv => ErrorsExplained BY DEF IInv
<1> QED BY <1>1, CacheInvariant, PTL

\* No step of a publisher opens a gap in a complete entry.
LEMMA NoGapStep ==
  ASSUME TypeOK, PlaceInv, ContentInv, [Next]_vars, meddled' = meddled, Complete(entry)
  PROVE  Complete(entry)'
<1> USE TreesAssumption DEF TypeOK, PlaceInv, Private, ContentInv, Complete, Trees,
  Parts, Before, Ready, Checks, Done, Calling, outside
<1>1. CASE Meddle BY <1>1 DEF Meddle
<1>2. ASSUME NEW p \in Processes, Begin(p) PROVE Complete(entry)'
  BY <1>2 DEF Begin
<1>3. ASSUME NEW p \in Processes, CheckMarker(p) PROVE Complete(entry)'
  BY <1>3 DEF CheckMarker, Reject, AfterReject, Return
<1>4. ASSUME NEW p \in Processes, CheckFiles(p) PROVE Complete(entry)'
  BY <1>4 DEF CheckFiles, Reject, AfterReject, Return
<1>5. ASSUME NEW p \in Processes, Extract(p) PROVE Complete(entry)'
  BY <1>5 DEF Extract, Fill
<1>6. ASSUME NEW p \in Processes, store_archive(p) PROVE Complete(entry)'
  BY <1>6 DEF store_archive, Fill
<1>7. ASSUME NEW p \in Processes, WriteMarker(p) PROVE Complete(entry)'
  BY <1>7 DEF WriteMarker, Fill
<1>8. ASSUME NEW p \in Processes, IOError(p) PROVE Complete(entry)'
  BY <1>8 DEF IOError, Return
<1>9. ASSUME NEW p \in Processes, Rename(p) PROVE Complete(entry)'
  BY <1>9 DEF Rename, Publish
<1>10. ASSUME NEW p \in Processes, RenameRefused(p) PROVE Complete(entry)'
  BY <1>10 DEF RenameRefused
<1>11. ASSUME NEW p \in Processes, Stat(p) PROVE Complete(entry)'
  BY <1>11 DEF Stat, Continue, Return
<1>12. ASSUME NEW p \in Processes, Exchange(p) PROVE Complete(entry)'
  BY <1>12 DEF Exchange, Publish, Continue, Return
<1>13. ASSUME NEW p \in Processes, Load(p) PROVE Complete(entry)'
  BY <1>13 DEF Load
<1>14. ASSUME NEW p \in Processes, Crash(p) PROVE Complete(entry)'
  BY <1>14 DEF Crash
<1>15. CASE UNCHANGED vars BY <1>15 DEF vars
<1> QED BY <1>1, <1>2, <1>3, <1>4, <1>5, <1>6, <1>7, <1>8, <1>9, <1>10, <1>11, <1>12,
  <1>13, <1>14, <1>15 DEF Next, Step

\* A complete entry stays complete and in place unless outsiders touch it.
THEOREM EntryStays == Spec => NoGap
<1>1. IInv /\ [Next]_vars => [meddled' = meddled /\ Complete(entry) => Complete(entry)']_vars
  BY NoGapStep DEF IInv
<1> QED BY <1>1, CacheInvariant, PTL DEF Spec, NoGap

-----------------------------------------------------------------------------
(* The refinement.                                                         *)

\* A step by which one process moves on or answers, changing nothing else that
\* CacheEntry speaks of.
Internal(p) ==
  /\ Calling(p)
  /\ seen' = seen
  /\ Complete(entry)' = Complete(entry)
  /\ \E x : pc' = [pc EXCEPT ![p] = x] /\ x # "idle" /\ (x = "path" => seen[p])

\* Such a step is an answer or a stutter.
LEMMA InternalStep ==
  ASSUME TypeOK, NEW p \in Processes, Internal(p)
  PROVE  [Promise!Next]_(Promise!vars)
<1>1. PICK x : pc' = [pc EXCEPT ![p] = x] /\ x # "idle" /\ (x = "path" => seen[p])
  BY DEF Internal
<1>2. answer[p] = "working" BY DEF Internal, Calling, answer, AnswerOf, Done
<1>3. pc'[p] = x /\ \A q \in Processes : q # p => pc'[q] = pc[q]
  BY <1>1 DEF TypeOK
<1>4. AnswerOf(x) \in {"working", "path", "error"} /\ (AnswerOf(x) = "path" => seen[p])
  BY <1>1 DEF AnswerOf, Done
<1>5. answer' = [answer EXCEPT ![p] = AnswerOf(x)]
  BY <1>3 DEF answer
<1>6. answer = [answer EXCEPT ![p] = "working"]
  BY <1>2 DEF answer
<1>7. CASE AnswerOf(x) = "working"
  <2>1. answer' = answer BY <1>5, <1>6, <1>7
  <2> QED BY <2>1 DEF Internal, Promise!vars
<1>8. CASE AnswerOf(x) \in {"path", "error"}
  <2>1. Promise!Answer(p)
    BY <1>2, <1>4, <1>5, <1>8 DEF Internal, Promise!Answer
  <2> QED BY <2>1 DEF Promise!Next
<1> QED BY <1>4, <1>7, <1>8

\* A step that puts a complete tree at the entry path is a publication.
LEMMA PublishStep ==
  ASSUME TypeOK, NEW p \in Processes, Calling(p), Publish(p), UNCHANGED content,
         Complete(staging[p])
  PROVE  Promise!Publish
<1>1. Complete(entry)' BY DEF Publish, Complete
<1>2. Complete(entry)' \in BOOLEAN /\ Complete(staging[p]) \in BOOLEAN BY DEF Complete
<1>3. Complete(entry)' = TRUE BY <1>1, <1>2
<1>4. \A q \in Processes : Calling(q) <=> answer[q] = "working"
  BY DEF answer, AnswerOf, Calling, Done, TypeOK
<1>5. seen' = [q \in Processes |-> seen[q] \/ answer[q] = "working"]
  <2>1. seen' = [q \in Processes |-> seen[q] \/ (Calling(q) /\ Complete(staging[p]))]
    BY DEF Publish
  <2>2. \A q \in Processes :
          (seen[q] \/ (Calling(q) /\ Complete(staging[p]))) = (seen[q] \/ answer[q] = "working")
    BY <1>4
  <2> QED BY <2>1, <2>2
<1>6. answer' = answer
  <2>1. pc' = [pc EXCEPT ![p] = "published"] BY DEF Publish
  <2>2. AnswerOf(pc[p]) = AnswerOf("published")
    BY DEF AnswerOf, Calling, Done
  <2>3. \A q \in Processes : AnswerOf(pc'[q]) = AnswerOf(pc[q])
    BY <2>1, <2>2 DEF TypeOK
  <2> QED BY <2>3 DEF answer
<1> QED BY <1>3, <1>5, <1>6 DEF Promise!Publish

\* Every step of NativeCache is a step or a stutter of CacheEntry.
LEMMA Implements ==
  ASSUME IInv, [Next]_vars
  PROVE  [Promise!Next]_(Promise!vars)
<1> USE TreesAssumption, TriesAssumption, RefusedAssumption
<1>1. IInv' BY StepInv
<1>2. /\ TypeOK /\ PlaceInv /\ ContentInv /\ SeenInv
      /\ TypeOK' /\ SeenInv'
  BY <1>1 DEF IInv
<1>3. CASE Meddle
  <2>1. Complete(entry)' => Complete(entry)
    BY <1>2, <1>3 DEF Meddle, TypeOK, Complete, Trees
  <2>2. Complete(entry)' \in BOOLEAN /\ Complete(entry) \in BOOLEAN BY DEF Complete
  <2>3. answer' = answer /\ seen' = seen BY <1>3 DEF Meddle, answer
  <2>4. CASE Complete(entry)' = Complete(entry) BY <2>3, <2>4 DEF Promise!vars
  <2>5. CASE Complete(entry)' = FALSE BY <2>3, <2>5 DEF Promise!Next, Promise!Break
  <2>6. Complete(entry)' = Complete(entry) \/ Complete(entry)' = FALSE BY <2>1, <2>2
  <2> QED BY <2>4, <2>5, <2>6
<1>4. ASSUME NEW p \in Processes, Begin(p) PROVE [Promise!Next]_(Promise!vars)
  <2>1. Complete(entry)' = Complete(entry) BY <1>4 DEF Begin, Complete
  <2>2. pc[p] = "idle" /\ pc' = [pc EXCEPT ![p] = "ensure"] /\ seen' = [seen EXCEPT ![p] = Complete(entry)]
    BY <1>4 DEF Begin
  <2>3. answer[p] = "idle" BY <2>2 DEF answer, AnswerOf
  <2>4. answer' = [answer EXCEPT ![p] = "working"]
    <3>1. AnswerOf("ensure") = "working" BY DEF AnswerOf, Done
    <3> QED BY <1>2, <2>2, <3>1 DEF answer, TypeOK
  <2>5. Promise!Begin(p) BY <2>1, <2>2, <2>3, <2>4 DEF Promise!Begin
  <2> QED BY <2>5 DEF Promise!Next
<1>5. ASSUME NEW p \in Processes, CheckMarker(p) PROVE [Promise!Next]_(Promise!vars)
  <2>1. Complete(entry)' <=> Complete(entry)
    BY <1>5, <1>2 DEF CheckMarker, Reject, AfterReject, Return, TypeOK, PlaceInv,
        Private, ContentInv, Complete, Trees, Parts, Before, Ready, Checks, Done,
            Calling, outside
  <2>2. (Complete(entry)' = Complete(entry)) /\ seen' = seen
    <3>1. Complete(entry)' \in BOOLEAN /\ Complete(entry) \in BOOLEAN BY DEF Complete
    <3> QED BY <1>5, <2>1, <3>1 DEF CheckMarker, Reject, AfterReject, Return
  <2>3. pc' = [pc EXCEPT ![p] = pc'[p]] /\ pc'[p] # "idle" /\ Calling(p)
    BY <1>5, <1>2 DEF CheckMarker, Reject, AfterReject, Return, TypeOK, Calling, Checks,
        Done
  <2>4. pc'[p] = "path" => seen[p] BY <1>2, <2>2 DEF SeenInv
  <2> QED BY <1>2, <2>2, <2>3, <2>4, InternalStep DEF Internal
<1>6. ASSUME NEW p \in Processes, CheckFiles(p) PROVE [Promise!Next]_(Promise!vars)
  <2>1. Complete(entry)' <=> Complete(entry)
    BY <1>6, <1>2 DEF CheckFiles, Reject, AfterReject, Return, TypeOK, PlaceInv, Private,
        ContentInv, Complete, Trees, Parts, Before, Ready, Checks, Done, Calling, outside
  <2>2. (Complete(entry)' = Complete(entry)) /\ seen' = seen
    <3>1. Complete(entry)' \in BOOLEAN /\ Complete(entry) \in BOOLEAN BY DEF Complete
    <3> QED BY <1>6, <2>1, <3>1 DEF CheckFiles, Reject, AfterReject, Return
  <2>3. pc' = [pc EXCEPT ![p] = pc'[p]] /\ pc'[p] # "idle" /\ Calling(p)
    BY <1>6, <1>2 DEF CheckFiles, Reject, AfterReject, Return, TypeOK, Calling, Checks,
        Done
  <2>4. pc'[p] = "path" => seen[p] BY <1>2, <2>2 DEF SeenInv
  <2> QED BY <1>2, <2>2, <2>3, <2>4, InternalStep DEF Internal
<1>7. ASSUME NEW p \in Processes, Extract(p) PROVE [Promise!Next]_(Promise!vars)
  <2>1. Complete(entry)' <=> Complete(entry)
    BY <1>7, <1>2 DEF Extract, Fill, TypeOK, PlaceInv, Private, ContentInv, Complete,
        Trees, Parts, Before, Ready, Checks, Done, Calling, outside
  <2>2. (Complete(entry)' = Complete(entry)) /\ seen' = seen
    <3>1. Complete(entry)' \in BOOLEAN /\ Complete(entry) \in BOOLEAN BY DEF Complete
    <3> QED BY <1>7, <2>1, <3>1 DEF Extract, Fill
  <2>3. pc' = [pc EXCEPT ![p] = pc'[p]] /\ pc'[p] # "idle" /\ Calling(p)
    BY <1>7, <1>2 DEF Extract, Fill, TypeOK, Calling, Checks, Done
  <2>4. pc'[p] = "path" => seen[p] BY <1>2, <2>2 DEF SeenInv
  <2> QED BY <1>2, <2>2, <2>3, <2>4, InternalStep DEF Internal
<1>8. ASSUME NEW p \in Processes, store_archive(p) PROVE [Promise!Next]_(Promise!vars)
  <2>1. Complete(entry)' <=> Complete(entry)
    BY <1>8, <1>2 DEF store_archive, Fill, TypeOK, PlaceInv, Private, ContentInv,
        Complete, Trees, Parts, Before, Ready, Checks, Done, Calling, outside
  <2>2. (Complete(entry)' = Complete(entry)) /\ seen' = seen
    <3>1. Complete(entry)' \in BOOLEAN /\ Complete(entry) \in BOOLEAN BY DEF Complete
    <3> QED BY <1>8, <2>1, <3>1 DEF store_archive, Fill
  <2>3. pc' = [pc EXCEPT ![p] = pc'[p]] /\ pc'[p] # "idle" /\ Calling(p)
    BY <1>8, <1>2 DEF store_archive, Fill, TypeOK, Calling, Checks, Done
  <2>4. pc'[p] = "path" => seen[p] BY <1>2, <2>2 DEF SeenInv
  <2> QED BY <1>2, <2>2, <2>3, <2>4, InternalStep DEF Internal
<1>9. ASSUME NEW p \in Processes, WriteMarker(p) PROVE [Promise!Next]_(Promise!vars)
  <2>1. Complete(entry)' <=> Complete(entry)
    BY <1>9, <1>2 DEF WriteMarker, Fill, TypeOK, PlaceInv, Private, ContentInv, Complete,
        Trees, Parts, Before, Ready, Checks, Done, Calling, outside
  <2>2. (Complete(entry)' = Complete(entry)) /\ seen' = seen
    <3>1. Complete(entry)' \in BOOLEAN /\ Complete(entry) \in BOOLEAN BY DEF Complete
    <3> QED BY <1>9, <2>1, <3>1 DEF WriteMarker, Fill
  <2>3. pc' = [pc EXCEPT ![p] = pc'[p]] /\ pc'[p] # "idle" /\ Calling(p)
    BY <1>9, <1>2 DEF WriteMarker, Fill, TypeOK, Calling, Checks, Done
  <2>4. pc'[p] = "path" => seen[p] BY <1>2, <2>2 DEF SeenInv
  <2> QED BY <1>2, <2>2, <2>3, <2>4, InternalStep DEF Internal
<1>10. ASSUME NEW p \in Processes, IOError(p) PROVE [Promise!Next]_(Promise!vars)
  <2>1. Complete(entry)' <=> Complete(entry)
    BY <1>10, <1>2 DEF IOError, Return, TypeOK, PlaceInv, Private, ContentInv, Complete,
        Trees, Parts, Before, Ready, Checks, Done, Calling, outside
  <2>2. (Complete(entry)' = Complete(entry)) /\ seen' = seen
    <3>1. Complete(entry)' \in BOOLEAN /\ Complete(entry) \in BOOLEAN BY DEF Complete
    <3> QED BY <1>10, <2>1, <3>1 DEF IOError, Return
  <2>3. pc' = [pc EXCEPT ![p] = pc'[p]] /\ pc'[p] # "idle" /\ Calling(p)
    BY <1>10, <1>2 DEF IOError, Return, TypeOK, Calling, Checks, Done
  <2>4. pc'[p] = "path" => seen[p] BY <1>2, <2>2 DEF SeenInv
  <2> QED BY <1>2, <2>2, <2>3, <2>4, InternalStep DEF Internal
<1>11. ASSUME NEW p \in Processes, Rename(p) PROVE [Promise!Next]_(Promise!vars)
  <2>1. Calling(p) BY <1>11 DEF Rename, Calling, Done
  <2>2. CASE Publish(p) /\ staging[p] # Null /\ UNCHANGED content
    <3>1. Complete(staging[p]) BY <1>11, <1>2, <2>2
      DEF Rename, TypeOK, PlaceInv, Private, ContentInv, Complete, Trees, Parts, Before,
          Ready, Checks, Done, Calling, outside
    <3> QED BY <1>2, <2>1, <2>2, <3>1, PublishStep DEF Promise!Next
  <2>3. CASE UNCHANGED <<entry, seen>>
    <3>1. Complete(entry)' <=> Complete(entry)
      BY <1>11, <1>2, <2>3 DEF Rename, Publish, TypeOK, PlaceInv, Private, ContentInv,
          Complete, Trees, Parts, Before, Ready, Checks, Done, Calling, outside
    <3>2. Complete(entry)' = Complete(entry)
      <4>1. Complete(entry)' \in BOOLEAN /\ Complete(entry) \in BOOLEAN BY DEF Complete
      <4> QED BY <3>1, <4>1
    <3>3. pc' = [pc EXCEPT ![p] = pc'[p]] /\ pc'[p] # "idle"
      BY <1>11, <1>2 DEF Rename, Publish, TypeOK
    <3>4. pc'[p] = "path" => seen[p] BY <1>2, <2>3 DEF SeenInv
    <3> QED BY <1>2, <2>1, <2>3, <3>2, <3>3, <3>4, InternalStep DEF Internal
  <2> QED BY <1>11, <2>2, <2>3 DEF Rename
<1>12. ASSUME NEW p \in Processes, RenameRefused(p) PROVE [Promise!Next]_(Promise!vars)
  <2>1. Complete(entry)' <=> Complete(entry)
    BY <1>12, <1>2 DEF RenameRefused, TypeOK, PlaceInv, Private, ContentInv, Complete,
        Trees, Parts, Before, Ready, Checks, Done, Calling, outside
  <2>2. (Complete(entry)' = Complete(entry)) /\ seen' = seen
    <3>1. Complete(entry)' \in BOOLEAN /\ Complete(entry) \in BOOLEAN BY DEF Complete
    <3> QED BY <1>12, <2>1, <3>1 DEF RenameRefused
  <2>3. pc' = [pc EXCEPT ![p] = pc'[p]] /\ pc'[p] # "idle" /\ Calling(p)
    BY <1>12, <1>2 DEF RenameRefused, TypeOK, Calling, Checks, Done
  <2>4. pc'[p] = "path" => seen[p] BY <1>2, <2>2 DEF SeenInv
  <2> QED BY <1>2, <2>2, <2>3, <2>4, InternalStep DEF Internal
<1>13. ASSUME NEW p \in Processes, Stat(p) PROVE [Promise!Next]_(Promise!vars)
  <2>1. Complete(entry)' <=> Complete(entry)
    BY <1>13, <1>2 DEF Stat, Continue, Return, TypeOK, PlaceInv, Private, ContentInv,
        Complete, Trees, Parts, Before, Ready, Checks, Done, Calling, outside
  <2>2. (Complete(entry)' = Complete(entry)) /\ seen' = seen
    <3>1. Complete(entry)' \in BOOLEAN /\ Complete(entry) \in BOOLEAN BY DEF Complete
    <3> QED BY <1>13, <2>1, <3>1 DEF Stat, Continue, Return
  <2>3. pc' = [pc EXCEPT ![p] = pc'[p]] /\ pc'[p] # "idle" /\ Calling(p)
    BY <1>13, <1>2 DEF Stat, Continue, Return, TypeOK, Calling, Checks, Done
  <2>4. pc'[p] = "path" => seen[p] BY <1>2, <2>2 DEF SeenInv
  <2> QED BY <1>2, <2>2, <2>3, <2>4, InternalStep DEF Internal
<1>14. ASSUME NEW p \in Processes, Exchange(p) PROVE [Promise!Next]_(Promise!vars)
  <2>1. Calling(p) BY <1>14 DEF Exchange, Calling, Done
  <2>2. CASE Publish(p) /\ staging[p] # Null /\ UNCHANGED content
    <3>1. Complete(staging[p]) BY <1>14, <1>2, <2>2
      DEF Exchange, TypeOK, PlaceInv, Private, ContentInv, Complete, Trees, Parts,
          Before, Ready, Checks, Done, Calling, outside
    <3> QED BY <1>2, <2>1, <2>2, <3>1, PublishStep DEF Promise!Next
  <2>3. CASE UNCHANGED <<entry, seen>>
    <3>1. Complete(entry)' <=> Complete(entry)
      BY <1>14, <1>2, <2>3 DEF Exchange, Publish, Continue, Return, TypeOK, PlaceInv,
          Private, ContentInv, Complete, Trees, Parts, Before, Ready, Checks, Done,
              Calling, outside
    <3>2. Complete(entry)' = Complete(entry)
      <4>1. Complete(entry)' \in BOOLEAN /\ Complete(entry) \in BOOLEAN BY DEF Complete
      <4> QED BY <3>1, <4>1
    <3>3. pc' = [pc EXCEPT ![p] = pc'[p]] /\ pc'[p] # "idle"
      BY <1>14, <1>2 DEF Exchange, Publish, Continue, Return, TypeOK
    <3>4. pc'[p] = "path" => seen[p] BY <1>2, <2>3 DEF SeenInv
    <3> QED BY <1>2, <2>1, <2>3, <3>2, <3>3, <3>4, InternalStep DEF Internal
  <2> QED BY <1>14, <2>2, <2>3 DEF Exchange
<1>15. ASSUME NEW p \in Processes, Load(p) PROVE [Promise!Next]_(Promise!vars)
  <2>1. Complete(entry)' = Complete(entry) BY <1>15 DEF Load, Complete
  <2> QED BY <1>15, <2>1 DEF Load, answer, Promise!vars
<1>16. ASSUME NEW p \in Processes, Crash(p) PROVE [Promise!Next]_(Promise!vars)
  <2>1. Complete(entry)' <=> Complete(entry)
    BY <1>16, <1>2 DEF Crash, TypeOK, PlaceInv, Private, ContentInv, Complete, Trees,
        Parts, Before, Ready, Checks, Done, Calling, outside
  <2>2. (Complete(entry)' = Complete(entry)) /\ seen' = seen
    <3>1. Complete(entry)' \in BOOLEAN /\ Complete(entry) \in BOOLEAN BY DEF Complete
    <3> QED BY <1>16, <2>1, <3>1 DEF Crash
  <2>3. pc' = [pc EXCEPT ![p] = pc'[p]] /\ pc'[p] # "idle" /\ Calling(p)
    BY <1>16, <1>2 DEF Crash, TypeOK, Calling, Checks, Done
  <2>4. pc'[p] = "path" => seen[p] BY <1>2, <2>2 DEF SeenInv
  <2> QED BY <1>2, <2>2, <2>3, <2>4, InternalStep DEF Internal
<1>17. CASE UNCHANGED vars
  <2>1. Complete(entry)' = Complete(entry) BY <1>17 DEF vars, Complete
  <2> QED BY <1>17, <2>1 DEF vars, answer, Promise!vars
<1> QED BY <1>3, <1>4, <1>5, <1>6, <1>7, <1>8, <1>9, <1>10, <1>11, <1>12, <1>13, <1>14,
  <1>15, <1>16, <1>17 DEF Next, Step

\* The cache keeps its promise: for any number of publishers and outsiders.
THEOREM CacheImplementsEntry == Spec => KeepsPromise
<1>1. Init => Promise!Init
  <2> SUFFICES ASSUME Init PROVE Promise!Init OBVIOUS
  <2>1. Complete(entry) \in BOOLEAN BY DEF Complete
  <2>2. answer = [p \in Processes |-> "idle"] BY DEF Init, answer, AnswerOf
  <2>3. seen = [p \in Processes |-> FALSE] BY DEF Init
  <2> QED BY <2>1, <2>2, <2>3 DEF Promise!Init
<1>2. IInv /\ [Next]_vars => [Promise!Next]_(Promise!vars) BY Implements
<1> QED BY <1>1, <1>2, CacheInvariant, PTL DEF Spec, KeepsPromise, Promise!Spec

-----------------------------------------------------------------------------
(* On Windows: GenerationCache, for any number of publishers and meddling.   *)

\* Where a call has not yet made a whole generation of its own.
Unmarked == {"idle", "ensure", "extract", "first", "rename", "stat", "second", "hold",
    "bundle"}
GenStates == Unmarked \cup {"mark", "archive", "last"} \cup W!Done

GenTypes ==
  /\ wpc \in [Processes -> GenStates]
  /\ present \in BOOLEAN
  /\ marker \in W!Places \cup {Null} /\ there \subseteq W!Places /\ whole \subseteq there
  /\ following \in [Processes -> W!Places \cup {Null}]
  /\ wmeddled \in Nat /\ wseen \in [Processes -> BOOLEAN]

\* A generation holds nothing, is named by no inventory and is followed by nobody until
\* its owner has moved a bundle into it and published that.
GenPlaceInv ==
  /\ ~present => there = {} /\ marker = Null
  /\ \A p \in Processes :
       /\ wpc[p] \in Unmarked => p \notin whole
       /\ wpc[p] \in Unmarked \cup {"mark"} =>
            marker # p /\ \A q \in Processes : following[q] # p
       /\ following[p] # Null => wpc[p] \in W!Checks \cup {"path", "crashed"}

\* seen is up to date, also for a reader between the inventory and the files it lists.
GenSeenInv ==
  \A p \in Processes :
    /\ W!Calling(p) /\ W!Complete => wseen[p]
    /\ wpc[p] \in W!Checks /\ following[p] \in whole => wseen[p]
    /\ wpc[p] = "path" => wseen[p]

\* While nobody meddles, what .complete named once stays whole for those who follow it.
GenKeptInv ==
  wmeddled = 0 =>
    /\ marker \in Processes => marker \in whole
    /\ \A p \in Processes :
         /\ wpc[p] \in {"mark", "archive"} => p \in whole
         /\ wpc[p] \in {"archive", "last"} => marker \in whole
         /\ wpc[p] = "last" /\ following[p] # Null => following[p] \in whole
         /\ wpc[p] = "path" => following[p] \in whole
         /\ wpc[p] # "invalid"

GenIInv == GenTypes /\ GenPlaceInv /\ GenSeenInv /\ GenKeptInv

\* The invariant holds initially, whatever an earlier release left in the entry.
LEMMA GenInitInv == W!Init => GenIInv
BY RootAssumption, TreesAssumption DEF W!Init, GenIInv, GenTypes, GenPlaceInv, GenSeenInv,
    GenKeptInv, W!Places, GenStates, Unmarked, W!Done, W!Checks, W!Calling, W!Complete

\* Outsiders only remove.
LEMMA GenMeddleKeeps ==
  ASSUME GenTypes, GenPlaceInv, W!Meddle
  PROVE  /\ UNCHANGED <<wpc, following, wseen>> /\ wmeddled' \in Nat /\ wmeddled' # 0
         /\ whole' \subseteq whole /\ there' \subseteq there /\ whole' \subseteq there'
         /\ marker' \in {marker, Null} /\ present' \in BOOLEAN
         /\ ~present' => there' = {} /\ marker' = Null
<1>1. UNCHANGED <<wpc, following, wseen>> /\ wmeddled' \in Nat /\ wmeddled' # 0
  BY DEF W!Meddle, GenTypes
<1>2. ASSUME NEW place \in there, whole' = whole \ {place}, there' \in {there, there \ {place}}
      PROVE  whole' \subseteq whole /\ there' \subseteq there /\ whole' \subseteq there'
  BY <1>2 DEF GenTypes
<1> QED BY <1>1, <1>2 DEF W!Meddle, GenTypes, GenPlaceInv

\* Every step keeps the types.
LEMMA GenTypeStep == GenTypes /\ GenPlaceInv /\ [W!Next]_(W!vars) => GenTypes'
<1> SUFFICES ASSUME GenTypes, GenPlaceInv, [W!Next]_(W!vars) PROVE GenTypes' OBVIOUS
<1> USE RootAssumption, TreesAssumption, TreesAssumption
    DEF GenTypes, W!disk, W!Goto, W!Places, GenStates, Unmarked, W!Done, W!Checks
<1>1. CASE W!Meddle BY <1>1, GenMeddleKeeps DEF GenTypes
<1>2. ASSUME NEW p \in Processes, W!Begin(p) PROVE GenTypes'
  <2>1. W!Complete \in BOOLEAN BY DEF W!Complete
  <2>2. wseen' \in [Processes -> BOOLEAN] BY <1>2, <2>1, Zenon DEF W!Begin
  <2> QED BY <1>2, <2>2 DEF W!Begin
<1>3. ASSUME NEW p \in Processes, W!CheckMarker(p) PROVE GenTypes'
  BY <1>3 DEF W!CheckMarker, W!AfterReject
<1>4. ASSUME NEW p \in Processes, W!CheckFiles(p) PROVE GenTypes'
  BY <1>4 DEF W!CheckFiles, W!AfterReject
<1>5. ASSUME NEW p \in Processes, W!Extract(p) \/ W!RenameRefused(p) \/ W!IsDir(p)
    PROVE GenTypes'
  BY <1>5 DEF W!Extract, W!RenameRefused, W!IsDir
<1>6. ASSUME NEW p \in Processes, W!Rename(p) PROVE GenTypes'
  <2>1. wseen' = [q \in Processes |-> wseen[q] \/ (W!Calling(q) /\ Root \in whole')]
    BY <1>6 DEF W!Rename, W!Publish
  <2>2. wseen' \in [Processes -> BOOLEAN] BY <2>1, Zenon
  <2> QED BY <1>6, <2>2 DEF W!Rename, W!Publish
<1>7. ASSUME NEW p \in Processes, W!PublishMarker(p) PROVE GenTypes'
  <2>1. wseen' = [q \in Processes |-> wseen[q] \/ (W!Calling(q) /\ p \in whole')]
    BY <1>7 DEF W!PublishMarker, W!Publish
  <2>2. wseen' \in [Processes -> BOOLEAN] BY <2>1, Zenon
  <2> QED BY <1>7, <2>2 DEF W!PublishMarker, W!Publish
<1>8. ASSUME NEW p \in Processes, W!Hold(p) PROVE GenTypes' BY <1>8 DEF W!Hold
<1>9. ASSUME NEW p \in Processes, W!MoveBundle(p) PROVE GenTypes' BY <1>9 DEF W!MoveBundle
<1>10. ASSUME NEW p \in Processes, W!MoveFails(p)
    PROVE GenTypes' BY <1>10 DEF W!MoveFails, GenPlaceInv
<1>11. ASSUME NEW p \in Processes, W!StoreArchive(p) \/ W!IOError(p) \/ W!Crash(p)
    PROVE GenTypes'
  BY <1>11 DEF W!StoreArchive, W!IOError, W!Crash
<1>12. CASE UNCHANGED W!vars BY <1>12 DEF W!vars
<1> QED BY <1>1, <1>2, <1>3, <1>4, <1>5, <1>6, <1>7, <1>8, <1>9, <1>10, <1>11, <1>12
    DEF W!Next, W!Step

\* Every step keeps the other parts of the invariant.
LEMMA GenStepInv ==
  GenTypes /\ GenPlaceInv /\ GenSeenInv /\ GenKeptInv /\ [W!Next]_(W!vars)
    => GenPlaceInv' /\ GenSeenInv' /\ GenKeptInv'
<1> SUFFICES ASSUME GenTypes, GenPlaceInv, GenSeenInv, GenKeptInv, [W!Next]_(W!vars)
    PROVE GenPlaceInv' /\ GenSeenInv' /\ GenKeptInv' OBVIOUS
<1> USE RootAssumption, TreesAssumption DEF GenTypes, GenPlaceInv, GenSeenInv, GenKeptInv,
    W!disk, W!Goto, W!Places, GenStates, Unmarked, W!Done, W!Checks, W!Calling, W!Complete
<1>1. CASE W!Meddle
  <2>0. /\ UNCHANGED <<wpc, following, wseen>> /\ wmeddled' # 0 /\ whole' \subseteq whole
        /\ marker' \in {marker, Null}
        /\ ~present' => there' = {} /\ marker' = Null
    BY <1>1, GenMeddleKeeps
  <2>1. GenPlaceInv' BY <2>0
  <2>2. GenSeenInv' BY <2>0
  <2>3. GenKeptInv' BY <2>0
  <2> QED BY <2>1, <2>2, <2>3
<1>2. ASSUME NEW p \in Processes, W!Begin(p) PROVE GenPlaceInv' /\ GenSeenInv' /\ GenKeptInv'
  <2>1. GenPlaceInv' BY <1>2 DEF W!Begin
  <2>2. GenSeenInv' BY <1>2 DEF W!Begin
  <2>3. GenKeptInv' BY <1>2 DEF W!Begin
  <2> QED BY <2>1, <2>2, <2>3
<1>3. ASSUME NEW p \in Processes, W!CheckMarker(p)
    PROVE GenPlaceInv' /\ GenSeenInv' /\ GenKeptInv'
  <2>1. GenPlaceInv' BY <1>3 DEF W!CheckMarker, W!AfterReject
  <2>2. GenSeenInv' BY <1>3 DEF W!CheckMarker, W!AfterReject
  <2>3. GenKeptInv' BY <1>3 DEF W!CheckMarker, W!AfterReject
  <2> QED BY <2>1, <2>2, <2>3
<1>4. ASSUME NEW p \in Processes, W!CheckFiles(p)
    PROVE GenPlaceInv' /\ GenSeenInv' /\ GenKeptInv'
  <2>1. GenPlaceInv' BY <1>4 DEF W!CheckFiles, W!AfterReject
  <2>2. GenSeenInv' BY <1>4 DEF W!CheckFiles, W!AfterReject
  <2>3. GenKeptInv' BY <1>4 DEF W!CheckFiles, W!AfterReject
  <2> QED BY <2>1, <2>2, <2>3
<1>5. ASSUME NEW p \in Processes, W!Extract(p) PROVE GenPlaceInv' /\ GenSeenInv' /\ GenKeptInv'
  <2>1. GenPlaceInv' BY <1>5 DEF W!Extract
  <2>2. GenSeenInv' BY <1>5 DEF W!Extract
  <2>3. GenKeptInv' BY <1>5 DEF W!Extract
  <2> QED BY <2>1, <2>2, <2>3
<1>6. ASSUME NEW p \in Processes, W!RenameRefused(p)
    PROVE GenPlaceInv' /\ GenSeenInv' /\ GenKeptInv'
  <2>1. GenPlaceInv' BY <1>6 DEF W!RenameRefused
  <2>2. GenSeenInv' BY <1>6 DEF W!RenameRefused
  <2>3. GenKeptInv' BY <1>6 DEF W!RenameRefused
  <2> QED BY <2>1, <2>2, <2>3
<1>7. ASSUME NEW p \in Processes, W!IsDir(p) PROVE GenPlaceInv' /\ GenSeenInv' /\ GenKeptInv'
  <2>1. GenPlaceInv' BY <1>7 DEF W!IsDir
  <2>2. GenSeenInv' BY <1>7 DEF W!IsDir
  <2>3. GenKeptInv' BY <1>7 DEF W!IsDir
  <2> QED BY <2>1, <2>2, <2>3
<1>8. ASSUME NEW p \in Processes, W!Rename(p) PROVE GenPlaceInv' /\ GenSeenInv' /\ GenKeptInv'
  <2>1. GenPlaceInv' BY <1>8 DEF W!Rename, W!Publish
  <2>2. GenSeenInv' BY <1>8 DEF W!Rename, W!Publish
  <2>3. GenKeptInv' BY <1>8 DEF W!Rename, W!Publish
  <2> QED BY <2>1, <2>2, <2>3
<1>9. ASSUME NEW p \in Processes, W!Hold(p) PROVE GenPlaceInv' /\ GenSeenInv' /\ GenKeptInv'
  <2>1. GenPlaceInv' BY <1>9 DEF W!Hold
  <2>2. GenSeenInv' BY <1>9 DEF W!Hold
  <2>3. GenKeptInv' BY <1>9 DEF W!Hold
  <2> QED BY <2>1, <2>2, <2>3
<1>10. ASSUME NEW p \in Processes, W!MoveBundle(p)
    PROVE GenPlaceInv' /\ GenSeenInv' /\ GenKeptInv'
  <2>1. GenPlaceInv' BY <1>10 DEF W!MoveBundle
  <2>2. GenSeenInv' BY <1>10 DEF W!MoveBundle
  <2>3. GenKeptInv' BY <1>10 DEF W!MoveBundle
  <2> QED BY <2>1, <2>2, <2>3
<1>11. ASSUME NEW p \in Processes, W!MoveFails(p)
    PROVE GenPlaceInv' /\ GenSeenInv' /\ GenKeptInv'
  <2>1. GenPlaceInv' BY <1>11 DEF W!MoveFails
  <2>2. GenSeenInv' BY <1>11 DEF W!MoveFails
  <2>3. GenKeptInv' BY <1>11 DEF W!MoveFails
  <2> QED BY <2>1, <2>2, <2>3
<1>12. ASSUME NEW p \in Processes, W!PublishMarker(p)
    PROVE GenPlaceInv' /\ GenSeenInv' /\ GenKeptInv'
  <2>1. GenPlaceInv' BY <1>12 DEF W!PublishMarker, W!Publish
  <2>2. GenSeenInv' BY <1>12 DEF W!PublishMarker, W!Publish
  <2>3. GenKeptInv' BY <1>12 DEF W!PublishMarker, W!Publish
  <2> QED BY <2>1, <2>2, <2>3
<1>13. ASSUME NEW p \in Processes, W!StoreArchive(p)
    PROVE GenPlaceInv' /\ GenSeenInv' /\ GenKeptInv'
  <2>1. GenPlaceInv' BY <1>13 DEF W!StoreArchive
  <2>2. GenSeenInv' BY <1>13 DEF W!StoreArchive
  <2>3. GenKeptInv' BY <1>13 DEF W!StoreArchive
  <2> QED BY <2>1, <2>2, <2>3
<1>14. ASSUME NEW p \in Processes, W!IOError(p)
    PROVE GenPlaceInv' /\ GenSeenInv' /\ GenKeptInv'
  <2>1. GenPlaceInv' BY <1>14 DEF W!IOError
  <2>2. GenSeenInv' BY <1>14 DEF W!IOError
  <2>3. GenKeptInv' BY <1>14 DEF W!IOError
  <2> QED BY <2>1, <2>2, <2>3
<1>15. ASSUME NEW p \in Processes, W!Crash(p) PROVE GenPlaceInv' /\ GenSeenInv' /\ GenKeptInv'
  <2>1. GenPlaceInv' BY <1>15 DEF W!Crash
  <2>2. GenSeenInv' BY <1>15 DEF W!Crash
  <2>3. GenKeptInv' BY <1>15 DEF W!Crash
  <2> QED BY <2>1, <2>2, <2>3
<1>16. CASE UNCHANGED W!vars BY <1>16 DEF W!vars
<1> QED BY <1>1, <1>2, <1>3, <1>4, <1>5, <1>6, <1>7, <1>8, <1>9, <1>10, <1>11, <1>12, <1>13,
    <1>14, <1>15, <1>16 DEF W!Next, W!Step

\* The inductive invariant of the generations.
LEMMA GenInvariant == W!Spec => []GenIInv
<1>1. GenIInv /\ [W!Next]_(W!vars) => GenIInv' BY GenTypeStep, GenStepInv DEF GenIInv
<1> QED BY GenInitInv, <1>1, PTL DEF W!Spec

\* A run of either system is one of the exchanged directories and one of the generations,
\* of which one stays as it was.
LEMMA EitherIsBoth == EitherSpec => Spec /\ W!Spec
<1>1. EitherInit => Init /\ W!Init BY DEF EitherInit
<1>2. [EitherNext]_<<unix, vars, wvars>> => [Next]_vars /\ [W!Next]_(W!vars)
  BY DEF EitherNext, vars, wvars, W!vars
<1> QED BY <1>1, <1>2, PTL DEF EitherSpec, Spec, W!Spec

\* While nobody meddles, an inventory names a whole bundle, an answered library stays
\* and what a call published validates, for any number of publishers.
THEOREM Generations == EitherSpec => []GenerationsWhole
<1>1. GenIInv => W!GenerationsWhole BY DEF GenIInv, GenTypes, GenKeptInv, W!GenerationsWhole
<1> QED BY <1>1, GenInvariant, EitherIsBoth, PTL DEF GenerationsWhole

\* A call at work is one without an answer.
LEMMA GenWorking ==
  ASSUME GenTypes
  PROVE  \A q \in Processes : W!Calling(q) <=> W!answer[q] = "working"
BY DEF W!answer, W!AnswerOf, W!Calling, W!Done, GenTypes

\* A step that only moves its process on is a stutter or an answer of CacheEntry.
LEMMA GenOwnStep ==
  ASSUME GenTypes, NEW p \in Processes, W!Calling(p), NEW x, x # "idle",
         x = "path" => wseen[p], wpc' = [wpc EXCEPT ![p] = x],
         UNCHANGED wseen, W!Complete' = W!Complete
  PROVE  [W!Promise!Next]_(W!Promise!vars)
<1>1. W!answer[p] = "working" BY GenWorking
<1>2. wpc'[p] = x /\ \A q \in Processes : q # p => wpc'[q] = wpc[q] BY DEF GenTypes
<1>3. W!AnswerOf(x) \in {"working", "path", "error"} /\ (W!AnswerOf(x) = "path" => wseen[p])
  BY DEF W!AnswerOf, W!Done
<1>4. W!answer' = [W!answer EXCEPT ![p] = W!AnswerOf(x)]
  <2>1. W!answer' = [q \in Processes |-> W!AnswerOf(wpc'[q])] BY DEF W!answer
  <2>2. W!answer = [q \in Processes |-> W!AnswerOf(wpc[q])] BY DEF W!answer
  <2>3. \A q \in Processes : W!AnswerOf(wpc'[q]) = IF q = p THEN W!AnswerOf(x) ELSE W!AnswerOf(wpc[q])
    BY <1>2
  <2> QED BY <2>1, <2>2, <2>3
<1>5. CASE W!AnswerOf(x) = "working"
  <2>1. W!answer' = W!answer BY <1>1, <1>4, <1>5 DEF W!answer
  <2> QED BY <2>1 DEF W!Promise!vars
<1>6. CASE W!AnswerOf(x) \in {"path", "error"}
  <2>1. W!Promise!Answer(p) BY <1>1, <1>3, <1>4, <1>6 DEF W!Promise!Answer
  <2> QED BY <2>1 DEF W!Promise!Next
<1> QED BY <1>3, <1>5, <1>6

\* Publishing an inventory makes the entry usable if the place it names is whole, and
\* else breaks it.
LEMMA GenPublishStep ==
  ASSUME GenTypes, NEW p \in Processes, W!Calling(p), NEW x, x \notin W!Done \cup {"idle"},
         wpc' = [wpc EXCEPT ![p] = x], NEW place, W!Publish(place)
  PROVE  [W!Promise!Next]_(W!Promise!vars)
<1>1. W!answer' = W!answer
  <2>1. wpc'[p] = x /\ \A q \in Processes : q # p => wpc'[q] = wpc[q] BY DEF GenTypes
  <2>2. W!AnswerOf(wpc[p]) = "working" /\ W!AnswerOf(x) = "working" BY
      DEF W!AnswerOf, W!Calling, W!Done
  <2> QED BY <2>1, <2>2 DEF W!answer
<1>2. W!Complete' = (place \in whole') BY DEF W!Publish, W!Complete
<1>3. CASE place \in whole'
  <2>1. W!Complete' = TRUE BY <1>2, <1>3
  <2>2. \A q \in Processes : (wseen[q] \/ (W!Calling(q) /\ place \in whole')) = (wseen[q] \/ W!answer[q] = "working")
    BY <1>3, GenWorking
  <2>3. wseen' = [q \in Processes |-> wseen[q] \/ W!answer[q] = "working"]
    BY <2>2 DEF W!Publish
  <2>4. W!Promise!Publish BY <1>1, <2>1, <2>3 DEF W!Promise!Publish
  <2> QED BY <2>4 DEF W!Promise!Next
<1>4. CASE place \notin whole'
  <2>1. W!Complete' = FALSE BY <1>4 DEF W!Publish, W!Complete
  <2>2. \A q \in Processes : (wseen[q] \/ (W!Calling(q) /\ place \in whole')) = wseen[q]
    BY <1>4 DEF GenTypes
  <2>3. wseen' = [q \in Processes |-> wseen[q]] BY <2>2 DEF W!Publish
  <2>4. wseen' = wseen BY <2>3 DEF GenTypes
  <2>5. W!Promise!Break BY <1>1, <2>1, <2>4 DEF W!Promise!Break
  <2> QED BY <2>5 DEF W!Promise!Next
<1> QED BY <1>3, <1>4

\* Every step is one of CacheEntry's or a stutter.
LEMMA GenImplements == GenIInv /\ [W!Next]_(W!vars) => [W!Promise!Next]_(W!Promise!vars)
<1> SUFFICES ASSUME GenIInv, [W!Next]_(W!vars) PROVE [W!Promise!Next]_(W!Promise!vars) OBVIOUS
<1> USE RootAssumption, TreesAssumption
<1>1. GenTypes /\ GenPlaceInv /\ GenSeenInv BY DEF GenIInv
<1>2. CASE W!Meddle
  <2>1. UNCHANGED <<wpc, wseen>> /\ whole' \subseteq whole /\ marker' \in {marker, Null}
        /\ Null \notin whole
    BY <1>1, <1>2, GenMeddleKeeps DEF GenTypes, W!Places
  <2>2. UNCHANGED W!answer BY <2>1 DEF W!answer
  <2>3. W!Complete' = W!Complete \/ W!Complete' = FALSE BY <2>1 DEF W!Complete
  <2>4. CASE W!Complete' = W!Complete BY <2>1, <2>2, <2>4 DEF W!Promise!vars
  <2>5. CASE W!Complete' = FALSE BY <2>1, <2>2, <2>5 DEF W!Promise!Next, W!Promise!Break
  <2> QED BY <2>3, <2>4, <2>5
<1>3. ASSUME NEW p \in Processes, W!Begin(p) PROVE [W!Promise!Next]_(W!Promise!vars)
  <2>1. W!Complete' = W!Complete /\ wseen' = [wseen EXCEPT ![p] = W!Complete]
    BY <1>3 DEF W!Begin, W!disk, W!Complete
  <2>2. wpc[p] = "idle" /\ wpc' = [wpc EXCEPT ![p] = "ensure"] BY <1>3 DEF W!Begin, W!Goto
  <2>3. W!answer[p] = "idle" BY <2>2 DEF W!answer, W!AnswerOf
  <2>4. W!AnswerOf("ensure") = "working" BY DEF W!AnswerOf, W!Done
  <2>5. W!answer' = [W!answer EXCEPT ![p] = "working"] BY <1>1, <2>2, <2>4
      DEF W!answer, GenTypes
  <2>6. W!Promise!Begin(p) BY <2>1, <2>3, <2>5 DEF W!Promise!Begin
  <2> QED BY <2>6 DEF W!Promise!Next
<1>4. ASSUME NEW p \in Processes, NEW x, UNCHANGED <<W!disk, wseen>>, W!Calling(p), x # "idle",
             wpc' = [wpc EXCEPT ![p] = x], x = "path" => wseen[p]
      PROVE  [W!Promise!Next]_(W!Promise!vars)
  <2>1. W!Complete' = W!Complete BY <1>4 DEF W!disk, W!Complete
  <2> QED BY <1>1, <1>4, <2>1, GenOwnStep
<1>5. ASSUME NEW p \in Processes, W!CheckMarker(p) \/ W!CheckFiles(p)
    PROVE [W!Promise!Next]_(W!Promise!vars)
  <2>1. UNCHANGED <<W!disk, wseen>> /\ wpc[p] \in W!Checks /\ W!Calling(p)
    BY <1>5 DEF W!CheckMarker, W!CheckFiles, W!Calling, W!Checks, W!Done
  <2>2. W!AfterReject[wpc[p]] \notin {"idle", "path"} BY <2>1 DEF W!AfterReject, W!Checks
  <2>3. wpc[p] # "path" /\ wpc[p] # "idle" /\ wpc' = [wpc EXCEPT ![p] = wpc[p]] <=> wpc' = wpc
    BY <1>1, <2>1 DEF GenTypes, W!Checks
  <2>4. CASE W!CheckMarker(p) BY <1>4, <2>1, <2>2, <2>3, <2>4 DEF W!CheckMarker, W!Goto
  <2>5. CASE W!CheckFiles(p) BY <1>1, <1>4, <2>1, <2>2, <2>5
      DEF W!CheckFiles, W!Goto, GenSeenInv
  <2> QED BY <1>5, <2>4, <2>5
<1>6. ASSUME NEW p \in Processes,
             \/ W!Extract(p) \/ W!RenameRefused(p) \/ W!IsDir(p)
             \/ W!StoreArchive(p) \/ W!IOError(p) \/ W!Crash(p)
      PROVE  [W!Promise!Next]_(W!Promise!vars)
  <2>1. W!Calling(p) BY <1>6 DEF W!Extract, W!RenameRefused, W!IsDir, W!StoreArchive,
      W!IOError, W!Crash, W!Calling, W!Done
  <2>2. \E x \in {"first", "stat", "second", "failed", "last",
      "crashed"} : wpc' = [wpc EXCEPT ![p] = x]
    BY <1>6 DEF W!Extract, W!RenameRefused, W!IsDir, W!StoreArchive, W!IOError, W!Crash, W!Goto
  <2>3. UNCHANGED <<W!disk, wseen>>
    BY <1>6 DEF W!Extract, W!RenameRefused, W!IsDir, W!StoreArchive, W!IOError, W!Crash
  <2> QED BY <1>4, <2>1, <2>2, <2>3
<1>7. ASSUME NEW p \in Processes, W!Hold(p) \/ W!MoveBundle(p) \/ W!MoveFails(p)
      PROVE  [W!Promise!Next]_(W!Promise!vars)
  <2>1. W!Calling(p) /\ UNCHANGED wseen
    BY <1>7 DEF W!Hold, W!MoveBundle, W!MoveFails, W!Calling, W!Done
  <2>2. \E x \in {"bundle", "mark", "failed"} : wpc' = [wpc EXCEPT ![p] = x]
    BY <1>7 DEF W!Hold, W!MoveBundle, W!MoveFails, W!Goto
  <2>3. W!Complete' = W!Complete
    BY <1>1, <1>7 DEF W!Hold, W!MoveBundle, W!MoveFails, W!Complete, GenPlaceInv, Unmarked
  <2> QED BY <1>1, <2>1, <2>2, <2>3, GenOwnStep
<1>8. ASSUME NEW p \in Processes, W!Rename(p) PROVE [W!Promise!Next]_(W!Promise!vars)
  <2>1. W!Calling(p) /\ wpc' = [wpc EXCEPT ![p] = "last"]
        /\ "last" \notin W!Done \cup {"idle"} /\ W!Publish(Root)
    BY <1>8 DEF W!Rename, W!Goto, W!Calling, W!Done
  <2> QED BY <1>1, <2>1, GenPublishStep
<1>9. ASSUME NEW p \in Processes, W!PublishMarker(p) PROVE [W!Promise!Next]_(W!Promise!vars)
  <2>1. W!Calling(p) /\ wpc' = [wpc EXCEPT ![p] = "archive"]
        /\ "archive" \notin W!Done \cup {"idle"} /\ W!Publish(p)
    BY <1>9 DEF W!PublishMarker, W!Goto, W!Calling, W!Done
  <2> QED BY <1>1, <2>1, GenPublishStep
<1>10. CASE UNCHANGED W!vars
  <2>1. UNCHANGED <<W!Complete, wseen, W!answer>> BY <1>10 DEF W!vars, W!Complete, W!answer
  <2> QED BY <2>1 DEF W!Promise!vars
<1> QED BY <1>2, <1>3, <1>5, <1>6, <1>7, <1>8, <1>9, <1>10 DEF W!Next, W!Step

\* The generations keep the cache's promise, for any number of publishers and outsiders.
THEOREM GenerationsImplementEntry == EitherSpec => GenerationsKeepPromise
<1>1. W!Init => W!Promise!Init
  BY DEF W!Init, W!Promise!Init, W!Complete, W!answer, W!AnswerOf
<1> QED BY <1>1, GenInvariant, GenImplements, EitherIsBoth, PTL
  DEF W!Spec, GenerationsKeepPromise, W!GenerationsKeepPromise, W!Promise!Spec

=============================================================================
