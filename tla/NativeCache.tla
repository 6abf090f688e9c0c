------------------------------ MODULE NativeCache ------------------------------
(***************************************************************************)
(* NativeCache::ensure and publish (rust/native_cache.rs, Unix flavour):   *)
(* several builds and applications prepare one cache entry without a lock, *)
(* while outsiders may clean the cache directory: they damage or remove the *)
(* entry and remove staging trees.  What is inside a staging tree is        *)
(* assumed to be its process's own: valid_cache may otherwise read the      *)
(* marker of one damaged tree and the files of another.                     *)
(*                                                                         *)
(* A directory is a tree with an identity of its own: the entry path and   *)
(* the staging paths name trees, a rename moves a name, an exchange swaps  *)
(* two, and a process that loaded the library holds the tree, not the path.*)
(***************************************************************************)
EXTENDS Integers, FiniteSets

CONSTANTS
  Processes,  \* each makes one call; its staging tree bears its name
  Old,        \* the tree an earlier release of the cache left, if any
  Null,
  Refused,    \* processes whose renames the file system may refuse
  Tries,      \* rounds of publish (8 in the code)
  MaxMeddling \* bound: what outsiders do

ASSUME TreesAssumption == Old \notin Processes /\ Null \notin Processes \cup {Old}
ASSUME RefusedAssumption == Refused \subseteq Processes
ASSUME TriesAssumption == Tries \in Nat \ {0}

VARIABLES
  pc,
  marked,    \* valid_cache has read .complete and now looks at the files
  tries,     \* rounds of publish begun before this one
  entry,     \* the tree at the entry path, or Null
  staging,   \* the tree at each process's .extract- path, or Null
  content,   \* what is in a tree: "files", "archive", "marker"
  deleted,   \* trees the crate removed from the disk
  loaded,    \* the tree whose library a process has mapped, or Null
  meddled,   \* what outsiders have done
  vanished,  \* how often they removed the whole entry
  robbed,    \* processes whose staging tree they removed
  seen       \* history: was the entry complete during the process's call?

vars == <<pc, marked, tries, entry, staging, content, deleted, loaded, meddled,
          vanished, robbed, seen>>
outside == <<meddled, vanished, robbed>>

Trees == Processes \cup {Old}
Parts == {"files", "archive", "marker"}

\* The inventory leaves the archive out: it is no runtime file.
Complete(t) == t # Null /\ {"files", "marker"} \subseteq content[t]

\* The four places that call valid_cache: on entry, in a round of publish, when a
\* rename lost, and after publication.
Checks == {"ensure", "round", "lost", "published"}
Done == {"path", "failed", "invalid", "gaveup", "crashed"}
Calling(p) == pc[p] \notin Done \cup {"idle"}

Init ==
  /\ pc = [p \in Processes |-> "idle"]
  /\ marked = [p \in Processes |-> FALSE]
  /\ tries = [p \in Processes |-> 0]
  /\ entry \in {Null, Old}
  /\ staging = [p \in Processes |-> Null]
  /\ \E c \in SUBSET Parts : content = [t \in Trees |-> IF t = Old THEN c ELSE {}]
  /\ deleted = {}
  /\ loaded = [p \in Processes |-> Null]
  /\ meddled = 0 /\ vanished = 0 /\ robbed = {}
  /\ seen = [p \in Processes |-> FALSE]

Begin(p) ==
  /\ pc[p] = "idle"
  /\ pc' = [pc EXCEPT ![p] = "ensure"]
  /\ seen' = [seen EXCEPT ![p] = Complete(entry)]
  /\ UNCHANGED <<marked, tries, entry, staging, content, deleted, loaded, outside>>

\* ensure returns, and the staging TempDir removes whatever tree has its path.
Return(p, result) ==
  /\ pc' = [pc EXCEPT ![p] = result]
  /\ staging' = [staging EXCEPT ![p] = Null]
  /\ deleted' = deleted \cup ({staging[p]} \ {Null})
  /\ content' = [t \in Trees |-> IF t = staging[p] THEN {} ELSE content[t]]

-----------------------------------------------------------------------------
(* valid_cache: .complete is read first, then every file it lists, by path: *)
(* the entry may be another tree by then.                                  *)

AfterReject == [ensure |-> "extract", round |-> "rename", lost |-> "stat"]

Reject(p) ==
  \/ /\ pc[p] = "published"
     /\ Return(p, "invalid")
  \/ /\ pc[p] # "published"
     /\ pc' = [pc EXCEPT ![p] = AfterReject[@]]
     /\ UNCHANGED <<staging, deleted, content>>

CheckMarker_Only(p) ==
  /\ pc[p] \in Checks /\ ~marked[p]
  /\ IF entry # Null /\ "marker" \in content[entry] THEN Return(p, "path") ELSE Reject(p)
  /\ UNCHANGED <<marked, tries, entry, loaded, outside, seen>>

CheckMarker(p) ==
  /\ pc[p] \in Checks /\ ~marked[p]
  /\ IF entry # Null /\ "marker" \in content[entry]
     THEN /\ marked' = [marked EXCEPT ![p] = TRUE]
          /\ UNCHANGED <<pc, staging, deleted, content>>
     ELSE Reject(p) /\ UNCHANGED marked
  /\ UNCHANGED <<tries, entry, loaded, outside, seen>>

CheckFiles(p) ==
  /\ pc[p] \in Checks /\ marked[p]
  /\ marked' = [marked EXCEPT ![p] = FALSE]
  /\ IF entry # Null /\ "files" \in content[entry] THEN Return(p, "path") ELSE Reject(p)
  /\ UNCHANGED <<tries, entry, loaded, outside, seen>>

-----------------------------------------------------------------------------
(* ensure: a private staging tree is filled, its marker last.              *)

Fill(p, at, part, to) ==
  /\ pc[p] = at
  /\ at = "extract" \/ staging[p] # Null
  /\ pc' = [pc EXCEPT ![p] = to]
  /\ staging' = [staging EXCEPT ![p] = p]
  /\ content' = [content EXCEPT ![p] = @ \cup {part}]
  /\ UNCHANGED <<marked, tries, entry, deleted, loaded, outside, seen>>

Extract(p) == Fill(p, "extract", "files", "store")
store_archive(p) == Fill(p, "store", "archive", "mark")
WriteMarker_Late(p) == pc[p] = "mark" /\ Fill(p, "mark", "archive", "round")
WriteMarker(p) == Fill(p, "mark", "marker", "round")

\* A bad archive, a full disk, a directory that cannot be exchanged.
IOError(p) ==
  /\ pc[p] \in {"extract", "store", "mark", "exchange"}
  /\ Return(p, "failed")
  /\ UNCHANGED <<marked, tries, entry, loaded, outside, seen>>

-----------------------------------------------------------------------------
(* publish                                                                 *)

Publish(p) ==
  /\ entry' = staging[p]
  /\ seen' = [q \in Processes |-> seen[q] \/ (Calling(q) /\ Complete(staging[p]))]
  /\ pc' = [pc EXCEPT ![p] = "published"]
  /\ staging' = [staging EXCEPT ![p] = Null]

\* The next round, or the error after the last one.
Continue(p) ==
  /\ tries' = [tries EXCEPT ![p] = @ + 1]
  /\ IF tries[p] + 1 < Tries
     THEN pc' = [pc EXCEPT ![p] = "round"] /\ UNCHANGED <<staging, deleted, content>>
     ELSE Return(p, "gaveup")

Rename_Retries(p) ==
  /\ pc[p] = "rename"
  /\ IF staging[p] # Null /\ (entry = Null \/ content[entry] = {})
     THEN Publish(p) /\ UNCHANGED <<tries, content, deleted>>
     ELSE Continue(p) /\ UNCHANGED <<entry, seen>>
  /\ UNCHANGED <<marked, loaded, outside>>

\* rename(2) replaces nothing or an empty directory, and needs something to rename.
Rename(p) ==
  /\ pc[p] = "rename"
  /\ IF staging[p] # Null /\ (entry = Null \/ content[entry] = {})
     THEN Publish(p)
     ELSE pc' = [pc EXCEPT ![p] = "lost"] /\ UNCHANGED <<entry, staging, seen>>
  /\ UNCHANGED <<marked, tries, content, deleted, loaded, outside>>

\* Any other rename error is handled as if another publisher had won.
RenameRefused(p) ==
  /\ p \in Refused
  /\ pc[p] = "rename"
  /\ pc' = [pc EXCEPT ![p] = "lost"]
  /\ UNCHANGED <<marked, tries, entry, staging, content, deleted, loaded, outside, seen>>

\* symlink_metadata: nothing there, something, or an error of another kind.
Stat(p) ==
  /\ pc[p] = "stat"
  /\ \/ entry = Null /\ Continue(p)
     \/ /\ entry # Null
        /\ pc' = [pc EXCEPT ![p] = "exchange"]
        /\ UNCHANGED <<tries, staging, deleted, content>>
     \/ Return(p, "failed") /\ UNCHANGED tries
  /\ UNCHANGED <<marked, entry, loaded, outside, seen>>

Exchange_DropsOld(p) ==
  /\ pc[p] = "exchange"
  /\ IF entry = Null \/ staging[p] = Null THEN Continue(p) /\ UNCHANGED <<entry, seen>>
     ELSE /\ Publish(p) /\ UNCHANGED tries
          /\ deleted' = deleted \cup {entry}
          /\ content' = [content EXCEPT ![entry] = {}]
  /\ UNCHANGED <<marked, loaded, outside>>

Exchange_TwoRenames(p) ==
  /\ pc[p] = "exchange"
  /\ entry' = Null
  /\ pc' = [pc EXCEPT ![p] = "rename"]
  /\ UNCHANGED <<marked, tries, staging, content, deleted, loaded, outside, seen>>

\* Both trees must be there.  The previous entry is kept, under a .retired- name: somebody
\* may have mapped its files, and another publisher may just have made it healthy.
Exchange(p) ==
  /\ pc[p] = "exchange"
  /\ IF entry = Null \/ staging[p] = Null THEN Continue(p) /\ UNCHANGED <<entry, seen>>
     ELSE Publish(p) /\ UNCHANGED <<tries, content, deleted>>
  /\ UNCHANGED <<marked, loaded, outside>>

-----------------------------------------------------------------------------
\* The runtime loads the library at the path it was given.
Load(p) ==
  /\ pc[p] = "path" /\ loaded[p] = Null
  /\ entry # Null /\ "files" \in content[entry]
  /\ loaded' = [loaded EXCEPT ![p] = entry]
  /\ UNCHANGED <<pc, marked, tries, entry, staging, content, deleted, outside, seen>>

\* A killed process leaves its staging tree behind.
Crash(p) ==
  /\ Calling(p)
  /\ pc' = [pc EXCEPT ![p] = "crashed"]
  /\ UNCHANGED <<marked, tries, entry, staging, content, deleted, loaded, outside, seen>>

\* An outsider deletes a part of the entry, or all of it, or a staging tree.
Meddle ==
  /\ meddled < MaxMeddling
  /\ meddled' = meddled + 1
  /\ \/ /\ entry # Null
        /\ \E part \in {"files", "marker"} :
             content' = [content EXCEPT ![entry] = @ \ {part}]
        /\ UNCHANGED <<entry, staging, vanished, robbed>>
     \/ /\ entry # Null
        /\ content' = [content EXCEPT ![entry] = {}]
        /\ entry' = Null
        /\ vanished' = vanished + 1
        /\ UNCHANGED <<staging, robbed>>
     \/ \E p \in Processes :
          /\ staging[p] # Null
          /\ content' = [content EXCEPT ![p] = {}]
          /\ staging' = [staging EXCEPT ![p] = Null]
          /\ robbed' = robbed \cup {p}
          /\ UNCHANGED <<entry, vanished>>
  /\ UNCHANGED <<pc, marked, tries, deleted, loaded, seen>>

Step(p) ==
  \/ Begin(p) \/ CheckMarker(p) \/ CheckFiles(p)
  \/ Extract(p) \/ store_archive(p) \/ WriteMarker(p) \/ IOError(p)
  \/ Rename(p) \/ RenameRefused(p) \/ Stat(p) \/ Exchange(p) \/ Load(p)

Next == Meddle \/ \E p \in Processes : Step(p) \/ Crash(p)

Spec == Init /\ [][Next]_vars

-----------------------------------------------------------------------------
TypeOK ==
  /\ pc \in [Processes -> Checks \cup Done \cup
               {"idle", "extract", "store", "mark", "rename", "stat", "exchange"}]
  /\ marked \in [Processes -> BOOLEAN]
  /\ tries \in [Processes -> 0..Tries]
  /\ entry \in Trees \cup {Null}
  /\ staging \in [Processes -> Trees \cup {Null}]
  /\ content \in [Trees -> SUBSET Parts]
  /\ deleted \subseteq Trees
  /\ loaded \in [Processes -> Trees \cup {Null}]
  /\ meddled \in Nat /\ vanished \in 0..meddled /\ robbed \subseteq Processes
  /\ seen \in [Processes -> BOOLEAN]

\* Until somebody meddles, an entry the crate published is complete, with its
\* archive: no reader can find a tree that is still being filled or torn down.
PublishedComplete == entry \in Processes /\ meddled = 0 => content[entry] = Parts

\* The crate never removes a tree whose library some process has mapped.
MappedFilesKept == \A p \in Processes : loaded[p] \notin deleted

\* A call that is neither killed nor stopped by an I/O error fails only because of
\* outsiders: validation of what was just published fails after meddling, and the
\* rounds of publish run out only if the entry disappeared that often, or the staging
\* tree was taken away, or the file system refuses the renames.
ErrorsExplained ==
  \A p \in Processes :
    /\ pc[p] = "invalid" => meddled > 0
    /\ pc[p] = "gaveup" => vanished >= Tries \/ p \in Refused \cup robbed

\* No step of a publisher makes a complete entry incomplete or absent, not even for a
\* moment (the gap that two plain renames would leave).
NoGap ==
  [][meddled' = meddled /\ Complete(entry) => Complete(entry)']_vars

-----------------------------------------------------------------------------
(* The cache entry this implements.                                        *)

AnswerOf(at) == IF at \in {"idle", "path"} THEN at
                ELSE IF at \in Done THEN "error" ELSE "working"

answer == [p \in Processes |-> AnswerOf(pc[p])]

Promise == INSTANCE CacheEntry WITH usable <- Complete(entry)

\* Whatever the interleaving with other publishers and with outsiders, a path is
\* answered only if the entry was complete at some moment of the call, although
\* valid_cache reads the marker and the files at different times.
KeepsPromise == Promise!Spec
=============================================================================
