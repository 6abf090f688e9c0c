--------------------------- MODULE GenerationCache ---------------------------
(***************************************************************************)
(* NativeCache::publish on Windows (rust/native_cache.rs), which cannot     *)
(* exchange directories: a publisher that finds a damaged entry moves its   *)
(* bundle into a generation directory of its own inside the entry, and then *)
(* renames an inventory that names that generation over .complete.          *)
(***************************************************************************)
EXTENDS Naturals

CONSTANTS
  Processes,   \* each makes one call; its generation bears its name
  Root,        \* the entry's own files, which a whole staging tree becomes
  Null,
  MaxMeddling  \* bound: what outsiders do to the entry

VARIABLES
  pc,
  present,   \* is there a directory at the entry path?
  marker,    \* the place whose files .complete lists, or Null
  there,     \* places of which the entry holds something
  whole,     \* places of which it holds every file
  following, \* the place a process's valid_cache follows, or Null
  meddled,   \* what outsiders have done
  seen       \* history: was the entry complete during the process's call?

vars == <<pc, present, marker, there, whole, following, meddled, seen>>
disk == <<present, marker, there, whole>>

Places == Processes \cup {Root}
Complete == marker \in whole

Checks == {"ensure", "first", "second", "last"}
Done == {"path", "failed", "invalid", "crashed"}
Calling(p) == pc[p] \notin Done \cup {"idle"}

\* An earlier release may have left anything at the root of the entry.
Init ==
  /\ pc = [p \in Processes |-> "idle"]
  /\ there \in SUBSET {Root} /\ whole \in SUBSET there
  /\ marker \in {Null, Root}
  /\ present \in BOOLEAN /\ (there # {} \/ marker = Root => present)
  /\ following = [p \in Processes |-> Null]
  /\ meddled = 0
  /\ seen = [p \in Processes |-> FALSE]

Goto(p, at) == pc' = [pc EXCEPT ![p] = at]

Begin(p) ==
  /\ pc[p] = "idle"
  /\ Goto(p, "ensure")
  /\ seen' = [seen EXCEPT ![p] = Complete]
  /\ UNCHANGED <<disk, following, meddled>>

Publish(place) ==
  /\ marker' = place
  /\ seen' = [q \in Processes |-> seen[q] \/ (Calling(q) /\ place \in whole')]

-----------------------------------------------------------------------------
(* valid_cache: the inventory is read, then the files it lists.             *)

AfterReject == [ensure |-> "extract", first |-> "rename", second |-> "hold",
                last |-> "invalid"]

CheckMarker_Only(p) ==
  /\ pc[p] \in Checks /\ following[p] = Null
  /\ IF marker # Null
     THEN following' = [following EXCEPT ![p] = marker] /\ Goto(p, "path")
     ELSE Goto(p, AfterReject[pc[p]]) /\ UNCHANGED following
  /\ UNCHANGED <<disk, meddled, seen>>

CheckMarker(p) ==
  /\ pc[p] \in Checks /\ following[p] = Null
  /\ IF marker # Null
     THEN following' = [following EXCEPT ![p] = marker] /\ UNCHANGED pc
     ELSE Goto(p, AfterReject[pc[p]]) /\ UNCHANGED following
  /\ UNCHANGED <<disk, meddled, seen>>

CheckFiles(p) ==
  /\ pc[p] \in Checks /\ following[p] # Null
  /\ IF following[p] \in whole
     THEN Goto(p, "path") /\ UNCHANGED following
     ELSE Goto(p, AfterReject[pc[p]]) /\ following' = [following EXCEPT ![p] = Null]
  /\ UNCHANGED <<disk, meddled, seen>>

-----------------------------------------------------------------------------
(* ensure fills a private staging tree, with an inventory of its own; publish *)
(* makes it the entry, if there is none.                                   *)

Extract(p) ==
  /\ pc[p] = "extract"
  /\ Goto(p, "first")
  /\ UNCHANGED <<disk, following, meddled, seen>>

Rename(p) ==
  /\ pc[p] = "rename"
  /\ ~present \/ (there = {} /\ marker = Null)
  /\ present' = TRUE /\ there' = {Root} /\ whole' = {Root}
  /\ Publish(Root)
  /\ Goto(p, "last")
  /\ UNCHANGED <<following, meddled>>

\* The rename meets an entry, or an open file, or any other obstacle.
RenameRefused(p) ==
  /\ pc[p] = "rename"
  /\ Goto(p, "stat")
  /\ UNCHANGED <<disk, following, meddled, seen>>

IsDir(p) ==
  /\ pc[p] = "stat"
  /\ Goto(p, IF present THEN "second" ELSE "failed")
  /\ UNCHANGED <<disk, following, meddled, seen>>

-----------------------------------------------------------------------------
(* publish, into an entry that is there and not valid: a generation.        *)

Hold_MarksFirst(p) ==
  /\ pc[p] = "hold"
  /\ UNCHANGED <<present, whole, following, meddled>>
  /\ IF present THEN there' = there \cup {p} /\ Publish(p) /\ Goto(p, "bundle")
     ELSE UNCHANGED <<there, marker, seen>> /\ Goto(p, "failed")

Hold(p) ==
  /\ pc[p] = "hold"
  /\ IF present THEN there' = there \cup {p} /\ Goto(p, "bundle")
     ELSE UNCHANGED there /\ Goto(p, "failed")
  /\ UNCHANGED <<present, marker, whole, following, meddled, seen>>

MoveBundle(p) ==
  /\ pc[p] = "bundle" /\ p \in there
  /\ whole' = whole \cup {p}
  /\ Goto(p, "mark")
  /\ UNCHANGED <<present, marker, there, following, meddled, seen>>

\* The holder directory goes away with the call, unless the bundle is in it.
MoveFails(p) ==
  /\ pc[p] = "bundle"
  /\ there' = there \ {p}
  /\ Goto(p, "failed")
  /\ UNCHANGED <<present, marker, whole, following, meddled, seen>>

\* Earlier generations are kept: somebody may be following one.
PublishMarker(p) ==
  /\ pc[p] = "mark" /\ present
  /\ UNCHANGED whole /\ Publish(p)
  /\ Goto(p, "archive")
  /\ UNCHANGED <<present, there, following, meddled>>

StoreArchive(p) ==
  /\ pc[p] = "archive" /\ p \in there
  /\ Goto(p, "last")
  /\ UNCHANGED <<disk, following, meddled, seen>>

IOError(p) ==
  /\ pc[p] \in {"extract", "hold", "mark", "archive"}
  /\ Goto(p, "failed")
  /\ UNCHANGED <<disk, following, meddled, seen>>

\* A generation whose publisher was killed stays as it is.
Crash(p) ==
  /\ Calling(p)
  /\ Goto(p, "crashed")
  /\ UNCHANGED <<disk, following, meddled, seen>>

\* An outsider damages a place, or deletes .complete, or the entry.
Meddle ==
  /\ present /\ meddled < MaxMeddling
  /\ meddled' = meddled + 1
  /\ \/ \E place \in there :
          /\ whole' = whole \ {place}
          /\ there' \in {there, there \ {place}}
          /\ UNCHANGED <<present, marker>>
     \/ marker' = Null /\ UNCHANGED <<present, there, whole>>
     \/ present' = FALSE /\ marker' = Null /\ there' = {} /\ whole' = {}
  /\ UNCHANGED <<pc, following, seen>>

Step(p) ==
  \/ Begin(p) \/ CheckMarker(p) \/ CheckFiles(p) \/ Extract(p)
  \/ Rename(p) \/ RenameRefused(p) \/ IsDir(p)
  \/ Hold(p) \/ MoveBundle(p) \/ MoveFails(p) \/ PublishMarker(p) \/ StoreArchive(p)
  \/ IOError(p) \/ Crash(p)

Next == Meddle \/ \E p \in Processes : Step(p)

Spec == Init /\ [][Next]_vars

-----------------------------------------------------------------------------
\* While nobody meddles, .complete names a generation only when its bundle is whole, a
\* library that was answered stays where it is whatever other publishers do, and a call
\* whose own publication fails to validate does not happen.
GenerationsWhole ==
  meddled = 0 =>
    /\ marker \in Processes => marker \in whole
    /\ \A p \in Processes : /\ pc[p] = "path" => following[p] \in whole
                            /\ pc[p] # "invalid"

AnswerOf(at) == IF at \in {"idle", "path"} THEN at
                ELSE IF at \in Done THEN "error" ELSE "working"

answer == [p \in Processes |-> AnswerOf(pc[p])]

Promise == INSTANCE CacheEntry WITH usable <- Complete

\* The generations implement the same promise as the exchanged directories: a path is
\* answered only if the entry was complete at some moment of the call, although the
\* inventory and the files it lists are read at different times.
GenerationsKeepPromise == Promise!Spec
=============================================================================
