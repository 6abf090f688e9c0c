----------------------------- MODULE RustRuntime -----------------------------
(***************************************************************************)
(* The process-wide runtime of the Rust crate (rust/src/lib.rs,            *)
(* rust/src/runtime.rs): Native::get loads libseekdb once, from the cache  *)
(* entry under the directory configured at that moment, and restores that  *)
(* entry before every later open; all of it under the mutex NATIVE_INIT.   *)
(* Threads open, close and drop instances and set the directory; outsiders *)
(* clean the caches, and other processes fill them.                        *)
(*                                                                         *)
(* An entry is used as CacheEntry promises: ensure answers with a path     *)
(* only if the entry was complete at some moment of its call. Arguments    *)
(* that are refused before the mutex is taken leave no trace and are no    *)
(* step.                                                                   *)
(***************************************************************************)
EXTENDS Integers

CONSTANTS
  Threads,
  Roots,        \* cache directories, as absolute paths
  Default,      \* the cache directory of the platform: a root, or Unset
  MaxObjects,   \* bound on the Seekdb objects of a thread
  Unset, Invalid, Null

ASSUME RootsAssumption ==
  /\ Default \in Roots \cup {Unset}
  /\ Unset \notin Roots /\ Invalid \notin Roots
  /\ Null \notin Threads
ASSUME ObjectsAssumption == MaxObjects \in Nat

VARIABLES
  environment,  \* SEEKDB_CACHE_DIR: a root, Unset, or Invalid (empty or relative)
  lock,        \* the thread that holds NATIVE_INIT
  configured,  \* the directory inside it
  native,      \* NATIVE: the root of the loaded Native's bundle, or Unset
  usable,      \* is there a complete entry under each root?
  pc,          \* where each thread is
  root,        \* the directory a thread's call is about
  seen,        \* has the entry under it been complete since ensure began?
  objects      \* Seekdb objects of each thread, each with its libseekdb handle

runtimeVars == <<environment, lock, configured, native, usable, pc, root, seen, objects>>

RuntimeInit ==
  /\ environment \in Roots \cup {Unset, Invalid}
  /\ lock = Null /\ configured = Unset /\ native = Unset
  /\ usable \in [Roots -> BOOLEAN]
  /\ pc = [t \in Threads |-> "idle"]
  /\ root = [t \in Threads |-> Unset]
  /\ seen = [t \in Threads |-> FALSE]
  /\ objects = [t \in Threads |-> 0]

\* The explicit directory, or the environment's, which an invalid value does not yield to
\* the default, or the platform's.
select_root(explicit) ==
  IF explicit # Unset THEN explicit
  ELSE IF environment # Unset THEN environment ELSE Default

\* The call returns, and with it the guard of NATIVE_INIT if the thread holds it.
Return(t, where) ==
  /\ pc' = [pc EXCEPT ![t] = where]
  /\ lock' = IF lock = t THEN Null ELSE lock

-----------------------------------------------------------------------------
(* set_runtime_cache_dir                                                   *)

SetCall(t) ==
  /\ pc[t] = "idle"
  /\ pc' = [pc EXCEPT ![t] = "set"]
  /\ \E r \in Roots : root' = [root EXCEPT ![t] = r]
  /\ UNCHANGED <<environment, lock, configured, native, usable, seen, objects>>

set_runtime_cache_dir_Unlocked(t) ==
  /\ pc[t] = "set"
  /\ configured' = IF native = Unset THEN root[t] ELSE configured
  /\ pc' = [pc EXCEPT ![t] = "idle"]
  /\ UNCHANGED <<environment, lock, native, usable, root, seen, objects>>

\* Refused once the library is loaded. The mutex is free again at the return.
set_runtime_cache_dir(t) ==
  /\ pc[t] = "set" /\ lock = Null
  /\ configured' = IF native = Unset THEN root[t] ELSE configured
  /\ pc' = [pc EXCEPT ![t] = "idle"]
  /\ UNCHANGED <<environment, lock, native, usable, root, seen, objects>>

-----------------------------------------------------------------------------
(* Seekdb::open_with_options and Native::get                               *)

OpenCall(t) ==
  /\ pc[t] = "idle" /\ objects[t] < MaxObjects
  /\ pc' = [pc EXCEPT ![t] = "get"]
  /\ UNCHANGED <<environment, lock, configured, native, usable, root, seen, objects>>

get_Loaded(t) ==
  /\ pc[t] = "get" /\ lock = Null
  /\ LET bundle == IF native # Unset THEN native ELSE select_root(configured) IN
     /\ bundle \in Roots
     /\ pc' = [pc EXCEPT ![t] = IF native # Unset THEN "open" ELSE "ensure"]
     /\ root' = [root EXCEPT ![t] = bundle]
     /\ lock' = IF native # Unset THEN lock ELSE t
  /\ UNCHANGED <<environment, configured, native, usable, seen, objects>>

\* Native::get up to its ensure: the bundle of the loaded library, or a new one.
get(t) ==
  /\ pc[t] = "get" /\ lock = Null
  /\ LET bundle == IF native # Unset THEN native ELSE select_root(configured) IN
     /\ bundle \in Roots
     /\ root' = [root EXCEPT ![t] = bundle]
  /\ pc' = [pc EXCEPT ![t] = "ensure"]
  /\ lock' = t
  /\ UNCHANGED <<environment, configured, native, usable, seen, objects>>

\* No directory, or an invalid one.
NoRoot(t) ==
  /\ pc[t] = "get" /\ lock = Null
  /\ native = Unset /\ select_root(configured) \notin Roots
  /\ Return(t, "idle")
  /\ UNCHANGED <<environment, configured, native, usable, root, seen, objects>>

\* Bundle::ensure asks the cache; the directory or its mount may be refused before.
ensure(t) ==
  /\ pc[t] = "ensure"
  /\ pc' = [pc EXCEPT ![t] = "ensuring"]
  /\ seen' = [seen EXCEPT ![t] = usable[root[t]]]
  /\ UNCHANGED <<environment, lock, configured, native, usable, root, objects>>

EnsureFails(t) ==
  /\ pc[t] \in {"ensure", "ensuring"}
  /\ Return(t, "idle")
  /\ UNCHANGED <<environment, configured, native, usable, root, seen, objects>>

Ensured(t) ==
  /\ pc[t] = "ensuring" /\ seen[t]
  /\ IF native # Unset THEN Return(t, "open")
     ELSE pc' = [pc EXCEPT ![t] = "load"] /\ UNCHANGED lock
  /\ UNCHANGED <<environment, configured, native, usable, root, seen, objects>>

\* The entry may be gone again: then the loader, or a symbol, fails, and nothing is kept.
load(t) ==
  /\ pc[t] = "load"
  /\ \/ native' = root[t] /\ Return(t, "open")
     \/ UNCHANGED native /\ Return(t, "idle")
  /\ UNCHANGED <<environment, configured, usable, root, seen, objects>>

\* seekdb_open, outside the mutex.
open(t) ==
  /\ pc[t] = "open"
  /\ pc' = [pc EXCEPT ![t] = "idle"]
  /\ \E success \in BOOLEAN :
       objects' = [objects EXCEPT ![t] = IF success THEN @ + 1 ELSE @]
  /\ UNCHANGED <<environment, lock, configured, native, usable, root, seen>>

\* close and drop take the handle out of the object first: neither closes it twice.
CloseOrDrop(t) ==
  /\ pc[t] = "idle" /\ objects[t] > 0
  /\ objects' = [objects EXCEPT ![t] = @ - 1]
  /\ UNCHANGED <<environment, lock, configured, native, usable, pc, root, seen>>

-----------------------------------------------------------------------------
(* The cache                                                               *)

\* A publisher, in this process or another, completes the entry under r.
Publish(r) ==
  /\ usable' = [usable EXCEPT ![r] = TRUE]
  /\ seen' = [t \in Threads |-> seen[t] \/ (pc[t] = "ensuring" /\ root[t] = r)]
  /\ UNCHANGED <<environment, lock, configured, native, pc, root, objects>>

\* Somebody cleans or damages the cache.
Break(r) ==
  /\ usable' = [usable EXCEPT ![r] = FALSE]
  /\ UNCHANGED <<environment, lock, configured, native, pc, root, seen, objects>>

RuntimeNext ==
  \/ \E t \in Threads :
       \/ SetCall(t) \/ set_runtime_cache_dir(t)
       \/ OpenCall(t) \/ get(t) \/ NoRoot(t)
       \/ ensure(t) \/ EnsureFails(t) \/ Ensured(t) \/ load(t)
       \/ open(t) \/ CloseOrDrop(t)
  \/ \E r \in Roots : Publish(r) \/ Break(r)

RuntimeSpec == RuntimeInit /\ [][RuntimeNext]_runtimeVars

-----------------------------------------------------------------------------

RuntimeTypeOK ==
  /\ environment \in Roots \cup {Unset, Invalid}
  /\ lock \in Threads \cup {Null}
  /\ configured \in Roots \cup {Unset}
  /\ native \in Roots \cup {Unset}
  /\ usable \in [Roots -> BOOLEAN]
  /\ pc \in [Threads -> {"idle", "set", "get", "ensure", "ensuring", "load", "open"}]
  /\ root \in [Threads -> Roots \cup {Unset}]
  /\ seen \in [Threads -> BOOLEAN]
  /\ objects \in [Threads -> 0..MaxObjects]

\* The loaded library comes from the directory that the last accepted
\* set_runtime_cache_dir, or else the environment or the platform, named: no accepted
\* directory is overtaken by another thread's initialisation, none is accepted too late,
\* and a failed initialisation leaves nothing behind (lib.rs: set_runtime_cache_dir, get).
ConfiguredDirectoryUsed ==
  /\ native # Unset => native = select_root(configured)
  /\ native = Unset => \A t \in Threads : objects[t] = 0 /\ pc[t] # "open"

\* seekdb_open runs only beside a server that was complete at some moment of the same
\* call, under the directory of the loaded library: a cleaned cache is restored by the
\* next open, also when the library was loaded long ago (lib.rs: get).
FilesRestored ==
  \A t \in Threads : pc[t] = "open" => root[t] = native /\ seen[t]

\* Every open uses the library of the directory asked for, with its files restored.
RightBundle == ConfiguredDirectoryUsed /\ FilesRestored
=============================================================================
