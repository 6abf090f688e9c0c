--------------------------- MODULE InstanceRegistry ---------------------------
(***************************************************************************)
(* The Python module's instances (python/src/bindings.cpp): a registry of  *)
(* weak pointers from directories to shared InstanceStates, the module's   *)
(* default instance, three kinds of mutex and the interpreter lock that    *)
(* most calls release.                                                     *)
(*                                                                         *)
(* A std::shared_ptr is a holder of its object: use_count is the number of *)
(* holders, a weak_ptr has expired when there is none, and the thread that *)
(* drops the last holder runs the destructor, i.e. seekdb_close.           *)
(***************************************************************************)
EXTENDS Integers, FiniteSets

CONSTANTS
  Threads, Dirs,
  Instances,    \* SeekdbInstance objects: bounds those alive at once
  States,       \* InstanceState objects: likewise
  Connections,  \* Connection objects: likewise
  Null

ASSUME NullAssumption == Null \notin Threads \cup Dirs \cup Instances \cup States

\* What holds a pointer are distinct things, and there are finitely many.
ASSUME HoldersAssumption ==
  /\ IsFiniteSet(Threads) /\ IsFiniteSet(Instances) /\ IsFiniteSet(Connections)
  /\ Threads \cap Instances = {} /\ Threads \cap Connections = {}
  /\ Instances \cap Connections = {}
  /\ Instances \cap {"gil", "states", "default"} = {}

VARIABLES
  pc, call,     \* where a thread is in which call
  dir,          \* the (normalised) directory of each thread's open
  inst,         \* the SeekdbInstance a thread's call works on
  st,           \* a thread's local shared_ptr<InstanceState>
  dying,        \* the InstanceState whose destructor a thread is running
  owner,        \* holder of each mutex and of the interpreter lock
  instance_,    \* SeekdbInstance::instance_
  db_dir_,      \* SeekdbInstance::db_dir_
  referenced,   \* SeekdbInstances a Python variable refers to
  default_instance,
  conn,         \* Connection::instance_ of each open connection
  handle,       \* is the seekdb handle of an InstanceState open?
  path,         \* the directory it was opened for
  registry      \* instance_states: the weak pointer of each directory

thread  == <<pc, call, dir, inst, st, dying>>
objects == <<instance_, db_dir_, referenced, default_instance, conn>>
states  == <<handle, path, registry>>
vars    == <<thread, owner, objects, states>>

Mutexes == {"gil", "states", "default"} \cup Instances

Holders(s) == {i \in Instances : instance_[i] = s} \cup {t \in Threads : st[t] = s}
              \cup {c \in Connections : conn[c] = s}
use_count(s) == Cardinality(Holders(s))
expired(s) == Holders(s) = {}

FreeState(s) == /\ expired(s) /\ ~handle[s]
                /\ \A t \in Threads : dying[t] # s
                /\ \A d \in Dirs : registry[d] # s
FreeInstance(i) == /\ i \notin referenced /\ default_instance # i
                   /\ \A t \in Threads : inst[t] # i
FreeConnection(c) == conn[c] = Null

Opening(t) == call[t] = "open" /\ pc[t] \in {"lock", "find", "seekdb_open", "make"}

Init ==
  /\ pc = [t \in Threads |-> "python"] /\ call = [t \in Threads |-> "none"]
  /\ dir = [t \in Threads |-> Null] /\ inst = [t \in Threads |-> Null]
  /\ st = [t \in Threads |-> Null] /\ dying = [t \in Threads |-> Null]
  /\ owner = [m \in Mutexes |-> Null]
  /\ instance_ = [i \in Instances |-> Null] /\ db_dir_ = [i \in Instances |-> Null]
  /\ referenced = {} /\ default_instance = Null
  /\ conn = [c \in Connections |-> Null]
  /\ handle = [s \in States |-> FALSE] /\ path = [s \in States |-> Null]
  /\ registry = [d \in Dirs |-> Null]

Goto(t, from, to) == pc[t] = from /\ pc' = [pc EXCEPT ![t] = to]
Lock(t, m) == owner[m] = Null /\ owner' = [owner EXCEPT ![m] = t]
Unlock(ms) == owner' = [m \in Mutexes |-> IF m \in ms THEN Null ELSE owner[m]]

\* A call enters from Python, which takes the interpreter lock; keeps says whether
\* the lock is held during the call (no nb::gil_scoped_release guard).
Call(t, name, at, keeps) ==
  /\ Goto(t, "python", at)
  /\ call' = [call EXCEPT ![t] = name]
  /\ owner["gil"] = Null
  /\ owner' = IF keeps THEN [owner EXCEPT !["gil"] = t] ELSE owner

\* Its result goes back to Python, under the interpreter lock.
Return(t) ==
  /\ Goto(t, "return", "python")
  /\ owner["gil"] \in {Null, t}
  /\ Unlock({m \in {"gil"} : owner[m] = t})
  /\ call' = [call EXCEPT ![t] = "none"]
  /\ dir' = [dir EXCEPT ![t] = Null]
  /\ inst' = [inst EXCEPT ![t] = Null]
  /\ UNCHANGED <<st, dying, objects, states>>

Destroy_KeepsHandle(t) ==
  /\ pc[t] = "destroy"
  /\ pc' = [pc EXCEPT ![t] = "return"]
  /\ dying' = [dying EXCEPT ![t] = Null]
  /\ Unlock(IF call[t] = "close" THEN {"states", inst[t]} ELSE {})
  /\ UNCHANGED <<call, dir, inst, st, objects, states>>

Destroy_Again(t) ==
  /\ pc[t] = "destroy"
  /\ pc' = [pc EXCEPT ![t] = "return"]
  /\ handle' = [handle EXCEPT ![dying[t]] = FALSE]
  /\ Unlock(IF call[t] = "close" THEN {"states", inst[t]} ELSE {})
  /\ UNCHANGED <<call, dir, inst, st, dying, objects, path, registry>>

\* The end of ~InstanceState; close runs it with both its mutexes held.
Destroy(t) ==
  /\ pc[t] = "destroy"
  /\ pc' = [pc EXCEPT ![t] = "return"]
  /\ handle' = [handle EXCEPT ![dying[t]] = FALSE]
  /\ dying' = [dying EXCEPT ![t] = Null]
  /\ Unlock(IF call[t] = "close" THEN {"states", inst[t]} ELSE {})
  /\ UNCHANGED <<call, dir, inst, st, objects, path, registry>>

\* What a thread does next when it drops the holder h of s.
AfterDrop(t, h, s) ==
  IF Holders(s) = {h} /\ handle[s]
  THEN pc' = [pc EXCEPT ![t] = "destroy"] /\ dying' = [dying EXCEPT ![t] = s]
  ELSE pc' = [pc EXCEPT ![t] = "return"] /\ UNCHANGED dying

-----------------------------------------------------------------------------
(* open(db_dir)                                                            *)

OpenCall(t, d) ==
  /\ Call(t, "open", "lock", FALSE)
  /\ Cardinality({i \in Instances : FreeInstance(i)}) > Cardinality({u \in Threads : Opening(u)})
  /\ \E s \in States : FreeState(s)
  /\ dir' = [dir EXCEPT ![t] = d]
  /\ UNCHANGED <<inst, st, dying, objects, states>>

OpenLock(t) ==
  /\ call[t] = "open" /\ Goto(t, "lock", "find")
  /\ Lock(t, "states")
  /\ UNCHANGED <<call, dir, inst, st, dying, objects, states>>

OpenFind_Always(t) ==
  /\ pc[t] = "find"
  /\ pc' = [pc EXCEPT ![t] = "seekdb_open"]
  /\ registry' = [registry EXCEPT ![dir[t]] = Null]
  /\ UNCHANGED <<call, dir, inst, st, dying, owner, objects, handle, path>>

\* Share what is registered and alive, or forget what has expired.
OpenFind(t) ==
  LET s == registry[dir[t]] IN
  /\ pc[t] = "find"
  /\ IF s # Null /\ ~expired(s)
     THEN /\ pc' = [pc EXCEPT ![t] = "make"]
          /\ st' = [st EXCEPT ![t] = s]
          /\ UNCHANGED registry
     ELSE /\ pc' = [pc EXCEPT ![t] = "seekdb_open"]
          /\ registry' = [registry EXCEPT ![dir[t]] = Null]
          /\ UNCHANGED st
  /\ UNCHANGED <<call, dir, inst, dying, owner, objects, handle, path>>

\* seekdb_open, up to three minutes, with the registry locked; it may throw.
OpenFails(t) ==
  /\ Goto(t, "seekdb_open", "return")
  /\ Unlock({"states"})
  /\ UNCHANGED <<call, dir, inst, st, dying, objects, states>>

OpenHandle(t) ==
  /\ Goto(t, "seekdb_open", "make")
  /\ \E s \in States :
       /\ FreeState(s)
       /\ st' = [st EXCEPT ![t] = s]
       /\ handle' = [handle EXCEPT ![s] = TRUE]
       /\ path' = [path EXCEPT ![s] = dir[t]]
       /\ registry' = [registry EXCEPT ![dir[t]] = s]
  /\ UNCHANGED <<call, dir, inst, dying, owner, objects>>

OpenMake_KeepsLock(t) ==
  /\ Goto(t, "make", "default")
  /\ \E i \in Instances :
       /\ FreeInstance(i)
       /\ inst' = [inst EXCEPT ![t] = i]
       /\ instance_' = [instance_ EXCEPT ![i] = st[t]]
       /\ db_dir_' = [db_dir_ EXCEPT ![i] = dir[t]]
  /\ st' = [st EXCEPT ![t] = Null]
  /\ UNCHANGED <<call, dir, dying, owner, referenced, default_instance, conn, states>>

OpenMake(t) ==
  /\ Goto(t, "make", "default")
  /\ \E i \in Instances :
       /\ FreeInstance(i)
       /\ inst' = [inst EXCEPT ![t] = i]
       /\ instance_' = [instance_ EXCEPT ![i] = st[t]]
       /\ db_dir_' = [db_dir_ EXCEPT ![i] = dir[t]]
  /\ st' = [st EXCEPT ![t] = Null]
  /\ Unlock({"states"})
  /\ UNCHANGED <<call, dir, dying, referenced, default_instance, conn, states>>

-----------------------------------------------------------------------------
(* The default instance                                                    *)

\* seekdb::open, and require_default_instance for a module call.
DefaultLock(t) ==
  /\ Goto(t, "default", "closed")
  /\ Lock(t, "default")
  /\ UNCHANGED <<call, dir, inst, st, dying, objects, states>>

\* default_instance->closed() takes that instance's mutex while default_instance_mutex
\* is held: it is read once the mutex is free.
DefaultClosed == \A i \in Instances \cap {default_instance} : instance_[i] = Null

ReadDefault(t) ==
  /\ pc[t] = "closed"
  /\ \A i \in Instances \cap {default_instance} : owner[i] = Null

\* open: the first instance, or the first after the default was closed, is the default.
DefaultOpen(t) ==
  /\ ReadDefault(t) /\ call[t] = "open"
  /\ pc' = [pc EXCEPT ![t] = "return"]
  /\ default_instance' = IF DefaultClosed THEN inst[t] ELSE default_instance
  /\ referenced' = referenced \cup {inst[t]}
  /\ Unlock({"default"})
  /\ UNCHANGED <<call, dir, inst, st, dying, instance_, db_dir_, conn, states>>

NotOpened(t) ==
  /\ ReadDefault(t) /\ call[t] # "open" /\ DefaultClosed
  /\ pc' = [pc EXCEPT ![t] = "return"]
  /\ Unlock({"default"})
  /\ UNCHANGED <<call, dir, inst, st, dying, objects, states>>

\* connection_options releases the interpreter lock here.
DefaultRequire(t) ==
  /\ ReadDefault(t) /\ call[t] # "open" /\ ~DefaultClosed
  /\ pc' = [pc EXCEPT ![t] = "require"]
  /\ inst' = [inst EXCEPT ![t] = default_instance]
  /\ Unlock({"default"} \cup {m \in {"gil"} : owner[m] = t})
  /\ UNCHANGED <<call, dir, st, dying, objects, states>>

-----------------------------------------------------------------------------
(* connect, connection_options                                             *)

\* The module's connect releases the interpreter lock, its connection_options holds
\* it until the default instance is found.
ModuleCall(t, name) ==
  /\ Call(t, name, "default", name = "options")
  /\ UNCHANGED <<dir, inst, st, dying, objects, states>>

InstanceCall(t, name, i) ==
  /\ i \in referenced
  /\ Call(t, name, "require", FALSE)
  /\ inst' = [inst EXCEPT ![t] = i]
  /\ UNCHANGED <<dir, st, dying, objects, states>>

\* require_open copies the shared pointer under the instance's mutex.
RequireOpen(t) ==
  /\ pc[t] = "require"
  /\ owner[inst[t]] = Null
  /\ pc' = [pc EXCEPT ![t] = IF instance_[inst[t]] = Null THEN "return" ELSE "use"]
  /\ st' = [st EXCEPT ![t] = instance_[inst[t]]]
  /\ UNCHANGED <<call, dir, inst, dying, owner, objects, states>>

\* seekdb_connect moves the copy into a Connection, or fails and drops it;
\* seekdb_connection_options drops it.
Use(t) ==
  /\ pc[t] = "use"
  /\ st' = [st EXCEPT ![t] = Null]
  /\ \/ /\ call[t] = "connect"
        /\ \E c \in Connections :
             /\ FreeConnection(c)
             /\ conn' = [conn EXCEPT ![c] = st[t]]
        /\ pc' = [pc EXCEPT ![t] = "return"]
        /\ UNCHANGED dying
     \/ /\ AfterDrop(t, t, st[t])
        /\ UNCHANGED conn
  /\ UNCHANGED <<call, dir, inst, owner, instance_, db_dir_, referenced,
                 default_instance, states>>

\* Connection.close, or its last reference goes: disconnect, then drop the state.
ConnectionClose(t, c) ==
  /\ conn[c] # Null
  /\ pc[t] = "python" /\ owner["gil"] = Null
  /\ AfterDrop(t, c, conn[c])
  /\ conn' = [conn EXCEPT ![c] = Null]
  /\ call' = [call EXCEPT ![t] = "disconnect"]
  /\ owner' = [owner EXCEPT !["gil"] = t]
  /\ UNCHANGED <<dir, inst, st, instance_, db_dir_, referenced, default_instance, states>>

-----------------------------------------------------------------------------
(* close                                                                   *)

CloseCall(t, i) ==
  /\ i \in referenced
  /\ Call(t, "close", "mutex", FALSE)
  /\ inst' = [inst EXCEPT ![t] = i]
  /\ UNCHANGED <<dir, st, dying, objects, states>>

\* The module's close swaps the default instance out first.  Its catch block would put
\* it back, but close_checked throws only where seekdb_close fails: for no handle.
ModuleClose(t) ==
  /\ pc[t] = "python"
  /\ owner["gil"] = Null /\ owner["default"] = Null
  /\ pc' = [pc EXCEPT ![t] = IF default_instance = Null THEN "return" ELSE "mutex"]
  /\ call' = [call EXCEPT ![t] = "close"]
  /\ inst' = [inst EXCEPT ![t] = default_instance]
  /\ default_instance' = Null
  /\ UNCHANGED <<dir, st, dying, owner, instance_, db_dir_, referenced, conn, states>>

CloseLock(t) ==
  /\ pc[t] = "mutex"
  /\ owner[inst[t]] = Null
  /\ IF instance_[inst[t]] = Null
     THEN pc' = [pc EXCEPT ![t] = "return"] /\ UNCHANGED owner
     ELSE pc' = [pc EXCEPT ![t] = "states"] /\ owner' = [owner EXCEPT ![inst[t]] = t]
  /\ UNCHANGED <<call, dir, inst, st, dying, objects, states>>

CloseStates(t) ==
  /\ Goto(t, "states", "count")
  /\ Lock(t, "states")
  /\ UNCHANGED <<call, dir, inst, st, dying, objects, states>>

CloseCount_Any(t) ==
  /\ pc[t] = "count"
  /\ pc' = [pc EXCEPT ![t] = "seekdb_close"]
  /\ UNCHANGED <<call, dir, inst, st, dying, owner, objects, states>>

CloseCount(t) ==
  /\ pc[t] = "count"
  /\ pc' = [pc EXCEPT ![t] = IF use_count(instance_[inst[t]]) = 1 THEN "seekdb_close" ELSE "reset"]
  /\ UNCHANGED <<call, dir, inst, st, dying, owner, objects, states>>

\* close_checked by the last user, and its registry entry goes with it.
CloseHandle(t) ==
  LET s == instance_[inst[t]] IN
  /\ Goto(t, "seekdb_close", "reset")
  /\ handle' = [handle EXCEPT ![s] = FALSE]
  /\ registry' = [registry EXCEPT ![db_dir_[inst[t]]] = IF @ = s THEN Null ELSE @]
  /\ UNCHANGED <<call, dir, inst, st, dying, owner, objects, path>>

\* instance_.reset(): other users may have gone since the count, so this may be the
\* last one after all, and both mutexes are held while it closes the handle.
CloseReset(t) ==
  LET i == inst[t] IN
  /\ pc[t] = "reset"
  /\ instance_' = [instance_ EXCEPT ![i] = Null]
  /\ AfterDrop(t, i, instance_[i])
  /\ IF pc'[t] = "return" THEN Unlock({"states", i}) ELSE UNCHANGED owner
  /\ UNCHANGED <<call, dir, inst, st, db_dir_, referenced, default_instance,
                 conn, states>>

\* The closed property takes the instance's mutex without releasing the
\* interpreter lock.
ClosedCall(t, i) ==
  /\ i \in referenced
  /\ Call(t, "closed", "peek", TRUE)
  /\ inst' = [inst EXCEPT ![t] = i]
  /\ UNCHANGED <<dir, st, dying, objects, states>>

ClosedRead(t) ==
  /\ Goto(t, "peek", "return")
  /\ owner[inst[t]] = Null
  /\ UNCHANGED <<call, dir, inst, st, dying, owner, objects, states>>

\* The last Python reference goes: unless it is also the default instance,
\* ~SeekdbInstance drops the state without closing it.
Forget(t, i) ==
  /\ i \in referenced
  /\ \A u \in Threads : inst[u] # i
  /\ pc[t] = "python" /\ owner["gil"] = Null
  /\ IF default_instance = i \/ instance_[i] = Null
     THEN pc' = [pc EXCEPT ![t] = "return"] /\ UNCHANGED <<dying, instance_>>
     ELSE /\ AfterDrop(t, i, instance_[i])
          /\ instance_' = [instance_ EXCEPT ![i] = Null]
  /\ referenced' = referenced \ {i}
  /\ call' = [call EXCEPT ![t] = "forget"]
  /\ owner' = [owner EXCEPT !["gil"] = t]
  /\ UNCHANGED <<dir, inst, st, db_dir_, default_instance, conn, states>>

-----------------------------------------------------------------------------
Step(t) ==
  \/ Return(t) \/ Destroy(t)
  \/ OpenLock(t) \/ OpenFind(t) \/ OpenFails(t) \/ OpenHandle(t) \/ OpenMake(t)
  \/ DefaultLock(t) \/ DefaultOpen(t) \/ NotOpened(t) \/ DefaultRequire(t)
  \/ RequireOpen(t) \/ Use(t)
  \/ CloseLock(t) \/ CloseStates(t) \/ CloseCount(t) \/ CloseHandle(t) \/ CloseReset(t)
  \/ ClosedRead(t)

Enter(t) ==
  \/ \E d \in Dirs : OpenCall(t, d)
  \/ \E name \in {"connect", "options"} :
       ModuleCall(t, name) \/ \E i \in Instances : InstanceCall(t, name, i)
  \/ ModuleClose(t)
  \/ \E i \in Instances : CloseCall(t, i) \/ ClosedCall(t, i) \/ Forget(t, i)
  \/ \E c \in Connections : ConnectionClose(t, c)

Next == \E t \in Threads : Step(t) \/ Enter(t)

Spec == Init /\ [][Next]_vars

\* Threads inside the module are scheduled.  Neither std::mutex nor the interpreter
\* lock promises a waiter its turn, so no strong fairness is assumed.
FairSpec == Spec /\ \A t \in Threads : WF_vars(Step(t))

-----------------------------------------------------------------------------
PC == {"python", "return", "destroy", "lock", "find", "seekdb_open", "make", "default",
       "closed", "require", "use", "mutex", "states", "count", "seekdb_close", "reset",
       "peek"}

TypeOK ==
  /\ pc \in [Threads -> PC]
  /\ call \in [Threads -> {"none", "open", "connect", "options", "disconnect", "close",
                           "closed", "forget"}]
  /\ dir \in [Threads -> Dirs \cup {Null}]
  /\ inst \in [Threads -> Instances \cup {Null}]
  /\ st \in [Threads -> States \cup {Null}]
  /\ dying \in [Threads -> States \cup {Null}]
  /\ \A t \in Threads : dying[t] # Null <=> pc[t] = "destroy"
  /\ owner \in [Mutexes -> Threads \cup {Null}]
  /\ instance_ \in [Instances -> States \cup {Null}]
  /\ db_dir_ \in [Instances -> Dirs \cup {Null}]
  /\ referenced \subseteq Instances
  /\ default_instance \in Instances \cup {Null}
  /\ conn \in [Connections -> States \cup {Null}]
  /\ handle \in [States -> BOOLEAN]
  /\ path \in [States -> Dirs \cup {Null}]
  /\ registry \in [Dirs -> States \cup {Null}]

\* Every instance of a directory shares one handle: two handles that are in use are
\* never of the same directory (a handle being destroyed may overlap a new one).
OneHandlePerDirectory ==
  \A s1, s2 \in States :
    handle[s1] /\ handle[s2] /\ ~expired(s1) /\ ~expired(s2) /\ path[s1] = path[s2] => s1 = s2

\* No thread connects through, and no connection outlives, a closed handle: close
\* by one instance must see the copies that other instances, connections and running
\* calls hold.
UsedHandleOpen ==
  /\ \A t \in Threads : pc[t] = "use" => handle[st[t]]
  /\ \A c \in Connections : conn[c] # Null => handle[conn[c]]

\* No handle is lost: one that is open has a user, or a thread in its destructor.
NoHandleLeaked ==
  \A s \in States : handle[s] => ~expired(s) \/ \E t \in Threads : dying[t] = s

\* Unless callers keep entering for ever, every call comes back to Python: neither
\* the mutexes, nor the interpreter lock that closed and connection_options hold while
\* they wait for one, can deadlock.
CallsReturn ==
  []<><<\E t \in Threads : Enter(t)>>_vars \/ <>[](\A t \in Threads : pc[t] = "python")

\* What SharedHandle calls its users, their handles and the handles' directories.
Users == Threads \cup Instances \cup Connections
pointer == [u \in Users |-> IF u \in Threads THEN st[u]
                            ELSE IF u \in Instances THEN instance_[u] ELSE conn[u]]
uses == [u \in Users |-> IF pointer[u] # Null /\ handle[pointer[u]] THEN pointer[u] ELSE Null]
dirOf == [s \in States |-> IF handle[s] /\ ~expired(s) THEN path[s] ELSE Null]

Sharing == INSTANCE SharedHandle

\* The registry implements SharedHandle: whatever locks are released between looking
\* up, counting, copying and resetting, a directory has one handle in use, open shares
\* it, and no call closes it but that of its last user.
KeepsSharing == Sharing!Spec
=============================================================================
