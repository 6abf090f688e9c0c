------------------------ MODULE InstanceRegistryProofs ------------------------
(***************************************************************************)
(* For any number of threads, directories and objects: the registry shares *)
(* one handle per directory, closes none that has a user and loses none.   *)
(*                                                                         *)
(* Holders is a set of three kinds of object; the proofs say who holds a   *)
(* state one kind at a time, and the two lemmas below link the two.        *)
(***************************************************************************)
EXTENDS InstanceRegistry, FiniteSetTheorems, TLAPS

Unused(s) ==
  /\ \A i \in Instances : instance_[i] # s
  /\ \A t \in Threads : st[t] # s
  /\ \A c \in Connections : conn[c] # s

\* The instance i is the only holder of s.
Sole(s, i) ==
  /\ i \in Instances /\ instance_[i] = s
  /\ \A j \in Instances \ {i} : instance_[j] # s
  /\ \A t \in Threads : st[t] # s
  /\ \A c \in Connections : conn[c] # s

\* What a thread at each place of each call has in hand.
ThreadInv ==
  \A t \in Threads :
    /\ pc[t] \in {"lock", "find", "seekdb_open", "make"} => call[t] = "open" /\ dir[t] \in Dirs
    /\ pc[t] \in {"default", "closed"} =>
         \/ call[t] = "open" /\ inst[t] \in Instances
         \/ call[t] \in {"connect", "options"}
    /\ pc[t] \in {"require", "use"} => call[t] \in {"connect", "options"}
    /\ pc[t] \in {"require", "peek"} => inst[t] \in Instances
    /\ pc[t] \in {"mutex", "states", "count", "seekdb_close", "reset"} => call[t] = "close"
    /\ pc[t] \in {"mutex", "states", "count", "seekdb_close", "reset", "destroy"}
       /\ call[t] = "close" => inst[t] \in Instances
    /\ pc[t] \in {"states", "count", "seekdb_close", "reset"} => instance_[inst[t]] # Null
    /\ st[t] # Null <=> pc[t] \in {"make", "use"}

\* Who works on the registry, and who closes an instance, holds its mutex.
Registering(t) ==
  \/ pc[t] \in {"find", "seekdb_open", "make", "count", "seekdb_close", "reset"}
  \/ pc[t] = "destroy" /\ call[t] = "close"

Closing(t) ==
  \/ pc[t] \in {"states", "count", "seekdb_close", "reset"}
  \/ pc[t] = "destroy" /\ call[t] = "close"

LockInv ==
  \A t \in Threads :
    /\ Registering(t) => owner["states"] = t
    /\ Closing(t) => owner[inst[t]] = t

\* An instance that shares a state is known to Python, to the module or to the call
\* that opens or closes it: none is overwritten.
Keeps(t, i) ==
  /\ inst[t] = i /\ call[t] \in {"open", "close"}
  /\ pc[t] \in {"default", "closed", "mutex", "states", "count", "seekdb_close", "reset"}

KeptInv ==
  \A i \in Instances :
    instance_[i] # Null =>
      i \in referenced \/ default_instance = i \/ \E t \in Threads : Keeps(t, i)

\* A count of one stays one until the handle is closed and the pointer reset, and only
\* then is a closed handle still held.
CountInv ==
  /\ \A t \in Threads : pc[t] = "seekdb_close" => Sole(instance_[inst[t]], inst[t])
  /\ \A s \in States :
       ~handle[s] => Unused(s) \/ \E t \in Threads : pc[t] = "reset" /\ Sole(s, inst[t])

DyingInv == \A t \in Threads, s \in States : dying[t] = s => Unused(s)

\* A handle in use is the one registered for its directory.
RegisteredInv ==
  /\ \A s \in States : handle[s] /\ ~Unused(s) => path[s] \in Dirs /\ registry[path[s]] = s
  /\ \A t \in Threads : pc[t] = "seekdb_open" => registry[dir[t]] = Null

LeakInv == \A s \in States : handle[s] => ~Unused(s) \/ \E t \in Threads : dying[t] = s

IInv == TypeOK /\ ThreadInv /\ LockInv /\ KeptInv /\ CountInv /\ DyingInv /\ RegisteredInv /\ LeakInv
-----------------------------------------------------------------------------
(* Holders, one kind at a time                                             *)

LEMMA ExpiredUnused ==
  ASSUME NEW s
  PROVE  expired(s) <=> Unused(s)
BY DEF expired, Holders, Unused

LEMMA HoldersSole ==
  ASSUME NEW s, NEW i \in Instances
  PROVE  Holders(s) = {i} <=> Sole(s, i)
BY HoldersAssumption DEF Holders, Sole

LEMMA CountSole ==
  ASSUME NEW s, NEW i \in Instances, instance_[i] = s, use_count(s) = 1
  PROVE  Sole(s, i)
<1>1. IsFiniteSet(Instances \cup Threads \cup Connections)
  BY HoldersAssumption, FS_Union
<1>2. Holders(s) \in SUBSET (Instances \cup Threads \cup Connections)
  BY DEF Holders
<1>3. IsFiniteSet(Holders(s))
  BY <1>1, <1>2, FS_Subset
<1>4. PICK x : Holders(s) = {x}
  BY <1>3, FS_Singleton DEF use_count
<1>5. i \in Holders(s)
  BY DEF Holders
<1>6. Holders(s) = {i}
  BY <1>4, <1>5
<1> QED BY <1>6, HoldersSole

LEMMA OnlyThread ==
  ASSUME NEW s, NEW t \in Threads, st[t] = s
  PROVE  Holders(s) = {t} <=> /\ \A i \in Instances : instance_[i] # s
                              /\ \A u \in Threads \ {t} : st[u] # s
                              /\ \A c \in Connections : conn[c] # s
BY HoldersAssumption DEF Holders

LEMMA OnlyConnection ==
  ASSUME NEW s, NEW c \in Connections, conn[c] = s
  PROVE  Holders(s) = {c} <=> /\ \A i \in Instances : instance_[i] # s
                              /\ \A t \in Threads : st[t] # s
                              /\ \A d \in Connections \ {c} : conn[d] # s
BY HoldersAssumption DEF Holders

\* The constructor takes an instance that shares nothing.
LEMMA FreeSharesNothing ==
  ASSUME KeptInv, NEW i \in Instances, FreeInstance(i)
  PROVE  instance_[i] = Null
BY DEF KeptInv, Keeps, FreeInstance

\* A call enters without touching an object.
Calls(t) ==
  \/ \E d \in Dirs : OpenCall(t, d)
  \/ \E name \in {"connect", "options"} :
       ModuleCall(t, name) \/ \E i \in Instances : InstanceCall(t, name, i)
  \/ \E i \in Instances : CloseCall(t, i) \/ ClosedCall(t, i)

Enters(t) ==
  /\ pc[t] = "python"
  /\ \E at \in {"lock", "default", "require", "mutex", "peek"} : pc' = [pc EXCEPT ![t] = at]
  /\ \E name : call' = [call EXCEPT ![t] = name]
  /\ \E i : inst' = [inst EXCEPT ![t] = i]
  /\ \E d : dir' = [dir EXCEPT ![t] = d]
  /\ owner' \in {owner, [owner EXCEPT !["gil"] = t]}
  /\ UNCHANGED <<st, dying, objects, states>>

LEMMA CallEnters ==
  ASSUME TypeOK, NEW t \in Threads, Calls(t)
  PROVE  Enters(t)
<1> USE DEF TypeOK, Enters, Call, Goto
<1>1. ASSUME NEW d \in Dirs, OpenCall(t, d) PROVE Enters(t)
  <2>1. call' = [call EXCEPT ![t] = "open"] /\ pc' = [pc EXCEPT ![t] = "lock"] BY <1>1 DEF OpenCall
  <2>2. inst' = [inst EXCEPT ![t] = inst[t]] /\ dir' = [dir EXCEPT ![t] = d] BY <1>1 DEF OpenCall
  <2>3. pc[t] = "python" /\ owner' \in {owner, [owner EXCEPT !["gil"] = t]} BY <1>1 DEF OpenCall
  <2> QED BY <1>1, <2>1, <2>2, <2>3 DEF OpenCall
<1>2. ASSUME NEW name \in {"connect", "options"}, ModuleCall(t, name) PROVE Enters(t)
  <2>1. call' = [call EXCEPT ![t] = name] /\ pc' = [pc EXCEPT ![t] = "default"] BY <1>2 DEF ModuleCall
  <2>2. inst' = [inst EXCEPT ![t] = inst[t]] /\ dir' = [dir EXCEPT ![t] = dir[t]] BY <1>2 DEF ModuleCall
  <2>3. owner' \in {owner, [owner EXCEPT !["gil"] = t]} BY <1>2 DEF ModuleCall
  <2> QED BY <1>2, <2>1, <2>2, <2>3 DEF ModuleCall
<1>3. ASSUME NEW name \in {"connect", "options"}, NEW i \in Instances, InstanceCall(t, name, i)
      PROVE  Enters(t)
  <2>1. call' = [call EXCEPT ![t] = name] /\ pc' = [pc EXCEPT ![t] = "require"] BY <1>3 DEF InstanceCall
  <2>2. inst' = [inst EXCEPT ![t] = i] /\ dir' = [dir EXCEPT ![t] = dir[t]] BY <1>3 DEF InstanceCall
  <2> QED BY <1>3, <2>1, <2>2 DEF InstanceCall
<1>4. ASSUME NEW i \in Instances, CloseCall(t, i) PROVE Enters(t)
  <2>1. call' = [call EXCEPT ![t] = "close"] /\ pc' = [pc EXCEPT ![t] = "mutex"] BY <1>4 DEF CloseCall
  <2>2. inst' = [inst EXCEPT ![t] = i] /\ dir' = [dir EXCEPT ![t] = dir[t]] BY <1>4 DEF CloseCall
  <2> QED BY <1>4, <2>1, <2>2 DEF CloseCall
<1>5. ASSUME NEW i \in Instances, ClosedCall(t, i) PROVE Enters(t)
  <2>1. call' = [call EXCEPT ![t] = "closed"] /\ pc' = [pc EXCEPT ![t] = "peek"] BY <1>5 DEF ClosedCall
  <2>2. inst' = [inst EXCEPT ![t] = i] /\ dir' = [dir EXCEPT ![t] = dir[t]] BY <1>5 DEF ClosedCall
  <2> QED BY <1>5, <2>1, <2>2 DEF ClosedCall
<1> QED BY <1>1, <1>2, <1>3, <1>4, <1>5 DEF Calls

-----------------------------------------------------------------------------
\* Every step keeps the types.
LEMMA TypeStep ==
  ASSUME TypeOK, ThreadInv, NEW t \in Threads, Step(t) \/ Enter(t)
  PROVE  TypeOK'
<1> USE NullAssumption, HoldersAssumption DEF objects, states, TypeOK, ThreadInv, PC, Mutexes
<1>1. CASE Return(t)
  BY <1>1 DEF Return, Goto, Unlock
<1>2. CASE Destroy(t)
  BY <1>2 DEF Destroy, Unlock
<1>3. CASE OpenLock(t)
  BY <1>3 DEF OpenLock, Goto, Lock
<1>4. CASE OpenFind(t)
  BY <1>4 DEF OpenFind
<1>5. CASE OpenFails(t)
  BY <1>5 DEF OpenFails, Goto, Unlock
<1>6. CASE OpenHandle(t)
  BY <1>6 DEF OpenHandle, Goto
<1>7. CASE OpenMake(t)
  BY <1>7 DEF OpenMake, Goto, Unlock
<1>8. CASE DefaultLock(t)
  BY <1>8 DEF DefaultLock, Goto, Lock
<1>9. CASE DefaultOpen(t)
  BY <1>9 DEF DefaultOpen, ReadDefault, DefaultClosed, Unlock
<1>10. CASE NotOpened(t)
  BY <1>10 DEF NotOpened, ReadDefault, Unlock
<1>11. CASE DefaultRequire(t)
  BY <1>11 DEF DefaultRequire, ReadDefault, DefaultClosed, Unlock
<1>12. CASE RequireOpen(t)
  BY <1>12 DEF RequireOpen
<1>13. CASE Use(t)
  BY <1>13 DEF Use, AfterDrop
<1>14. CASE CloseLock(t)
  BY <1>14 DEF CloseLock
<1>15. CASE CloseStates(t)
  BY <1>15 DEF CloseStates, Goto, Lock
<1>16. CASE CloseCount(t)
  BY <1>16 DEF CloseCount
<1>17. CASE CloseHandle(t)
  BY <1>17 DEF CloseHandle, Goto
<1>18. CASE CloseReset(t)
  BY <1>18 DEF CloseReset, AfterDrop, Unlock
<1>19. CASE ClosedRead(t)
  BY <1>19 DEF ClosedRead, Goto
<1>20. ASSUME NEW d \in Dirs, OpenCall(t, d)
      PROVE  TypeOK'
  BY <1>20 DEF OpenCall, Call, Goto
<1>21. ASSUME NEW name \in {"connect", "options"}, ModuleCall(t, name)
      PROVE  TypeOK'
  BY <1>21 DEF ModuleCall, Call, Goto
<1>22. ASSUME NEW name \in {"connect", "options"}, NEW i \in Instances, InstanceCall(t, name, i)
      PROVE  TypeOK'
  BY <1>22 DEF InstanceCall, Call, Goto
<1>23. CASE ModuleClose(t)
  BY <1>23 DEF ModuleClose
<1>24. ASSUME NEW i \in Instances, CloseCall(t, i)
      PROVE  TypeOK'
  BY <1>24 DEF CloseCall, Call, Goto
<1>25. ASSUME NEW i \in Instances, ClosedCall(t, i)
      PROVE  TypeOK'
  BY <1>25 DEF ClosedCall, Call, Goto
<1>26. ASSUME NEW i \in Instances, Forget(t, i)
      PROVE  TypeOK'
  BY <1>26 DEF Forget, AfterDrop
<1>27. ASSUME NEW c \in Connections, ConnectionClose(t, c)
      PROVE  TypeOK'
  BY <1>27 DEF ConnectionClose, AfterDrop
<1> QED
  BY <1>1, <1>2, <1>3, <1>4, <1>5, <1>6, <1>7, <1>8, <1>9, <1>10, <1>11, <1>12, <1>13, <1>14, <1>15, <1>16, <1>17, <1>18, <1>19, <1>20, <1>21, <1>22, <1>23, <1>24, <1>25, <1>26, <1>27 DEF Step, Enter

\* Every step leaves its thread with what its next place needs.
LEMMA ThreadStep ==
  ASSUME TypeOK, ThreadInv, LockInv, NEW t \in Threads, Step(t) \/ Enter(t)
  PROVE  ThreadInv'
<1> USE NullAssumption, HoldersAssumption DEF objects, states, TypeOK, ThreadInv, LockInv, Closing
<1>1. CASE Return(t)
  BY <1>1 DEF Return, Goto, Unlock
<1>2. CASE Destroy(t)
  BY <1>2 DEF Destroy, Unlock
<1>3. CASE OpenLock(t)
  BY <1>3 DEF OpenLock, Goto, Lock
<1>4. CASE OpenFind(t)
  BY <1>4 DEF OpenFind
<1>5. CASE OpenFails(t)
  BY <1>5 DEF OpenFails, Goto, Unlock
<1>6. CASE OpenHandle(t)
  BY <1>6 DEF OpenHandle, Goto
<1>7. CASE OpenMake(t)
  BY <1>7 DEF OpenMake, Goto, Unlock
<1>8. CASE DefaultLock(t)
  BY <1>8 DEF DefaultLock, Goto, Lock
<1>9. CASE DefaultOpen(t)
  BY <1>9 DEF DefaultOpen, ReadDefault, DefaultClosed, Unlock
<1>10. CASE NotOpened(t)
  BY <1>10 DEF NotOpened, ReadDefault, Unlock
<1>11. CASE DefaultRequire(t)
  BY <1>11 DEF DefaultRequire, ReadDefault, DefaultClosed, Unlock
<1>12. CASE RequireOpen(t)
  BY <1>12 DEF RequireOpen
<1>13. CASE Use(t)
  BY <1>13 DEF Use, AfterDrop
<1>14. CASE CloseLock(t)
  BY <1>14 DEF CloseLock
<1>15. CASE CloseStates(t)
  BY <1>15 DEF CloseStates, Goto, Lock
<1>16. CASE CloseCount(t)
  BY <1>16 DEF CloseCount
<1>17. CASE CloseHandle(t)
  BY <1>17 DEF CloseHandle, Goto
<1>18. CASE CloseReset(t)
  BY <1>18 DEF CloseReset, AfterDrop, Unlock
<1>19. CASE ClosedRead(t)
  BY <1>19 DEF ClosedRead, Goto
<1>20. ASSUME NEW d \in Dirs, OpenCall(t, d)
      PROVE  ThreadInv'
  BY <1>20 DEF OpenCall, Call, Goto
<1>21. ASSUME NEW name \in {"connect", "options"}, ModuleCall(t, name)
      PROVE  ThreadInv'
  BY <1>21 DEF ModuleCall, Call, Goto
<1>22. ASSUME NEW name \in {"connect", "options"}, NEW i \in Instances, InstanceCall(t, name, i)
      PROVE  ThreadInv'
  BY <1>22 DEF InstanceCall, Call, Goto
<1>23. CASE ModuleClose(t)
  BY <1>23 DEF ModuleClose
<1>24. ASSUME NEW i \in Instances, CloseCall(t, i)
      PROVE  ThreadInv'
  BY <1>24 DEF CloseCall, Call, Goto
<1>25. ASSUME NEW i \in Instances, ClosedCall(t, i)
      PROVE  ThreadInv'
  BY <1>25 DEF ClosedCall, Call, Goto
<1>26. ASSUME NEW i \in Instances, Forget(t, i)
      PROVE  ThreadInv'
  BY <1>26 DEF Forget, AfterDrop
<1>27. ASSUME NEW c \in Connections, ConnectionClose(t, c)
      PROVE  ThreadInv'
  BY <1>27 DEF ConnectionClose, AfterDrop
<1> QED
  BY <1>1, <1>2, <1>3, <1>4, <1>5, <1>6, <1>7, <1>8, <1>9, <1>10, <1>11, <1>12, <1>13, <1>14, <1>15, <1>16, <1>17, <1>18, <1>19, <1>20, <1>21, <1>22, <1>23, <1>24, <1>25, <1>26, <1>27 DEF Step, Enter

\* A mutex is released by its holder only.
LEMMA LockStep ==
  ASSUME TypeOK, ThreadInv, LockInv, NEW t \in Threads, Step(t) \/ Enter(t)
  PROVE  LockInv'
<1> USE NullAssumption, HoldersAssumption DEF objects, states, TypeOK, ThreadInv, LockInv, Closing, Registering, Mutexes
<1>1. CASE Return(t)
  BY <1>1 DEF Return, Goto, Unlock
<1>2. CASE Destroy(t)
  BY <1>2 DEF Destroy, Unlock
<1>3. CASE OpenLock(t)
  BY <1>3 DEF OpenLock, Goto, Lock
<1>4. CASE OpenFind(t)
  BY <1>4 DEF OpenFind
<1>5. CASE OpenFails(t)
  BY <1>5 DEF OpenFails, Goto, Unlock
<1>6. CASE OpenHandle(t)
  BY <1>6 DEF OpenHandle, Goto
<1>7. CASE OpenMake(t)
  BY <1>7 DEF OpenMake, Goto, Unlock
<1>8. CASE DefaultLock(t)
  BY <1>8 DEF DefaultLock, Goto, Lock
<1>9. CASE DefaultOpen(t)
  BY <1>9 DEF DefaultOpen, ReadDefault, DefaultClosed, Unlock
<1>10. CASE NotOpened(t)
  BY <1>10 DEF NotOpened, ReadDefault, Unlock
<1>11. CASE DefaultRequire(t)
  BY <1>11 DEF DefaultRequire, ReadDefault, DefaultClosed, Unlock
<1>12. CASE RequireOpen(t)
  BY <1>12 DEF RequireOpen
<1>13. CASE Use(t)
  BY <1>13 DEF Use, AfterDrop
<1>14. CASE CloseLock(t)
  BY <1>14 DEF CloseLock
<1>15. CASE CloseStates(t)
  BY <1>15 DEF CloseStates, Goto, Lock
<1>16. CASE CloseCount(t)
  BY <1>16 DEF CloseCount
<1>17. CASE CloseHandle(t)
  BY <1>17 DEF CloseHandle, Goto
<1>18. CASE CloseReset(t)
  <2>1. CASE pc'[t] = "return"
    <3>1. pc' = [pc EXCEPT ![t] = "return"] /\ UNCHANGED <<call, inst>>
      BY <1>18, <2>1 DEF CloseReset, AfterDrop
    <3>2. owner' = [m \in Mutexes |-> IF m \in {"states", inst[t]} THEN Null ELSE owner[m]]
      BY <1>18, <2>1 DEF CloseReset, Unlock
    <3>3. owner["states"] = t /\ owner[inst[t]] = t
      BY <1>18 DEF CloseReset
    <3> QED BY <3>1, <3>2, <3>3
  <2>2. CASE pc'[t] # "return"
    BY <1>18, <2>2 DEF CloseReset, AfterDrop
  <2> QED BY <2>1, <2>2
<1>19. CASE ClosedRead(t)
  BY <1>19 DEF ClosedRead, Goto
<1>20. CASE Calls(t)
  BY <1>20, CallEnters DEF Enters
<1>21. CASE ModuleClose(t)
  BY <1>21 DEF ModuleClose
<1>22. ASSUME NEW i \in Instances, Forget(t, i)
      PROVE  LockInv'
  BY <1>22 DEF Forget, AfterDrop
<1>23. ASSUME NEW c \in Connections, ConnectionClose(t, c)
      PROVE  LockInv'
  BY <1>23 DEF ConnectionClose, AfterDrop
<1> QED
  BY <1>1, <1>2, <1>3, <1>4, <1>5, <1>6, <1>7, <1>8, <1>9, <1>10, <1>11, <1>12, <1>13, <1>14, <1>15, <1>16, <1>17, <1>18, <1>19, <1>20, <1>21, <1>22, <1>23 DEF Step, Enter, Calls

\* Nobody can copy a pointer that its instance is about to close: the mutexes are held.
LEMMA CountStep ==
  ASSUME TypeOK, ThreadInv, LockInv, KeptInv, CountInv, DyingInv, NEW t \in Threads, Step(t) \/ Enter(t)
  PROVE  CountInv'
<1> USE NullAssumption, HoldersAssumption DEF objects, states, TypeOK, ThreadInv, LockInv, Registering, Closing, CountInv, DyingInv, Unused, Sole
<1>1. CASE \/ Return(t) \/ OpenLock(t) \/ OpenFails(t) \/ DefaultLock(t) \/ NotOpened(t)
           \/ DefaultRequire(t) \/ CloseLock(t) \/ CloseStates(t) \/ ClosedRead(t)
  BY <1>1 DEF Return, OpenLock, OpenFails, DefaultLock, NotOpened, DefaultRequire, ReadDefault,
     CloseLock, CloseStates, ClosedRead, Goto, Lock, Unlock
<1>2. CASE Destroy(t)
  BY <1>2 DEF Destroy, Unlock
<1>3. CASE OpenFind(t)
  BY <1>3, ExpiredUnused DEF OpenFind
<1>4. CASE OpenHandle(t)
  BY <1>4 DEF OpenHandle, Goto
<1>5. CASE OpenMake(t)
  BY <1>5, FreeSharesNothing DEF OpenMake, Goto, Unlock
<1>6. CASE DefaultOpen(t)
  BY <1>6 DEF DefaultOpen, ReadDefault, DefaultClosed, Unlock
<1>7. CASE RequireOpen(t)
  BY <1>7 DEF RequireOpen
<1>8. CASE Use(t)
  BY <1>8 DEF Use, AfterDrop
<1>9. CASE CloseCount(t)
  BY <1>9, CountSole DEF CloseCount
<1>10. CASE CloseHandle(t)
  BY <1>10 DEF CloseHandle, Goto
<1>11. CASE CloseReset(t)
  BY <1>11 DEF CloseReset, AfterDrop, Unlock
<1>12. CASE Calls(t)
  BY <1>12, CallEnters DEF Enters
<1>13. CASE ModuleClose(t)
  BY <1>13 DEF ModuleClose
<1>14. ASSUME NEW i \in Instances, Forget(t, i)
      PROVE  CountInv'
  BY <1>14 DEF Forget, AfterDrop
<1>15. ASSUME NEW c \in Connections, ConnectionClose(t, c)
      PROVE  CountInv'
  BY <1>15 DEF ConnectionClose, AfterDrop
<1> QED
  BY <1>1, <1>2, <1>3, <1>4, <1>5, <1>6, <1>7, <1>8, <1>9, <1>10, <1>11, <1>12, <1>13, <1>14, <1>15 DEF Step, Enter, Calls

\* A state whose destructor runs has no holder and gets none: its weak pointer has expired.
LEMMA DyingStep ==
  ASSUME TypeOK, ThreadInv, LockInv, KeptInv, CountInv, DyingInv, NEW t \in Threads, Step(t) \/ Enter(t)
  PROVE  DyingInv'
<1> USE NullAssumption, HoldersAssumption DEF objects, states, TypeOK, ThreadInv, KeptInv, DyingInv, Unused
<1>1. CASE \/ Return(t) \/ OpenLock(t) \/ OpenFails(t) \/ DefaultLock(t) \/ NotOpened(t)
           \/ DefaultRequire(t) \/ CloseLock(t) \/ CloseStates(t) \/ ClosedRead(t)
  BY <1>1 DEF Return, OpenLock, OpenFails, DefaultLock, NotOpened, DefaultRequire, ReadDefault,
     CloseLock, CloseStates, ClosedRead, Goto, Lock, Unlock
<1>2. CASE Destroy(t)
  BY <1>2 DEF Destroy, Unlock
<1>3. CASE OpenFind(t)
  BY <1>3, ExpiredUnused DEF OpenFind
<1>4. CASE OpenHandle(t)
  BY <1>4, ExpiredUnused DEF OpenHandle, Goto, FreeState
<1>5. CASE OpenMake(t)
  BY <1>5, FreeSharesNothing DEF OpenMake, Goto, Unlock
<1>6. CASE DefaultOpen(t)
  BY <1>6 DEF DefaultOpen, ReadDefault, DefaultClosed, Unlock
<1>7. CASE RequireOpen(t)
  BY <1>7 DEF RequireOpen
<1>8. CASE Use(t)
  BY <1>8, OnlyThread DEF Use, AfterDrop
<1>9. CASE CloseCount(t)
  BY <1>9 DEF CloseCount
<1>10. CASE CloseHandle(t)
  BY <1>10 DEF CloseHandle, Goto
<1>11. CASE CloseReset(t)
  BY <1>11, HoldersSole DEF CloseReset, AfterDrop, Unlock, Sole
<1>12. CASE Calls(t)
  BY <1>12, CallEnters DEF Enters
<1>13. CASE ModuleClose(t)
  BY <1>13 DEF ModuleClose
<1>14. ASSUME NEW i \in Instances, Forget(t, i)
      PROVE  DyingInv'
  <2>1. CASE default_instance = i \/ instance_[i] = Null
    BY <1>14, <2>1 DEF Forget
  <2>2. CASE ~(default_instance = i \/ instance_[i] = Null)
    <3>1. AfterDrop(t, i, instance_[i]) /\ instance_' = [instance_ EXCEPT ![i] = Null]
          /\ UNCHANGED <<st, conn>>
      BY <1>14, <2>2 DEF Forget
    <3>2. CASE Sole(instance_[i], i)
      BY <3>1, <3>2 DEF AfterDrop, Sole
    <3>3. CASE ~Sole(instance_[i], i)
      <4>1. UNCHANGED dying BY <3>1, <3>3, HoldersSole DEF AfterDrop
      <4> QED BY <3>1, <4>1
    <3> QED BY <3>2, <3>3
  <2> QED BY <2>1, <2>2
<1>15. ASSUME NEW c \in Connections, ConnectionClose(t, c)
      PROVE  DyingInv'
  BY <1>15, OnlyConnection DEF ConnectionClose, AfterDrop
<1> QED
  BY <1>1, <1>2, <1>3, <1>4, <1>5, <1>6, <1>7, <1>8, <1>9, <1>10, <1>11, <1>12, <1>13, <1>14, <1>15 DEF Step, Enter, Calls

\* A registration is replaced only when the registered state has no holder.
LEMMA RegisteredStep ==
  ASSUME TypeOK, ThreadInv, LockInv, KeptInv, CountInv, RegisteredInv, NEW t \in Threads, Step(t) \/ Enter(t)
  PROVE  RegisteredInv'
<1> USE NullAssumption, HoldersAssumption DEF objects, states, TypeOK, ThreadInv, LockInv, Registering, RegisteredInv, Unused
<1>1. CASE \/ Return(t) \/ OpenLock(t) \/ OpenFails(t) \/ DefaultLock(t) \/ NotOpened(t)
           \/ DefaultRequire(t) \/ CloseLock(t) \/ CloseStates(t) \/ ClosedRead(t)
  BY <1>1 DEF Return, OpenLock, OpenFails, DefaultLock, NotOpened, DefaultRequire, ReadDefault,
     CloseLock, CloseStates, ClosedRead, Goto, Lock, Unlock
<1>2. CASE Destroy(t)
  BY <1>2 DEF Destroy, Unlock
<1>3. CASE OpenFind(t)
  BY <1>3, ExpiredUnused DEF OpenFind
<1>4. CASE OpenHandle(t)
  BY <1>4 DEF OpenHandle, Goto
<1>5. CASE OpenMake(t)
  BY <1>5 DEF OpenMake, Goto, Unlock
<1>6. CASE DefaultOpen(t)
  BY <1>6 DEF DefaultOpen, ReadDefault, DefaultClosed, Unlock
<1>7. CASE RequireOpen(t)
  BY <1>7 DEF RequireOpen
<1>8. CASE Use(t)
  BY <1>8 DEF Use, AfterDrop
<1>9. CASE CloseCount(t)
  BY <1>9 DEF CloseCount
<1>10. CASE CloseHandle(t)
  BY <1>10 DEF CloseHandle, Goto
<1>11. CASE CloseReset(t)
  BY <1>11 DEF CloseReset, AfterDrop, Unlock
<1>12. CASE Calls(t)
  BY <1>12, CallEnters DEF Enters
<1>13. CASE ModuleClose(t)
  BY <1>13 DEF ModuleClose
<1>14. ASSUME NEW i \in Instances, Forget(t, i)
      PROVE  RegisteredInv'
  BY <1>14 DEF Forget, AfterDrop
<1>15. ASSUME NEW c \in Connections, ConnectionClose(t, c)
      PROVE  RegisteredInv'
  BY <1>15 DEF ConnectionClose, AfterDrop
<1> QED
  BY <1>1, <1>2, <1>3, <1>4, <1>5, <1>6, <1>7, <1>8, <1>9, <1>10, <1>11, <1>12, <1>13, <1>14, <1>15 DEF Step, Enter, Calls

\* Whoever drops the last holder of an open handle runs its destructor.
LEMMA LeakStep ==
  ASSUME TypeOK, ThreadInv, LockInv, KeptInv, CountInv, DyingInv, LeakInv, NEW t \in Threads, Step(t) \/ Enter(t)
  PROVE  LeakInv'
<1> USE NullAssumption, HoldersAssumption DEF objects, states, TypeOK, ThreadInv, KeptInv, DyingInv, LeakInv, Unused
<1>1. CASE \/ Return(t) \/ OpenLock(t) \/ OpenFails(t) \/ DefaultLock(t) \/ NotOpened(t)
           \/ DefaultRequire(t) \/ CloseLock(t) \/ CloseStates(t) \/ ClosedRead(t)
  BY <1>1 DEF Return, OpenLock, OpenFails, DefaultLock, NotOpened, DefaultRequire, ReadDefault,
     CloseLock, CloseStates, ClosedRead, Goto, Lock, Unlock
<1>2. CASE Destroy(t)
  BY <1>2 DEF Destroy, Unlock
<1>3. CASE OpenFind(t)
  BY <1>3, ExpiredUnused DEF OpenFind
<1>4. CASE OpenHandle(t)
  BY <1>4, ExpiredUnused DEF OpenHandle, Goto, FreeState
<1>5. CASE OpenMake(t)
  BY <1>5, FreeSharesNothing DEF OpenMake, Goto, Unlock
<1>6. CASE DefaultOpen(t)
  BY <1>6 DEF DefaultOpen, ReadDefault, DefaultClosed, Unlock
<1>7. CASE RequireOpen(t)
  BY <1>7 DEF RequireOpen
<1>8. CASE Use(t)
  <2>1. CASE call[t] = "connect" /\ UNCHANGED dying
    <3>1. st' = [st EXCEPT ![t] = Null] /\ UNCHANGED <<instance_, handle>>
      BY <1>8 DEF Use
    <3>2. CASE UNCHANGED conn
      BY <1>8, <2>1, <3>2, OnlyThread DEF Use, AfterDrop
    <3>3. ASSUME NEW c \in Connections, FreeConnection(c), conn' = [conn EXCEPT ![c] = st[t]]
          PROVE  LeakInv'
      BY <2>1, <3>1, <3>3 DEF FreeConnection
    <3> QED BY <1>8, <2>1, <3>2, <3>3 DEF Use
  <2>2. CASE AfterDrop(t, t, st[t]) /\ UNCHANGED conn
    BY <1>8, <2>2, OnlyThread DEF Use, AfterDrop
  <2> QED BY <1>8, <2>1, <2>2 DEF Use
<1>9. CASE CloseCount(t)
  BY <1>9 DEF CloseCount
<1>10. CASE CloseHandle(t)
  BY <1>10 DEF CloseHandle, Goto
<1>11. CASE CloseReset(t)
  BY <1>11, HoldersSole DEF CloseReset, AfterDrop, Unlock, Sole
<1>12. CASE Calls(t)
  BY <1>12, CallEnters DEF Enters
<1>13. CASE ModuleClose(t)
  BY <1>13 DEF ModuleClose
<1>14. ASSUME NEW i \in Instances, Forget(t, i)
      PROVE  LeakInv'
  BY <1>14, HoldersSole DEF Forget, AfterDrop, Sole
<1>15. ASSUME NEW c \in Connections, ConnectionClose(t, c)
      PROVE  LeakInv'
  BY <1>15, OnlyConnection DEF ConnectionClose, AfterDrop
<1> QED
  BY <1>1, <1>2, <1>3, <1>4, <1>5, <1>6, <1>7, <1>8, <1>9, <1>10, <1>11, <1>12, <1>13, <1>14, <1>15 DEF Step, Enter, Calls

\* An instance that shares a state stays known to somebody.
LEMMA KeptStep ==
  ASSUME TypeOK, ThreadInv, KeptInv, NEW t \in Threads, Step(t) \/ Enter(t)
  PROVE  KeptInv'
<1> USE NullAssumption, HoldersAssumption DEF objects, states, TypeOK, ThreadInv, KeptInv, Keeps
<1>1. CASE \/ Return(t) \/ OpenLock(t) \/ OpenFails(t) \/ DefaultLock(t) \/ NotOpened(t)
           \/ DefaultRequire(t) \/ CloseLock(t) \/ CloseStates(t) \/ ClosedRead(t)
  BY <1>1 DEF Return, OpenLock, OpenFails, DefaultLock, NotOpened, DefaultRequire, ReadDefault,
     CloseLock, CloseStates, ClosedRead, Goto, Lock, Unlock
<1>2. CASE Destroy(t)
  BY <1>2 DEF Destroy, Unlock
<1>3. CASE OpenFind(t)
  BY <1>3 DEF OpenFind
<1>4. CASE OpenHandle(t)
  BY <1>4 DEF OpenHandle, Goto
<1>5. CASE OpenMake(t)
  BY <1>5 DEF OpenMake, Goto, Unlock
<1>6. CASE DefaultOpen(t)
  BY <1>6 DEF DefaultOpen, ReadDefault, DefaultClosed, Unlock
<1>7. CASE RequireOpen(t)
  BY <1>7 DEF RequireOpen
<1>8. CASE Use(t)
  BY <1>8 DEF Use, AfterDrop
<1>9. CASE CloseCount(t)
  BY <1>9 DEF CloseCount
<1>10. CASE CloseHandle(t)
  BY <1>10 DEF CloseHandle, Goto
<1>11. CASE CloseReset(t)
  BY <1>11 DEF CloseReset, AfterDrop, Unlock
<1>12. CASE Calls(t)
  BY <1>12, CallEnters DEF Enters
<1>13. CASE ModuleClose(t)
  BY <1>13 DEF ModuleClose
<1>14. ASSUME NEW i \in Instances, Forget(t, i)
      PROVE  KeptInv'
  BY <1>14 DEF Forget, AfterDrop
<1>15. ASSUME NEW c \in Connections, ConnectionClose(t, c)
      PROVE  KeptInv'
  BY <1>15 DEF ConnectionClose, AfterDrop
<1> QED
  BY <1>1, <1>2, <1>3, <1>4, <1>5, <1>6, <1>7, <1>8, <1>9, <1>10, <1>11, <1>12, <1>13, <1>14, <1>15 DEF Step, Enter, Calls

-----------------------------------------------------------------------------
LEMMA StepInv ==
  ASSUME IInv, [Next]_vars
  PROVE  IInv'
<1>1. CASE Next
  <2>1. PICK t \in Threads : Step(t) \/ Enter(t)
    BY <1>1 DEF Next
  <2> QED BY <2>1, TypeStep, ThreadStep, LockStep, KeptStep, CountStep, DyingStep,
             RegisteredStep, LeakStep DEF IInv
<1>2. CASE UNCHANGED vars
  BY <1>2 DEF vars, thread, objects, states, IInv, TypeOK, ThreadInv, LockInv, Registering,
     Closing, KeptInv, Keeps, CountInv, Sole, Unused, DyingInv, RegisteredInv, LeakInv
<1> QED BY <1>1, <1>2

LEMMA InitInv ==
  ASSUME Init
  PROVE  IInv
BY NullAssumption DEF Init, IInv, TypeOK, PC, Mutexes, ThreadInv, LockInv, Registering, Closing,
   KeptInv, CountInv, DyingInv, RegisteredInv, LeakInv, Unused

LEMMA Inductive == Spec => []IInv
BY InitInv, StepInv, PTL DEF Spec

\* Every variable of the registry, its threads and its objects keeps its type.
THEOREM Types == Spec => []TypeOK
<1>1. IInv => TypeOK BY DEF IInv
<1> QED BY <1>1, Inductive, PTL

\* All the instances of a directory share one handle, however many threads open, connect,
\* close and drop: opening forgets a registered state only when nobody holds it.
THEOREM OneHandle == Spec => []OneHandlePerDirectory
<1>1. IInv => OneHandlePerDirectory
  BY ExpiredUnused DEF IInv, RegisteredInv, OneHandlePerDirectory
<1> QED BY <1>1, Inductive, PTL

\* close's use_count is good enough: while both mutexes are held a count of one can only
\* stay one, so no handle is closed under a running call or a connection.
THEOREM HandleOpenInUse == Spec => []UsedHandleOpen
<1>1. IInv => UsedHandleOpen
  <2> SUFFICES ASSUME IInv PROVE UsedHandleOpen
    OBVIOUS
  <2> USE DEF IInv, TypeOK, ThreadInv, CountInv
  <2>1. ASSUME NEW t \in Threads, pc[t] = "use" PROVE handle[st[t]]
    <3>1. st[t] \in States BY <2>1
    <3> QED BY <3>1, <2>1 DEF Unused, Sole
  <2>2. ASSUME NEW c \in Connections, conn[c] # Null PROVE handle[conn[c]]
    <3>1. conn[c] \in States BY <2>2
    <3> QED BY <3>1 DEF Unused, Sole
  <2> QED BY <2>1, <2>2 DEF UsedHandleOpen
<1> QED BY <1>1, Inductive, PTL

\* No open handle is forgotten: a count above one that is out of date when close resets the
\* pointer only moves the closing into the destructor.
THEOREM NothingLeaked == Spec => []NoHandleLeaked
<1>1. IInv => NoHandleLeaked
  BY ExpiredUnused DEF IInv, LeakInv, NoHandleLeaked
<1> QED BY <1>1, Inductive, PTL

-----------------------------------------------------------------------------
(* The promise of SharedHandle                                             *)

Promised == [Sharing!Next]_(Sharing!vars)

PointerTypes ==
  /\ pointer \in [Users -> States \cup {Null}]
  /\ handle \in [States -> BOOLEAN] /\ path \in [States -> Dirs \cup {Null}]

LEMMA PointersTyped == TypeOK => PointerTypes
BY DEF TypeOK, PointerTypes, pointer, Users

\* A state has expired when no user points at it.
LEMMA Pointing ==
  ASSUME NEW s
  PROVE  /\ expired(s) <=> \A u \in Users : pointer[u] # s
         /\ expired(s)' <=> \A u \in Users : pointer'[u] # s
<1>1. \A u \in Users : /\ u \in Threads => pointer[u] = st[u] /\ pointer'[u] = st'[u]
                       /\ u \in Instances => pointer[u] = instance_[u] /\ pointer'[u] = instance_'[u]
                       /\ u \in Connections => pointer[u] = conn[u] /\ pointer'[u] = conn'[u]
  BY HoldersAssumption DEF pointer
<1>2. expired(s) <=> /\ \A i \in Instances : instance_[i] # s
                     /\ \A t \in Threads : st[t] # s
                     /\ \A c \in Connections : conn[c] # s
  BY DEF expired, Holders
<1>3. expired(s)' <=> /\ \A i \in Instances : instance_'[i] # s
                      /\ \A t \in Threads : st'[t] # s
                      /\ \A c \in Connections : conn'[c] # s
  BY DEF expired, Holders
<1> QED
  BY <1>1, <1>2, <1>3 DEF Users

LEMMA Directories ==
  /\ dirOf = [s \in States |-> IF handle[s] /\ (\E u \in Users : pointer[u] = s)
                               THEN path[s] ELSE Null]
  /\ dirOf' = [s \in States |-> IF handle'[s] /\ (\E u \in Users : pointer'[u] = s)
                                THEN path'[s] ELSE Null]
<1>1. \A s \in States : (~expired(s) <=> \E u \in Users : pointer[u] = s)
                        /\ (~(expired(s)') <=> \E u \in Users : pointer'[u] = s)
  BY Pointing
<1> QED
  BY <1>1 DEF dirOf

LEMMA UsesAre ==
  /\ uses = [u \in Users |-> IF pointer[u] # Null /\ handle[pointer[u]] THEN pointer[u] ELSE Null]
  /\ uses' = [u \in Users |-> IF pointer'[u] # Null /\ handle'[pointer'[u]]
                              THEN pointer'[u] ELSE Null]
BY DEF uses

\* Where no pointer and no handle changes, nothing is said.
LEMMA QuietStep ==
  ASSUME UNCHANGED <<st, instance_, conn, handle, path>>
  PROVE  Promised
<1>1. pointer' = pointer
  BY DEF pointer
<1>2. uses' = uses /\ dirOf' = dirOf
  BY <1>1, UsesAre, Directories
<1> QED
  BY <1>2 DEF Promised, Sharing!vars

\* Whoever drops its pointer leaves, unless the handle was closed before.
LEMMA DropStep ==
  ASSUME PointerTypes, NEW u \in Users, pointer' = [pointer EXCEPT ![u] = Null],
         UNCHANGED <<handle, path>>
  PROVE  Promised
<1> USE NullAssumption DEF PointerTypes
<1> DEFINE s == pointer[u]
<1>1. CASE s = Null \/ ~handle[s]
  <2>1. uses' = uses
    BY <1>1, UsesAre
  <2>2. \A x \in States : handle[x] =>
          ((\E v \in Users : pointer'[v] = x) <=> \E v \in Users : pointer[v] = x)
    BY <1>1
  <2>3. dirOf' = dirOf
    BY <2>2, Directories
  <2> QED
    BY <2>1, <2>3 DEF Promised, Sharing!vars
<1>2. CASE s # Null /\ handle[s]
  <2>1. s \in States /\ uses[u] = s /\ uses' = [uses EXCEPT ![u] = Null]
    BY <1>2, UsesAre
  <2>2. (\E v \in Users \ {u} : uses[v] = uses[u]) <=> \E v \in Users \ {u} : pointer[v] = s
    BY <1>2, <2>1, UsesAre
  <2>3. \A x \in States \ {s} :
          (\E v \in Users : pointer'[v] = x) <=> \E v \in Users : pointer[v] = x
    OBVIOUS
  <2>4. (\E v \in Users : pointer'[v] = s) <=> \E v \in Users \ {u} : pointer[v] = s
    BY <1>2
  <2>5. \E v \in Users : pointer[v] = s
    OBVIOUS
  <2>6. dirOf' = IF \E v \in Users \ {u} : uses[v] = uses[u] THEN dirOf
                 ELSE [dirOf EXCEPT ![uses[u]] = Null]
    <3> HIDE DEF s
    <3>1. CASE \E v \in Users \ {u} : pointer[v] = s
      BY <2>2, <2>3, <2>4, <2>5, <3>1, Directories
    <3>2. CASE ~\E v \in Users \ {u} : pointer[v] = s
      BY <2>1, <2>2, <2>3, <2>4, <3>2, Directories
    <3> QED
      BY <3>1, <3>2
  <2>7. Sharing!Leave(u)
    BY <1>2, <2>1, <2>6 DEF Sharing!Leave
  <2> QED
    BY <2>7 DEF Promised, Sharing!Next
<1> QED
  BY <1>1, <1>2

\* Whoever copies a pointer to an open handle shares that handle.
LEMMA CopyStep ==
  ASSUME PointerTypes, NEW u \in Users, NEW s \in States, pointer[u] = Null,
         pointer' = [pointer EXCEPT ![u] = s], UNCHANGED <<handle, path>>,
         handle[s], path[s] # Null, \E v \in Users : pointer[v] = s
  PROVE  Promised
<1> USE NullAssumption DEF PointerTypes
<1>1. uses[u] = Null /\ uses' = [uses EXCEPT ![u] = s]
  BY UsesAre
<1>2. dirOf[s] # Null
  BY Directories
<1>3. \A x \in States : (\E v \in Users : pointer'[v] = x) <=> \E v \in Users : pointer[v] = x
  OBVIOUS
<1>4. dirOf' = dirOf
  BY <1>3, Directories
<1>5. Sharing!Share(u, s)
  BY <1>1, <1>2, <1>4 DEF Sharing!Share
<1> QED
  BY <1>5 DEF Promised, Sharing!Next

\* Whoever moves its pointer into another user hands on its use.
LEMMA MoveStep ==
  ASSUME PointerTypes, NEW u \in Users, NEW v \in Users, u # v,
         pointer[u] # Null, handle[pointer[u]], pointer[v] = Null,
         pointer' = [pointer EXCEPT ![u] = Null, ![v] = pointer[u]], UNCHANGED <<handle, path>>
  PROVE  Promised
<1> USE NullAssumption DEF PointerTypes
<1>1. /\ uses[u] = pointer[u] /\ uses[v] = Null
      /\ uses' = [uses EXCEPT ![u] = Null, ![v] = pointer[u]]
  BY UsesAre
<1>2. \A x \in States : (\E w \in Users : pointer'[w] = x) <=> \E w \in Users : pointer[w] = x
  OBVIOUS
<1>3. dirOf' = dirOf
  BY <1>2, Directories
<1>4. Sharing!HandOn(u, v) /\ v \in Users \ {u}
  BY <1>1, <1>3 DEF Sharing!HandOn
<1> QED
  BY <1>4 DEF Promised, Sharing!Next

\* A handle is opened where no handle in use is of the directory.
LEMMA OpenStep ==
  ASSUME PointerTypes, NEW u \in Users, NEW s \in States, NEW d \in Dirs, pointer[u] = Null,
         \A v \in Users : pointer[v] # s,
         \A x \in States : handle[x] /\ (\E v \in Users : pointer[v] = x) => path[x] # d,
         pointer' = [pointer EXCEPT ![u] = s],
         handle' = [handle EXCEPT ![s] = TRUE], path' = [path EXCEPT ![s] = d]
  PROVE  Promised
<1> USE NullAssumption DEF PointerTypes
<1>1. uses[u] = Null /\ uses' = [uses EXCEPT ![u] = s]
  BY UsesAre
<1>2. dirOf[s] = Null /\ \A x \in States : dirOf[x] # d
  BY Directories
<1>3. \A x \in States \ {s} :
        (\E v \in Users : pointer'[v] = x) <=> \E v \in Users : pointer[v] = x
  OBVIOUS
<1>4. \E v \in Users : pointer'[v] = s
  OBVIOUS
<1>5. dirOf' = [dirOf EXCEPT ![s] = d]
  BY <1>3, <1>4, Directories
<1>6. Sharing!Open(u, d, s)
  BY <1>1, <1>2, <1>5 DEF Sharing!Open
<1> QED
  BY <1>6 DEF Promised, Sharing!Next

\* The handle of a sole user, or of none, is closed.
LEMMA CloseStep ==
  ASSUME PointerTypes, NEW s \in States, NEW u \in Users,
         \A v \in Users \ {u} : pointer[v] # s,
         UNCHANGED <<pointer, path>>, handle' = [handle EXCEPT ![s] = FALSE]
  PROVE  Promised
<1> USE NullAssumption DEF PointerTypes
<1>1. CASE pointer[u] = s /\ handle[s]
  <2>1. uses[u] = s /\ uses' = [uses EXCEPT ![u] = Null]
    BY <1>1, UsesAre
  <2>2. ~\E v \in Users \ {u} : uses[v] = uses[u]
    BY <2>1, UsesAre
  <2>3. dirOf' = [dirOf EXCEPT ![uses[u]] = Null]
    BY <2>1, Directories
  <2>4. Sharing!Leave(u)
    BY <2>1, <2>2, <2>3 DEF Sharing!Leave
  <2> QED
    BY <2>4 DEF Promised, Sharing!Next
<1>2. CASE ~(pointer[u] = s /\ handle[s])
  <2>1. uses' = uses
    BY <1>2, UsesAre
  <2>2. dirOf' = dirOf
    BY <1>2, Directories
  <2> QED
    BY <2>1, <2>2 DEF Promised, Sharing!vars
<1> QED
  BY <1>1, <1>2

\* One pointer changes, of whichever kind its holder is.
LEMMA PointerOfThread ==
  ASSUME TypeOK, NEW t \in Threads, NEW x, st' = [st EXCEPT ![t] = x],
         UNCHANGED <<instance_, conn>>
  PROVE  pointer' = [pointer EXCEPT ![t] = x]
<1>1. t \in Users /\ st \in [Threads -> States \cup {Null}]
  BY DEF Users, TypeOK
<1>2. ASSUME NEW u \in Users PROVE pointer'[u] = IF u = t THEN x ELSE pointer[u]
  BY <1>1, HoldersAssumption DEF pointer
<1> QED
  BY <1>1, <1>2 DEF pointer

LEMMA PointerOfInstance ==
  ASSUME TypeOK, NEW i \in Instances, NEW x, instance_' = [instance_ EXCEPT ![i] = x],
         UNCHANGED <<st, conn>>
  PROVE  pointer' = [pointer EXCEPT ![i] = x]
<1>1. i \in Users /\ i \notin Threads /\ instance_ \in [Instances -> States \cup {Null}]
  BY HoldersAssumption DEF Users, TypeOK
<1>2. ASSUME NEW u \in Users PROVE pointer'[u] = IF u = i THEN x ELSE pointer[u]
  BY <1>1, HoldersAssumption DEF pointer
<1> QED
  BY <1>1, <1>2 DEF pointer

LEMMA PointerOfConnection ==
  ASSUME TypeOK, NEW c \in Connections, NEW x, conn' = [conn EXCEPT ![c] = x],
         UNCHANGED <<st, instance_>>
  PROVE  pointer' = [pointer EXCEPT ![c] = x]
<1>1. /\ c \in Users /\ c \notin Threads \cup Instances
      /\ conn \in [Connections -> States \cup {Null}]
  BY HoldersAssumption DEF Users, TypeOK
<1>2. ASSUME NEW u \in Users PROVE pointer'[u] = IF u = c THEN x ELSE pointer[u]
  BY <1>1, HoldersAssumption DEF pointer, Users
<1> QED
  BY <1>1, <1>2 DEF pointer

LEMMA PointersAre ==
  /\ \A t \in Threads : t \in Users /\ pointer[t] = st[t]
  /\ \A i \in Instances : i \in Users /\ pointer[i] = instance_[i]
  /\ \A c \in Connections : c \in Users /\ pointer[c] = conn[c]
  /\ \A u \in Users : u \in Threads \/ u \in Instances \/ u \in Connections
BY HoldersAssumption DEF pointer, Users

\* Every step of the registry is a step or a stutter of SharedHandle.
LEMMA Shares ==
  ASSUME IInv, NEW t \in Threads, Step(t) \/ Enter(t)
  PROVE  Promised
<1> TypeOK /\ PointerTypes /\ t \in Users /\ Null \notin Dirs \cup States \cup Threads
  BY PointersTyped, PointersAre, NullAssumption DEF IInv
<1>0. \A s \in States : /\ handle[s] \/ Unused(s) \/ \E u \in Threads : pc[u] = "reset" /\ Sole(s, inst[u])
                        /\ Unused(s) <=> \A u \in Users : pointer[u] # s
  BY PointersAre, ExpiredUnused, Pointing DEF IInv, CountInv
<1> USE DEF objects, states
<1>1. CASE \/ Return(t) \/ OpenLock(t) \/ OpenFails(t) \/ DefaultLock(t) \/ DefaultOpen(t)
           \/ NotOpened(t) \/ DefaultRequire(t) \/ CloseLock(t) \/ CloseStates(t)
           \/ CloseCount(t) \/ ClosedRead(t)
  <2>1. UNCHANGED <<st, instance_, conn, handle, path>>
    BY <1>1 DEF Return, OpenLock, OpenFails, DefaultLock, DefaultOpen, NotOpened, DefaultRequire,
       CloseLock, CloseStates, CloseCount, ClosedRead
  <2> QED
    BY <2>1, QuietStep
<1>2. CASE Destroy(t)
  <2>1. dying[t] \in States /\ Unused(dying[t])
    BY <1>2 DEF Destroy, IInv, TypeOK, DyingInv
  <2>2. pointer' = pointer /\ path' = path /\ handle' = [handle EXCEPT ![dying[t]] = FALSE]
    BY <1>2 DEF Destroy, pointer
  <2> QED
    BY <2>1, <2>2, <1>0, CloseStep
<1>3. CASE OpenFind(t)
  <2> DEFINE s == registry[dir[t]]
  <2>1. CASE s # Null /\ ~expired(s)
    <3>1. pc[t] = "find" /\ dir[t] \in Dirs /\ st[t] = Null /\ s \in States
      BY <1>3, <2>1 DEF OpenFind, IInv, TypeOK, ThreadInv
    <3>2. ~Unused(s)
      BY <2>1, ExpiredUnused
    <3>3. \A u \in Threads : pc[u] # "reset"
      BY <3>1 DEF IInv, LockInv, Registering
    <3>4. handle[s] /\ path[s] # Null
      BY <1>0, <3>1, <3>2, <3>3 DEF IInv, RegisteredInv
    <3>5. st' = [st EXCEPT ![t] = s] /\ UNCHANGED <<instance_, conn, handle, path>>
      BY <1>3, <2>1 DEF OpenFind
    <3>6. pointer[t] = Null /\ \E v \in Users : pointer[v] = s
      BY <1>0, <3>1, <3>2, PointersAre
    <3> HIDE DEF s
    <3> QED
      BY <3>1, <3>4, <3>5, <3>6, PointerOfThread, CopyStep
  <2>2. CASE ~(s # Null /\ ~expired(s))
    <3>1. UNCHANGED <<st, instance_, conn, handle, path>>
      BY <1>3, <2>2 DEF OpenFind
    <3> QED
      BY <3>1, QuietStep
  <2> QED
    BY <2>1, <2>2
<1>4. CASE OpenHandle(t)
  <2>1. PICK s \in States : /\ FreeState(s) /\ st' = [st EXCEPT ![t] = s]
                            /\ handle' = [handle EXCEPT ![s] = TRUE]
                            /\ path' = [path EXCEPT ![s] = dir[t]]
                            /\ UNCHANGED <<instance_, conn>>
    BY <1>4 DEF OpenHandle
  <2>2. pc[t] = "seekdb_open" /\ dir[t] \in Dirs /\ st[t] = Null /\ registry[dir[t]] = Null
    BY <1>4 DEF OpenHandle, Goto, IInv, ThreadInv, RegisteredInv
  <2>3. pointer[t] = Null /\ \A v \in Users : pointer[v] # s
    BY <2>1, <2>2, PointersAre, Pointing DEF FreeState
  <2>4. \A x \in States : handle[x] /\ (\E v \in Users : pointer[v] = x) => path[x] # dir[t]
    BY <1>0, <2>2 DEF IInv, RegisteredInv
  <2>5. pointer' = [pointer EXCEPT ![t] = s]
    BY <2>1, PointerOfThread
  <2> QED
    BY <2>1, <2>2, <2>3, <2>4, <2>5, OpenStep
<1>5. CASE OpenMake(t)
  <2>1. PICK i \in Instances : /\ FreeInstance(i) /\ instance_' = [instance_ EXCEPT ![i] = st[t]]
                               /\ st' = [st EXCEPT ![t] = Null]
                               /\ UNCHANGED <<conn, handle, path>>
    BY <1>5 DEF OpenMake
  <2>2. instance_[i] = Null
    BY <2>1, FreeSharesNothing DEF IInv
  <2>3. st[t] \in States
    BY <1>5 DEF OpenMake, Goto, IInv, ThreadInv, TypeOK
  <2>4. handle[st[t]]
    BY <1>0, <2>3 DEF Unused, Sole
  <2>5. pointer' = [pointer EXCEPT ![t] = Null, ![i] = st[t]]
    <3>1. /\ i \in Users /\ i \notin Threads /\ st \in [Threads -> States \cup {Null}]
          /\ instance_ \in [Instances -> States \cup {Null}]
      BY HoldersAssumption DEF Users, TypeOK
    <3>2. ASSUME NEW u \in Users
          PROVE  pointer'[u] = IF u = t THEN Null ELSE IF u = i THEN st[t] ELSE pointer[u]
      BY <2>1, <3>1, HoldersAssumption DEF pointer
    <3> QED
      BY <3>1, <3>2 DEF pointer
  <2> QED
    BY <2>1, <2>2, <2>3, <2>4, <2>5, PointersAre, HoldersAssumption, MoveStep
<1>6. CASE RequireOpen(t)
  <2> DEFINE i == inst[t]
             s == instance_[i]
  <2>1. /\ st' = [st EXCEPT ![t] = s] /\ i \in Instances /\ owner[i] = Null /\ st[t] = Null
        /\ UNCHANGED <<instance_, conn, handle, path>>
    BY <1>6 DEF RequireOpen, IInv, ThreadInv
  <2>2. s \in States \cup {Null} /\ pointer[t] = Null /\ pointer[i] = s /\ i \in Users
    BY <2>1, PointersAre DEF TypeOK
  <2>3. pointer' = [pointer EXCEPT ![t] = s]
    BY <2>1, PointerOfThread
  <2>4. CASE s = Null
    BY <2>1, <2>3, <2>4, DropStep
  <2>5. CASE s # Null
    <3>1. s \in States /\ ~Unused(s)
      BY <2>1, <2>2, <2>5 DEF Unused
    <3>2. ASSUME NEW u \in Threads, pc[u] = "reset", Sole(s, inst[u]) PROVE FALSE
      <4>1. inst[u] = i
        BY <2>1, <3>2 DEF Sole
      <4>2. owner[inst[u]] = u
        BY <3>2 DEF IInv, LockInv, Closing
      <4> QED
        BY <2>1, <4>1, <4>2
    <3>3. handle[s] /\ path[s] # Null
      BY <1>0, <3>1, <3>2 DEF IInv, RegisteredInv
    <3> HIDE DEF s, i
    <3> QED
      BY <2>1, <2>2, <2>3, <3>1, <3>3, CopyStep
  <2> QED
    BY <2>4, <2>5
<1>7. CASE Use(t)
  <2>1. st' = [st EXCEPT ![t] = Null] /\ st[t] \in States /\ UNCHANGED <<instance_, handle, path>>
    BY <1>7 DEF Use, IInv, ThreadInv, TypeOK
  <2>2. ASSUME NEW c \in Connections, FreeConnection(c), conn' = [conn EXCEPT ![c] = st[t]]
        PROVE  Promised
    <3>1. handle[st[t]]
      BY <1>0, <2>1 DEF Unused, Sole
    <3>2. pointer' = [pointer EXCEPT ![t] = Null, ![c] = st[t]]
      <4>1. /\ c \in Users /\ c \notin Threads \cup Instances
            /\ st \in [Threads -> States \cup {Null}] /\ conn \in [Connections -> States \cup {Null}]
        BY HoldersAssumption DEF Users, TypeOK
      <4>2. ASSUME NEW u \in Users
            PROVE  pointer'[u] = IF u = t THEN Null ELSE IF u = c THEN st[t] ELSE pointer[u]
        BY <2>1, <2>2, <4>1, HoldersAssumption DEF pointer, Users
      <4> QED
        BY <4>1, <4>2 DEF pointer
    <3> QED
      BY <2>1, <2>2, <3>1, <3>2, PointersAre, HoldersAssumption, MoveStep DEF FreeConnection
  <2>3. CASE UNCHANGED conn
    BY <2>1, <2>3, PointerOfThread, DropStep
  <2> QED
    BY <1>7, <2>2, <2>3 DEF Use
<1>8. CASE CloseHandle(t)
  <2> DEFINE i == inst[t]
             s == instance_[i]
  <2>1. i \in Instances /\ s \in States /\ Sole(s, i)
    BY <1>8 DEF CloseHandle, Goto, IInv, ThreadInv, TypeOK, CountInv
  <2>2. handle' = [handle EXCEPT ![s] = FALSE] /\ path' = path /\ pointer' = pointer
    BY <1>8 DEF CloseHandle, pointer
  <2>3. \A v \in Users \ {i} : pointer[v] # s
    BY <2>1, PointersAre DEF Sole
  <2> HIDE DEF i, s
  <2> QED
    BY <2>1, <2>2, <2>3, PointersAre, CloseStep
<1>9. CASE CloseReset(t)
  <2>1. /\ inst[t] \in Instances /\ instance_' = [instance_ EXCEPT ![inst[t]] = Null]
        /\ UNCHANGED <<st, conn, handle, path>>
    BY <1>9 DEF CloseReset, IInv, ThreadInv
  <2> QED
    BY <2>1, PointersAre, PointerOfInstance, DropStep
<1>10. CASE Calls(t)
  <2>1. UNCHANGED <<st, instance_, conn, handle, path>>
    BY <1>10, CallEnters DEF Enters
  <2> QED
    BY <2>1, QuietStep
<1>11. CASE ModuleClose(t)
  BY <1>11, QuietStep DEF ModuleClose
<1>12. ASSUME NEW i \in Instances, Forget(t, i) PROVE Promised
  <2>1. UNCHANGED <<st, conn, handle, path>>
    BY <1>12 DEF Forget
  <2>2. CASE UNCHANGED instance_
    BY <2>1, <2>2, QuietStep
  <2>3. CASE instance_' = [instance_ EXCEPT ![i] = Null]
    BY <2>1, <2>3, PointersAre, PointerOfInstance, DropStep
  <2> QED
    BY <1>12, <2>2, <2>3 DEF Forget
<1>13. ASSUME NEW c \in Connections, ConnectionClose(t, c) PROVE Promised
  <2>1. conn' = [conn EXCEPT ![c] = Null] /\ UNCHANGED <<st, instance_, handle, path>>
    BY <1>13 DEF ConnectionClose
  <2> QED
    BY <2>1, PointersAre, PointerOfConnection, DropStep
<1> QED
  BY <1>1, <1>2, <1>3, <1>4, <1>5, <1>6, <1>7, <1>8, <1>9, <1>10, <1>11, <1>12, <1>13
  DEF Step, Enter, Calls

\* The registry implements SharedHandle, for any number of threads, directories and
\* objects: open shares the handle in use on its directory, and a handle is closed by
\* the step in which its last user leaves it.
THEOREM SharingKept == Spec => KeepsSharing
<1>1. Init => Sharing!Init
  <2> SUFFICES ASSUME Init PROVE Sharing!Init
    OBVIOUS
  <2>1. uses = [u \in Users |-> Null]
    BY DEF Init, uses, pointer, Users
  <2>2. dirOf = [s \in States |-> Null]
    BY DEF Init, dirOf
  <2> QED
    BY <2>1, <2>2 DEF Sharing!Init
<1>2. IInv /\ [Next]_vars => [Sharing!Next]_(Sharing!vars)
  <2> SUFFICES ASSUME IInv, [Next]_vars PROVE Promised
    BY DEF Promised
  <2>1. CASE Next
    BY <2>1, Shares DEF Next
  <2>2. CASE UNCHANGED vars
    BY <2>2, QuietStep DEF vars, thread, objects, states
  <2> QED
    BY <2>1, <2>2
<1> QED
  BY <1>1, <1>2, Inductive, PTL DEF Spec, KeepsSharing, Sharing!Spec
===============================================================================
