----------------------------- MODULE BindingProofs -----------------------------
(***************************************************************************)
(* Node.js: for any number of opens and pool threads, a handle is never    *)
(* lost, never closed twice, and never closed under an open object.        *)
(* Rust: for any number of threads and directories, what a thread inside   *)
(* NATIVE_INIT works for cannot change under it.                           *)
(* Java: for any number of threads and objects, no native call uses what   *)
(* is closed, and none leaves anything on the C heap.                      *)
(* Command line: for any input and any size of the buffer, what was typed  *)
(* is executed or still collected, and no word is broken but by a cut.     *)
(***************************************************************************)
EXTENDS MCBindings, SequenceTheorems, WellFoundedInduction, TLAPS

-----------------------------------------------------------------------------
(* The Node.js binding                                                     *)

\* A call waits in the queue once, and only while no thread has taken it.
QueueInv ==
  /\ \A i \in 1..Len(queue) : work[queue[i]] = "queued"
  /\ \A i, j \in 1..Len(queue) : queue[i] = queue[j] => i = j

\* A call goes from its work to its promise to its object, and owns a handle where it
\* says so.
StageInv ==
  \A o \in Opens :
    /\ work[o] # "none" => promise[o] = "pending" /\ ~instance[o]
    /\ promise[o] # "none" => object[o] = "none"
    /\ promise[o] = "resolved" => inst_handle[o]
    /\ promise[o] = "rejected" => ~instance[o]

IInv == TypeOK /\ QueueInv /\ StageInv /\ HandleHasOneOwner

\* The queue loses an element that Node.js or a thread took, and keeps the order.
LEMMA RemovedFromQueue ==
  ASSUME NEW s \in Seq(Opens), NEW i \in 1..Len(s)
  PROVE  /\ RemoveAt(s, i) \in Seq(Opens)
         /\ Len(RemoveAt(s, i)) = Len(s) - 1
         /\ \A j \in 1..(Len(s) - 1) :
              RemoveAt(s, i)[j] = s[IF j < i THEN j ELSE j + 1]
<1>1. i - 1 \in 0..Len(s) /\ i + 1 \in 1..Len(s) + 1
  OBVIOUS
<1>2. /\ SubSeq(s, 1, i - 1) \in Seq(Opens)
      /\ Len(SubSeq(s, 1, i - 1)) = i - 1
      /\ \A j \in 1..(i - 1) : SubSeq(s, 1, i - 1)[j] = s[j]
  BY <1>1, SubSeqProperties
<1>3. /\ SubSeq(s, i + 1, Len(s)) \in Seq(Opens)
      /\ Len(SubSeq(s, i + 1, Len(s))) = Len(s) - i
      /\ \A j \in 1..(Len(s) - i) : SubSeq(s, i + 1, Len(s))[j] = s[i + j]
  BY <1>1, SubSeqProperties
<1> DEFINE a == SubSeq(s, 1, i - 1)
           b == SubSeq(s, i + 1, Len(s))
<1>4. RemoveAt(s, i) = a \o b
  BY DEF RemoveAt
<1> HIDE DEF a, b
<1>5. /\ a \in Seq(Opens) /\ Len(a) = i - 1 /\ \A j \in 1..(i - 1) : a[j] = s[j]
      /\ b \in Seq(Opens) /\ Len(b) = Len(s) - i
      /\ \A j \in 1..(Len(s) - i) : b[j] = s[i + j]
  BY <1>2, <1>3 DEF a, b
<1>6. /\ a \o b \in Seq(Opens) /\ Len(a \o b) = Len(s) - 1
      /\ \A j \in 1..(Len(s) - 1) : (a \o b)[j] = IF j < i THEN a[j] ELSE b[j - i + 1]
  <2>1. Len(a) + Len(b) = Len(s) - 1 /\ \A j \in 1..(Len(s) - 1) : j <= Len(a) <=> j < i
    BY <1>5
  <2>2. \A j \in 1..(Len(s) - 1) : j - Len(a) = j - i + 1
    BY <1>5
  <2>3. /\ a \o b \in Seq(Opens) /\ Len(a \o b) = Len(a) + Len(b)
        /\ \A j \in 1..Len(a) + Len(b) :
             (a \o b)[j] = IF j <= Len(a) THEN a[j] ELSE b[j - Len(a)]
    <3>1. a \in Seq(Opens) /\ b \in Seq(Opens) BY <1>5
    <3> QED BY <3>1, ConcatProperties, Zenon
  <2> QED BY <2>1, <2>2, <2>3
<1>7. \A j \in 1..(Len(s) - 1) :
        (IF j < i THEN a[j] ELSE b[j - i + 1]) = s[IF j < i THEN j ELSE j + 1]
  <2> TAKE j \in 1..(Len(s) - 1)
  <2>1. CASE j < i
    BY <1>5, <2>1
  <2>2. CASE ~(j < i)
    <3>1. j - i + 1 \in 1..(Len(s) - i) /\ i + (j - i + 1) = j + 1
      BY <2>2
    <3> QED BY <1>5, <2>2, <3>1
  <2> QED BY <2>1, <2>2
<1> QED BY <1>4, <1>6, <1>7

\* The queue and the work that waits in it.
LEMMA QueueStep ==
  ASSUME IInv, [Next]_vars
  PROVE  queue' \in Seq(Opens) /\ QueueInv'
<1> USE DEF IInv, TypeOK, QueueInv
<1>1. CASE Start
  <2>1. /\ queue' \in Seq(Opens)
        /\ Len(queue') = Len(queue) - 1
        /\ \A j \in 1..Len(queue') : queue'[j] = queue[j + 1]
    BY <1>1 DEF Start
  <2>2. /\ 1 \in 1..Len(queue) /\ Head(queue) = queue[1]
        /\ work' = [work EXCEPT ![Head(queue)] = "running"]
    BY <1>1 DEF Start
  <2>3. \A j \in 1..Len(queue') : j + 1 \in 1..Len(queue) /\ j + 1 # 1
    BY <2>1
  <2>4. \A i \in 1..Len(queue) : work[queue[i]] = "queued" /\ queue[i] \in Opens
    OBVIOUS
  <2>5. \A i, j \in 1..Len(queue) : queue[i] = queue[j] => i = j
    OBVIOUS
  <2>6. work \in [Opens -> {"none", "queued", "running", "executed", "cancelled"}]
    OBVIOUS
  <2>7. \A j \in 1..Len(queue') : work'[queue'[j]] = "queued"
    <3> SUFFICES ASSUME NEW j \in 1..Len(queue') PROVE work'[queue'[j]] = "queued" OBVIOUS
    <3>1. queue'[j] = queue[j + 1] /\ queue[j + 1] # queue[1] BY <2>1, <2>2, <2>3, <2>5
    <3> QED BY <2>2, <2>3, <2>4, <2>6, <3>1
  <2>8. \A j, k \in 1..Len(queue') : queue'[j] = queue'[k] => j = k
    <3> SUFFICES ASSUME NEW j \in 1..Len(queue'), NEW k \in 1..Len(queue'), queue'[j] = queue'[k]
                 PROVE  j = k
      OBVIOUS
    <3>1. j + 1 = k + 1 BY <2>1, <2>3, <2>5
    <3> QED BY <3>1
  <2> QED BY <2>1, <2>7, <2>8
<1>2. CASE Cancel
  <2>1. PICK i \in 1..Len(queue) :
          work' = [work EXCEPT ![queue[i]] = "cancelled"] /\ queue' = RemoveAt(queue, i)
    BY <1>2 DEF Cancel
  <2> DEFINE at(j) == IF j < i THEN j ELSE j + 1
  <2>2. /\ queue' \in Seq(Opens)
        /\ Len(queue') = Len(queue) - 1
        /\ \A j \in 1..Len(queue') : queue'[j] = queue[at(j)]
    <3>1. queue \in Seq(Opens) OBVIOUS
    <3>2. /\ RemoveAt(queue, i) \in Seq(Opens)
          /\ Len(RemoveAt(queue, i)) = Len(queue) - 1
          /\ \A j \in 1..(Len(queue) - 1) : RemoveAt(queue, i)[j] = queue[at(j)]
      BY <3>1, RemovedFromQueue
    <3> QED BY <2>1, <3>2
  <2>3. \A j \in 1..Len(queue') : at(j) \in 1..Len(queue) /\ at(j) # i
    BY <2>2
  <2>4. \A j, k \in 1..Len(queue') : at(j) = at(k) => j = k
    BY <2>2
  <2> HIDE DEF at
  <2>5. \A j \in 1..Len(queue') : work'[queue'[j]] = "queued"
    BY <2>1, <2>2, <2>3
  <2>6. \A j, k \in 1..Len(queue') : queue'[j] = queue'[k] => j = k
    BY <2>2, <2>3, <2>4
  <2> QED BY <2>2, <2>5, <2>6
<1>3. ASSUME NEW o \in Opens, native_open(o) PROVE queue' \in Seq(Opens) /\ QueueInv'
  <2>1. /\ queue' = Append(queue, o) /\ work[o] = "none"
        /\ work' = [work EXCEPT ![o] = "queued"]
    BY <1>3 DEF native_open, Over
  <2>2. \A i \in 1..Len(queue) : queue[i] # o
    BY <2>1
  <2>3. /\ queue' \in Seq(Opens) /\ Len(queue') = Len(queue) + 1
        /\ queue'[Len(queue) + 1] = o
        /\ \A i \in 1..Len(queue) : queue'[i] = queue[i]
    BY <2>1
  <2> QED BY <2>1, <2>2, <2>3
<1>4. ASSUME NEW o \in Opens, work[o] # "queued", work' = [work EXCEPT ![o] = work'[o]], UNCHANGED queue
      PROVE  queue' \in Seq(Opens) /\ QueueInv'
  BY <1>4
<1>5. ASSUME UNCHANGED <<queue, work>> PROVE queue' \in Seq(Opens) /\ QueueInv'
  BY <1>5
<1>6. ASSUME NEW o \in Opens, execute_open(o) PROVE queue' \in Seq(Opens) /\ QueueInv'
  BY <1>6, <1>4 DEF execute_open
<1>7. ASSUME NEW o \in Opens, Resolve(o) PROVE queue' \in Seq(Opens) /\ QueueInv'
  BY <1>7, <1>4 DEF Resolve
<1>8. ASSUME NEW o \in Opens, Reject(o) PROVE queue' \in Seq(Opens) /\ QueueInv'
  BY <1>8, <1>4 DEF Reject
<1>9. ASSUME NEW o \in Opens, Continue(o) \/ close(o) \/ Drop(o) \/ finalize_instance(o)
      PROVE  queue' \in Seq(Opens) /\ QueueInv'
  BY <1>9, <1>5 DEF Continue, close, Drop, finalize_instance
<1>10. CASE UNCHANGED vars BY <1>10, <1>5 DEF vars
<1> QED BY <1>1, <1>2, <1>3, <1>6, <1>7, <1>8, <1>9, <1>10 DEF Next

Others == /\ TypeOK /\ StageInv /\ HandleHasOneOwner

\* Who owns the handle.
LEMMA OwnerStep ==
  ASSUME IInv, [Next]_vars
  PROVE  Others'
<1> USE DEF IInv, TypeOK, StageInv, HandleHasOneOwner, Others
<1>q. queue' \in Seq(Opens) BY QueueStep
<1>1. CASE Start
  <2>1. Head(queue) \in Opens /\ work[Head(queue)] = "queued"
    BY <1>1 DEF Start, QueueInv
  <2> QED BY <1>1, <1>q, <2>1 DEF Start
<1>2. CASE Cancel
  <2>1. PICK i \in 1..Len(queue) : work' = [work EXCEPT ![queue[i]] = "cancelled"]
    BY <1>2 DEF Cancel
  <2>2. queue[i] \in Opens /\ work[queue[i]] = "queued"
    BY <2>1 DEF QueueInv
  <2>3. UNCHANGED <<task_handle, instance, inst_handle, promise, object, opened>>
    BY <1>2 DEF Cancel
  <2> QED BY <1>q, <2>1, <2>2, <2>3
<1>3. ASSUME NEW o \in Opens, native_open(o) PROVE Others'
  BY <1>3, <1>q DEF native_open, Over
<1>4. ASSUME NEW o \in Opens, execute_open(o) PROVE Others'
  BY <1>4, <1>q DEF execute_open
<1>5. ASSUME NEW o \in Opens, Resolve(o) PROVE Others'
  BY <1>5, <1>q DEF Resolve
<1>6. ASSUME NEW o \in Opens, Reject(o) PROVE Others'
  BY <1>6, <1>q DEF Reject, PendingException
<1>7. ASSUME NEW o \in Opens, Continue(o) PROVE Others'
  BY <1>7, <1>q DEF Continue
<1>8. ASSUME NEW o \in Opens, close(o) PROVE Others'
  BY <1>8, <1>q DEF close
<1>9. ASSUME NEW o \in Opens, Drop(o) PROVE Others'
  BY <1>9, <1>q DEF Drop
<1>10. ASSUME NEW o \in Opens, finalize_instance(o) PROVE Others'
  BY <1>10, <1>q DEF finalize_instance
<1>11. CASE UNCHANGED vars BY <1>11 DEF vars
<1> QED BY <1>1, <1>2, <1>3, <1>4, <1>5, <1>6, <1>7, <1>8, <1>9, <1>10, <1>11 DEF Next

LEMMA InitInv == Init => IInv
  BY DEF Init, IInv, TypeOK, QueueInv, StageInv, HandleHasOneOwner

\* The inductive invariant holds in every reachable state.
THEOREM Invariant == Spec => []IInv
<1>1. IInv /\ [Next]_vars => IInv'
  BY QueueStep, OwnerStep DEF IInv, Others
<1> QED BY InitInv, <1>1, PTL DEF Spec

\* An open handle has one owner, a closed one none, an object in use an open one.
THEOREM OneOwner == Spec => []HandleHasOneOwner
<1>1. IInv => HandleHasOneOwner BY DEF IInv
<1> QED BY Invariant, <1>1, PTL

-----------------------------------------------------------------------------
(* The Rust binding                                                        *)

Inside == {"ensure", "ensuring", "load"}

\* A thread is between get and the end of its initialisation exactly while it holds the
\* mutex.
MutexInv == \A t \in Threads : pc[t] \in Inside <=> lock = t

\* There, its bundle is the one that get chose, and the library is loaded once.
BundleInv ==
  \A t \in Threads :
    /\ pc[t] \in Inside =>
         /\ root[t] \in Roots
         /\ root[t] = IF native # Unset THEN native ELSE select_root(configured)
    /\ pc[t] = "load" => native = Unset /\ seen[t]

\* A thread that may get an object has room for it.
BoundInv ==
  \A t \in Threads : pc[t] \in Inside \cup {"get", "open"} => objects[t] < MaxObjects

RuntimeInv ==
  RuntimeTypeOK /\ MutexInv /\ BundleInv /\ BoundInv /\ ConfiguredDirectoryUsed /\ FilesRestored

\* The types are kept by every step.
LEMMA TypeStep ==
  ASSUME RuntimeInv, [RuntimeNext]_runtimeVars
  PROVE  RuntimeTypeOK'
<1> USE RootsAssumption, ObjectsAssumption DEF RuntimeInv, RuntimeTypeOK
<1>1. ASSUME NEW t \in Threads, SetCall(t) PROVE RuntimeTypeOK'
  BY <1>1 DEF SetCall
<1>2. ASSUME NEW t \in Threads, set_runtime_cache_dir(t) PROVE RuntimeTypeOK'
  <2>1. root[t] \in Roots \cup {Unset} OBVIOUS
  <2> QED BY <1>2, <2>1 DEF set_runtime_cache_dir
<1>3. ASSUME NEW t \in Threads, OpenCall(t) PROVE RuntimeTypeOK'
  BY <1>3 DEF OpenCall
<1>4. ASSUME NEW t \in Threads, get(t) PROVE RuntimeTypeOK'
  BY <1>4 DEF get
<1>5. ASSUME NEW t \in Threads, NoRoot(t) PROVE RuntimeTypeOK'
  BY <1>5 DEF NoRoot, Return
<1>6. ASSUME NEW t \in Threads, ensure(t) PROVE RuntimeTypeOK'
  <2>1. root[t] \in Roots BY <1>6 DEF ensure, BundleInv, Inside
  <2> QED BY <1>6, <2>1 DEF ensure
<1>7. ASSUME NEW t \in Threads, EnsureFails(t) PROVE RuntimeTypeOK'
  BY <1>7 DEF EnsureFails, Return
<1>8. ASSUME NEW t \in Threads, Ensured(t) PROVE RuntimeTypeOK'
  BY <1>8 DEF Ensured, Return
<1>9. ASSUME NEW t \in Threads, load(t) PROVE RuntimeTypeOK'
  <2>1. root[t] \in Roots BY <1>9 DEF load, BundleInv, Inside
  <2> QED BY <1>9, <2>1 DEF load, Return
<1>10. ASSUME NEW t \in Threads, open(t) PROVE RuntimeTypeOK'
  <2>1. objects[t] < MaxObjects BY <1>10 DEF open, BoundInv
  <2> QED BY <1>10, <2>1 DEF open
<1>11. ASSUME NEW t \in Threads, CloseOrDrop(t) PROVE RuntimeTypeOK'
  <2>1. objects[t] - 1 \in 0..MaxObjects BY <1>11 DEF CloseOrDrop
  <2> QED BY <1>11, <2>1 DEF CloseOrDrop
<1>12. ASSUME NEW r \in Roots, Publish(r) PROVE RuntimeTypeOK'
  BY <1>12 DEF Publish
<1>13. ASSUME NEW r \in Roots, Break(r) PROVE RuntimeTypeOK'
  BY <1>13 DEF Break
<1>14. CASE UNCHANGED runtimeVars BY <1>14 DEF runtimeVars
<1> QED BY <1>1, <1>2, <1>3, <1>4, <1>5, <1>6, <1>7, <1>8, <1>9, <1>10, <1>11, <1>12,
  <1>13, <1>14 DEF RuntimeNext

\* Only the holder of the mutex is inside.
LEMMA MutexStep ==
  ASSUME RuntimeInv, [RuntimeNext]_runtimeVars
  PROVE  MutexInv'
<1> USE RootsAssumption, ObjectsAssumption DEF RuntimeInv, RuntimeTypeOK, MutexInv, Inside
<1>1. ASSUME NEW t \in Threads, SetCall(t) PROVE MutexInv'
  BY <1>1 DEF SetCall
<1>2. ASSUME NEW t \in Threads, set_runtime_cache_dir(t) PROVE MutexInv'
  BY <1>2 DEF set_runtime_cache_dir
<1>3. ASSUME NEW t \in Threads, OpenCall(t) PROVE MutexInv'
  BY <1>3 DEF OpenCall
<1>4. ASSUME NEW t \in Threads, get(t) PROVE MutexInv'
  BY <1>4 DEF get
<1>5. ASSUME NEW t \in Threads, NoRoot(t) PROVE MutexInv'
  BY <1>5 DEF NoRoot, Return
<1>6. ASSUME NEW t \in Threads, ensure(t) PROVE MutexInv'
  BY <1>6 DEF ensure
<1>7. ASSUME NEW t \in Threads, EnsureFails(t) PROVE MutexInv'
  BY <1>7 DEF EnsureFails, Return
<1>8. ASSUME NEW t \in Threads, Ensured(t) PROVE MutexInv'
  BY <1>8 DEF Ensured, Return
<1>9. ASSUME NEW t \in Threads, load(t) PROVE MutexInv'
  BY <1>9 DEF load, Return
<1>10. ASSUME NEW t \in Threads, open(t) PROVE MutexInv'
  BY <1>10 DEF open
<1>11. ASSUME NEW t \in Threads, CloseOrDrop(t) PROVE MutexInv'
  BY <1>11 DEF CloseOrDrop
<1>12. ASSUME NEW r \in Roots, Publish(r) PROVE MutexInv'
  BY <1>12 DEF Publish
<1>13. ASSUME NEW r \in Roots, Break(r) PROVE MutexInv'
  BY <1>13 DEF Break
<1>14. CASE UNCHANGED runtimeVars BY <1>14 DEF runtimeVars
<1> QED BY <1>1, <1>2, <1>3, <1>4, <1>5, <1>6, <1>7, <1>8, <1>9, <1>10, <1>11,
  <1>12, <1>13, <1>14 DEF RuntimeNext

\* Nobody changes NATIVE or the configured directory while a thread is inside.
LEMMA BundleStep ==
  ASSUME RuntimeInv, [RuntimeNext]_runtimeVars
  PROVE  BundleInv' /\ BoundInv'
<1> USE RootsAssumption, ObjectsAssumption DEF RuntimeInv, RuntimeTypeOK, MutexInv, BundleInv, BoundInv, Inside, select_root
<1>1. ASSUME NEW t \in Threads, SetCall(t) PROVE BundleInv' /\ BoundInv'
  BY <1>1 DEF SetCall
<1>2. ASSUME NEW t \in Threads, set_runtime_cache_dir(t) PROVE BundleInv' /\ BoundInv'
  BY <1>2 DEF set_runtime_cache_dir
<1>3. ASSUME NEW t \in Threads, OpenCall(t) PROVE BundleInv' /\ BoundInv'
  BY <1>3 DEF OpenCall
<1>4. ASSUME NEW t \in Threads, get(t) PROVE BundleInv' /\ BoundInv'
  BY <1>4 DEF get
<1>5. ASSUME NEW t \in Threads, NoRoot(t) PROVE BundleInv' /\ BoundInv'
  BY <1>5 DEF NoRoot, Return
<1>6. ASSUME NEW t \in Threads, ensure(t) PROVE BundleInv' /\ BoundInv'
  BY <1>6 DEF ensure
<1>7. ASSUME NEW t \in Threads, EnsureFails(t) PROVE BundleInv' /\ BoundInv'
  BY <1>7 DEF EnsureFails, Return
<1>8. ASSUME NEW t \in Threads, Ensured(t) PROVE BundleInv' /\ BoundInv'
  BY <1>8 DEF Ensured, Return
<1>9. ASSUME NEW t \in Threads, load(t) PROVE BundleInv' /\ BoundInv'
  BY <1>9 DEF load, Return
<1>10. ASSUME NEW t \in Threads, open(t) PROVE BundleInv' /\ BoundInv'
  BY <1>10 DEF open
<1>11. ASSUME NEW t \in Threads, CloseOrDrop(t) PROVE BundleInv' /\ BoundInv'
  BY <1>11 DEF CloseOrDrop
<1>12. ASSUME NEW r \in Roots, Publish(r) PROVE BundleInv' /\ BoundInv'
  BY <1>12 DEF Publish
<1>13. ASSUME NEW r \in Roots, Break(r) PROVE BundleInv' /\ BoundInv'
  BY <1>13 DEF Break
<1>14. CASE UNCHANGED runtimeVars BY <1>14 DEF runtimeVars
<1> QED BY <1>1, <1>2, <1>3, <1>4, <1>5, <1>6, <1>7, <1>8, <1>9, <1>10, <1>11,
  <1>12, <1>13, <1>14 DEF RuntimeNext

\* What the runs check.
LEMMA PropertyStep ==
  ASSUME RuntimeInv, [RuntimeNext]_runtimeVars
  PROVE  ConfiguredDirectoryUsed' /\ FilesRestored'
<1> USE RootsAssumption, ObjectsAssumption DEF RuntimeInv, RuntimeTypeOK, MutexInv, BundleInv, ConfiguredDirectoryUsed, FilesRestored, Inside, select_root
<1>1. ASSUME NEW t \in Threads, SetCall(t) PROVE ConfiguredDirectoryUsed' /\ FilesRestored'
  BY <1>1 DEF SetCall
<1>2. ASSUME NEW t \in Threads, set_runtime_cache_dir(t) PROVE ConfiguredDirectoryUsed' /\ FilesRestored'
  BY <1>2 DEF set_runtime_cache_dir
<1>3. ASSUME NEW t \in Threads, OpenCall(t) PROVE ConfiguredDirectoryUsed' /\ FilesRestored'
  BY <1>3 DEF OpenCall
<1>4. ASSUME NEW t \in Threads, get(t) PROVE ConfiguredDirectoryUsed' /\ FilesRestored'
  BY <1>4 DEF get
<1>5. ASSUME NEW t \in Threads, NoRoot(t) PROVE ConfiguredDirectoryUsed' /\ FilesRestored'
  BY <1>5 DEF NoRoot, Return
<1>6. ASSUME NEW t \in Threads, ensure(t) PROVE ConfiguredDirectoryUsed' /\ FilesRestored'
  BY <1>6 DEF ensure
<1>7. ASSUME NEW t \in Threads, EnsureFails(t) PROVE ConfiguredDirectoryUsed' /\ FilesRestored'
  BY <1>7 DEF EnsureFails, Return
<1>8. ASSUME NEW t \in Threads, Ensured(t) PROVE ConfiguredDirectoryUsed' /\ FilesRestored'
  BY <1>8 DEF Ensured, Return
<1>9. ASSUME NEW t \in Threads, load(t) PROVE ConfiguredDirectoryUsed' /\ FilesRestored'
  BY <1>9 DEF load, Return
<1>10. ASSUME NEW t \in Threads, open(t) PROVE ConfiguredDirectoryUsed' /\ FilesRestored'
  BY <1>10 DEF open
<1>11. ASSUME NEW t \in Threads, CloseOrDrop(t) PROVE ConfiguredDirectoryUsed' /\ FilesRestored'
  BY <1>11 DEF CloseOrDrop
<1>12. ASSUME NEW r \in Roots, Publish(r) PROVE ConfiguredDirectoryUsed' /\ FilesRestored'
  BY <1>12 DEF Publish
<1>13. ASSUME NEW r \in Roots, Break(r) PROVE ConfiguredDirectoryUsed' /\ FilesRestored'
  BY <1>13 DEF Break
<1>14. CASE UNCHANGED runtimeVars BY <1>14 DEF runtimeVars
<1> QED BY <1>1, <1>2, <1>3, <1>4, <1>5, <1>6, <1>7, <1>8, <1>9, <1>10, <1>11,
  <1>12, <1>13, <1>14 DEF RuntimeNext

LEMMA RuntimeInitInv == RuntimeInit => RuntimeInv
  BY RootsAssumption, ObjectsAssumption DEF RuntimeInit, RuntimeInv, RuntimeTypeOK, MutexInv, BundleInv, BoundInv,
  ConfiguredDirectoryUsed, FilesRestored, Inside

\* The inductive invariant holds in every reachable state.
THEOREM RuntimeInvariant == RuntimeSpec => []RuntimeInv
<1>1. RuntimeInv /\ [RuntimeNext]_runtimeVars => RuntimeInv'
  BY TypeStep, MutexStep, BundleStep, PropertyStep DEF RuntimeInv
<1> QED BY RuntimeInitInv, <1>1, PTL DEF RuntimeSpec

\* Every variable keeps its type.
THEOREM RuntimeTypes == RuntimeSpec => []RuntimeTypeOK
<1>1. RuntimeInv => RuntimeTypeOK BY DEF RuntimeInv
<1> QED BY RuntimeInvariant, <1>1, PTL

\* The loaded library comes from the directory that was asked for, and every seekdb_open
\* finds its files restored during the call.
THEOREM BundleUsed == RuntimeSpec => []RightBundle
<1>1. RuntimeInv => RightBundle BY DEF RuntimeInv, RightBundle
<1> QED BY RuntimeInvariant, <1>1, PTL

-----------------------------------------------------------------------------
(* The Java binding                                                        *)

JavaStages == {"idle", "db", "values", "items", "opened", "fields", "close", "closed"}

JavaTypes ==
  /\ jpc \in [Threads -> JavaStages]
  /\ jobject \in [Threads -> Objects \cup {Null}]
  /\ count \in [Threads -> Nat] /\ done \in [Threads -> Nat]
  /\ heap \in [Threads -> SUBSET Int]
  /\ field \in [Objects -> BOOLEAN] /\ jopened \in [Objects -> BOOLEAN]
  /\ monitor \in [Objects -> Threads \cup {Null}]

\* What a call has allocated follows from where it is.
HeapInv ==
  \A t \in Threads :
    /\ jpc[t] \in {"idle", "db", "fields", "close", "closed"} => heap[t] = {}
    /\ jpc[t] \in {"db", "values"} => done[t] = 0
    /\ jpc[t] = "values" => heap[t] = {J!dbPath}
    /\ jpc[t] = "items" =>
         heap[t] = {J!dbPath, J!valuesArray} \cup 1..done[t] /\ done[t] <= count[t]
    /\ jpc[t] = "opened" => heap[t] = {J!dbPath, J!valuesArray} \cup 1..count[t]

\* A new object is known to its open alone; the other calls own the monitor.
ObjectInv ==
  \A t \in Threads :
    /\ jpc[t] = "idle" <=> jobject[t] = Null
    /\ jpc[t] \in {"db", "values", "items", "opened"} =>
         /\ ~field[jobject[t]]
         /\ \A u \in Threads : jobject[u] = jobject[t] => u = t
    /\ jpc[t] \in {"fields", "close", "closed"} => monitor[jobject[t]] = t /\ field[jobject[t]]
    /\ jpc[t] = "closed" => ~jopened[jobject[t]]

JavaInv == JavaTypes /\ HeapInv /\ ObjectInv /\ NativeCallsSafe

\* The invariant holds initially.
LEMMA JavaInitInv == J!Init => JavaInv
BY DEF J!Init, JavaInv, JavaTypes, JavaStages, HeapInv, ObjectInv,
   NativeCallsSafe, J!NativeCallsSafe

\* Every step keeps the types.
LEMMA JavaTypeStep == JavaInv /\ [J!Next]_(J!vars) => JavaTypes'
<1> SUFFICES ASSUME JavaInv, [J!Next]_(J!vars) PROVE JavaTypes' OBVIOUS
<1> USE JavaAssumption DEF JavaInv, JavaTypes, JavaStages, ObjectInv,
      J!Goto, J!Throw, J!Allocate, J!Enter, J!Leave, J!dbPath, J!valuesArray
<1>1. ASSUME NEW t \in Threads, NEW o \in Objects, J!open(t, o) PROVE JavaTypes'
  BY <1>1 DEF J!open
<1>2. ASSUME NEW t \in Threads, J!ConvertPath(t) \/ J!AllocateValues(t) PROVE JavaTypes'
  BY <1>2 DEF J!ConvertPath, J!AllocateValues
<1>3. ASSUME NEW t \in Threads, J!ConvertItem(t) PROVE JavaTypes'
  BY <1>3 DEF J!ConvertItem
<1>4. ASSUME NEW t \in Threads, J!seekdb_open(t) PROVE JavaTypes'
  BY <1>4 DEF J!seekdb_open
<1>5. ASSUME NEW t \in Threads, J!FinishOpen(t) PROVE JavaTypes'
  BY <1>5 DEF J!FinishOpen
<1>6. ASSUME NEW t \in Threads, J!ConvertField(t) PROVE JavaTypes'
  BY <1>6 DEF J!ConvertField
<1>7. ASSUME NEW t \in Threads, J!nativeClose(t) PROVE JavaTypes' BY <1>7 DEF J!nativeClose
<1>10. ASSUME NEW t \in Threads, J!FinishClose(t) PROVE JavaTypes' BY <1>10 DEF J!FinishClose
<1>8. ASSUME NEW t \in Threads, NEW o \in Objects, J!connectionOptions(t, o) \/ J!close(t, o)
      PROVE  JavaTypes'
  BY <1>8 DEF J!connectionOptions, J!close
<1>9. CASE UNCHANGED J!vars BY <1>9 DEF J!vars
<1> QED BY <1>1, <1>2, <1>3, <1>4, <1>5, <1>6, <1>7, <1>8, <1>9, <1>10 DEF J!Next

\* Every step keeps the other parts.
LEMMA JavaStep ==
  JavaInv /\ [J!Next]_(J!vars) => HeapInv' /\ ObjectInv' /\ NativeCallsSafe'
<1> SUFFICES ASSUME JavaInv, [J!Next]_(J!vars) PROVE HeapInv' /\ ObjectInv' /\ NativeCallsSafe'
  OBVIOUS
<1> DEFINE Goal == HeapInv' /\ ObjectInv' /\ NativeCallsSafe'
<1> USE JavaAssumption, RootsAssumption
  DEF JavaInv, JavaTypes, JavaStages, HeapInv, ObjectInv, NativeCallsSafe, J!NativeCallsSafe,
      J!Goto, J!Throw, J!Allocate, J!Enter, J!Leave, J!dbPath, J!valuesArray
<1>1. ASSUME NEW t \in Threads, NEW o \in Objects, J!open(t, o) PROVE Goal
  BY <1>1 DEF J!open
<1>2. ASSUME NEW t \in Threads, J!ConvertPath(t) PROVE Goal BY <1>2 DEF J!ConvertPath
<1>3. ASSUME NEW t \in Threads, J!AllocateValues(t) PROVE Goal
  <2>1. HeapInv' BY <1>3 DEF J!AllocateValues
  <2>2. ObjectInv' BY <1>3 DEF J!AllocateValues
  <2>3. NativeCallsSafe' BY <1>3 DEF J!AllocateValues
  <2> QED BY <2>1, <2>2, <2>3
<1>4. ASSUME NEW t \in Threads, J!ConvertItem(t) PROVE Goal
  <2>1. HeapInv'
    <3>1. 1..(done[t] + 1) = 1..done[t] \cup {done[t] + 1} OBVIOUS
    <3>2. heap[t] \ ({J!dbPath, J!valuesArray} \cup 1..done[t]) = {}
      BY <1>4 DEF J!ConvertItem
    <3> QED BY <1>4, <3>1, <3>2 DEF J!ConvertItem
  <2>2. ObjectInv' BY <1>4 DEF J!ConvertItem
  <2>3. NativeCallsSafe' BY <1>4 DEF J!ConvertItem
  <2> QED BY <2>1, <2>2, <2>3
<1>5. ASSUME NEW t \in Threads, J!seekdb_open(t) PROVE Goal BY <1>5 DEF J!seekdb_open
<1>6. ASSUME NEW t \in Threads, J!FinishOpen(t) PROVE Goal BY <1>6 DEF J!FinishOpen
<1>7. ASSUME NEW t \in Threads, J!ConvertField(t) PROVE Goal BY <1>7 DEF J!ConvertField
<1>8. ASSUME NEW t \in Threads, J!nativeClose(t) PROVE Goal BY <1>8 DEF J!nativeClose
<1>9. ASSUME NEW t \in Threads, J!FinishClose(t) PROVE Goal BY <1>9 DEF J!FinishClose
<1>10. ASSUME NEW t \in Threads, NEW o \in Objects, J!connectionOptions(t, o) PROVE Goal
  BY <1>10 DEF J!connectionOptions
<1>11. ASSUME NEW t \in Threads, NEW o \in Objects, J!close(t, o) PROVE Goal
  BY <1>11 DEF J!close
<1>12. CASE UNCHANGED J!vars BY <1>12 DEF J!vars
<1> QED BY <1>1, <1>2, <1>3, <1>4, <1>5, <1>6, <1>7, <1>8, <1>9, <1>10, <1>11, <1>12 DEF J!Next

\* The inductive invariant of the Java binding.
LEMMA JavaInvariant == J!Spec => []JavaInv
<1>1. JavaInv /\ [J!Next]_(J!vars) => JavaInv' BY JavaTypeStep, JavaStep DEF JavaInv
<1> QED BY JavaInitInv, <1>1, PTL DEF J!Spec

\* For any number of threads, objects and parameters, no native call uses a closed handle
\* or a string borrowed from it, none is lost, and none leaves anything on the C heap.
THEOREM NativeCalls == ProgramSpec => []NativeCallsSafe
<1>1. ProgramInit => J!Init BY DEF ProgramInit
<1>2. [ProgramNext]_<<program, vars, runtimeVars, java, shell>> => [J!Next]_(J!vars)
  BY DEF ProgramNext, java, J!vars
<1>3. JavaInv => NativeCallsSafe BY DEF JavaInv
<1> QED BY <1>1, <1>2, <1>3, JavaInvariant, PTL DEF ProgramSpec, J!Spec

-----------------------------------------------------------------------------
(* The command line: induction over sets of numbers, for its texts         *)

\* A nonempty set of natural numbers has a least element.
LEMMA FirstOf ==
  ASSUME NEW T, T \subseteq Nat, T # {}
  PROVE  \E x \in T : \A y \in T : x <= y
<1> DEFINE R == {xy \in Nat \X Nat : xy[1] < xy[2]}
<1>1. IsWellFoundedOn(R, Nat)
  BY NatLessThanWellFounded DEF OpToRel
<1> HIDE DEF R
<1>2. PICK x \in T : \A y \in T : ~ (<<y, x>> \in R)
  BY <1>1, WFMin, Zenon
<1>3. ASSUME NEW y \in T PROVE x <= y
  <2>1. <<y, x>> \notin R /\ <<y, x>> \in Nat \X Nat
    BY <1>2
  <2>2. ~(y < x)
    BY <2>1 DEF R
  <2> QED
    BY <2>2
<1> QED
  BY <1>3

\* A set with zero, and with every number's successor, has all up to any bound.
LEMMA Upwards ==
  ASSUME NEW m \in Nat, NEW T, 0 \in T, \A n \in 0..m : n \in T /\ n < m => n + 1 \in T
  PROVE  0..m \subseteq T
<1> DEFINE Out == {n \in 0..m : n \notin T}
<1>1. CASE Out # {}
  <2>1. PICK n \in Out : \A k \in Out : n <= k
    <3>1. Out \subseteq Nat
      OBVIOUS
    <3> HIDE DEF Out
    <3> QED
      BY <1>1, <3>1, FirstOf
  <2>2. n # 0 /\ n - 1 \in 0..m /\ n - 1 \notin Out
    BY <2>1
  <2>3. n - 1 \in T /\ n - 1 < m /\ (n - 1) + 1 = n
    BY <2>2
  <2> QED
    BY <2>1, <2>2, <2>3
<1> QED
  BY <1>1

\* The values of m steps, one after the other, from x.
Maps(m, U) == [1..m -> [U -> U]]
Values(m, U, x, step) ==
  {f \in [0..m -> U] : f[0] = x /\ \A i \in 1..m : f[i] = step[i][f[i - 1]]}

\* There are such values.
LEMMA Iterated ==
  ASSUME NEW m \in Nat, NEW U, NEW x \in U, NEW step \in Maps(m, U)
  PROVE  Values(m, U, x, step) # {}
<1>0. step \in [1..m -> [U -> U]]
  BY DEF Maps
<1> DEFINE Upto(n, f) == f[0] = x /\ \A i \in 1..n : f[i] = step[i][f[i - 1]]
           T == {n \in 0..m : \E f \in [0..n -> U] : Upto(n, f)}
<1>1. 0 \in T
  <2> DEFINE f == [i \in 0..0 |-> x]
  <2>1. f \in [0..0 -> U] /\ Upto(0, f)
    OBVIOUS
  <2> HIDE DEF f, Upto
  <2> QED
    BY <2>1
<1>2. ASSUME NEW n \in 0..m, n \in T, n < m PROVE n + 1 \in T
  <2>1. PICK f \in [0..n -> U] : Upto(n, f)
    BY <1>2
  <2> DEFINE g == [i \in 0..n + 1 |-> IF i = n + 1 THEN step[n + 1][f[n]] ELSE f[i]]
  <2>2. n + 1 \in 1..m /\ n \in 0..n /\ step[n + 1][f[n]] \in U
    BY <1>0, <1>2
  <2>3. g \in [0..n + 1 -> U]
    BY <2>2
  <2>4. g[0] = x
    BY <2>1
  <2>5. ASSUME NEW i \in 1..n + 1 PROVE g[i] = step[i][g[i - 1]]
    <3>1. CASE i = n + 1
      BY <2>2, <3>1
    <3>2. CASE i # n + 1
      <4>1. i \in 1..n /\ i - 1 \in 0..n /\ g[i] = f[i] /\ g[i - 1] = f[i - 1]
        BY <3>2
      <4> QED
        BY <2>1, <4>1
    <3> QED
      BY <3>1, <3>2
  <2>6. Upto(n + 1, g)
    BY <2>4, <2>5
  <2>7. n + 1 \in 0..m
    BY <1>2
  <2> HIDE DEF g, Upto
  <2> QED
    BY <2>3, <2>6, <2>7
<1>3. m \in T
  <2> HIDE DEF T
  <2>1. 0..m \subseteq T
    BY <1>1, <1>2, Upwards
  <2> QED
    BY <2>1
<1>4. PICK f \in [0..m -> U] : Upto(m, f)
  BY <1>3
<1> QED
  BY <1>4 DEF Values

\* The characters that count, one by one.
Letters == S!Characters \X {"begins", "goes on"}
Adds(f, s, breaks, i) ==
  f[i] = IF S!IsSpace(s[i]) THEN f[i - 1] ELSE Append(f[i - 1], S!Letter(s, i, breaks))

LEMMA LetterType ==
  ASSUME NEW s \in Seq(S!Characters), NEW breaks, NEW i \in 1..Len(s)
  PROVE  S!Letter(s, i, breaks) \in Letters
<1>1. s[i] \in S!Characters
  OBVIOUS
<1> DEFINE H == {"begins", "goes on"}
           how == IF i = 1 \/ S!IsSpace(s[i - 1]) \/ i - 1 \in breaks THEN "begins" ELSE "goes on"
<1>2. how \in H
  OBVIOUS
<1>3. S!Letter(s, i, breaks) = <<s[i], how>>
  BY DEF S!Letter
<1>4. Letters = S!Characters \X H
  BY DEF Letters
<1> HIDE DEF how, H
<1> QED
  BY <1>1, <1>2, <1>3, <1>4

\* Texts one behind the other, and the text of one character.
LEMMA LastJoined ==
  ASSUME NEW s \in Seq(S!Characters), NEW t \in Seq(S!Characters), t # <<>>
  PROVE  /\ s \o t \in Seq(S!Characters) /\ s \o t # <<>> /\ Len(s \o t) \in Nat \ {0}
         /\ (s \o t)[Len(s \o t)] = t[Len(t)]
<1> DEFINE r == s \o t
<1>1. /\ r \in Seq(S!Characters) /\ Len(r) = Len(s) + Len(t) /\ Len(s) \in Nat /\ Len(t) \in Nat
      /\ \A i \in 1..Len(t) : r[Len(s) + i] = t[i]
  OBVIOUS
<1>2. Len(t) # 0 /\ Len(t) \in 1..Len(t)
  BY <1>1
<1> HIDE DEF r
<1>3. Len(r) # 0 /\ r[Len(r)] = t[Len(t)]
  BY <1>1, <1>2
<1>4. Len(<<>>) = 0
  OBVIOUS
<1>5. r # <<>>
  BY <1>3, <1>4
<1> QED
  BY <1>1, <1>3, <1>5 DEF r

LEMMA NotBlankBehind ==
  ASSUME NEW s \in Seq(S!Characters), NEW t \in Seq(S!Characters), ~S!Blank(t)
  PROVE  ~S!Blank(s \o t)
<1> DEFINE r == s \o t
<1>1. PICK i \in 1..Len(t) : ~S!IsSpace(t[i])
  BY DEF S!Blank
<1>2. Len(s) + i \in 1..Len(r) /\ r[Len(s) + i] = t[i]
  OBVIOUS
<1> HIDE DEF r
<1>3. ~S!Blank(r)
  BY <1>1, <1>2 DEF S!Blank
<1> QED
  BY <1>3 DEF r

LEMMA Single ==
  ASSUME NEW c \in S!Characters
  PROVE  <<c>> \in Seq(S!Characters) /\ <<c>> # <<>> /\ Len(<<c>>) = 1 /\ <<c>>[1] = c
OBVIOUS

LEMMA BlankSingle ==
  ASSUME NEW c \in S!Characters, S!IsSpace(c)
  PROVE  S!Blank(<<c>>)
<1> DEFINE t == <<c>>
<1>1. Len(t) = 1 /\ t[1] = c
  BY Single
<1> HIDE DEF t
<1>2. \A i \in 1..Len(t) : t[i] = c
  BY <1>1
<1>3. S!Blank(t)
  BY <1>2 DEF S!Blank
<1> QED
  BY <1>3 DEF t

LEMMA WordsSteps ==
  ASSUME NEW s \in Seq(S!Characters), NEW breaks
  PROVE  \E f \in [0..Len(s) -> Seq(Letters)] :
           /\ f[0] = <<>>
           /\ \A i \in 1..Len(s) : Adds(f, s, breaks, i)
           /\ S!Words(s, breaks) = f[Len(s)]
<1> DEFINE m == Len(s)
           U == Seq(Letters)
           letter == [i \in 1..m |-> S!Letter(s, i, breaks)]
           step == [i \in 1..m |-> [t \in U |-> IF S!IsSpace(s[i]) THEN t ELSE Append(t, letter[i])]]
           Steps(f) == [n \in 0..m |-> IF n = 0 THEN <<>>
                          ELSE IF S!IsSpace(s[n]) THEN f[n - 1]
                          ELSE Append(f[n - 1], S!Letter(s, n, breaks))]
<1>1. /\ m \in Nat /\ <<>> \in U
      /\ \A i \in 1..m : letter[i] \in Letters /\ letter[i] = S!Letter(s, i, breaks)
  BY LetterType
<1>2. step \in [1..m -> [U -> U]]
  <2> HIDE DEF letter, m
  <2> QED
    BY <1>1
<1> HIDE DEF m, U, letter
<1>3. PICK f \in [0..m -> U] : f[0] = <<>> /\ \A i \in 1..m : f[i] = step[i][f[i - 1]]
  <2> DEFINE e == <<>>
  <2>1. m \in Nat /\ e \in U /\ step \in Maps(m, U)
    BY <1>1, <1>2 DEF Maps
  <2> HIDE DEF step, e
  <2>2. Values(m, U, e, step) # {}
    BY <2>1, Iterated
  <2> QED
    BY <2>2 DEF e, Values
<1>4. \A i \in 1..m : f[i - 1] \in U
                      /\ f[i] = IF S!IsSpace(s[i]) THEN f[i - 1]
                                ELSE Append(f[i - 1], S!Letter(s, i, breaks))
  <2> TAKE i \in 1..m
  <2>1. f[i - 1] \in U
    BY <1>1
  <2>2. step[i][f[i - 1]] = IF S!IsSpace(s[i]) THEN f[i - 1] ELSE Append(f[i - 1], letter[i])
    BY <2>1
  <2> HIDE DEF step
  <2> QED
    BY <1>1, <1>3, <2>1, <2>2
<1> HIDE DEF step
<1>5. f = Steps(f)
  <2>1. \A n \in 0..m : n = 0 \/ n \in 1..m
    BY <1>1
  <2>2. \A n \in 0..m : f[n] = Steps(f)[n]
    BY <1>3, <1>4, <2>1
  <2> QED
    BY <2>2
<1> DEFINE t == CHOOSE t : t = Steps(t)
<1>6. t = Steps(t)
  BY <1>5
<1>7. S!Words(s, breaks) = t[m]
  BY DEF S!Words, m
<1> HIDE DEF t
<1>T. \A n \in 0..m : t[n] = Steps(t)[n]
  <2> HIDE DEF Steps
  <2> QED
    BY <1>6
<1>8. t[0] = <<>> /\ \A i \in 1..m : Adds(t, s, breaks, i)
  <2>1. 0 \in 0..m /\ \A i \in 1..m : i \in 0..m /\ i # 0
    BY <1>1
  <2> QED
    BY <1>T, <2>1 DEF Adds
<1>9. \A i \in 0..m : t[i] = f[i]
  <2> DEFINE T == {i \in 0..m : t[i] = f[i]}
  <2>1. 0 \in T
    BY <1>1, <1>3, <1>8
  <2>2. ASSUME NEW n \in 0..m, n \in T, n < m PROVE n + 1 \in T
    <3>1. n + 1 \in 1..m /\ n + 1 \in 0..m /\ (n + 1) - 1 = n /\ t[n] = f[n]
      BY <1>1, <2>2
    <3>2. /\ t[n + 1] = IF S!IsSpace(s[n + 1]) THEN t[n] ELSE Append(t[n], S!Letter(s, n + 1, breaks))
          /\ f[n + 1] = IF S!IsSpace(s[n + 1]) THEN f[n] ELSE Append(f[n], S!Letter(s, n + 1, breaks))
      BY <1>4, <1>8, <3>1 DEF Adds
    <3>3. t[n + 1] = f[n + 1]
      BY <3>1, <3>2, Zenon
    <3> QED
      BY <3>1, <3>3
  <2> HIDE DEF T
  <2>3. 0..m \subseteq T
    BY <1>1, <2>1, <2>2, Upwards
  <2> QED
    BY <2>3 DEF T
<1>10. \A i \in 1..m : Adds(f, s, breaks, i)
  BY <1>4 DEF Adds
<1>11. m \in 0..m
  BY <1>1
<1> QED
  BY <1>1, <1>3, <1>7, <1>9, <1>10, <1>11 DEF m, U

LEMMA WordsType ==
  ASSUME NEW s \in Seq(S!Characters), NEW breaks
  PROVE  S!Words(s, breaks) \in Seq(Letters)
BY WordsSteps

LEMMA WordsEmpty ==
  ASSUME NEW breaks
  PROVE  S!Words(<<>>, breaks) = <<>>
<1>1. <<>> \in Seq(S!Characters) /\ Len(<<>>) = 0
  OBVIOUS
<1> QED
  BY <1>1, WordsSteps

\* A text whose beginning is another says what that one says, and more.
Begins(s, r, b, d) ==
  /\ Len(s) <= Len(r)
  /\ \A i \in 1..Len(s) : r[i] = s[i]
  /\ \A i \in 1 .. Len(s) - 1 : i \in b <=> i \in d
Grows(f, r, b) == f[0] = <<>> /\ \A i \in 1..Len(r) : Adds(f, r, b, i)

LEMMA SameBeginning ==
  ASSUME NEW s \in Seq(S!Characters), NEW r \in Seq(S!Characters), NEW b, NEW d,
         Begins(s, r, b, d), NEW f, Grows(f, r, b)
  PROVE  f[Len(s)] = S!Words(s, d)
<1> DEFINE m == Len(s)
<1>1. /\ m \in Nat /\ Len(r) \in Nat /\ m <= Len(r)
      /\ \A i \in 1..m : r[i] = s[i]
      /\ \A i \in 1 .. m - 1 : i \in b <=> i \in d
      /\ f[0] = <<>> /\ \A i \in 1..Len(r) : Adds(f, r, b, i)
  BY DEF Begins, Grows
<1>2. PICK g : /\ g[0] = <<>>
               /\ \A i \in 1..m : Adds(g, s, d, i)
               /\ S!Words(s, d) = g[m]
  BY WordsSteps
<1>3. \A i \in 1..m : S!Letter(r, i, b) = S!Letter(s, i, d)
  <2> TAKE i \in 1..m
  <2>1. r[i] = s[i] /\ (i = 1 \/ (i - 1 \in 1..m /\ i - 1 \in 1 .. m - 1))
    BY <1>1
  <2>2. CASE i = 1
    BY <2>1, <2>2 DEF S!Letter
  <2>3. CASE i # 1
    <3>1. r[i - 1] = s[i - 1] /\ (i - 1 \in b <=> i - 1 \in d)
      BY <1>1, <2>1, <2>3
    <3> QED
      BY <2>1, <2>3, <3>1 DEF S!Letter
  <2> QED
    BY <2>2, <2>3
<1> DEFINE T == {i \in 0..m : f[i] = g[i]}
<1>4. 0 \in T
  BY <1>1, <1>2
<1>5. ASSUME NEW n \in 0..m, n \in T, n < m PROVE n + 1 \in T
  <2>1. /\ n + 1 \in 1..m /\ n + 1 \in 1..Len(r) /\ (n + 1) - 1 = n
        /\ f[n] = g[n] /\ r[n + 1] = s[n + 1]
    BY <1>1, <1>5
  <2>2. Adds(f, r, b, n + 1) /\ Adds(g, s, d, n + 1)
    BY <1>1, <1>2, <2>1
  <2>3. f[n + 1] = g[n + 1]
    BY <1>3, <2>1, <2>2 DEF Adds
  <2>4. n + 1 \in 0..m
    BY <1>1, <2>1
  <2> QED
    BY <2>3, <2>4
<1>6. 0..m \subseteq T
  <2> HIDE DEF T, m
  <2> QED
    BY <1>1, <1>4, <1>5, Upwards
<1> QED
  BY <1>1, <1>2, <1>6

\* Two texts one behind the other, the second at the beginning of a word.
Apart(s, t, b, d, e) ==
  /\ \A i \in 1 .. Len(s) - 1 : i \in b <=> i \in d
  /\ \A i \in 1 .. Len(t) - 1 : Len(s) + i \in b <=> i \in e
  /\ s = <<>> \/ S!IsSpace(s[Len(s)]) \/ Len(s) \in b

LEMMA WordsConcat ==
  ASSUME NEW s \in Seq(S!Characters), NEW t \in Seq(S!Characters), NEW b, NEW d, NEW e,
         Apart(s, t, b, d, e)
  PROVE  S!Words(s \o t, b) = S!Words(s, d) \o S!Words(t, e)
<1> DEFINE r == s \o t
           m == Len(s)
           k == Len(t)
<1>1. /\ r \in Seq(S!Characters) /\ Len(r) = m + k /\ m \in Nat /\ k \in Nat
      /\ \A i \in 1..m : r[i] = s[i]
      /\ \A i \in 1..k : r[m + i] = t[i]
  OBVIOUS
<1>0. /\ m = 0 \/ S!IsSpace(s[m]) \/ m \in b
      /\ \A i \in 1 .. m - 1 : i \in b <=> i \in d
      /\ \A i \in 1 .. k - 1 : m + i \in b <=> i \in e
  BY <1>1 DEF Apart
<1> HIDE DEF r
<1>2. PICK f : /\ f[0] = <<>>
               /\ \A i \in 1..Len(r) : Adds(f, r, b, i)
               /\ S!Words(r, b) = f[Len(r)]
  BY <1>1, WordsSteps
<1>3. f[m] = S!Words(s, d)
  <2>1. Begins(s, r, b, d) /\ Grows(f, r, b)
    BY <1>1, <1>2 DEF Begins, Grows, Apart
  <2> QED
    BY <1>1, <2>1, SameBeginning
<1>4. PICK h \in [0..k -> Seq(Letters)] :
        /\ h[0] = <<>>
        /\ \A i \in 1..k : Adds(h, t, e, i)
        /\ S!Words(t, e) = h[k]
  BY WordsSteps
<1>5. \A i \in 1..k : S!Letter(r, m + i, b) = S!Letter(t, i, e)
  <2> TAKE i \in 1..k
  <2> HIDE DEF m, k
  <2>1. r[m + i] = t[i] /\ (i = 1 \/ (i - 1 \in 1..k /\ i - 1 \in 1 .. k - 1))
        /\ (m + i) - 1 = m + (i - 1)
    BY <1>1
  <2>2. CASE i = 1
    <3>1. m + 1 = 1 \/ S!IsSpace(r[(m + 1) - 1]) \/ (m + 1) - 1 \in b
      <4>1. (m + 1) - 1 = m /\ (m = 0 => m + 1 = 1) /\ (m # 0 => r[m] = s[m])
        BY <1>1
      <4> QED
        BY <1>0, <4>1
    <3> QED
      BY <2>1, <2>2, <3>1 DEF S!Letter
  <2>3. CASE i # 1
    <3> DEFINE j == i - 1
    <3>0. j \in 1..k /\ j \in 1 .. k - 1
      BY <2>1, <2>3
    <3>2. r[m + j] = t[j] /\ (m + j \in b <=> j \in e)
      BY <1>0, <1>1, <3>0
    <3>3. m + i # 1
      BY <1>1, <2>3
    <3>1. r[m + (i - 1)] = t[i - 1] /\ (m + (i - 1) \in b <=> i - 1 \in e) /\ m + i # 1
      BY <3>2, <3>3
    <3> QED
      BY <2>1, <2>3, <3>1 DEF S!Letter
  <2> QED
    BY <2>2, <2>3
<1> DEFINE w == S!Words(s, d)
           T == {i \in 0..k : f[m + i] = w \o h[i]}
<1>6. w \in Seq(Letters)
  BY WordsType
<1> HIDE DEF w
<1>7. 0 \in T
  <2>1. w \o <<>> = w /\ m + 0 = m /\ 0 \in 0..k
    BY <1>1, <1>6
  <2> QED
    BY <1>3, <1>4, <2>1 DEF w
<1>8. ASSUME NEW n \in 0..k, n \in T, n < k PROVE n + 1 \in T
  <2>1. /\ n + 1 \in 1..k /\ n + 1 \in 0..k /\ m + (n + 1) \in 1..Len(r)
        /\ (m + (n + 1)) - 1 = m + n /\ (n + 1) - 1 = n
        /\ f[m + n] = w \o h[n] /\ r[m + (n + 1)] = t[n + 1]
    BY <1>1, <1>8
  <2>2. Adds(f, r, b, m + (n + 1)) /\ Adds(h, t, e, n + 1)
    BY <1>2, <1>4, <2>1
  <2> DEFINE x == S!Letter(t, n + 1, e)
  <2>3. /\ f[m + (n + 1)] = IF S!IsSpace(t[n + 1]) THEN f[m + n] ELSE Append(f[m + n], x)
        /\ h[n + 1] = IF S!IsSpace(t[n + 1]) THEN h[n] ELSE Append(h[n], x)
    <3>1. S!Letter(r, m + (n + 1), b) = x
      BY <1>5, <2>1
    <3> HIDE DEF x, m, k
    <3>2. f[m + (n + 1)] = IF S!IsSpace(t[n + 1]) THEN f[m + n] ELSE Append(f[m + n], x)
      BY <2>1, <2>2, <3>1 DEF Adds
    <3>3. h[n + 1] = IF S!IsSpace(t[n + 1]) THEN h[n] ELSE Append(h[n], x)
      BY <2>1, <2>2 DEF Adds, x
    <3> QED
      BY <3>2, <3>3
  <2>4. x \in Letters /\ h[n] \in Seq(Letters)
    BY <2>1, LetterType
  <2> HIDE DEF x
  <2>5. Append(w \o h[n], x) = w \o Append(h[n], x)
    <3> DEFINE a == h[n]
    <3>0. a \in Seq(Letters)
      BY <2>4
    <3> HIDE DEF a
    <3>1. w \o a \in Seq(Letters) /\ <<x>> \in Seq(Letters)
      BY <1>6, <2>4, <3>0
    <3>2. Append(w \o a, x) = (w \o a) \o <<x>> /\ Append(a, x) = a \o <<x>>
      BY <2>4, <3>0, <3>1, AppendIsConcat
    <3>3. (w \o a) \o <<x>> = w \o (a \o <<x>>)
      BY <1>6, <3>0, <3>1, ConcatAssociative
    <3>4. Append(w \o a, x) = w \o Append(a, x)
      BY <3>2, <3>3
    <3> QED
      BY <3>4 DEF a
  <2>6. f[m + (n + 1)] = w \o h[n + 1]
    <3> HIDE DEF m
    <3> QED
      BY <2>1, <2>3, <2>5, Zenon
  <2> QED
    BY <2>1, <2>6
<1>9. k \in T
  <2> HIDE DEF T, k
  <2>1. 0..k \subseteq T
    BY <1>1, <1>7, <1>8, Upwards
  <2> QED
    BY <1>1, <2>1
<1> QED
  BY <1>1, <1>2, <1>4, <1>9 DEF r, w

\* Space behind a text says nothing.
LEMMA WordsSpace ==
  ASSUME NEW s \in Seq(S!Characters), NEW t \in Seq(S!Characters), NEW b,
         S!Blank(t)
  PROVE  S!Words(s \o t, b) = S!Words(s, b)
<1> DEFINE r == s \o t
           m == Len(s)
           k == Len(t)
<1>1. /\ r \in Seq(S!Characters) /\ Len(r) = m + k /\ m \in Nat /\ k \in Nat
      /\ \A i \in 1..m : r[i] = s[i]
      /\ \A i \in 1..k : r[m + i] = t[i] /\ S!IsSpace(t[i])
  BY DEF S!Blank
<1> HIDE DEF r
<1>2. PICK f : /\ f[0] = <<>>
               /\ \A i \in 1..Len(r) : Adds(f, r, b, i)
               /\ S!Words(r, b) = f[Len(r)]
  BY <1>1, WordsSteps
<1>3. f[m] = S!Words(s, b)
  <2>1. Begins(s, r, b, b) /\ Grows(f, r, b)
    BY <1>1, <1>2 DEF Begins, Grows
  <2> QED
    BY <1>1, <2>1, SameBeginning
<1> DEFINE T == {i \in 0..k : f[m + i] = f[m]}
<1>4. 0 \in T
  BY <1>1
<1>5. ASSUME NEW n \in 0..k, n \in T, n < k PROVE n + 1 \in T
  <2>1. /\ n + 1 \in 1..k /\ n + 1 \in 0..k /\ m + (n + 1) \in 1..Len(r)
        /\ (m + (n + 1)) - 1 = m + n /\ f[m + n] = f[m] /\ S!IsSpace(r[m + (n + 1)])
    <3> HIDE DEF m, k
    <3>1. n + 1 \in 1..k /\ n \in 0..k /\ n + 1 \in 0..k /\ f[m + n] = f[m]
      BY <1>1, <1>5
    <3>2. r[m + (n + 1)] = t[n + 1] /\ S!IsSpace(t[n + 1])
      BY <1>1, <3>1
    <3>3. S!IsSpace(r[m + (n + 1)])
      BY <3>2
    <3>4. m + (n + 1) \in 1..Len(r) /\ (m + (n + 1)) - 1 = m + n
      BY <1>1, <3>1
    <3> QED
      BY <3>1, <3>3, <3>4
  <2>2. Adds(f, r, b, m + (n + 1))
    BY <1>2, <2>1
  <2>3. f[m + (n + 1)] = f[m]
    BY <2>1, <2>2 DEF Adds
  <2> QED
    BY <2>1, <2>3
<1>6. k \in T
  <2> HIDE DEF T, k
  <2>1. 0..k \subseteq T
    BY <1>1, <1>4, <1>5, Upwards
  <2> QED
    BY <1>1, <2>1
<1> QED
  BY <1>1, <1>2, <1>3, <1>6 DEF r

\* Statements one behind the other.
LEMMA FlattenSteps ==
  ASSUME NEW q \in Seq(Seq(S!Characters))
  PROVE  \E h \in [0..Len(q) -> Seq(S!Characters)] :
           /\ h[0] = <<>>
           /\ \A i \in 1..Len(q) : h[i] = h[i - 1] \o q[i]
           /\ S!FlattenSeq(q) = h[Len(q)]
<1> DEFINE m == Len(q)
           U == Seq(S!Characters)
           step == [i \in 1..m |-> [t \in U |-> t \o q[i]]]
           Steps(f) == [i \in 1..m |-> IF i = 1 THEN q[i] ELSE f[i - 1] \o q[i]]
<1>1. m \in Nat /\ <<>> \in U /\ \A i \in 1..m : q[i] \in U
  OBVIOUS
<1>2. \A a \in U, b \in U : a \o b \in U /\ <<>> \o b = b
  OBVIOUS
<1>3. step \in Maps(m, U)
  BY <1>1, <1>2 DEF Maps
<1> HIDE DEF m, U
<1>4. PICK h \in [0..m -> U] : h[0] = <<>> /\ \A i \in 1..m : h[i] = step[i][h[i - 1]]
  <2> DEFINE e == <<>>
  <2>1. e \in U
    BY <1>1
  <2> HIDE DEF step, e
  <2>2. Values(m, U, e, step) # {}
    BY <1>1, <1>3, <2>1, Iterated
  <2> QED
    BY <2>2 DEF e, Values
<1>5. \A i \in 1..m : h[i - 1] \in U /\ h[i] = h[i - 1] \o q[i]
  <2> TAKE i \in 1..m
  <2>1. h[i - 1] \in U
    BY <1>1
  <2>2. step[i][h[i - 1]] = h[i - 1] \o q[i]
    BY <2>1
  <2> QED
    BY <1>4, <2>1, <2>2
<1>6. CASE m = 0
  <2>1. q = <<>> /\ S!FlattenSeq(q) = q
    BY <1>6 DEF S!FlattenSeq, m
  <2> QED
    BY <1>4, <1>5, <1>6, <2>1 DEF m, U
<1>7. CASE m # 0
  <2> DEFINE f == [i \in 1..m |-> h[i]]
             t == CHOOSE t : t = Steps(t)
  <2>0. h[1] = q[1]
    <3>1. 1 \in 1..m /\ 1 - 1 = 0
      BY <1>1, <1>7
    <3>2. h[1] = <<>> \o q[1] /\ q[1] \in U
      BY <1>1, <1>4, <1>5, <3>1
    <3> QED
      BY <1>2, <3>2
  <2>1. f = Steps(f)
    <3>1. \A i \in 1..m : i = 1 \/ i - 1 \in 1..m
      BY <1>1
    <3>3. \A i \in 1..m : f[i] = Steps(f)[i]
      BY <1>5, <2>0, <3>1
    <3> QED
      BY <3>3
  <2> HIDE DEF f
  <2>2. t = Steps(t)
    BY <2>1
  <2>3. S!FlattenSeq(q) = t[m]
    BY <1>7 DEF S!FlattenSeq, m
  <2> HIDE DEF t
  <2>4. \A i \in 1..m : t[i] = IF i = 1 THEN q[i] ELSE t[i - 1] \o q[i]
    <3>1. \A i \in 1..m : t[i] = Steps(t)[i]
      <4> HIDE DEF Steps
      <4> QED
        BY <2>2
    <3> QED
      BY <3>1
  <2>5. \A i \in 1..m : t[i] = h[i]
    <3> DEFINE T == {i \in 0..m : i = 0 \/ t[i] = h[i]}
    <3>1. 0 \in T
      BY <1>1
    <3>2. ASSUME NEW n \in 0..m, n \in T, n < m PROVE n + 1 \in T
      <4>1. n + 1 \in 1..m /\ (n + 1) - 1 = n /\ (n = 0 <=> n + 1 = 1)
        BY <1>1, <3>2
      <4>2. CASE n = 0
        BY <2>0, <2>4, <4>1, <4>2
      <4>3. CASE n # 0
        <5>1. t[n] = h[n]
          BY <3>2, <4>3
        <5>2. t[n + 1] = t[n] \o q[n + 1] /\ h[n + 1] = h[n] \o q[n + 1]
          BY <1>5, <2>4, <4>1, <4>3
        <5>3. t[n + 1] = h[n + 1]
          BY <5>1, <5>2, Zenon
        <5>4. n + 1 \in 0..m
          BY <1>1, <4>1
        <5> QED
          BY <5>3, <5>4
      <4> QED
        BY <4>2, <4>3
    <3> HIDE DEF T
    <3>3. 0..m \subseteq T
      BY <1>1, <3>1, <3>2, Upwards
    <3> QED
      BY <3>3 DEF T
  <2>6. m \in 1..m
    BY <1>1, <1>7
  <2> QED
    BY <1>4, <1>5, <2>3, <2>5, <2>6 DEF m, U
<1> QED
  BY <1>6, <1>7

\* One more statement comes behind the others.
LEMMA FlattenAppend ==
  ASSUME NEW q \in Seq(Seq(S!Characters)), NEW x \in Seq(S!Characters)
  PROVE  /\ S!FlattenSeq(q) \in Seq(S!Characters)
         /\ S!FlattenSeq(Append(q, x)) = S!FlattenSeq(q) \o x
<1> DEFINE r == Append(q, x)
           m == Len(q)
<1>1. /\ r \in Seq(Seq(S!Characters)) /\ Len(r) = m + 1 /\ r[m + 1] = x /\ m \in Nat
      /\ \A i \in 1..m : r[i] = q[i]
  OBVIOUS
<1>2. PICK f \in [0..m -> Seq(S!Characters)] :
        /\ f[0] = <<>>
        /\ \A i \in 1..m : f[i] = f[i - 1] \o q[i]
        /\ S!FlattenSeq(q) = f[m]
  BY FlattenSteps
<1> HIDE DEF r, m
<1>3. PICK g : /\ g[0] = <<>>
               /\ \A i \in 1..m + 1 : g[i] = g[i - 1] \o r[i]
               /\ S!FlattenSeq(r) = g[m + 1]
  BY <1>1, FlattenSteps
<1>4. g[m] = f[m]
  <2> DEFINE T == {i \in 0..m : g[i] = f[i]}
  <2>1. 0 \in T
    <3>1. 0 \in 0..m /\ g[0] = <<>> /\ f[0] = <<>>
      BY <1>1, <1>2, <1>3
    <3> QED
      BY <3>1
  <2>2. ASSUME NEW n \in 0..m, n \in T, n < m PROVE n + 1 \in T
    <3>1. /\ n + 1 \in 1..m /\ n + 1 \in 1..m + 1 /\ (n + 1) - 1 = n
          /\ g[n] = f[n] /\ r[n + 1] = q[n + 1]
      BY <1>1, <2>2
    <3>2. g[n + 1] = g[n] \o r[n + 1] /\ f[n + 1] = f[n] \o q[n + 1]
      BY <1>2, <1>3, <3>1
    <3>3. g[n + 1] = f[n + 1]
      BY <3>1, <3>2, Zenon
    <3>4. n + 1 \in 0..m
      BY <1>1, <3>1
    <3> QED
      BY <3>3, <3>4
  <2> HIDE DEF T
  <2>3. 0..m \subseteq T
    BY <1>1, <2>1, <2>2, Upwards
  <2> QED
    BY <1>1, <2>3 DEF T
<1>5. g[m + 1] = g[m] \o x
  <2>1. m + 1 \in 1..m + 1 /\ (m + 1) - 1 = m /\ r[m + 1] = x
    BY <1>1
  <2>2. g[m + 1] = g[(m + 1) - 1] \o r[m + 1]
    BY <1>3, <2>1
  <2> QED
    BY <2>1, <2>2
<1>6. f[m] \in Seq(S!Characters)
  BY <1>1
<1> QED
  BY <1>2, <1>3, <1>4, <1>5, <1>6 DEF r

-----------------------------------------------------------------------------
(* The command line: what a line adds                                      *)

\* fgets takes something, and not more than there is, of one line, or fills its buffer.
LEMMA LineEnds ==
  ASSUME typed \in Seq(S!Characters), read \in 0..Len(typed), read < Len(typed)
  PROVE  LET n == S!LineEnd IN
         /\ n \in 1 .. Len(typed) - read
         /\ typed[read + n] = "\n" \/ read + n = Len(typed) \/ n = BufSize - 1
         /\ \A i \in 1 .. n - 1 : typed[read + i] # "\n"
<1> DEFINE left == Len(typed) - read
           Stop(n) == typed[read + n] = "\n" \/ read + n = Len(typed) \/ n = BufSize - 1
           T == {n \in 1..left : Stop(n)}
           End(n) == /\ typed[read + n] = "\n" \/ read + n = Len(typed) \/ n = BufSize - 1
                     /\ \A i \in 1 .. n - 1 : typed[read + i] # "\n"
                     /\ n <= BufSize - 1
<1>1. left \in Nat /\ left \in T
  OBVIOUS
<1>2. PICK n \in T : \A y \in T : n <= y
  <2>1. T \subseteq Nat
    BY <1>1
  <2> HIDE DEF T
  <2> QED
    BY <1>1, <2>1, FirstOf
<1>3. n \in 1..left /\ Stop(n) /\ n \in Nat
  BY <1>1
<1>4. \A i \in 1..n - 1 : i \in 1..left /\ i \notin T
  BY <1>1, <1>2, <1>3
<1>5. \A i \in 1..n - 1 : ~Stop(i)
  BY <1>4
<1>6. n <= BufSize - 1
  <2>1. CASE n > BufSize - 1
    <3>1. BufSize - 1 \in 1..n - 1
      BY <1>3, <2>1, ShellAssumption
    <3> QED
      BY <1>5, <3>1
  <2> QED
    BY <1>3, <2>1, ShellAssumption
<1>7. End(n)
  BY <1>3, <1>5, <1>6
<1>8. S!LineEnd = CHOOSE k \in 1..left : End(k)
  BY DEF S!LineEnd
<1> HIDE DEF left
<1>9. S!LineEnd \in 1..left /\ End(S!LineEnd)
  <2> HIDE DEF End
  <2> QED
    BY <1>3, <1>7, <1>8
<1> QED
  BY <1>9 DEF left

\* A text in two parts.
LEMMA Halves ==
  ASSUME NEW s \in Seq(S!Characters), NEW n \in 0..Len(s)
  PROVE  /\ SubSeq(s, 1, n) \in Seq(S!Characters) /\ Len(SubSeq(s, 1, n)) = n
         /\ SubSeq(s, n + 1, Len(s)) \in Seq(S!Characters)
         /\ Len(SubSeq(s, n + 1, Len(s))) = Len(s) - n
         /\ \A i \in 1 .. Len(s) - n : SubSeq(s, n + 1, Len(s))[i] = s[n + i]
         /\ s = SubSeq(s, 1, n) \o SubSeq(s, n + 1, Len(s))
<1>1. 1 \in 1..Len(s) + 1 /\ n \in 1 - 1 .. Len(s) /\ Len(s) \in n..Len(s)
  OBVIOUS
<1>2. SubSeq(s, 1, n) \o SubSeq(s, n + 1, Len(s)) = s
  BY <1>1, ConcatAdjacentSubSeq, SubSeqFull
<1>3. /\ SubSeq(s, 1, n) \in Seq(S!Characters) /\ Len(SubSeq(s, 1, n)) = n
      /\ SubSeq(s, n + 1, Len(s)) \in Seq(S!Characters)
      /\ Len(SubSeq(s, n + 1, Len(s))) = Len(s) - n
      /\ \A i \in 1 .. Len(s) - n : SubSeq(s, n + 1, Len(s))[i] = s[n + i]
  OBVIOUS
<1> QED
  BY <1>2, <1>3

\* What follows the last word or semicolon says nothing.
LEMMA TrimmedSays ==
  ASSUME NEW s \in Seq(S!Characters), ~S!Blank(s)
  PROVE  /\ S!Trimmed(s) \in Seq(S!Characters) /\ S!Trimmed(s) # <<>>
         /\ S!Words(S!Trimmed(s), {}) = S!Words(s, {})
<1> DEFINE Rest(n) == \A i \in n + 1 .. Len(s) : S!IsSpace(s[i])
           Behind(n) == /\ n = 0 \/ ~S!IsSpace(s[n])
                        /\ \A i \in n + 1 .. Len(s) : S!IsSpace(s[i])
           T == {n \in 0..Len(s) : Rest(n)}
<1>1. Len(s) \in Nat /\ Len(s) \in T
  OBVIOUS
<1>2. PICK n \in T : \A y \in T : n <= y
  <2>1. T \subseteq Nat
    BY <1>1
  <2> HIDE DEF T
  <2> QED
    BY <1>1, <2>1, FirstOf
<1>3. Behind(n) /\ n \in 0..Len(s)
  <2>1. CASE n # 0 /\ S!IsSpace(s[n])
    <3>1. n - 1 \in 0..Len(s) /\ (n - 1) + 1 = n /\ n..Len(s) = {n} \cup n + 1 .. Len(s)
      BY <1>1, <2>1
    <3>2. n - 1 \in T
      BY <2>1, <3>1
    <3> QED
      BY <1>2, <3>1, <3>2
  <2> QED
    BY <2>1
<1> DEFINE k == CHOOSE k \in 0..Len(s) : Behind(k)
<1>4. S!Trimmed(s) = SubSeq(s, 1, k)
  BY DEF S!Trimmed
<1>5. k \in 0..Len(s) /\ Behind(k)
  <2> HIDE DEF Behind
  <2> QED
    BY <1>3
<1> HIDE DEF k
<1> DEFINE a == SubSeq(s, 1, k)
           b == SubSeq(s, k + 1, Len(s))
<1>6. /\ a \in Seq(S!Characters) /\ b \in Seq(S!Characters) /\ s = a \o b
      /\ Len(b) = Len(s) - k /\ \A i \in 1 .. Len(s) - k : b[i] = s[k + i]
  BY <1>5, Halves
<1>7. a # <<>>
  <2>1. k # 0
    BY <1>5 DEF S!Blank
  <2>2. Len(a) = k
    BY <1>5, Halves
  <2> HIDE DEF a
  <2> QED
    BY <2>1, <2>2
<1> HIDE DEF a, b
<1>8. S!Blank(b)
  <2>1. \A i \in 1..Len(b) : S!IsSpace(b[i])
    <3> TAKE i \in 1..Len(b)
    <3>1. k + i \in k + 1 .. Len(s) /\ b[i] = s[k + i]
      BY <1>1, <1>5, <1>6
    <3> QED
      BY <1>5, <3>1
  <2> QED
    BY <2>1 DEF S!Blank
<1>9. S!Words(s, {}) = S!Words(a, {})
  BY <1>6, <1>8, WordsSpace
<1> QED
  BY <1>4, <1>6, <1>7, <1>9 DEF a

ShellTypes ==
  /\ typed \in Seq(S!Characters) /\ read \in 0..Len(typed)
  /\ query \in Seq(S!Characters) /\ executed \in Seq(Seq(S!Characters))
  /\ spc \in {"prompt", "quit", "eof"} /\ cuts \subseteq 0..read

\* A line begins at the input's beginning, behind a newline or where the buffer was full.
AtBeginning == read = 0 \/ typed[read] = "\n" \/ read \in cuts \/ read = Len(typed)

\* A blank line says nothing.
LEMMA BlankSays ==
  ASSUME NEW s \in Seq(S!Characters), S!Blank(s)
  PROVE  S!Words(s, {}) = <<>>
<1>1. <<>> \in Seq(S!Characters) /\ <<>> \o s = s
  OBVIOUS
<1>2. S!Words(<<>> \o s, {}) = S!Words(<<>>, {})
  BY <1>1, WordsSpace
<1> QED
  BY <1>1, <1>2, WordsEmpty

\* A line says what was read for it, and is the beginning of a word.
LEMMA LineSays ==
  ASSUME ShellTypes, AtBeginning, read < Len(typed),
         NEW new, new \subseteq cuts \cup {read + S!LineEnd}, cuts \subseteq new
  PROVE  /\ S!read_line \in Seq(S!Characters)
         /\ S!Words(SubSeq(typed, 1, read + S!LineEnd), new) =
              S!Words(SubSeq(typed, 1, read), cuts) \o S!Words(S!read_line, {})
<1> DEFINE n == S!LineEnd
           a == SubSeq(typed, 1, read)
           b == SubSeq(typed, read + 1, read + n)
           c == SubSeq(typed, 1, read + n)
<1>T. /\ typed \in Seq(S!Characters) /\ read \in 0..Len(typed) /\ Len(typed) \in Nat
      /\ cuts \subseteq 0..read /\ read < Len(typed)
  BY DEF ShellTypes
<1>1. n \in 1 .. Len(typed) - read
  BY <1>T, LineEnds
<1>0. S!read_line = IF b[Len(b)] = "\n" THEN SubSeq(b, 1, Len(b) - 1) ELSE b
  BY DEF S!read_line, S!Last, S!Front
<1>N. new \subseteq cuts \cup {read + n} /\ cuts \subseteq new
  OBVIOUS
<1> HIDE DEF n
<1>2. /\ a \in Seq(S!Characters) /\ b \in Seq(S!Characters) /\ c \in Seq(S!Characters)
      /\ Len(a) = read /\ Len(b) = n /\ Len(c) = read + n
      /\ \A i \in 1..read : a[i] = typed[i]
      /\ \A i \in 1..n : b[i] = typed[read + i]
      /\ \A i \in 1..read + n : c[i] = typed[i]
  <2>1. a \in Seq(S!Characters) /\ Len(a) = read /\ \A i \in 1..read : a[i] = typed[i]
    BY <1>T
  <2>2. b \in Seq(S!Characters) /\ Len(b) = n /\ \A i \in 1..n : b[i] = typed[read + i]
    BY <1>T, <1>1
  <2>3. /\ c \in Seq(S!Characters) /\ Len(c) = read + n
        /\ \A i \in 1..read + n : c[i] = typed[i]
    BY <1>T, <1>1
  <2> QED
    BY <2>1, <2>2, <2>3
<1>3. c = a \o b
  <2>1. 1 \in 1..Len(typed) + 1 /\ read \in 1 - 1 .. Len(typed) /\ read + n \in read..Len(typed)
    BY <1>T, <1>1
  <2> QED
    BY <1>T, <2>1, ConcatAdjacentSubSeq
<1>A. a = <<>> \/ S!IsSpace(a[Len(a)]) \/ Len(a) \in new
  <2>1. CASE read = 0
    BY <2>1
  <2>2. CASE typed[read] = "\n" /\ read # 0
    <3>1. read \in 1..read
      BY <1>T, <2>2
    <3> HIDE DEF a
    <3> QED
      BY <1>2, <2>2, <3>1 DEF S!IsSpace
  <2>3. CASE read \in cuts
    <3> HIDE DEF a
    <3> QED
      BY <1>2, <1>N, <2>3
  <2> HIDE DEF a
  <2>4. read = 0 \/ typed[read] = "\n" \/ read \in cuts
    BY <1>T DEF AtBeginning
  <2> QED
    BY <2>1, <2>2, <2>3, <2>4
<1> HIDE DEF a, b, c
<1>B. /\ \A i \in 1 .. Len(a) - 1 : i \in new <=> i \in cuts
      /\ \A i \in 1 .. Len(b) - 1 : Len(a) + i \in new <=> i \in {}
  <2>1. \A i \in 1 .. read - 1 : i # read + n
    BY <1>T, <1>1
  <2>2. \A i \in 1 .. n - 1 : read + i # read + n /\ read + i \notin 0..read
    BY <1>T, <1>1
  <2> QED
    BY <1>T, <1>2, <1>N, <2>1, <2>2
<1>4. S!Words(c, new) = S!Words(a, cuts) \o S!Words(b, {})
  <2>1. S!Words(a \o b, new) = S!Words(a, cuts) \o S!Words(b, {})
    <3> DEFINE e == {}
    <3>1. \A i \in 1 .. Len(b) - 1 : Len(a) + i \in new <=> i \in e
      BY <1>B
    <3> HIDE DEF e
    <3>2. Apart(a, b, new, cuts, e)
      BY <1>A, <1>B, <3>1 DEF Apart
    <3>3. S!Words(a \o b, new) = S!Words(a, cuts) \o S!Words(b, e)
      BY <1>2, <3>2, WordsConcat
    <3> QED
      BY <3>3 DEF e
  <2> QED
    BY <1>3, <2>1
<1>5. S!read_line \in Seq(S!Characters) /\ S!Words(S!read_line, {}) = S!Words(b, {})
  <2>1. CASE b[Len(b)] # "\n"
    BY <1>0, <1>2, <2>1
  <2>2. CASE b[Len(b)] = "\n"
    <3> DEFINE f == SubSeq(b, 1, Len(b) - 1)
               t == <<b[n]>>
    <3>1. f \in Seq(S!Characters) /\ t \in Seq(S!Characters) /\ b = f \o t
      BY <1>1, <1>2
    <3>2. S!Blank(t)
      <4>1. b[n] \in S!Characters /\ b[n] = "\n"
        BY <1>1, <1>2, <2>2
      <4>2. S!IsSpace(b[n])
        BY <4>1 DEF S!IsSpace
      <4> QED
        BY <4>1, <4>2, BlankSingle
    <3> HIDE DEF f, t
    <3>3. S!Words(b, {}) = S!Words(f, {})
      <4>1. S!Words(f \o t, {}) = S!Words(f, {})
        BY <3>1, <3>2, WordsSpace
      <4> QED
        BY <3>1, <4>1
    <3> QED
      BY <1>0, <2>2, <3>1, <3>3 DEF f
  <2> QED
    BY <2>1, <2>2
<1> QED
  BY <1>4, <1>5 DEF a, c, n

\* A text that is not empty has a last character.
LEMMA LastOf ==
  ASSUME NEW s \in Seq(S!Characters), s # <<>>
  PROVE  S!Front(s) \in Seq(S!Characters) /\ s = Append(S!Front(s), S!Last(s))
<1>2. Len(s) \in Nat /\ Len(s) # 0
  OBVIOUS
<1> QED
  BY <1>2 DEF S!Front, S!Last

\* What was read is executed or collected, and only the line that ends the session is not.
Ending == <<";", " ">>
Queries == S!FlattenSeq([i \in 1..Len(executed) |-> executed[i] \o Ending])
Behind == Queries = <<>> \/ S!IsSpace(Queries[Len(Queries)])

\* Statements with their semicolons are texts.
LEMMA EndingType == Ending \in Seq(S!Characters)
<1>1. ";" \in S!Characters /\ " " \in S!Characters
  BY DEF S!Characters
<1>2. \A a, b \in S!Characters : <<a, b>> \in Seq(S!Characters)
  OBVIOUS
<1> QED
  BY <1>1, <1>2 DEF Ending

LEMMA Terminated ==
  ASSUME NEW q \in Seq(Seq(S!Characters))
  PROVE  LET r == [i \in 1..Len(q) |-> q[i] \o Ending]
         IN  /\ r \in Seq(Seq(S!Characters)) /\ Len(r) = Len(q)
             /\ \A i \in 1..Len(q) : r[i] = q[i] \o Ending
<1> DEFINE U == Seq(S!Characters)
           m == Len(q)
           r == [i \in 1..m |-> q[i] \o Ending]
<1>2. \A s \in U : s \o Ending \in U
  BY EndingType, ConcatProperties
<1>3. m \in Nat /\ \A i \in 1..m : q[i] \in U
  OBVIOUS
<1> HIDE DEF U, m
<1>4. r \in [1..m -> U]
  BY <1>2, <1>3
<1>5. \A i \in 1..m : r[i] = q[i] \o Ending
  OBVIOUS
<1> HIDE DEF r
<1>6. r \in Seq(U) /\ Len(r) = m
  BY <1>3, <1>4
<1> QED
  BY <1>5, <1>6 DEF U, m, r

\* A statement given to seekdb_query stands, with its semicolon, behind the others.
LEMMA QueriesOneMore ==
  ASSUME executed \in Seq(Seq(S!Characters)), NEW x \in Seq(S!Characters),
         executed' = Append(executed, x)
  PROVE  /\ executed' \in Seq(Seq(S!Characters))
         /\ Queries \in Seq(S!Characters)
         /\ Queries' = Queries \o (x \o Ending)
<1> DEFINE U == Seq(S!Characters)
           m == Len(executed)
           q == [i \in 1..Len(executed) |-> executed[i] \o Ending]
           r == [i \in 1..Len(executed') |-> (executed')[i] \o Ending]
           y == (x \o Ending)
<1>1. /\ executed' \in Seq(U) /\ Len(executed') = m + 1 /\ m \in Nat
      /\ (executed')[m + 1] = x /\ \A i \in 1..m : (executed')[i] = executed[i]
  <2> HIDE DEF U
  <2> QED
    BY AppendProperties DEF U
<1>2. y \in U
  BY EndingType, ConcatProperties
<1>3. q \in Seq(U) /\ Len(q) = m /\ \A i \in 1..m : q[i] = executed[i] \o Ending
  BY Terminated
<1>4. /\ r \in Seq(U) /\ Len(r) = m + 1
      /\ \A i \in 1..m + 1 : r[i] = (executed')[i] \o Ending
  BY <1>1, Terminated
<1>5. Queries = S!FlattenSeq(q) /\ Queries' = S!FlattenSeq(r)
  BY DEF Queries
<1> HIDE DEF q, r, m
<1>6. r[m + 1] = y /\ \A i \in 1..m : r[i] = q[i]
  <2>1. m + 1 \in 1..m + 1 /\ \A i \in 1..m : i \in 1..m + 1
    BY <1>1
  <2>2. r[m + 1] = (executed')[m + 1] \o Ending
    BY <1>4, <2>1
  <2> QED
    BY <1>1, <1>3, <1>4, <2>1, <2>2
<1>7. S!FlattenSeq(q) \in U /\ S!FlattenSeq(Append(q, y)) = S!FlattenSeq(q) \o y
  BY <1>2, <1>3, FlattenAppend
<1> HIDE DEF U, y
<1>8. r = Append(q, y)
  <2>1. /\ Append(q, y) \in Seq(U) /\ Len(Append(q, y)) = m + 1
        /\ Append(q, y)[m + 1] = y /\ \A i \in 1..m : Append(q, y)[i] = q[i]
    <3>1. /\ Append(q, y) \in Seq(U) /\ Len(Append(q, y)) = Len(q) + 1
          /\ Append(q, y)[Len(q) + 1] = y /\ \A i \in 1..Len(q) : Append(q, y)[i] = q[i]
      <4>1. q \in Seq(U) /\ y \in U
        BY <1>2, <1>3
      <4>2. \A p \in Seq(U), e \in U :
              /\ Append(p, e) \in Seq(U) /\ Len(Append(p, e)) = Len(p) + 1
              /\ Append(p, e)[Len(p) + 1] = e /\ \A i \in 1..Len(p) : Append(p, e)[i] = p[i]
        BY AppendProperties
      <4> QED
        BY <4>1, <4>2, Zenon
    <3> QED
      BY <1>3, <3>1
  <2>2. \A i \in 1..m + 1 : i = m + 1 \/ i \in 1..m
    BY <1>1
  <2>3. \A i \in 1..m + 1 : r[i] = Append(q, y)[i]
    BY <1>6, <2>1, <2>2
  <2> DEFINE p == Append(q, y)
  <2>4. r \in Seq(U) /\ p \in Seq(U) /\ Len(r) = m + 1 /\ Len(p) = m + 1
        /\ \A i \in 1..m + 1 : r[i] = p[i]
    BY <1>4, <2>1, <2>3
  <2> HIDE DEF p
  <2>5. r = p
    BY <2>4, SeqEqual
  <2> QED
    BY <2>5 DEF p
<1> QED
  BY <1>1, <1>5, <1>7, <1>8 DEF U, y

LEMMA QueriesType ==
  ASSUME executed \in Seq(Seq(S!Characters))
  PROVE  Queries \in Seq(S!Characters)
<1> DEFINE q == [i \in 1..Len(executed) |-> executed[i] \o Ending]
<1>1. q \in Seq(Seq(S!Characters))
  BY Terminated
<1>2. <<>> \in Seq(S!Characters)
  OBVIOUS
<1>3. Queries = S!FlattenSeq(q)
  BY DEF Queries
<1> HIDE DEF q
<1> QED
  BY <1>1, <1>2, <1>3, FlattenAppend

\* Nothing was given to seekdb_query at first.
LEMMA QueriesNone ==
  ASSUME executed = <<>>
  PROVE  Queries = <<>>
<1> DEFINE q == [i \in 1..Len(executed) |-> executed[i] \o Ending]
<1>1. Len(executed) = 0 /\ 1..0 = {}
  OBVIOUS
<1>2. q = <<>> /\ Len(q) = 0
  BY <1>1
<1> HIDE DEF q
<1>3. S!FlattenSeq(q) = q
  BY <1>2 DEF S!FlattenSeq
<1> QED
  BY <1>2, <1>3 DEF Queries, q

\* Two texts one behind the other, with space between them.
LEMMA WordsBehind ==
  ASSUME NEW s \in Seq(S!Characters), NEW t \in Seq(S!Characters),
         s = <<>> \/ S!IsSpace(s[Len(s)])
  PROVE  S!Words(s \o t, {}) = S!Words(s, {}) \o S!Words(t, {})
<1> DEFINE e == {}
<1>1. Apart(s, t, e, e, e)
  BY DEF Apart
<1> HIDE DEF e
<1>2. S!Words(s \o t, e) = S!Words(s, e) \o S!Words(t, e)
  BY <1>1, WordsConcat
<1> QED
  BY <1>2 DEF e

\* A line that is not blank adds what it says to what was said.
Said == S!Words(Queries \o query, {})

LEMMA CollectStep ==
  ASSUME ShellTypes, Behind, NEW line \in Seq(S!Characters), ~S!Blank(line), S!Collect(line)
  PROVE  /\ query' \in Seq(S!Characters) /\ executed' \in Seq(Seq(S!Characters))
         /\ Behind' /\ Said' = Said \o S!Words(line, {})
<1> DEFINE W(s) == S!Words(s, {})
           U == Seq(S!Characters)
           V == Seq(Letters)
           said == S!buf_append(line)
           whole == S!Trimmed(said)
           gap == <<" ">>
<1>T. /\ Queries \in U /\ query \in U /\ executed \in Seq(U) /\ line \in U /\ gap \in U
      /\ Queries = <<>> \/ S!IsSpace(Queries[Len(Queries)])
  <2>1. " " \in S!Characters
    BY DEF S!Characters
  <2>2. gap \in U
    BY <2>1, Single
  <2> HIDE DEF gap
  <2> QED
    BY <2>2, QueriesType DEF ShellTypes, Behind
<1>L. gap # <<>> /\ S!IsSpace(gap[Len(gap)]) /\ S!Blank(gap)
  <2>1. " " \in S!Characters /\ S!IsSpace(" ")
    BY DEF S!Characters, S!IsSpace
  <2>2. gap # <<>> /\ Len(gap) = 1 /\ gap[1] = " "
    BY <2>1, Single
  <2>3. S!Blank(gap)
    BY <2>1, BlankSingle
  <2> HIDE DEF gap
  <2> QED
    BY <2>1, <2>2, <2>3
<1>0. \A s \in U : W(s) \in V
  BY WordsType
<1>1. said \in U /\ ~S!Blank(said) /\ W(said) = W(query) \o W(line)
  <2>1. CASE query = <<>>
    <3>1. said = line
      BY <2>1 DEF S!buf_append
    <3>2. W(query) = <<>>
      BY <2>1, WordsEmpty
    <3>3. W(line) \in V
      BY <1>T, <1>0
    <3> HIDE DEF W, V, said
    <3>4. <<>> \o W(line) = W(line)
      BY <3>3, ConcatEmptySeq DEF V
    <3> QED
      BY <1>T, <3>1, <3>2, <3>4
  <2>2. CASE query # <<>>
    <3> DEFINE c == query \o gap
    <3>1. said = c \o line
      BY <2>2 DEF S!buf_append
    <3>2. c \in U /\ S!IsSpace(c[Len(c)])
      <4> HIDE DEF gap
      <4> QED
        BY <1>T, <1>L, LastJoined
    <3>3. W(c) = W(query)
      BY <1>T, <1>L, WordsSpace
    <3> HIDE DEF c, gap
    <3>5. W(c \o line) = W(c) \o W(line)
      BY <1>T, <3>2, WordsBehind
    <3>6. c \o line \in U /\ ~S!Blank(c \o line)
      BY <1>T, <3>2, NotBlankBehind, ConcatProperties
    <3> HIDE DEF W
    <3> QED
      BY <3>1, <3>3, <3>5, <3>6
  <2> QED
    BY <2>1, <2>2
<1>2. whole \in U /\ whole # <<>> /\ W(whole) = W(said)
  BY <1>1, TrimmedSays
<1>4. S!Front(whole) \in U /\ whole = Append(S!Front(whole), S!Last(whole))
  BY <1>2, LastOf
<1>C. IF S!Last(whole) = ";"
      THEN executed' = Append(executed, S!Front(whole)) /\ query' = <<>>
      ELSE query' = said /\ executed' = executed
  BY DEF S!Collect
<1> HIDE DEF said, whole
<1>5. Said \o W(line) = W(Queries) \o W(said)
  <2>1. Said = W(Queries) \o W(query)
    BY <1>T, WordsBehind DEF Said
  <2>2. W(Queries) \in V /\ W(query) \in V /\ W(line) \in V
    BY <1>0, <1>T
  <2> HIDE DEF W, V
  <2>3. \A a, b, c \in V : (a \o b) \o c = a \o (b \o c)
    BY ConcatAssociative DEF V
  <2>4. (W(Queries) \o W(query)) \o W(line) = W(Queries) \o (W(query) \o W(line))
    BY <2>2, <2>3, Zenon
  <2> QED
    BY <1>1, <2>1, <2>4, Zenon
<1>6. CASE S!Last(whole) = ";"
  <2> DEFINE front == S!Front(whole)
             sent == whole \o gap
  <2>1. executed' = Append(executed, front) /\ query' = <<>>
    BY <1>C, <1>6
  <2>2. executed' \in Seq(U) /\ Queries' = Queries \o (front \o Ending)
    BY <1>T, <1>4, <2>1, QueriesOneMore
  <2>3. front \o Ending = sent
    <3>1. \A s \in U : s \o <<";", " ">> = Append(s, ";") \o <<" ">>
      <4>1. ";" \in S!Characters /\ " " \in S!Characters
        BY DEF S!Characters
      <4>2. \A a, b \in S!Characters, s \in Seq(S!Characters) : s \o <<a, b>> = Append(s, a) \o <<b>>
        OBVIOUS
      <4> QED
        BY <4>1, <4>2
    <3>2. whole = Append(front, ";") /\ front \in U
      BY <1>4, <1>6
    <3> HIDE DEF front, U
    <3> QED
      BY <3>1, <3>2 DEF Ending
  <2>4. sent \in U /\ sent # <<>> /\ S!IsSpace(sent[Len(sent)])
    <3> HIDE DEF gap
    <3> QED
      BY <1>2, <1>T, <1>L, LastJoined
  <2>5. W(sent) = W(whole)
    BY <1>2, <1>T, <1>L, WordsSpace
  <2> HIDE DEF sent, front
  <2> DEFINE all == Queries \o sent
  <2>6. all \in U /\ all[Len(all)] = sent[Len(sent)]
    BY <1>T, <2>4, LastJoined
  <2>7. W(all) = W(Queries) \o W(sent)
    BY <1>T, <2>4, WordsBehind
  <2> HIDE DEF all
  <2>8. all \o <<>> = all
    BY <2>6
  <2>9. Queries' = all
    BY <2>2, <2>3 DEF all
  <2>10. Said' = W(all)
    BY <2>1, <2>8, <2>9 DEF Said
  <2>11. Behind'
    BY <2>4, <2>6, <2>9 DEF Behind
  <2>12. query' \in U
    BY <2>1
  <2> HIDE DEF W
  <2>13. Said' = Said \o W(line)
    BY <1>2, <1>5, <2>5, <2>7, <2>10, Zenon
  <2> QED
    BY <2>2, <2>11, <2>12, <2>13 DEF W
<1>7. CASE S!Last(whole) # ";"
  <2>1. query' = said /\ executed' = executed
    BY <1>C, <1>7
  <2>2. Queries' = Queries
    BY <2>1 DEF Queries
  <2>3. Said' = W(Queries) \o W(said)
    <3>1. Said' = W(Queries \o said)
      BY <2>1, <2>2 DEF Said
    <3> QED
      BY <1>1, <1>T, <3>1, WordsBehind
  <2>4. Behind'
    BY <2>2 DEF Behind
  <2> HIDE DEF W
  <2>5. Said' = Said \o W(line)
    BY <1>5, <2>3, Zenon
  <2> QED
    BY <1>1, <1>T, <2>1, <2>4, <2>5 DEF W
<1> QED
  BY <1>6, <1>7

\* Where a line is cut, the buffer was full of its characters.
Full(n) == \A i \in n - (BufSize - 2) .. n :
             i \in 1..Len(typed) /\ typed[i] # "\n" /\ (i # n => i \notin cuts)
CutsFull == \A n \in cuts : Full(n)

LEMMA CutStep ==
  ASSUME ShellTypes, CutsFull, S!Line
  PROVE  /\ CutsFull' /\ cuts' \subseteq 0..read' /\ AtBeginning'
         /\ cuts \subseteq cuts' /\ cuts' \subseteq cuts \cup {read + S!LineEnd}
<1> DEFINE n == S!LineEnd
           new == {k \in {read + n} : k # Len(typed) /\ typed[k] # "\n"}
<1>1. /\ read < Len(typed) /\ read' = read + n /\ cuts' = cuts \cup new /\ typed' = typed
      /\ typed \in Seq(S!Characters) /\ read \in 0..Len(typed) /\ cuts \subseteq 0..read
      /\ Len(typed) \in Nat
  BY DEF S!Line, ShellTypes
<1>2. /\ n \in 1 .. Len(typed) - read
      /\ typed[read + n] = "\n" \/ read + n = Len(typed) \/ n = BufSize - 1
      /\ \A i \in 1 .. n - 1 : typed[read + i] # "\n"
  BY <1>1, LineEnds
<1> HIDE DEF n
<1>3. cuts' \subseteq 0..read' /\ cuts \subseteq cuts' /\ cuts' \subseteq cuts \cup {read + n}
  <2>1. new \subseteq {read + n}
    OBVIOUS
  <2> HIDE DEF new
  <2>2. cuts \subseteq cuts' /\ cuts' \subseteq cuts \cup {read + n}
    BY <1>1, <2>1
  <2>3. read + n \in 0..read + n /\ 0..read \subseteq 0..read + n
    BY <1>1, <1>2
  <2> QED
    BY <1>1, <2>2, <2>3
<1>4. AtBeginning'
  <2>1. typed[read + n] = "\n" \/ read + n = Len(typed) \/ read + n \in new
    OBVIOUS
  <2> QED
    BY <1>1, <2>1 DEF AtBeginning
<1>5. CutsFull'
  <2> SUFFICES ASSUME NEW k \in cuts', NEW i \in k - (BufSize - 2) .. k
               PROVE  i \in 1..Len(typed) /\ typed[i] # "\n" /\ (i # k => i \notin cuts')
    BY <1>1 DEF CutsFull, Full
  <2>1. CASE k \in cuts
    <3>1. i \in 1..Len(typed) /\ typed[i] # "\n" /\ (i # k => i \notin cuts)
      BY <2>1 DEF CutsFull, Full
    <3>2. i # read + n
      BY <1>1, <1>2, <2>1
    <3> QED
      BY <1>1, <3>1, <3>2
  <2>2. CASE k \in new
    <3>1. k = read + n /\ n = BufSize - 1 /\ typed[k] # "\n"
      BY <1>2, <2>2
    <3>2. i - read \in 1..n /\ read + (i - read) = i /\ i \in 1..Len(typed)
      BY <1>1, <1>2, <3>1, ShellAssumption
    <3>3. typed[i] # "\n"
      <4>1. CASE i = k
        BY <3>1, <4>1
      <4>2. CASE i # k
        <5>1. i - read \in 1 .. n - 1
          BY <1>1, <1>2, <3>1, <3>2, <4>2
        <5> QED
          BY <1>2, <3>2, <5>1
      <4> QED
        BY <4>1, <4>2
    <3>4. i # k => i \notin cuts'
      BY <1>1, <3>1, <3>2
    <3> QED
      BY <3>2, <3>3, <3>4
  <2> QED
    BY <1>1, <2>1, <2>2
<1> QED
  BY <1>3, <1>4, <1>5 DEF n

\* Each line, and the end of the input, keep what was typed.
Seen == S!Words(SubSeq(typed, 1, read), cuts)
Told == IF spc = "quit" THEN S!IsPrefix(Said, Seen) /\ query = <<>> ELSE Said = Seen
ShellInv == ShellTypes /\ AtBeginning /\ Behind /\ CutsFull /\ Told

LEMMA ShellProperty == ShellInv => S!TypedIsExecuted
BY DEF ShellInv, S!TypedIsExecuted, S!Given, Queries, Ending, Told, Said, Seen, CutsFull, Full

LEMMA ShellStep == ShellInv /\ [S!Next]_(S!vars) => ShellInv'
<1> SUFFICES ASSUME ShellInv, [S!Next]_(S!vars) PROVE ShellInv'
  OBVIOUS
<1>G. ShellTypes /\ AtBeginning /\ Behind /\ CutsFull /\ Told
  BY DEF ShellInv
<1>1. CASE S!Line
  <2> DEFINE line == S!read_line
             n == S!LineEnd
             said == S!Words(line, {})
  <2>1. /\ spc = "prompt" /\ read < Len(typed) /\ read' = read + n /\ typed' = typed
        /\ \/ S!Blank(line) /\ UNCHANGED <<query, executed, spc>>
           \/ query = <<>> /\ spc' = "quit" /\ UNCHANGED <<query, executed>>
           \/ ~S!Blank(line) /\ S!Collect(line) /\ spc' = spc
    BY <1>1 DEF S!Line
  <2>2. /\ typed \in Seq(S!Characters) /\ read \in 0..Len(typed) /\ Len(typed) \in Nat
        /\ query \in Seq(S!Characters) /\ executed \in Seq(Seq(S!Characters))
        /\ spc \in {"prompt", "quit", "eof"}
    BY <1>G DEF ShellTypes
  <2>3. n \in 1 .. Len(typed) - read
    BY <2>1, <2>2, LineEnds
  <2>C. /\ CutsFull' /\ cuts' \subseteq 0..read' /\ AtBeginning'
        /\ cuts \subseteq cuts' /\ cuts' \subseteq cuts \cup {read + n}
    BY <1>1, <1>G, CutStep
  <2>4. line \in Seq(S!Characters) /\ Seen' = Seen \o said
    <3>1. /\ line \in Seq(S!Characters)
          /\ S!Words(SubSeq(typed, 1, read + n), cuts') = Seen \o said
      BY <1>G, <2>1, <2>C, LineSays DEF Seen
    <3> QED
      BY <2>1, <3>1 DEF Seen
  <2>5. read' \in 0..Len(typed')
    BY <2>1, <2>2, <2>3
  <2>6. Seen \in Seq(Letters) /\ said \in Seq(Letters)
    <3>1. SubSeq(typed, 1, read) \in Seq(S!Characters)
      BY <2>2, Halves
    <3> QED
      BY <2>4, <3>1, WordsType DEF Seen
  <2>7. Said = Seen
    BY <1>G, <2>1 DEF Told
  <2>B. S!Blank(line) => said = <<>>
    BY <2>4, BlankSays
  <2> HIDE DEF line, n, said
  <2>8. CASE S!Blank(line) /\ UNCHANGED <<query, executed, spc>>
    <3>1. Said' = Said /\ ShellTypes' /\ Behind'
      BY <1>G, <2>1, <2>2, <2>5, <2>8, <2>C DEF ShellTypes, Queries, Said, Behind
    <3>2. Seen' = Seen
      BY <2>4, <2>6, <2>8, <2>B, ConcatEmptySeq
    <3> QED
      BY <2>1, <2>7, <2>8, <2>C, <3>1, <3>2 DEF ShellInv, Told
  <2>9. CASE query = <<>> /\ spc' = "quit" /\ UNCHANGED <<query, executed>>
    <3>1. Said' = Said /\ ShellTypes' /\ Behind'
      BY <1>G, <2>1, <2>2, <2>5, <2>9, <2>C DEF ShellTypes, Queries, Said, Behind
    <3>2. S!IsPrefix(Seen, Seen \o said)
      <4> DEFINE a == Seen
                 b == said
      <4>1. a \in Seq(Letters) /\ b \in Seq(Letters)
        BY <2>6
      <4> HIDE DEF a, b
      <4>2. /\ a \o b \in Seq(Letters) /\ Len(a \o b) = Len(a) + Len(b)
            /\ \A i \in 1..Len(a) : (a \o b)[i] = a[i]
            /\ Len(a) \in Nat /\ Len(b) \in Nat
        BY <4>1, ConcatProperties
      <4>3. SubSeq(a, 1, Len(a)) = SubSeq(a \o b, 1, Len(a))
        <5> DEFINE c == a \o b
        <5>1. c \in Seq(Letters) /\ Len(a) <= Len(c) /\ \A i \in 1..Len(a) : c[i] = a[i]
          BY <4>2
        <5> HIDE DEF c
        <5>2. SubSeq(a, 1, Len(a)) = SubSeq(c, 1, Len(a))
          BY <4>1, <4>2, <5>1
        <5> QED
          BY <5>2 DEF c
      <4>4. Len(a) <= Len(a \o b)
        BY <4>2
      <4> QED
        BY <4>3, <4>4 DEF S!IsPrefix, a, b
    <3> QED
      BY <2>4, <2>7, <2>9, <2>C, <3>1, <3>2 DEF ShellInv, Told
  <2>10. CASE ~S!Blank(line) /\ S!Collect(line) /\ spc' = spc
    <3>1. /\ query' \in Seq(S!Characters) /\ executed' \in Seq(Seq(S!Characters))
          /\ Behind' /\ Said' = Said \o said
      BY <1>G, <2>4, <2>10, CollectStep DEF said
    <3>2. ShellTypes'
      BY <2>1, <2>2, <2>5, <2>10, <2>C, <3>1 DEF ShellTypes
    <3> QED
      BY <2>1, <2>4, <2>7, <2>10, <2>C, <3>1, <3>2 DEF ShellInv, Told
  <2> QED
    BY <2>1, <2>8, <2>9, <2>10
<1>4. ASSUME UNCHANGED <<typed, read, query, executed, cuts>>,
             spc' \in {"prompt", "quit", "eof"}, (spc' = "quit") <=> (spc = "quit")
      PROVE  ShellInv'
  <2>1. ShellTypes' /\ AtBeginning' /\ Behind' /\ Said' = Said /\ Seen' = Seen
    BY <1>4, <1>G DEF ShellTypes, AtBeginning, Behind, Queries, Said, Seen
  <2>2. CutsFull'
    BY <1>4, <1>G DEF CutsFull, Full
  <2>3. Told'
    BY <1>4, <1>G, <2>1 DEF Told
  <2> QED
    BY <2>1, <2>2, <2>3 DEF ShellInv
<1>2. CASE S!EndOfInput
  <2>1. spc = "prompt" /\ spc' = "eof" /\ UNCHANGED <<typed, read, query, executed, cuts>>
    BY <1>2 DEF S!EndOfInput
  <2> QED
    BY <1>4, <2>1
<1>3. CASE UNCHANGED S!vars
  <2>1. UNCHANGED <<typed, read, query, executed, spc, cuts>>
    BY <1>3 DEF S!vars
  <2>2. spc' \in {"prompt", "quit", "eof"}
    BY <1>G, <2>1 DEF ShellTypes
  <2> QED
    BY <1>4, <2>1, <2>2
<1> QED
  BY <1>1, <1>2, <1>3 DEF S!Next

\* For any input and any size of read_line's buffer, what was typed is executed or still
\* collected, in order and once; words stay apart, and a word is broken only where a line
\* had filled the buffer (read_line, main).
THEOREM Typed == ProgramSpec => []TypedIsExecuted
<1>1. ProgramInit => ShellInv
  <2> SUFFICES ASSUME ProgramInit PROVE ShellInv
    OBVIOUS
  <2>1. /\ typed \in Seq(S!Characters) /\ read = 0 /\ query = <<>> /\ executed = <<>>
        /\ spc = "prompt" /\ cuts = {}
    <3>1. CASE program = "shell"
      <4>1. typed \in S!BoundedSeq(S!Characters, MaxTyped)
        BY <3>1 DEF ProgramInit, S!Init
      <4>2. typed \in Seq(S!Characters)
        BY <4>1, ShellAssumption DEF S!BoundedSeq, S!SeqOf
      <4> QED
        BY <3>1, <4>2 DEF ProgramInit, S!Init
    <3>2. CASE program # "shell"
      BY <3>2 DEF ProgramInit
    <3> QED
      BY <3>1, <3>2
  <2>2. ShellTypes /\ AtBeginning /\ CutsFull
    BY <2>1 DEF ShellTypes, AtBeginning, CutsFull
  <2>3. Queries = <<>> /\ SubSeq(typed, 1, read) = <<>> /\ Queries \o query = <<>>
    <3>1. Queries = <<>>
      BY <2>1, QueriesNone
    <3>2. SubSeq(typed, 1, 0) = <<>> /\ <<>> \o <<>> = <<>>
      BY <2>1
    <3> QED
      BY <2>1, <3>1, <3>2
  <2>4. Said = Seen /\ Behind
    BY <2>3, WordsEmpty DEF Said, Seen, Behind
  <2> QED
    BY <2>1, <2>2, <2>4 DEF ShellInv, Told
<1>2. ShellInv /\ [ProgramNext]_<<program, vars, runtimeVars, java, shell>> => ShellInv'
  <2>1. [ProgramNext]_<<program, vars, runtimeVars, java, shell>> => [S!Next]_(S!vars)
    BY DEF ProgramNext, shell, S!vars
  <2> QED
    BY <2>1, ShellStep
<1>3. ShellInv => TypedIsExecuted
  BY ShellProperty DEF TypedIsExecuted
<1> QED
  BY <1>1, <1>2, <1>3, PTL DEF ProgramSpec
=============================================================================
