----------------------------- MODULE NodeBinding -----------------------------
(***************************************************************************)
(* The Node.js binding (typescript/native/seekdb_node.c, src/index.ts): an *)
(* open runs on a thread of libuv's pool and is completed on the main      *)
(* thread, which settles the promise and hands the seekdb handle from the  *)
(* OpenTask to a NativeInstance behind a JavaScript external. close and    *)
(* the garbage collector's finalizer may both release it.                  *)
(*                                                                         *)
(* The main thread runs one callback at a time, so a callback is one step. *)
(* An open that throws before its work is queued is no step: its task is    *)
(* freed, and a promise made by then is settled by nobody but was given to  *)
(* nobody either.                                                          *)
(***************************************************************************)
EXTENDS Integers, FiniteSets, Sequences, SequencesExt

CONSTANTS
  Opens,  \* calls of open: bounds those whose task or object is alive at once
  Pool    \* threads of libuv's pool

ASSUME PoolAssumption == Pool \in Nat \ {0}

VARIABLES
  queue,        \* work that waits for a thread of the pool, in order
  work,         \* "none", "queued", "running", "executed" or "cancelled"
  task_handle,  \* is OpenTask.handle set?
  instance,     \* does the NativeInstance exist?
  inst_handle,  \* is NativeInstance.handle set?
  promise,      \* "none", "pending", "resolved" or "rejected"
  object,       \* the seekdb object: "none", "open", "closed" or "dropped"
  opened        \* is the handle open in libseekdb?

vars == <<queue, work, task_handle, instance, inst_handle, promise, object, opened>>

Init ==
  /\ queue = <<>>
  /\ work = [o \in Opens |-> "none"]
  /\ task_handle = [o \in Opens |-> FALSE]
  /\ instance = [o \in Opens |-> FALSE]
  /\ inst_handle = [o \in Opens |-> FALSE]
  /\ promise = [o \in Opens |-> "none"]
  /\ object = [o \in Opens |-> "none"]
  /\ opened = [o \in Opens |-> FALSE]

\* Nothing is left of the call's task, promise and object.
Over(o) == work[o] = "none" /\ promise[o] = "none" /\ object[o] = "none" /\ ~instance[o]

-----------------------------------------------------------------------------
(* The worker                                                              *)

native_open(o) ==
  /\ Over(o)
  /\ queue' = Append(queue, o)
  /\ work' = [work EXCEPT ![o] = "queued"]
  /\ promise' = [promise EXCEPT ![o] = "pending"]
  /\ UNCHANGED <<task_handle, instance, inst_handle, object, opened>>

\* Every open of the process waits on a thread of the same pool, first come first served.
Start ==
  /\ queue # <<>>
  /\ Cardinality({o \in Opens : work[o] = "running"}) < Pool
  /\ work' = [work EXCEPT ![Head(queue)] = "running"]
  /\ queue' = Tail(queue)
  /\ UNCHANGED <<task_handle, instance, inst_handle, promise, object, opened>>

\* Node.js may cancel work that no thread has taken yet.
Cancel ==
  \E i \in 1..Len(queue) :
    /\ work' = [work EXCEPT ![queue[i]] = "cancelled"]
    /\ queue' = RemoveAt(queue, i)
    /\ UNCHANGED <<task_handle, instance, inst_handle, promise, object, opened>>

\* seekdb_open returns, with a handle or with an error.
execute_open(o) ==
  /\ work[o] = "running"
  /\ work' = [work EXCEPT ![o] = "executed"]
  /\ \E success \in BOOLEAN :
       /\ task_handle' = [task_handle EXCEPT ![o] = success]
       /\ opened' = [opened EXCEPT ![o] = success]
  /\ UNCHANGED <<queue, instance, inst_handle, promise, object>>

-----------------------------------------------------------------------------
(* Completion on the main thread                                           *)

\* The external is made: its finalizer owns the handle from now on.
Resolve(o) ==
  /\ work[o] = "executed" /\ task_handle[o]
  /\ instance' = [instance EXCEPT ![o] = TRUE]
  /\ inst_handle' = [inst_handle EXCEPT ![o] = TRUE]
  /\ task_handle' = [task_handle EXCEPT ![o] = FALSE]
  /\ promise' = [promise EXCEPT ![o] = "resolved"]
  /\ work' = [work EXCEPT ![o] = "none"]
  /\ UNCHANGED <<queue, object, opened>>

PendingException_Kept(thrown) == thrown

\* A setter of the application may throw while the error is made; that exception is taken
\* over as the reason, since Node.js settles no promise while an exception is pending.
PendingException(thrown) == FALSE

Reject_Leaks(o) ==
  /\ work[o] \in {"executed", "cancelled"}
  /\ task_handle' = [task_handle EXCEPT ![o] = FALSE]
  /\ promise' = [promise EXCEPT ![o] = "rejected"]
  /\ work' = [work EXCEPT ![o] = "none"]
  /\ UNCHANGED <<queue, instance, inst_handle, object, opened>>

\* seekdb_open failed, the work was cancelled, or the instance or its external could not
\* be made: a handle that the task still owns is closed.
Reject(o) ==
  /\ work[o] \in {"executed", "cancelled"}
  /\ opened' = [opened EXCEPT ![o] = @ /\ ~task_handle[o]]
  /\ task_handle' = [task_handle EXCEPT ![o] = FALSE]
  /\ \E thrown \in BOOLEAN :
       promise' = [promise EXCEPT ![o] = IF PendingException(thrown) THEN @ ELSE "rejected"]
  /\ work' = [work EXCEPT ![o] = "none"]
  /\ UNCHANGED <<queue, instance, inst_handle, object>>

\* The continuation of seekdb.open: a new seekdb object, or a seekdbError.
Continue(o) ==
  /\ promise[o] \in {"resolved", "rejected"}
  /\ object' = [object EXCEPT ![o] = IF promise[o] = "resolved" THEN "open" ELSE "none"]
  /\ promise' = [promise EXCEPT ![o] = "none"]
  /\ UNCHANGED <<queue, work, task_handle, instance, inst_handle, opened>>

-----------------------------------------------------------------------------
(* The end of an object                                                    *)

\* close forgets the external, which seekdb_close has emptied before.
close(o) ==
  /\ object[o] = "open"
  /\ opened' = [opened EXCEPT ![o] = @ /\ ~inst_handle[o]]
  /\ inst_handle' = [inst_handle EXCEPT ![o] = FALSE]
  /\ object' = [object EXCEPT ![o] = "closed"]
  /\ UNCHANGED <<queue, work, task_handle, instance, promise>>

\* The application forgets the object, closed or not.
Drop(o) ==
  /\ object[o] \in {"open", "closed"}
  /\ object' = [object EXCEPT ![o] = IF instance[o] THEN "dropped" ELSE "none"]
  /\ UNCHANGED <<queue, work, task_handle, instance, inst_handle, promise, opened>>

\* The garbage collector finds the external unreachable.
finalize_instance(o) ==
  /\ instance[o] /\ object[o] \in {"closed", "dropped"}
  /\ opened' = [opened EXCEPT ![o] = @ /\ ~inst_handle[o]]
  /\ inst_handle' = [inst_handle EXCEPT ![o] = FALSE]
  /\ instance' = [instance EXCEPT ![o] = FALSE]
  /\ object' = [object EXCEPT ![o] = IF @ = "dropped" THEN "none" ELSE @]
  /\ UNCHANGED <<queue, work, task_handle, promise>>

Next ==
  \/ Start \/ Cancel
  \/ \E o \in Opens :
       \/ native_open(o) \/ execute_open(o)
       \/ Resolve(o) \/ Reject(o) \/ Continue(o)
       \/ close(o) \/ Drop(o) \/ finalize_instance(o)

Spec == Init /\ [][Next]_vars

\* Pool threads run and seekdb_open returns (OpenReturns of SeekdbLifecycle); the main
\* thread runs what completed. Nobody has to close anything.
Fairness ==
  /\ WF_vars(Start)
  /\ \A o \in Opens : WF_vars(execute_open(o)) /\ WF_vars(Resolve(o) \/ Reject(o))

FairSpec == Spec /\ Fairness

-----------------------------------------------------------------------------

TypeOK ==
  /\ queue \in Seq(Opens)
  /\ work \in [Opens -> {"none", "queued", "running", "executed", "cancelled"}]
  /\ task_handle \in [Opens -> BOOLEAN]
  /\ instance \in [Opens -> BOOLEAN]
  /\ inst_handle \in [Opens -> BOOLEAN]
  /\ promise \in [Opens -> {"none", "pending", "resolved", "rejected"}]
  /\ object \in [Opens -> {"none", "open", "closed", "dropped"}]
  /\ opened \in [Opens -> BOOLEAN]

\* An open handle has exactly one owner, a closed one none, and an object that the
\* application has not closed owns an open one: whoever releases it, the failed
\* completion, close or the finalizer, no handle is lost, none is closed twice and none
\* under its user (seekdb_node.c: complete_open, native_close, finalize_instance).
HandleHasOneOwner ==
  \A o \in Opens :
    /\ opened[o] <=> task_handle[o] \/ inst_handle[o]
    /\ ~(task_handle[o] /\ inst_handle[o])
    /\ inst_handle[o] => instance[o]
    /\ task_handle[o] => work[o] = "executed"
    /\ object[o] = "open" => inst_handle[o] /\ opened[o]

\* The promise of every open settles, also when the pool is busy with other opens, the
\* work is cancelled, memory is short or the application's own setter throws.
OpensSettle == \A o \in Opens : promise[o] = "pending" ~> promise[o] # "pending"
=============================================================================
