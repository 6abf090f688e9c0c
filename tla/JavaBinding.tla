----------------------------- MODULE JavaBinding -----------------------------
(***************************************************************************)
(* The Java binding (java/jni/seekdb_jni.c, SeekDB.java): any thread opens *)
(* an instance, asks for its connection options and closes it.  The native *)
(* functions copy every Java string to the C heap and back, and each copy  *)
(* may throw; the options are borrowed from the seekdb handle, so close    *)
(* and connectionOptions exclude each other by the object's monitor.       *)
(***************************************************************************)
EXTENDS Integers

CONSTANTS
  Threads,
  Objects,    \* SeekDB objects
  MaxParams,  \* bound: strings of the parameter array
  Null

\* What a call of nativeOpen allocates, beside the strings 1, 2, ... of the array.
dbPath == -1
valuesArray == 0

Fields == 5   \* transport, host, unix_socket, named_pipe, user

VARIABLES
  pc,
  object,   \* the object a thread's call is about, or Null
  count,    \* nativeOpen: length of the parameter array
  done,     \* strings of the array, or fields of the options, converted so far
  heap,     \* what a thread's call has allocated
  field,    \* SeekDB.handle is not zero
  opened,   \* the handle is open in libseekdb
  monitor   \* the thread that holds the object's monitor, or Null

vars == <<pc, object, count, done, heap, field, opened, monitor>>

Init ==
  /\ pc = [t \in Threads |-> "idle"]
  /\ object = [t \in Threads |-> Null]
  /\ count = [t \in Threads |-> 0]
  /\ done = [t \in Threads |-> 0]
  /\ heap = [t \in Threads |-> {}]
  /\ field = [o \in Objects |-> FALSE]
  /\ opened = [o \in Objects |-> FALSE]
  /\ monitor = [o \in Objects |-> Null]

Goto(t, at) == pc' = [pc EXCEPT ![t] = at]
Allocate(t, what) == heap' = [heap EXCEPT ![t] = @ \cup {what}]

-----------------------------------------------------------------------------
(* SeekDB.open and nativeOpen                                              *)

open(t, o) ==
  /\ pc[t] = "idle"
  /\ ~field[o] /\ monitor[o] = Null /\ \A u \in Threads : object[u] # o   \* a new object
  /\ Goto(t, "db")
  /\ object' = [object EXCEPT ![t] = o]
  /\ \E n \in 0..MaxParams : count' = [count EXCEPT ![t] = n]
  /\ done' = [done EXCEPT ![t] = 0]
  /\ UNCHANGED <<heap, field, opened, monitor>>

\* The call throws: what it has allocated is freed before.
Throw(t, freed) ==
  /\ heap' = [heap EXCEPT ![t] = @ \ freed]
  /\ object' = [object EXCEPT ![t] = Null]
  /\ Goto(t, "idle")

\* java_string: a null, an exception of the JVM, no memory or an embedded NUL is no string.
ConvertPath(t) ==
  /\ pc[t] = "db"
  /\ \/ Allocate(t, dbPath) /\ Goto(t, "values") /\ UNCHANGED object
     \/ Throw(t, {})
  /\ UNCHANGED <<count, done, field, opened, monitor>>

AllocateValues(t) ==
  /\ pc[t] = "values"
  /\ \/ Allocate(t, valuesArray) /\ Goto(t, "items") /\ UNCHANGED object
     \/ Throw(t, {dbPath})
  /\ UNCHANGED <<count, done, field, opened, monitor>>

ConvertItem_KeepsStrings(t) ==
  /\ pc[t] = "items" /\ done[t] < count[t]
  /\ \/ /\ Allocate(t, done[t] + 1)
        /\ done' = [done EXCEPT ![t] = @ + 1]
        /\ UNCHANGED <<pc, object>>
     \/ Throw(t, {dbPath, valuesArray}) /\ UNCHANGED done
  /\ UNCHANGED <<count, field, opened, monitor>>

\* A string that cannot be converted frees those before it.
ConvertItem(t) ==
  /\ pc[t] = "items" /\ done[t] < count[t]
  /\ \/ /\ Allocate(t, done[t] + 1)
        /\ done' = [done EXCEPT ![t] = @ + 1]
        /\ UNCHANGED <<pc, object>>
     \/ Throw(t, {dbPath, valuesArray} \cup 1..done[t]) /\ UNCHANGED done
  /\ UNCHANGED <<count, field, opened, monitor>>

seekdb_open(t) ==
  /\ pc[t] = "items" /\ done[t] = count[t]
  /\ \E success \in BOOLEAN : opened' = [opened EXCEPT ![object[t]] = success]
  /\ Goto(t, "opened")
  /\ UNCHANGED <<object, count, done, heap, field, monitor>>

\* The strings are freed; the new object gets the handle, or the call throws.
FinishOpen(t) ==
  /\ pc[t] = "opened"
  /\ field' = [field EXCEPT ![object[t]] = opened[object[t]]]
  /\ Throw(t, {dbPath, valuesArray} \cup 1..count[t])
  /\ UNCHANGED <<count, done, opened, monitor>>

-----------------------------------------------------------------------------
(* The synchronized methods; every thread may know every object.           *)

Enter(t, o, at) ==
  /\ pc[t] = "idle" /\ monitor[o] = Null
  /\ monitor' = [monitor EXCEPT ![o] = t]
  /\ object' = [object EXCEPT ![t] = o]
  /\ Goto(t, at)

Leave(t) ==
  /\ monitor' = [monitor EXCEPT ![object[t]] = Null]
  /\ object' = [object EXCEPT ![t] = Null]
  /\ Goto(t, "idle")

\* A closed object throws; an open one lends its strings.
connectionOptions(t, o) ==
  /\ field[o]
  /\ Enter(t, o, "fields")
  /\ done' = [done EXCEPT ![t] = 0]
  /\ UNCHANGED <<count, heap, field, opened>>

\* new_java_string for each field of the options, until one throws.
ConvertField(t) ==
  /\ pc[t] = "fields"
  /\ \/ /\ done[t] + 1 < Fields
        /\ done' = [done EXCEPT ![t] = @ + 1]
        /\ UNCHANGED <<pc, object, monitor>>
     \/ Leave(t) /\ UNCHANGED done
  /\ UNCHANGED <<count, heap, field, opened>>

close_Unsynchronized(t, o) ==
  /\ field[o] /\ pc[t] = "idle"
  /\ Goto(t, "close") /\ object' = [object EXCEPT ![t] = o]
  /\ UNCHANGED <<count, done, heap, field, opened, monitor>>

close(t, o) ==
  /\ field[o]
  /\ Enter(t, o, "close")
  /\ UNCHANGED <<count, done, heap, field, opened>>

nativeClose(t) ==
  /\ pc[t] = "close"
  /\ opened' = [opened EXCEPT ![object[t]] = FALSE]
  /\ Goto(t, "closed")
  /\ UNCHANGED <<object, count, done, heap, field, monitor>>

FinishClose(t) ==
  /\ pc[t] = "closed"
  /\ field' = [field EXCEPT ![object[t]] = FALSE]
  /\ Leave(t)
  /\ UNCHANGED <<count, done, heap, opened>>

Next ==
  \E t \in Threads :
    \/ ConvertPath(t) \/ AllocateValues(t) \/ ConvertItem(t)
    \/ seekdb_open(t) \/ FinishOpen(t)
    \/ ConvertField(t) \/ nativeClose(t) \/ FinishClose(t)
    \/ \E o \in Objects : open(t, o) \/ connectionOptions(t, o) \/ close(t, o)

Spec == Init /\ [][Next]_vars

-----------------------------------------------------------------------------
\* While a thread converts strings that it borrowed, or enters nativeClose, the handle is
\* open, so no string is read after its end and no handle is closed twice; an open handle
\* belongs to an object or to the open that made it; and a call that is over, by whichever
\* exception, has left nothing on the C heap.
NativeCallsSafe ==
  /\ \A t \in Threads :
       /\ pc[t] \in {"fields", "close"} => opened[object[t]]
       /\ pc[t] = "idle" => heap[t] = {}
  /\ \A o \in Objects :
       /\ field[o] => opened[o] \/ \E t \in Threads : object[t] = o /\ pc[t] = "closed"
       /\ opened[o] => field[o] \/ \E t \in Threads : object[t] = o /\ pc[t] = "opened"
=============================================================================
