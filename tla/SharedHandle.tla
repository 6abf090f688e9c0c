----------------------------- MODULE SharedHandle -----------------------------
(***************************************************************************)
(* What the Python module promises the users of a directory (instances and *)
(* registry of python/src/bindings.cpp): whoever opens a directory shares  *)
(* the handle that is open on it, or opens one where there is none; the    *)
(* handle is closed with its last user, and never under another one.  A    *)
(* user is a call in progress, an instance or a connection.                *)
(***************************************************************************)
CONSTANTS Users, Dirs, States, Null

VARIABLES
  uses,   \* the open handle of each user
  dirOf   \* the directory of each handle that has a user

vars == <<uses, dirOf>>

Init ==
  /\ uses = [u \in Users |-> Null]
  /\ dirOf = [s \in States |-> Null]

Open(u, d, s) ==
  /\ uses[u] = Null
  /\ dirOf[s] = Null
  /\ \A x \in States : dirOf[x] # d
  /\ uses' = [uses EXCEPT ![u] = s]
  /\ dirOf' = [dirOf EXCEPT ![s] = d]

Share(u, s) ==
  /\ uses[u] = Null
  /\ dirOf[s] # Null
  /\ uses' = [uses EXCEPT ![u] = s]
  /\ UNCHANGED dirOf

\* A call hands its use on to the object it makes.
HandOn(u, v) ==
  /\ uses[u] # Null
  /\ uses[v] = Null
  /\ uses' = [uses EXCEPT ![u] = Null, ![v] = uses[u]]
  /\ UNCHANGED dirOf

Leave(u) ==
  /\ uses[u] # Null
  /\ uses' = [uses EXCEPT ![u] = Null]
  /\ dirOf' = IF \E v \in Users \ {u} : uses[v] = uses[u] THEN dirOf
              ELSE [dirOf EXCEPT ![uses[u]] = Null]

Next ==
  \E u \in Users :
    \/ \E d \in Dirs, s \in States : Open(u, d, s)
    \/ \E s \in States : Share(u, s)
    \/ \E v \in Users \ {u} : HandOn(u, v)
    \/ Leave(u)

Spec == Init /\ [][Next]_vars
=============================================================================
