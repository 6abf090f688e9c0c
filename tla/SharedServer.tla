----------------------------- MODULE SharedServer -----------------------------
(***************************************************************************)
(* What seekdb_open and seekdb_close promise the users of one database     *)
(* directory (lib/include/seekdb/seekdb.h and lib/tests): a handle works    *)
(* on the one server that serves the directory, keeps to that server, and  *)
(* the server goes when the last handle is gone, not before.               *)
(***************************************************************************)
CONSTANTS Openers, Servers, NoServer,
          MayCrash   \* may a server die of something else?

VARIABLES
  serving,  \* the server that serves the directory
  opened,   \* the openers that have a handle
  uses      \* the server a handle works on; none once that one has crashed

vars == <<serving, opened, uses>>

Init ==
  /\ serving = NoServer
  /\ opened = {}
  /\ uses = [t \in Openers |-> NoServer]

Start(s) ==
  /\ serving = NoServer
  /\ serving' = s
  /\ UNCHANGED <<opened, uses>>

\* A handle is made for the server that serves now, or for one that just died.
Attach(t) ==
  /\ t \notin opened
  /\ opened' = opened \cup {t}
  /\ \E s \in {serving, NoServer} :
       /\ s = NoServer => MayCrash
       /\ uses' = [uses EXCEPT ![t] = s]
  /\ UNCHANGED serving

\* One handle is closed, or all those of a process that ends.
Leave(T) ==
  /\ T # {}
  /\ opened' = opened \ T
  /\ uses' = [t \in Openers |-> IF t \in T THEN NoServer ELSE uses[t]]
  /\ UNCHANGED serving

Stop ==
  /\ serving # NoServer /\ serving' = NoServer
  /\ opened = {}
  /\ UNCHANGED <<opened, uses>>

\* A server that dies leaves its handles alone: no later one takes them over.
Crash ==
  /\ MayCrash
  /\ serving # NoServer /\ serving' = NoServer
  /\ uses' = [t \in Openers |-> NoServer]
  /\ UNCHANGED opened

Next ==
  \/ \E s \in Servers : Start(s)
  \/ \E t \in Openers : Attach(t)
  \/ \E T \in SUBSET opened : Leave(T)
  \/ Stop \/ Crash

Spec == Init /\ [][Next]_vars
=============================================================================
