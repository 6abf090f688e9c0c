------------------------------ MODULE MCLibrary ------------------------------
(***************************************************************************)
(* Two parts of lib/src/seekdb.c that share no state, for TLC: connections *)
(* and results, and the arguments of a spawned server.  A system is one of *)
(* them, and the variables of the other stay at one initial state.  The    *)
(* arrays of arguments are the well-formed ones of at most two entries     *)
(* over the interesting keys, and a few that must be rejected or that      *)
(* repeat a key three times.                                               *)
(***************************************************************************)
EXTENDS MCDriverConnection, SpawnArguments

MCKeys == {"port", "mysql_port_mode", "memory_budget", "cpu_count"}
MCValues == {"4G"}

Pairs == {"port", "mysql_port_mode", "memory_budget", "cpu_count"} \X {"0", "8"}
MCCallers ==
  {<<>>} \cup {<<p[1], p[2]>> : p \in Pairs}
  \cup {<<p[1], p[2], q[1], q[2]>> : p \in Pairs, q \in Pairs}
  \cup {<<"cpu_count">>, <<"mysql_port", "8">>, <<"", "8">>,
        <<"cpu_count", "8", "memory_budget", "8", "cpu_count", "0">>}

VARIABLE part

LibraryInit == part \in {"connections", "arguments"} /\ Init /\ ArgumentsInit

LibraryNext ==
  \/ part = "connections" /\ Next /\ UNCHANGED <<part, argumentVars>>
  \/ part = "arguments" /\ ArgumentsNext /\ UNCHANGED <<part, vars>>

LibrarySpec == LibraryInit /\ [][LibraryNext]_<<part, vars, argumentVars>>
=============================================================================
