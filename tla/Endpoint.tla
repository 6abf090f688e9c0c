-------------------------------- MODULE Endpoint --------------------------------
(***************************************************************************)
(* How a handle gets its endpoint (lib/src/seekdb.c): on POSIX a short     *)
(* alias of the socket directory, on Windows a named pipe that is read from *)
(* a file and, behind it, a TCP port whose server is identified by UUID.   *)
(*                                                                         *)
(* Handles of several database directories meet in what directories share: *)
(* TCP ports and names under /tmp.  This details probe_server, one step of *)
(* SeekdbLifecycle, and what surrounds it; here a spawn is only a server   *)
(* that comes up.  The server executable is external: it writes the name of *)
(* its pipe, a name no other directory uses, to run/sql.pipe, reports its   *)
(* port and UUID there, and stops when no handle pins it.                  *)
(***************************************************************************)
EXTENDS Integers

CONSTANTS
  Handles,      \* each is opened and closed by one thread
  Dirs, DirOf,  \* DirOf[h]: the directory h opens; a directory stands for its UUID too
  Ports, Pipes, \* names a server may choose
  Aliases,      \* names mkdtemp may make under /tmp
  None,         \* no port (0), pipe, alias, UUID ("")
  ReadyTimeout, PhaseBudget \* READY_TIMEOUT_MS, PROBE_PHASE_BUDGET_MS in ticks

ASSUME EndpointAssumption ==
  /\ DirOf \in [Handles -> Dirs]
  /\ None \notin Dirs \cup Ports \cup Pipes \cup Aliases
  /\ "empty" \notin Dirs \cup {None}
  /\ ReadyTimeout \in Nat /\ PhaseBudget \in Nat \ {0}

VARIABLES
  windows,    \* which flavour was built
  \* the server of each directory
  server,     \* "down", "listening" or "serving"
  pipe, port, \* what it listens on
  pipeFile,   \* run/sql.pipe, which outlives it
  tmp,        \* each name under /tmp: None, "empty", or the directory its run links to
  \* each handle, and the seekdb_open that makes it
  pc, left,   \* left: ticks before the deadline
  io,         \* ticks the current phase of I/O has taken
  attempt,    \* "fast", "locked", or "wait" (in wait_for_ready)
  probe,      \* result of the last probe_server
  candidate,  \* candidate_port
  pipeName,   \* h->pipe_name
  tcp, uuid,  \* h->port (and host), h->server_uuid
  alias,      \* h->socket_alias_dir
  \* history, read by properties only
  gone,       \* has a server of the directory ended since the handle was verified?
  absent,     \* was no server of it reachable at some moment of the current probe?
  unheard,    \* did the connector give up, in that probe, on a server that listened?
  orphans     \* aliases of killed applications, or that could not be removed

opening == <<pc, left, io, attempt, probe, candidate>>
fields  == <<pipeName, tcp, uuid, alias>>
servers == <<server, pipe, port, pipeFile>>
history == <<gone, absent, unheard, orphans>>
vars == <<windows, servers, tmp, opening, fields, history>>

Init ==
  /\ windows \in BOOLEAN
  /\ server = [d \in Dirs |-> "down"]
  /\ pipe = [d \in Dirs |-> None] /\ port = [d \in Dirs |-> None]
  /\ pipeFile \in [Dirs -> IF windows THEN Pipes \cup {None} ELSE {None}]
  /\ tmp = [a \in Aliases |-> None]
  /\ pc = [h \in Handles |-> "idle"] /\ left = [h \in Handles |-> 0]
  /\ io = [h \in Handles |-> 0] /\ attempt = [h \in Handles |-> "fast"]
  /\ probe = [h \in Handles |-> "NOT_FOUND"]
  /\ candidate = [h \in Handles |-> None]
  /\ pipeName = [h \in Handles |-> None]
  /\ tcp = [h \in Handles |-> None] /\ uuid = [h \in Handles |-> None]
  /\ alias = [h \in Handles |-> None]
  /\ gone = [h \in Handles |-> FALSE] /\ absent = [h \in Handles |-> FALSE]
  /\ unheard = [h \in Handles |-> FALSE] /\ orphans = {}

RequiredBudget == IF windows THEN 2 * PhaseBudget ELSE PhaseBudget
deadline_reached(h) == left[h] = 0
deadline_has_budget(h, budget) == left[h] >= budget

Reachable(d) == server[d] # "down"

\* seekdb.clients is held shared.
Pins(h) == pc[h] \in {"check", "connect", "verify", "decide", "open", "cleanup"}

-----------------------------------------------------------------------------
(* A definition A_B that precedes A is A with the defect B: no specification *)
(* uses it; it shows which property would notice that defect.                *)

(* prepare_unix_socket_alias and seekdb.clients                            *)

Open(h) ==
  /\ pc[h] = "idle"
  /\ pc' = [pc EXCEPT ![h] = IF windows THEN "clients" ELSE "mkdtemp"]
  /\ left' = [left EXCEPT ![h] = ReadyTimeout]
  /\ UNCHANGED <<windows, servers, tmp, io, attempt, probe, candidate, fields, history>>

\* realpath or mkdtemp may fail: nothing to undo.
MakeAlias(h) ==
  /\ pc[h] = "mkdtemp"
  /\ \/ \E a \in Aliases :
          /\ tmp[a] = None
          /\ tmp' = [tmp EXCEPT ![a] = "empty"]
          /\ alias' = [alias EXCEPT ![h] = a]
          /\ pc' = [pc EXCEPT ![h] = "symlink"]
     \/ pc' = [pc EXCEPT ![h] = "destroy"] /\ UNCHANGED <<tmp, alias>>
  /\ UNCHANGED <<windows, servers, left, io, attempt, probe, candidate, pipeName, tcp, uuid,
                 history>>

LinkAlias_Leaves(h) ==
  /\ pc[h] = "symlink"
  /\ \/ /\ tmp' = [tmp EXCEPT ![alias[h]] = DirOf[h]]
        /\ pc' = [pc EXCEPT ![h] = "clients"]
        /\ UNCHANGED alias
     \/ /\ alias' = [alias EXCEPT ![h] = None]
        /\ pc' = [pc EXCEPT ![h] = "destroy"]
        /\ UNCHANGED tmp
  /\ UNCHANGED <<windows, servers, left, io, attempt, probe, candidate, pipeName, tcp, uuid,
                 history>>

\* rmdir, with an unlink before it where the name has a link: either may fail, which is
\* ignored; what remains of the name stays.
Remove(name) ==
  \/ tmp' = [tmp EXCEPT ![name] = None] /\ UNCHANGED orphans
  \/ tmp' = [tmp EXCEPT ![name] = "empty"] /\ orphans' = orphans \cup {name}
  \/ UNCHANGED tmp /\ orphans' = orphans \cup {name}

\* Three strings and the symbolic link; without one of them the directory goes.
LinkAlias(h) ==
  /\ pc[h] = "symlink"
  /\ \/ /\ tmp' = [tmp EXCEPT ![alias[h]] = DirOf[h]]
        /\ pc' = [pc EXCEPT ![h] = "clients"]
        /\ UNCHANGED <<alias, orphans>>
     \/ /\ Remove(alias[h])
        /\ alias' = [alias EXCEPT ![h] = None]
        /\ pc' = [pc EXCEPT ![h] = "destroy"]
  /\ UNCHANGED <<windows, servers, left, io, attempt, probe, candidate, pipeName, tcp, uuid,
                 gone, absent, unheard>>

\* flock_open and acquire_lock_until_deadline, which may fail or be late.
LockClients(h) ==
  /\ pc[h] = "clients"
  /\ \/ ~deadline_reached(h) /\ pc' = [pc EXCEPT ![h] = "check"]
     \/ pc' = [pc EXCEPT ![h] = "destroy"]
  /\ UNCHANGED <<windows, servers, tmp, left, io, attempt, probe, candidate, fields, history>>

-----------------------------------------------------------------------------
(* probe_server                                                            *)

\* Late, or without memory for a MYSQL, it reaches nobody.
NoProbe(h) ==
  /\ pc' = [pc EXCEPT ![h] = "decide"]
  /\ probe' = [probe EXCEPT ![h] = "UNVERIFIED"]
  /\ UNCHANGED <<io, pipeName, absent>>

\* read_pipe_name; an empty or missing file is a server that is not there yet.
ReadPipe(h) ==
  LET name == IF windows THEN pipeFile[DirOf[h]] ELSE None IN
  /\ absent' = [absent EXCEPT ![h] = ~Reachable(DirOf[h])]
  /\ IF windows /\ name = None
     THEN /\ pc' = [pc EXCEPT ![h] = "decide"]
          /\ probe' = [probe EXCEPT ![h] = "NOT_FOUND"]
          /\ UNCHANGED <<io, pipeName>>
     ELSE /\ pc' = [pc EXCEPT ![h] = "connect"]
          /\ io' = [io EXCEPT ![h] = 0]
          /\ pipeName' = [pipeName EXCEPT ![h] = name]
          /\ UNCHANGED probe

\* clear_discovered_server, then the budget of a phase.
BeginProbe(h) ==
  /\ pc[h] = "check"
  /\ attempt[h] = "wait" => deadline_has_budget(h, RequiredBudget)
  /\ tcp' = [tcp EXCEPT ![h] = None] /\ uuid' = [uuid EXCEPT ![h] = None]
  /\ \/ NoProbe(h)
     \/ deadline_has_budget(h, PhaseBudget) /\ ReadPipe(h)
  /\ UNCHANGED <<windows, servers, tmp, left, attempt, candidate, alias, gone, unheard, orphans>>

\* What the probe reports, and what its local variables held is gone.
Report(h, result) ==
  /\ pc' = [pc EXCEPT ![h] = "decide"]
  /\ io' = [io EXCEPT ![h] = 0]
  /\ probe' = [probe EXCEPT ![h] = result]
  /\ candidate' = [candidate EXCEPT ![h] = None]
  /\ gone' = [gone EXCEPT ![h] = gone[h] /\ result # "VERIFIED"]

\* Somebody listens where h connects: at the pipe it read, or behind its alias.
Answers(h) ==
  IF windows THEN Reachable(DirOf[h]) /\ pipe[DirOf[h]] = pipeName[h]
  ELSE tmp[alias[h]] \in Dirs /\ Reachable(tmp[alias[h]])

ConnectFails(h) ==
  /\ pc[h] = "connect"
  /\ ~Answers(h)
  /\ Report(h, "NOT_FOUND")
  /\ UNCHANGED <<windows, servers, tmp, left, attempt, fields, absent, unheard, orphans>>

\* The connector gives up on a server that listens (one second, or an error of its own):
\* the probe cannot tell it from one that is not there.
ConnectTimesOut(h) ==
  /\ pc[h] = "connect"
  /\ Answers(h)
  /\ Report(h, "NOT_FOUND")
  /\ unheard' = [unheard EXCEPT ![h] = TRUE]
  /\ UNCHANGED <<windows, servers, tmp, left, attempt, fields, absent, orphans>>

\* Connected, but the server does not serve yet, the query or its memory fails, or
\* the row is not a port and a UUID.
NotReady(h) ==
  /\ pc[h] = "connect"
  /\ Answers(h)
  /\ Report(h, "UNVERIFIED")
  /\ UNCHANGED <<windows, servers, tmp, left, attempt, fields, absent, unheard, orphans>>

\* The server h is connected to.
Peer(h) == IF windows THEN DirOf[h] ELSE tmp[alias[h]]
Serving(h) == Answers(h) /\ server[Peer(h)] = "serving"

\* The row of a POSIX server, unless it comes late.
SocketReady(h) ==
  /\ pc[h] = "connect"
  /\ ~windows /\ Serving(h)
  /\ Report(h, IF deadline_reached(h) THEN "UNVERIFIED" ELSE "VERIFIED")
  /\ UNCHANGED <<windows, servers, tmp, left, attempt, fields, absent, unheard, orphans>>

\* A Windows server without a port is ready at its pipe.
PipeReady(h) ==
  /\ pc[h] = "connect"
  /\ windows /\ Serving(h) /\ port[DirOf[h]] = None
  /\ IF deadline_reached(h) THEN Report(h, "UNVERIFIED") /\ UNCHANGED uuid
     ELSE Report(h, "VERIFIED") /\ uuid' = [uuid EXCEPT ![h] = DirOf[h]]
  /\ UNCHANGED <<windows, servers, tmp, left, attempt, pipeName, tcp, alias, absent, unheard, orphans>>

Discover_Unbudgeted(h) ==
  LET found == port[DirOf[h]] IN
  /\ pc[h] = "connect"
  /\ windows /\ Serving(h) /\ found # None
  /\ pc' = [pc EXCEPT ![h] = "verify"]
  /\ candidate' = [candidate EXCEPT ![h] = found]
  /\ io' = [io EXCEPT ![h] = 0]
  /\ UNCHANGED <<windows, servers, tmp, left, attempt, probe, fields, history>>

\* A port was discovered: its server is asked who it is, if there is time to.
Discover(h) ==
  LET found == port[DirOf[h]] IN
  /\ pc[h] = "connect"
  /\ windows /\ Serving(h) /\ found # None
  /\ IF deadline_has_budget(h, PhaseBudget)
     THEN /\ pc' = [pc EXCEPT ![h] = "verify"]
          /\ candidate' = [candidate EXCEPT ![h] = found]
          /\ io' = [io EXCEPT ![h] = 0]
          /\ UNCHANGED <<probe, gone>>
     ELSE Report(h, "UNVERIFIED")
  /\ UNCHANGED <<windows, servers, tmp, left, attempt, fields, absent, unheard, orphans>>

\* The directories whose server listens on port n of 127.0.0.1.
At(n) == {d \in Dirs : port[d] = n}

verify_tcp_server_AnyUuid(h) == At(candidate[h]) # {}

\* The server at the port has the UUID that was discovered locally.
verify_tcp_server(h) == DirOf[h] \in At(candidate[h])

Verify_NotFound(h) ==
  /\ pc[h] = "verify"
  /\ \E answered \in {TRUE, FALSE} :
       IF answered /\ verify_tcp_server(h) /\ ~deadline_reached(h)
       THEN /\ Report(h, "VERIFIED")
            /\ tcp' = [tcp EXCEPT ![h] = candidate[h]]
            /\ uuid' = [uuid EXCEPT ![h] = DirOf[h]]
       ELSE Report(h, "NOT_FOUND") /\ UNCHANGED <<tcp, uuid>>
  /\ UNCHANGED <<windows, servers, tmp, left, attempt, pipeName, alias, absent, unheard, orphans>>

\* The connection or the query may fail all the same.
Verify(h) ==
  /\ pc[h] = "verify"
  /\ \E answered \in {TRUE, FALSE} :
       IF answered /\ verify_tcp_server(h) /\ ~deadline_reached(h)
       THEN /\ Report(h, "VERIFIED")
            /\ tcp' = [tcp EXCEPT ![h] = candidate[h]]
            /\ uuid' = [uuid EXCEPT ![h] = DirOf[h]]
       ELSE Report(h, "UNVERIFIED") /\ UNCHANGED <<tcp, uuid>>
  /\ UNCHANGED <<windows, servers, tmp, left, attempt, pipeName, alias, absent, unheard, orphans>>

-----------------------------------------------------------------------------
(* What seekdb_open makes of it, wait_for_ready included.                  *)

Goto(h, to) == pc' = [pc EXCEPT ![h] = to]

Finished(h) == probe[h] = "VERIFIED" /\ ~deadline_reached(h)

\* A handle; or the startup lock and a second probe; or a spawn, or only waiting, and
\* probes until the deadline.  Locks, the spawn and the child may fail.
Decide(h) ==
  /\ pc[h] = "decide"
  /\ probe' = [probe EXCEPT ![h] = "NOT_FOUND"]
  /\ absent' = [absent EXCEPT ![h] = FALSE] /\ unheard' = [unheard EXCEPT ![h] = FALSE]
  /\ \/ Finished(h) /\ Goto(h, "open") /\ UNCHANGED attempt
     \/ /\ ~Finished(h)
        /\ attempt[h] = "fast" \/ ~deadline_reached(h)
        /\ Goto(h, "check")
        /\ attempt' = [attempt EXCEPT ![h] = IF @ = "fast" THEN "locked" ELSE "wait"]
     \/ ~Finished(h) /\ Goto(h, "cleanup") /\ UNCHANGED attempt
  /\ UNCHANGED <<windows, servers, tmp, left, io, candidate, fields, gone, orphans>>

\* wait_for_ready begins no probe that its deadline could cut.
GiveUp(h) ==
  /\ pc[h] = "check" /\ attempt[h] = "wait"
  /\ ~deadline_has_budget(h, RequiredBudget)
  /\ Goto(h, "cleanup")
  /\ UNCHANGED <<windows, servers, tmp, left, io, attempt, probe, candidate, fields, history>>

\* seekdb_close, or the cleanup label: destroy_handle first closes seekdb.clients.
Unpin(h) ==
  /\ pc[h] \in {"open", "cleanup"}
  /\ Goto(h, "destroy")
  /\ UNCHANGED <<windows, servers, tmp, left, io, attempt, probe, candidate, fields, history>>

Forget(h) ==
  /\ Goto(h, "idle")
  /\ left' = [left EXCEPT ![h] = 0] /\ io' = [io EXCEPT ![h] = 0]
  /\ attempt' = [attempt EXCEPT ![h] = "fast"]
  /\ probe' = [probe EXCEPT ![h] = "NOT_FOUND"]
  /\ candidate' = [candidate EXCEPT ![h] = None]
  /\ pipeName' = [pipeName EXCEPT ![h] = None]
  /\ tcp' = [tcp EXCEPT ![h] = None] /\ uuid' = [uuid EXCEPT ![h] = None]
  /\ alias' = [alias EXCEPT ![h] = None]
  /\ gone' = [gone EXCEPT ![h] = FALSE] /\ absent' = [absent EXCEPT ![h] = FALSE]
  /\ unheard' = [unheard EXCEPT ![h] = FALSE]

Destroy_KeepsAlias(h) ==
  /\ pc[h] = "destroy"
  /\ Forget(h)
  /\ UNCHANGED <<windows, servers, tmp, orphans>>

\* cleanup_unix_socket_alias, and the memory.
Destroy(h) ==
  /\ pc[h] = "destroy"
  /\ IF alias[h] = None THEN UNCHANGED <<tmp, orphans>> ELSE Remove(alias[h])
  /\ Forget(h)
  /\ UNCHANGED <<windows, servers>>

\* The application is killed: its alias stays behind.
Kill(h) ==
  /\ pc[h] # "idle"
  /\ Forget(h)
  /\ orphans' = orphans \cup ({alias[h]} \ {None})
  /\ UNCHANGED <<windows, servers, tmp>>

\* Every phase of I/O is bounded by the timeouts of its operations.
Tick(h) ==
  /\ left[h] > 0 /\ pc[h] # "open"
  /\ pc[h] \in {"connect", "verify"} => io[h] < PhaseBudget
  /\ left' = [left EXCEPT ![h] = @ - 1]
  /\ io' = [io EXCEPT ![h] = IF pc[h] \in {"connect", "verify"} THEN @ + 1 ELSE @]
  /\ UNCHANGED <<windows, servers, tmp, pc, attempt, probe, candidate, fields, history>>

-----------------------------------------------------------------------------
(* The servers                                                             *)

\* A spawned server listens on its socket; or on a pipe it names, and on a free port or none.
Listen(d) ==
  /\ server[d] = "down"
  /\ server' = [server EXCEPT ![d] = "listening"]
  /\ IF windows
     THEN /\ \E n \in Ports \cup {None} :
               /\ n = None \/ At(n) = {}
               /\ port' = [port EXCEPT ![d] = n]
          /\ \E name \in Pipes :
               /\ pipe' = [pipe EXCEPT ![d] = name]
               /\ pipeFile' = [pipeFile EXCEPT ![d] = name]
     ELSE UNCHANGED <<pipe, port, pipeFile>>
  /\ UNCHANGED <<windows, tmp, opening, fields, history>>

Serve(d) ==
  /\ server[d] = "listening"
  /\ server' = [server EXCEPT ![d] = "serving"]
  /\ UNCHANGED <<windows, pipe, port, pipeFile, tmp, opening, fields, history>>

Ends(d) ==
  LET mine == {h \in Handles : DirOf[h] = d} IN
  /\ server' = [server EXCEPT ![d] = "down"]
  /\ pipe' = [pipe EXCEPT ![d] = None]
  /\ port' = [port EXCEPT ![d] = None]
  /\ gone' = [h \in Handles |-> gone[h] \/ h \in mine]
  /\ absent' = [h \in Handles |-> absent[h] \/ (h \in mine /\ pc[h] \in {"connect", "verify"})]
  /\ UNCHANGED <<windows, pipeFile, tmp, opening, fields, unheard, orphans>>

\* Last-client-gone detection on seekdb.clients.
Stop(d) ==
  /\ server[d] = "serving"
  /\ \A h \in Handles : DirOf[h] = d => ~Pins(h)
  /\ Ends(d)

Crash(d) == server[d] # "down" /\ Ends(d)

-----------------------------------------------------------------------------
OpenStep(h) ==
  \/ Open(h) \/ MakeAlias(h) \/ LinkAlias(h) \/ LockClients(h)
  \/ BeginProbe(h) \/ ConnectFails(h) \/ ConnectTimesOut(h) \/ NotReady(h)
  \/ SocketReady(h) \/ PipeReady(h) \/ Discover(h) \/ Verify(h)
  \/ Decide(h) \/ GiveUp(h) \/ Unpin(h) \/ Destroy(h) \/ Kill(h) \/ Tick(h)

Next ==
  \/ \E h \in Handles : OpenStep(h)
  \/ \E d \in Dirs : Listen(d) \/ Serve(d) \/ Stop(d) \/ Crash(d)

Spec == Init /\ [][Next]_vars

-----------------------------------------------------------------------------
(* What the application is given, and where it leads.                      *)

\* seekdb_connection_options; seekdb_connect goes the same way.
Transport(h) ==
  CASE windows /\ tcp[h] # None -> "tcp"
    [] windows /\ tcp[h] = None -> "named_pipe"
    [] OTHER                    -> "unix_socket"

\* SEEKDB_INTERNAL_ERROR, for want of the fields the transport needs.
Refused(h) ==
  \/ Transport(h) = "tcp" /\ uuid[h] = None
  \/ Transport(h) = "named_pipe" /\ pipeName[h] = None
  \/ Transport(h) = "unix_socket" /\ alias[h] = None

\* The directories whose server a connection through h would talk to.
LeadsTo(h) ==
  CASE Transport(h) = "tcp"         -> At(tcp[h])
    [] Transport(h) = "named_pipe"  -> {d \in {DirOf[h]} : pipe[d] = pipeName[h]}
    [] Transport(h) = "unix_socket" -> {d \in {tmp[alias[h]]} : d \in Dirs /\ Reachable(d)}

TypeOK ==
  /\ windows \in BOOLEAN
  /\ server \in [Dirs -> {"down", "listening", "serving"}]
  /\ pipe \in [Dirs -> Pipes \cup {None}] /\ port \in [Dirs -> Ports \cup {None}]
  /\ pipeFile \in [Dirs -> Pipes \cup {None}]
  /\ tmp \in [Aliases -> Dirs \cup {"empty", None}]
  /\ pc \in [Handles -> {"idle", "mkdtemp", "symlink", "clients", "check", "connect",
                         "verify", "decide", "open", "cleanup", "destroy"}]
  /\ left \in [Handles -> 0..ReadyTimeout] /\ io \in [Handles -> 0..PhaseBudget]
  /\ attempt \in [Handles -> {"fast", "locked", "wait"}]
  /\ probe \in [Handles -> {"NOT_FOUND", "UNVERIFIED", "VERIFIED"}]
  /\ candidate \in [Handles -> Ports \cup {None}]
  /\ pipeName \in [Handles -> Pipes \cup {None}]
  /\ tcp \in [Handles -> Ports \cup {None}] /\ uuid \in [Handles -> Dirs \cup {None}]
  /\ alias \in [Handles -> Aliases \cup {None}]
  /\ gone \in [Handles -> BOOLEAN] /\ absent \in [Handles -> BOOLEAN]
  /\ unheard \in [Handles -> BOOLEAN]
  /\ orphans \subseteq Aliases

\* The endpoint of an open handle leads to the server of its own directory, and to no
\* other, until that server crashes; a local endpoint never leads elsewhere.  The port
\* was discovered through the pipe, which may be of a server that died meanwhile and
\* whose port another directory's server took; the alias may have been anybody's.
EndpointLeadsHome ==
  \A h \in Handles : pc[h] = "open" =>
    /\ ~Refused(h)
    /\ ~gone[h] => LeadsTo(h) = {DirOf[h]}
    /\ Transport(h) # "tcp" => LeadsTo(h) \subseteq {DirOf[h]}

\* "Nobody there" is reported, and a second server spawned for it, for two reasons only:
\* at some moment of that very probe the directory had no server to reach, or the
\* connector gave up on its local endpoint, which the code takes for the same.  Whatever
\* fails once the local endpoint answered, discovery or the TCP check, spawns nothing.
OwnedIsFound ==
  \A h \in Handles :
    pc[h] = "decide" /\ probe[h] = "NOT_FOUND" => absent[h] \/ unheard[h]

\* I/O never runs past the deadline of seekdb_open, however slow the server answers:
\* a phase under way would end in time even if it took its whole budget.
IOEndsInTime ==
  \A h \in Handles :
    pc[h] \in {"connect", "verify"} => left[h] >= PhaseBudget - io[h]

\* Every name under /tmp belongs to one handle, being opened or open, or is left from an
\* application that was killed or a removal that failed; and a handle that may be
\* connected through has one.
AliasesAccounted ==
  /\ \A a \in Aliases : tmp[a] # None => a \in orphans \/ \E h \in Handles : alias[h] = a
  /\ \A h \in Handles :
       /\ ~windows /\ Pins(h) => alias[h] # None /\ tmp[alias[h]] = DirOf[h]
       /\ alias[h] # None => \A g \in Handles : alias[g] = alias[h] => g = h
=============================================================================
