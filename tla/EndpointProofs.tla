---------------------------- MODULE EndpointProofs ----------------------------
(***************************************************************************)
(* For any number of handles, directories, ports and names, and any        *)
(* timeouts: an open handle leads to the server of its own directory.      *)
(*                                                                         *)
(* Three things are followed across processes: a name under /tmp from the  *)
(* handle that made it (AliasInv), what a probe has seen of the server     *)
(* that it asks (ProbeInv), and what was verified of the server of an open *)
(* handle as long as that server lives (VerifiedInv).                      *)
(***************************************************************************)
EXTENDS Endpoint, TLAPS

\* A server that is down listens nowhere; one that is up has put the name of its pipe
\* into run/sql.pipe; a port has one server.
ServerInv ==
  /\ \A d \in Dirs : server[d] = "down" => port[d] = None /\ pipe[d] = None
  /\ windows => \A d \in Dirs : Reachable(d) => pipe[d] \in Pipes /\ pipeFile[d] = pipe[d]
  /\ \A d, e \in Dirs : port[d] # None /\ port[d] = port[e] => d = e

\* Every name belongs to the one handle that made it, which has linked it to its
\* directory before it locks seekdb.clients.
AliasInv ==
  /\ \A a \in Aliases : tmp[a] # None => a \in orphans \/ \E h \in Handles : alias[h] = a
  /\ \A h \in Handles :
       /\ pc[h] \in {"idle", "mkdtemp"} => alias[h] = None
       /\ pc[h] = "symlink" => alias[h] # None
       /\ ~windows /\ (Pins(h) \/ pc[h] = "clients") =>
            alias[h] # None /\ tmp[alias[h]] = DirOf[h]
       /\ alias[h] # None =>
            /\ tmp[alias[h]] # None
            /\ \A g \in Handles : alias[g] = alias[h] => g = h

\* While a probe found no moment without a server, the one it started with is still the
\* one it talks to.
ProbeInv ==
  \A h \in Handles :
    /\ windows /\ pc[h] \in {"connect", "verify"} => pipeName[h] \in Pipes
    /\ pc[h] \in {"connect", "verify"} => tcp[h] = None
    /\ pc[h] = "connect" /\ ~absent[h] =>
         Reachable(DirOf[h]) /\ (windows => pipe[DirOf[h]] = pipeName[h])
    /\ pc[h] = "verify" => candidate[h] # None
    /\ pc[h] = "decide" /\ probe[h] = "NOT_FOUND" => absent[h] \/ unheard[h]

Verified(h) == pc[h] = "open" \/ (pc[h] = "decide" /\ probe[h] = "VERIFIED")

\* The endpoint that was verified is that of the server of h's directory until that
\* server ends.
VerifiedInv ==
  \A h \in Handles : Verified(h) =>
    /\ windows => pipeName[h] \in Pipes /\ (tcp[h] # None => uuid[h] # None)
    /\ ~gone[h] =>
         /\ Reachable(DirOf[h])
         /\ windows => IF tcp[h] = None THEN pipe[DirOf[h]] = pipeName[h]
                       ELSE port[DirOf[h]] = tcp[h]

IInv == TypeOK /\ ServerInv /\ AliasInv /\ ProbeInv /\ VerifiedInv /\ IOEndsInTime

LEMMA InitInv == Init => IInv
<1> SUFFICES ASSUME Init PROVE IInv OBVIOUS
<1> USE EndpointAssumption DEF Init
<1>1. TypeOK BY DEF TypeOK
<1>2. ServerInv BY DEF ServerInv, Reachable
<1>3. AliasInv BY DEF AliasInv, Pins
<1>4. ProbeInv /\ VerifiedInv /\ IOEndsInTime BY DEF ProbeInv, VerifiedInv, Verified, IOEndsInTime
<1> QED BY <1>1, <1>2, <1>3, <1>4 DEF IInv

\* The types in three parts, which different steps concern.
ServerTypes ==
  /\ windows \in BOOLEAN
  /\ server \in [Dirs -> {"down", "listening", "serving"}]
  /\ pipe \in [Dirs -> Pipes \cup {None}] /\ port \in [Dirs -> Ports \cup {None}]
  /\ pipeFile \in [Dirs -> Pipes \cup {None}]
  /\ tmp \in [Aliases -> Dirs \cup {"empty", None}] /\ orphans \subseteq Aliases

OpeningTypes ==
  /\ pc \in [Handles -> {"idle", "mkdtemp", "symlink", "clients", "check", "connect",
                         "verify", "decide", "open", "cleanup", "destroy"}]
  /\ left \in [Handles -> 0..ReadyTimeout] /\ io \in [Handles -> 0..PhaseBudget]
  /\ attempt \in [Handles -> {"fast", "locked", "wait"}]
  /\ probe \in [Handles -> {"NOT_FOUND", "UNVERIFIED", "VERIFIED"}]

FieldTypes ==
  /\ candidate \in [Handles -> Ports \cup {None}]
  /\ pipeName \in [Handles -> Pipes \cup {None}]
  /\ tcp \in [Handles -> Ports \cup {None}] /\ uuid \in [Handles -> Dirs \cup {None}]
  /\ alias \in [Handles -> Aliases \cup {None}]

HistoryTypes ==
  /\ gone \in [Handles -> BOOLEAN]
  /\ absent \in [Handles -> BOOLEAN] /\ unheard \in [Handles -> BOOLEAN]

\* What a removal leaves: nothing, or a name that is accounted for.
LEMMA Removed ==
  ASSUME TypeOK, NEW name \in Aliases, Remove(name)
  PROVE  /\ tmp' \in [Aliases -> Dirs \cup {"empty", None}] /\ orphans' \subseteq Aliases
         /\ \A a \in Aliases : a # name => tmp'[a] = tmp[a]
         /\ \A a \in orphans : a \in orphans'
         /\ tmp'[name] = None \/ name \in orphans'
BY DEF TypeOK, Remove

LEMMA ServerTypesStep == TypeOK /\ AliasInv /\ [Next]_vars => ServerTypes'
<1> SUFFICES ASSUME TypeOK, AliasInv, [Next]_vars PROVE ServerTypes' OBVIOUS
<1> USE EndpointAssumption
    DEF TypeOK, ServerTypes, servers, opening, fields, history, deadline_reached, Report, Goto
<1>1. ASSUME NEW h \in Handles, Open(h) \/ MakeAlias(h) \/ LinkAlias(h) \/ LockClients(h)
      PROVE  ServerTypes'
  <2>1. CASE Open(h) \/ MakeAlias(h) \/ LockClients(h)
    BY <2>1 DEF Open, MakeAlias, LockClients
  <2>2. CASE LinkAlias(h)
    <3>1. alias[h] \in Aliases BY <2>2 DEF LinkAlias, AliasInv
    <3>2. CASE Remove(alias[h])
      <4>1. tmp' \in [Aliases -> Dirs \cup {"empty", None}] /\ orphans' \subseteq Aliases
        BY <3>1, <3>2, Removed
      <4> QED BY <2>2, <4>1 DEF LinkAlias
    <3>3. CASE ~Remove(alias[h]) BY <2>2, <3>3 DEF LinkAlias
    <3> QED BY <3>2, <3>3
  <2> QED BY <1>1, <2>1, <2>2
<1>2. ASSUME NEW h \in Handles, BeginProbe(h) PROVE ServerTypes'
  BY <1>2 DEF BeginProbe, NoProbe, ReadPipe
<1>3. ASSUME NEW h \in Handles,
             ConnectFails(h) \/ ConnectTimesOut(h) \/ NotReady(h) \/ SocketReady(h)
      PROVE  ServerTypes'
  BY <1>3 DEF ConnectFails, ConnectTimesOut, NotReady, SocketReady
<1>4. ASSUME NEW h \in Handles, PipeReady(h) \/ Discover(h) \/ Verify(h) PROVE ServerTypes'
  BY <1>4 DEF PipeReady, Discover, Verify
<1>5. ASSUME NEW h \in Handles, Decide(h) \/ GiveUp(h) \/ Unpin(h) PROVE ServerTypes'
  BY <1>5 DEF Decide, GiveUp, Unpin
<1>6. ASSUME NEW h \in Handles, Destroy(h) \/ Kill(h) \/ Tick(h) PROVE ServerTypes'
  <2>1. CASE Destroy(h)
    <3>1. UNCHANGED <<windows, servers>> BY <2>1 DEF Destroy
    <3>2. tmp' \in [Aliases -> Dirs \cup {"empty", None}] /\ orphans' \subseteq Aliases
      <4>1. CASE alias[h] = None BY <2>1, <4>1 DEF Destroy
      <4>2. CASE alias[h] # None
        <5>1. alias[h] \in Aliases /\ Remove(alias[h]) BY <2>1, <4>2 DEF Destroy
        <5> QED BY <5>1, Removed
      <4> QED BY <4>1, <4>2
    <3> QED BY <3>1, <3>2
  <2>2. CASE Kill(h) \/ Tick(h) BY <2>2 DEF Kill, Forget, Tick
  <2> QED BY <1>6, <2>1, <2>2
<1>7. ASSUME NEW d \in Dirs, Listen(d) \/ Serve(d) \/ Stop(d) \/ Crash(d) PROVE ServerTypes'
  <2>1. CASE Listen(d) BY <2>1 DEF Listen
  <2>2. CASE Serve(d) BY <2>2 DEF Serve
  <2>3. CASE Stop(d) \/ Crash(d) BY <2>3 DEF Stop, Crash, Ends
  <2> QED BY <1>7, <2>1, <2>2, <2>3
<1>8. CASE UNCHANGED vars BY <1>8 DEF vars
<1> QED BY <1>1, <1>2, <1>3, <1>4, <1>5, <1>6, <1>7, <1>8 DEF Next, OpenStep

LEMMA OpeningTypesStep == TypeOK /\ [Next]_vars => OpeningTypes'
<1> SUFFICES ASSUME TypeOK, [Next]_vars PROVE OpeningTypes' OBVIOUS
<1> USE EndpointAssumption
    DEF TypeOK, OpeningTypes, servers, opening, fields, history, deadline_reached, Report, Goto
<1>1. ASSUME NEW h \in Handles, Open(h) \/ MakeAlias(h) \/ LinkAlias(h) \/ LockClients(h)
      PROVE  OpeningTypes'
  BY <1>1 DEF Open, MakeAlias, LinkAlias, LockClients
<1>2. ASSUME NEW h \in Handles, BeginProbe(h) PROVE OpeningTypes'
  BY <1>2 DEF BeginProbe, NoProbe, ReadPipe
<1>3. ASSUME NEW h \in Handles,
             ConnectFails(h) \/ ConnectTimesOut(h) \/ NotReady(h) \/ SocketReady(h)
      PROVE  OpeningTypes'
  BY <1>3 DEF ConnectFails, ConnectTimesOut, NotReady, SocketReady
<1>4. ASSUME NEW h \in Handles, PipeReady(h) \/ Discover(h) \/ Verify(h) PROVE OpeningTypes'
  BY <1>4 DEF PipeReady, Discover, Verify
<1>5. ASSUME NEW h \in Handles, Decide(h) \/ GiveUp(h) \/ Unpin(h) PROVE OpeningTypes'
  BY <1>5 DEF Decide, GiveUp, Unpin
<1>6. ASSUME NEW h \in Handles, Destroy(h) \/ Kill(h) \/ Tick(h) PROVE OpeningTypes'
  <2>1. CASE Destroy(h) \/ Kill(h)
    <3>1. Forget(h) BY <2>1 DEF Destroy, Kill
    <3> QED BY <3>1 DEF Forget
  <2>2. CASE Tick(h) BY <2>2 DEF Tick
  <2> QED BY <1>6, <2>1, <2>2
<1>7. ASSUME NEW d \in Dirs, Listen(d) \/ Serve(d) \/ Stop(d) \/ Crash(d) PROVE OpeningTypes'
  BY <1>7 DEF Listen, Serve, Stop, Crash, Ends
<1>8. CASE UNCHANGED vars BY <1>8 DEF vars
<1> QED BY <1>1, <1>2, <1>3, <1>4, <1>5, <1>6, <1>7, <1>8 DEF Next, OpenStep

LEMMA FieldTypesStep == TypeOK /\ [Next]_vars => FieldTypes'
<1> SUFFICES ASSUME TypeOK, [Next]_vars PROVE FieldTypes' OBVIOUS
<1> USE EndpointAssumption
    DEF TypeOK, FieldTypes, servers, opening, fields, history, deadline_reached, Report, Goto
<1>1. ASSUME NEW h \in Handles, Open(h) \/ MakeAlias(h) \/ LinkAlias(h) \/ LockClients(h)
      PROVE  FieldTypes'
  BY <1>1 DEF Open, MakeAlias, LinkAlias, LockClients
<1>2. ASSUME NEW h \in Handles, BeginProbe(h) PROVE FieldTypes'
  BY <1>2 DEF BeginProbe, NoProbe, ReadPipe
<1>3. ASSUME NEW h \in Handles,
             ConnectFails(h) \/ ConnectTimesOut(h) \/ NotReady(h) \/ SocketReady(h)
      PROVE  FieldTypes'
  BY <1>3 DEF ConnectFails, ConnectTimesOut, NotReady, SocketReady
<1>4. ASSUME NEW h \in Handles, PipeReady(h) \/ Discover(h) \/ Verify(h) PROVE FieldTypes'
  BY <1>4 DEF PipeReady, Discover, Verify
<1>5. ASSUME NEW h \in Handles, Decide(h) \/ GiveUp(h) \/ Unpin(h) PROVE FieldTypes'
  BY <1>5 DEF Decide, GiveUp, Unpin
<1>6. ASSUME NEW h \in Handles, Destroy(h) \/ Kill(h) \/ Tick(h) PROVE FieldTypes'
  <2>1. CASE Destroy(h) \/ Kill(h)
    <3>1. Forget(h) BY <2>1 DEF Destroy, Kill
    <3> QED BY <3>1 DEF Forget
  <2>2. CASE Tick(h) BY <2>2 DEF Tick
  <2> QED BY <1>6, <2>1, <2>2
<1>7. ASSUME NEW d \in Dirs, Listen(d) \/ Serve(d) \/ Stop(d) \/ Crash(d) PROVE FieldTypes'
  BY <1>7 DEF Listen, Serve, Stop, Crash, Ends
<1>8. CASE UNCHANGED vars BY <1>8 DEF vars
<1> QED BY <1>1, <1>2, <1>3, <1>4, <1>5, <1>6, <1>7, <1>8 DEF Next, OpenStep

LEMMA HistoryTypesStep == TypeOK /\ [Next]_vars => HistoryTypes'
<1> SUFFICES ASSUME TypeOK, [Next]_vars PROVE HistoryTypes' OBVIOUS
<1> USE EndpointAssumption
    DEF TypeOK, HistoryTypes, servers, opening, fields, history, deadline_reached, Report, Goto
<1>1. ASSUME NEW h \in Handles, Open(h) \/ MakeAlias(h) \/ LinkAlias(h) \/ LockClients(h)
      PROVE  HistoryTypes'
  BY <1>1 DEF Open, MakeAlias, LinkAlias, LockClients
<1>2. ASSUME NEW h \in Handles, BeginProbe(h) PROVE HistoryTypes'
  BY <1>2 DEF BeginProbe, NoProbe, ReadPipe
<1>0. ASSUME NEW h \in Handles, NEW r, gone' = [gone EXCEPT ![h] = gone[h] /\ r # "VERIFIED"],
             UNCHANGED absent,
             UNCHANGED unheard \/ unheard' = [unheard EXCEPT ![h] = TRUE]
      PROVE  HistoryTypes'
  <2>1. (gone[h] /\ r # "VERIFIED") \in BOOLEAN OBVIOUS
  <2>2. gone' \in [Handles -> BOOLEAN] BY <1>0, <2>1, Zenon
  <2>3. absent' \in [Handles -> BOOLEAN] /\ unheard' \in [Handles -> BOOLEAN] BY <1>0
  <2> QED BY <2>2, <2>3
<1>3. ASSUME NEW h \in Handles,
             ConnectFails(h) \/ ConnectTimesOut(h) \/ NotReady(h) \/ SocketReady(h)
      PROVE  HistoryTypes'
  BY <1>0, <1>3 DEF ConnectFails, ConnectTimesOut, NotReady, SocketReady
<1>4. ASSUME NEW h \in Handles, PipeReady(h) \/ Discover(h) \/ Verify(h) PROVE HistoryTypes'
  <2>1. \/ UNCHANGED history
        \/ UNCHANGED <<absent, unheard>> /\ \E r : gone' = [gone EXCEPT ![h] = gone[h] /\ r # "VERIFIED"]
    BY <1>4 DEF PipeReady, Discover, Verify
  <2> QED BY <1>0, <2>1
<1>5. ASSUME NEW h \in Handles, Decide(h) \/ GiveUp(h) \/ Unpin(h) PROVE HistoryTypes'
  BY <1>5 DEF Decide, GiveUp, Unpin
<1>6. ASSUME NEW h \in Handles, Destroy(h) \/ Kill(h) \/ Tick(h) PROVE HistoryTypes'
  BY <1>6 DEF Destroy, Kill, Forget, Tick
<1>7. ASSUME NEW d \in Dirs, Listen(d) \/ Serve(d) \/ Stop(d) \/ Crash(d) PROVE HistoryTypes'
  <2>1. CASE Listen(d) \/ Serve(d) BY <2>1 DEF Listen, Serve
  <2>2. CASE Stop(d) \/ Crash(d)
    <3> DEFINE mine == {h \in Handles : DirOf[h] = d}
    <3>1. gone' = [h \in Handles |-> gone[h] \/ h \in mine] BY <2>2 DEF Stop, Crash, Ends
    <3>2. absent' = [h \in Handles |-> absent[h] \/ (h \in mine /\ pc[h] \in {"connect", "verify"})]
      BY <2>2 DEF Stop, Crash, Ends
    <3> HIDE DEF mine
    <3>3. gone' \in [Handles -> BOOLEAN] BY <3>1, Zenon
    <3>4. absent' \in [Handles -> BOOLEAN] BY <3>2, Zenon
    <3>5. UNCHANGED unheard BY <2>2 DEF Stop, Crash, Ends
    <3> QED BY <3>3, <3>4, <3>5
  <2> QED BY <1>7, <2>1, <2>2
<1>8. CASE UNCHANGED vars BY <1>8 DEF vars
<1> QED BY <1>1, <1>2, <1>3, <1>4, <1>5, <1>6, <1>7, <1>8 DEF Next, OpenStep

LEMMA TypeStep == TypeOK /\ AliasInv /\ [Next]_vars => TypeOK'
<1>1. TypeOK' <=> ServerTypes' /\ OpeningTypes' /\ FieldTypes' /\ HistoryTypes'
  BY DEF TypeOK, ServerTypes, OpeningTypes, FieldTypes, HistoryTypes
<1> QED BY <1>1, ServerTypesStep, OpeningTypesStep, FieldTypesStep, HistoryTypesStep

-----------------------------------------------------------------------------
\* A handle's step changes no server and no other handle.
Local(h) == <<pc[h], left[h], io[h], attempt[h], probe[h], candidate[h], pipeName[h],
              tcp[h], uuid[h], alias[h], gone[h], absent[h], unheard[h]>>

LEMMA OthersKept ==
  ASSUME TypeOK, NEW h \in Handles, OpenStep(h)
  PROVE  /\ UNCHANGED <<windows, servers>>
         /\ \A g \in Handles : g # h => UNCHANGED Local(g)
<1> USE DEF TypeOK, Local, servers, opening, fields, history, Report, Goto
<1>1. CASE Open(h) \/ MakeAlias(h) \/ LinkAlias(h) \/ LockClients(h)
  BY <1>1 DEF Open, MakeAlias, LinkAlias, LockClients
<1>2. CASE BeginProbe(h) BY <1>2 DEF BeginProbe, NoProbe, ReadPipe
<1>3. CASE ConnectFails(h) \/ ConnectTimesOut(h) \/ NotReady(h) \/ SocketReady(h)
  BY <1>3 DEF ConnectFails, ConnectTimesOut, NotReady, SocketReady
<1>4. CASE PipeReady(h) \/ Discover(h) BY <1>4 DEF PipeReady, Discover
<1>5. CASE Verify(h) BY <1>5 DEF Verify
<1>6. CASE Decide(h) \/ GiveUp(h) \/ Unpin(h) BY <1>6 DEF Decide, GiveUp, Unpin
<1>7. CASE Destroy(h) \/ Kill(h) BY <1>7 DEF Destroy, Kill, Forget
<1>8. CASE Tick(h) BY <1>8 DEF Tick
<1> QED BY <1>1, <1>2, <1>3, <1>4, <1>5, <1>6, <1>7, <1>8 DEF OpenStep

LEMMA ServerStep == TypeOK /\ ServerInv /\ [Next]_vars => ServerInv'
<1> SUFFICES ASSUME TypeOK, ServerInv, [Next]_vars PROVE ServerInv' OBVIOUS
<1> USE EndpointAssumption DEF TypeOK, ServerInv, Reachable, servers
<1>1. ASSUME NEW h \in Handles, OpenStep(h) PROVE ServerInv'
  BY <1>1, OthersKept
<1>2. ASSUME NEW d \in Dirs, Listen(d) PROVE ServerInv'
  <2>1. server' = [server EXCEPT ![d] = "listening"] /\ UNCHANGED windows /\ server[d] = "down"
    BY <1>2 DEF Listen
  <2>2. CASE ~windows
    <3>1. UNCHANGED <<pipe, port, pipeFile>> BY <1>2, <2>2 DEF Listen
    <3> QED BY <2>1, <2>2, <3>1
  <2>3. CASE windows
    <3>1. PICK n \in Ports \cup {None} : /\ n = None \/ \A e \in Dirs : port[e] # n
                                        /\ port' = [port EXCEPT ![d] = n]
      BY <1>2, <2>3 DEF Listen, At
    <3>2. PICK name \in Pipes : /\ pipe' = [pipe EXCEPT ![d] = name]
                               /\ pipeFile' = [pipeFile EXCEPT ![d] = name]
      BY <1>2, <2>3 DEF Listen
    <3>3. \A e, f \in Dirs : port'[e] # None /\ port'[e] = port'[f] => e = f
      BY <3>1
    <3>4. \A e \in Dirs : server'[e] = "down" => port'[e] = None /\ pipe'[e] = None
      BY <2>1, <3>1, <3>2
    <3>5. \A e \in Dirs : server'[e] # "down" => pipe'[e] \in Pipes /\ pipeFile'[e] = pipe'[e]
      BY <2>1, <2>3, <3>2
    <3> QED BY <3>3, <3>4, <3>5
  <2> QED BY <2>2, <2>3
<1>3. ASSUME NEW d \in Dirs, Serve(d) PROVE ServerInv'
  BY <1>3 DEF Serve
<1>4. ASSUME NEW d \in Dirs, Stop(d) \/ Crash(d) PROVE ServerInv'
  <2>1. /\ server' = [server EXCEPT ![d] = "down"] /\ UNCHANGED <<windows, pipeFile>>
        /\ pipe' = [pipe EXCEPT ![d] = None] /\ port' = [port EXCEPT ![d] = None]
    BY <1>4 DEF Stop, Crash, Ends
  <2>2. \A e, f \in Dirs : port'[e] # None /\ port'[e] = port'[f] => e = f BY <2>1
  <2>3. \A e \in Dirs : server'[e] = "down" => port'[e] = None /\ pipe'[e] = None BY <2>1
  <2>4. windows' =>
          \A e \in Dirs : server'[e] # "down" => pipe'[e] \in Pipes /\ pipeFile'[e] = pipe'[e]
    BY <2>1
  <2> QED BY <2>2, <2>3, <2>4
<1>5. CASE UNCHANGED vars BY <1>5 DEF vars
<1> QED BY <1>1, <1>2, <1>3, <1>4, <1>5 DEF Next

LEMMA TimeStep == TypeOK /\ IOEndsInTime /\ [Next]_vars => IOEndsInTime'
<1> SUFFICES ASSUME TypeOK, IOEndsInTime, [Next]_vars PROVE IOEndsInTime' OBVIOUS
<1> USE EndpointAssumption DEF TypeOK, IOEndsInTime, opening
<1>1. ASSUME NEW h \in Handles, OpenStep(h) PROVE IOEndsInTime'
  <2> SUFFICES ASSUME NEW g \in Handles, pc'[g] \in {"connect", "verify"}
               PROVE  left'[g] >= PhaseBudget - io'[g]
    OBVIOUS
  <2>1. CASE g # h
    <3>1. UNCHANGED Local(g) BY <1>1, <2>1, OthersKept
    <3> QED BY <3>1 DEF Local
  <2> USE DEF Report, Goto
  <2>2. CASE g = h
    <3>1. CASE Open(h) \/ MakeAlias(h) \/ LinkAlias(h) \/ LockClients(h)
      BY <2>2, <3>1 DEF Open, MakeAlias, LinkAlias, LockClients
    <3>2. CASE BeginProbe(h)
      BY <2>2, <3>2 DEF BeginProbe, NoProbe, ReadPipe, deadline_has_budget
    <3>3. CASE ConnectFails(h) \/ ConnectTimesOut(h) \/ NotReady(h) \/ SocketReady(h)
      BY <2>2, <3>3 DEF ConnectFails, ConnectTimesOut, NotReady, SocketReady
    <3>4. CASE PipeReady(h) \/ Verify(h) BY <2>2, <3>4 DEF PipeReady, Verify
    <3>5. CASE Discover(h) BY <2>2, <3>5 DEF Discover, deadline_has_budget
    <3>6. CASE Decide(h) \/ GiveUp(h) \/ Unpin(h) BY <2>2, <3>6 DEF Decide, GiveUp, Unpin
    <3>7. CASE Destroy(h) \/ Kill(h) BY <2>2, <3>7 DEF Destroy, Kill, Forget
    <3>8. CASE Tick(h) BY <2>2, <3>8 DEF Tick
    <3> QED BY <1>1, <3>1, <3>2, <3>3, <3>4, <3>5, <3>6, <3>7, <3>8 DEF OpenStep
  <2> QED BY <2>1, <2>2
<1>2. ASSUME NEW d \in Dirs, Listen(d) \/ Serve(d) \/ Stop(d) \/ Crash(d) PROVE IOEndsInTime'
  BY <1>2 DEF Listen, Serve, Stop, Crash, Ends
<1>3. CASE UNCHANGED vars BY <1>3 DEF vars
<1> QED BY <1>1, <1>2, <1>3 DEF Next

LEMMA AliasStep == TypeOK /\ AliasInv /\ [Next]_vars => AliasInv'
<1> SUFFICES ASSUME TypeOK, AliasInv, [Next]_vars PROVE AliasInv' OBVIOUS
<1> USE EndpointAssumption DEF TypeOK, AliasInv, Pins
<1>1. ASSUME UNCHANGED <<tmp, alias, windows, orphans>>,
             \A g \in Handles :
               \/ pc'[g] = pc[g]
               \/ pc'[g] = "destroy"
               \/ pc[g] = "idle" /\ pc'[g] = IF windows THEN "clients" ELSE "mkdtemp"
               \/ /\ pc[g] = "clients" \/ Pins(g)
                  /\ pc'[g] \in {"check", "connect", "verify", "decide", "open", "cleanup"}
      PROVE  AliasInv'
  BY <1>1
<1>2. ASSUME NEW h \in Handles, Open(h) \/ LockClients(h) \/ GiveUp(h) \/ Unpin(h)
      PROVE  AliasInv'
  BY <1>1, <1>2 DEF Open, LockClients, GiveUp, Unpin, Goto, fields, history
<1>3. ASSUME NEW h \in Handles, BeginProbe(h) \/ Decide(h) PROVE AliasInv'
  BY <1>1, <1>3 DEF BeginProbe, NoProbe, ReadPipe, Decide, Goto, fields, history
<1>4. ASSUME NEW h \in Handles,
             ConnectFails(h) \/ ConnectTimesOut(h) \/ NotReady(h) \/ SocketReady(h)
      PROVE  AliasInv'
  BY <1>1, <1>4 DEF ConnectFails, ConnectTimesOut, NotReady, SocketReady, Report, fields
<1>5. ASSUME NEW h \in Handles, PipeReady(h) \/ Discover(h) \/ Verify(h) PROVE AliasInv'
  BY <1>1, <1>5 DEF PipeReady, Discover, Verify, Report, fields
<1>6. ASSUME NEW h \in Handles, Tick(h) PROVE AliasInv'
  BY <1>1, <1>6 DEF Tick, fields, history
<1>7. ASSUME NEW d \in Dirs, Listen(d) \/ Serve(d) \/ Stop(d) \/ Crash(d) PROVE AliasInv'
  <2>1. UNCHANGED <<tmp, alias, windows, orphans, pc>>
    BY <1>7 DEF Listen, Serve, Stop, Crash, Ends, opening, fields, history
  <2> QED BY <1>1, <2>1
<1>8. ASSUME NEW h \in Handles, MakeAlias(h) PROVE AliasInv'
  <2>1. /\ pc[h] = "mkdtemp" /\ UNCHANGED <<windows, orphans>> BY <1>8 DEF MakeAlias, history
  <2>2. CASE pc' = [pc EXCEPT ![h] = "destroy"] /\ UNCHANGED <<tmp, alias>>
    BY <1>1, <2>1, <2>2
  <2>3. ASSUME NEW a \in Aliases, tmp[a] = None, tmp' = [tmp EXCEPT ![a] = "empty"],
               alias' = [alias EXCEPT ![h] = a], pc' = [pc EXCEPT ![h] = "symlink"]
        PROVE  AliasInv'
    <3>1. alias[h] = None BY <2>1
    <3>2. \A g \in Handles : alias[g] # a BY <2>3
    <3>3. \A b \in Aliases : tmp'[b] # None => b \in orphans' \/ \E g \in Handles : alias'[g] = b
      <4> SUFFICES ASSUME NEW b \in Aliases, tmp'[b] # None, b \notin orphans
                   PROVE  \E g \in Handles : alias'[g] = b
        BY <2>1
      <4>1. CASE b = a BY <2>3, <4>1
      <4>2. CASE b # a
        <5>1. PICK g \in Handles : alias[g] = b BY <2>3, <4>2
        <5>2. g # h BY <3>1, <5>1
        <5> QED BY <2>3, <5>1, <5>2
      <4> QED BY <4>1, <4>2
    <3>4. ASSUME NEW g \in Handles, g # h
          PROVE  /\ pc'[g] = pc[g] /\ alias'[g] = alias[g] /\ alias[g] # a
                 /\ alias[g] # None => tmp'[alias[g]] = tmp[alias[g]]
      BY <2>3, <3>2, <3>4
    <3>5. pc'[h] = "symlink" /\ alias'[h] = a /\ tmp'[a] = "empty" /\ a # None BY <2>3
    <3> QED BY <2>1, <3>3, <3>4, <3>5
  <2> QED BY <1>8, <2>2, <2>3 DEF MakeAlias
<1>9. ASSUME NEW h \in Handles, LinkAlias(h) PROVE AliasInv'
  <2>1. /\ pc[h] = "symlink" /\ UNCHANGED windows /\ alias[h] \in Aliases
    BY <1>9 DEF LinkAlias
  <2>2. \A g \in Handles : g # h => alias[g] # alias[h] BY <2>1
  <2>3. CASE /\ tmp' = [tmp EXCEPT ![alias[h]] = DirOf[h]]
             /\ pc' = [pc EXCEPT ![h] = "clients"] /\ UNCHANGED <<alias, orphans>>
    <3>1. tmp'[alias[h]] = DirOf[h] /\ DirOf[h] # None /\ pc'[h] = "clients" BY <2>1, <2>3
    <3>2. \A g \in Handles : g # h =>
            pc'[g] = pc[g] /\ (alias[g] # None => tmp'[alias[g]] = tmp[alias[g]])
      BY <2>1, <2>2, <2>3
    <3>3. \A a \in Aliases : tmp'[a] # None => a \in orphans' \/ \E g \in Handles : alias'[g] = a
      BY <2>1, <2>3
    <3> QED BY <2>1, <2>3, <3>1, <3>2, <3>3
  <2>4. CASE /\ Remove(alias[h])
             /\ alias' = [alias EXCEPT ![h] = None] /\ pc' = [pc EXCEPT ![h] = "destroy"]
    <3>0. /\ \A a \in Aliases : a # alias[h] => tmp'[a] = tmp[a]
          /\ \A a \in orphans : a \in orphans'
          /\ tmp'[alias[h]] = None \/ alias[h] \in orphans'
      BY <2>1, <2>4, Removed
    <3>1. alias'[h] = None /\ pc'[h] = "destroy" BY <2>4
    <3>2. \A g \in Handles : g # h =>
            /\ pc'[g] = pc[g] /\ alias'[g] = alias[g]
            /\ alias[g] # None => tmp'[alias[g]] = tmp[alias[g]]
      BY <2>1, <2>2, <2>4, <3>0
    <3>3. \A a \in Aliases : tmp'[a] # None => a \in orphans' \/ \E g \in Handles : alias'[g] = a
      <4> SUFFICES ASSUME NEW a \in Aliases, tmp'[a] # None, a \notin orphans'
                   PROVE  \E g \in Handles : alias'[g] = a
        OBVIOUS
      <4>1. a # alias[h] /\ tmp[a] # None /\ a \notin orphans BY <3>0
      <4>2. PICK g \in Handles : alias[g] = a BY <4>1
      <4> QED BY <3>2, <4>1, <4>2
    <3> QED BY <2>1, <3>1, <3>2, <3>3
  <2> QED BY <1>9, <2>3, <2>4 DEF LinkAlias
<1>10. ASSUME NEW h \in Handles, Destroy(h) \/ Kill(h) PROVE AliasInv'
  <2>1. /\ UNCHANGED windows /\ pc' = [pc EXCEPT ![h] = "idle"]
        /\ alias' = [alias EXCEPT ![h] = None]
        /\ \A a \in Aliases : a # alias[h] => tmp'[a] = tmp[a]
        /\ \A a \in orphans : a \in orphans'
        /\ alias[h] # None => tmp'[alias[h]] = None \/ alias[h] \in orphans'
    <3>1. Forget(h) /\ UNCHANGED windows BY <1>10 DEF Destroy, Kill
    <3>2. CASE Destroy(h)
      <4>1. CASE alias[h] = None BY <3>1, <3>2, <4>1 DEF Destroy, Forget, Goto
      <4>2. CASE alias[h] # None
        <5>1. alias[h] \in Aliases /\ Remove(alias[h]) BY <3>2, <4>2 DEF Destroy
        <5> QED BY <3>1, <5>1, Removed DEF Forget, Goto
      <4> QED BY <4>1, <4>2
    <3>3. CASE Kill(h) BY <3>1, <3>3 DEF Kill, Forget, Goto
    <3> QED BY <1>10, <3>2, <3>3
  <2>2. alias'[h] = None /\ pc'[h] = "idle" BY <2>1
  <2>3. \A g \in Handles : g # h =>
          /\ pc'[g] = pc[g] /\ alias'[g] = alias[g]
          /\ alias[g] # None => alias[g] # alias[h] /\ tmp'[alias[g]] = tmp[alias[g]]
    BY <2>1
  <2>4. \A a \in Aliases : tmp'[a] # None => a \in orphans' \/ \E g \in Handles : alias'[g] = a
    <3> SUFFICES ASSUME NEW a \in Aliases, tmp'[a] # None, a \notin orphans'
                 PROVE  \E g \in Handles : alias'[g] = a
      OBVIOUS
    <3>1. a # alias[h] BY <2>1
    <3>2. tmp[a] # None /\ a \notin orphans BY <2>1, <3>1
    <3>3. PICK g \in Handles : alias[g] = a BY <3>2
    <3> QED BY <2>3, <3>1, <3>3
  <2> QED BY <2>1, <2>2, <2>3, <2>4
<1>11. CASE UNCHANGED vars BY <1>1, <1>11 DEF vars, opening, fields, history
<1> QED BY <1>2, <1>3, <1>4, <1>5, <1>6, <1>7, <1>8, <1>9, <1>10, <1>11 DEF Next, OpenStep

LEMMA ProbeStep == TypeOK /\ ServerInv /\ AliasInv /\ ProbeInv /\ [Next]_vars => ProbeInv'
<1> SUFFICES ASSUME TypeOK, ServerInv, AliasInv, ProbeInv, [Next]_vars PROVE ProbeInv' OBVIOUS
<1> USE EndpointAssumption DEF TypeOK, ProbeInv, Reachable, opening, fields, servers
<1>1. ASSUME NEW h \in Handles, OpenStep(h) PROVE ProbeInv'
  <2> SUFFICES ASSUME NEW g \in Handles
               PROVE  /\ windows' /\ pc'[g] \in {"connect", "verify"} => pipeName'[g] \in Pipes
                      /\ pc'[g] \in {"connect", "verify"} => tcp'[g] = None
                      /\ pc'[g] = "connect" /\ ~absent'[g] =>
                           /\ server'[DirOf[g]] # "down"
                           /\ windows' => pipe'[DirOf[g]] = pipeName'[g]
                      /\ pc'[g] = "verify" => candidate'[g] # None
                      /\ pc'[g] = "decide" /\ probe'[g] = "NOT_FOUND" =>
                           absent'[g] \/ unheard'[g]
    OBVIOUS
  <2>0. UNCHANGED <<windows, servers>> BY <1>1, OthersKept
  <2>1. CASE g # h
    <3>1. UNCHANGED Local(g) BY <1>1, <2>1, OthersKept
    <3> QED BY <2>0, <3>1 DEF Local
  <2> USE DEF Report, Goto
  <2>2. CASE g = h
    <3>1. CASE Open(h) \/ MakeAlias(h) \/ LinkAlias(h) \/ LockClients(h)
      BY <2>2, <3>1 DEF Open, MakeAlias, LinkAlias, LockClients
    <3>2. CASE BeginProbe(h)
      <4>1. CASE NoProbe(h) BY <2>2, <3>2, <4>1 DEF NoProbe
      <4>2. CASE ReadPipe(h)
        <5>1. tcp'[h] = None BY <3>2 DEF BeginProbe
        <5>2. absent'[h] = (server[DirOf[h]] = "down") BY <4>2 DEF ReadPipe
        <5>3. CASE windows /\ pipeFile[DirOf[h]] = None
          <6>1. pc'[h] = "decide" BY <4>2, <5>3 DEF ReadPipe
          <6>2. server[DirOf[h]] = "down" BY <5>3 DEF ServerInv
          <6> QED BY <2>2, <5>2, <6>1, <6>2
        <5>4. CASE ~(windows /\ pipeFile[DirOf[h]] = None)
          <6>1. /\ pc'[h] = "connect"
                /\ windows => pipeName'[h] = pipeFile[DirOf[h]]
            BY <4>2, <5>4 DEF ReadPipe
          <6>2. windows => pipeFile[DirOf[h]] \in Pipes BY <5>4
          <6> QED BY <2>0, <2>2, <5>1, <5>2, <6>1, <6>2 DEF ServerInv
        <5> QED BY <5>3, <5>4
      <4> QED BY <3>2, <4>1, <4>2 DEF BeginProbe
    <3>3. CASE ConnectFails(h)
      BY <2>2, <3>3 DEF ConnectFails, Answers, AliasInv, Pins
    <3>4. CASE ConnectTimesOut(h) \/ NotReady(h) \/ SocketReady(h)
      BY <2>2, <3>4 DEF ConnectTimesOut, NotReady, SocketReady
    <3>5. CASE PipeReady(h) \/ Verify(h) BY <2>2, <3>5 DEF PipeReady, Verify
    <3>6. CASE Discover(h) BY <2>2, <3>6 DEF Discover
    <3>7. CASE Decide(h) \/ GiveUp(h) \/ Unpin(h) BY <2>2, <3>7 DEF Decide, GiveUp, Unpin
    <3>8. CASE Destroy(h) \/ Kill(h) BY <2>2, <3>8 DEF Destroy, Kill, Forget
    <3>9. CASE Tick(h) BY <2>0, <2>2, <3>9 DEF Tick, history
    <3> QED BY <1>1, <3>1, <3>2, <3>3, <3>4, <3>5, <3>6, <3>7, <3>8, <3>9 DEF OpenStep
  <2> QED BY <2>1, <2>2
<1>2. ASSUME NEW d \in Dirs, Listen(d) PROVE ProbeInv'
  <2>1. /\ UNCHANGED <<windows, opening, fields, absent, unheard>> /\ server[d] = "down"
        /\ \A e \in Dirs : e # d => UNCHANGED <<server[e], pipe[e]>>
    BY <1>2 DEF Listen, history
  <2> QED BY <2>1
<1>3. ASSUME NEW d \in Dirs, Serve(d) PROVE ProbeInv'
  BY <1>3 DEF Serve, history
<1>4. ASSUME NEW d \in Dirs, Stop(d) \/ Crash(d) PROVE ProbeInv'
  <2>1. /\ UNCHANGED <<windows, opening, fields, unheard>>
        /\ \A e \in Dirs : e # d => UNCHANGED <<server[e], pipe[e]>>
    BY <1>4 DEF Stop, Crash, Ends
  <2>2. \A h \in Handles : /\ absent[h] => absent'[h]
                           /\ DirOf[h] = d /\ pc[h] = "connect" => absent'[h]
    <3> SUFFICES ASSUME NEW h \in Handles
                 PROVE  /\ absent[h] => absent'[h]
                        /\ DirOf[h] = d /\ pc[h] = "connect" => absent'[h]
      OBVIOUS
    <3>1. absent'[h] = (absent[h] \/ (DirOf[h] = d /\ pc[h] \in {"connect", "verify"}))
      BY <1>4 DEF Stop, Crash, Ends
    <3> QED BY <3>1
  <2> QED BY <2>1, <2>2
<1>5. CASE UNCHANGED vars BY <1>5 DEF vars, history
<1> QED BY <1>1, <1>2, <1>3, <1>4, <1>5 DEF Next

LEMMA VerifiedStep ==
  TypeOK /\ ServerInv /\ AliasInv /\ ProbeInv /\ VerifiedInv /\ [Next]_vars => VerifiedInv'
<1> SUFFICES ASSUME TypeOK, ServerInv, AliasInv, ProbeInv, VerifiedInv, [Next]_vars
             PROVE  VerifiedInv'
  OBVIOUS
<1> USE EndpointAssumption
    DEF TypeOK, VerifiedInv, Verified, Reachable, opening, fields, servers, history
<1>1. ASSUME NEW h \in Handles, OpenStep(h) PROVE VerifiedInv'
  <2>0. UNCHANGED <<windows, servers>> BY <1>1, OthersKept
  <2> SUFFICES ASSUME NEW g \in Handles, Verified(g)'
               PROVE  /\ windows => /\ pipeName'[g] \in Pipes
                                    /\ tcp'[g] # None => uuid'[g] # None
                      /\ ~gone'[g] =>
                           /\ server[DirOf[g]] # "down"
                           /\ windows => IF tcp'[g] = None THEN pipe[DirOf[g]] = pipeName'[g]
                                         ELSE port[DirOf[g]] = tcp'[g]
    BY <2>0
  <2>1. CASE g # h
    <3>1. UNCHANGED Local(g) BY <1>1, <2>1, OthersKept
    <3> QED BY <3>1 DEF Local
  <2> USE DEF Report, Goto
  <2>2. CASE g = h
    <3>1. CASE Open(h) \/ MakeAlias(h) \/ LinkAlias(h) \/ LockClients(h)
      BY <2>2, <3>1 DEF Open, MakeAlias, LinkAlias, LockClients
    <3>2. CASE BeginProbe(h) BY <2>2, <3>2 DEF BeginProbe, NoProbe, ReadPipe
    <3>3. CASE ConnectFails(h) \/ ConnectTimesOut(h) \/ NotReady(h)
      BY <2>2, <3>3 DEF ConnectFails, ConnectTimesOut, NotReady
    <3>4. CASE SocketReady(h)
      <4>1. ~windows /\ server[DirOf[h]] = "serving"
        BY <3>4 DEF SocketReady, Serving, Answers, Peer, AliasInv, Pins
      <4> QED BY <2>2, <4>1
    <3>5. CASE PipeReady(h)
      <4>1. /\ server[DirOf[h]] = "serving" /\ pipe[DirOf[h]] = pipeName[h] /\ pc[h] = "connect"
            /\ UNCHANGED <<pipeName, tcp>>
        BY <3>5 DEF PipeReady, Serving, Answers, Peer
      <4>2. tcp[h] = None /\ (windows => pipeName[h] \in Pipes) BY <4>1 DEF ProbeInv
      <4> QED BY <2>2, <4>1, <4>2
    <3>6. CASE Discover(h) BY <2>2, <3>6 DEF Discover
    <3>7. CASE Verify(h)
      <4>1. pc[h] = "verify" /\ UNCHANGED pipeName BY <3>7 DEF Verify
      <4>2. candidate[h] # None /\ (windows => pipeName[h] \in Pipes) BY <4>1 DEF ProbeInv
      <4>3. /\ DirOf[h] \in At(candidate[h])
            /\ tcp'[h] = candidate[h] /\ uuid'[h] = DirOf[h]
        BY <2>2, <3>7 DEF Verify, verify_tcp_server
      <4>4. port[DirOf[h]] = candidate[h] BY <4>3 DEF At
      <4>5. server[DirOf[h]] # "down" BY <4>2, <4>4 DEF ServerInv
      <4>6. uuid'[h] # None BY <4>3
      <4> QED BY <2>2, <4>1, <4>2, <4>3, <4>4, <4>5, <4>6
    <3>8. CASE Decide(h)
      BY <2>2, <3>8 DEF Decide, Finished
    <3>9. CASE GiveUp(h) \/ Unpin(h) BY <2>2, <3>9 DEF GiveUp, Unpin
    <3>10. CASE Destroy(h) \/ Kill(h) BY <2>2, <3>10 DEF Destroy, Kill, Forget
    <3>11. CASE Tick(h) BY <2>2, <3>11 DEF Tick
    <3> QED BY <1>1, <3>1, <3>2, <3>3, <3>4, <3>5, <3>6, <3>7, <3>8, <3>9, <3>10, <3>11
      DEF OpenStep
  <2> QED BY <2>1, <2>2
<1>2. ASSUME NEW d \in Dirs, Listen(d) PROVE VerifiedInv'
  <2>1. /\ UNCHANGED <<windows, opening, fields, gone>> /\ server[d] = "down"
        /\ \A e \in Dirs : e # d => UNCHANGED <<server[e], pipe[e], port[e]>>
    BY <1>2 DEF Listen
  <2> QED BY <2>1
<1>3. ASSUME NEW d \in Dirs, Serve(d) PROVE VerifiedInv'
  BY <1>3 DEF Serve
<1>4. ASSUME NEW d \in Dirs, Stop(d) \/ Crash(d) PROVE VerifiedInv'
  <2>1. /\ UNCHANGED <<windows, opening, fields>>
        /\ \A e \in Dirs : e # d => UNCHANGED <<server[e], pipe[e], port[e]>>
    BY <1>4 DEF Stop, Crash, Ends
  <2>2. \A h \in Handles : ~gone'[h] => ~gone[h] /\ DirOf[h] # d
    <3> SUFFICES ASSUME NEW h \in Handles PROVE ~gone'[h] => ~gone[h] /\ DirOf[h] # d
      OBVIOUS
    <3>1. gone'[h] = (gone[h] \/ DirOf[h] = d) BY <1>4 DEF Stop, Crash, Ends
    <3> QED BY <3>1
  <2>3. \A h \in Handles : Verified(h)' => Verified(h) BY <2>1
  <2> QED BY <2>1, <2>2, <2>3
<1>5. CASE UNCHANGED vars BY <1>5 DEF vars
<1> QED BY <1>1, <1>2, <1>3, <1>4, <1>5 DEF Next

LEMMA StepInv == IInv /\ [Next]_vars => IInv'
BY TypeStep, ServerStep, AliasStep, ProbeStep, VerifiedStep, TimeStep DEF IInv

LEMMA Invariant == Spec => []IInv
BY InitInv, StepInv, PTL DEF Spec

\* Every variable keeps its type: no timeout runs below zero.
THEOREM EndpointTypes == Spec => []TypeOK
<1>1. IInv => TypeOK BY DEF IInv
<1> QED BY <1>1, Invariant, PTL

\* A handle that seekdb_open returned reaches the server of its own directory while that
\* server lives, and over the local endpoint never any other.  A TCP handle whose server
\* is gone may lead to the server that took its port.
THEOREM LeadsHome == Spec => []EndpointLeadsHome
<1>1. IInv => EndpointLeadsHome
  <2> SUFFICES ASSUME IInv, NEW h \in Handles, pc[h] = "open"
               PROVE  /\ ~Refused(h)
                      /\ ~gone[h] => LeadsTo(h) = {DirOf[h]}
                      /\ Transport(h) # "tcp" => LeadsTo(h) \subseteq {DirOf[h]}
    BY DEF EndpointLeadsHome
  <2> USE EndpointAssumption DEF IInv, TypeOK, Refused, LeadsTo, Transport
  <2>1. /\ windows => pipeName[h] \in Pipes /\ (tcp[h] # None => uuid[h] # None)
        /\ ~gone[h] =>
             /\ server[DirOf[h]] # "down"
             /\ windows => IF tcp[h] = None THEN pipe[DirOf[h]] = pipeName[h]
                           ELSE port[DirOf[h]] = tcp[h]
    BY DEF VerifiedInv, Verified, Reachable
  <2>3. CASE ~windows
    <3>1. alias[h] # None /\ tmp[alias[h]] = DirOf[h] BY <2>3 DEF AliasInv, Pins
    <3>2. LeadsTo(h) = {d \in {tmp[alias[h]]} : d \in Dirs /\ server[d] # "down"}
      BY <2>3 DEF Reachable
    <3> QED BY <2>1, <2>3, <3>1, <3>2
  <2>4. CASE windows /\ tcp[h] = None
    <3>1. LeadsTo(h) = {d \in {DirOf[h]} : pipe[d] = pipeName[h]} BY <2>4
    <3> QED BY <2>1, <2>4, <3>1
  <2>5. CASE windows /\ tcp[h] # None
    <3>1. LeadsTo(h) = {d \in Dirs : port[d] = tcp[h]} BY <2>5 DEF At
    <3>2. ~gone[h] => LeadsTo(h) = {DirOf[h]} BY <2>1, <2>5, <3>1 DEF ServerInv
    <3> QED BY <2>1, <2>5, <3>2
  <2> QED BY <2>3, <2>4, <2>5
<1> QED BY <1>1, Invariant, PTL

\* A probe reports that nobody is there only if, at some moment of it, nobody was, or if
\* the connector gave up on the local endpoint of the server that was.
THEOREM Found == Spec => []OwnedIsFound
<1>1. IInv => OwnedIsFound BY DEF IInv, ProbeInv, OwnedIsFound
<1> QED BY <1>1, Invariant, PTL

\* For any timeouts, I/O that was begun ends before the deadline of seekdb_open.
THEOREM InTime == Spec => []IOEndsInTime
<1>1. IInv => IOEndsInTime BY DEF IInv
<1> QED BY <1>1, Invariant, PTL

\* No name is left under /tmp but by a killed application or a removal that failed, and
\* none is shared.
THEOREM Accounted == Spec => []AliasesAccounted
<1>1. IInv => AliasesAccounted BY DEF IInv, AliasInv, AliasesAccounted
<1> QED BY <1>1, Invariant, PTL
=============================================================================
