------------------------ MODULE SeekdbLifecycleProofs ------------------------
(* Theorems about SeekdbLifecycle for every set of openers, applications and  *)
(* process slots, every budget and every set of faults.                       *)
EXTENDS SeekdbLifecycle, TLAPS

\* Where a thread has seekdb.clients shared, and where it has seekdb.startup.
Pinned == {"probe1", "decide1", "startup", "probe2", "decide2", "spawn",
           "wait", "decideW", "unlock", "finish", "open"}
Critical == {"probe2", "decide2", "spawn", "wait", "decideW", "unlock"}

LockInv ==
  \A t \in Openers :
    /\ pc[t] \in Pinned => t \in clientsSH
    /\ t \in clientsSH => pc[t] \in Pinned \cup {"cleanup", "destroy"}
    /\ pc[t] \in Critical => startupEX = {t}
    /\ t \in startupEX => pc[t] \in Critical \cup {"cleanup"} /\ t \in clientsSH

\* A server past the seekdb.pid race owns the directory; one that stops has the
\* clients lock to itself.
ServerInv ==
  /\ \A s \in Servers :
       /\ server[s] \in {"booting", "listening", "serving", "stopping"} => pidOwner = s
       /\ server[s] = "stopping" => clientsEX = s
  /\ clientsEX # NoServer => clientsSH = {}

\* What the locals of seekdb_open are where.
LocalInv ==
  \A t \in Openers :
    /\ spawned[t] # NoServer => pc[t] \in {"wait", "decideW", "unlock", "finish"}
    /\ waitRc[t] # "none" <=> pc[t] \in {"unlock", "finish"}
    /\ waitRc[t] = "died" => spawned[t] = NoServer
    /\ probe[t] = "VERIFIED" => pc[t] \in {"decide1", "decide2", "decideW"}

FoundInv ==
  \A t \in Openers :
    /\ found[t] # NoServer => t \in clientsSH /\ server[found[t]] = "serving"
    /\ pc[t] = "open" \/ probe[t] = "VERIFIED" \/ waitRc[t] = "ready"
         => found[t] # NoServer \/ "servercrash" \in Faults

\* While the discipline holds, a hidden server is the child of the thread that
\* holds the startup lock ...
HiddenHeld ==
  \A s \in Servers : Hidden(s) =>
    \E t \in Openers : spawned[t] = s /\ pc[t] \in {"wait", "decideW", "unlock"}

\* ... until that thread knows that it answers ...
AnswerSeen ==
  \A t \in Openers, s \in Servers :
    (probe[t] = "VERIFIED" \/ waitRc[t] = "ready") /\ spawned[t] = s => ~Hidden(s)

\* ... and a thread about to spawn knows that there is no server.
AloneToSpawn ==
  \A t \in Openers :
    pc[t] = "spawn" \/ (pc[t] = "decide2" /\ probe[t] = "NOT_FOUND")
      => \A s \in Servers : ~Live(s)

OneLive == \A s1, s2 \in Servers : Live(s1) /\ Live(s2) => s1 = s2

SpawnInv == ~breach => HiddenHeld /\ AnswerSeen /\ AloneToSpawn /\ OneLive

\* While the discipline holds, whoever seeds a directory finds it empty.
SeedInv ==
  ~breach =>
    /\ \A t \in Openers : pc[t] = "spawn" /\ firstInit[t] => ~sstable
    /\ \A s \in Servers : Hidden(s) /\ seeded[s] => ~sstable

IInv == /\ TypeOK /\ LockInv /\ ServerInv /\ LocalInv /\ ProcessOwned
        /\ FoundInv /\ SpawnInv /\ SeedInv

-----------------------------------------------------------------------------
(* Types                                                                   *)

\* Every variable starts in its type.
LEMMA InitTypes == Init => TypeOK
<1> USE OpenersAssumption, BudgetAssumption
    DEF TypeOK, OpeningTypes, SharedTypes, ProcessTypes, PC, ProbeResult, ServerState, vars, opening, locks, book, procs, history
<1>1. Init => OpeningTypes
  BY DEF Init
<1>2. Init => SharedTypes
  BY DEF Init
<1>3. Init => ProcessTypes
  <2>1. Init => breach \in BOOLEAN
    BY DEF Init
  <2>2. Init => seeded \in [Servers -> BOOLEAN] /\ sstable \in BOOLEAN
    BY DEF Init
  <2>3. Init => /\ server \in [Servers -> ServerState]
                /\ parent \in [Servers -> Apps \cup {NoApp}]
                /\ pidOwner \in Servers \cup {NoServer}
                /\ found \in [Openers -> Servers \cup {NoServer}]
    BY DEF Init
  <2>4. QED
    BY <2>1, <2>2, <2>3
<1>4. QED
  BY <1>1, <1>2, <1>3

\* Each step keeps every variable in its type.
LEMMA TypeStep == TypeOK /\ [Next]_vars => TypeOK'
<1> USE OpenersAssumption, BudgetAssumption
    DEF TypeOK, OpeningTypes, SharedTypes, ProcessTypes, PC, ProbeResult, ServerState, vars, opening, locks, book, procs, history
<1> SUFFICES ASSUME TypeOK, [Next]_vars PROVE TypeOK'
  OBVIOUS
<1>1. ASSUME NEW t \in Openers, Open(t) PROVE TypeOK'
  BY <1>1 DEF Open, Goto
<1>2. ASSUME NEW t \in Openers, LockTimeout(t) PROVE TypeOK'
  BY <1>2 DEF LockTimeout, deadline_reached
<1>3. ASSUME NEW t \in Openers, AcquireClients(t) PROVE TypeOK'
  BY <1>3 DEF AcquireClients, Goto, deadline_reached
<1>4. ASSUME NEW t \in Openers, ProbeFast(t) PROVE TypeOK'
  BY <1>4 DEF ProbeFast, Goto, ProbeServer
<1>5. ASSUME NEW t \in Openers, DecideFast(t) PROVE TypeOK'
  BY <1>5 DEF DecideFast, Succeed, Verified
<1>6. ASSUME NEW t \in Openers, AcquireStartup(t) PROVE TypeOK'
  BY <1>6 DEF AcquireStartup, Goto
<1>7. ASSUME NEW t \in Openers, ProbeLocked(t) PROVE TypeOK'
  BY <1>7 DEF ProbeLocked, Goto, ProbeServer
<1>8. ASSUME NEW t \in Openers, DecideLocked(t) PROVE TypeOK'
  <2>1. OpeningTypes'
    <3>1. first_init \in BOOLEAN
      BY DEF first_init
    <3>2. firstInit' = firstInit \/ firstInit' = [firstInit EXCEPT ![t] = first_init]
      BY <1>8 DEF DecideLocked
    <3>3. (firstInit \in [Openers -> BOOLEAN])'
      BY <3>1, <3>2
    <3>4. (pc \in [Openers -> PC])'
      BY <1>8 DEF DecideLocked, Succeed
    <3>5. (left \in [Openers -> 0..ReadyTimeout])'
      BY <1>8 DEF DecideLocked, Succeed
    <3>6. QED
      BY <1>8, <3>3, <3>4, <3>5 DEF DecideLocked
  <2>2. SharedTypes'
    BY <1>8 DEF DecideLocked, Succeed, Verified, first_init
  <2>3. ProcessTypes'
    BY <1>8 DEF DecideLocked, Succeed, Verified, first_init
  <2>4. QED
    BY <2>1, <2>2, <2>3 DEF TypeOK
<1>9. ASSUME NEW t \in Openers, Spawn(t) PROVE TypeOK'
  BY <1>9 DEF Spawn, Goto
<1>10. ASSUME NEW t \in Openers, SpawnFails(t) PROVE TypeOK'
  BY <1>10 DEF SpawnFails, Goto
<1>11. ASSUME NEW t \in Openers, WaitProbe(t) PROVE TypeOK'
  <2>1. OpeningTypes'
    BY <1>11 DEF WaitProbe, ProbeServer
  <2>2. SharedTypes'
    BY <1>11 DEF WaitProbe, ProbeServer
  <2>3. ProcessTypes'
    <3>1. (breach \in BOOLEAN)'
      BY <1>11 DEF WaitProbe, ProbeServer
    <3>2. (found \in [Openers -> Servers \cup {NoServer}])'
      BY <1>11 DEF WaitProbe, ProbeServer
    <3>3. QED
      BY <1>11, <3>1, <3>2 DEF WaitProbe
  <2>4. QED
    BY <2>1, <2>2, <2>3 DEF TypeOK
<1>12. ASSUME NEW t \in Openers, WaitDecide(t) PROVE TypeOK'
  BY <1>12 DEF WaitDecide, Dead
<1>13. ASSUME NEW t \in Openers, ReleaseStartup(t) PROVE TypeOK'
  BY <1>13 DEF ReleaseStartup, Goto
<1>14. ASSUME NEW t \in Openers, Finish(t) PROVE TypeOK'
  <2>1. OpeningTypes'
    BY <1>14 DEF Finish, Succeed, SpawnedAdd
  <2>2. SharedTypes'
    BY <1>14 DEF Finish, Succeed, SpawnedAdd
  <2>3. ProcessTypes'
    BY <1>14 DEF Finish, Succeed, SpawnedAdd
  <2>4. QED
    BY <2>1, <2>2, <2>3 DEF TypeOK
<1>15. ASSUME NEW t \in Openers, Cleanup(t) PROVE TypeOK'
  BY <1>15 DEF Cleanup, Goto
<1>16. ASSUME NEW t \in Openers, Destroy(t) PROVE TypeOK'
  BY <1>16 DEF Destroy, Goto, destroy_handle, Forget
<1>17. ASSUME NEW t \in Openers, Close(t) PROVE TypeOK'
  BY <1>17 DEF Close, Goto, destroy_handle, Forget
<1>18. CASE Tick
  BY <1>18 DEF Tick
<1>19. ASSUME NEW a \in Apps, NEW s \in Servers, Reap(a, s) PROVE TypeOK'
  BY <1>19 DEF Reap
<1>20. ASSUME NEW a \in Apps, AppCrash(a) PROVE TypeOK'
  <2>1. OpeningTypes'
    <3>1. (firstInit \in [Openers -> BOOLEAN])'
      BY <1>20 DEF AppCrash
    <3>2. (pc \in [Openers -> PC] /\ left \in [Openers -> 0..ReadyTimeout])'
      BY <1>20 DEF AppCrash
    <3>3. (/\ probe \in [Openers -> ProbeResult]
           /\ spawned \in [Openers -> Servers \cup {NoServer}]
           /\ waitRc \in [Openers -> {"none", "ready", "died", "timeout"}])'
      BY <1>20 DEF AppCrash
    <3>4. QED
      BY <3>1, <3>2, <3>3
  <2>2. SharedTypes'
    BY <1>20 DEF AppCrash
  <2>3. ProcessTypes'
    BY <1>20 DEF AppCrash
  <2>4. QED
    BY <2>1, <2>2, <2>3 DEF TypeOK
<1>21. ASSUME NEW s \in Servers, ServerTakesPid(s) PROVE TypeOK'
  BY <1>21 DEF ServerTakesPid, Becomes
<1>22. ASSUME NEW s \in Servers, ServerLosesPid(s) PROVE TypeOK'
  BY <1>22 DEF ServerLosesPid, Exit
<1>23. ASSUME NEW s \in Servers, ServerBoots(s) PROVE TypeOK'
  BY <1>23 DEF ServerBoots, Becomes
<1>24. ASSUME NEW s \in Servers, ServerServes(s) PROVE TypeOK'
  BY <1>24 DEF ServerServes, Becomes
<1>25. ASSUME NEW s \in Servers, ServerStops(s) PROVE TypeOK'
  BY <1>25 DEF ServerStops, Becomes
<1>26. ASSUME NEW s \in Servers, ServerExits(s) PROVE TypeOK'
  BY <1>26 DEF ServerExits, Exit
<1>27. ASSUME NEW s \in Servers, ServerCrash(s) PROVE TypeOK'
  BY <1>27 DEF ServerCrash, Exit
<1>28. CASE UNCHANGED vars
  BY <1>28
<1>29. QED
  BY <1>1, <1>2, <1>3, <1>4, <1>5, <1>6, <1>7, <1>8, <1>9, <1>10, <1>11, <1>12, <1>13, <1>14, <1>15, <1>16, <1>17, <1>18, <1>19, <1>20, <1>21, <1>22, <1>23, <1>24, <1>25, <1>26, <1>27, <1>28 DEF Next, OpenStep, ServerStep

\* Every variable keeps its type: in particular no deadline arithmetic wraps.
THEOREM TypeCorrect == Spec => []TypeOK
<1>1. QED
  BY InitTypes, TypeStep, PTL DEF Spec

-----------------------------------------------------------------------------
(* The two lifecycle locks                                                 *)

\* Each step leaves the locks with the threads whose control is inside them.
LEMMA LockStep == TypeOK /\ LockInv /\ [Next]_vars => LockInv'
<1> SUFFICES ASSUME TypeOK, LockInv, [Next]_vars PROVE LockInv'
  OBVIOUS
<1> pc \in [Openers -> PC] /\ clientsSH \subseteq Openers /\ startupEX \subseteq Openers
  BY DEF TypeOK, OpeningTypes, SharedTypes
<1> USE DEF LockInv, Pinned, Critical, PC, vars, opening, locks, book, procs, history
<1>1. ASSUME NEW t \in Openers, Open(t) PROVE LockInv'
  BY <1>1 DEF Open, Goto
<1>2. ASSUME NEW t \in Openers, LockTimeout(t) PROVE LockInv'
  BY <1>2 DEF LockTimeout
<1>3. ASSUME NEW t \in Openers, AcquireClients(t) PROVE LockInv'
  BY <1>3 DEF AcquireClients, Goto
<1>4. ASSUME NEW t \in Openers, ProbeFast(t) PROVE LockInv'
  BY <1>4 DEF ProbeFast, Goto
<1>5. ASSUME NEW t \in Openers, DecideFast(t) PROVE LockInv'
  BY <1>5 DEF DecideFast, Succeed
<1>6. ASSUME NEW t \in Openers, AcquireStartup(t) PROVE LockInv'
  BY <1>6 DEF AcquireStartup, Goto
<1>7. ASSUME NEW t \in Openers, ProbeLocked(t) PROVE LockInv'
  BY <1>7 DEF ProbeLocked, Goto
<1>8. ASSUME NEW t \in Openers, DecideLocked(t) PROVE LockInv'
  BY <1>8 DEF DecideLocked, Succeed
<1>9. ASSUME NEW t \in Openers, Spawn(t) PROVE LockInv'
  BY <1>9 DEF Spawn, Goto
<1>10. ASSUME NEW t \in Openers, SpawnFails(t) PROVE LockInv'
  BY <1>10 DEF SpawnFails, Goto
<1>11. ASSUME NEW t \in Openers, WaitProbe(t) PROVE LockInv'
  BY <1>11 DEF WaitProbe
<1>12. ASSUME NEW t \in Openers, WaitDecide(t) PROVE LockInv'
  BY <1>12 DEF WaitDecide
<1>13. ASSUME NEW t \in Openers, ReleaseStartup(t) PROVE LockInv'
  BY <1>13 DEF ReleaseStartup, Goto
<1>14. ASSUME NEW t \in Openers, Finish(t) PROVE LockInv'
  BY <1>14 DEF Finish, Succeed, SpawnedAdd
<1>15. ASSUME NEW t \in Openers, Cleanup(t) PROVE LockInv'
  BY <1>15 DEF Cleanup, Goto
<1>16. ASSUME NEW t \in Openers, Destroy(t) PROVE LockInv'
  BY <1>16 DEF Destroy, Goto, destroy_handle, Forget
<1>17. ASSUME NEW t \in Openers, Close(t) PROVE LockInv'
  BY <1>17 DEF Close, Goto, destroy_handle, Forget
<1>18. CASE Tick
  BY <1>18 DEF Tick
<1>19. ASSUME NEW a \in Apps, NEW s \in Servers, Reap(a, s) PROVE LockInv'
  BY <1>19 DEF Reap
<1>20. ASSUME NEW a \in Apps, AppCrash(a) PROVE LockInv'
  BY <1>20 DEF AppCrash
<1>21. ASSUME NEW s \in Servers, ServerTakesPid(s) PROVE LockInv'
  BY <1>21 DEF ServerTakesPid, Becomes
<1>22. ASSUME NEW s \in Servers, ServerLosesPid(s) PROVE LockInv'
  BY <1>22 DEF ServerLosesPid, Exit
<1>23. ASSUME NEW s \in Servers, ServerBoots(s) PROVE LockInv'
  BY <1>23 DEF ServerBoots, Becomes
<1>24. ASSUME NEW s \in Servers, ServerServes(s) PROVE LockInv'
  BY <1>24 DEF ServerServes, Becomes
<1>25. ASSUME NEW s \in Servers, ServerStops(s) PROVE LockInv'
  BY <1>25 DEF ServerStops, Becomes
<1>26. ASSUME NEW s \in Servers, ServerExits(s) PROVE LockInv'
  BY <1>26 DEF ServerExits, Exit
<1>27. ASSUME NEW s \in Servers, ServerCrash(s) PROVE LockInv'
  BY <1>27 DEF ServerCrash, Exit
<1>28. CASE UNCHANGED vars
  BY <1>28
<1>29. QED
  BY <1>1, <1>2, <1>3, <1>4, <1>5, <1>6, <1>7, <1>8, <1>9, <1>10, <1>11, <1>12, <1>13, <1>14, <1>15, <1>16, <1>17, <1>18, <1>19, <1>20, <1>21, <1>22, <1>23, <1>24, <1>25, <1>26, <1>27, <1>28 DEF Next, OpenStep, ServerStep

-----------------------------------------------------------------------------
(* Servers and locals                                                      *)

\* Each step leaves the owner of the directory and the holder of the exclusive
\* clients lock agreeing with the states of the servers.
LEMMA ServerStepInv == TypeOK /\ ServerInv /\ [Next]_vars => ServerInv'
<1> SUFFICES ASSUME TypeOK, ServerInv, [Next]_vars PROVE ServerInv'
  OBVIOUS
<1> /\ server \in [Servers -> ServerState] /\ NoServer \notin Servers
    /\ spawned \in [Openers -> Servers \cup {NoServer}]
  BY OpenersAssumption DEF TypeOK, OpeningTypes, ProcessTypes
<1> USE DEF ServerInv, ServerState, vars, opening, locks, book, procs, history
<1>1. ASSUME NEW t \in Openers, Open(t) PROVE ServerInv'
  BY <1>1 DEF Open, Goto
<1>2. ASSUME NEW t \in Openers, LockTimeout(t) PROVE ServerInv'
  BY <1>2 DEF LockTimeout
<1>3. ASSUME NEW t \in Openers, AcquireClients(t) PROVE ServerInv'
  BY <1>3 DEF AcquireClients, Goto
<1>4. ASSUME NEW t \in Openers, ProbeFast(t) PROVE ServerInv'
  BY <1>4 DEF ProbeFast, Goto
<1>5. ASSUME NEW t \in Openers, DecideFast(t) PROVE ServerInv'
  BY <1>5 DEF DecideFast, Succeed
<1>6. ASSUME NEW t \in Openers, AcquireStartup(t) PROVE ServerInv'
  BY <1>6 DEF AcquireStartup, Goto
<1>7. ASSUME NEW t \in Openers, ProbeLocked(t) PROVE ServerInv'
  BY <1>7 DEF ProbeLocked, Goto
<1>8. ASSUME NEW t \in Openers, DecideLocked(t) PROVE ServerInv'
  BY <1>8 DEF DecideLocked, Succeed
<1>9. ASSUME NEW t \in Openers, Spawn(t) PROVE ServerInv'
  BY <1>9 DEF Spawn, Goto
<1>10. ASSUME NEW t \in Openers, SpawnFails(t) PROVE ServerInv'
  BY <1>10 DEF SpawnFails, Goto
<1>11. ASSUME NEW t \in Openers, WaitProbe(t) PROVE ServerInv'
  BY <1>11 DEF WaitProbe
<1>12. ASSUME NEW t \in Openers, WaitDecide(t) PROVE ServerInv'
  BY <1>12 DEF WaitDecide, Dead
<1>13. ASSUME NEW t \in Openers, ReleaseStartup(t) PROVE ServerInv'
  BY <1>13 DEF ReleaseStartup, Goto
<1>14. ASSUME NEW t \in Openers, Finish(t) PROVE ServerInv'
  BY <1>14 DEF Finish, Succeed, SpawnedAdd
<1>15. ASSUME NEW t \in Openers, Cleanup(t) PROVE ServerInv'
  BY <1>15 DEF Cleanup, Goto
<1>16. ASSUME NEW t \in Openers, Destroy(t) PROVE ServerInv'
  BY <1>16 DEF Destroy, Goto, destroy_handle, Forget
<1>17. ASSUME NEW t \in Openers, Close(t) PROVE ServerInv'
  BY <1>17 DEF Close, Goto, destroy_handle, Forget
<1>18. CASE Tick
  BY <1>18 DEF Tick
<1>19. ASSUME NEW a \in Apps, NEW s \in Servers, Reap(a, s) PROVE ServerInv'
  BY <1>19 DEF Reap
<1>20. ASSUME NEW a \in Apps, AppCrash(a) PROVE ServerInv'
  BY <1>20 DEF AppCrash
<1>21. ASSUME NEW s \in Servers, ServerTakesPid(s) PROVE ServerInv'
  BY <1>21 DEF ServerTakesPid, Becomes
<1>22. ASSUME NEW s \in Servers, ServerLosesPid(s) PROVE ServerInv'
  BY <1>22 DEF ServerLosesPid, Exit
<1>23. ASSUME NEW s \in Servers, ServerBoots(s) PROVE ServerInv'
  BY <1>23 DEF ServerBoots, Becomes
<1>24. ASSUME NEW s \in Servers, ServerServes(s) PROVE ServerInv'
  BY <1>24 DEF ServerServes, Becomes
<1>25. ASSUME NEW s \in Servers, ServerStops(s) PROVE ServerInv'
  BY <1>25 DEF ServerStops, Becomes
<1>26. ASSUME NEW s \in Servers, ServerExits(s) PROVE ServerInv'
  BY <1>26 DEF ServerExits, Exit
<1>27. ASSUME NEW s \in Servers, ServerCrash(s) PROVE ServerInv'
  BY <1>27 DEF ServerCrash, Exit, Live
<1>28. CASE UNCHANGED vars
  BY <1>28
<1>29. QED
  BY <1>1, <1>2, <1>3, <1>4, <1>5, <1>6, <1>7, <1>8, <1>9, <1>10, <1>11, <1>12, <1>13, <1>14, <1>15, <1>16, <1>17, <1>18, <1>19, <1>20, <1>21, <1>22, <1>23, <1>24, <1>25, <1>26, <1>27, <1>28 DEF Next, OpenStep, ServerStep

\* Each step leaves the locals of seekdb_open at rest outside their stretch.
LEMMA LocalStep == TypeOK /\ LocalInv /\ [Next]_vars => LocalInv'
<1> SUFFICES ASSUME TypeOK, LocalInv, [Next]_vars PROVE LocalInv'
  OBVIOUS
<1> /\ pc \in [Openers -> PC] /\ probe \in [Openers -> ProbeResult]
    /\ spawned \in [Openers -> Servers \cup {NoServer}]
    /\ waitRc \in [Openers -> {"none", "ready", "died", "timeout"}]
  BY DEF TypeOK, OpeningTypes
<1> USE DEF LocalInv, PC, ProbeResult, vars, opening, locks, book, procs, history
<1>1. ASSUME NEW t \in Openers, Open(t) PROVE LocalInv'
  BY <1>1 DEF Open, Goto
<1>2. ASSUME NEW t \in Openers, LockTimeout(t) PROVE LocalInv'
  BY <1>2 DEF LockTimeout
<1>3. ASSUME NEW t \in Openers, AcquireClients(t) PROVE LocalInv'
  BY <1>3 DEF AcquireClients, Goto
<1>4. ASSUME NEW t \in Openers, ProbeFast(t) PROVE LocalInv'
  BY <1>4 DEF ProbeFast, Goto, ProbeServer
<1>5. ASSUME NEW t \in Openers, DecideFast(t) PROVE LocalInv'
  BY <1>5 DEF DecideFast, Succeed
<1>6. ASSUME NEW t \in Openers, AcquireStartup(t) PROVE LocalInv'
  BY <1>6 DEF AcquireStartup, Goto
<1>7. ASSUME NEW t \in Openers, ProbeLocked(t) PROVE LocalInv'
  BY <1>7 DEF ProbeLocked, Goto, ProbeServer
<1>8. ASSUME NEW t \in Openers, DecideLocked(t) PROVE LocalInv'
  BY <1>8 DEF DecideLocked, Succeed
<1>9. ASSUME NEW t \in Openers, Spawn(t) PROVE LocalInv'
  BY <1>9 DEF Spawn, Goto
<1>10. ASSUME NEW t \in Openers, SpawnFails(t) PROVE LocalInv'
  BY <1>10 DEF SpawnFails, Goto
<1>11. ASSUME NEW t \in Openers, WaitProbe(t) PROVE LocalInv'
  BY <1>11 DEF WaitProbe, ProbeServer
<1>12. ASSUME NEW t \in Openers, WaitDecide(t) PROVE LocalInv'
  BY <1>12 DEF WaitDecide
<1>13. ASSUME NEW t \in Openers, ReleaseStartup(t) PROVE LocalInv'
  BY <1>13 DEF ReleaseStartup, Goto
<1>14. ASSUME NEW t \in Openers, Finish(t) PROVE LocalInv'
  BY <1>14 DEF Finish, Succeed, SpawnedAdd
<1>15. ASSUME NEW t \in Openers, Cleanup(t) PROVE LocalInv'
  BY <1>15 DEF Cleanup, Goto
<1>16. ASSUME NEW t \in Openers, Destroy(t) PROVE LocalInv'
  BY <1>16 DEF Destroy, Goto, destroy_handle, Forget
<1>17. ASSUME NEW t \in Openers, Close(t) PROVE LocalInv'
  BY <1>17 DEF Close, Goto, destroy_handle, Forget
<1>18. CASE Tick
  BY <1>18 DEF Tick
<1>19. ASSUME NEW a \in Apps, NEW s \in Servers, Reap(a, s) PROVE LocalInv'
  BY <1>19 DEF Reap
<1>20. ASSUME NEW a \in Apps, AppCrash(a) PROVE LocalInv'
  BY <1>20 DEF AppCrash
<1>21. ASSUME NEW s \in Servers, ServerTakesPid(s) PROVE LocalInv'
  BY <1>21 DEF ServerTakesPid, Becomes
<1>22. ASSUME NEW s \in Servers, ServerLosesPid(s) PROVE LocalInv'
  BY <1>22 DEF ServerLosesPid, Exit
<1>23. ASSUME NEW s \in Servers, ServerBoots(s) PROVE LocalInv'
  BY <1>23 DEF ServerBoots, Becomes
<1>24. ASSUME NEW s \in Servers, ServerServes(s) PROVE LocalInv'
  BY <1>24 DEF ServerServes, Becomes
<1>25. ASSUME NEW s \in Servers, ServerStops(s) PROVE LocalInv'
  BY <1>25 DEF ServerStops, Becomes
<1>26. ASSUME NEW s \in Servers, ServerExits(s) PROVE LocalInv'
  BY <1>26 DEF ServerExits, Exit
<1>27. ASSUME NEW s \in Servers, ServerCrash(s) PROVE LocalInv'
  BY <1>27 DEF ServerCrash, Exit
<1>28. CASE UNCHANGED vars
  BY <1>28
<1>29. QED
  BY <1>1, <1>2, <1>3, <1>4, <1>5, <1>6, <1>7, <1>8, <1>9, <1>10, <1>11, <1>12, <1>13, <1>14, <1>15, <1>16, <1>17, <1>18, <1>19, <1>20, <1>21, <1>22, <1>23, <1>24, <1>25, <1>26, <1>27, <1>28 DEF Next, OpenStep, ServerStep

-----------------------------------------------------------------------------
(* Process records                                                         *)

\* Each step leaves a process slot with the one record that will be waited for.
LEMMA OwnStep == TypeOK /\ ProcessOwned /\ [Next]_vars => ProcessOwned'
<1> SUFFICES ASSUME TypeOK, ProcessOwned, [Next]_vars PROVE ProcessOwned'
  OBVIOUS
<1> /\ spawned \in [Openers -> Servers \cup {NoServer}] /\ NoServer \notin Servers
    /\ server \in [Servers -> ServerState]
    /\ parent \in [Servers -> Apps \cup {NoApp}] /\ NoApp \notin Apps
    /\ list \in [Apps -> SUBSET Servers] /\ AppOf \in [Openers -> Apps]
  BY OpenersAssumption DEF TypeOK, OpeningTypes, SharedTypes, ProcessTypes
<1> USE DEF ProcessOwned, ServerState, vars, opening, locks, book, procs, history
<1>1. ASSUME NEW t \in Openers, Open(t) PROVE ProcessOwned'
  BY <1>1 DEF Open, Goto
<1>2. ASSUME NEW t \in Openers, LockTimeout(t) PROVE ProcessOwned'
  BY <1>2 DEF LockTimeout
<1>3. ASSUME NEW t \in Openers, AcquireClients(t) PROVE ProcessOwned'
  BY <1>3 DEF AcquireClients, Goto
<1>4. ASSUME NEW t \in Openers, ProbeFast(t) PROVE ProcessOwned'
  BY <1>4 DEF ProbeFast, Goto
<1>5. ASSUME NEW t \in Openers, DecideFast(t) PROVE ProcessOwned'
  BY <1>5 DEF DecideFast, Succeed
<1>6. ASSUME NEW t \in Openers, AcquireStartup(t) PROVE ProcessOwned'
  BY <1>6 DEF AcquireStartup, Goto
<1>7. ASSUME NEW t \in Openers, ProbeLocked(t) PROVE ProcessOwned'
  BY <1>7 DEF ProbeLocked, Goto
<1>8. ASSUME NEW t \in Openers, DecideLocked(t) PROVE ProcessOwned'
  BY <1>8 DEF DecideLocked, Succeed
<1>9. ASSUME NEW t \in Openers, Spawn(t) PROVE ProcessOwned'
  BY <1>9 DEF Spawn, Goto
<1>10. ASSUME NEW t \in Openers, SpawnFails(t) PROVE ProcessOwned'
  BY <1>10 DEF SpawnFails, Goto
<1>11. ASSUME NEW t \in Openers, WaitProbe(t) PROVE ProcessOwned'
  BY <1>11 DEF WaitProbe
<1>12. ASSUME NEW t \in Openers, WaitDecide(t) PROVE ProcessOwned'
  BY <1>12 DEF WaitDecide, Dead
<1>13. ASSUME NEW t \in Openers, ReleaseStartup(t) PROVE ProcessOwned'
  BY <1>13 DEF ReleaseStartup, Goto
<1>14. ASSUME NEW t \in Openers, Finish(t) PROVE ProcessOwned'
  BY <1>14 DEF Finish, Succeed, SpawnedAdd
<1>15. ASSUME NEW t \in Openers, Cleanup(t) PROVE ProcessOwned'
  BY <1>15 DEF Cleanup, Goto
<1>16. ASSUME NEW t \in Openers, Destroy(t) PROVE ProcessOwned'
  BY <1>16 DEF Destroy, Goto, destroy_handle, Forget
<1>17. ASSUME NEW t \in Openers, Close(t) PROVE ProcessOwned'
  BY <1>17 DEF Close, Goto, destroy_handle, Forget
<1>18. CASE Tick
  BY <1>18 DEF Tick
<1>19. ASSUME NEW a \in Apps, NEW s \in Servers, Reap(a, s) PROVE ProcessOwned'
  BY <1>19 DEF Reap
<1>20. ASSUME NEW a \in Apps, AppCrash(a) PROVE ProcessOwned'
  BY <1>20 DEF AppCrash
<1>21. ASSUME NEW s \in Servers, ServerTakesPid(s) PROVE ProcessOwned'
  BY <1>21 DEF ServerTakesPid, Becomes
<1>22. ASSUME NEW s \in Servers, ServerLosesPid(s) PROVE ProcessOwned'
  BY <1>22 DEF ServerLosesPid, Exit
<1>23. ASSUME NEW s \in Servers, ServerBoots(s) PROVE ProcessOwned'
  BY <1>23 DEF ServerBoots, Becomes
<1>24. ASSUME NEW s \in Servers, ServerServes(s) PROVE ProcessOwned'
  BY <1>24 DEF ServerServes, Becomes
<1>25. ASSUME NEW s \in Servers, ServerStops(s) PROVE ProcessOwned'
  BY <1>25 DEF ServerStops, Becomes
<1>26. ASSUME NEW s \in Servers, ServerExits(s) PROVE ProcessOwned'
  BY <1>26 DEF ServerExits, Exit
<1>27. ASSUME NEW s \in Servers, ServerCrash(s) PROVE ProcessOwned'
  BY <1>27 DEF ServerCrash, Exit
<1>28. CASE UNCHANGED vars
  BY <1>28
<1>29. QED
  BY <1>1, <1>2, <1>3, <1>4, <1>5, <1>6, <1>7, <1>8, <1>9, <1>10, <1>11, <1>12, <1>13, <1>14, <1>15, <1>16, <1>17, <1>18, <1>19, <1>20, <1>21, <1>22, <1>23, <1>24, <1>25, <1>26, <1>27, <1>28 DEF Next, OpenStep, ServerStep

\* Each step leaves a verified server pinned by the thread that verified it.
LEMMA FoundStep ==
  TypeOK /\ LockInv /\ ServerInv /\ LocalInv /\ FoundInv /\ [Next]_vars => FoundInv'
<1> SUFFICES ASSUME TypeOK, LockInv, ServerInv, LocalInv, FoundInv, [Next]_vars
             PROVE FoundInv'
  OBVIOUS
<1> /\ pc \in [Openers -> PC] /\ probe \in [Openers -> ProbeResult]
    /\ spawned \in [Openers -> Servers \cup {NoServer}] /\ NoServer \notin Servers
    /\ waitRc \in [Openers -> {"none", "ready", "died", "timeout"}]
    /\ clientsSH \subseteq Openers /\ server \in [Servers -> ServerState]
    /\ found \in [Openers -> Servers \cup {NoServer}]
    /\ pidOwner \in Servers \cup {NoServer}
  BY OpenersAssumption DEF TypeOK, OpeningTypes, SharedTypes, ProcessTypes
<1> USE DEF LockInv, LocalInv, FoundInv, Pinned, Critical, PC, ProbeResult, ServerState, vars, opening, locks, book, procs, history
<1>1. ASSUME NEW t \in Openers, Open(t) PROVE FoundInv'
  BY <1>1 DEF Open, Goto
<1>2. ASSUME NEW t \in Openers, LockTimeout(t) PROVE FoundInv'
  BY <1>2 DEF LockTimeout
<1>3. ASSUME NEW t \in Openers, AcquireClients(t) PROVE FoundInv'
  BY <1>3 DEF AcquireClients, Goto
<1>4. ASSUME NEW t \in Openers, ProbeFast(t) PROVE FoundInv'
  BY <1>4 DEF ProbeFast, Goto, ProbeServer, ProbeOutcomes, Reachable
<1>5. ASSUME NEW t \in Openers, DecideFast(t) PROVE FoundInv'
  BY <1>5 DEF DecideFast, Succeed, Verified
<1>6. ASSUME NEW t \in Openers, AcquireStartup(t) PROVE FoundInv'
  BY <1>6 DEF AcquireStartup, Goto
<1>7. ASSUME NEW t \in Openers, ProbeLocked(t) PROVE FoundInv'
  BY <1>7 DEF ProbeLocked, Goto, ProbeServer, ProbeOutcomes, Reachable
<1>8. ASSUME NEW t \in Openers, DecideLocked(t) PROVE FoundInv'
  BY <1>8 DEF DecideLocked, Succeed, Verified
<1>9. ASSUME NEW t \in Openers, Spawn(t) PROVE FoundInv'
  BY <1>9 DEF Spawn, Goto
<1>10. ASSUME NEW t \in Openers, SpawnFails(t) PROVE FoundInv'
  BY <1>10 DEF SpawnFails, Goto
<1>11. ASSUME NEW t \in Openers, WaitProbe(t) PROVE FoundInv'
  BY <1>11 DEF WaitProbe, ProbeServer, ProbeOutcomes, Reachable
<1>12. ASSUME NEW t \in Openers, WaitDecide(t) PROVE FoundInv'
  BY <1>12 DEF WaitDecide, Verified, Dead
<1>13. ASSUME NEW t \in Openers, ReleaseStartup(t) PROVE FoundInv'
  BY <1>13 DEF ReleaseStartup, Goto
<1>14. ASSUME NEW t \in Openers, Finish(t) PROVE FoundInv'
  BY <1>14 DEF Finish, Succeed, SpawnedAdd
<1>15. ASSUME NEW t \in Openers, Cleanup(t) PROVE FoundInv'
  BY <1>15 DEF Cleanup, Goto
<1>16. ASSUME NEW t \in Openers, Destroy(t) PROVE FoundInv'
  BY <1>16 DEF Destroy, Goto, destroy_handle, Forget
<1>17. ASSUME NEW t \in Openers, Close(t) PROVE FoundInv'
  BY <1>17 DEF Close, Goto, destroy_handle, Forget
<1>18. CASE Tick
  BY <1>18 DEF Tick
<1>19. ASSUME NEW a \in Apps, NEW s \in Servers, Reap(a, s) PROVE FoundInv'
  BY <1>19 DEF Reap
<1>20. ASSUME NEW a \in Apps, AppCrash(a) PROVE FoundInv'
  BY <1>20 DEF AppCrash
<1>21. ASSUME NEW s \in Servers, ServerTakesPid(s) PROVE FoundInv'
  BY <1>21 DEF ServerTakesPid, Becomes
<1>22. ASSUME NEW s \in Servers, ServerLosesPid(s) PROVE FoundInv'
  BY <1>22 DEF ServerLosesPid, Exit
<1>23. ASSUME NEW s \in Servers, ServerBoots(s) PROVE FoundInv'
  BY <1>23 DEF ServerBoots, Becomes
<1>24. ASSUME NEW s \in Servers, ServerServes(s) PROVE FoundInv'
  BY <1>24 DEF ServerServes, Becomes
<1>25. ASSUME NEW s \in Servers, ServerStops(s) PROVE FoundInv'
  BY <1>25 DEF ServerStops, Becomes
<1>26. ASSUME NEW s \in Servers, ServerExits(s) PROVE FoundInv'
  BY <1>26 DEF ServerExits, Exit
<1>27. ASSUME NEW s \in Servers, ServerCrash(s) PROVE FoundInv'
  BY <1>27 DEF ServerCrash, Exit, Live
<1>28. CASE UNCHANGED vars
  BY <1>28
<1>29. QED
  BY <1>1, <1>2, <1>3, <1>4, <1>5, <1>6, <1>7, <1>8, <1>9, <1>10, <1>11, <1>12, <1>13, <1>14, <1>15, <1>16, <1>17, <1>18, <1>19, <1>20, <1>21, <1>22, <1>23, <1>24, <1>25, <1>26, <1>27, <1>28 DEF Next, OpenStep, ServerStep

-----------------------------------------------------------------------------
(* One server per directory                                                *)

\* A probe that answers "not found" to the holder of both locks, without breach,
\* means that no server is alive; one that verifies means that none is hidden.
LEMMA ProbeTells ==
  ASSUME LockInv, ServerInv, HiddenHeld, OneLive, TypeOK,
         NEW t \in Openers, NEW r \in ProbeResult, ProbeServer(t, r)
  PROVE  /\ r = "VERIFIED" => \A s \in Servers : ~Hidden(s)
         /\ r = "NOT_FOUND" /\ pc[t] = "probe2" /\ ~breach' => \A s \in Servers : ~Live(s)
<1> /\ server \in [Servers -> ServerState] /\ NoServer \notin Servers
    /\ pidOwner \in Servers \cup {NoServer}
  BY OpenersAssumption DEF TypeOK, ProcessTypes
<1>1. r = "VERIFIED" => Reachable /\ server[pidOwner] = "serving"
  BY DEF ProbeServer, ProbeOutcomes
<1>2. r = "VERIFIED" => \A s \in Servers : ~Hidden(s)
  BY <1>1 DEF OneLive, Live, Hidden, Reachable, ServerState
<1>3. ASSUME r = "NOT_FOUND", pc[t] = "probe2", ~breach', NEW s \in Servers, Live(s)
      PROVE FALSE
  <2>1. ~Reachable
    BY <1>3 DEF ProbeServer
  <2>2. server[s] \notin {"listening", "serving"}
    BY <2>1 DEF ServerInv, Reachable
  <2>3. server[s] # "stopping"
    BY <1>3 DEF ServerInv, LockInv, Pinned
  <2>4. Hidden(s)
    BY <1>3, <2>2, <2>3 DEF Hidden, Live, ServerState
  <2>5. PICK u \in Openers : pc[u] \in {"wait", "decideW", "unlock"}
    BY <2>4 DEF HiddenHeld
  <2>6. startupEX = {t} /\ startupEX = {u}
    BY <1>3, <2>5 DEF LockInv, Critical
  <2>7. QED
    BY <1>3, <2>5, <2>6
<1>4. QED
  BY <1>2, <1>3

\* Each step leaves at most one live server, unless the discipline is left.
LEMMA SpawnStep ==
  TypeOK /\ LockInv /\ ServerInv /\ LocalInv /\ ProcessOwned /\ SpawnInv /\ [Next]_vars
    => SpawnInv'
<1> SUFFICES ASSUME TypeOK, LockInv, ServerInv, LocalInv, ProcessOwned, SpawnInv, [Next]_vars
             PROVE SpawnInv'
  OBVIOUS
<1> /\ pc \in [Openers -> PC] /\ probe \in [Openers -> ProbeResult]
    /\ spawned \in [Openers -> Servers \cup {NoServer}] /\ NoServer \notin Servers
    /\ waitRc \in [Openers -> {"none", "ready", "died", "timeout"}]
    /\ clientsSH \subseteq Openers /\ server \in [Servers -> ServerState]
    /\ clientsEX \in Servers \cup {NoServer}
    /\ pidOwner \in Servers \cup {NoServer} /\ startupEX \subseteq Openers
  BY OpenersAssumption DEF TypeOK, OpeningTypes, SharedTypes, ProcessTypes
<1> USE DEF LockInv, ServerInv, LocalInv, ProcessOwned, SpawnInv, HiddenHeld, AnswerSeen, AloneToSpawn, OneLive, Pinned, Critical, PC, ProbeResult, ServerState, vars, opening, locks, book, procs, history
<1>1. ASSUME NEW t \in Openers, Open(t) PROVE SpawnInv'
  BY <1>1 DEF Open, Goto, Hidden, Live
<1>2. ASSUME NEW t \in Openers, LockTimeout(t) PROVE SpawnInv'
  BY <1>2 DEF LockTimeout, Hidden, Live
<1>3. ASSUME NEW t \in Openers, AcquireClients(t) PROVE SpawnInv'
  BY <1>3 DEF AcquireClients, Goto, Hidden, Live
<1>4. ASSUME NEW t \in Openers, ProbeFast(t) PROVE SpawnInv'
  <2> SUFFICES ASSUME ~breach' PROVE HiddenHeld' /\ AnswerSeen' /\ AloneToSpawn' /\ OneLive'
    BY DEF SpawnInv
  <2>1. ~breach /\ HiddenHeld /\ AnswerSeen /\ AloneToSpawn /\ OneLive
    BY <1>4 DEF ProbeFast, Goto, ProbeServer, SpawnInv
  <2>2. PICK r \in ProbeResult : ProbeServer(t, r)
    BY <1>4 DEF ProbeFast
  <2>3. /\ r = "VERIFIED" => \A s \in Servers : ~Hidden(s)
        /\ r = "NOT_FOUND" /\ pc[t] = "probe2" => \A s \in Servers : ~Live(s)
    BY <2>1, <2>2, ProbeTells
  <2>4. /\ pc' = [pc EXCEPT ![t] = "decide1"] /\ pc[t] = "probe1"
        /\ probe' = [probe EXCEPT ![t] = r]
        /\ UNCHANGED <<server, spawned, waitRc>>
    BY <1>4, <2>2 DEF ProbeFast, Goto, ProbeServer, opening, locks, book, procs
  <2> HIDE DEF SpawnInv
  <2>5. HiddenHeld'
    BY <2>1, <2>4 DEF Hidden
  <2>6. AnswerSeen'
    BY <2>1, <2>3, <2>4 DEF Hidden
  <2>7. AloneToSpawn'
    BY <2>1, <2>3, <2>4 DEF Live
  <2>8. OneLive'
    BY <2>1, <2>4 DEF Live
  <2>9. QED
    BY <2>5, <2>6, <2>7, <2>8
<1>5. ASSUME NEW t \in Openers, DecideFast(t) PROVE SpawnInv'
  BY <1>5 DEF DecideFast, Succeed, Verified, Hidden, Live
<1>6. ASSUME NEW t \in Openers, AcquireStartup(t) PROVE SpawnInv'
  BY <1>6 DEF AcquireStartup, Goto, Hidden, Live
<1>7. ASSUME NEW t \in Openers, ProbeLocked(t) PROVE SpawnInv'
  <2> SUFFICES ASSUME ~breach' PROVE HiddenHeld' /\ AnswerSeen' /\ AloneToSpawn' /\ OneLive'
    BY DEF SpawnInv
  <2>1. ~breach /\ HiddenHeld /\ AnswerSeen /\ AloneToSpawn /\ OneLive
    BY <1>7 DEF ProbeLocked, Goto, ProbeServer, SpawnInv
  <2>2. PICK r \in ProbeResult : ProbeServer(t, r)
    BY <1>7 DEF ProbeLocked
  <2>3. /\ r = "VERIFIED" => \A s \in Servers : ~Hidden(s)
        /\ r = "NOT_FOUND" /\ pc[t] = "probe2" => \A s \in Servers : ~Live(s)
    BY <2>1, <2>2, ProbeTells
  <2>4. /\ pc' = [pc EXCEPT ![t] = "decide2"] /\ pc[t] = "probe2"
        /\ probe' = [probe EXCEPT ![t] = r]
        /\ UNCHANGED <<server, spawned, waitRc>>
    BY <1>7, <2>2 DEF ProbeLocked, Goto, ProbeServer, opening, locks, book, procs
  <2> HIDE DEF SpawnInv
  <2>5. HiddenHeld'
    BY <2>1, <2>4 DEF Hidden
  <2>6. AnswerSeen'
    BY <2>1, <2>3, <2>4 DEF Hidden
  <2>7. AloneToSpawn'
    BY <2>1, <2>3, <2>4 DEF Live
  <2>8. OneLive'
    BY <2>1, <2>4 DEF Live
  <2>9. QED
    BY <2>5, <2>6, <2>7, <2>8
<1>8. ASSUME NEW t \in Openers, DecideLocked(t) PROVE SpawnInv'
  BY <1>8 DEF DecideLocked, Succeed, Verified, Hidden, Live
<1>9. ASSUME NEW t \in Openers, Spawn(t) PROVE SpawnInv'
  <2> SUFFICES ASSUME ~breach PROVE HiddenHeld' /\ AnswerSeen' /\ AloneToSpawn' /\ OneLive'
    BY <1>9 DEF Spawn
  <2>1. PICK s \in Servers :
          /\ server[s] = "none"
          /\ server' = [server EXCEPT ![s] = "starting"]
          /\ spawned' = [spawned EXCEPT ![t] = s]
    BY <1>9 DEF Spawn
  <2>2. /\ pc[t] = "spawn" /\ pc' = [pc EXCEPT ![t] = "wait"]
        /\ UNCHANGED <<probe, waitRc>>
    BY <1>9 DEF Spawn, Goto
  <2>3. \A x \in Servers : ~Live(x)
    BY <2>2
  <2>4. \A x \in Servers : Live(x)' => x = s
    BY <2>1, <2>3 DEF Live
  <2>5. HiddenHeld'
    BY <2>1, <2>2, <2>4 DEF Hidden, Live
  <2>6. AnswerSeen'
    BY <2>1, <2>2, <2>4 DEF Hidden, Live
  <2>7. AloneToSpawn'
    BY <2>2
  <2>8. OneLive'
    BY <2>4
  <2>9. QED
    BY <2>5, <2>6, <2>7, <2>8
<1>10. ASSUME NEW t \in Openers, SpawnFails(t) PROVE SpawnInv'
  BY <1>10 DEF SpawnFails, Goto, Hidden, Live
<1>11. ASSUME NEW t \in Openers, WaitProbe(t) PROVE SpawnInv'
  <2>1. CASE UNCHANGED <<probe, breach>>
    BY <1>11, <2>1 DEF WaitProbe, Hidden, Live
  <2>2. CASE pc' = [pc EXCEPT ![t] = "decideW"] /\ \E r \in ProbeResult : ProbeServer(t, r)
    <3> SUFFICES ASSUME ~breach' PROVE HiddenHeld' /\ AnswerSeen' /\ AloneToSpawn' /\ OneLive'
      BY DEF SpawnInv
    <3>1. ~breach /\ HiddenHeld /\ AnswerSeen /\ AloneToSpawn /\ OneLive
      BY <2>2 DEF ProbeServer, SpawnInv
    <3>2. PICK r \in ProbeResult : ProbeServer(t, r)
      BY <2>2
    <3>3. /\ r = "VERIFIED" => \A s \in Servers : ~Hidden(s)
          /\ r = "NOT_FOUND" /\ pc[t] = "probe2" => \A s \in Servers : ~Live(s)
      BY <3>1, <3>2, ProbeTells
    <3>4. /\ pc' = [pc EXCEPT ![t] = "decideW"] /\ pc[t] = "wait"
          /\ probe' = [probe EXCEPT ![t] = r]
          /\ UNCHANGED <<server, spawned, waitRc>>
      BY <1>11, <2>2, <3>2 DEF WaitProbe, ProbeServer, opening, locks, book, procs
    <3> HIDE DEF SpawnInv
    <3>5. HiddenHeld'
      BY <3>1, <3>4 DEF Hidden
    <3>6. AnswerSeen'
      BY <3>1, <3>3, <3>4 DEF Hidden
    <3>7. AloneToSpawn'
      BY <3>1, <3>3, <3>4 DEF Live
    <3>8. OneLive'
      BY <3>1, <3>4 DEF Live
    <3>9. QED
      BY <3>5, <3>6, <3>7, <3>8
  <2>3. QED
    BY <1>11, <2>1, <2>2 DEF WaitProbe
<1>12. ASSUME NEW t \in Openers, WaitDecide(t) PROVE SpawnInv'
  BY <1>12 DEF WaitDecide, Verified, Dead, Hidden, Live
<1>13. ASSUME NEW t \in Openers, ReleaseStartup(t) PROVE SpawnInv'
  <2> SUFFICES ASSUME ~breach' PROVE HiddenHeld' /\ AnswerSeen' /\ AloneToSpawn' /\ OneLive'
    OBVIOUS
  <2>1. /\ ~breach
        /\ waitRc[t] = "timeout" => \A s \in Servers : spawned[t] = s => ~Hidden(s)
    BY <1>13 DEF ReleaseStartup
  <2>2. \A s \in Servers : spawned[t] = s => ~Hidden(s)
    BY <1>13, <2>1 DEF ReleaseStartup, Goto
  <2>3. /\ pc' = [pc EXCEPT ![t] = "finish"]
        /\ UNCHANGED <<server, spawned, probe, waitRc>>
    BY <1>13 DEF ReleaseStartup, Goto
  <2>4. HiddenHeld'
    BY <2>1, <2>2, <2>3 DEF Hidden
  <2>5. AnswerSeen' /\ AloneToSpawn' /\ OneLive'
    BY <2>1, <2>3 DEF Hidden, Live
  <2>6. QED
    BY <2>4, <2>5
<1>14. ASSUME NEW t \in Openers, Finish(t) PROVE SpawnInv'
  BY <1>14 DEF Finish, Succeed, SpawnedAdd, Hidden, Live
<1>15. ASSUME NEW t \in Openers, Cleanup(t) PROVE SpawnInv'
  BY <1>15 DEF Cleanup, Goto, Hidden, Live
<1>16. ASSUME NEW t \in Openers, Destroy(t) PROVE SpawnInv'
  BY <1>16 DEF Destroy, Goto, destroy_handle, Forget, Hidden, Live
<1>17. ASSUME NEW t \in Openers, Close(t) PROVE SpawnInv'
  BY <1>17 DEF Close, Goto, destroy_handle, Forget, Hidden, Live
<1>18. CASE Tick
  BY <1>18 DEF Tick, Hidden, Live
<1>19. ASSUME NEW a \in Apps, NEW s \in Servers, Reap(a, s) PROVE SpawnInv'
  BY <1>19 DEF Reap, Hidden, Live
<1>20. ASSUME NEW a \in Apps, AppCrash(a) PROVE SpawnInv'
  <2> SUFFICES ASSUME ~breach' PROVE HiddenHeld' /\ AnswerSeen' /\ AloneToSpawn' /\ OneLive'
    OBVIOUS
  <2> DEFINE mine == {t \in Openers : AppOf[t] = a}
  <2>1. /\ ~breach
        /\ \A t \in mine, s \in Servers : t \in startupEX /\ spawned[t] = s => ~Hidden(s)
    BY <1>20 DEF AppCrash
  <2>2. /\ pc' = [t \in Openers |-> IF t \in mine THEN "idle" ELSE pc[t]]
        /\ spawned' = [t \in Openers |-> IF t \in mine THEN NoServer ELSE spawned[t]]
        /\ probe' = [t \in Openers |-> IF t \in mine THEN "NOT_FOUND" ELSE probe[t]]
        /\ waitRc' = [t \in Openers |-> IF t \in mine THEN "none" ELSE waitRc[t]]
    BY <1>20 DEF AppCrash
  <2>3. \A s \in Servers : (Live(s)' <=> Live(s)) /\ (Hidden(s)' <=> Hidden(s))
    BY <1>20 DEF AppCrash, Live, Hidden
  <2> HIDE DEF mine
  <2>4. HiddenHeld'
    <3>1. SUFFICES ASSUME NEW s \in Servers, Hidden(s)
                   PROVE \E t \in Openers : spawned'[t] = s /\ pc'[t] \in {"wait", "decideW", "unlock"}
      BY <2>3
    <3>2. PICK t \in Openers : spawned[t] = s /\ pc[t] \in {"wait", "decideW", "unlock"}
      BY <2>1, <3>1
    <3>3. t \notin mine
      BY <2>1, <3>1, <3>2
    <3>4. QED
      BY <2>2, <3>2, <3>3
  <2>5. AnswerSeen'
    BY <2>1, <2>2, <2>3
  <2>6. AloneToSpawn'
    BY <2>1, <2>2, <2>3
  <2>7. OneLive'
    BY <2>1, <2>3
  <2>8. QED
    BY <2>4, <2>5, <2>6, <2>7
<1>21. ASSUME NEW s \in Servers, ServerTakesPid(s) PROVE SpawnInv'
  BY <1>21 DEF ServerTakesPid, Becomes, Hidden, Live
<1>22. ASSUME NEW s \in Servers, ServerLosesPid(s) PROVE SpawnInv'
  BY <1>22 DEF ServerLosesPid, Exit, Hidden, Live
<1>23. ASSUME NEW s \in Servers, ServerBoots(s) PROVE SpawnInv'
  BY <1>23 DEF ServerBoots, Becomes, Hidden, Live
<1>24. ASSUME NEW s \in Servers, ServerServes(s) PROVE SpawnInv'
  BY <1>24 DEF ServerServes, Becomes, Hidden, Live
<1>25. ASSUME NEW s \in Servers, ServerStops(s) PROVE SpawnInv'
  BY <1>25 DEF ServerStops, Becomes, Hidden, Live
<1>26. ASSUME NEW s \in Servers, ServerExits(s) PROVE SpawnInv'
  BY <1>26 DEF ServerExits, Exit, Hidden, Live
<1>27. ASSUME NEW s \in Servers, ServerCrash(s) PROVE SpawnInv'
  BY <1>27 DEF ServerCrash, Exit, Hidden, Live
<1>28. CASE UNCHANGED vars
  BY <1>28 DEF Hidden, Live
<1>29. QED
  BY <1>1, <1>2, <1>3, <1>4, <1>5, <1>6, <1>7, <1>8, <1>9, <1>10, <1>11, <1>12, <1>13, <1>14, <1>15, <1>16, <1>17, <1>18, <1>19, <1>20, <1>21, <1>22, <1>23, <1>24, <1>25, <1>26, <1>27, <1>28 DEF Next, OpenStep, ServerStep

\* Each step leaves the decision to seed the directory, and the server that was
\* started with it, in front of an empty directory.
LEMMA SeedStep ==
  TypeOK /\ LockInv /\ SpawnInv /\ SeedInv /\ [Next]_vars => SeedInv'
<1> SUFFICES ASSUME TypeOK, LockInv, SpawnInv, SeedInv, [Next]_vars PROVE SeedInv'
  OBVIOUS
<1> /\ pc \in [Openers -> PC] /\ server \in [Servers -> ServerState]
    /\ firstInit \in [Openers -> BOOLEAN] /\ seeded \in [Servers -> BOOLEAN]
    /\ spawned \in [Openers -> Servers \cup {NoServer}]
  BY DEF TypeOK, OpeningTypes, ProcessTypes
<1> USE DEF LockInv, SpawnInv, OneLive, AloneToSpawn, SeedInv, Critical, PC, ServerState, vars, opening, locks, book, procs, history
<1>1. ASSUME NEW t \in Openers, Open(t) PROVE SeedInv'
  BY <1>1 DEF Open, Goto, Hidden, Live
<1>2. ASSUME NEW t \in Openers, LockTimeout(t) PROVE SeedInv'
  BY <1>2 DEF LockTimeout, Hidden, Live
<1>3. ASSUME NEW t \in Openers, AcquireClients(t) PROVE SeedInv'
  BY <1>3 DEF AcquireClients, Goto, Hidden, Live
<1>4. ASSUME NEW t \in Openers, ProbeFast(t) PROVE SeedInv'
  BY <1>4 DEF ProbeFast, Goto, ProbeServer, Hidden
<1>5. ASSUME NEW t \in Openers, DecideFast(t) PROVE SeedInv'
  BY <1>5 DEF DecideFast, Succeed, Hidden, Live
<1>6. ASSUME NEW t \in Openers, AcquireStartup(t) PROVE SeedInv'
  BY <1>6 DEF AcquireStartup, Goto, Hidden, Live
<1>7. ASSUME NEW t \in Openers, ProbeLocked(t) PROVE SeedInv'
  BY <1>7 DEF ProbeLocked, Goto, ProbeServer, Hidden
<1>8. ASSUME NEW t \in Openers, DecideLocked(t) PROVE SeedInv'
  BY <1>8 DEF DecideLocked, Succeed, first_init, Hidden
<1>9. ASSUME NEW t \in Openers, Spawn(t) PROVE SeedInv'
  BY <1>9 DEF Spawn, Goto, Hidden, Live
<1>10. ASSUME NEW t \in Openers, SpawnFails(t) PROVE SeedInv'
  BY <1>10 DEF SpawnFails, Goto, Hidden, Live
<1>11. ASSUME NEW t \in Openers, WaitProbe(t) PROVE SeedInv'
  BY <1>11 DEF WaitProbe, ProbeServer, Hidden
<1>12. ASSUME NEW t \in Openers, WaitDecide(t) PROVE SeedInv'
  BY <1>12 DEF WaitDecide, Dead, Hidden, Live
<1>13. ASSUME NEW t \in Openers, ReleaseStartup(t) PROVE SeedInv'
  BY <1>13 DEF ReleaseStartup, Goto, Hidden, Live
<1>14. ASSUME NEW t \in Openers, Finish(t) PROVE SeedInv'
  BY <1>14 DEF Finish, Succeed, SpawnedAdd, Hidden, Live
<1>15. ASSUME NEW t \in Openers, Cleanup(t) PROVE SeedInv'
  BY <1>15 DEF Cleanup, Goto, Hidden, Live
<1>16. ASSUME NEW t \in Openers, Destroy(t) PROVE SeedInv'
  BY <1>16 DEF Destroy, Goto, destroy_handle, Forget, Hidden, Live
<1>17. ASSUME NEW t \in Openers, Close(t) PROVE SeedInv'
  BY <1>17 DEF Close, Goto, destroy_handle, Forget, Hidden, Live
<1>18. CASE Tick
  BY <1>18 DEF Tick, Hidden
<1>19. ASSUME NEW a \in Apps, NEW s \in Servers, Reap(a, s) PROVE SeedInv'
  BY <1>19 DEF Reap, Hidden, Live
<1>20. ASSUME NEW a \in Apps, AppCrash(a) PROVE SeedInv'
  BY <1>20 DEF AppCrash, Hidden, Live
<1>21. ASSUME NEW s \in Servers, ServerTakesPid(s) PROVE SeedInv'
  BY <1>21 DEF ServerTakesPid, Becomes, Hidden, Live
<1>22. ASSUME NEW s \in Servers, ServerLosesPid(s) PROVE SeedInv'
  BY <1>22 DEF ServerLosesPid, Exit, Hidden, Live
<1>23. ASSUME NEW s \in Servers, ServerBoots(s) PROVE SeedInv'
  BY <1>23 DEF ServerBoots, Becomes, Hidden, Live, ServerInv
<1>24. ASSUME NEW s \in Servers, ServerServes(s) PROVE SeedInv'
  BY <1>24 DEF ServerServes, Becomes, Hidden, Live
<1>25. ASSUME NEW s \in Servers, ServerStops(s) PROVE SeedInv'
  BY <1>25 DEF ServerStops, Becomes, Hidden, Live
<1>26. ASSUME NEW s \in Servers, ServerExits(s) PROVE SeedInv'
  BY <1>26 DEF ServerExits, Exit, Hidden, Live
<1>27. ASSUME NEW s \in Servers, ServerCrash(s) PROVE SeedInv'
  BY <1>27 DEF ServerCrash, Exit, Hidden, Live
<1>28. CASE UNCHANGED vars
  BY <1>28 DEF Hidden
<1>29. QED
  BY <1>1, <1>2, <1>3, <1>4, <1>5, <1>6, <1>7, <1>8, <1>9, <1>10, <1>11, <1>12, <1>13, <1>14, <1>15, <1>16, <1>17, <1>18, <1>19, <1>20, <1>21, <1>22, <1>23, <1>24, <1>25, <1>26, <1>27, <1>28 DEF Next, OpenStep, ServerStep

-----------------------------------------------------------------------------
(* The invariant and what follows from it                                  *)

\* The initial states satisfy every part of the invariant.
LEMMA InitInv == Init => IInv
<1> SUFFICES ASSUME Init PROVE IInv
  OBVIOUS
<1>1. TypeOK
  BY InitTypes
<1>2. LockInv
  BY DEF Init, LockInv, Pinned, Critical
<1>3. ServerInv
  BY DEF Init, ServerInv
<1>4. LocalInv
  BY DEF Init, LocalInv
<1>5. ProcessOwned
  BY OpenersAssumption DEF Init, ProcessOwned
<1>6. FoundInv
  BY DEF Init, FoundInv
<1>7. SpawnInv
  BY DEF Init, SpawnInv, HiddenHeld, AnswerSeen, AloneToSpawn, OneLive, Hidden, Live
<1>8. SeedInv
  BY DEF Init, SeedInv, Hidden
<1>9. QED
  BY <1>1, <1>2, <1>3, <1>4, <1>5, <1>6, <1>7, <1>8 DEF IInv

\* The inductive invariant holds in every reachable state.
THEOREM Invariant == Spec => []IInv
<1>1. IInv /\ [Next]_vars => IInv'
  BY TypeStep, LockStep, ServerStepInv, LocalStep, OwnStep, FoundStep, SpawnStep, SeedStep
     DEF IInv
<1>2. QED
  BY InitInv, <1>1, PTL DEF Spec

\* Two live servers on one directory need a broken discipline: the probe repeated
\* under seekdb.startup cannot miss a server.
THEOREM AtMostOneServer == Spec => []SingleServer
<1>1. IInv => SingleServer
  BY DEF IInv, SpawnInv, OneLive, SingleServer
<1>2. QED
  BY Invariant, <1>1, PTL

\* A returned handle pins the serving server its probe verified.
THEOREM HandlesServed == Spec => []HandleServed
<1>1. IInv => HandleServed
  <2> SUFFICES ASSUME IInv, NEW t \in Openers, pc[t] = "open"
               PROVE /\ t \in clientsSH
                     /\ IF found[t] = NoServer THEN "servercrash" \in Faults
                        ELSE server[found[t]] = "serving"
    BY DEF HandleServed
  <2>1. t \in clientsSH
    BY DEF IInv, LockInv, Pinned
  <2>2. found[t] # NoServer => server[found[t]] = "serving"
    BY DEF IInv, FoundInv
  <2>3. found[t] = NoServer => "servercrash" \in Faults
    BY DEF IInv, FoundInv
  <2>4. QED
    BY <2>1, <2>2, <2>3
<1>2. QED
  BY Invariant, <1>1, PTL

\* A Process record is waited for by one owner, in the application it belongs to.
THEOREM ProcessesOwned == Spec => []ProcessOwned
<1>1. IInv => ProcessOwned
  BY DEF IInv
<1>2. QED
  BY Invariant, <1>1, PTL

\* Both lifecycle locks are held exactly where control says they are.
THEOREM LocksFollow == Spec => []LocksFollowControl
<1>1. IInv => LocksFollowControl
  <2> SUFFICES ASSUME IInv, NEW t \in Openers
               PROVE /\ pc[t] \in {"idle", "clients"} => t \notin clientsSH \cup startupEX
                     /\ pc[t] \in {"open", "finish", "destroy"} => t \notin startupEX
                     /\ t \in startupEX => t \in clientsSH
    BY DEF LocksFollowControl
  <2>1. LockInv
    BY DEF IInv
  <2>2. QED
    BY <2>1 DEF LockInv, Pinned, Critical
<1>2. QED
  BY Invariant, <1>1, PTL

\* First-initialisation parameters never reach a server on a populated directory.
THEOREM SeedsOnlyFresh == Spec => SeedsOnlyFreshDirectory
<1>1. IInv /\ [Next]_vars =>
        [\A s \in Servers :
           ~breach /\ server[s] = "booting" /\ server'[s] = "listening" /\ seeded[s]
             => ~sstable]_vars
  BY DEF IInv, SeedInv, Hidden
<1>2. QED
  BY Invariant, <1>1, PTL DEF Spec, SeedsOnlyFreshDirectory

-----------------------------------------------------------------------------
(* The promise of SharedServer                                             *)

\* What the refinement relies on.
SvcInv == TypeOK /\ LockInv /\ ServerInv /\ LocalInv /\ FoundInv

\* A server that serves is the serving one, and there is no other.
LEMMA ServingOne ==
  ASSUME TypeOK, ServerInv, NEW s \in Servers
  PROVE  server[s] = "serving" <=> serving = s
<1> /\ NoServer \notin Servers /\ pidOwner \in Servers \cup {NoServer}
  BY OpenersAssumption DEF TypeOK, ProcessTypes
<1> QED
  BY DEF ServerInv, serving

\* Nothing is said of a step that moves neither a handle nor a serving server.
LEMMA QuietStep ==
  ASSUME serving' = serving,
         \A t \in Openers : pc'[t] = "open" <=> pc[t] = "open",
         \A t \in Openers : pc[t] = "open" => found'[t] = found[t]
  PROVE  UNCHANGED Service!vars
<1>1. opened' = opened
  BY DEF opened
<1>2. uses' = uses
  BY DEF uses
<1> QED
  BY <1>1, <1>2 DEF Service!vars

\* A step that changes neither the servers' states nor who owns the directory
\* leaves the serving server.
LEMMA SameServing == UNCHANGED <<server, pidOwner>> => serving' = serving
BY DEF serving

\* The step that hands out a handle attaches it.
LEMMA AttachStep ==
  ASSUME SvcInv, NEW t \in Openers, pc[t] # "open", pc' = [pc EXCEPT ![t] = "open"],
         UNCHANGED <<server, pidOwner, found>>,
         found[t] # NoServer \/ "servercrash" \in Faults
  PROVE  Service!Attach(t)
<1> /\ pc \in [Openers -> PC] /\ found \in [Openers -> Servers \cup {NoServer}]
  BY DEF SvcInv, TypeOK, OpeningTypes, ProcessTypes
<1>1. serving' = serving
  BY SameServing
<1>2. t \notin opened /\ opened' = opened \cup {t}
  BY DEF opened
<1>3. uses' = [uses EXCEPT ![t] = found[t]]
  BY DEF uses
<1>4. found[t] \in {serving, NoServer}
  <2>1. CASE found[t] = NoServer
    BY <2>1
  <2>2. CASE found[t] # NoServer
    <3>1. found[t] \in Servers /\ server[found[t]] = "serving"
      BY <2>2 DEF SvcInv, FoundInv
    <3> QED
      BY <3>1, ServingOne DEF SvcInv
  <2> QED
    BY <2>1, <2>2
<1> QED
  BY <1>1, <1>2, <1>3, <1>4 DEF Service!Attach

\* Handles given up together leave together, or there are none.
LEMMA LeaveStep ==
  ASSUME TypeOK, NEW M, M \subseteq Openers,
         pc' = [t \in Openers |-> IF t \in M THEN "idle" ELSE pc[t]],
         found' = [t \in Openers |-> IF t \in M THEN NoServer ELSE found[t]],
         serving' = serving
  PROVE  [Service!Next]_(Service!vars)
<1> DEFINE T == M \cap opened
<1>1. opened' = opened \ T
  BY DEF opened
<1>2. uses' = [t \in Openers |-> IF t \in T THEN NoServer ELSE uses[t]]
  BY DEF uses, opened
<1>3. CASE T # {}
  <2>1. Service!Leave(T) /\ T \in SUBSET opened
    BY <1>1, <1>2, <1>3 DEF Service!Leave
  <2> QED
    BY <2>1 DEF Service!Next
<1>4. CASE T = {}
  <2>1. \A t \in Openers : pc[t] = "open" => t \notin M
    BY <1>4 DEF opened
  <2>2. \A t \in Openers : /\ pc'[t] = "open" <=> pc[t] = "open"
                           /\ pc[t] = "open" => found'[t] = found[t]
    BY <2>1
  <2>3. UNCHANGED Service!vars
    BY <2>2, QuietStep
  <2> QED
    BY <2>3
<1> QED
  BY <1>3, <1>4

\* The end of a server that does not serve concerns nobody; that of the serving
\* one leaves every handle alone.
LEMMA ExitStep ==
  ASSUME SvcInv, NEW s \in Servers, Exit(s),
         server[s] = "serving" => "servercrash" \in Faults
  PROVE  [Service!Next]_(Service!vars)
<1> /\ found \in [Openers -> Servers \cup {NoServer}] /\ NoServer \notin Servers
    /\ server \in [Servers -> ServerState] /\ pidOwner \in Servers \cup {NoServer}
  BY OpenersAssumption DEF SvcInv, TypeOK, OpeningTypes, ProcessTypes
<1>1. /\ server'[s] # "serving" /\ \A x \in Servers \ {s} : server'[x] = server[x]
      /\ pidOwner' = IF pidOwner = s THEN NoServer ELSE pidOwner
      /\ pc' = pc
      /\ found' = [t \in Openers |-> IF found[t] = s THEN NoServer ELSE found[t]]
  BY DEF Exit, opening
<1>2. serving' = IF serving = s THEN NoServer ELSE serving
  BY <1>1 DEF serving
<1>3. \A t \in Openers : found[t] # NoServer => server[found[t]] = "serving"
  BY DEF SvcInv, FoundInv
<1>4. CASE server[s] = "serving"
  <2>1. serving = s
    BY <1>4, ServingOne DEF SvcInv
  <2>2. \A t \in Openers : found[t] \in {s, NoServer}
    BY <1>3, <2>1, ServingOne DEF SvcInv
  <2>3. uses' = [t \in Openers |-> NoServer]
    BY <1>1, <2>2 DEF uses
  <2>4. opened' = opened
    BY <1>1 DEF opened
  <2>5. Service!Crash
    BY <1>2, <1>4, <2>1, <2>3, <2>4 DEF Service!Crash
  <2> QED
    BY <2>5 DEF Service!Next
<1>5. CASE server[s] # "serving"
  <2>1. serving' = serving
    BY <1>2, <1>5, ServingOne DEF SvcInv
  <2>2. \A t \in Openers : found'[t] = found[t]
    BY <1>1, <1>3, <1>5
  <2>3. UNCHANGED Service!vars
    BY <1>1, <2>1, <2>2, QuietStep
  <2> QED
    BY <2>3
<1> QED
  BY <1>4, <1>5

\* At first nothing serves and nobody has a handle.
LEMMA ServiceInit == Init => Service!Init
<1> SUFFICES ASSUME Init PROVE Service!Init
  OBVIOUS
<1>1. serving = NoServer /\ opened = {} /\ uses = [t \in Openers |-> NoServer]
  BY DEF Init, serving, opened, uses
<1> QED
  BY <1>1 DEF Service!Init

\* Every step of the code is a step or a stutter of SharedServer.
LEMMA ServiceStep == SvcInv /\ [Next]_vars => [Service!Next]_(Service!vars)
<1> SUFFICES ASSUME SvcInv, [Next]_vars PROVE [Service!Next]_(Service!vars)
  OBVIOUS
<1> /\ pc \in [Openers -> PC] /\ found \in [Openers -> Servers \cup {NoServer}]
    /\ server \in [Servers -> ServerState] /\ pidOwner \in Servers \cup {NoServer}
    /\ spawned \in [Openers -> Servers \cup {NoServer}] /\ NoServer \notin Servers
  BY OpenersAssumption DEF SvcInv, TypeOK, OpeningTypes, ProcessTypes
<1> DEFINE Step == [Service!Next]_(Service!vars)
<1>A. ASSUME NEW t \in Openers, Service!Attach(t) PROVE Step
  BY <1>A DEF Service!Next
<1>Q. ASSUME serving' = serving,
             \A t \in Openers : pc'[t] = "open" <=> pc[t] = "open",
             \A t \in Openers : pc[t] = "open" => found'[t] = found[t]
      PROVE  Step
  BY <1>Q, QuietStep
<1> HIDE DEF Step
<1>S. UNCHANGED <<server, pidOwner>> => serving' = serving
  BY SameServing
<1> USE DEF vars, opening, locks, book, procs, history
<1>1. ASSUME NEW t \in Openers, Open(t) PROVE Step
  BY <1>1, <1>Q, <1>S DEF Open, Goto
<1>2. ASSUME NEW t \in Openers, LockTimeout(t) PROVE Step
  BY <1>2, <1>Q, <1>S DEF LockTimeout
<1>3. ASSUME NEW t \in Openers, AcquireClients(t) PROVE Step
  BY <1>3, <1>Q, <1>S DEF AcquireClients, Goto
<1>4. ASSUME NEW t \in Openers, ProbeFast(t) PROVE Step
  BY <1>4, <1>Q, <1>S DEF ProbeFast, Goto, ProbeServer
<1>5. ASSUME NEW t \in Openers, DecideFast(t) PROVE Step
  <2>1. pc[t] = "decide1" /\ UNCHANGED <<server, pidOwner, found>>
    BY <1>5 DEF DecideFast
  <2>2. CASE pc' = [pc EXCEPT ![t] = "open"]
    <3>1. found[t] # NoServer \/ "servercrash" \in Faults
      BY <1>5, <2>2, <2>1 DEF DecideFast, Verified, SvcInv, FoundInv
    <3> QED
      BY <2>1, <2>2, <3>1, AttachStep, <1>A
  <2>3. CASE pc' # [pc EXCEPT ![t] = "open"]
    BY <1>5, <2>1, <2>3, <1>Q, <1>S DEF DecideFast, Succeed
  <2> QED
    BY <2>2, <2>3
<1>6. ASSUME NEW t \in Openers, AcquireStartup(t) PROVE Step
  BY <1>6, <1>Q, <1>S DEF AcquireStartup, Goto
<1>7. ASSUME NEW t \in Openers, ProbeLocked(t) PROVE Step
  BY <1>7, <1>Q, <1>S DEF ProbeLocked, Goto, ProbeServer
<1>8. ASSUME NEW t \in Openers, DecideLocked(t) PROVE Step
  <2>1. pc[t] = "decide2" /\ UNCHANGED <<server, pidOwner, found>>
    BY <1>8 DEF DecideLocked
  <2>2. CASE pc' = [pc EXCEPT ![t] = "open"]
    <3>1. found[t] # NoServer \/ "servercrash" \in Faults
      BY <1>8, <2>2, <2>1 DEF DecideLocked, Verified, SvcInv, FoundInv
    <3> QED
      BY <2>1, <2>2, <3>1, AttachStep, <1>A
  <2>3. CASE pc' # [pc EXCEPT ![t] = "open"]
    BY <1>8, <2>1, <2>3, <1>Q, <1>S DEF DecideLocked, Succeed
  <2> QED
    BY <2>2, <2>3
<1>9. ASSUME NEW t \in Openers, Spawn(t) PROVE Step
  <2>1. PICK s \in Servers : server[s] = "none" /\ server' = [server EXCEPT ![s] = "starting"]
    BY <1>9 DEF Spawn
  <2>2. pidOwner' = pidOwner /\ found' = found /\ pc[t] = "spawn" /\ pc' = [pc EXCEPT ![t] = "wait"]
    BY <1>9 DEF Spawn, Goto
  <2>3. serving' = serving
    BY <2>1, <2>2 DEF serving
  <2> QED
    BY <2>2, <2>3, <1>Q
<1>10. ASSUME NEW t \in Openers, SpawnFails(t) PROVE Step
  BY <1>10, <1>Q, <1>S DEF SpawnFails, Goto
<1>11. ASSUME NEW t \in Openers, WaitProbe(t) PROVE Step
  BY <1>11, <1>Q, <1>S DEF WaitProbe, ProbeServer
<1>12. ASSUME NEW t \in Openers, WaitDecide(t) PROVE Step
  <2>1. /\ pidOwner' = pidOwner /\ found' = found /\ pc[t] = "decideW"
        /\ \E p \in {"unlock", "wait"} : pc' = [pc EXCEPT ![t] = p]
    BY <1>12 DEF WaitDecide
  <2>2. \/ server' = server
        \/ Dead(t) /\ server' = [server EXCEPT ![spawned[t]] = "none"]
    BY <1>12 DEF WaitDecide
  <2>3. serving' = serving
    BY <2>1, <2>2 DEF serving, Dead
  <2> QED
    BY <2>1, <2>3, <1>Q
<1>13. ASSUME NEW t \in Openers, ReleaseStartup(t) PROVE Step
  BY <1>13, <1>Q, <1>S DEF ReleaseStartup, Goto
<1>14. ASSUME NEW t \in Openers, Finish(t) PROVE Step
  <2>1. pc[t] = "finish" /\ UNCHANGED <<server, pidOwner, found>>
    BY <1>14 DEF Finish
  <2>2. CASE waitRc[t] = "ready"
    <3>1. pc' = [pc EXCEPT ![t] = "open"]
      BY <1>14, <2>2 DEF Finish, Succeed
    <3>2. found[t] # NoServer \/ "servercrash" \in Faults
      BY <2>2 DEF SvcInv, FoundInv
    <3> QED
      BY <2>1, <3>1, <3>2, AttachStep, <1>A
  <2>3. CASE waitRc[t] # "ready"
    <3>1. pc' = [pc EXCEPT ![t] = "cleanup"]
      BY <1>14, <2>3 DEF Finish
    <3> QED
      BY <2>1, <3>1, <1>Q, <1>S
  <2> QED
    BY <2>2, <2>3
<1>15. ASSUME NEW t \in Openers, Cleanup(t) PROVE Step
  BY <1>15, <1>Q, <1>S DEF Cleanup, Goto
<1>16. ASSUME NEW t \in Openers, Destroy(t) PROVE Step
  BY <1>16, <1>Q, <1>S DEF Destroy, Goto, destroy_handle, Forget
<1>17. ASSUME NEW t \in Openers, Close(t) PROVE Step
  <2> DEFINE M == {t}
  <2>1. /\ pc' = [pc EXCEPT ![t] = "idle"] /\ found' = [found EXCEPT ![t] = NoServer]
        /\ UNCHANGED <<server, pidOwner>>
    BY <1>17 DEF Close, Goto, destroy_handle, Forget
  <2>2. /\ pc' = [x \in Openers |-> IF x \in M THEN "idle" ELSE pc[x]]
        /\ found' = [x \in Openers |-> IF x \in M THEN NoServer ELSE found[x]]
        /\ M \subseteq Openers
    BY <2>1
  <2> HIDE DEF M
  <2> QED
    BY <2>1, <2>2, <1>S, LeaveStep DEF SvcInv, Step
<1>18. ASSUME Tick PROVE Step
  BY <1>18, <1>Q, <1>S DEF Tick
<1>19. ASSUME NEW a \in Apps, NEW s \in Servers, Reap(a, s) PROVE Step
  <2>1. /\ server[s] = "zombie" /\ server' = [server EXCEPT ![s] = "none"]
        /\ UNCHANGED <<pidOwner, pc, found>>
    BY <1>19 DEF Reap
  <2>2. serving' = serving
    BY <2>1 DEF serving
  <2> QED
    BY <2>1, <2>2, <1>Q
<1>20. ASSUME NEW a \in Apps, AppCrash(a) PROVE Step
  <2> DEFINE M == {t \in Openers : AppOf[t] = a}
  <2>1. /\ pc' = [t \in Openers |-> IF t \in M THEN "idle" ELSE pc[t]]
        /\ found' = [t \in Openers |-> IF t \in M THEN NoServer ELSE found[t]]
        /\ pidOwner' = pidOwner
        /\ \A s \in Servers : server'[s] = "serving" <=> server[s] = "serving"
    BY <1>20 DEF AppCrash
  <2>2. serving' = serving
    BY <2>1 DEF serving
  <2>3. M \subseteq Openers
    OBVIOUS
  <2> HIDE DEF M
  <2> QED
    BY <2>1, <2>2, <2>3, LeaveStep DEF SvcInv, Step
<1>21. ASSUME NEW s \in Servers, ServerTakesPid(s) PROVE Step
  <2>1. /\ server' = [server EXCEPT ![s] = "booting"] /\ pidOwner = NoServer /\ pidOwner' = s
        /\ UNCHANGED <<pc, found>>
    BY <1>21 DEF ServerTakesPid, Becomes
  <2>2. serving' = serving
    BY <2>1 DEF serving
  <2> QED
    BY <2>1, <2>2, <1>Q
<1>22. ASSUME NEW s \in Servers, ServerLosesPid(s) PROVE Step
  BY <1>22, ExitStep DEF ServerLosesPid, Step
<1>23. ASSUME NEW s \in Servers, ServerBoots(s) PROVE Step
  <2>1. /\ server[s] = "booting" /\ server' = [server EXCEPT ![s] = "listening"]
        /\ UNCHANGED <<pidOwner, pc, found>>
    BY <1>23 DEF ServerBoots, Becomes
  <2>2. serving' = serving
    BY <2>1 DEF serving
  <2> QED
    BY <2>1, <2>2, <1>Q
<1>24. ASSUME NEW s \in Servers, ServerServes(s) PROVE Step
  <2>1. /\ server[s] = "listening" /\ server' = [server EXCEPT ![s] = "serving"]
        /\ UNCHANGED <<pidOwner, pc, found>>
    BY <1>24 DEF ServerServes, Becomes
  <2>2. pidOwner = s
    BY <2>1 DEF SvcInv, ServerInv
  <2>3. serving = NoServer /\ serving' = s
    BY <2>1, <2>2 DEF serving
  <2>4. opened' = opened /\ uses' = uses
    BY <2>1 DEF opened, uses
  <2>5. Service!Start(s)
    BY <2>3, <2>4 DEF Service!Start
  <2> QED
    BY <2>5 DEF Service!Next, Step
<1>25. ASSUME NEW s \in Servers, ServerStops(s) PROVE Step
  <2>1. /\ server[s] = "serving" /\ server' = [server EXCEPT ![s] = "stopping"]
        /\ clientsSH = {} /\ UNCHANGED <<pidOwner, pc, found>>
    BY <1>25 DEF ServerStops, Becomes
  <2>2. pidOwner = s
    BY <2>1 DEF SvcInv, ServerInv
  <2>3. serving = s /\ serving' = NoServer
    BY <2>1, <2>2 DEF serving
  <2>4. opened = {}
    BY <2>1 DEF opened, SvcInv, LockInv, Pinned
  <2>5. opened' = opened /\ uses' = uses
    BY <2>1 DEF opened, uses
  <2>6. Service!Stop
    BY <2>3, <2>4, <2>5 DEF Service!Stop
  <2> QED
    BY <2>6 DEF Service!Next, Step
<1>26. ASSUME NEW s \in Servers, ServerExits(s) PROVE Step
  BY <1>26, ExitStep DEF ServerExits, Step
<1>27. ASSUME NEW s \in Servers, ServerCrash(s) PROVE Step
  BY <1>27, ExitStep DEF ServerCrash, Step
<1>28. ASSUME UNCHANGED vars PROVE Step
  BY <1>28, <1>Q, <1>S
<1>30. Step
  BY <1>1, <1>2, <1>3, <1>4, <1>5, <1>6, <1>7, <1>8, <1>9, <1>10, <1>11, <1>12, <1>13, <1>14, <1>15, <1>16, <1>17, <1>18, <1>19, <1>20, <1>21, <1>22, <1>23, <1>24, <1>25, <1>26, <1>27, <1>28 DEF Next, OpenStep, ServerStep
<1> QED
  BY <1>30 DEF Step

\* seekdb_open and seekdb_close implement SharedServer: every handle is made for
\* the one server that serves then, keeps to it, and pins it; whatever the
\* openers, the deadlines, the faults and further server processes do.
THEOREM ServiceKept == Spec => KeepsService
<1>1. IInv => SvcInv
  BY DEF IInv, SvcInv
<1> QED
  BY <1>1, Invariant, ServiceInit, ServiceStep, PTL DEF Spec, Service!Spec, KeepsService
=============================================================================
