--------------------------- MODULE SeekdbLifecycle ---------------------------
(***************************************************************************)
(* Opening and closing an embedded seekdb instance: seekdb_open and        *)
(* seekdb_close of lib/src/seekdb.c, the background reaper, the advisory   *)
(* locks of lib/src/port.c, and the server processes the openers share.    *)
(*                                                                         *)
(* All openers use ONE database directory.  An opener is a thread inside   *)
(* an application process; several openers may share an application, and   *)
(* an application may be killed.  The server executable is not part of     *)
(* the repository: its actions are what the library and its tests rely on. *)
(***************************************************************************)
EXTENDS Integers, FiniteSets

CONSTANTS
  Openers,        \* threads that call seekdb_open / seekdb_close
  Apps,           \* the processes these threads live in
  AppOf,          \* AppOf[t] is the process of thread t
  Servers,        \* process slots: bounds the children alive or unreaped
  NoServer, NoApp,
  ReadyTimeout,   \* READY_TIMEOUT_MS, in clock ticks
  PhaseBudget,    \* PROBE_PHASE_BUDGET_MS
  RequiredBudget, \* PROBE_REQUIRED_BUDGET_MS
  Faults          \* the faults of FaultKinds that may occur

(***************************************************************************)
(* "crash": an application is killed; "servercrash": a server dies;        *)
(* "misprobe": connecting to a live endpoint fails, e.g. by the connector's *)
(* one-second timeout; "nomem": malloc fails, "nonode": for a list node of   *)
(* the reaper; "nothread": pthread_create fails; "io": flock_open, access   *)
(* or posix_spawn fails.                                                   *)
(***************************************************************************)
FaultKinds == {"crash", "servercrash", "misprobe", "nomem", "nonode",
               "nothread", "io"}

ASSUME OpenersAssumption == /\ AppOf \in [Openers -> Apps]
                            /\ NoApp \notin Apps
                            /\ NoServer \notin Servers
ASSUME BudgetAssumption == /\ ReadyTimeout \in Nat
                           /\ PhaseBudget \in Nat \ {0}
                           /\ RequiredBudget \in Nat
                           /\ PhaseBudget <= RequiredBudget
ASSUME FaultsAssumption == Faults \subseteq FaultKinds

VARIABLES
  \* each thread's execution of seekdb_open
  pc,         \* where the thread is
  left,       \* ticks left before its readiness deadline
  probe,      \* result of its last probe_server
  firstInit,  \* first_init
  spawned,    \* the local variable spawned, a Process
  waitRc,     \* result of wait_for_ready
  \* run/seekdb.clients and run/seekdb.startup
  clientsSH,  \* threads that hold seekdb.clients shared
  clientsEX,  \* the server that holds seekdb.clients exclusive
  startupEX,  \* threads that hold seekdb.startup exclusive
  \* each application's bookkeeping
  list,       \* g_spawned
  reaper,     \* state of the once-started reaper thread
  \* the server processes and the database directory
  server,     \* state of each process slot
  parent,     \* the application that spawned it, while that one lives
  seeded,     \* was it started with the first-init parameters?
  pidOwner,   \* the server that owns the directory (seekdb.pid)
  sstable,    \* store/sstable has entries
  \* history variables, read by properties only
  found,      \* the server a thread's last VERIFIED probe talked to
  breach,     \* has the discipline behind SingleServer ever been left?
  dropped     \* children whose Process was dropped for want of a list node

opening == <<pc, left, probe, firstInit, spawned, waitRc>>
locks   == <<clientsSH, clientsEX, startupEX>>
book    == <<list, reaper, dropped>>
procs   == <<server, parent, seeded, pidOwner, sstable>>
history == <<found, breach>>
vars    == <<opening, locks, book, procs, history>>

PC == {"idle", "clients", "probe1", "decide1", "startup", "probe2", "decide2",
       "spawn", "wait", "decideW", "unlock", "finish", "cleanup", "destroy",
       "open"}
ProbeResult == {"NOT_FOUND", "UNVERIFIED", "VERIFIED"}
ServerState == {"none", "starting", "booting", "listening", "serving",
                "stopping", "zombie"}

Live(s) == server[s] \notin {"none", "zombie"}

\* A running server whose endpoint a probe cannot find yet.
Hidden(s) == server[s] \in {"starting", "booting"}

deadline_reached_Never(t) == FALSE
deadline_reached(t) == left[t] = 0
deadline_has_budget(t, budget) == left[t] > 0 /\ left[t] >= budget

-----------------------------------------------------------------------------
(* A definition A_B that precedes A is A with the defect B: no specification *)
(* uses it; it shows which property would notice that defect.                *)

(* seekdb_open.  Locals that the code no longer reads (probe after its     *)
(* decision, first_init after the spawn) return to their initial value.    *)

Init ==
  /\ pc = [t \in Openers |-> "idle"]
  /\ left = [t \in Openers |-> 0]
  /\ probe = [t \in Openers |-> "NOT_FOUND"]
  /\ firstInit = [t \in Openers |-> FALSE]
  /\ spawned = [t \in Openers |-> NoServer]
  /\ waitRc = [t \in Openers |-> "none"]
  /\ clientsSH = {} /\ clientsEX = NoServer /\ startupEX = {}
  /\ list = [a \in Apps |-> {}]
  /\ reaper = [a \in Apps |-> "off"] /\ dropped = {}
  /\ server = [s \in Servers |-> "none"]
  /\ parent = [s \in Servers |-> NoApp]
  /\ seeded = [s \in Servers |-> FALSE]
  /\ pidOwner = NoServer
  /\ sstable \in BOOLEAN
  /\ found = [t \in Openers |-> NoServer]
  /\ breach = FALSE

Goto(t, from, to) == /\ pc[t] = from
                     /\ pc' = [pc EXCEPT ![t] = to]

\* Validation, paths, directories, socket alias, flock_open(seekdb.clients) and
\* the deadline.  A failure of any of these returns with nothing held.
Open(t) ==
  /\ Goto(t, "idle", "clients")
  /\ left' = [left EXCEPT ![t] = ReadyTimeout]
  /\ UNCHANGED <<probe, firstInit, spawned, waitRc, locks, book, procs, history>>

\* acquire_lock_until_deadline gives up: out through the cleanup label.
LockTimeout(t) ==
  /\ pc[t] \in {"clients", "startup"}
  /\ deadline_reached(t)
  /\ pc' = [pc EXCEPT ![t] = "cleanup"]
  /\ UNCHANGED <<left, probe, firstInit, spawned, waitRc, locks, book, procs, history>>

AcquireClients_Unheld(t) ==
  /\ Goto(t, "clients", "probe1")
  /\ ~deadline_reached(t)
  /\ clientsEX = NoServer
  /\ UNCHANGED <<left, probe, firstInit, spawned, waitRc, locks, book, procs, history>>

AcquireClients(t) ==
  /\ Goto(t, "clients", "probe1")
  /\ ~deadline_reached(t)
  /\ clientsEX = NoServer
  /\ clientsSH' = clientsSH \cup {t}
  /\ UNCHANGED <<left, probe, firstInit, spawned, waitRc, clientsEX, startupEX,
                 book, procs, history>>

Reachable == pidOwner # NoServer /\ server[pidOwner] \in {"listening", "serving"}

\* What a probe that starts its I/O can report of the endpoint as it is now.
ProbeOutcomes ==
  (IF ~Reachable THEN {"NOT_FOUND"}
   ELSE IF server[pidOwner] = "serving" THEN {"UNVERIFIED", "VERIFIED"}
   ELSE {"UNVERIFIED"})
  \cup (IF "misprobe" \in Faults THEN {"NOT_FOUND"} ELSE {})
  \cup (IF "nomem" \in Faults THEN {"UNVERIFIED"} ELSE {})

\* probe_server; r is its result.
ProbeServer(t, r) ==
  /\ r \in IF deadline_has_budget(t, PhaseBudget) THEN ProbeOutcomes ELSE {"UNVERIFIED"}
  /\ probe' = [probe EXCEPT ![t] = r]
  /\ found' = [found EXCEPT ![t] = IF r = "VERIFIED" THEN pidOwner ELSE NoServer]
  /\ breach' = (breach \/ (r = "NOT_FOUND" /\ Reachable))

ProbeFast(t) ==
  /\ Goto(t, "probe1", "decide1")
  /\ \E r \in ProbeResult : ProbeServer(t, r)
  /\ UNCHANGED <<left, firstInit, spawned, waitRc, locks, book, procs>>

\* Fast path, or open the startup lock.  A returned handle has no deadline.
Succeed(t) == /\ pc' = [pc EXCEPT ![t] = "open"]
              /\ left' = [left EXCEPT ![t] = 0]

Verified(t) == probe[t] = "VERIFIED" /\ ~deadline_reached(t)

DecideFast(t) ==
  /\ pc[t] = "decide1"
  /\ probe' = [probe EXCEPT ![t] = "NOT_FOUND"]
  /\ \/ /\ Verified(t)
        /\ Succeed(t)
     \/ /\ ~Verified(t)
        /\ UNCHANGED left
        /\ \/ pc' = [pc EXCEPT ![t] = "startup"]
           \/ "io" \in Faults /\ pc' = [pc EXCEPT ![t] = "cleanup"]
  /\ UNCHANGED <<firstInit, spawned, waitRc, locks, book, procs, history>>

AcquireStartup(t) ==
  /\ Goto(t, "startup", "probe2")
  /\ ~deadline_reached(t)
  /\ startupEX = {}
  /\ startupEX' = {t}
  /\ UNCHANGED <<left, probe, firstInit, spawned, waitRc, clientsSH, clientsEX,
                 book, procs, history>>

ProbeLocked_Stale(t) ==
  /\ Goto(t, "probe2", "decide2")
  /\ UNCHANGED <<left, probe, firstInit, spawned, waitRc, locks, book, procs, history>>

ProbeLocked(t) ==
  /\ Goto(t, "probe2", "decide2")
  /\ \E r \in ProbeResult : ProbeServer(t, r)
  /\ UNCHANGED <<left, firstInit, spawned, waitRc, locks, book, procs>>

first_init_Always == TRUE
first_init == ~sstable

\* Success (the cleanup label closes the startup lock), a late answer, nobody
\* there (first_init is read now, the child is spawned later), or an endpoint
\* that is owned but not verified, which is only waited for.
DecideLocked(t) ==
  /\ pc[t] = "decide2"
  /\ probe' = [probe EXCEPT ![t] = "NOT_FOUND"]
  /\ \/ /\ Verified(t)
        /\ Succeed(t)
        /\ startupEX' = startupEX \ {t}
        /\ UNCHANGED firstInit
     \/ /\ deadline_reached(t)
        /\ pc' = [pc EXCEPT ![t] = "cleanup"]
        /\ UNCHANGED <<left, startupEX, firstInit>>
     \/ /\ ~deadline_reached(t)
        /\ probe[t] = "NOT_FOUND"
        /\ pc' = [pc EXCEPT ![t] = "spawn"]
        /\ firstInit' = [firstInit EXCEPT ![t] = first_init]
        /\ UNCHANGED <<left, startupEX>>
     \/ /\ ~deadline_reached(t)
        /\ probe[t] = "UNVERIFIED"
        /\ pc' = [pc EXCEPT ![t] = "wait"]
        /\ UNCHANGED <<left, startupEX, firstInit>>
  /\ UNCHANGED <<spawned, waitRc, clientsSH, clientsEX, book, procs, history>>

\* spawn_process with enough budget; the child is not yet anything but a process.
Spawn(t) ==
  /\ Goto(t, "spawn", "wait")
  /\ deadline_has_budget(t, RequiredBudget)
  /\ \E s \in Servers :
       /\ server[s] = "none"
       /\ server' = [server EXCEPT ![s] = "starting"]
       /\ parent' = [parent EXCEPT ![s] = AppOf[t]]
       /\ seeded' = [seeded EXCEPT ![s] = firstInit[t]]
       /\ spawned' = [spawned EXCEPT ![t] = s]
  /\ firstInit' = [firstInit EXCEPT ![t] = FALSE]
  /\ UNCHANGED <<left, probe, waitRc, locks, book, pidOwner, sstable, history>>

\* Argument building, too little budget, access() or posix_spawn fails; the last
\* also when there is no process slot.
SpawnFails(t) ==
  /\ Goto(t, "spawn", "cleanup")
  /\ \/ ~deadline_has_budget(t, RequiredBudget)
     \/ {"io", "nomem"} \cap Faults # {}
     \/ \A s \in Servers : server[s] # "none"
  /\ UNCHANGED <<left, probe, firstInit, spawned, waitRc, locks, book, procs, history>>

\* The head of wait_for_ready's loop: no budget, or one more probe.
WaitProbe(t) ==
  /\ pc[t] = "wait"
  /\ \/ /\ ~deadline_has_budget(t, RequiredBudget)
        /\ pc' = [pc EXCEPT ![t] = "unlock"]
        /\ waitRc' = [waitRc EXCEPT ![t] = "timeout"]
        /\ UNCHANGED <<probe, history>>
     \/ /\ deadline_has_budget(t, RequiredBudget)
        /\ pc' = [pc EXCEPT ![t] = "decideW"]
        /\ \E r \in ProbeResult : ProbeServer(t, r)
        /\ UNCHANGED waitRc
  /\ UNCHANGED <<left, firstInit, spawned, locks, book, procs>>

\* The child of t that waitpid would collect now.
Dead(t) == spawned[t] # NoServer /\ server[spawned[t]] = "zombie"

\* The rest of its body: late, ready, the child has died (reaped and freed), or
\* sleep and go round.
WaitDecide(t) ==
  /\ pc[t] = "decideW"
  /\ probe' = [probe EXCEPT ![t] = "NOT_FOUND"]
  /\ \/ /\ deadline_reached(t)
        /\ pc' = [pc EXCEPT ![t] = "unlock"]
        /\ waitRc' = [waitRc EXCEPT ![t] = "timeout"]
        /\ UNCHANGED <<server, parent, spawned>>
     \/ /\ Verified(t)
        /\ pc' = [pc EXCEPT ![t] = "unlock"]
        /\ waitRc' = [waitRc EXCEPT ![t] = "ready"]
        /\ UNCHANGED <<server, parent, spawned>>
     \/ /\ ~deadline_reached(t) /\ ~Verified(t) /\ Dead(t)
        /\ pc' = [pc EXCEPT ![t] = "unlock"]
        /\ waitRc' = [waitRc EXCEPT ![t] = "died"]
        /\ server' = [server EXCEPT ![spawned[t]] = "none"]
        /\ parent' = [parent EXCEPT ![spawned[t]] = NoApp]
        /\ spawned' = [spawned EXCEPT ![t] = NoServer]
     \/ /\ ~deadline_reached(t) /\ ~Verified(t) /\ ~Dead(t)
        /\ pc' = [pc EXCEPT ![t] = "wait"]
        /\ UNCHANGED <<waitRc, server, parent, spawned>>
  /\ UNCHANGED <<left, firstInit, locks, book, seeded, pidOwner, sstable, history>>

\* flock_close(startup_lock) comes before the result of the wait is looked at.
ReleaseStartup(t) ==
  /\ Goto(t, "unlock", "finish")
  /\ startupEX' = startupEX \ {t}
  /\ breach' = (breach \/ (waitRc[t] = "timeout"
                            /\ \E s \in Servers : spawned[t] = s /\ Hidden(s)))
  /\ UNCHANGED <<left, probe, firstInit, spawned, waitRc, clientsSH, clientsEX,
                 book, procs, found>>

SpawnedAdd_Dropped(a, s) == UNCHANGED book

\* spawned_add: without a list node the Process is dropped for good.  The reaper
\* thread is created by the first call that gets that far, or never.
SpawnedAdd(a, s) ==
  \/ /\ "nonode" \in Faults
     /\ dropped' = dropped \cup {s}
     /\ UNCHANGED <<list, reaper>>
  \/ /\ list' = [list EXCEPT ![a] = @ \cup {s}]
     /\ UNCHANGED dropped
     /\ reaper' \in {[reaper EXCEPT ![a] = IF @ = "off" THEN new ELSE @] :
                       new \in {"on"} \cup IF "nothread" \in Faults THEN {"failed"} ELSE {}}

Finish(t) ==
  /\ pc[t] = "finish"
  /\ IF waitRc[t] = "ready" THEN Succeed(t)
     ELSE pc' = [pc EXCEPT ![t] = "cleanup"] /\ UNCHANGED left
  /\ IF spawned[t] = NoServer THEN UNCHANGED book ELSE SpawnedAdd(AppOf[t], spawned[t])
  /\ spawned' = [spawned EXCEPT ![t] = NoServer]
  /\ waitRc' = [waitRc EXCEPT ![t] = "none"]
  /\ UNCHANGED <<probe, firstInit, locks, procs, history>>

\* The cleanup label on failure: the startup lock, then destroy_handle, whose
\* first act is to close seekdb.clients.
Cleanup(t) ==
  /\ Goto(t, "cleanup", "destroy")
  /\ startupEX' = startupEX \ {t}
  /\ UNCHANGED <<left, probe, firstInit, spawned, waitRc, clientsSH, clientsEX,
                 book, procs, history>>

\* What a thread is left with when seekdb_open failed or seekdb_close returned.
Forget(t) ==
  /\ left' = [left EXCEPT ![t] = 0]
  /\ probe' = [probe EXCEPT ![t] = "NOT_FOUND"]
  /\ firstInit' = [firstInit EXCEPT ![t] = FALSE]
  /\ found' = [found EXCEPT ![t] = NoServer]

destroy_handle_KeepsClients(t) ==
  /\ Forget(t)
  /\ UNCHANGED <<spawned, waitRc, locks, book, procs, breach>>

destroy_handle(t) ==
  /\ clientsSH' = clientsSH \ {t}
  /\ Forget(t)
  /\ UNCHANGED <<spawned, waitRc, clientsEX, startupEX, book, procs, breach>>

Destroy(t) == Goto(t, "destroy", "idle") /\ destroy_handle(t)

\* seekdb_close
Close(t) == Goto(t, "open", "idle") /\ destroy_handle(t)

Tick_Wraps ==
  /\ left' = [t \in Openers |-> IF pc[t] \in {"idle", "open"} THEN left[t] ELSE left[t] - 1]
  /\ UNCHANGED <<pc, probe, firstInit, spawned, waitRc, locks, book, procs, history>>

\* The monotonic clock moves for every pending deadline at once.
Tick ==
  /\ \E t \in Openers : left[t] > 0
  /\ left' = [t \in Openers |-> IF left[t] > 0 THEN left[t] - 1 ELSE 0]
  /\ UNCHANGED <<pc, probe, firstInit, spawned, waitRc, locks, book, procs, history>>

-----------------------------------------------------------------------------
(* The background reaper and the death of an application                   *)

Reap_KeepsNode(a, s) ==
  /\ reaper[a] = "on"
  /\ s \in list[a]
  /\ server[s] = "zombie"
  /\ server' = [server EXCEPT ![s] = "none"]
  /\ parent' = [parent EXCEPT ![s] = NoApp]
  /\ UNCHANGED <<opening, locks, book, seeded, pidOwner, sstable, history>>

\* reaper_loop_body collects one exited child, under the list mutex.
Reap(a, s) ==
  /\ reaper[a] = "on"
  /\ s \in list[a]
  /\ server[s] = "zombie"
  /\ server' = [server EXCEPT ![s] = "none"]
  /\ parent' = [parent EXCEPT ![s] = NoApp]
  /\ list' = [list EXCEPT ![a] = @ \ {s}]
  /\ UNCHANGED <<opening, locks, reaper, dropped, seeded, pidOwner, sstable, history>>

\* Locks go with the process; its children are adopted by init.
AppCrash(a) ==
  LET mine == {t \in Openers : AppOf[t] = a}
      kids == {s \in Servers : parent[s] = a}
      gone(f, v) == [t \in Openers |-> IF t \in mine THEN v ELSE f[t]]
  IN
  /\ "crash" \in Faults
  /\ \E t \in mine : pc[t] # "idle"
  /\ pc' = gone(pc, "idle")
  /\ left' = gone(left, 0)
  /\ probe' = gone(probe, "NOT_FOUND")
  /\ firstInit' = gone(firstInit, FALSE)
  /\ spawned' = gone(spawned, NoServer)
  /\ waitRc' = gone(waitRc, "none")
  /\ found' = gone(found, NoServer)
  /\ clientsSH' = clientsSH \ mine
  /\ startupEX' = startupEX \ mine
  /\ list' = [list EXCEPT ![a] = {}]
  /\ dropped' = dropped \ kids
  /\ reaper' = [reaper EXCEPT ![a] = "off"]
  /\ server' = [s \in Servers |-> IF s \in kids /\ server[s] = "zombie" THEN "none" ELSE server[s]]
  /\ parent' = [s \in Servers |-> IF s \in kids THEN NoApp ELSE parent[s]]
  /\ breach' = (breach \/ \E t \in mine, s \in Servers :
                           t \in startupEX /\ spawned[t] = s /\ Hidden(s))
  /\ UNCHANGED <<clientsEX, seeded, pidOwner, sstable>>

-----------------------------------------------------------------------------
(* The server executable, as the library and its tests rely on it          *)

\* A server that ends keeps no lock; it stays a zombie while its parent lives.
Exit(s) ==
  /\ server' = [server EXCEPT ![s] = IF parent[s] = NoApp THEN "none" ELSE "zombie"]
  /\ pidOwner' = IF pidOwner = s THEN NoServer ELSE pidOwner
  /\ clientsEX' = IF clientsEX = s THEN NoServer ELSE clientsEX
  /\ found' = [t \in Openers |-> IF found[t] = s THEN NoServer ELSE found[t]]
  /\ seeded' = [seeded EXCEPT ![s] = FALSE]
  /\ UNCHANGED <<opening, clientsSH, startupEX, book, parent, sstable, breach>>

Becomes(s, from, to) == /\ server[s] = from
                        /\ server' = [server EXCEPT ![s] = to]

ServerTakesPid(s) ==
  /\ Becomes(s, "starting", "booting")
  /\ pidOwner = NoServer
  /\ pidOwner' = s
  /\ UNCHANGED <<opening, locks, book, parent, seeded, sstable, history>>

ServerLosesPid(s) == server[s] = "starting" /\ pidOwner # NoServer /\ Exit(s)

ServerBoots(s) ==
  /\ Becomes(s, "booting", "listening")
  /\ sstable' = TRUE
  /\ seeded' = [seeded EXCEPT ![s] = FALSE]
  /\ UNCHANGED <<opening, locks, book, parent, pidOwner, history>>

ServerServes(s) ==
  /\ Becomes(s, "listening", "serving")
  /\ UNCHANGED <<opening, locks, book, parent, seeded, pidOwner, sstable, history>>

\* Last-client-gone detection on seekdb.clients.
ServerStops(s) ==
  /\ Becomes(s, "serving", "stopping")
  /\ clientsSH = {} /\ clientsEX = NoServer
  /\ clientsEX' = s
  /\ UNCHANGED <<opening, clientsSH, startupEX, book, parent, seeded, pidOwner,
                 sstable, history>>

ServerExits(s) == server[s] = "stopping" /\ Exit(s)

ServerCrash(s) == "servercrash" \in Faults /\ Live(s) /\ Exit(s)

-----------------------------------------------------------------------------
OpenStep(t) ==
  \/ LockTimeout(t) \/ AcquireClients(t) \/ ProbeFast(t) \/ DecideFast(t)
  \/ AcquireStartup(t) \/ ProbeLocked(t) \/ DecideLocked(t)
  \/ Spawn(t) \/ SpawnFails(t) \/ WaitProbe(t) \/ WaitDecide(t)
  \/ ReleaseStartup(t) \/ Finish(t) \/ Cleanup(t) \/ Destroy(t)

ServerStep(s) ==
  \/ ServerTakesPid(s) \/ ServerLosesPid(s) \/ ServerBoots(s) \/ ServerServes(s)
  \/ ServerStops(s) \/ ServerExits(s)

Next ==
  \/ \E t \in Openers : Open(t) \/ OpenStep(t) \/ Close(t)
  \/ Tick
  \/ \E a \in Apps : AppCrash(a) \/ \E s \in Servers : Reap(a, s)
  \/ \E s \in Servers : ServerStep(s) \/ ServerCrash(s)

Spec == Init /\ [][Next]_vars

\* Threads inside the library are scheduled and its clock runs; a reaper that was
\* started wakes every half second; a server makes progress.  Nobody is obliged
\* to open or to close, and faults need not happen.
Fairness ==
  /\ \A t \in Openers : WF_vars(OpenStep(t))
  /\ WF_vars(Tick)
  /\ \A a \in Apps, s \in Servers : WF_vars(Reap(a, s))
  /\ \A s \in Servers : WF_vars(ServerStep(s))

FairSpec == Spec /\ Fairness

-----------------------------------------------------------------------------
(* Properties                                                              *)

OpeningTypes ==
  /\ pc \in [Openers -> PC]
  /\ left \in [Openers -> 0..ReadyTimeout]
  /\ probe \in [Openers -> ProbeResult]
  /\ firstInit \in [Openers -> BOOLEAN]
  /\ spawned \in [Openers -> Servers \cup {NoServer}]
  /\ waitRc \in [Openers -> {"none", "ready", "died", "timeout"}]

SharedTypes ==
  /\ clientsSH \subseteq Openers
  /\ clientsEX \in Servers \cup {NoServer}
  /\ startupEX \subseteq Openers
  /\ list \in [Apps -> SUBSET Servers]
  /\ reaper \in [Apps -> {"off", "on", "failed"}]
  /\ dropped \subseteq Servers

ProcessTypes ==
  /\ server \in [Servers -> ServerState]
  /\ parent \in [Servers -> Apps \cup {NoApp}]
  /\ seeded \in [Servers -> BOOLEAN]
  /\ pidOwner \in Servers \cup {NoServer}
  /\ sstable \in BOOLEAN
  /\ found \in [Openers -> Servers \cup {NoServer}]
  /\ breach \in BOOLEAN

\* Every variable has its type; in particular no deadline arithmetic wraps.
TypeOK == OpeningTypes /\ SharedTypes /\ ProcessTypes

\* Two server processes are alive on one directory only after an opener let go of
\* the startup lock while its own child had no endpoint yet (readiness timeout,
\* or the opener was killed), or a probe failed to connect to a live endpoint.
\* It relies on the probe repeated after seekdb.startup is held.
SingleServer ==
  ~breach => \A s1, s2 \in Servers : Live(s1) /\ Live(s2) => s1 = s2

\* A handle that seekdb_open returned pins the server it verified: seekdb.clients
\* was shared before the probe, so that server cannot have detected the last
\* client's departure.  Only a crash of the server can leave a handle alone.
HandleServed ==
  \A t \in Openers : pc[t] = "open" =>
    /\ t \in clientsSH
    /\ IF found[t] = NoServer THEN "servercrash" \in Faults
       ELSE server[found[t]] = "serving"

\* Every Process record still to be waited for, in the local variable of an open
\* or on g_spawned, names an unreaped child of its own application and is held
\* exactly once: neither waitpid on a recycled pid nor a double free.
ProcessOwned ==
  \A s \in Servers :
    /\ \A t \in Openers : spawned[t] = s =>
         /\ server[s] # "none" /\ parent[s] = AppOf[t]
         /\ \A u \in Openers : spawned[u] = s => u = t
         /\ \A a \in Apps : s \notin list[a]
    /\ \A a \in Apps : s \in list[a] => server[s] # "none" /\ parent[s] = a

\* The parameters of a first initialisation (memory_budget and the caller's own)
\* never reach a server that starts on a populated directory, where they would
\* override what the user persisted; under the same discipline as SingleServer,
\* since first_init is read before the child is spawned and boots.
SeedsOnlyFreshDirectory ==
  [][\A s \in Servers :
       ~breach /\ server[s] = "booting" /\ server'[s] = "listening" /\ seeded[s]
         => ~sstable]_vars

\* Locks are given up in the right order and by everyone: no thread that is not
\* inside seekdb_open or between open and close holds either lock, and nobody
\* waits for or holds the startup lock without pinning the server.
LocksFollowControl ==
  \A t \in Openers :
    /\ pc[t] \in {"idle", "clients"} => t \notin clientsSH \cup startupEX
    /\ pc[t] \in {"open", "finish", "destroy"} => t \notin startupEX
    /\ t \in startupEX => t \in clientsSH

\* Every seekdb_open returns, whatever the server, the other openers and the
\* faults do: the readiness deadline bounds lock waits and probes.
OpenReturns == \A t \in Openers : pc[t] = "clients" ~> pc[t] \in {"idle", "open"}

\* A child that exited is collected, by the open that spawned it, by the reaper, or by
\* init after its application died.  "Preventing zombies", as the comment on the reaper
\* has it, has two exceptions in the code, and no other: the child whose list node could
\* not be allocated, and every child of an application that failed to create its reaper
\* thread, since pthread_once does not try again.  They stay zombies while it lives.
ZombiesReaped ==
  \A s \in Servers :
    server[s] = "zombie" ~>
      (server[s] # "zombie" \/ s \in dropped
         \/ \E a \in Apps : parent[s] = a /\ reaper[a] = "failed")

\* Once no client is left (closed, failed or killed) and none arrives, every
\* server shuts down: no path out of seekdb_open keeps seekdb.clients shared.
Unused == \A t \in Openers : pc[t] = "idle"
LastClientGone == Unused ~> (~Unused \/ \A s \in Servers : ~Live(s))

\* What a test says of concurrent opens ("must spawn exactly one server").
ExactlyOneServer == \A s1, s2 \in Servers : Live(s1) /\ Live(s2) => s1 = s2

\* What SharedServer calls serving, opened and uses.
serving == IF pidOwner # NoServer /\ server[pidOwner] = "serving" THEN pidOwner ELSE NoServer
opened == {t \in Openers : pc[t] = "open"}
uses == [t \in Openers |-> IF pc[t] = "open" THEN found[t] ELSE NoServer]

Service == INSTANCE SharedServer WITH MayCrash <- "servercrash" \in Faults

\* seekdb_open and seekdb_close implement SharedServer: whatever openers, probes,
\* locks and spawns do, a handle is made for the one serving server, keeps to it
\* even when a second process was spawned, and no server stops under a handle.
KeepsService == Service!Spec
=============================================================================
