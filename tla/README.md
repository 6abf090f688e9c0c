# seekdb-bindings: verification project

TLA+ models of the seekdb drivers (`src/`), the TLC runs that check them on small
instances and the theorems TLAPS proves about them. Line references are to the files
under `src/`.

## 1. The system

`libseekdb` opens a seekdb database directory by connecting to the seekdb server that
owns it, or by spawning that server as a child process. Every language binding is a
layer over its C API. The server itself and MariaDB Connector/C are not in the
repository.

| Component | State it keeps | Operations | Interacts through |
|---|---|---|---|
| Server lifecycle, `lib/src/seekdb.c` (`seekdb_open`, `seekdb_close`), `lib/src/port.c` | the handle and its `seekdb.clients` lock, `seekdb.startup` while opening, `g_spawned` and the reaper thread | open, close, probe, spawn, wait, reap | advisory locks under `<db>/run`, child processes, the local socket, `store/sstable` |
| Endpoint discovery, `create_socket_alias`, `probe_server`, `verify_tcp_server` in `lib/src/seekdb.c` | the alias directory under `/tmp`, `pipe_name`, `host`, `port` and `server_uuid` of a handle | make and remove the alias, read `run/sql.pipe`, connect, discover, verify | names under `/tmp`, TCP ports and pipes shared by all directories |
| Spawn arguments, `build_spawn_argv` | the argv under construction and the strings it owns | validate, build, free | called by `seekdb_open`; read by the server |
| Connection and results, `seekdb_connect` .. `seekdb_result_*` | a `MYSQL`, a stored result and its current row | connect, query, next, get, free, disconnect | calls from the bindings |
| Python module, `python/src/bindings.cpp` | registry path -> weak instance, default instance, three mutexes, GIL released around the calls | open, connect, close of module, instance and connection; cursors | shared pointers to one `InstanceState` per directory |
| Python migration, `python/pylibseekdb/_migration.py` | the dump file, the parser of a dump | dump, restore, prune and order views | SQL over one connection |
| Rust native cache, `rust/native_cache.rs` | content-addressed cache entries, staging, retired and generation directories | ensure, publish (Unix, Windows), validate | the file system, shared by processes |
| Rust build cache and manifest, `rust/build*.rs`, `rust/manifest_cache.rs`, `rust/bundle_manifest.rs` | downloaded archives and manifests | download, verify, publish | the file system, shared by build scripts |
| Rust binding, `rust/src/*.rs` | `OnceLock` of the loaded library, cache directory setting, instance handle | set cache dir, open, close, drop | the C API, the native cache |
| Node binding, `typescript/native/seekdb_node.c`, `typescript/src/index.ts` | async open work, wrapped handle | open, close, finalize | libuv worker and main thread |
| Java binding, `java/` | handle field of an object | open, options, close | JNI, object monitor |
| Interactive client, `lib/src/seekdb_cli.c` | line buffer, current statement | read, execute, print | the C API |
| Packaging and CI, `scripts/`, `typescript/scripts/`, `android/`, `.github/` | none at run time | build and publish artefacts | none |


## 2. What is hard, and what makes each part correct

**Server lifecycle.** Threads of several applications open one directory at the same
time; each has its own deadline, any application or server may be killed between two
system calls, and what a probe saw may be false a moment later. Correct means: one
server per directory; a returned handle pins the server it verified; the two lifecycle
locks are released by every path and in order; a child is waited for exactly once and by
somebody; the parameters of a first start never reach a populated directory; every open
returns; an unused server stops.

**Endpoint discovery.** Ports and names under `/tmp` are shared by directories; a pipe
file outlives its server, and a port may belong to another server by the time it is
tried. Correct means: an open handle leads to the server of its own directory, a server
whose local endpoint answered is never reported missing, no I/O runs past the deadline,
and no name stays under `/tmp` that could have been removed.

**Spawn arguments.** Arrays are sized by one loop and filled by two others, each of many
allocations may fail, and duplicate keys have different winners in different places.
Correct means: every write is inside its array, every block is freed once, a first start
seeds what the caller asked for, a restart seeds nothing.

**Connections and results.** A result keeps a raw pointer to its connection, its cursor
keeps a counted one, and the end of a result is told from an error by the connection's
error state, which other statements also set. Correct means: nothing is lost when a step
of connect or execute fails, a connection works in the mode asked for, every row is
given once, a cell becomes the value it says, and no owner frees what a result points
at.

**Python instances.** Instances of one directory share a handle through weak pointers;
close decides by a use count that other threads change; three kinds of mutex meet the
interpreter lock. Correct means: one handle per directory, none closed under a user,
none leaked, no deadlock.

**Migration.** A dump reads many tables while applications write, may be cut anywhere,
and can only be checked by its own markers. Views depend on views. Correct means: a dump
is whole or absent, says what it leaves out, creates views after what they use, and a
restore that reports success has counted in every table what one moment of the source
held; a target that is not empty is left alone.

**Rust native cache.** Builds and applications publish one cache entry without any lock,
and anybody may clean the cache. Unix exchanges directories; Windows cannot, and adds
generations inside the entry. Correct means: an entry is complete or absent at every
moment, mapped files survive replacement, an answered path was usable during the call,
and errors have a cause.

**Rust runtime.** Threads set the cache directory while others load the library, and
caches are cleaned while it stays loaded. Correct means: the library comes from the
directory that was accepted last, a failed initialisation leaves nothing behind, and
every open finds the server's files restored.

**Node.js.** A handle is made on a worker, handed to an object on the main thread, and
released by close or by the garbage collector. Correct means: it always has one owner,
an object that was not closed has its handle, and every promise settles.

**Java.** Options are strings borrowed from the native handle while another thread may
close it, and every conversion may throw. Correct means: nothing is read or closed twice
after its end, and no exception leaves anything on the C heap.

**Command line.** A line may be longer than the buffer, and statements span lines.
Correct means: what is typed is executed once and in order, and no word is broken but
where a full buffer cut its line.

## 3. Modules

| Module | Models | State and actions |
|---|---|---|
| `SeekdbLifecycle` | `seekdb_open`, `wait_for_ready`, `seekdb_close`, the reaper, the locks | `pc` names the phase of each thread's `seekdb_open`; `left` is its deadline in clock ticks; `clientsSH`/`clientsEX`/`startupEX` are the holders of the lock files; `list` is `g_spawned`; `server`, `parent`, `pidOwner`, `sstable` are the server processes and their directory. One action per phase between two blocking calls: `AcquireClients`, `ProbeFast`, `DecideFast`, ... , `Finish`, `Cleanup`, `Destroy`, `Close`, `Reap`. |
| `SharedServer` | what `seekdb_open` and `seekdb_close` promise the users of a directory (abstract) | the serving server, who has a handle, and which server it works on; `SeekdbLifecycle` implements it |
| `Endpoint` | `create_socket_alias`, `probe_server`, `verify_tcp_server`, the connect and options calls that use the endpoint | the servers of several directories with their pipe, port and pipe file; names under `/tmp`; per handle the stage of its open, `left` and the ticks `io` of the current phase. One action per system call that can race with another process |
| `SpawnArguments` | `validate_parameters`, `build_spawn_argv`, `free_spawn_argv` | the arrays as counters (`argc`, `argv_i`, `owned_n`, `blocks`), one action per loop turn and allocation; `settings` is what the server persists over restarts |
| `DriverConnection` | `seekdb_connect` to `seekdb_result_next`, Python `Connection` and `Cursor` | `allocated`, `session`, `errno` per connection, `heap` of results, `conn_`/`result_` of cursors; one action per Python call with every C call it makes |
| `CellValues` | `map_field_type`, the typed getters, `Cursor::get_value` | no state: the texts a server sends for a field, what becomes of each, and what each says |
| `InstanceRegistry` | `python/src/bindings.cpp`: instances, registry, default instance | shared pointers as sets of holders, `owner` of each mutex and of the interpreter lock, one action per stretch between lock operations |
| `SharedHandle` | what the Python module promises the users of a directory (abstract) | the open handle each user has, the directory of each handle in use; `InstanceRegistry` implements it |
| `CacheEntry` | what the Rust cache promises (abstract) | an entry is usable or not; an answered path was usable during its call |
| `NativeCache` | `ensure`, `valid_cache`, `publish` on Unix | trees with an identity, names that point at them, one action per file system operation; implements `CacheEntry` |
| `GenerationCache` | `publish` on Windows | the marker, and which places of the entry hold something and which hold all; implements `CacheEntry` |
| `ViewOrder` | `prune_unsupported_views`, `order_views` | the loops with their loop variables, one action per turn |
| `Migration` | `run_dump`, `run_restore` over `ViewOrder` | the dump as a sequence of items, written and replayed one by one; `rows` is the loop over the rows of one table with its batch, `counted` what `validate_row_counts` has read so far. One action per row, statement and count |
| `RustRuntime` | `Native::get`, `set_runtime_cache_dir`, `Seekdb` over `Bundle::ensure` | the mutex and what it guards, the loaded library's root, one action per stretch between lock, cache and library; the cache answers as `CacheEntry` promises (`seen`) |
| `NodeBinding` | `seekdb_node.c` under `index.ts` | the queue of libuv's pool, the stage of each open, and who holds its handle: task, instance or nobody; one action per callback of the main thread |
| `JavaBinding` | `seekdb_jni.c` under `SeekDB.java` | the monitor of each object, and what each native call has allocated; one action per conversion |
| `Shell` | `seekdb_cli.c` | the input, how far it was read, the statement collected, and where the buffer was full (`cuts`); one action per line |

`MC*` modules give constants and symmetry to TLC; `*Proofs` modules hold the theorems. A
definition named `A_B` that precedes `A` is `A` with the defect `B`. No specification
uses it; it shows which property would notice that defect.

Composition. `Migration` extends `ViewOrder` and runs its loops as a phase of the dump;
that it is a refinement is the theorem `ViewsRun`. `SeekdbLifecycle` refines
`SharedServer` (`serving` from `pidOwner` and `server`, `opened` from `pc`, `uses` from
`found`), and `InstanceRegistry` refines `SharedHandle` (a user is a thread, an instance
or a connection, and what it uses is its `shared_ptr`, as long as the handle behind it
is open). `NativeCache` and `GenerationCache` both refine `CacheEntry` (`usable <-
Complete`, `answer` from `pc`), and `RustRuntime` sees the cache only as `CacheEntry`
promises it. `Endpoint` details `probe_server`, one step of `SeekdbLifecycle`, and
`SpawnArguments` details its step `Spawn`; `InstanceRegistry`, `NodeBinding`,
`JavaBinding` and `RustRuntime` see of it only open and closed handles, since every call
returns (`OpenReturns`) and a handle is served until it is closed (`KeepsService`).

`MCLibrary`, `MCBindings` and `MCNativeCache` put several specifications into one run. A
variable that no action changes (`part`, `program`, `unix`) says which of them a
behaviour is about, and the variables of the others stay at one initial value: the
reachable states are the disjoint union of the reachable states of the parts, so every
property is checked as in a run of its own.

## 4. Runs

| Run | Bounds | Shows |
|---|---|---|
| `locks` | two applications of one thread, two servers, one tick; kills, server crashes, failed probes; no bound on opens and closes | `SingleServer`, `KeepsService`, `SeedsOnlyFreshDirectory` |
| `live` | two threads of one application, one server; kills, crashes, failing system calls and allocations (that of a list node too), reapers that cannot be started | `ProcessOwned`, `OpenReturns`, `ZombiesReaped`, `LastClientGone` |
| `exactly_one` | two applications, no fault at all | a disagreement, section 5 |
| `endpoint` | two handles of two directories (on Windows one handle and both servers), one port, two pipe names, two aliases, three ticks and a phase of one; no bound on opens, closes, kills and crashes | `EndpointLeadsHome`, `OwnedIsFound`, `IOEndsInTime`, `AliasesAccounted` |
| `library` | two connections, two cursors, two rows; cells of integers of four bits and fractions of two digits; no bound on calls. Arguments: every array of up to two entries over four keys, and five others | `NothingLost`, `RowsDelivered`, `ValuesFaithful`; `ArgvSound`, `ArgumentsAsAsked`, `RestartKeepsSettings` |
| `connection_close` | one connection, two cursors, one row | a disagreement, section 5 |
| `registry` | two threads, one directory, two instances, two states, one connection; no bound on calls | `OneHandlePerDirectory`, `KeepsSharing`, `NoHandleLeaked`, `CallsReturn` |
| `cache` | two processes, two rounds of publish and three interferences; on Unix one process with refused renames | `PublishedComplete`, `MappedFilesKept`, `ErrorsExplained`, `NoGap`, `KeepsPromise` (Unix), `GenerationsWhole`, `GenerationsKeepPromise` (Windows) |
| `migration` | every graph over three views for the loops; for the dump a table of three rows and an empty one, INSERTs of two rows or fewer, one view that uses another, one transaction or one change of the target, one damage | `PrunedExactly`, `OrderSound`, `LoopsDescend`, `OutputWhole`, `NoSilentOmission`, `RestoredWhole`, `FailuresExplained` |
| `migration_incomplete` | one table, two views | a disagreement, section 5 |
| `bindings` | Node.js: four opens, two threads of the pool. Rust: two threads, two directories, one object each. Java: two threads, two objects, arrays of up to two strings. Command line: every input of up to six characters, a buffer of four | `HandleHasOneOwner`, `OpensSettle`, `RightBundle`, `NativeCallsSafe`, `TypedIsExecuted` |
| `shell_lines` | the command line as above | a disagreement, section 5 |

Why these bounds. Two openers are the smallest number that can race, and the safety
properties are proved for any number (section 6). One tick is enough for a deadline to
pass in every phase of the lifecycle; in `endpoint` three ticks against phases of one
make a probe with full budgets and one that starts too late. One port forces servers
onto each other's; two pipe names let a stale file differ from the live name. On Windows
handles share nothing but the servers' ports, so the constraint `OneOpener` keeps one of
the two idle there; the proofs do not. Two threads meet on every pair of locks, and a
circular wait of the registry would need only two. A publisher of the cache may lose
both of its rounds to disappearances of the entry, with one interference left for the
staging tree or after the return. Three views hold a chain that one pruning pass can
miss, and every cycle; a dump is followed to its restore where one view uses another,
the rest stand alone, and at most one view uses an unselected database or an object that
is not exported (the constraint `Followed`), since other graphs differ in the loops
only. Writers, on one side or the other, are followed for dumps that export everything;
a table of no rows has no INSERT. Three rows in INSERTs of two give a full and a last,
partial batch, and a row too long for its batch ends it earlier. Four opens on a pool of
two keep two waiting while two run. A buffer of four cuts lines of six at every place,
before and after a space and a semicolon, and inside a word, `quit` included (two
letters stand for it). Where calls may repeat (`locks`, `live`, `endpoint`, `library`,
`registry`, `bindings`) nothing bounds their number.

Deadlock is checked except in `cache`, `migration`, `migration_incomplete`, `bindings`
and `shell_lines`, where every process makes one call, or reads one input, and then
stops.

Fairness. `live`: threads inside the library are scheduled, the clock ticks, a started
reaper wakes every half second (`reaper_loop_body` sleeps), servers make progress.
Nobody is obliged to open or close, and no fault has to occur. `ZombiesReaped` has the
two exceptions of the code: the child whose list node could not be allocated
(`lib/src/seekdb.c:107`, `dropped`) and every child of an application whose reaper could
not be created, since `pthread_once` does not try again. Both occur in the run; their
zombies stay while the application lives. Locks are polled
(`acquire_lock_until_deadline`), so weak fairness is enough: an opener that never gets
one still meets its deadline. `registry`: threads inside the module are scheduled.
Neither `std::mutex` nor the interpreter lock promises a waiter its turn, so nothing
strong is assumed and `CallsReturn` is conditional: either new calls keep coming for
ever or every call returns. `bindings`, for Node.js: a free thread of the pool takes the
next work, `seekdb_open` returns (`OpenReturns`), and the main thread runs what has
completed; nobody has to close, and the collector never has to run.

That the loops of `ViewOrder` end needs no fairness: `LoopsDescend` says that each of
their steps takes away from the work left, and is proved.

What is proved for every value of the constants and says little more than a type or a
consequence of control is not checked again by a run: the type invariants, and
`LocksFollowControl`, `ModeAsAsked`, `OwnersKeepConnection`, `EachOnce` and
`TargetUntouched`.

## 5. Disagreements found

* `exactly_one`. A test says that concurrent opens of one directory "must spawn exactly
  one server" (`lib/tests/test_two_clients_threads.cc:145`). `seekdb_open` releases
  `seekdb.startup` when its readiness wait ends, on timeout too
  (`lib/src/seekdb.c:1228`); the next opener probes, finds nothing and spawns again.
  `SingleServer` states what does hold: two servers live only after such a release, a
  kill, or a probe that failed on a live endpoint (`breach`).
* `connection_close`. A cursor "keeps connection alive while cursor uses it"
  (`python/src/bindings.cpp:277`): the object, not what `Connection.close` frees.

* `shell_lines`. "Lines longer than 4 KiB are truncated" (`lib/src/seekdb_cli.c:167`):
  the rest of such a line stays in the stream and is read as the next line, so it is
  executed, with a space where the line was cut.
* `migration_incomplete`. "Restore warns with the skipped-object list and continues
  without those objects" (`python/README.md:71`). A view that uses an unexported object
  of a selected database is neither pruned nor reported
  (`python/pylibseekdb/_migration.py:299`), so a dump made with `--ignore-unsupported`
  holds its `CREATE VIEW`, at which the restore fails. `FailuresExplained` names that
  view as its one exception (`lacking`).

Observed without a property. A test says that the loser of the `seekdb.pid` race
reconnects (`lib/tests/test_two_clients_threads.cc:64`); the opener fails as soon as its
own child has exited (`lib/src/seekdb.c:1231`). `mysql_errno` is said to distinguish the
end of a result from a failed fetch (`lib/src/seekdb.c:1616`); after another statement
of the connection failed, the end of a stored result is reported as an error, which the
model keeps (`EndAnswers`). When a file system refuses the rename of a new cache entry,
`publish` drops that error, tries eight rounds and reports a directory that "repeatedly
disappeared" (`rust/native_cache.rs:446`); `ErrorsExplained` names the refused rename as
a cause. A dump cut before its first line is an empty script and restores successfully;
`RestoredWhole` speaks of dumps whose first line was seen. Tables are counted one after
the other and views not at all (`python/pylibseekdb/_migration.py:764`): a client that
writes to the target after a table was counted, or drops a view, goes unseen, and
`RestoredWhole` says of such a restore only what was counted. A failing rollback reports
a failure although the new output is in its place and whole. `probe_server` reports a
local server on which the connector gave up, within a second or with an error of its
own, as not there (`lib/src/seekdb.c:536`), so a second server may be spawned for it;
`OwnedIsFound` states this as its exception (`unheard`). A name under `/tmp` stays when
`unlink` or `rmdir` fails (`lib/src/seekdb.c:300`), and programs that clean `/tmp` are
not modelled. Statements that end within one line are sent to the server as one
(`lib/src/seekdb_cli.c:249`), where the banner says that they end with a semicolon
(`:218`); `TypedIsExecuted` says so too and does not separate them. The fraction of a
`DATETIME(n)` is read as a number of microseconds whatever its digits: ".123" becomes
123 microseconds (`ShortFraction` in `CellValues`). A ZEROFILL number of 32 characters
or more, a subnormal, a zero date and text that is not UTF-8 raise (`Unrepresentable`).
The command line prints "N rows in set" also after a failed fetch, and drops a statement
without a semicolon at the end of its input. On Windows a publisher that comes late may
put its marker over that of a healthy entry, so `NoGap` is not claimed there; what the
marker then names is whole all the same.

## 6. Proofs

Checked by TLAPS for every value of the constants, under the named assumptions of the
modules (kinds of constants, `PhaseBudget <= RequiredBudget`, distinct model values).

* `SeekdbLifecycleProofs`. The inductive invariant adds to the types: who holds the
  locks at which `pc` (`LockInv`), what server states allow of the pid and exclusive
  locks (`ServerInv`), which local variables are set where (`LocalInv`), what a verified
  probe implies about its server (`FoundInv`), and, while there was no breach, that an
  opener about to spawn knows there is no live server (`SpawnInv`) and that a seeded
  child had an empty directory (`SeedInv`). `SingleServer` alone is not inductive: it
  needs that nobody can become live between the probe repeated under `seekdb.startup`
  and the spawn. Proved: `TypeOK`, `SingleServer`, `HandleServed`, `ProcessOwned`,
  `LocksFollowControl`, `SeedsOnlyFreshDirectory`, and that `SeekdbLifecycle` implements
  `SharedServer` (`ServiceKept`): a step that hands out a handle attaches it to the one
  server that serves, since a verified server is pinned from before its probe
  (`FoundInv`) and whoever serves owns the directory (`ServerInv`); a server stops with
  no handle left, since whoever has one has `seekdb.clients` shared (`LockInv`).
* `SpawnArgumentsProofs`. `Progress` relates the counters to the loop index; the loops
  write as many entries as `count_seed_pairs` counted. What the entries mean is a second
  invariant: the pairs written so far give every key the last of the caller's entries
  seen so far, behind the defaults and behind the fixed pairs (`GivenInv`), and a start
  that already ended says what `AskedInv` keeps. "Last" is the greatest index of a set,
  and the first entry found is its least one (`FirstOf`). Proved: `TypeOK`, `ArgvFits`,
  `NothingLeaks`, and so `ArgvSound`; `ArgumentsAsAsked`, `RestartKeepsSettings`.
* `DriverConnectionProofs`. The invariant adds that a result of a cursor points at the
  connection the cursor shares, and that what a cursor has given and what its result
  still holds make up the rows of its statement. That a cell keeps its value is shown
  for each kind of column, for every width and number of digits (`EveryCell`). Proved:
  `TypeOK`, `NothingLost`, `ModeAsAsked`, `OwnersKeepConnection`, `RowsDelivered`,
  `ValuesFaithful`.
* `InstanceRegistryProofs`. The holders of a state are objects of three kinds; the
  invariant says what a thread at each place has in hand (`ThreadInv`), which mutex it
  owns there (`LockInv`), that an instance sharing a state is known to somebody
  (`KeptInv`), what a thread that counted the users of a state may rely on (`CountInv`),
  which states nobody can reach any more (`DyingInv`), and that an open handle with a
  holder is the registered one (`RegisteredInv`). Proved: `TypeOK`,
  `OneHandlePerDirectory`, `UsedHandleOpen`, `NoHandleLeaked`, and that
  `InstanceRegistry` implements `SharedHandle` (`SharingKept`). Every step changes one
  pointer, moves one into another user, or closes one handle, and each of these has a
  lemma (`DropStep`, `CopyStep`, `MoveStep`, `OpenStep`, `CloseStep`); the invariant
  supplies their conditions, such as that a pointer can be copied only while its handle
  is open, since whoever closed a handle still holds the mutex under which it is copied.
* `NativeCacheProofs`. Trees are private until published (`PlaceInv`), ready trees are
  complete (`ContentInv`), a process that read a marker will not find the files of a
  tree nobody saw complete (`SeenInv`), and every lost round had a disappearance of its
  own, of the entry or of the staging tree (`RoundInv`). Of the generations on Windows:
  one holds nothing and is named by nobody before its owner publishes it
  (`GenPlaceInv`), a reader between the inventory and the files it lists has seen what
  it is going to find (`GenSeenInv`), and what an inventory named once stays whole for
  those who follow it (`GenKeptInv`). Proved: all invariants, `NoGap`, and that
  `NativeCache` and `GenerationCache` implement `CacheEntry`: initial states map to
  initial states and every step maps to a step or a stutter.
* `EndpointProofs`. A server that listens is in its pipe file, and a port has one server
  (`ServerInv`); a name under `/tmp` belongs to the one handle that made it
  (`AliasInv`); while a probe met no moment without a server and the connector did not
  give up on its local endpoint, it talks to the one it started with (`ProbeInv`); what
  was verified stays the endpoint of the handle's own directory until that server ends
  (`VerifiedInv`). Proved: `TypeOK`, `EndpointLeadsHome`, `OwnedIsFound`,
  `IOEndsInTime`, `AliasesAccounted`.
* `MigrationProofs`. Of the loops of `ViewOrder`: a pass that changed nothing has left
  no visited view blocked (`PassInv`); an unwritten view waits for exactly its unwritten
  dependencies (`WaitInv`). Proved: `PrunedExactly`, `OrderSound`, `EachOnce`,
  `LoopsDescend`. That `skipped` is the least closed set is stated without induction: it
  is a part of every closed set, and closed at the end. A dump is a sequence of items
  that grows by one at a time, and the invariants speak of all its items. `HeaderInv`:
  it begins with its format and says what it omits; only a finished file reaches its
  destination. `ContentInv`: while a table is read, the rows its SELECT has yet to give,
  those in the batch and those written make up the snapshot; the counts in the dump are
  those of the snapshot, the views are exported ones, and the end marker stands after
  all of them; a truncation keeps this, since it takes items from the end. `ReaderInv`:
  the metadata of the restore is that of the items it consumed, and until another client
  writes, so are the views, and a counted table is as it was counted. Together they give
  one moment of the source. `PlaceInv`: views are ordered before anything is written,
  and stand behind all tables. `ReplayInv`: there is a run of the target's tables, one
  per prefix of the dump, in which every statement is accepted, but for a view over an
  unexported object, and whose end is the snapshot; the restore follows it as long as
  nobody interferes, so a failure has a cause. `ViewsRun` carries the theorems of
  `ViewOrder` over, which is where a view's dependencies come before it. Proved:
  `TypeOK`, `TargetUntouched`, `OutputWhole`, `NoSilentOmission`, `RestoredWhole`,
  `FailuresExplained`.
* `BindingProofs`. Node.js: an open waits in the queue once (`QueueInv`) and goes from
  its work to its promise to its object (`StageInv`). Proved: `HandleHasOneOwner`. Rust:
  a thread is inside `Native::get` exactly while it holds the mutex (`MutexInv`), and
  what it works for cannot change meanwhile (`BundleInv`). Proved: the types,
  `RightBundle`. Java: what a call has allocated follows from where it is (`HeapInv`); a
  new object is known to its `open` alone, and the other calls own the monitor
  (`ObjectInv`). Proved: `NativeCallsSafe`. Command line: the words of the executed
  statements and of the collected text, one after the other, are those of the lines read
  so far (`Told`). A line begins at the beginning of the input, behind a newline or at a
  cut (`AtBeginning`), so a space put in front of it joins no word and breaks none that
  the cut did not break; the executed statements end in a space (`Behind`); where a line
  is cut the buffer was full of it (`CutsFull`). `Words` and `FlattenSeq` are recursive
  functions: that they exist and go over concatenations is shown for each length up to
  that of the sequence at hand (`Upwards`). Proved: `TypedIsExecuted`, where `read_line`
  has room for one character and the end of a string (`BufSize >= 2`).

Only model-checked: the properties under fairness (`OpenReturns`, `ZombiesReaped`,
`LastClientGone`, `CallsReturn`, `OpensSettle`), which the prover cannot treat. Every
other property of a passing run is proved.

## 7. Abstractions

* One database directory in `SeekdbLifecycle`; directories share nothing but
  `g_spawned`, which the model keeps per application.
* The server is external: that it takes `seekdb.pid`, fills `store/sstable`, listens,
  serves, and stops when `seekdb.clients` is free is what the library and its tests rely
  on. MariaDB Connector/C is external: its calls succeed or fail.
* The clock is a counter per thread, decremented by any amount of waiting.
* In `SeekdbLifecycle` the Windows flavours of locks and children (`LockFileEx`, jobs)
  are left out, and a probe is only its result (`ProbeOutcomes`); `Endpoint` says how it
  comes about. Error texts and logging are left out.
* `Endpoint` keeps of a spawn only that a server comes up. The server writes the name of
  its pipe to `run/sql.pipe`, a name no other directory uses, and reports its port and
  UUID there: the library relies on it.
* `CellValues` keeps of a text what it says: a number, a class of value, how many digits
  a fraction has, and whether it is longer than a getter's buffer.
* `Migration` counts rows and keeps no SQL text; whether a row is too long for its batch
  is a choice. Schemas do not change during a dump, as the manual asks. The data of a
  transaction is any change of one row per table. Every table has a column that is not
  generated: one without would be dumped with no rows (`_migration.py:463`). The SQL of
  a view may fail in the target for the views and objects it uses only. A comment of a
  dump that was cut short says nothing that parses, or what it said; a damaged end of a
  file or pipe is the only damage. Other clients change the target once.
* `NativeCache` sees three parts of a tree: the files, the archive and the marker.
  `GenerationCache` sees whether a place holds something and whether it holds all.
  Outsiders damage or remove the entry and, on Unix, remove a staging tree. What is
  inside a staging tree is taken to be its process's own: with the inside damaged,
  `valid_cache` could read the marker of one tree and the files of another.
* `Shell` writes text over two letters, a space, a semicolon and a newline; the letters
  one after the other are `quit`. Quotes are letters: the code knows none. How much
  space stands between two words is not compared, and failing allocations of the command
  line are not followed.
* `RustRuntime` reads `SEEKDB_CACHE_DIR` as constant, and leaves out the server path
  that Windows configures after each repair. A poisoned mutex is taken all the same by
  the code.
* `NodeBinding` runs one callback of the main thread as one step, as Node.js does. A
  failing `seekdb_close` is left out: a handle that exists is closed.
* `DriverConnection` gives a connection to one thread at a time, as the client library
  asks.

* Not modelled. *Packaging* has no state at run time. *Rust build cache*: a build script
  that checks the digest of an archive before each use and shares the entry of the
  native cache, which is modelled. *Python async open* is one `to_thread` call.
  *Statement splitting* of the restore is a scanner of characters: the dump is modelled
  by its statements. *Schema changes during a dump* are excluded by the manual; one made
  between the inventory and the snapshot (`_migration.py:582`) would be missed.
  *Connections used by two threads at once* (`bindings.cpp:524`) are outside what the
  client library allows, and the bindings do not exclude them.

## 8. Plan

1. Done: every component above but those listed as not modelled, proofs of every safety
   property that a passing run checks, and that `SeekdbLifecycle` implements
   `SharedServer`, `InstanceRegistry` implements `SharedHandle`, and `NativeCache` and
   `GenerationCache` implement `CacheEntry`.
2. `iter_sql_statements` over character classes, against a definition of where a
   statement ends, and the round trip of what the dump writes.
3. An abstract restore (the target is untouched, or holds one moment of the source) that
   `Migration` implements.
4. `prepare_archive` over `CacheEntry`, and the Windows flavour of the lifecycle locks.
