---------------------------- MODULE SpawnArguments ----------------------------
(***************************************************************************)
(* The arguments a spawned server gets: validate_parameters,               *)
(* build_spawn_argv and free_spawn_argv of lib/src/seekdb.c, allocation by *)
(* allocation, over repeated starts of one database directory.             *)
(***************************************************************************)
EXTENDS Integers, Sequences, FiniteSets

CONSTANTS
  Callers,  \* the parameter arrays callers pass, NULL terminator left out
  Keys,     \* server parameters whose persisted values are followed
  Values,   \* values a user may give them while the server runs
  Unset

ASSUME CallersAssumption == Callers \subseteq Seq(STRING)
ASSUME KeysAssumption == Keys \subseteq STRING /\ Values \subseteq STRING /\ Unset \notin STRING

VARIABLES
  pc,          \* where seekdb_open is
  parameters,  \* the caller's array: key, value, key, value, ...
  first_init,
  argc,        \* slots allocated for argv, the last one for NULL
  argv_i,      \* slots written
  owned_count, \* slots allocated for owned
  owned_n,     \* "key=value" strings allocated
  port,        \* the value passed with --port, or Unset
  given,       \* the <<key, value>> pairs passed with --parameter
  next,        \* index of the loop that is running
  blocks,      \* how many are allocated and not freed
  settings     \* what the server persisted; <<>> before its first start

argumentVars == <<pc, parameters, first_init, argc, argv_i, owned_count, owned_n, port,
          given, next, blocks, settings>>

\* A definition A_B that precedes A is A with the defect B.

DefaultKey == <<"memory_budget", "log_disk_size">>
DefaultValue == <<"1G", "2G">>
default_mysql_port_mode == "disabled"

is_driver_parameter(key) == key \in {"port", "mysql_port_mode"}
is_default_parameter_key(key) == \E p \in DOMAIN DefaultKey : DefaultKey[p] = key

Entries == 1 .. (Len(parameters) \div 2)
Key(e) == parameters[2 * e - 1]
Val(e) == parameters[2 * e]

validate_parameters ==
  /\ Len(parameters) % 2 = 0
  /\ \A e \in Entries : Key(e) \notin {"", "mysql_port"}

parameters_lookup_Last(key, default) ==
  LET hits == {e \in Entries : Key(e) = key}
  IN  IF hits = {} THEN default ELSE Val(CHOOSE e \in hits : \A f \in hits : f <= e)

\* The first entry wins.
parameters_lookup(key, default) ==
  LET hits == {e \in Entries : Key(e) = key}
  IN  IF hits = {} THEN default ELSE Val(CHOOSE e \in hits : \A f \in hits : e <= f)

Seed(e) == ~is_driver_parameter(Key(e)) /\ ~is_default_parameter_key(Key(e))
SeedsUpTo(n) == {e \in 1..n : e \in Entries /\ Seed(e)}

count_seed_pairs_NoDefaults == Cardinality(SeedsUpTo(Len(parameters) \div 2))
count_seed_pairs == Len(DefaultKey) + Cardinality(SeedsUpTo(Len(parameters) \div 2))

passed_port == parameters_lookup("port", "0")
pass_port == passed_port # "0"

-----------------------------------------------------------------------------
ArgumentsInit ==
  /\ pc = "idle"
  /\ parameters = <<>> /\ first_init = FALSE
  /\ argc = 0 /\ argv_i = 0 /\ owned_count = 0 /\ owned_n = 0
  /\ port = Unset /\ given = <<>> /\ next = 0 /\ blocks = 0
  /\ settings = <<>>

\* seekdb_open as far as it spawns: arguments are checked before anything else;
\* the server persists its settings when it first starts.
Open(p) ==
  /\ pc = "idle"
  /\ parameters' = p
  /\ pc' = "validate"
  /\ UNCHANGED <<first_init, argc, argv_i, owned_count, owned_n, port, given,
                 next, blocks, settings>>

Validate ==
  /\ pc = "validate"
  /\ first_init' = (settings = <<>>)
  /\ pc' = IF validate_parameters THEN "alloc" ELSE "return"
  /\ UNCHANGED <<parameters, argc, argv_i, owned_count, owned_n, port, given,
                 next, blocks, settings>>

\* argv and owned are sized before anything is written, and argv comes first.
Allocate ==
  LET pairs == IF first_init THEN count_seed_pairs ELSE 0 IN
  /\ pc = "alloc"
  /\ \/ pc' = "return" /\ UNCHANGED <<argc, owned_count, blocks>>
     \/ /\ pc' = "owned"
        /\ argc' = 4 + (IF pass_port THEN 2 ELSE 0) + 2 + pairs * 2 + 1
        /\ owned_count' = pairs + 1
        /\ blocks' = blocks + 1
  /\ UNCHANGED <<parameters, first_init, argv_i, owned_n, port, given, next, settings>>

\* The second calloc; without it argv goes too.  Then the fixed arguments.
AllocateOwned ==
  /\ pc = "owned"
  /\ \/ pc' = "return" /\ blocks' = blocks - 1 /\ UNCHANGED <<argv_i, port>>
     \/ /\ pc' = "mode"
        /\ blocks' = blocks + 1
        /\ argv_i' = IF pass_port THEN 6 ELSE 4
        /\ port' = IF pass_port THEN passed_port ELSE Unset
  /\ UNCHANGED <<parameters, first_init, argc, owned_count, owned_n, given, next, settings>>

\* append_parameter_kv succeeds, or its malloc fails.
append_parameter_kv(key, val) ==
  /\ given' = Append(given, <<key, val>>)
  /\ owned_n' = owned_n + 1
  /\ argv_i' = argv_i + 2
  /\ blocks' = blocks + 1

AppendFails ==
  /\ pc' = "fail"
  /\ UNCHANGED <<given, owned_n, argv_i, blocks, next>>

AppendMode_SeedsAlways ==
  /\ pc = "mode"
  /\ \/ AppendFails
     \/ /\ append_parameter_kv("mysql_port_mode",
             parameters_lookup("mysql_port_mode", default_mysql_port_mode))
        /\ pc' = "defaults"
        /\ next' = 1
  /\ UNCHANGED <<parameters, first_init, argc, owned_count, port, settings>>

AppendMode ==
  /\ pc = "mode"
  /\ \/ AppendFails
     \/ /\ append_parameter_kv("mysql_port_mode",
             parameters_lookup("mysql_port_mode", default_mysql_port_mode))
        /\ pc' = IF first_init THEN "defaults" ELSE "built"
        /\ next' = 1
  /\ UNCHANGED <<parameters, first_init, argc, owned_count, port, settings>>

AppendDefault ==
  /\ pc = "defaults"
  /\ \/ /\ next > Len(DefaultKey)
        /\ pc' = "caller" /\ next' = 1
        /\ UNCHANGED <<given, owned_n, argv_i, blocks>>
     \/ /\ next <= Len(DefaultKey)
        /\ \/ AppendFails
           \/ /\ append_parameter_kv(DefaultKey[next],
                   parameters_lookup(DefaultKey[next], DefaultValue[next]))
              /\ next' = next + 1
              /\ UNCHANGED pc
  /\ UNCHANGED <<parameters, first_init, argc, owned_count, port, settings>>

AppendCaller ==
  /\ pc = "caller"
  /\ \/ /\ next \notin Entries
        /\ pc' = "built" /\ next' = 0
        /\ UNCHANGED <<given, owned_n, argv_i, blocks>>
     \/ /\ next \in Entries /\ ~Seed(next)
        /\ next' = next + 1
        /\ UNCHANGED <<pc, given, owned_n, argv_i, blocks>>
     \/ /\ next \in Entries /\ Seed(next)
        /\ \/ AppendFails
           \/ /\ append_parameter_kv(Key(next), Val(next))
              /\ next' = next + 1
              /\ UNCHANGED pc
  /\ UNCHANGED <<parameters, first_init, argc, owned_count, port, settings>>

Free_ArraysOnly ==
  /\ pc \in {"fail", "free"}
  /\ blocks' = IF pc = "fail" THEN blocks - 2 ELSE blocks - owned_n - 2
  /\ pc' = "return"
  /\ UNCHANGED <<parameters, first_init, argc, argv_i, owned_count, owned_n, port,
                 given, next, settings>>

\* The fail label, and free_spawn_argv once the child is spawned or at cleanup.
Free ==
  /\ pc \in {"fail", "free"}
  /\ blocks' = blocks - owned_n - 2
  /\ pc' = "return"
  /\ UNCHANGED <<parameters, first_init, argc, argv_i, owned_count, owned_n, port,
                 given, next, settings>>

\* The server takes --parameter pairs in order, a later one overriding an earlier
\* one, on top of what it persisted.
Applied(before) ==
  [k \in Keys |->
     LET hits == {j \in DOMAIN given : given[j][1] = k}
     IN  IF hits = {} THEN before[k]
         ELSE given[CHOOSE j \in hits : \A i \in hits : i <= j][2]]

Nothing == [k \in Keys |-> Unset]

\* The child is spawned and starts, or it never gets that far.
Start ==
  /\ pc = "built"
  /\ pc' = "free"
  /\ settings' \in {settings, Applied(IF settings = <<>> THEN Nothing ELSE settings)}
  /\ UNCHANGED <<parameters, first_init, argc, argv_i, owned_count, owned_n, port,
                 given, next, blocks>>

\* Locals die with the call.
Return ==
  /\ pc = "return"
  /\ pc' = "idle"
  /\ parameters' = <<>> /\ first_init' = FALSE /\ argc' = 0 /\ argv_i' = 0
  /\ owned_count' = 0 /\ owned_n' = 0 /\ port' = Unset /\ given' = <<>> /\ next' = 0
  /\ UNCHANGED <<blocks, settings>>

\* A user alters a parameter of the initialised directory.
Alter(k, v) ==
  /\ pc = "idle" /\ settings # <<>>
  /\ settings' = [settings EXCEPT ![k] = v]
  /\ UNCHANGED <<pc, parameters, first_init, argc, argv_i, owned_count, owned_n,
                 port, given, next, blocks>>

ArgumentsNext ==
  \/ \E p \in Callers : Open(p)
  \/ Validate \/ Allocate \/ AllocateOwned \/ AppendMode \/ AppendDefault \/ AppendCaller
  \/ Free \/ Start \/ Return
  \/ \E k \in Keys, v \in Values : Alter(k, v)

ArgumentsSpec == ArgumentsInit /\ [][ArgumentsNext]_argumentVars

-----------------------------------------------------------------------------
PC == {"idle", "validate", "alloc", "owned", "mode", "defaults", "caller", "built",
       "fail", "free", "return"}

ArgumentsTypeOK ==
  /\ pc \in PC
  /\ parameters \in Seq(STRING)
  /\ first_init \in BOOLEAN
  /\ argc \in Nat /\ argv_i \in Nat /\ owned_count \in Nat /\ owned_n \in Nat
  /\ next \in Nat /\ blocks \in Nat

\* argv and owned are written only inside what was allocated for them, the last
\* slot staying NULL, and a finished build has used every slot: the separate count
\* of count_seed_pairs and the loops of build_spawn_argv agree.
ArgvFits ==
  /\ pc \in {"mode", "defaults", "caller", "built"} =>
       argv_i < argc /\ owned_n <= owned_count
  /\ pc = "built" => argv_i + 1 = argc /\ owned_n = owned_count

\* Whichever allocation fails, a returned seekdb_open holds no block of the
\* argument vector, and nothing is freed that was not allocated.
NothingLeaks ==
  /\ pc \in {"idle", "validate", "alloc", "return"} => blocks = 0
  /\ pc = "owned" => blocks = 1
  /\ pc \in PC \ {"idle", "validate", "alloc", "owned", "return"} => blocks = owned_n + 2

\* The vector stays inside its arrays and leaves nothing behind, for every caller's array
\* and whichever step fails (build_spawn_argv and the labels of seekdb_open).
ArgvSound == ArgvFits /\ NothingLeaks

\* What a first start leaves the server with, from the header's description: the
\* driver's defaults unless the caller's first entry for that key overrides them,
\* every other ordinary key as passed last, the port mode always, the port never.
Wanted(k) ==
  LET hits == {e \in Entries : Key(e) = k}
      first == Val(CHOOSE e \in hits : \A f \in hits : e <= f)
      last == Val(CHOOSE e \in hits : \A f \in hits : f <= e)
  IN  IF k = "port" THEN Unset
      ELSE IF hits # {} THEN IF k = "mysql_port_mode" \/ is_default_parameter_key(k)
                             THEN first ELSE last
      ELSE IF k = "mysql_port_mode" THEN default_mysql_port_mode
      ELSE IF is_default_parameter_key(k)
           THEN DefaultValue[CHOOSE p \in DOMAIN DefaultKey : DefaultKey[p] = k]
      ELSE Unset

\* The arguments of a first start seed exactly the settings the caller asked for;
\* a restart is given the port mode and nothing else.
ArgumentsAsAsked ==
  pc = "built" =>
    IF first_init THEN Applied(Nothing) = [k \in Keys |-> Wanted(k)]
    ELSE given = <<<<"mysql_port_mode", Wanted("mysql_port_mode")>>>>

\* A restart changes no persisted setting except the operational port mode, which
\* it always sets to what this caller asked for (issue #26).
RestartKeepsSettings ==
  [][pc = "built" /\ settings # <<>> =>
       \A k \in Keys : settings'[k] \in
         {settings[k], IF k = "mysql_port_mode" THEN Wanted(k) ELSE settings[k]}]_argumentVars
=============================================================================
