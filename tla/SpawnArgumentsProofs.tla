------------------------- MODULE SpawnArgumentsProofs -------------------------
(* Theorems about SpawnArguments for every set of parameter arrays: no array,  *)
(* however long, makes build_spawn_argv write outside what it allocated, no    *)
(* failing allocation leaks, and the server is asked for what the caller       *)
(* asked for.                                                                  *)
EXTENDS SpawnArguments, FiniteSetTheorems, WellFoundedInduction, TLAPS

N == Len(parameters) \div 2
Seeds(n) == Cardinality(SeedsUpTo(n))

\* Before anything is allocated nothing is owned.
Unbuilt == {"idle", "validate", "alloc", "owned"}

\* How much is still to be written, at each point of the build.
Progress ==
  /\ pc \in Unbuilt => owned_n = 0
  /\ pc = "owned" => LET pairs == IF first_init THEN Len(DefaultKey) + Seeds(N) ELSE 0
                     IN  /\ argc = 4 + (IF pass_port THEN 2 ELSE 0) + 2 + pairs * 2 + 1
                         /\ owned_count = pairs + 1
  /\ pc = "mode" => LET pairs == IF first_init THEN Len(DefaultKey) + Seeds(N) ELSE 0
                    IN  /\ argc = argv_i + 2 + 2 * pairs + 1
                        /\ owned_n = 0 /\ owned_count = pairs + 1
  /\ pc = "defaults" => /\ next \in 1 .. Len(DefaultKey) + 1
                        /\ argc = argv_i + 2 * (Len(DefaultKey) + 1 - next) + 2 * Seeds(N) + 1
                        /\ owned_n = next
                        /\ owned_count = Len(DefaultKey) + Seeds(N) + 1
  /\ pc = "caller" => /\ next \in 1 .. N + 1
                      /\ argc = argv_i + 2 * (Seeds(N) - Seeds(next - 1)) + 1
                      /\ owned_n = Len(DefaultKey) + 1 + Seeds(next - 1)
                      /\ owned_count = Len(DefaultKey) + 1 + Seeds(N)
  /\ pc = "built" => argc = argv_i + 1 /\ owned_n = owned_count

Counts == /\ parameters \in Seq(STRING) /\ first_init \in BOOLEAN
          /\ argc \in Nat /\ argv_i \in Nat /\ owned_count \in Nat /\ owned_n \in Nat
          /\ blocks \in Nat /\ next \in Nat

Inv == Counts /\ Progress /\ NothingLeaks

-----------------------------------------------------------------------------
(* Counting the caller's seeds                                             *)

\* One more entry adds one seed or none.
LEMMA SeedsStep ==
  ASSUME NEW n \in Nat
  PROVE  /\ SeedsUpTo(n) \subseteq 1..n
         /\ IsFiniteSet(SeedsUpTo(n)) /\ Seeds(n) \in Nat
         /\ (n + 1 \in Entries /\ Seed(n + 1)) => Seeds(n + 1) = Seeds(n) + 1
         /\ ~(n + 1 \in Entries /\ Seed(n + 1)) => Seeds(n + 1) = Seeds(n)
<1>1. SeedsUpTo(n) \subseteq 1..n
  BY DEF SeedsUpTo
<1>2. IsFiniteSet(SeedsUpTo(n)) /\ Seeds(n) \in Nat
  <2>1. IsFiniteSet(1..n)
    BY FS_Interval
  <2>2. QED
    BY <1>1, <2>1, FS_Subset, FS_CardinalityType DEF Seeds
<1>3. CASE n + 1 \in Entries /\ Seed(n + 1)
  <2>1. SeedsUpTo(n + 1) = SeedsUpTo(n) \cup {n + 1} /\ n + 1 \notin SeedsUpTo(n)
    BY <1>3 DEF SeedsUpTo
  <2>2. Cardinality(SeedsUpTo(n) \cup {n + 1}) = Cardinality(SeedsUpTo(n)) + 1
    BY <1>2, <2>1, FS_AddElement
  <2>3. QED
    BY <1>1, <1>2, <1>3, <2>1, <2>2 DEF Seeds
<1>4. CASE ~(n + 1 \in Entries /\ Seed(n + 1))
  <2>1. SeedsUpTo(n + 1) = SeedsUpTo(n)
    BY <1>4 DEF SeedsUpTo
  <2>2. QED
    BY <1>1, <1>2, <1>4, <2>1 DEF Seeds
<1>5. QED
  BY <1>1, <1>2, <1>3, <1>4

\* No prefix has more seeds than the whole.
LEMMA SeedsMonotone ==
  ASSUME NEW n \in Nat, NEW m \in Nat, n <= m
  PROVE  Seeds(n) <= Seeds(m)
<1>1. SeedsUpTo(n) \subseteq SeedsUpTo(m)
  BY DEF SeedsUpTo
<1>2. QED
  BY <1>1, SeedsStep, FS_Subset DEF Seeds

\* Before the first entry there is none.
LEMMA SeedsEmpty == Seeds(0) = 0
<1>1. SeedsUpTo(0) = {}
  BY DEF SeedsUpTo
<1>2. QED
  BY <1>1, FS_EmptySet DEF Seeds

-----------------------------------------------------------------------------
(* The invariant                                                           *)

\* Each step of seekdb_open keeps the count of what is still to be written.
LEMMA InvStep == Inv /\ [ArgumentsNext]_argumentVars => Inv'
<1> SUFFICES ASSUME Inv, [ArgumentsNext]_argumentVars PROVE Inv'
  OBVIOUS
<1> USE DEF Inv, Counts, NothingLeaks, Unbuilt, PC
<1>N. N \in Nat /\ Entries = 1..N
  BY DEF N, Entries
<1>D. Len(DefaultKey) = 2
  BY DEF DefaultKey
<1>S. /\ Seeds(0) = 0
      /\ \A m \in Nat : /\ Seeds(m) \in Nat
                        /\ m <= N => Seeds(m) <= Seeds(N)
                        /\ m + 1 \in 1..N /\ Seed(m + 1) => Seeds(m + 1) = Seeds(m) + 1
                        /\ ~(m + 1 \in 1..N /\ Seed(m + 1)) => Seeds(m + 1) = Seeds(m)
  BY <1>N, SeedsStep, SeedsMonotone, SeedsEmpty
<1>C. Seeds(N) \in Nat /\ \A m \in Nat : Seeds(m) \in Nat
  BY <1>N, SeedsStep
<1>U. UNCHANGED parameters => N' = N /\ \A m \in Nat : Seeds(m)' = Seeds(m)
  BY DEF N, Seeds, SeedsUpTo, Entries, Seed, Key
<1>P. UNCHANGED parameters => UNCHANGED pass_port
  BY DEF pass_port, passed_port, parameters_lookup, Entries, Key, Val
<1>1. ASSUME NEW p \in Callers, Open(p) PROVE Inv'
  BY <1>1, CallersAssumption DEF Open, Progress
<1>2. CASE Validate
  BY <1>2 DEF Validate, Progress
<1>3. CASE Allocate
  <2> DEFINE pairs == IF first_init THEN Len(DefaultKey) + Seeds(N) ELSE 0
  <2>1. pairs \in Nat
    <3>1. Len(DefaultKey) + Seeds(N) \in Nat
      BY <1>C, <1>D
    <3>2. QED
      BY <3>1
  <2>2. CASE pc' = "return"
    BY <1>3, <2>2 DEF Allocate, Progress
  <2>3. CASE pc' = "owned"
    <3>1. /\ pc = "alloc" /\ owned_n' = 0 /\ blocks' = blocks + 1
          /\ argc' = 4 + (IF pass_port THEN 2 ELSE 0) + 2 + pairs * 2 + 1
          /\ owned_count' = pairs + 1
          /\ UNCHANGED <<parameters, first_init, argv_i, next, pass_port>>
      BY <1>3, <2>3, <1>P DEF Allocate, Progress, count_seed_pairs, Seeds, N
    <3>2. pairs' = pairs
      BY <1>N, <1>U, <3>1
    <3>3. Counts'
      BY <2>1, <3>1
    <3>4. Progress'
      BY <2>1, <2>3, <3>1, <3>2 DEF Progress
    <3>5. QED
      BY <2>3, <3>1, <3>3, <3>4
  <2>4. QED
    BY <1>3, <2>2, <2>3 DEF Allocate
<1>O. CASE AllocateOwned
  <2> DEFINE pairs == IF first_init THEN Len(DefaultKey) + Seeds(N) ELSE 0
  <2>1. pairs \in Nat
    <3>1. Len(DefaultKey) + Seeds(N) \in Nat
      BY <1>C, <1>D
    <3>2. QED
      BY <3>1
  <2>2. CASE pc' = "return"
    BY <1>O, <2>2 DEF AllocateOwned, Progress
  <2>3. CASE pc' = "mode"
    <3>1. /\ pc = "owned" /\ owned_n' = 0 /\ blocks' = blocks + 1 /\ blocks = 1
          /\ argc = 4 + (IF pass_port THEN 2 ELSE 0) + 2 + pairs * 2 + 1
          /\ owned_count = pairs + 1
          /\ argv_i' = IF pass_port THEN 6 ELSE 4
          /\ UNCHANGED <<parameters, first_init, argc, owned_count, next>>
      BY <1>O, <2>3 DEF AllocateOwned, Progress
    <3>2. pairs' = pairs
      BY <1>N, <1>U, <3>1
    <3>3. Counts'
      BY <2>1, <3>1
    <3>4. Progress'
      BY <2>1, <2>3, <3>1, <3>2 DEF Progress
    <3>5. QED
      BY <2>3, <3>1, <3>3, <3>4
  <2>4. QED
    BY <1>O, <2>2, <2>3 DEF AllocateOwned
<1>4. CASE AppendMode
  <2>1. CASE AppendFails
    BY <1>4, <2>1 DEF AppendMode, AppendFails, Progress
  <2>2. CASE ~AppendFails
    <3>1. /\ pc = "mode" /\ owned_n' = owned_n + 1 /\ argv_i' = argv_i + 2 /\ blocks' = blocks + 1
          /\ pc' = IF first_init THEN "defaults" ELSE "built"
          /\ next' = 1
          /\ UNCHANGED <<parameters, first_init, argc, owned_count>>
      BY <1>4, <2>2 DEF AppendMode, append_parameter_kv
    <3>2. N' = N /\ Seeds(N)' = Seeds(N) /\ Seeds(N) \in Nat
      BY <1>N, <1>S, <1>U, <3>1
    <3>3. Counts' /\ NothingLeaks'
      BY <3>1
    <3>4. Progress'
      BY <3>1, <3>2 DEF Progress, DefaultKey
    <3>5. QED
      BY <3>3, <3>4
  <2>3. QED
    BY <2>1, <2>2
<1>5. CASE AppendDefault
  <2>0. UNCHANGED <<parameters, first_init, argc, owned_count>> /\ pc = "defaults"
    BY <1>5 DEF AppendDefault
  <2>1. N' = N /\ Seeds(N)' = Seeds(N) /\ Seeds(0)' = 0 /\ Seeds(N) \in Nat
    BY <1>N, <1>S, <1>U, <2>0
  <2>2. CASE AppendFails
    BY <1>5, <2>2 DEF AppendDefault, AppendFails, Progress
  <2>3. CASE next > Len(DefaultKey) /\ pc' = "caller" /\ next' = 1
             /\ UNCHANGED <<given, owned_n, argv_i, blocks>>
    BY <1>N, <2>0, <2>1, <2>3 DEF Progress, DefaultKey
  <2>4. CASE next <= Len(DefaultKey) /\ owned_n' = owned_n + 1 /\ argv_i' = argv_i + 2
             /\ blocks' = blocks + 1 /\ next' = next + 1 /\ UNCHANGED pc
    BY <1>N, <2>0, <2>1, <2>4 DEF Progress, DefaultKey
  <2>5. QED
    BY <1>5, <2>2, <2>3, <2>4 DEF AppendDefault, append_parameter_kv
<1>6. CASE AppendCaller
  <2>0. UNCHANGED <<parameters, first_init, argc, owned_count>> /\ pc = "caller"
    BY <1>6 DEF AppendCaller
  <2>1. N' = N /\ \A m \in Nat : Seeds(m)' = Seeds(m)
    BY <1>U, <2>0
  <2>2. CASE AppendFails
    BY <1>6, <2>2 DEF AppendCaller, AppendFails, Progress
  <2>3. next \in 1..N + 1 /\ next - 1 \in Nat /\ next \in Nat
    BY <2>0 DEF Progress
  <2>4. CASE next \notin Entries /\ pc' = "built" /\ next' = 0
             /\ UNCHANGED <<given, owned_n, argv_i, blocks>>
    <3>1. next - 1 = N /\ Seeds(N) \in Nat
      BY <1>N, <1>S, <2>3, <2>4
    <3>2. QED
      BY <1>D, <2>0, <2>1, <2>3, <2>4, <3>1 DEF Progress
  <2>5. CASE next \in Entries /\ ~Seed(next) /\ next' = next + 1
             /\ UNCHANGED <<pc, given, owned_n, argv_i, blocks>>
    <3>1. Seeds(next) = Seeds(next - 1)
      BY <1>N, <1>S, <2>3, <2>5
    <3>2. QED
      BY <1>N, <1>S, <2>0, <2>1, <2>3, <2>5, <3>1 DEF Progress, DefaultKey
  <2>6. CASE next \in Entries /\ Seed(next) /\ next' = next + 1
             /\ owned_n' = owned_n + 1 /\ argv_i' = argv_i + 2 /\ blocks' = blocks + 1
             /\ UNCHANGED pc
    <3>1. Seeds(next) = Seeds(next - 1) + 1
      BY <1>N, <1>S, <2>3, <2>6
    <3>2. QED
      <4>0. next \in 1..N
        BY <1>N, <2>6
      <4>1. Seeds(next - 1) \in Nat /\ Seeds(N) \in Nat /\ Seeds(N)' = Seeds(N)
        BY <1>C, <1>N, <2>1, <2>3
      <4>2. next' - 1 = next /\ next \in Nat
        BY <2>3, <2>6
      <4>3. Seeds(next - 1)' = Seeds(next)
        BY <2>1, <4>2
      <4>4. /\ argc = argv_i + 2 * (Seeds(N) - Seeds(next - 1)) + 1
            /\ owned_n = Len(DefaultKey) + 1 + Seeds(next - 1)
            /\ owned_count = Len(DefaultKey) + 1 + Seeds(N)
        BY <2>0 DEF Progress
      <4>5. /\ argc = argv_i' + 2 * (Seeds(N) - Seeds(next)) + 1
            /\ owned_n' = Len(DefaultKey) + 1 + Seeds(next)
        <5>1. argv_i' = argv_i + 2 /\ owned_n' = owned_n + 1
          BY <2>6
        <5>2. argv_i \in Nat /\ argc \in Nat
          OBVIOUS
        <5> HIDE DEF Inv, Counts, NothingLeaks
        <5>3. QED
          BY <1>D, <3>1, <4>1, <4>4, <5>1, <5>2
      <4>6. (next \in 1..N + 1)'
        BY <1>N, <2>1, <2>6, <4>0
      <4>7. Progress'
        BY <2>0, <2>6, <4>1, <4>3, <4>4, <4>5, <4>6 DEF Progress
      <4>8. QED
        BY <2>0, <2>6, <4>7
  <2>7. QED
    BY <1>6, <2>2, <2>4, <2>5, <2>6 DEF AppendCaller, append_parameter_kv
<1>7. CASE Free
  BY <1>7 DEF Free, Progress
<1>8. CASE Start
  BY <1>8 DEF Start, Progress
<1>9. CASE Return
  <2>1. Counts'
    <3>1. (first_init \in BOOLEAN)'
      BY <1>9 DEF Return
    <3>2. (parameters \in Seq(STRING))'
      BY <1>9 DEF Return
    <3>3. QED
      BY <1>9, <3>1, <3>2 DEF Return
  <2>2. Progress' /\ NothingLeaks'
    BY <1>9 DEF Return, Progress
  <2>3. QED
    BY <2>1, <2>2
<1>10. ASSUME NEW k \in Keys, NEW v \in Values, Alter(k, v) PROVE Inv'
  BY <1>10 DEF Alter, Progress
<1>11. CASE UNCHANGED argumentVars
  <2>1. N' = N /\ \A m \in Nat : Seeds(m)' = Seeds(m)
    BY <1>11, <1>U DEF argumentVars
  <2>2. Progress'
    <3>1. Seeds(N)' = Seeds(N) /\ (pc = "caller" => next - 1 \in Nat)
      BY <1>N, <2>1 DEF Progress
    <3>2. UNCHANGED <<argumentVars, pass_port>>
      BY <1>11, <1>P DEF argumentVars
    <3>3. QED
      BY <2>1, <3>1, <3>2 DEF argumentVars, Progress
  <2>3. QED
    BY <1>11, <2>2 DEF argumentVars
<1>12. QED
  BY <1>1, <1>2, <1>3, <1>O, <1>4, <1>5, <1>6, <1>7, <1>8, <1>9, <1>10, <1>11 DEF ArgumentsNext

\* The invariant holds in every reachable state.
THEOREM BuildCounts == ArgumentsSpec => []Inv
<1>1. ArgumentsInit => Inv
  <2>1. ArgumentsInit => Counts
    <3>1. ArgumentsInit => first_init \in BOOLEAN
      BY DEF ArgumentsInit
    <3>2. ArgumentsInit => parameters \in Seq(STRING)
      BY DEF ArgumentsInit
    <3>3. QED
      BY <3>1, <3>2 DEF ArgumentsInit, Counts
  <2>2. ArgumentsInit => Progress /\ NothingLeaks
    BY DEF ArgumentsInit, Progress, NothingLeaks, Unbuilt, PC
  <2>3. QED
    BY <2>1, <2>2 DEF Inv
<1>2. QED
  BY <1>1, InvStep, PTL DEF ArgumentsSpec

\* Every counter of the build stays a natural number, and control is where the code is.
THEOREM ArgumentTypes == ArgumentsSpec => []ArgumentsTypeOK
<1> DEFINE Placed == pc \in PC
<1>1. ArgumentsInit => Placed
  BY DEF ArgumentsInit, PC
<1>2. Placed /\ [ArgumentsNext]_argumentVars => Placed'
  BY DEF ArgumentsNext, argumentVars, PC, Open, Validate, Allocate, AllocateOwned, AppendMode,
     AppendDefault, AppendCaller,
     AppendFails, append_parameter_kv, Free, Start, Return, Alter
<1>3. Inv /\ Placed => ArgumentsTypeOK
  BY DEF Inv, Counts, ArgumentsTypeOK
<1> HIDE DEF Placed
<1> QED
  BY BuildCounts, <1>1, <1>2, <1>3, PTL DEF ArgumentsSpec

\* Whatever array the caller passes, build_spawn_argv writes only inside the two
\* arrays it sized in advance, and fills both.
THEOREM NeverOverruns == ArgumentsSpec => []ArgvFits
<1>1. Inv => ArgvFits
  <2> SUFFICES ASSUME Inv PROVE ArgvFits
    OBVIOUS
  <2>1. N \in Nat
    BY DEF Inv, Counts, N
  <2>2. Seeds(N) \in Nat
    BY <2>1, SeedsStep
  <2>3. pc = "caller" => Seeds(next - 1) \in Nat /\ Seeds(next - 1) <= Seeds(N)
    <3>1. pc = "caller" => next - 1 \in Nat /\ next - 1 <= N
      BY <2>1 DEF Inv, Counts, Progress
    <3>2. QED
      BY <2>1, <3>1, SeedsStep, SeedsMonotone
  <2>4. Len(DefaultKey) = 2
    BY DEF DefaultKey
  <2>5. pc = "mode" => argv_i < argc /\ owned_n <= owned_count
    BY <2>2, <2>4 DEF Inv, Counts, Progress
  <2>6. pc = "defaults" => argv_i < argc /\ owned_n <= owned_count
    BY <2>2, <2>4 DEF Inv, Counts, Progress
  <2>7. pc = "caller" => argv_i < argc /\ owned_n <= owned_count
    BY <2>2, <2>3, <2>4 DEF Inv, Counts, Progress
  <2>8. pc = "built" => argv_i < argc /\ argv_i + 1 = argc /\ owned_n = owned_count
    BY DEF Inv, Counts, Progress
  <2>9. QED
    BY <2>5, <2>6, <2>7, <2>8 DEF Inv, Counts, ArgvFits
<1>2. QED
  BY BuildCounts, <1>1, PTL

\* Whichever allocation fails, what was allocated is freed, once.
THEOREM NeverLeaks == ArgumentsSpec => []NothingLeaks
<1>1. Inv => NothingLeaks
  BY DEF Inv
<1>2. QED
  BY BuildCounts, <1>1, PTL

\* Both of them: the argument vector is sound for every caller.
THEOREM SoundArgv == ArgumentsSpec => []ArgvSound
<1>1. ArgvFits /\ NothingLeaks => ArgvSound
  BY DEF ArgvSound
<1>2. QED
  BY NeverOverruns, NeverLeaks, <1>1, PTL
-----------------------------------------------------------------------------
(* What the arguments say                                                  *)

\* The caller's strings and the driver's: the provers do not know that a literal is in STRING.
Word == STRING \cup {"mysql_port_mode", "memory_budget", "log_disk_size", "disabled", "1G", "2G"}

PortMode == <<"mysql_port_mode",
              parameters_lookup("mysql_port_mode", default_mysql_port_mode)>>
Default(i) == <<DefaultKey[i], parameters_lookup(DefaultKey[i], DefaultValue[i])>>
Ordinary(k) == ~is_driver_parameter(k) /\ ~is_default_parameter_key(k)

\* The port mode and the first n defaults, in their order.
FixedPart(n) ==
  /\ Len(given) >= n + 1
  /\ given[1] = PortMode
  /\ \A i \in 1..n : given[i + 1] = Default(i)

\* Of the caller's first n entries for k none was given, or the last of them last.
LastGiven(k, n) ==
  \/ /\ \A e \in 1..n : Key(e) # k
     /\ \A j \in 4..Len(given) : given[j][1] # k
  \/ \E e \in 1..n, j \in 4..Len(given) :
       /\ Key(e) = k /\ given[j] = <<k, Val(e)>>
       /\ \A f \in 1..n : Key(f) = k => f <= e
       /\ \A i \in 4..Len(given) : given[i][1] = k => i <= j

\* After the defaults come ordinary keys only.
SeedsGiven(n) ==
  /\ \A j \in 4..Len(given) : Ordinary(given[j][1])
  /\ \A k \in Keys : Ordinary(k) => LastGiven(k, n)

GivenInv ==
  /\ given \in Seq(Word \X Word)
  /\ pc \in {"idle", "validate", "alloc", "owned", "mode"} => given = <<>>
  /\ pc = "defaults" => Len(given) = next /\ FixedPart(next - 1)
  /\ pc = "caller" => FixedPart(2) /\ SeedsGiven(next - 1)
  /\ pc = "built" => IF first_init THEN FixedPart(2) /\ SeedsGiven(N)
                     ELSE given = <<PortMode>>

\* A first start is one of a server without settings, all through the build.
FirstInv ==
  /\ pc \in PC
  /\ pc \in {"alloc", "owned", "mode", "defaults", "caller", "built"} =>
       (first_init <=> settings = <<>>)
  /\ pc \in {"defaults", "caller"} => first_init

AskedInv == GivenInv /\ FirstInv

\* A nonempty set of natural numbers has a least element.
LEMMA FirstOf ==
  ASSUME NEW T, T \subseteq Nat, T # {}
  PROVE  \E x \in T : \A y \in T : x <= y
<1> DEFINE R == {xy \in Nat \X Nat : xy[1] < xy[2]}
<1>1. IsWellFoundedOn(R, Nat)
  BY NatLessThanWellFounded DEF OpToRel
<1> HIDE DEF R
<1>2. PICK x \in T : \A y \in T : ~ (<<y, x>> \in R)
  BY <1>1, WFMin, Zenon
<1>3. ASSUME NEW y \in T PROVE x <= y
  <2>1. <<y, x>> \notin R /\ <<y, x>> \in Nat \X Nat
    BY <1>2
  <2>2. ~(y < x)
    BY <2>1 DEF R
  <2> QED
    BY <2>2
<1> QED
  BY <1>3

\* Every step keeps what first_init says.
LEMMA FirstStep == FirstInv /\ [ArgumentsNext]_argumentVars => FirstInv'
<1> SUFFICES ASSUME FirstInv, [ArgumentsNext]_argumentVars PROVE FirstInv'
  OBVIOUS
<1> USE DEF FirstInv, PC
<1>1. CASE Validate
  <2>1. /\ pc' \in {"alloc", "return"} /\ first_init' = (settings = <<>>)
        /\ settings' = settings
    BY <1>1 DEF Validate
  <2>2. first_init' <=> settings' = <<>>
    BY <2>1, Zenon
  <2> QED
    BY <2>1, <2>2
<1>2. ASSUME \/ \E p \in Callers : Open(p)
             \/ Free \/ Start \/ Return
             \/ \E k \in Keys, v \in Values : Alter(k, v)
      PROVE  FirstInv'
  BY <1>2 DEF Open, Free, Start, Return, Alter
<1>3. ASSUME Allocate \/ AllocateOwned \/ AppendMode \/ AppendDefault \/ AppendCaller
      PROVE  FirstInv'
  BY <1>3 DEF Allocate, AllocateOwned, AppendMode, AppendDefault, AppendCaller, AppendFails
<1>4. CASE UNCHANGED argumentVars
  BY <1>4 DEF argumentVars
<1> QED
  BY <1>1, <1>2, <1>3, <1>4 DEF ArgumentsNext

\* What does not change, in the build, of the definitions about the caller's array.
LEMMA SameArray ==
  ASSUME UNCHANGED <<parameters, given>>
  PROVE  /\ PortMode' = PortMode /\ N' = N
         /\ \A n \in Nat : (FixedPart(n)' <=> FixedPart(n)) /\ (SeedsGiven(n)' <=> SeedsGiven(n))
BY DEF PortMode, N, FixedPart, Default, parameters_lookup, Entries, Key, Val, SeedsGiven,
   LastGiven, Ordinary, is_driver_parameter, is_default_parameter_key

\* One more pair is given: it comes after the others.
LEMMA Appended ==
  ASSUME NEW s \in Seq(Word \X Word), NEW x \in Word \X Word
  PROVE  /\ Append(s, x) \in Seq(Word \X Word)
         /\ Len(Append(s, x)) = Len(s) + 1
         /\ Append(s, x)[Len(s) + 1] = x
         /\ \A i \in 1..Len(s) : Append(s, x)[i] = s[i]
OBVIOUS

\* Keys and values of the array, and what is looked up in it, are strings.
LEMMA ArrayStrings ==
  ASSUME parameters \in Seq(STRING)
  PROVE  /\ N \in Nat /\ Entries = 1..N
         /\ \A e \in Entries : Key(e) \in STRING /\ Val(e) \in STRING
<1>1. N \in Nat /\ Entries = 1..N
  BY DEF N, Entries
<1>2. ASSUME NEW e \in 1..N PROVE 2 * e - 1 \in 1..Len(parameters) /\ 2 * e \in 1..Len(parameters)
  BY <1>2 DEF N
<1> QED
  BY <1>1, <1>2 DEF Key, Val

\* A key has a first entry if it has any.
LEMMA LookupWord ==
  ASSUME parameters \in Seq(STRING), NEW k, NEW d \in Word
  PROVE  parameters_lookup(k, d) \in Word
<1> DEFINE hits == {e \in Entries : Key(e) = k}
           T == {e \in Nat : e \in hits}
<1>1. CASE hits = {}
  BY <1>1 DEF parameters_lookup
<1>2. CASE hits # {}
  <2>1. hits \subseteq Nat
    BY ArrayStrings
  <2>2. \E e \in hits : \A f \in hits : e <= f
    BY <1>2, <2>1, FirstOf
  <2>3. (CHOOSE e \in hits : \A f \in hits : e <= f) \in hits
    BY <2>2
  <2> QED
    BY <1>2, <2>3, ArrayStrings DEF parameters_lookup, Word
<1> QED
  BY <1>1, <1>2

\* Every step keeps what was given.
LEMMA GivenStep == Inv /\ AskedInv /\ [ArgumentsNext]_argumentVars => GivenInv'
<1> SUFFICES ASSUME Inv, AskedInv, [ArgumentsNext]_argumentVars PROVE GivenInv'
  OBVIOUS
<1>G. /\ given \in Seq(Word \X Word) /\ next \in Nat /\ GivenInv /\ FirstInv /\ Progress
  BY DEF AskedInv, GivenInv, Inv, Counts
<1>A. /\ parameters \in Seq(STRING) /\ N \in Nat /\ Entries = 1..N
      /\ \A e \in Entries : Key(e) \in STRING /\ Val(e) \in STRING
  BY ArrayStrings DEF Inv, Counts
<1>P. PortMode \in Word \X Word
  <2>1. parameters_lookup("mysql_port_mode", default_mysql_port_mode) \in Word
    <3>1. default_mysql_port_mode \in Word
      BY DEF default_mysql_port_mode, Word
    <3> QED
      BY <1>A, <3>1, LookupWord, Zenon
  <2> QED
    BY <2>1 DEF PortMode, Word
<1>D. \A i \in 1..2 : Default(i) \in Word \X Word
  <2> SUFFICES ASSUME NEW i \in 1..2 PROVE Default(i) \in Word \X Word
    OBVIOUS
  <2>1. DefaultKey[i] \in Word /\ DefaultValue[i] \in Word
    BY DEF DefaultKey, DefaultValue, Word
  <2>2. parameters_lookup(DefaultKey[i], DefaultValue[i]) \in Word
    BY <1>A, <2>1, LookupWord, Zenon
  <2> QED
    BY <2>1, <2>2 DEF Default
<1>1. ASSUME NEW p \in Callers, Open(p) PROVE GivenInv'
  BY <1>1, <1>G DEF Open, GivenInv
<1>2. CASE Validate
  BY <1>2, <1>G DEF Validate, GivenInv
<1>3. CASE Allocate
  BY <1>3, <1>G DEF Allocate, GivenInv
<1>O. CASE AllocateOwned
  BY <1>O, <1>G DEF AllocateOwned, GivenInv
<1>4. CASE AppendMode
  <2>1. CASE AppendFails
    BY <1>4, <1>G, <2>1 DEF AppendMode, AppendFails, GivenInv
  <2>2. CASE ~AppendFails
    <3>1. /\ pc = "mode" /\ given = <<>> /\ given' = Append(given, PortMode) /\ next' = 1
          /\ pc' = IF first_init THEN "defaults" ELSE "built"
          /\ UNCHANGED <<parameters, first_init>>
      BY <1>4, <1>G, <2>2 DEF AppendMode, append_parameter_kv, PortMode, GivenInv
    <3>2. given' = <<PortMode>> /\ PortMode' = PortMode
      BY <3>1 DEF PortMode, parameters_lookup, Entries, Key, Val
    <3>3. FixedPart(0)'
      BY <3>2 DEF FixedPart
    <3>4. next' - 1 = 0
      BY <3>1
    <3> QED
      BY <1>P, <3>1, <3>2, <3>3, <3>4 DEF GivenInv
  <2> QED
    BY <2>1, <2>2
<1>5. CASE AppendDefault
  <2>0. pc = "defaults" /\ UNCHANGED <<parameters, first_init>> /\ Len(given) = next
        /\ FixedPart(next - 1) /\ next \in 1..3
    BY <1>5, <1>G DEF AppendDefault, Progress, GivenInv, DefaultKey
  <2>1. CASE AppendFails
    BY <1>5, <1>G, <2>1 DEF AppendDefault, AppendFails, GivenInv
  <2>2. CASE next > Len(DefaultKey) /\ pc' = "caller" /\ next' = 1 /\ UNCHANGED given
    <3>1. next = 3
      BY <2>0, <2>2 DEF DefaultKey
    <3>2. FixedPart(2)'
      BY <2>0, <2>2, <3>1, SameArray
    <3>0. Len(given') = 3
      BY <2>0, <2>2, <3>1
    <3>3. ASSUME NEW k \in Keys PROVE LastGiven(k, 0)'
      <4>1. 1..0 = {} /\ 4..Len(given') = {}
        BY <3>0
      <4> QED
        BY <4>1 DEF LastGiven
    <3>4. SeedsGiven(0)'
      <4>1. 4..Len(given') = {}
        BY <3>0
      <4> QED
        BY <3>3, <4>1 DEF SeedsGiven
    <3> QED
      BY <1>G, <2>2, <3>2, <3>4 DEF GivenInv
  <2>3. CASE next <= Len(DefaultKey) /\ pc' = pc /\ next' = next + 1
             /\ given' = Append(given, Default(next))
    <3>1. next \in 1..2
      BY <2>0, <2>3 DEF DefaultKey
    <3>2. /\ given' \in Seq(Word \X Word) /\ Len(given') = next'
          /\ given'[next + 1] = Default(next)
          /\ \A i \in 1..next : given'[i] = given[i]
      BY <1>D, <1>G, <2>0, <2>3, <3>1, Appended
    <3>3. PortMode' = PortMode /\ \A i \in 1..2 : Default(i)' = Default(i)
      BY <2>0 DEF PortMode, Default, parameters_lookup, Entries, Key, Val
    <3>4. FixedPart(next - 1)'
      <4>1. next' - 1 = next /\ 1..next = (1..next - 1) \cup {next}
        BY <2>3, <3>1
      <4>2. given'[1] = PortMode /\ \A i \in 1..next - 1 : given'[i + 1] = Default(i)
        BY <2>0, <3>1, <3>2 DEF FixedPart
      <4>3. \A i \in 1..next : given'[i + 1] = Default(i)'
        BY <3>1, <3>2, <3>3, <4>1, <4>2
      <4> QED
        BY <2>3, <3>1, <3>2, <3>3, <4>1, <4>2, <4>3 DEF FixedPart
    <3> QED
      BY <2>0, <2>3, <3>2, <3>4 DEF GivenInv
  <2> QED
    BY <1>5, <2>1, <2>2, <2>3 DEF AppendDefault, append_parameter_kv, Default
<1>6. CASE AppendCaller
  <2>0. /\ pc = "caller" /\ UNCHANGED <<parameters, first_init>> /\ first_init
        /\ FixedPart(2) /\ SeedsGiven(next - 1) /\ next \in 1..N + 1
    BY <1>6, <1>G DEF AppendCaller, Progress, FirstInv, GivenInv
  <2>1. CASE AppendFails
    BY <1>6, <1>G, <2>1 DEF AppendCaller, AppendFails, GivenInv
  <2>2. CASE next \notin Entries /\ pc' = "built" /\ UNCHANGED given
    <3>1. next - 1 = N
      BY <1>A, <2>0, <2>2
    <3> QED
      BY <1>A, <1>G, <2>0, <2>2, <3>1, SameArray DEF GivenInv
  <2>3. CASE next \in Entries /\ ~Seed(next) /\ next' = next + 1 /\ UNCHANGED <<pc, given>>
    <3>1. ~Ordinary(Key(next)) /\ next - 1 \in Nat /\ next \in 1..N
      BY <1>A, <2>3 DEF Seed, Ordinary
    <3>2. ASSUME NEW k \in Keys, Ordinary(k), LastGiven(k, next - 1) PROVE LastGiven(k, next)
      <4>1. Key(next) # k /\ 1..next = (1..next - 1) \cup {next}
        BY <3>1, <3>2
      <4> QED
        BY <3>2, <4>1 DEF LastGiven
    <3>3. SeedsGiven(next)
      BY <2>0, <3>2 DEF SeedsGiven
    <3>4. next' - 1 = next /\ next \in Nat
      BY <2>3, <3>1
    <3> QED
      BY <1>G, <2>0, <2>3, <3>3, <3>4, SameArray DEF GivenInv
  <2>4. CASE next \in Entries /\ Seed(next) /\ next' = next + 1 /\ pc' = pc
             /\ given' = Append(given, <<Key(next), Val(next)>>)
    <3>n. PICK n \in Nat : n = next
      BY <1>G
    <3>1. /\ Ordinary(Key(n)) /\ n - 1 \in Nat /\ n \in 1..N /\ SeedsGiven(n - 1)
          /\ given' = Append(given, <<Key(n), Val(n)>>)
      BY <1>A, <2>0, <2>4, <3>n DEF Seed, Ordinary
    <3> DEFINE L == Len(given) + 1
    <3>2. /\ given' \in Seq(Word \X Word) /\ Len(given') = L /\ L \in Nat /\ L >= 4
          /\ given'[L] = <<Key(n), Val(n)>>
          /\ \A i \in 1..L - 1 : given'[i] = given[i]
      BY <1>A, <1>G, <2>0, <3>1, Appended DEF FixedPart, Word
    <3>3. PortMode' = PortMode /\ \A i \in 1..2 : Default(i)' = Default(i)
      BY <2>0 DEF PortMode, Default, parameters_lookup, Entries, Key, Val
    <3>4. FixedPart(2)'
      <4>1. given'[1] = PortMode' /\ \A i \in 1..2 : given'[i + 1] = Default(i)'
        BY <2>0, <3>2, <3>3 DEF FixedPart
      <4> QED
        BY <3>2, <4>1 DEF FixedPart
    <3>5. \A e \in Nat : Key(e)' = Key(e) /\ Val(e)' = Val(e)
      BY <2>0 DEF Key, Val
    <3>6. \A k \in STRING : Ordinary(k)' <=> Ordinary(k)
      BY DEF Ordinary, is_driver_parameter, is_default_parameter_key
    <3> HIDE DEF L
    <3>7. ASSUME NEW k \in Keys, Ordinary(k) PROVE LastGiven(k, n)'
      <4>1. 1..n = (1..n - 1) \cup {n} /\ 4..L = (4..L - 1) \cup {L}
        BY <3>1, <3>2
      <4>2. CASE Key(n) = k
        <5>1. n \in 1..n /\ L \in 4..Len(given')
          BY <3>1, <3>2
        <5>2. \A f \in 1..n : f <= n
          OBVIOUS
        <5>3. Key(n)' = k /\ given'[L] = <<k, Val(n)'>>
          BY <3>1, <3>2, <3>5, <4>2
        <5>4. \A i \in 4..Len(given') : i <= L
          BY <3>2
        <5> QED
          BY <5>1, <5>2, <5>3, <5>4 DEF LastGiven
      <4>3. CASE Key(n) # k
        <5>1. LastGiven(k, n - 1)
          BY <3>1, <3>7 DEF SeedsGiven
        <5>2. given'[L][1] # k
          BY <3>2, <4>3
        <5>3. Len(given) = L - 1
          BY <3>2 DEF L
        <5>4. CASE (\A e \in 1..n - 1 : Key(e) # k) /\ (\A j \in 4..L - 1 : given[j][1] # k)
          <6>1. \A e \in 1..n : Key(e)' # k
            BY <3>1, <3>5, <4>1, <4>3, <5>4
          <6>2. \A j \in 4..Len(given') : given'[j][1] # k
            BY <3>2, <4>1, <5>2, <5>4
          <6> QED
            BY <6>1, <6>2 DEF LastGiven
        <5>5. ASSUME NEW e \in 1..n - 1, NEW j \in 4..L - 1,
                     Key(e) = k, given[j] = <<k, Val(e)>>,
                     \A f \in 1..n - 1 : Key(f) = k => f <= e,
                     \A i \in 4..L - 1 : given[i][1] = k => i <= j
              PROVE  LastGiven(k, n)'
          <6>1. e \in 1..n /\ j \in 4..Len(given') /\ Key(e)' = k /\ given'[j] = <<k, Val(e)'>>
            BY <3>1, <3>2, <3>5, <5>5
          <6>2. \A f \in 1..n : Key(f)' = k => f <= e
            BY <3>1, <3>5, <4>1, <4>3, <5>5
          <6>3. \A i \in 4..Len(given') : given'[i][1] = k => i <= j
            BY <3>2, <4>1, <5>2, <5>5
          <6> QED
            BY <6>1, <6>2, <6>3 DEF LastGiven
        <5> QED
          BY <5>1, <5>3, <5>4, <5>5 DEF LastGiven
      <4> QED
        BY <4>2, <4>3
    <3>8. \A j \in 4..Len(given') : Ordinary(given'[j][1])
      <4>1. 4..L = (4..L - 1) \cup {L} /\ L - 1 = Len(given)
        BY <3>2 DEF L
      <4> QED
        BY <3>1, <3>2, <4>1 DEF SeedsGiven
    <3>9. SeedsGiven(n)'
      BY <3>7, <3>8 DEF SeedsGiven, Ordinary, is_driver_parameter, is_default_parameter_key
    <3>10. next' - 1 = n
      BY <2>4, <3>n
    <3> QED
      BY <2>0, <2>4, <3>2, <3>4, <3>9, <3>10 DEF GivenInv
  <2> QED
    BY <1>6, <2>1, <2>2, <2>3, <2>4 DEF AppendCaller, append_parameter_kv
<1>7. CASE Free \/ Start \/ Return
  <2>1. given' \in {given, <<>>} /\ pc' \in {"return", "free", "idle"}
        /\ (pc' = "idle" => given' = <<>>)
    BY <1>7 DEF Free, Start, Return
  <2>2. given' \in Seq(Word \X Word)
    <3>1. <<>> \in Seq(Word \X Word) /\ given \in Seq(Word \X Word)
      BY <1>G
    <3> QED
      BY <2>1, <3>1, Zenon
  <2> QED
    BY <2>1, <2>2 DEF GivenInv
<1>8. ASSUME NEW k \in Keys, NEW v \in Values, Alter(k, v) PROVE GivenInv'
  BY <1>8, <1>G DEF Alter, GivenInv
<1>9. CASE UNCHANGED argumentVars
  <2>1. pc = "defaults" \/ pc = "caller" => next - 1 \in Nat
    BY <1>G DEF Progress
  <2> QED
    BY <1>9, <1>A, <1>G, <2>1, SameArray DEF argumentVars, GivenInv
<1> QED
  BY <1>1, <1>2, <1>3, <1>O, <1>4, <1>5, <1>6, <1>7, <1>8, <1>9 DEF ArgumentsNext

\* The counts and the contents of the arguments, in every reachable state.
LEMMA Asked == ArgumentsSpec => [](Inv /\ AskedInv)
<1>1. ArgumentsInit => AskedInv
  BY DEF ArgumentsInit, AskedInv, GivenInv, FirstInv, PC
<1>2. Inv /\ AskedInv /\ [ArgumentsNext]_argumentVars => AskedInv'
  BY GivenStep, FirstStep DEF AskedInv
<1> QED
  BY BuildCounts, <1>1, <1>2, PTL DEF ArgumentsSpec

\* A key that is given lastly as a pair has that value; one that is not given stays.
LEMMA AppliedValue ==
  ASSUME given \in Seq(Word \X Word), NEW before, NEW k \in Keys
  PROVE  /\ \A j \in DOMAIN given :
              given[j][1] = k /\ (\A i \in DOMAIN given : given[i][1] = k => i <= j)
                => Applied(before)[k] = given[j][2]
         /\ (\A i \in DOMAIN given : given[i][1] # k) => Applied(before)[k] = before[k]
<1> DEFINE hits == {j \in DOMAIN given : given[j][1] = k}
<1>1. Applied(before)[k] = IF hits = {} THEN before[k]
                           ELSE given[CHOOSE j \in hits : \A i \in hits : i <= j][2]
  BY DEF Applied
<1>2. ASSUME NEW j \in DOMAIN given, given[j][1] = k,
             \A i \in DOMAIN given : given[i][1] = k => i <= j
      PROVE  Applied(before)[k] = given[j][2]
  <2>1. j \in hits /\ \A i \in hits : i <= j
    BY <1>2
  <2>2. \A c \in hits : (\A i \in hits : i <= c) => c = j
    BY <2>1
  <2>3. (CHOOSE c \in hits : \A i \in hits : i <= c) = j
    BY <2>1, <2>2
  <2> QED
    BY <1>1, <2>1, <2>3
<1> QED
  BY <1>1, <1>2

\* Where a fixed entry or the last of the caller's stands, the server takes what was asked.
LEMMA FirstStartAsked ==
  ASSUME Inv, GivenInv, pc = "built", first_init, NEW k \in Keys
  PROVE  Applied(Nothing)[k] = Wanted(k)
<1>1. /\ given \in Seq(Word \X Word) /\ FixedPart(2) /\ SeedsGiven(N)
      /\ parameters \in Seq(STRING)
      /\ Entries = 1..N /\ k \in STRING
  BY ArrayStrings, KeysAssumption DEF GivenInv, Inv, Counts
<1>2. /\ DOMAIN given = 1..Len(given) /\ Len(given) \in Nat /\ Len(given) >= 3
      /\ 1..Len(given) = {1, 2, 3} \cup 4..Len(given)
      /\ given[1] = PortMode /\ given[2] = Default(1) /\ given[3] = Default(2)
  BY <1>1 DEF FixedPart
<1>3. /\ given[1][1] = "mysql_port_mode" /\ given[2][1] = "memory_budget"
      /\ given[3][1] = "log_disk_size"
  BY <1>2 DEF PortMode, Default, DefaultKey
<1>4. \A j \in 4..Len(given) :
        given[j][1] \notin {"port", "mysql_port_mode", "memory_budget", "log_disk_size"}
  BY <1>1 DEF SeedsGiven, Ordinary, is_driver_parameter, is_default_parameter_key, DefaultKey
<1> DEFINE hits == {e \in Entries : Key(e) = k}
           first == Val(CHOOSE e \in hits : \A f \in hits : e <= f)
           last == Val(CHOOSE e \in hits : \A f \in hits : f <= e)
<1>5. Nothing[k] = Unset
  BY DEF Nothing
<1>6. CASE k = "port"
  <2>1. \A i \in DOMAIN given : given[i][1] # k
    BY <1>2, <1>3, <1>4, <1>6
  <2> QED
    BY <1>1, <1>5, <1>6, <2>1, AppliedValue DEF Wanted
<1>7. CASE k = "mysql_port_mode"
  <2>1. \A i \in DOMAIN given : given[i][1] = k => i <= 1
    BY <1>2, <1>3, <1>4, <1>7
  <2>2. Applied(Nothing)[k] = given[1][2]
    BY <1>1, <1>2, <1>3, <1>7, <2>1, AppliedValue
  <2>3. given[1][2] = IF hits = {} THEN default_mysql_port_mode ELSE first
    BY <1>2, <1>7 DEF PortMode, parameters_lookup
  <2> QED
    BY <1>7, <2>2, <2>3 DEF Wanted
<1>8. ASSUME NEW p \in 1..2, k = DefaultKey[p] PROVE Applied(Nothing)[k] = Wanted(k)
  <2>1. k \notin {"port", "mysql_port_mode"} /\ is_default_parameter_key(k)
        /\ given[p + 1][1] = k /\ p + 1 \in DOMAIN given
    BY <1>2, <1>3, <1>8 DEF DefaultKey, is_default_parameter_key
  <2>2. \A i \in DOMAIN given : given[i][1] = k => i <= p + 1
    BY <1>2, <1>3, <1>4, <1>8 DEF DefaultKey
  <2>3. Applied(Nothing)[k] = given[p + 1][2]
    BY <1>1, <2>1, <2>2, AppliedValue
  <2>4. given[p + 1][2] = IF hits = {} THEN DefaultValue[p] ELSE first
    <3>1. given[p + 1] = Default(p)
      BY <1>2, <1>8
    <3>2. Default(p)[2] = parameters_lookup(k, DefaultValue[p])
      BY <1>8 DEF Default
    <3> QED
      BY <3>1, <3>2 DEF parameters_lookup
  <2>5. (CHOOSE q \in DOMAIN DefaultKey : DefaultKey[q] = k) = p
    BY <1>8 DEF DefaultKey
  <2> QED
    BY <2>1, <2>3, <2>4, <2>5 DEF Wanted
<1>9. CASE k # "port" /\ k # "mysql_port_mode" /\ ~is_default_parameter_key(k)
  <2>1. Ordinary(k) /\ LastGiven(k, N) /\ \A i \in {1, 2, 3} : given[i][1] # k
    BY <1>1, <1>3, <1>9 DEF SeedsGiven, Ordinary, is_driver_parameter,
       is_default_parameter_key, DefaultKey
  <2>2. Wanted(k) = IF hits # {} THEN last ELSE Unset
    BY <1>9 DEF Wanted
  <2>3. CASE (\A e \in 1..N : Key(e) # k) /\ (\A j \in 4..Len(given) : given[j][1] # k)
    <3>1. hits = {}
      BY <1>1, <2>3
    <3>2. \A i \in DOMAIN given : given[i][1] # k
      BY <1>2, <2>1, <2>3
    <3> QED
      BY <1>1, <1>5, <2>2, <3>1, <3>2, AppliedValue
  <2>4. ASSUME NEW e \in 1..N, NEW j \in 4..Len(given),
               Key(e) = k, given[j] = <<k, Val(e)>>,
               \A f \in 1..N : Key(f) = k => f <= e,
               \A i \in 4..Len(given) : given[i][1] = k => i <= j
        PROVE  Applied(Nothing)[k] = Wanted(k)
    <3>1. e \in hits /\ (\A f \in hits : f <= e) /\ hits \subseteq Nat
      BY <1>1, <2>4
    <3>2. last = Val(e)
      <4>1. \A c \in hits : (\A f \in hits : f <= c) => c = e
        BY <3>1
      <4>2. (CHOOSE c \in hits : \A f \in hits : f <= c) = e
        BY <3>1, <4>1
      <4> QED
        BY <4>2
    <3>3. j \in DOMAIN given /\ given[j][1] = k /\ given[j][2] = Val(e)
          /\ \A i \in DOMAIN given : given[i][1] = k => i <= j
      BY <1>2, <2>1, <2>4
    <3> QED
      BY <1>1, <2>2, <3>1, <3>2, <3>3, AppliedValue
  <2> QED
    BY <2>1, <2>3, <2>4 DEF LastGiven
<1> QED
  BY <1>6, <1>7, <1>8, <1>9 DEF is_default_parameter_key, DefaultKey

\* The port mode is what the caller asked for, or the default.
LEMMA PortModeAsked == PortMode = <<"mysql_port_mode", Wanted("mysql_port_mode")>>
BY DEF PortMode, Wanted, parameters_lookup

\* Whatever array the caller passes, a first start seeds exactly what it asked for, and a
\* restart is given the port mode and nothing else.
THEOREM AsAsked == ArgumentsSpec => []ArgumentsAsAsked
<1>1. Inv /\ AskedInv => ArgumentsAsAsked
  <2> SUFFICES ASSUME Inv, AskedInv, pc = "built"
               PROVE  IF first_init THEN Applied(Nothing) = [k \in Keys |-> Wanted(k)]
                      ELSE given = <<<<"mysql_port_mode", Wanted("mysql_port_mode")>>>>
    BY DEF ArgumentsAsAsked
  <2>1. CASE first_init
    <3>1. \A k \in Keys : Applied(Nothing)[k] = Wanted(k)
      BY <2>1, FirstStartAsked DEF AskedInv
    <3>2. Applied(Nothing) = [k \in Keys |-> Applied(Nothing)[k]]
      BY DEF Applied
    <3> QED
      BY <2>1, <3>1, <3>2
  <2>2. CASE ~first_init
    BY <2>2, PortModeAsked DEF AskedInv, GivenInv
  <2> QED
    BY <2>1, <2>2
<1> QED
  BY Asked, <1>1, PTL

\* A restart changes no persisted setting but the port mode, which becomes what this
\* caller asked for.
THEOREM RestartKeeps == ArgumentsSpec => RestartKeepsSettings
<1> DEFINE Kept == pc = "built" /\ settings # <<>> =>
                     \A k \in Keys : settings'[k] \in
                       {settings[k], IF k = "mysql_port_mode" THEN Wanted(k) ELSE settings[k]}
<1>1. Inv /\ AskedInv /\ [ArgumentsNext]_argumentVars => [Kept]_argumentVars
  <2> SUFFICES ASSUME Inv, AskedInv, ArgumentsNext, pc = "built", settings # <<>>, NEW k \in Keys
               PROVE  settings'[k] \in
                        {settings[k], IF k = "mysql_port_mode" THEN Wanted(k) ELSE settings[k]}
    OBVIOUS
  <2>1. given = <<PortMode>> /\ given \in Seq(Word \X Word)
    BY DEF AskedInv, GivenInv, FirstInv
  <2>2. settings' \in {settings, Applied(settings)}
    BY DEF ArgumentsNext, Open, Validate, Allocate, AllocateOwned, AppendMode, AppendDefault, AppendCaller, Free,
       Start, Return, Alter
  <2>3. Applied(settings)[k] = IF k = "mysql_port_mode" THEN Wanted(k) ELSE settings[k]
    <3>1. DOMAIN given = {1} /\ given[1] = PortMode
      BY <2>1
    <3>2. CASE k = "mysql_port_mode"
      <4>1. Applied(settings)[k] = given[1][2]
        BY <2>1, <3>1, <3>2, AppliedValue, PortModeAsked
      <4> QED
        BY <3>1, <3>2, <4>1, PortModeAsked
    <3>3. CASE k # "mysql_port_mode"
      BY <2>1, <3>1, <3>3, AppliedValue, PortModeAsked
    <3> QED
      BY <3>2, <3>3
  <2> QED
    BY <2>2, <2>3
<1> QED
  BY Asked, <1>1, PTL DEF ArgumentsSpec, RestartKeepsSettings
=============================================================================
