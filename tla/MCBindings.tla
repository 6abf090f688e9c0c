------------------------------ MODULE MCBindings ------------------------------
(***************************************************************************)
(* The Node.js, Rust and Java bindings and the command line for TLC.  They  *)
(* are programs of their own over libseekdb: a system is one of them, and   *)
(* the variables of the others stay at one initial state.                   *)
(***************************************************************************)
EXTENDS NodeBinding, RustRuntime

CONSTANTS Objects, MaxParams, BufSize, MaxTyped

ASSUME JavaAssumption == Null \notin Objects /\ MaxParams \in Nat
ASSUME ShellAssumption == BufSize \in Nat /\ BufSize >= 2 /\ MaxTyped \in Nat

VARIABLES
  program,
  jpc, jobject, count, done, heap, field, jopened, monitor,
  typed, read, query, executed, spc, cuts

java == <<jpc, jobject, count, done, heap, field, jopened, monitor>>
shell == <<typed, read, query, executed, spc, cuts>>

J == INSTANCE JavaBinding WITH pc <- jpc, object <- jobject, opened <- jopened
S == INSTANCE Shell WITH pc <- spc

ProgramInit ==
  /\ program \in {"node", "rust", "java", "shell"}
  /\ Init
  /\ RuntimeInit /\ (program # "rust" => environment = Unset /\ usable = [r \in Roots |-> FALSE])
  /\ J!Init
  /\ IF program = "shell" THEN S!Init
     ELSE typed = <<>> /\ read = 0 /\ query = <<>> /\ executed = <<>> /\ spc = "prompt"
          /\ cuts = {}

ProgramNext ==
  \/ program = "node" /\ Next /\ UNCHANGED <<program, runtimeVars, java, shell>>
  \/ program = "rust" /\ RuntimeNext /\ UNCHANGED <<program, vars, java, shell>>
  \/ program = "java" /\ J!Next /\ UNCHANGED <<program, vars, runtimeVars, shell>>
  \/ program = "shell" /\ S!Next /\ UNCHANGED <<program, vars, runtimeVars, java>>

ProgramSpec ==
  /\ ProgramInit /\ [][ProgramNext]_<<program, vars, runtimeVars, java, shell>>
  /\ Fairness

\* JavaBinding's invariant: no borrowed string and no closed handle is used, and no call
\* leaves anything behind.
NativeCallsSafe == J!NativeCallsSafe

\* Shell's invariant: what was typed is executed or still collected, and no word is broken
\* but where a line longer than the buffer is cut.
TypedIsExecuted == S!TypedIsExecuted
=============================================================================
