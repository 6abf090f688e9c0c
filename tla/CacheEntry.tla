------------------------------ MODULE CacheEntry ------------------------------
(***************************************************************************)
(* What the Rust crate's native cache promises (rust/README.md, "Builds    *)
(* and running applications use one cache entry"): an entry is usable or   *)
(* not, publishers only ever make it usable, and a call answers with its   *)
(* path only if the entry was usable at some moment of the call.           *)
(***************************************************************************)
CONSTANT Processes

VARIABLES
  usable,   \* is a complete entry at the cache path?
  seen,     \* has it been usable since the process began its call?
  answer    \* "idle", "working", "path" or "error"

vars == <<usable, seen, answer>>

Init ==
  /\ usable \in BOOLEAN
  /\ seen = [p \in Processes |-> FALSE]
  /\ answer = [p \in Processes |-> "idle"]

Begin(p) ==
  /\ answer[p] = "idle"
  /\ answer' = [answer EXCEPT ![p] = "working"]
  /\ seen' = [seen EXCEPT ![p] = usable]
  /\ UNCHANGED usable

Publish ==
  /\ usable' = TRUE
  /\ seen' = [p \in Processes |-> seen[p] \/ answer[p] = "working"]
  /\ UNCHANGED answer

\* Somebody cleans the cache directory.
Break ==
  /\ usable' = FALSE
  /\ UNCHANGED <<seen, answer>>

Answer(p) ==
  /\ answer[p] = "working"
  /\ \E a \in {"path", "error"} :
       /\ a = "path" => seen[p]
       /\ answer' = [answer EXCEPT ![p] = a]
  /\ UNCHANGED <<usable, seen>>

Next == Publish \/ Break \/ \E p \in Processes : Begin(p) \/ Answer(p)

Spec == Init /\ [][Next]_vars
=============================================================================
