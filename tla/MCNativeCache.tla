---------------------------- MODULE MCNativeCache ----------------------------
(***************************************************************************)
(* The native cache for TLC: on a Unix system the entry is exchanged        *)
(* (NativeCache), on Windows it gets generations (GenerationCache).  A      *)
(* system is one or the other, and the variables of the other stay put.     *)
(***************************************************************************)
EXTENDS NativeCache

CONSTANT Root

\* The entry's own files are no publisher's generation.
ASSUME RootAssumption == Root \notin Processes \cup {Null}

VARIABLES unix, wpc, present, marker, there, whole, following, wmeddled, wseen

wvars == <<wpc, present, marker, there, whole, following, wmeddled, wseen>>

W == INSTANCE GenerationCache WITH pc <- wpc, meddled <- wmeddled, seen <- wseen

EitherInit ==
  /\ unix \in BOOLEAN
  /\ Init /\ (~unix => entry = Null /\ content = [t \in Trees |-> {}])
  /\ W!Init /\ (unix => ~present)

EitherNext ==
  \/ unix /\ Next /\ UNCHANGED <<unix, wvars>>
  \/ ~unix /\ W!Next /\ UNCHANGED <<unix, vars>>

EitherSpec == EitherInit /\ [][EitherNext]_<<unix, vars, wvars>>

\* GenerationCache's invariant: while nobody meddles, .complete names whole bundles,
\* answered libraries stay, and what was published validates.
GenerationsWhole == W!GenerationsWhole

\* GenerationCache's refinement: a path is answered only for an entry that was complete
\* during the call.
GenerationsKeepPromise == W!GenerationsKeepPromise
=============================================================================
