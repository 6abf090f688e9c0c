------------------------------ MODULE MCEndpoint ------------------------------
(***************************************************************************)
(* Endpoint for TLC: handle h1 of directory d1, h2 of d2, which may be      *)
(* exchanged.  On Windows the handles share nothing but the ports of the    *)
(* servers, so one handle at a time and two servers are enough.             *)
(***************************************************************************)
EXTENDS Endpoint, TLC

CONSTANTS h1, h2, d1, d2

MCDirOf == [h \in Handles |-> IF h = h1 THEN d1 ELSE d2]
OneOpener == windows => pc[h1] = "idle" \/ pc[h2] = "idle"

Symmetry ==
  {p @@ q @@ r : p \in {h1 :> h1 @@ h2 :> h2 @@ d1 :> d1 @@ d2 :> d2,
                        h1 :> h2 @@ h2 :> h1 @@ d1 :> d2 @@ d2 :> d1},
                q \in Permutations(Aliases), r \in Permutations(Pipes)}
=============================================================================
