-------------------------- MODULE MCSeekdbLifecycle --------------------------
(* Small instances of SeekdbLifecycle: threads t1 and t2 share application a1, *)
(* t3 lives in a2.                                                             *)
EXTENDS SeekdbLifecycle, TLC

CONSTANTS t1, t2, t3, a1, a2

MCAppOf == [t \in Openers |-> IF t \in {t1, t2} THEN a1 ELSE a2]
MCNoFaults == {}
MCLiveFaults == {"crash", "servercrash", "nomem", "nonode", "nothread", "io"}
MCLockFaults == {"crash", "servercrash", "misprobe"}

ServerSymmetry == Permutations(Servers)
\* t1 alone in a1 and t3 alone in a2 may be exchanged, each with its application.
AppSymmetry ==
  {p @@ q : p \in {t1 :> t1 @@ t3 :> t3 @@ a1 :> a1 @@ a2 :> a2,
                   t1 :> t3 @@ t3 :> t1 @@ a1 :> a2 @@ a2 :> a1},
           q \in Permutations(Servers)}
=============================================================================
