--------------------------- MODULE MCTaskManager ---------------------------
(* Instances of TaskManager: tasks of one edge and one of another.         *)
EXTENDS TaskManager, TLC

CONSTANTS t1, t2, t3, t4, r1, r2

OfOneOrOther == t1 :> r1 @@ t2 :> r1 @@ t3 :> r1 @@ t4 :> r2
TwoAndOne == t1 :> r1 @@ t2 :> r1 @@ t3 :> r2
Symmetry == Permutations({t1, t2, t3})
=============================================================================
