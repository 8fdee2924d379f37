--------------------------- MODULE MCActorExecutor ---------------------------
(* A plan for ActorExecutor: two items move to the same destination and one *)
(* has none, two files with the same base name are quarantined, two are     *)
(* deleted (one was approved without a hash) and one is to be replaced by a *)
(* hard link.                                                               *)
EXTENDS ActorExecutor, TLC

CONSTANTS p1, p2, p3, p4, p5, p6, p7, p8, n1, n2, n3, n4, n5, n6, n7, n8

Order == (p1 :> 1) @@ (p2 :> 2) @@ (p3 :> 3) @@ (p4 :> 4)
             @@ (p5 :> 5) @@ (p6 :> 6) @@ (p7 :> 7) @@ (p8 :> 8)
Actions ==
    (p1 :> "move") @@ (p2 :> "quarantine") @@ (p3 :> "move") @@ (p4 :> "quarantine")
        @@ (p5 :> "hard_delete") @@ (p6 :> "hard_delete") @@ (p7 :> "hardlink") @@ (p8 :> "move")
Inodes == (p1 :> n1) @@ (p2 :> n2) @@ (p3 :> n3) @@ (p4 :> n4)
              @@ (p5 :> n5) @@ (p6 :> n6) @@ (p7 :> n7) @@ (p8 :> n8)
SameBase == [p \in Path |-> "base"]
SameDest == [p \in Path |-> IF p = p8 THEN NoDest ELSE "dest"]
=============================================================================
