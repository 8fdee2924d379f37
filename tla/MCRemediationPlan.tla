-------------------------- MODULE MCRemediationPlan --------------------------
(* Replayed builds of two principals; two runs of a dedup plan and a move     *)
(* plan; a comparison while files move and are scanned.                       *)
EXTENDS RemediationPlan, TLC
CONSTANTS b1, b2, b3, m1, x1, x2, x3, e1, e2, p1, p2, p3, c1
MC_home == [e \in Entry |-> IF e = e1 THEN p1 ELSE p2]
MC_owner == [q \in Maker |-> IF q = b3 THEN "bob" ELSE "ann"]
MC_key == [q \in Maker |-> IF q \in {b1, b2, b3} THEN "k" ELSE NoKey]
MC_root == [p \in Path |-> IF p = p2 THEN "comparison" ELSE "definitive"]
MC_rel == [p \in Path |-> IF p = p3 THEN 2 ELSE 1]
MC_Made == {[requests |-> {b1, b2, b3}, events |-> 1],
            [requests |-> {b1, m1, x1, x2}, events |-> 1],
            [requests |-> {c1}, events |-> 3]}
=============================================================================
