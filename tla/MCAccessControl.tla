--------------------------- MODULE MCAccessControl -------------------------
(* Two API processes with one Fernet key and two administrators, each with   *)
(* a session; one of them has a second factor.  A third account has grants   *)
(* for one host only.                                                        *)
EXTENDS AccessControl, TLC

SharedKey == [p \in Proc |-> "fernet"]
Sessions1 == [ann |-> "x1", bob |-> "x2"]

Assignment(u, role, scope, id) == [user |-> u, role |-> role, scope |-> scope, id |-> id]

Grants1 == <<Assignment("ann", "admin", "global", 0),
             Assignment("bob", "admin", "global", 0),
             Assignment("dee", "viewer", "host", 1)>>

Grants2 == <<Assignment("dee", "remediator", "volume", 12),
             Assignment("dee", "auditor", "host", 2)>>
AllKinds == {"set", "clear", "enroll", "verify", "login", "denied", "logout",
             "create", "grant", "revoke"}
SomeRefs == {Ref(1), Ref(2)}
AllAndWriters == ("r1" :> AllKinds) @@ ("r2" :> {"set", "enroll"})
FirstToFirst == ("r1" :> {"p1"}) @@ ("r2" :> Proc)
=============================================================================
