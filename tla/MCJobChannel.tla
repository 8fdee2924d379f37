---------------------------- MODULE MCJobChannel ----------------------------
(* Two requests about one of two hosts: either both execute the plan while *)
(* a file changes, or the second is a Scan Now, a job may be replayed to   *)
(* either host, core or an agent may crash and a file may change.          *)
EXTENDS JobChannel

CONSTANTS o1, o2, h1, h2

Key(m) == [algorithm |-> "ed25519", id |-> "orchestrator-v1", material |-> m]
Pins(m1) == [h \in Host |-> Key(IF h = h1 THEN m1 ELSE "new")]
Scenario(key, m1, hosts, ops, n) ==
    [core |-> key, pinned |-> Pins(m1), scanOnly |-> hosts, scans |-> ops,
     most |-> [f \in Fault |-> IF f = "change" THEN 1 ELSE n]]

(* The agents pin core's key, the first one pins the key before it under   *)
(* the same id or has no write path, or core has no key.                   *)
TwoRequests ==
    {Scenario(Key("new"), "new", {}, {}, 0),
     Scenario(Key("new"), "new", {}, {o2}, 1),
     Scenario(Key("new"), "old", {}, {o2}, 1),
     Scenario(Key("new"), "new", {h1}, {o2}, 1),
     Scenario(NoKey, "new", {}, {o2}, 1)}

ToFirstHost == [o \in Op |-> h1]
=============================================================================
