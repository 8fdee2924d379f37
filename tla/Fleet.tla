------------------------------- MODULE Fleet -------------------------------
(* The scheduled runs of the agents as core sees them: the scan coordinator  *)
(* that grants or defers a run, the report that ends it, and the watch       *)
(* worker that raises an alert into the bell when a host no longer reports   *)
(* or a volume fills up.                                                     *)
(*                                                                           *)
(* Core is one process.  A lease request decides in a transaction and is     *)
(* published by its commit, so requests of two hosts may decide on the same  *)
(* leases.  Time is abstract: a lease may become old and a report stale at   *)
(* any moment.                                                               *)
EXTENDS Naturals, FiniteSets, Sequences

CONSTANTS
    Host,        \* enrolled hosts
    MaxHeavy,    \* scan_coordinator_max_concurrent_heavy
    Order,       \* the hosts in the order the watcher looks at them
    Settings,    \* the settings core may run with
    Sizes,       \* Sizes[h]: light or heavy, what the runs of h may see
    Filling,     \* the hosts whose volume may fill up
    MaxFaults,   \* bound on lost messages, crashes and database errors
    MaxGone      \* bound on the hosts that never come back

ASSUME FleetAssumption ==
    /\ MaxHeavy \in Nat \ {0} /\ MaxFaults \in Nat /\ MaxGone \in Nat
    /\ Order \in Seq(Host) /\ Host = {Order[i] : i \in DOMAIN Order}
    /\ Filling \subseteq Host

VARIABLES
    settings, \* whether the coordinator and the watch worker are enabled
    agent,    \* agent[h]: idle, asking, scanning, scanned or gone
    known,    \* hosts with a row: those that have ingested
    ask,      \* ask[h]: the lease request of h that core works on
    lease,    \* lease[h]: the newest lease row of h
    last,     \* last[h]: the newest run report of h
    disk,     \* disk[h]: how full the volume of h was at the last ingest
    sweep,    \* the tick of the watch worker
    bell,     \* bell[k]: the number of unread notifications with dedup key k
    faults

coordinatorVars == <<settings, agent, known, ask, lease, last, disk>>
watchVars == <<sweep, bell>>
vars == <<coordinatorVars, watchVars, faults>>

-----------------------------------------------------------------------------
NoAsk == [st |-> "none", expired |-> {}, heavy |-> FALSE, granted |-> FALSE]
NoLease == [st |-> "none", heavy |-> FALSE, old |-> FALSE]
NoRun == [seen |-> "none", stale |-> FALSE]

Active(h) == lease[h].st = "active"

(* No run yet counts as heavy.                                               *)
IsHeavy(h) == last[h].seen # "light"

(* The scheduled run starts: it asks for a lease first.                      *)
Ask(h) ==
    /\ agent[h] = "idle"
    /\ ask[h].st = "none"
    /\ agent' = [agent EXCEPT ![h] = "asking"]
    /\ ask' = [ask EXCEPT ![h].st = "open"]
    /\ UNCHANGED <<known, lease, last, disk, settings, watchVars, faults>>

(* A host is let through when the coordinator is off, or when it has no row. *)
GrantAll(h) ==
    /\ ask[h].st = "open"
    /\ ~settings.coordinator \/ h \notin known
    /\ ask' = [ask EXCEPT ![h] = NoAsk]
    /\ agent' = [agent EXCEPT ![h] = IF @ = "asking" THEN "scanning" ELSE @]
    /\ UNCHANGED <<known, lease, last, disk, settings, watchVars, faults>>

(* Lease rows that h's transaction has updated and not committed.            *)
LeaseLocks(h) == IF ask[h].st = "decided" THEN ask[h].expired \cup {h} ELSE {}

Unlocked(h, rows) == \A g \in Host \ {h} : rows \cap LeaseLocks(g) = {}

(* Mutant of Stale: no lease runs out.                                       *)
NoneStale == {}

(* _expire_stale.                                                            *)
Stale == {g \in Host : Active(g) /\ lease[g].old}

(* The active heavy leases of others, as the transaction sees them after its *)
(* two updates: nothing that is still uncommitted elsewhere.                 *)
ActiveHeavy(h) == {g \in Host \ {h} : Active(g) /\ lease[g].heavy} \ Stale

(* request_lease: expire, release the host's own lease, decide.              *)
Decide(h) ==
    /\ ask[h].st = "open"
    /\ settings.coordinator /\ h \in known
    /\ Unlocked(h, Stale \cup {g \in {h} : Active(g)})
    /\ ask' = [ask EXCEPT ![h] =
            [st |-> "decided", expired |-> Stale \ {h}, heavy |-> IsHeavy(h),
             granted |-> IsHeavy(h) => Cardinality(ActiveHeavy(h)) < MaxHeavy]]
    /\ UNCHANGED <<agent, known, lease, last, disk, settings, watchVars, faults>>

(* The commit, and the answer; an agent that no longer waits ignores it.     *)
CommitLease(h) ==
    /\ ask[h].st = "decided"
    /\ lease' = [g \in Host |->
          CASE g = h /\ ask[h].granted -> [st |-> "active", heavy |-> ask[h].heavy, old |-> FALSE]
            [] g = h /\ ~ask[h].granted -> [NoLease EXCEPT !.st = "deferred"]
            [] g \in ask[h].expired -> [NoLease EXCEPT !.st = "expired"]
            [] OTHER -> lease[g]]
    /\ ask' = [ask EXCEPT ![h] = NoAsk]
    /\ agent' = [agent EXCEPT ![h] =
          IF @ # "asking" THEN @ ELSE IF ask[h].granted THEN "scanning" ELSE "idle"]
    /\ UNCHANGED <<known, last, disk, settings, watchVars, faults>>

(* Faults of the request.  The agent scans anyway when the request fails or  *)
(* its answer does not arrive in time; core may still grant the latter.      *)
LeaseFails(h) ==
    /\ ask[h].st # "none"
    /\ faults < MaxFaults
    /\ faults' = faults + 1
    /\ ask' = [ask EXCEPT ![h] = NoAsk]
    /\ agent' = [agent EXCEPT ![h] = IF @ = "asking" THEN "scanning" ELSE @]
    /\ UNCHANGED <<known, lease, last, disk, settings, watchVars>>

AskTimesOut(h) ==
    /\ agent[h] = "asking"
    /\ faults < MaxFaults
    /\ faults' = faults + 1
    /\ agent' = [agent EXCEPT ![h] = "scanning"]
    /\ UNCHANGED <<known, ask, lease, last, disk, settings, watchVars>>

-----------------------------------------------------------------------------
(* The run: its batches create the host row and bring the fill level of the  *)
(* volume; a run in which every scope failed has pushed nothing.             *)
Scan(h) ==
    /\ agent[h] = "scanning"
    /\ \/ /\ known' = known \cup {h}
          /\ \E level \in IF h \in Filling THEN {"fine", "full"} ELSE {"fine"} :
                disk' = [disk EXCEPT ![h] = level]
       \/ UNCHANGED <<known, disk>>
    /\ agent' = [agent EXCEPT ![h] = "scanned"]
    /\ UNCHANGED <<ask, lease, last, settings, watchVars, faults>>

(* POST /agents/runs: the run row, and the release of whatever lease of the  *)
(* host is active.  A host without a row has nothing recorded.  The outcome  *)
(* (ok, partial or failed) is for display; a failed run saw few entries.     *)
Report(h) ==
    /\ agent[h] = "scanned"
    /\ IF h \notin known THEN UNCHANGED <<last, lease>>
       ELSE /\ settings.coordinator /\ Active(h) => Unlocked(h, {h})
            /\ \E seen \in Sizes[h] :
                  last' = [last EXCEPT ![h] = [seen |-> seen, stale |-> FALSE]]
            /\ lease' = IF settings.coordinator /\ Active(h)
                        THEN [lease EXCEPT ![h] = [NoLease EXCEPT !.st = "released"]]
                        ELSE lease
    /\ agent' = [agent EXCEPT ![h] = "idle"]
    /\ UNCHANGED <<known, ask, disk, settings, watchVars, faults>>

(* The report is best effort: one that is lost, like a run that is killed,   *)
(* leaves the lease behind.                                                  *)
RunLost(h) ==
    /\ agent[h] \in {"scanning", "scanned"}
    /\ faults < MaxFaults
    /\ faults' = faults + 1
    /\ agent' = [agent EXCEPT ![h] = "idle"]
    /\ UNCHANGED <<known, ask, lease, last, disk, settings, watchVars>>

Vanish(h) ==
    /\ agent[h] # "gone"
    /\ Cardinality({g \in Host : agent[g] = "gone"}) < MaxGone
    /\ agent' = [agent EXCEPT ![h] = "gone"]
    /\ UNCHANGED <<known, ask, lease, last, disk, settings, watchVars, faults>>

(* Time: the lease reaches its expires_at, the report the stale threshold.   *)
TtlPasses(h) ==
    /\ Active(h) /\ ~lease[h].old
    /\ lease' = [lease EXCEPT ![h].old = TRUE]
    /\ UNCHANGED <<agent, known, ask, last, disk, settings, watchVars, faults>>

GetsStale(h) ==
    /\ last[h].seen # "none" /\ ~last[h].stale
    /\ last' = [last EXCEPT ![h].stale = TRUE]
    /\ UNCHANGED <<agent, known, ask, lease, disk, settings, watchVars, faults>>

-----------------------------------------------------------------------------
(* The watch worker.  A key is a rule and a host; a rule is raised or not.   *)
Key == ({"capacity"} \X Filling) \cup ({"stale"} \X Host)

CapacityAlert(h) == h \in known /\ disk[h] = "full"

(* Any run row counts, whatever its outcome; a host without one is passed    *)
(* over.                                                                     *)
StaleScanAlert(h) == last[h].stale

Raised(k) == IF k[1] = "capacity" THEN CapacityAlert(k[2]) ELSE StaleScanAlert(k[2])

Keys == [i \in DOMAIN Order |-> <<"capacity", Order[i]>>] \o
        [i \in DOMAIN Order |-> <<"stale", Order[i]>>]

(* Mutant of Evaluate: the first alert ends the evaluation.                  *)
EvaluateFirst ==
    LET raised == SelectSeq(Keys, Raised) IN IF raised = <<>> THEN raised ELSE <<Head(raised)>>

(* evaluate(): the volumes first, then the hosts.                            *)
Evaluate == SelectSeq(Keys, Raised)

NoSweep == [st |-> "idle", todo |-> <<>>, insert |-> {}]

Tick ==
    /\ sweep.st = "idle"
    /\ settings.watch
    /\ Evaluate # <<>>
    /\ sweep' = [NoSweep EXCEPT !.st = "emit", !.todo = Evaluate]
    /\ UNCHANGED <<coordinatorVars, bell, faults>>

(* emit() looks for an unread row with the key.                              *)
Coalesces(k) == bell[k] > 0

(* It refreshes that row or adds one: the rows it adds.  A refresh leaves    *)
(* the row read or unread as it is, so it does not matter whether a reader   *)
(* comes before or after it.                                                 *)
emit(k) == IF Coalesces(k) THEN {} ELSE {k}

(* emit_and_dispatch; outbound channels are best effort, nothing changes.    *)
Emit ==
    /\ sweep.st = "emit" /\ sweep.todo # <<>>
    /\ LET k == Head(sweep.todo)
       IN  sweep' = [sweep EXCEPT !.todo = Tail(@),
                        !.insert = @ \cup emit(k)]
    /\ UNCHANGED <<coordinatorVars, bell, faults>>

CommitSweep ==
    /\ sweep.st = "emit" /\ sweep.todo = <<>>
    /\ bell' = [k \in Key |->
          IF k \in sweep.insert THEN bell[k] + 1 ELSE bell[k]]
    /\ sweep' = NoSweep
    /\ UNCHANGED <<coordinatorVars, faults>>

(* A sweep that fails rolls back all its rows and is tried again.            *)
SweepFails ==
    /\ sweep.st # "idle"
    /\ faults < MaxFaults
    /\ faults' = faults + 1
    /\ sweep' = NoSweep
    /\ UNCHANGED <<coordinatorVars, bell>>

(* Operators read: one notification, or all that their scope shows.          *)
Read(keys) ==
    /\ \E k \in keys : bell[k] > 0
    /\ bell' = [k \in Key |-> IF k \in keys THEN 0 ELSE bell[k]]
    /\ UNCHANGED <<coordinatorVars, sweep, faults>>

MarkRead == \E k \in Key : Read({k})

MarkAllRead == \E hosts \in SUBSET Host : Read({k \in Key : k[2] \in hosts})

-----------------------------------------------------------------------------
Init ==
    /\ settings \in Settings
    /\ agent = [h \in Host |-> "idle"]
    /\ known = {}
    /\ ask = [h \in Host |-> NoAsk]
    /\ lease = [h \in Host |-> NoLease]
    /\ last = [h \in Host |-> NoRun]
    /\ disk = [h \in Host |-> "fine"]
    /\ sweep = NoSweep
    /\ bell = [k \in Key |-> 0]
    /\ faults = 0

Request(h) == GrantAll(h) \/ Decide(h) \/ CommitLease(h)
Run(h) == Ask(h) \/ Scan(h) \/ Report(h)
Fault(h) == LeaseFails(h) \/ AskTimesOut(h) \/ RunLost(h) \/ Vanish(h)
Time(h) == TtlPasses(h) \/ GetsStale(h)
Watch == Tick \/ Emit \/ CommitSweep

Next ==
    \/ \E h \in Host : Request(h) \/ Run(h) \/ Fault(h) \/ Time(h)
    \/ Watch \/ SweepFails \/ MarkRead \/ MarkAllRead

Spec == Init /\ [][Next]_vars

(* Core finishes the requests it has, the timer of every agent that is not   *)
(* gone fires again and again, time passes, and the worker's loop goes on.   *)
Fairness ==
    /\ \A h \in Host : WF_vars(Request(h)) /\ WF_vars(Run(h))
    /\ \A h \in Host : WF_vars(TtlPasses(h)) /\ WF_vars(GetsStale(h))
    /\ WF_vars(Watch)

FairSpec == Spec /\ Fairness

-----------------------------------------------------------------------------
(* Properties.                                                               *)

(* The lease of a host that has gone away does not hold its slot for ever,   *)
(* even when it was granted after the agent had stopped waiting: the first   *)
(* request after its time to live, of any host the coordinator knows, frees  *)
(* it.                                                                       *)
LeaseEnds ==
    \A h \in Host : (agent[h] = "gone" /\ Active(h)) ~> (~Active(h) \/ known \subseteq {h})

(* An alert whose cause persists is in the bell as unread again and again,   *)
(* however often it is read, and whatever a failed sweep rolled back: a host *)
(* that no longer reports and a volume that stays full are always announced. *)
PersistentAlertIsShown ==
    \A k \in Key : <>[](settings.watch /\ Raised(k)) => []<>(bell[k] > 0)
=============================================================================
