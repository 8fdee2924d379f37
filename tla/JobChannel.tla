----------------------------- MODULE JobChannel -----------------------------
(***************************************************************************)
(* The signed-job dispatch channel: core's per-host job queue and result   *)
(* correlation (core/remediation/job_queue.py), the orchestrator's dry-run *)
(* and execute dispatches (orchestrator.py, api/routers/remediation.py),   *)
(* Scan Now (api/routers/scans.py), the agent's poll, verify, run and post *)
(* cycle (agent/actor/listen.py, listener.py, dispatch.py) and the two     *)
(* single-use ledgers (nonce_store.py).                                    *)
(*                                                                         *)
(* An operator request is a member of Op.  An execute request issues a     *)
(* dry-run job and then an execute job, a scan request one scan job, so a  *)
(* job is named by its request and its mode; the name stands for the fresh *)
(* job_id and the fresh nonce alike.  Only core makes jobs; whether an     *)
(* agent trusts them depends on the key it pins.  Core and agents read the *)
(* same clock.                                                             *)
(***************************************************************************)
EXTENDS Naturals, Sequences, FiniteSets

CONSTANTS
    Op,          \* operator requests
    Host,
    Item,        \* the items of the plan, one file each
    Target,      \* Target[o]: the host the request is about
    Confirmed,   \* the requests made with confirm_blast
    BlastCap,    \* the cap of core and of the agent (both default to 100)
    Scenarios,   \* what a behaviour may start from
    TTL,         \* job_ttl_seconds, also the dispatch timeout
    MaxClock     \* bound

ASSUME ChannelConstants ==
    /\ Target \in [Op -> Host]
    /\ Confirmed \subseteq Op
    /\ BlastCap \in Nat /\ TTL \in Nat \ {0} /\ MaxClock \in Nat \ {0}

Fault == {"replay", "crash", "change"}

ASSUME ScenarioFields ==
    \A s \in Scenarios :
        s.scans \subseteq Op /\ s.scanOnly \subseteq Host /\ s.most \in [Fault -> Nat]

Mode == {"dry_run", "execute", "scan"}
Job == Op \X Mode
NoJob == <<"none", "none">>

VARIABLES
    setup,     \* the scenario: the keys of core and the agents, the scan-only hosts,
               \* the requests that are Scan Now, and bounds on the faults
    clock,
    file,      \* the plan's files on each host
    op,        \* where the request's handler is
    issued,    \* when a job was issued; 0 for a job that does not exist yet
    report,    \* the drift report the dry run returned to the request
    result,    \* the items the execute result says were acted on
    queue,     \* JobQueue._queues
    awaiting,  \* the jobs with an entry in _results, _job_host, _job_nonce
    future,    \* the futures: "pending", "failed" or the payload
    dbNonce,   \* core's durable used_nonce table
    settling,  \* jobs whose nonce is inserted by a transaction that is still open
    handling,  \* result posts past the ownership check
    agent,     \* the agent's job and what it is doing with it
    ledger,    \* the agent's durable nonce ledger
    net,       \* result posts on their way to core, which may arrive twice
    sent,      \* signed jobs that have been on the wire
    ran,       \* history: the hosts that ran a job, once per run
    acts,      \* history: the items a job's run acted on
    lost,      \* history: jobs whose nonce was rolled back after their result was taken
    faults     \* replays, crashes and file changes so far

nonces == <<dbNonce, settling, lost>>
core == <<op, issued, report, result, queue, awaiting, future, nonces, handling>>
agents == <<agent, ledger, net, sent>>
history == <<ran, acts>>
vars == <<setup, clock, file, core, agents, history, faults>>

Payload == SUBSET Item    \* drifted items (dry run) or items acted on (execute)
Future == [state : {"pending", "failed", "result"}, payload : Payload]
Pending == [state |-> "pending", payload |-> {}]
Failed == [state |-> "failed", payload |-> {}]
Result(payload) == [state |-> "result", payload |-> payload]
Post == [job : Job, host : Host, payload : Payload]
AgentState == [pc : {"idle", "claimed", "verified", "posting"},
               job : Job \cup {NoJob}, payload : Payload]

Waiting == {"dry_run", "execute"}
Over == {"executed", "skipped", "over_cap", "enqueued", "timeout", "crashed"}
OpState == {"idle"} \cup Waiting \cup Over

TypeOK ==
    /\ setup \in Scenarios
    /\ clock \in 1 .. MaxClock
    /\ file \in [Host -> [Item -> {"intact", "changed", "gone"}]]
    /\ op \in [Op -> OpState]
    /\ issued \in [Job -> 0 .. MaxClock]
    /\ report \in [Op -> Payload]
    /\ result \in [Op -> Payload]
    /\ queue \in [Host -> Seq(Job)]
    /\ awaiting = {<<o, op[o]>> : o \in {p \in Op : op[p] \in Waiting}}
    /\ future \in [Job -> Future]
    /\ dbNonce \subseteq Job /\ settling \subseteq Job /\ lost \subseteq Job
    /\ handling \subseteq Post
    /\ agent \in [Host -> AgentState]
    /\ ledger \in [Host -> SUBSET Job]
    /\ net \subseteq Post
    /\ sent \subseteq Job
    /\ ran \in [Job -> Seq(Host)]
    /\ acts \in [Job -> Payload]
    /\ faults \in [Fault -> Nat]

-----------------------------------------------------------------------------

Idle == [pc |-> "idle", job |-> NoJob, payload |-> {}]

Init ==
    /\ setup \in Scenarios
    /\ clock = 1
    /\ file = [h \in Host |-> [i \in Item |-> "intact"]]
    /\ op = [o \in Op |-> "idle"]
    /\ issued = [j \in Job |-> 0]
    /\ report = [o \in Op |-> {}]
    /\ result = [o \in Op |-> {}]
    /\ queue = [h \in Host |-> << >>]
    /\ awaiting = {}
    /\ future = [j \in Job |-> Pending]
    /\ dbNonce = {} /\ settling = {} /\ lost = {}
    /\ handling = {}
    /\ agent = [h \in Host |-> Idle]
    /\ ledger = [h \in Host |-> {}]
    /\ net = {}
    /\ sent = {}
    /\ ran = [j \in Job |-> << >>]
    /\ acts = [j \in Job |-> {}]
    /\ faults = [f \in Fault |-> 0]

NoKey == [algorithm |-> "none", id |-> "none", material |-> "none"]

(* Core's key; NoKey without a reference to one.  A reference that does    *)
(* not resolve to a key of the configured algorithm stops the startup.     *)
load_orchestrator_signer == setup.core

(* The key the agent of h pins; it does not start without one.             *)
build_verifier(h) == setup.pinned[h]

(* Without a key the runtime stays unset, and the routes answer 503.       *)
Armed == load_orchestrator_signer # NoKey

(* Either algorithm: the signature is bound to the job and to the key.     *)
sign_job(j) ==
    LET key == load_orchestrator_signer
    IN [job |-> j, algorithm |-> key.algorithm, key_id |-> key.id, signature |-> key.material]

verify_signature(h, signed) ==
    LET key == build_verifier(h)
    IN /\ signed.algorithm = key.algorithm /\ signed.key_id = key.id
       /\ signed.signature = key.material

expires_at(j) == issued[j] + TTL

(* MaxClock stands for all of the time after it: every job has expired.    *)
_expired(j) == expires_at(j) <= clock \/ clock = MaxClock

(* The hosts whose listener has no write path, and the requests that are   *)
(* Scan Now; the others execute the plan.                                  *)
ScanOnly == setup.scanOnly
Scans == setup.scans

MayHappen(f) == faults[f] < setup.most[f]

Drifted(h) == {i \in Item : file[h][i] # "intact"}

(* The items a job carries: all of the plan, or what its request's dry run *)
(* did not report as drifted.                                              *)
Carried(j) == IF j[2] = "execute" THEN Item \ report[j[1]] ELSE Item

-----------------------------------------------------------------------------
(* Core: the operator's request.                                           *)

Enqueue(j) ==
    /\ issued' = [issued EXCEPT ![j] = clock]
    /\ queue' = [queue EXCEPT ![Target[j[1]]] = Append(@, j)]

(* The request has passed its route's gates: capability, scope, a known    *)
(* host and root, an armed runtime.  One that has not issues no job.       *)
Admitted(o) == Armed /\ op[o] = "idle" /\ clock < MaxClock

(* execute_route: the mandatory dry run is signed, enqueued and awaited.   *)
StartExecute(o) ==
    /\ Admitted(o) /\ o \notin Scans
    /\ op' = [op EXCEPT ![o] = "dry_run"]
    /\ Enqueue(<<o, "dry_run">>)
    /\ awaiting' = awaiting \cup {<<o, "dry_run">>}
    /\ UNCHANGED <<setup, clock, file, report, result, future, nonces, handling,
                   agents, history, faults>>

(* dispatch_scan: enqueue_and_wait with timeout 0, so the correlation      *)
(* lapses at once and the job stays in the queue.                          *)
ScanNow(o) ==
    /\ Admitted(o) /\ o \in Scans
    /\ op' = [op EXCEPT ![o] = "enqueued"]
    /\ Enqueue(<<o, "scan">>)
    /\ UNCHANGED <<setup, clock, file, report, result, awaiting, future, nonces,
                   handling, agents, history, faults>>

Resolved(j) == j \in awaiting /\ future[j].state = "result"

(* The dry run's result arrives: execute() drops the drifted items, checks *)
(* the blast cap and enqueues the execute job without yielding.            *)
DryRunReturns(o) ==
    LET j == <<o, "dry_run">>
        live == Item \ future[j].payload
    IN /\ op[o] = "dry_run" /\ Resolved(j)
       /\ report' = [report EXCEPT ![o] = future[j].payload]
       /\ \/ /\ live = {}
             /\ op' = [op EXCEPT ![o] = "skipped"]
             /\ awaiting' = awaiting \ {j}
             /\ UNCHANGED <<issued, queue>>
          \/ /\ Cardinality(live) > BlastCap /\ o \notin Confirmed
             /\ op' = [op EXCEPT ![o] = "over_cap"]
             /\ awaiting' = awaiting \ {j}
             /\ UNCHANGED <<issued, queue>>
          \/ /\ live # {} /\ (Cardinality(live) <= BlastCap \/ o \in Confirmed)
             /\ op' = [op EXCEPT ![o] = "execute"]
             /\ Enqueue(<<o, "execute">>)
             /\ awaiting' = (awaiting \ {j}) \cup {<<o, "execute">>}
       /\ UNCHANGED <<setup, clock, file, result, future, nonces, handling,
                      agents, history, faults>>

(* The execute result arrives; the plan row becomes "executed".            *)
ExecuteReturns(o) ==
    LET j == <<o, "execute">>
    IN /\ op[o] = "execute" /\ Resolved(j)
       /\ op' = [op EXCEPT ![o] = "executed"]
       /\ result' = [result EXCEPT ![o] = future[j].payload]
       /\ awaiting' = awaiting \ {j}
       /\ UNCHANGED <<setup, clock, file, issued, report, queue, future, nonces,
                      handling, agents, history, faults>>

(* Faulty variant: the future is awaited without a timeout.                *)
TimeoutOnlyFromPoll(o) ==
    LET j == <<o, op[o]>>
    IN /\ op[o] \in Waiting /\ future[j] = Failed
       /\ op' = [op EXCEPT ![o] = "timeout"]
       /\ awaiting' = awaiting \ {j}
       /\ UNCHANGED <<setup, clock, file, issued, report, result, queue, future,
                      nonces, handling, agents, history, faults>>

(* DispatchTimeoutError: wait_for's timeout, or poll() failed the future   *)
(* because the job expired in the queue.                                   *)
DispatchTimeout(o) ==
    LET j == <<o, op[o]>>
    IN /\ op[o] \in Waiting
       /\ future[j] = Failed \/ (future[j] = Pending /\ _expired(j))
       /\ op' = [op EXCEPT ![o] = "timeout"]
       /\ awaiting' = awaiting \ {j}
       /\ UNCHANGED <<setup, clock, file, issued, report, result, queue, future,
                      nonces, handling, agents, history, faults>>

-----------------------------------------------------------------------------
(* Core: poll() and the result route.                                      *)

(* An expired job is dropped and its dispatch fails; the poll goes on.     *)
PollDropsExpired(h) ==
    /\ agent[h].pc = "idle" /\ queue[h] # << >> /\ _expired(Head(queue[h]))
    /\ queue' = [queue EXCEPT ![h] = Tail(@)]
    /\ LET j == Head(queue[h])
       IN future' = IF j \in awaiting /\ future[j] = Pending
                    THEN [future EXCEPT ![j] = Failed] ELSE future
    /\ UNCHANGED <<setup, clock, file, op, issued, report, result, awaiting, nonces,
                   handling, agents, history, faults>>

(* Claim-once: the job leaves the queue with the response, which may never *)
(* reach the agent.                                                        *)
Poll(h) ==
    /\ agent[h].pc = "idle" /\ queue[h] # << >> /\ ~_expired(Head(queue[h]))
    /\ queue' = [queue EXCEPT ![h] = Tail(@)]
    /\ sent' = sent \cup {Head(queue[h])}
    /\ \/ agent' = [agent EXCEPT ![h] = [@ EXCEPT !.pc = "claimed", !.job = Head(queue[h])]]
       \/ UNCHANGED agent
    /\ UNCHANGED <<setup, clock, file, op, issued, report, result, awaiting, future,
                   nonces, handling, ledger, net, history, faults>>

(* submit_job_result, up to the await on the nonce ledger: the job must be *)
(* awaited and belong to the posting host.                                 *)
AcceptPost(m) ==
    /\ m \in net \ handling
    /\ m.job \in awaiting /\ Target[m.job[1]] = m.host
    /\ handling' = handling \cup {m}
    /\ UNCHANGED <<setup, clock, file, op, issued, report, result, queue, awaiting,
                   future, nonces, agents, history, faults>>

(* Faulty variant: the nonce stays consumed although no dispatch is left   *)
(* to resolve.                                                             *)
FinishPostKeepsNonce(m) ==
    /\ m \in handling /\ m.job \notin settling
    /\ handling' = handling \ {m}
    /\ settling' = settling \cup {m.job}
    /\ future' = IF m.job \notin dbNonce /\ m.job \in awaiting /\ future[m.job] = Pending
                 THEN [future EXCEPT ![m.job] = Result(m.payload)] ELSE future
    /\ UNCHANGED <<setup, clock, file, op, issued, report, result, queue, awaiting,
                   dbNonce, lost, agents, history, faults>>

(* Faulty variant: a result resolves whatever its host is waiting for.     *)
FinishPostByHost(m) ==
    /\ m \in handling /\ m.job \notin settling
    /\ handling' = handling \ {m}
    /\ settling' = settling \cup {m.job}
    /\ future' = [j \in Job |->
          IF j \in awaiting /\ Target[j[1]] = m.host /\ future[j] = Pending
          THEN Result(m.payload) ELSE future[j]]
    /\ UNCHANGED <<setup, clock, file, op, issued, report, result, queue, awaiting,
                   dbNonce, lost, agents, history, faults>>

(* The rest of submit_job_result: the nonce is inserted, which waits for a *)
(* rival that has inserted it, and the future is resolved in memory while  *)
(* the transaction is open.  A used nonce or a dispatch that has ended     *)
(* meanwhile is a 409, and the transaction rolls back.                     *)
FinishPost(m) ==
    /\ m \in handling /\ m.job \notin settling
    /\ handling' = handling \ {m}
    /\ IF m.job \notin dbNonce /\ m.job \in awaiting /\ future[m.job] = Pending
       THEN /\ settling' = settling \cup {m.job}
            /\ future' = [future EXCEPT ![m.job] = Result(m.payload)]
       ELSE UNCHANGED <<settling, future>>
    /\ UNCHANGED <<setup, clock, file, op, issued, report, result, queue, awaiting,
                   dbNonce, lost, agents, history, faults>>

(* The dependency db_session commits when the route has returned; by then  *)
(* the request may have gone on with the result.                           *)
CommitPost(j) ==
    /\ j \in settling
    /\ settling' = settling \ {j} /\ dbNonce' = dbNonce \cup {j}
    /\ UNCHANGED <<setup, clock, file, op, issued, report, result, queue, awaiting,
                   future, lost, handling, agents, history, faults>>

(* Or the commit fails.                                                    *)
CommitFails(j) ==
    /\ j \in settling /\ MayHappen("crash")
    /\ faults' = [faults EXCEPT !["crash"] = @ + 1]
    /\ settling' = settling \ {j} /\ lost' = lost \cup {j}
    /\ UNCHANGED <<setup, clock, file, op, issued, report, result, queue, awaiting,
                   future, dbNonce, handling, agents, history>>

(* A restart of core loses the queue, the correlation, the requests that   *)
(* were waiting and the open transactions; the database stays.             *)
CoreCrash ==
    /\ MayHappen("crash")
    /\ faults' = [faults EXCEPT !["crash"] = @ + 1]
    /\ op' = [o \in Op |-> IF op[o] \in Waiting THEN "crashed" ELSE op[o]]
    /\ queue' = [h \in Host |-> << >>]
    /\ awaiting' = {} /\ handling' = {}
    /\ settling' = {} /\ lost' = lost \cup settling
    /\ UNCHANGED <<setup, clock, file, issued, report, result, future, dbNonce,
                   agents, history>>

-----------------------------------------------------------------------------
(* The agent.                                                              *)

Acceptable(h, j) ==
    /\ verify_signature(h, sign_job(j))
    /\ ~_expired(j) /\ issued[j] <= clock /\ Target[j[1]] = h

(* Faulty variant: the nonce is not recorded.                              *)
VerifyForgetsNonce(h) ==
    LET j == agent[h].job
    IN /\ agent[h].pc = "claimed" /\ Acceptable(h, j) /\ j \notin ledger[h]
       /\ agent' = [agent EXCEPT ![h].pc = "verified"]
       /\ UNCHANGED <<setup, clock, file, core, ledger, net, sent, history, faults>>

(* Faulty variant: the time window is not checked.                         *)
VerifyIgnoresExpiry(h) ==
    LET j == agent[h].job
    IN /\ agent[h].pc = "claimed" /\ Target[j[1]] = h /\ j \notin ledger[h]
       /\ ledger' = [ledger EXCEPT ![h] = @ \cup {j}]
       /\ agent' = [agent EXCEPT ![h].pc = "verified"]
       /\ UNCHANGED <<setup, clock, file, core, net, sent, history, faults>>

(* verify_job: signature, time window, host scope, and last the durable    *)
(* nonce.                                                                  *)
Verify(h) ==
    LET j == agent[h].job
    IN /\ agent[h].pc = "claimed" /\ Acceptable(h, j) /\ j \notin ledger[h]
       /\ ledger' = [ledger EXCEPT ![h] = @ \cup {j}]
       /\ agent' = [agent EXCEPT ![h].pc = "verified"]
       /\ UNCHANGED <<setup, clock, file, core, net, sent, history, faults>>

(* A job that fails verification is dropped; nothing is posted.            *)
VerifyRefuses(h) ==
    LET j == agent[h].job
    IN /\ agent[h].pc = "claimed" /\ (~Acceptable(h, j) \/ j \in ledger[h])
       /\ agent' = [agent EXCEPT ![h] = Idle]
       /\ UNCHANGED <<setup, clock, file, core, ledger, net, sent, history, faults>>

Ran(h, j, acted) ==
    /\ ran' = [ran EXCEPT ![j] = Append(@, h)]
    /\ acts' = [acts EXCEPT ![j] = @ \cup acted]
    /\ file' = [file EXCEPT ![h] = [i \in Item |-> IF i \in acted THEN "gone" ELSE @[i]]]

RunsTo(h, payload) ==
    agent' = [agent EXCEPT ![h] = [@ EXCEPT !.pc = "posting", !.payload = payload]]

(* dispatch_dry_run changes nothing on the host.                           *)
RunDryRun(h) ==
    LET j == agent[h].job
    IN /\ agent[h].pc = "verified" /\ j[2] = "dry_run" /\ h \notin ScanOnly
       /\ Ran(h, j, {})
       /\ RunsTo(h, Drifted(h))
       /\ UNCHANGED <<setup, clock, core, ledger, net, sent, faults>>

(* ScanDispatcher.dispatch_scan: neither does a scan.  A summary is posted *)
(* even where the scan of the root failed.                                 *)
RunScan(h) ==
    LET j == agent[h].job
    IN /\ agent[h].pc = "verified" /\ j[2] = "scan"
       /\ Ran(h, j, {})
       /\ RunsTo(h, {})
       /\ UNCHANGED <<setup, clock, core, ledger, net, sent, faults>>

(* The root is out of scan_scope (ScanScopeError), or the run raises.  The *)
(* job is dropped: no result.                                              *)
ScanRaises(h) ==
    LET j == agent[h].job
    IN /\ agent[h].pc = "verified" /\ j[2] = "scan"
       /\ UNCHANGED <<file, history>> \/ Ran(h, j, {})
       /\ agent' = [agent EXCEPT ![h] = Idle]
       /\ UNCHANGED <<setup, clock, core, ledger, net, sent, faults>>

(* Faulty variant: the executor trusts the dry run.                        *)
CleanUnverified(h, j) == Carried(j)

(* The items dispatch_execute acts on: it verifies the job's items again   *)
(* and drops the ones that have drifted.                                   *)
Clean(h, j) == Carried(j) \ Drifted(h)

RunExecute(h) ==
    LET j == agent[h].job
    IN /\ agent[h].pc = "verified" /\ j[2] = "execute" /\ h \notin ScanOnly
       /\ Cardinality(Clean(h, j)) <= BlastCap
       /\ Ran(h, j, Clean(h, j))
       /\ RunsTo(h, Clean(h, j))
       /\ UNCHANGED <<setup, clock, core, ledger, net, sent, faults>>

(* The listener has no write path, the agent's own blast cap refuses (the  *)
(* job does not carry confirm_blast), or the executor raises at some item, *)
(* with the items before it done.  The job is dropped: no result.          *)
RunFails(h) ==
    LET j == agent[h].job
    IN /\ agent[h].pc = "verified"
       /\ \/ j[2] # "scan" /\ h \in ScanOnly /\ UNCHANGED <<file, history>>
          \/ /\ j[2] = "execute" /\ h \notin ScanOnly
             /\ Cardinality(Clean(h, j)) > BlastCap
             /\ UNCHANGED <<file, history>>
          \/ /\ j[2] = "execute" /\ h \notin ScanOnly
             /\ Cardinality(Clean(h, j)) <= BlastCap
             /\ \E done \in SUBSET Clean(h, j) :
                   done # Clean(h, j) /\ Ran(h, j, done)
       /\ agent' = [agent EXCEPT ![h] = Idle]
       /\ UNCHANGED <<setup, clock, core, ledger, net, sent, faults>>

(* One POST, never retried; it may be lost or arrive more than once.       *)
PostResult(h) ==
    /\ agent[h].pc = "posting"
    /\ net' = net \cup {[job |-> agent[h].job, host |-> h, payload |-> agent[h].payload]}
    /\ agent' = [agent EXCEPT ![h] = Idle]
    /\ UNCHANGED <<setup, clock, file, core, ledger, sent, history, faults>>

AgentCrash(h) ==
    /\ agent[h].pc # "idle" /\ MayHappen("crash")
    /\ faults' = [faults EXCEPT !["crash"] = @ + 1]
    /\ agent' = [agent EXCEPT ![h] = Idle]
    /\ UNCHANGED <<setup, clock, file, core, ledger, net, sent, history>>

-----------------------------------------------------------------------------
(* External: time, other users of the files, a network that repeats.       *)

Tick ==
    /\ clock < MaxClock
    /\ clock' = clock + 1
    /\ UNCHANGED <<setup, file, core, agents, history, faults>>

FileChanges(h, i) ==
    /\ file[h][i] = "intact" /\ MayHappen("change")
    /\ faults' = [faults EXCEPT !["change"] = @ + 1]
    /\ file' = [file EXCEPT ![h][i] = "changed"]
    /\ UNCHANGED <<setup, clock, core, agents, history>>

(* A signed job that was on the wire reaches some agent again.             *)
Replay(h, j) ==
    /\ j \in sent /\ agent[h].pc = "idle" /\ MayHappen("replay")
    /\ faults' = [faults EXCEPT !["replay"] = @ + 1]
    /\ agent' = [agent EXCEPT ![h] = [@ EXCEPT !.pc = "claimed", !.job = j]]
    /\ UNCHANGED <<setup, clock, file, core, ledger, net, sent, history>>

-----------------------------------------------------------------------------

CoreStep(o) == DryRunReturns(o) \/ ExecuteReturns(o) \/ DispatchTimeout(o)

AgentStep(h) ==
    \/ PollDropsExpired(h) \/ Poll(h) \/ Verify(h) \/ VerifyRefuses(h)
    \/ RunDryRun(h) \/ RunScan(h) \/ ScanRaises(h) \/ RunExecute(h) \/ RunFails(h)
    \/ PostResult(h)

Rest == clock = MaxClock /\ UNCHANGED vars

Next ==
    \/ \E o \in Op : StartExecute(o) \/ ScanNow(o) \/ CoreStep(o)
    \/ \E m \in net \cup handling : AcceptPost(m) \/ FinishPost(m)
    \/ \E j \in settling : CommitPost(j) \/ CommitFails(j)
    \/ \E h \in Host :
          \/ AgentStep(h) \/ AgentCrash(h)
          \/ \E i \in Item : FileChanges(h, i)
          \/ \E j \in sent : Replay(h, j)
    \/ CoreCrash \/ Tick \/ Rest

Spec == Init /\ [][Next]_vars

(* Time passes, core's event loop runs what is ready (a finished future, a *)
(* timer) and the listen loop keeps polling and finishes what it claimed.  *)
(* A posted result need not arrive.                                        *)
FairSpec ==
    /\ Spec
    /\ WF_vars(Tick)
    /\ \A o \in Op : WF_vars(CoreStep(o))
    /\ \A h \in Host : WF_vars(AgentStep(h))

-----------------------------------------------------------------------------
(* Properties.                                                             *)

(* A signed job runs at most once, and only on the host it was issued to,  *)
(* whatever is replayed to whomever and whoever restarts (SqliteNonceStore *)
(* is durable, verify_job checks the scope first).                         *)
SingleUse ==
    \A j \in Job : ran[j] = << >> \/ ran[j] = <<Target[j[1]]>>

(* What an agent acts on was reported as not drifted by a dry run of the   *)
(* same request, and what core then records as executed is exactly what    *)
(* was done: results are never crossed between jobs, requests or modes.    *)
ExecutedMeansDone ==
    \A o \in Op :
        LET done == acts[<<o, "execute">>]
        IN /\ done # {} => ran[<<o, "dry_run">>] # << >> /\ done \cap report[o] = {}
           /\ op[o] = "executed" => result[o] = done

(* Two requests that execute the same plan never both act on a file: the   *)
(* one that comes second finds it drifted, if not in its dry run then when *)
(* dispatch_execute verifies again.                                        *)
ActedOnOnce ==
    \A o, p \in Op :
        o # p /\ Target[o] = Target[p] =>
            acts[<<o, "execute">>] \cap acts[<<p, "execute">>] = {}

(* The results that have reached a request are, without overlap, those     *)
(* whose nonce is on core's used_nonce ledger, those about to commit it,   *)
(* and those that lost it to a crash or a failed commit after the future   *)
(* was resolved: a 409 leaves no nonce behind, and no second answer to a   *)
(* dispatch is taken whatever became of the first one's transaction.       *)
LedgerMatchesDispatch ==
    /\ \A j \in Job : future[j].state = "result" <=> j \in dbNonce \cup settling \cup lost
    /\ dbNonce \cap settling = {} /\ dbNonce \cap lost = {} /\ settling \cap lost = {}

GaveUp(j) ==
    /\ issued[j] # 0
    /\ op[j[1]] = "timeout"
    /\ j[2] = "execute" \/ issued[<<j[1], "execute">>] = 0

(* No agent starts on a job whose dispatch has timed out: the dispatch     *)
(* window is the job's time to live (job_queue.py, DispatchTimeoutError).  *)
NoStartAfterGiveUp ==
    [][\A h \in Host : (Verify(h) /\ agent[h].job[2] # "scan") => ~GaveUp(agent[h].job)]_vars

(* A dispatch always ends: with the agent's result, by its timeout or with *)
(* the process; lost responses, lost results and crashes included.         *)
DispatchEnds == \A o \in Op : (op[o] \in Waiting) ~> (op[o] \in Over)
=============================================================================
