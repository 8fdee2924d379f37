----------------------------- MODULE Deployment -----------------------------
(* How agents get onto hosts.  A push deployment runs in a background task of *)
(* the core: one SSH session per host, a bounded number at a time.  A pull    *)
(* enrollment hands out a one-time token for which a host fetches its bundle. *)
(* Both mint identities (client certificates); the audit log has to know them.*)
EXTENDS Integers, FiniteSets, Sequences, SequencesExt

CONSTANTS
    Run, Item, run_of,      \* deploy runs and their host requests, [Item -> Run]
    Probe,                  \* preflight, probe-volumes and browse requests
    Token,                  \* enroll requests, each issues one token
    Fetch, token_of,        \* bundle fetches, [Fetch -> Token]
    Made,                   \* the sets of requests that are made in one behaviour
    MaxRuns,                \* of the DeployRunRegistry
    MaxConcurrent,          \* SSH deploys at a time
    MaxPending,             \* live tokens of the EnrollmentRegistry
    MaxEvents               \* failed appends, crashes and shutdowns together

ASSUME DeployConstants ==
    /\ run_of \in [Item -> Run] /\ token_of \in [Fetch -> Token]
    /\ Item \cap Probe = {}
    /\ Made \subseteq SUBSET (Run \cup Probe \cup Token \cup Fetch)
    /\ {MaxRuns, MaxConcurrent, MaxPending} \subseteq Nat \ {0} /\ MaxEvents \in Nat

VARIABLES
    core,       \* "up", "draining" (lifespan teardown) or "down"
    registry,   \* DeployRunRegistry._runs, oldest first
    task,       \* [Run -> step of deploy_route and its background task]
    phase,      \* [Item -> HostStatus.phase]
    minted,     \* items with a status.fingerprint
    placed,     \* items whose bundle, or a part of it, is on the target
    slot,       \* items inside the semaphore
    client,     \* items and probes with an open SSH session
    cut,        \* items whose coroutine drain has cancelled
    probe,      \* [Probe -> step of the route]
    grants,     \* tokens in EnrollmentRegistry._grants
    expired,    \* tokens whose expires_at has passed
    enroll,     \* [Token -> step of enroll_route]
    fetch,      \* [Fetch -> step of enroll_bundle_route]
    log,        \* committed audit records
    events

deploy == <<registry, task, phase, minted, placed, slot, cut>>
pull   == <<grants, expired, enroll, fetch>>
vars   == <<core, deploy, client, probe, pull, log, events>>

Terminal == {"succeeded", "failed"}
Phase == Terminal \cup {"pending", "connecting", "preflight", "uploading", "loading_image",
                        "starting", "verifying"}
hosts(r) == {i \in Item : run_of[i] = r}
Complete(r) == \A i \in hosts(r) : phase[i] \in Terminal

Init ==
    /\ core = "up" /\ registry = <<>>
    /\ \E made \in Made :
        /\ task = [r \in Run |-> IF r \in made THEN "new" ELSE "refused"]
        /\ probe = [p \in Probe |-> IF p \in made THEN "new" ELSE "ended"]
        /\ enroll = [t \in Token |-> IF t \in made THEN "new" ELSE "refused"]
        /\ fetch = [f \in Fetch |-> IF f \in made THEN "new" ELSE "refused"]
    /\ phase = [i \in Item |-> "pending"]
    /\ minted = {} /\ placed = {} /\ slot = {} /\ client = {} /\ cut = {}
    /\ grants = {} /\ expired = {} /\ log = {} /\ events = 0

Disturb == events < MaxEvents /\ events' = events + 1

-----------------------------------------------------------------------------
(* deploy_route                                                              *)

(* While the registry is over its cap the oldest complete run goes, never a   *)
(* live one.                                                                  *)
Evict(runs) ==
    LET full == {n \in 1..Len(runs) : Complete(runs[n])}
        victims == {runs[n] : n \in {m \in full : Cardinality({k \in full : k < m})
                                                  < Len(runs) - MaxRuns}}
    IN SelectSeq(runs, LAMBDA r : r \notin victims)

(* Capability, step-up MFA, scope, or an invalid bundle specification.        *)
RefuseDeploy(r) ==
    /\ core = "up" /\ task[r] = "new"
    /\ task' = [task EXCEPT ![r] = "refused"]
    /\ UNCHANGED <<core, registry, phase, minted, placed, slot, cut, client, probe, pull, log,
                   events>>

Create(r) ==
    /\ core = "up" /\ task[r] = "new"
    /\ registry' = Evict(Append(registry, r))
    /\ task' = [task EXCEPT ![r] = "created"]
    /\ UNCHANGED <<core, phase, minted, placed, slot, cut, client, probe, pull, log, events>>

(* Audit before act: "deployment.initiated" commits in a session of its own,  *)
(* then the background task is scheduled.                                     *)
Initiate(r) ==
    /\ core = "up" /\ task[r] = "created"
    /\ log' = log \cup {<<"initiated", r>>}
    /\ task' = [task EXCEPT ![r] = "running"]
    /\ UNCHANGED <<core, registry, phase, minted, placed, slot, cut, client, probe, pull, events>>

(* A failed append is a 500; the run stays in the registry, pending for ever. *)
InitiateFails(r) ==
    /\ core = "up" /\ task[r] = "created" /\ Disturb
    /\ task' = [task EXCEPT ![r] = "refused"]
    /\ UNCHANGED <<core, registry, phase, minted, placed, slot, cut, client, probe, pull, log>>

-----------------------------------------------------------------------------
(* DeployEngine.deploy_one: the phases of one host, under the semaphore.      *)

(* gather gives every host a task of its own, which lives until it ends.      *)
Working(i) == /\ core # "down" /\ i \notin cut
              /\ task[run_of[i]] \in {"running", "recorded", "unrecorded"}

Advance(i, to) == phase' = [phase EXCEPT ![i] = to]

Enter(i) ==
    /\ Working(i) /\ phase[i] = "pending" /\ i \notin slot
    /\ Cardinality(slot) < MaxConcurrent
    /\ slot' = slot \cup {i}
    /\ Advance(i, "connecting")
    /\ UNCHANGED <<core, registry, task, minted, placed, cut, client, probe, pull, log, events>>

Connect(i) ==
    /\ Working(i) /\ phase[i] = "connecting"
    /\ client' = client \cup {i}
    /\ Advance(i, "preflight")
    /\ UNCHANGED <<core, registry, task, minted, placed, slot, cut, probe, pull, log, events>>

(* Docker and the proxy were found; mint_client_cert, then the directory.     *)
MintCert(i) ==
    /\ Working(i) /\ phase[i] = "preflight"
    /\ minted' = minted \cup {i}
    /\ Advance(i, "uploading")
    /\ UNCHANGED <<core, registry, task, placed, slot, cut, client, probe, pull, log, events>>

(* A first file of the bundle is on the target.                               *)
Upload(i) ==
    /\ Working(i) /\ phase[i] = "uploading" /\ i \notin placed
    /\ placed' = placed \cup {i}
    /\ UNCHANGED <<core, registry, task, phase, minted, slot, cut, client, probe, pull, log,
                   events>>

(* No archive is configured, the image is there, or it is loaded.             *)
EnsureImage(i) ==
    /\ Working(i)
    /\ \/ phase[i] = "uploading" /\ i \in placed
          /\ \E to \in {"loading_image", "starting"} : Advance(i, to)
       \/ phase[i] = "loading_image" /\ Advance(i, "starting")
    /\ UNCHANGED <<core, registry, task, minted, placed, slot, cut, client, probe, pull, log,
                   events>>

ComposeUp(i) ==
    /\ Working(i) /\ phase[i] = "starting"
    /\ Advance(i, "verifying")
    /\ UNCHANGED <<core, registry, task, minted, placed, slot, cut, client, probe, pull, log,
                   events>>

(* The container exists.  The status says so before the session is closed.    *)
VerifyContainer(i) ==
    /\ Working(i) /\ phase[i] = "verifying"
    /\ Advance(i, "succeeded")
    /\ UNCHANGED <<core, registry, task, minted, placed, slot, cut, client, probe, pull, log,
                   events>>

CloseClient(i) ==
    /\ Working(i) /\ phase[i] = "succeeded" /\ i \in slot
    /\ slot' = slot \ {i} /\ client' = client \ {i}
    /\ UNCHANGED <<core, registry, task, phase, minted, placed, cut, probe, pull, log, events>>

FailKeepsSlot(i) ==
    /\ Working(i) /\ i \in slot /\ phase[i] \notin Terminal
    /\ Advance(i, "failed")
    /\ UNCHANGED <<core, registry, task, minted, placed, slot, cut, client, probe, pull, log,
                   events>>

(* An error of any step, of the close after the last one too: the finally     *)
(* closes the session, deploy_one swallows the exception, the slot is left.   *)
FailHost(i) ==
    /\ Working(i) /\ i \in slot
    /\ Advance(i, "failed")
    /\ slot' = slot \ {i} /\ client' = client \ {i}
    /\ UNCHANGED <<core, registry, task, minted, placed, cut, probe, pull, log, events>>

Ended(i) == i \notin slot /\ (i \in cut \/ phase[i] \in Terminal)

(* A cancelled coroutine runs its finally.  It holds slot and session until   *)
(* client.close has returned, and ends with CancelledError.                   *)
CancelKeepsClient(i) ==
    /\ core # "down" /\ i \in cut \cap slot
    /\ slot' = slot \ {i}
    /\ UNCHANGED <<core, registry, task, phase, minted, placed, cut, client, probe, pull, log,
                   events>>

EndCancelled(i) ==
    /\ core # "down" /\ i \in cut \cap slot
    /\ slot' = slot \ {i} /\ client' = client \ {i}
    /\ UNCHANGED <<core, registry, task, phase, minted, placed, cut, probe, pull, log, events>>

(* client.close raises in its place: deploy_one takes that for a failed host. *)
CloseRaises(i) ==
    /\ core # "down" /\ i \in cut \cap slot \cap client /\ phase[i] \notin Terminal
    /\ Advance(i, "failed")
    /\ slot' = slot \ {i} /\ client' = client \ {i}
    /\ UNCHANGED <<core, registry, task, minted, placed, cut, probe, pull, log, events>>

GatheredOnFailure(r) == \/ \A i \in hosts(r) : Ended(i)
                        \/ \E i \in hosts(r) : phase[i] = "failed"

(* deploy_batch returns: gather has all its children, or a first one ended    *)
(* with CancelledError, which gather without return_exceptions passes on.     *)
Gathered(r) ==
    \/ \A i \in hosts(r) : Ended(i)
    \/ \E i \in hosts(r) \cap cut : Ended(i) /\ phase[i] # "failed"

Result(i) == <<"result", i, phase[i], i \in minted>>

(* The finally of _deploy_and_audit: one transaction, a record per host.      *)
RecordResults(r) ==
    /\ core # "down" /\ task[r] = "running" /\ Gathered(r)
    /\ log' = log \cup {Result(i) : i \in hosts(r)}
    /\ task' = [task EXCEPT ![r] = "recorded"]
    /\ UNCHANGED <<core, registry, phase, minted, placed, slot, cut, client, probe, pull, events>>

(* The transaction fails, or drain cancels it; _on_task_done logs it.         *)
RecordFails(r) ==
    /\ core # "down" /\ task[r] = "running" /\ Gathered(r) /\ Disturb
    /\ task' = [task EXCEPT ![r] = "unrecorded"]
    /\ UNCHANGED <<core, registry, phase, minted, placed, slot, cut, client, probe, pull, log>>

-----------------------------------------------------------------------------
(* preflight, probe_volumes and browse_directory: one session, read only.     *)

(* Capability, step-up MFA or scope refuses, or there is no runtime.          *)
RefuseProbe(p) ==
    /\ core = "up" /\ probe[p] = "new"
    /\ probe' = [probe EXCEPT ![p] = "ended"]
    /\ UNCHANGED <<core, deploy, client, pull, log, events>>

(* connect: a target that cannot be reached is an answer too.                 *)
OpenProbe(p) ==
    /\ core = "up" /\ probe[p] = "new"
    /\ \/ probe' = [probe EXCEPT ![p] = "open"] /\ client' = client \cup {p}
       \/ probe' = [probe EXCEPT ![p] = "ended"] /\ UNCHANGED client
    /\ UNCHANGED <<core, deploy, pull, log, events>>

(* Its commands have answered, run out of time or failed; the finally clause. *)
CloseProbe(p) ==
    /\ core = "up" /\ probe[p] = "open"
    /\ probe' = [probe EXCEPT ![p] = "ended"] /\ client' = client \ {p}
    /\ UNCHANGED <<core, deploy, pull, log, events>>

-----------------------------------------------------------------------------
(* EnrollmentRegistry and the enroll routes.                                  *)

(* Capability, step-up MFA, scope, or an invalid (Windows) specification.     *)
RefuseEnroll(t) ==
    /\ core = "up" /\ enroll[t] = "new"
    /\ enroll' = [enroll EXCEPT ![t] = "refused"]
    /\ UNCHANGED <<core, deploy, client, probe, grants, expired, fetch, log, events>>

(* issue: expired grants are collected, then the cap applies (429).           *)
Issue(t) ==
    /\ core = "up" /\ enroll[t] = "new"
    /\ LET live == grants \ expired
       IN IF Cardinality(live) >= MaxPending
          THEN grants' = live /\ enroll' = [enroll EXCEPT ![t] = "refused"]
          ELSE grants' = live \cup {t} /\ enroll' = [enroll EXCEPT ![t] = "issued"]
    /\ UNCHANGED <<core, deploy, client, probe, expired, fetch, log, events>>

(* The record is appended, or that fails and nobody learns the token.         *)
EnrollResponds(t) ==
    /\ core = "up" /\ enroll[t] = "issued"
    /\ \/ enroll' = [enroll EXCEPT ![t] = "given"] /\ UNCHANGED events
       \/ enroll' = [enroll EXCEPT ![t] = "unknown"] /\ Disturb
    /\ UNCHANGED <<core, deploy, client, probe, grants, expired, fetch, log>>

(* The dependency db_session commits when the response is out, or fails.      *)
EnrollCommits(t) ==
    /\ core = "up" /\ enroll[t] = "given"
    /\ \/ /\ log' = log \cup {<<"issued", t>>}
          /\ enroll' = [enroll EXCEPT ![t] = "known"] /\ UNCHANGED events
       \/ UNCHANGED log /\ enroll' = [enroll EXCEPT ![t] = "uncommitted"] /\ Disturb
    /\ UNCHANGED <<core, deploy, client, probe, grants, expired, fetch>>

(* Somebody holds the raw token.                                              *)
Held(t) == enroll[t] \in {"given", "known", "uncommitted"}

Expire(t) ==
    /\ enroll[t] \notin {"new", "refused"} /\ t \notin expired
    /\ expired' = expired \cup {t}
    /\ UNCHANGED <<core, deploy, client, probe, grants, enroll, fetch, log, events>>

(* EnrollmentRegistry.verify, of the image route: not consumed.               *)
FetchImage(t) ==
    /\ core = "up" /\ Held(t) /\ t \in grants \cap expired
    /\ grants' = grants \ {t}
    /\ UNCHANGED <<core, deploy, client, probe, expired, enroll, fetch, log, events>>

(* A certificate is minted and the bundle built and packed; an error there is *)
(* a 500, after the token is spent.                                           *)
Packed == {"redeemed", "refused"}

RedeemKeepsGrant(f) ==
    LET t == token_of[f]
    IN /\ core = "up" /\ fetch[f] = "new" /\ Held(t)
       /\ \E out \in IF t \in grants \ expired THEN Packed ELSE {"refused"} :
            fetch' = [fetch EXCEPT ![f] = out]
       /\ UNCHANGED <<core, deploy, client, probe, grants, expired, enroll, log, events>>

(* EnrollmentRegistry.redeem, up to the first await: check and consume.       *)
Redeem(f) ==
    LET t == token_of[f]
    IN /\ core = "up" /\ fetch[f] = "new" /\ Held(t)
       /\ grants' = grants \ {t}
       /\ \E out \in IF t \in grants \ expired THEN Packed ELSE {"refused"} :
            fetch' = [fetch EXCEPT ![f] = out]
       /\ UNCHANGED <<core, deploy, client, probe, expired, enroll, log, events>>

(* The record is committed; if that fails nothing is handed out.              *)
RecordRedeemed(f) ==
    /\ core = "up" /\ fetch[f] = "redeemed"
    /\ \/ /\ log' = log \cup {<<"redeemed", f>>}
          /\ fetch' = [fetch EXCEPT ![f] = "recorded"] /\ UNCHANGED events
       \/ fetch' = [fetch EXCEPT ![f] = "refused"] /\ Disturb /\ UNCHANGED log
    /\ UNCHANGED <<core, deploy, client, probe, grants, expired, enroll>>

(* The response reaches the host.                                             *)
ServeBundle(f) ==
    /\ core = "up" /\ fetch[f] = "recorded"
    /\ fetch' = [fetch EXCEPT ![f] = "served"]
    /\ UNCHANGED <<core, deploy, client, probe, grants, expired, enroll, log, events>>

-----------------------------------------------------------------------------
(* Shutdown: no new requests, drain waits for the tasks.                      *)
Stop ==
    /\ core = "up" /\ Disturb
    /\ \A r \in Run : task[r] # "created"
    /\ \A t \in Token : enroll[t] \notin {"issued", "given"}
    /\ \A f \in Fetch : fetch[f] \notin {"redeemed", "recorded"}
    /\ client \subseteq Item
    /\ core' = "draining"
    /\ UNCHANGED <<deploy, client, probe, pull, log>>

(* drain's timeout: every host task of a run that goes on is cancelled.  One  *)
(* that waits for the semaphore ends there; a phase stays as it is.           *)
CancelStragglers ==
    /\ core = "draining"
    /\ LET late == {i \in Item \ cut : task[run_of[i]] = "running" /\ ~Ended(i)}
       IN late # {} /\ cut' = cut \cup late
    /\ UNCHANGED <<core, registry, task, phase, minted, placed, slot, client, probe, pull, log,
                   events>>

(* drain awaits the tasks of the runs, not those of their hosts.              *)
Drained ==
    /\ core = "draining" /\ \A r \in Run : task[r] # "running"
    /\ core' = "down"
    /\ UNCHANGED <<deploy, client, probe, pull, log, events>>

(* The process dies.  Its registries, tasks and sessions are gone.            *)
Crash ==
    /\ core = "up" /\ Disturb
    /\ core' = "down"
    /\ UNCHANGED <<deploy, client, probe, pull, log>>

(* A new process: both registries are empty, whatever was running is lost.    *)
Restart ==
    /\ core = "down"
    /\ core' = "up" /\ registry' = <<>> /\ grants' = {}
    /\ slot' = {} /\ client' = {}
    /\ task' = [r \in Run |-> IF task[r] \in {"created", "running"} THEN "lost" ELSE task[r]]
    /\ probe' = [p \in Probe |-> IF probe[p] = "open" THEN "ended" ELSE probe[p]]
    /\ enroll' = [t \in Token |-> IF enroll[t] = "issued" THEN "unknown"
                                   ELSE IF enroll[t] = "given" THEN "uncommitted"
                                   ELSE enroll[t]]
    /\ fetch' = [f \in Fetch |-> IF fetch[f] \in {"redeemed", "recorded"} THEN "refused"
                                 ELSE fetch[f]]
    /\ UNCHANGED <<phase, minted, placed, cut, expired, log, events>>

-----------------------------------------------------------------------------
deploy_one(i) ==
    \/ Enter(i) \/ Connect(i) \/ MintCert(i) \/ Upload(i) \/ EnsureImage(i) \/ ComposeUp(i)
    \/ VerifyContainer(i) \/ CloseClient(i) \/ FailHost(i)

Idle ==
    /\ core = "up"
    /\ \A r \in Run : task[r] \notin {"new", "created", "running"}
    /\ \A p \in Probe : probe[p] = "ended"
    /\ \A t \in Token : enroll[t] \notin {"new", "issued", "given"}
    /\ \A f \in Fetch : fetch[f] \in {"served", "refused"} \/ ~Held(token_of[f])
    /\ UNCHANGED vars

Next ==
    \/ \E r \in Run : RefuseDeploy(r) \/ Create(r) \/ Initiate(r) \/ InitiateFails(r)
                      \/ RecordResults(r) \/ RecordFails(r)
    \/ \E i \in Item : deploy_one(i) \/ EndCancelled(i) \/ CloseRaises(i)
    \/ \E p \in Probe : RefuseProbe(p) \/ OpenProbe(p) \/ CloseProbe(p)
    \/ \E t \in Token : RefuseEnroll(t) \/ Issue(t) \/ EnrollResponds(t) \/ EnrollCommits(t)
                        \/ Expire(t) \/ FetchImage(t)
    \/ \E f \in Fetch : Redeem(f) \/ RecordRedeemed(f) \/ ServeBundle(f)
    \/ Stop \/ CancelStragglers \/ Drained \/ Crash \/ Restart \/ Idle

Spec == Init /\ [][Next]_vars

(* The event loop runs every ready coroutine; an SSH command has a timeout of *)
(* 600 s and a connection one of 20 s (an SFTP transfer and the close have    *)
(* none: here they end).  The service manager restarts the core.              *)
FairSpec ==
    /\ Spec
    /\ \A i \in Item : WF_vars(deploy_one(i)) /\ WF_vars(EndCancelled(i))
    /\ \A r \in Run : WF_vars(RecordResults(r))
    /\ WF_vars(CancelStragglers) /\ WF_vars(Drained) /\ WF_vars(Restart)

-----------------------------------------------------------------------------
(* Properties                                                                *)

(* Every identity that left the core is known to the audit log: a bundle on a *)
(* target belongs to a run whose initiation was committed before, a bundle    *)
(* that a host fetched has its record; and one token gave one identity, even  *)
(* to two fetches at once, across failed appends, crashes and shutdowns.      *)
IdentityIsRecorded ==
    /\ \A i \in placed : <<"initiated", run_of[i]>> \in log
    /\ \A f \in Fetch : fetch[f] = "served" => <<"redeemed", f>> \in log
    /\ \A f, g \in Fetch : /\ token_of[f] = token_of[g]
                           /\ {<<"redeemed", f>>, <<"redeemed", g>>} \subseteq log
                           => f = g

(* The record of a host says how its deployment ended, with the identity it   *)
(* was given, whichever other host failed: nothing about it changes after the *)
(* record, except that a host which drain cancelled, recorded in the phase    *)
(* where it stood, may still fail while it closes its session.                *)
ResultIsFinal ==
    \A i \in Item : task[run_of[i]] = "recorded" =>
        \/ Result(i) \in log
        \/ /\ i \in cut /\ phase[i] = "failed"
           /\ \E was \in Phase \ Terminal : <<"result", i, was, i \in minted>> \in log

(* Whatever ends, by success, error or cancellation, holds no slot of the     *)
(* semaphore and no SSH session.  Of a run that has ended only hosts that     *)
(* drain cancelled and that are still closing hold any, and none outlasts the *)
(* shutdown: a slot that leaked would be lost to all later deployments.       *)
EndedHoldsNothing ==
    core # "down" =>
        /\ \A i \in Item : i \in slot \cup client =>
              /\ i \in slot
              /\ task[run_of[i]] = "running" \/ (core = "draining" /\ i \in cut)
        /\ \A p \in client \cap Probe : probe[p] = "open"

(* A deployment that started ends, and its results are recorded unless that   *)
(* fails or the core dies.                                                    *)
RunEnds ==
    \A r \in Run : task[r] = "running"
                   ~> task[r] \in {"recorded", "unrecorded", "lost"}

=============================================================================
