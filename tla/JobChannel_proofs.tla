-------------------------- MODULE JobChannel_proofs --------------------------
(***************************************************************************)
(* Proofs about JobChannel, for any requests, hosts, items and bounds: a   *)
(* job runs once, core's record of an execution is what was done, the two  *)
(* ledgers agree with the dispatches, and no agent starts on a job whose   *)
(* request has given up.                                                   *)
(***************************************************************************)
EXTENDS JobChannel, TLAPS

-----------------------------------------------------------------------------
(* The inductive invariant.                                                *)

Exists(j) == issued[j] # 0

DryRun(o) == <<o, "dry_run">>
Exec(o) == <<o, "execute">>

HasJob == \A h \in Host : agent[h].pc # "idle" => agent[h].job \in Job

(* A job that is queued, on the wire or in an agent has been issued.       *)
JobsExist ==
    /\ \A h \in Host : \A n \in 1 .. Len(queue[h]) : Exists(queue[h][n])
    /\ \A j \in sent : Exists(j)
    /\ \A h \in Host : agent[h].pc # "idle" => Exists(agent[h].job)

(* The nonce is recorded before the job runs, and stays.                   *)
NonceFirst ==
    /\ \A j \in Job : \/ ran[j] = << >>
                      \/ ran[j] = <<Target[j[1]]>> /\ j \in ledger[Target[j[1]]] /\ Exists(j)
    /\ \A h \in Host : agent[h].pc = "verified" =>
           LET j == agent[h].job
           IN Target[j[1]] = h /\ j \in ledger[h] /\ ran[j] = << >>

(* payload is what a run of j has reported.                                *)
Reports(j, payload) == ran[j] # << >> /\ (j[2] = "execute" => payload = acts[j])

(* Every result under way to the request tells the truth.                  *)
ResultsTrue ==
    /\ \A j \in Job : ran[j] = << >> => acts[j] = {}
    /\ \A h \in Host : agent[h].pc = "posting" => Reports(agent[h].job, agent[h].payload)
    /\ \A m \in net \cup handling : Reports(m.job, m.payload)
    /\ \A j \in Job : future[j].state = "result" => Reports(j, future[j].payload)

(* How far the request is and which of its jobs exist.                     *)
Phases ==
    /\ \A o \in Op : op[o] = "idle" => \A md \in Mode : ~Exists(<<o, md>>)
    /\ \A o \in Op : Exists(Exec(o)) =>
           op[o] # "idle" /\ op[o] # "dry_run" /\ ran[DryRun(o)] # << >>
    /\ \A o \in Op : op[o] = "execute" => Exists(Exec(o))
    /\ \A o \in Op : acts[Exec(o)] \cap report[o] = {}
    /\ \A o \in Op : op[o] = "executed" => ran[Exec(o)] # << >> /\ result[o] = acts[Exec(o)]

(* What was acted on has drifted for everybody else.                       *)
ActedIsGone ==
    \A o \in Op : \A i \in acts[Exec(o)] : file[Target[o]][i] # "intact"

(* No two requests have acted on the same file.                            *)
OnePerFile ==
    \A o, p \in Op : o # p /\ Target[o] = Target[p] => acts[Exec(o)] \cap acts[Exec(p)] = {}

(* A dispatch gives up only on a job that has expired.                     *)
GiveUpIsLate ==
    /\ \A j \in Job : future[j].state = "failed" => Exists(j) /\ _expired(j)
    /\ \A j \in Job : j[2] # "scan" /\ GaveUp(j) => _expired(j)

IInv ==
    /\ TypeOK /\ HasJob
    /\ JobsExist
    /\ NonceFirst
    /\ ResultsTrue
    /\ Phases
    /\ ActedIsGone /\ OnePerFile
    /\ GiveUpIsLate
    /\ LedgerMatchesDispatch

-----------------------------------------------------------------------------
(* Types.                                                                  *)

(* The state machine starts with values of the right type.                 *)
LEMMA TypeInit == Init => TypeOK
  BY ChannelConstants
  DEF Init, TypeOK, Idle, AgentState, OpState, Pending, Future, Payload, Waiting, Over, Job,
      Mode, NoJob

(* The jobs whose request waits for them.                                  *)
Awaited == {<<o, op[o]>> : o \in {p \in Op : op[p] \in Waiting}}

-----------------------------------------------------------------------------
(* The kinds of step.                                                      *)

(* The agent forgets its job: it refused it, failed before it acted, or    *)
(* died.                                                                   *)
Drops(h) ==
    /\ agent[h].pc # "idle"
    /\ agent' = [agent EXCEPT ![h] = Idle]
    /\ faults' \in [Fault -> Nat]
    /\ UNCHANGED <<setup, clock, file, core, ledger, net, sent, history>>

(* The agent runs its job, acts on some of the clean items, and has a      *)
(* result to post or fails.                                                *)
Runs(h, acted) ==
    LET j == agent[h].job
    IN /\ agent[h].pc = "verified"
       /\ acted \subseteq Clean(h, j)
       /\ j[2] # "execute" => acted = {}
       /\ Ran(h, j, acted)
       /\ \/ agent' = [agent EXCEPT ![h] = Idle]
          \/ \E payload \in Payload :
                RunsTo(h, payload) /\ (j[2] = "execute" => payload = acted)
       /\ UNCHANGED <<setup, clock, core, ledger, net, sent, faults>>

(* What the agent does with a verified job (dispatch.py) is a run or a     *)
(* drop.                                                                   *)
LEMMA AgentRuns ==
    ASSUME TypeOK, NEW h \in Host,
           RunDryRun(h) \/ RunScan(h) \/ ScanRaises(h) \/ RunExecute(h) \/ RunFails(h)
    PROVE  Drops(h) \/ \E acted \in Payload : Runs(h, acted)
<1>1. Drifted(h) \in Payload /\ Clean(h, agent[h].job) \in Payload /\ {} \in Payload
  BY DEF Drifted, Clean, Carried, Payload
<1>2. CASE RunDryRun(h)
  BY <1>1, <1>2 DEF RunDryRun, Runs
<1>3. CASE RunScan(h)
  BY <1>1, <1>3 DEF RunScan, Runs
<1>4. CASE ScanRaises(h)
  <2>1. CASE UNCHANGED <<file, history>>
    BY <1>4, <2>1 DEF ScanRaises, Drops, TypeOK
  <2>2. CASE Ran(h, agent[h].job, {})
    BY <1>1, <1>4, <2>2 DEF ScanRaises, Runs
  <2> QED
    BY <1>4, <2>1, <2>2 DEF ScanRaises
<1>5. CASE RunExecute(h)
  BY <1>1, <1>5 DEF RunExecute, Runs
<1>6. CASE RunFails(h)
  <2>1. CASE UNCHANGED <<file, history>>
    BY <1>6, <2>1 DEF RunFails, Drops, TypeOK
  <2>2. CASE ~UNCHANGED <<file, history>>
    <3>1. PICK done \in SUBSET Clean(h, agent[h].job) : Ran(h, agent[h].job, done)
      BY <1>6, <2>2 DEF RunFails
    <3>2. done \in Payload
      BY <1>1, <3>1 DEF Payload
    <3> QED
      BY <1>6, <2>2, <3>1, <3>2 DEF RunFails, Runs
  <2> QED
    BY <2>1, <2>2
<1> QED
  BY <1>2, <1>3, <1>4, <1>5, <1>6

(* Every step is one of these.                                             *)
LEMMA Cases ==
    ASSUME TypeOK, [Next]_vars
    PROVE  \/ \E o \in Op : \/ StartExecute(o) \/ ScanNow(o) \/ DryRunReturns(o)
                            \/ ExecuteReturns(o) \/ DispatchTimeout(o)
           \/ \E m \in net : AcceptPost(m)
           \/ \E m \in handling : FinishPost(m)
           \/ \E j \in settling : CommitPost(j) \/ CommitFails(j)
           \/ \E h \in Host : \/ PollDropsExpired(h) \/ Poll(h) \/ Verify(h)
                              \/ Drops(h) \/ PostResult(h)
                              \/ \E acted \in Payload : Runs(h, acted)
                              \/ \E i \in Item : FileChanges(h, i)
                              \/ \E j \in sent : Replay(h, j)
           \/ CoreCrash \/ Tick \/ UNCHANGED vars
<1>1. ASSUME NEW h \in Host, VerifyRefuses(h) PROVE Drops(h)
  BY <1>1 DEF VerifyRefuses, Drops, TypeOK
<1>2. ASSUME NEW h \in Host, AgentCrash(h) PROVE Drops(h)
  BY <1>2 DEF Fault, AgentCrash, Drops, TypeOK
<1>3. ASSUME NEW m, AcceptPost(m) PROVE m \in net
  BY <1>3 DEF AcceptPost
<1>4. ASSUME NEW m, FinishPost(m) PROVE m \in handling
  BY <1>4 DEF FinishPost
<1>5. CASE \E o \in Op : StartExecute(o) \/ ScanNow(o) \/ CoreStep(o)
  BY <1>5 DEF CoreStep
<1>6. CASE \E m \in net \cup handling : AcceptPost(m) \/ FinishPost(m)
  BY <1>6, <1>3, <1>4
<1>7. ASSUME NEW h \in Host, AgentStep(h) \/ AgentCrash(h)
      PROVE  \/ PollDropsExpired(h) \/ Poll(h) \/ Verify(h) \/ Drops(h) \/ PostResult(h)
             \/ \E acted \in Payload : Runs(h, acted)
  BY <1>7, <1>1, <1>2, AgentRuns DEF AgentStep
<1>8. CASE \E h \in Host : \E i \in Item : FileChanges(h, i)
  BY <1>8
<1>9. CASE \E h \in Host : \E j \in sent : Replay(h, j)
  BY <1>9
<1> QED
  BY <1>5, <1>6, <1>7, <1>8, <1>9 DEF Next, Rest

-----------------------------------------------------------------------------
(* Types.                                                                  *)

(* A request and a mode name a job.                                        *)
LEMMA JobNames ==
    ASSUME NEW o \in Op
    PROVE  <<o, "dry_run">> \in Job /\ <<o, "execute">> \in Job /\ <<o, "scan">> \in Job
  BY DEF Job, Mode

(* A job names its request, and the request its host (host_id).            *)
LEMMA JobHost == \A j \in Job : j[1] \in Op /\ Target[j[1]] \in Host
  BY ChannelConstants DEF Job

(* The outcomes of a dispatch are futures (job_queue.py).                  *)
LEMMA Outcomes == Failed \in Future /\ \A payload \in Payload : Result(payload) \in Future
  BY DEF Failed, Result, Future, Payload

(* poll() takes the oldest job from the queue.                             *)
LEMMA QueueHead ==
    ASSUME TypeOK, NEW h \in Host, queue[h] # << >>
    PROVE  Head(queue[h]) \in Job /\ Tail(queue[h]) \in Seq(Job)
  BY DEF TypeOK

(* An agent's job, and what it does with it.                               *)
LEMMA AgentUpdates ==
    ASSUME NEW a \in AgentState, NEW j \in Job, NEW payload \in Payload
    PROVE  /\ a.job \in Job \cup {NoJob} /\ a.payload \in Payload
           /\ [a EXCEPT !.pc = "claimed", !.job = j] \in AgentState
           /\ [a EXCEPT !.pc = "verified"] \in AgentState
           /\ [a EXCEPT !.pc = "posting", !.payload = payload] \in AgentState
           /\ Idle \in AgentState
  BY DEF AgentState, Idle, Payload

(* Every step keeps the types, awaiting follows op, and an agent that is   *)
(* not idle has a job.                                                     *)
LEMMA TypeStep == TypeOK /\ HasJob /\ [Next]_vars => TypeOK' /\ HasJob'
<1> SUFFICES ASSUME TypeOK, HasJob, [Next]_vars PROVE TypeOK' /\ HasJob'
  OBVIOUS
<1> USE ChannelConstants
<1>1. ASSUME NEW o \in Op, StartExecute(o) PROVE TypeOK' /\ HasJob'
  <2>1. op' \in [Op -> OpState]
    BY <1>1 DEF TypeOK, StartExecute, OpState, Waiting
  <2>2. issued' \in [Job -> 0 .. MaxClock]
    BY <1>1 DEF TypeOK, StartExecute, Enqueue, Admitted, Job, Mode
  <2>3. queue' \in [Host -> Seq(Job)]
    BY <1>1 DEF TypeOK, StartExecute, Enqueue, Job, Mode
  <2>4. awaiting' = Awaited'
    BY <1>1 DEF TypeOK, StartExecute, Awaited, Admitted, Waiting
  <2>5. UNCHANGED <<setup, clock, file, report, result, future, dbNonce, settling, lost, handling, agent,
      ledger, net, sent, ran, acts, faults>>
    BY <1>1 DEF StartExecute, core, nonces, agents, history
  <2> QED
    BY <2>1, <2>2, <2>3, <2>4, <2>5 DEF TypeOK, Awaited, HasJob
<1>2. ASSUME NEW o \in Op, ScanNow(o) PROVE TypeOK' /\ HasJob'
  <2>1. op' \in [Op -> OpState]
    BY <1>2 DEF TypeOK, ScanNow, OpState, Over
  <2>2. issued' \in [Job -> 0 .. MaxClock]
    BY <1>2 DEF TypeOK, ScanNow, Enqueue, Admitted, Job, Mode
  <2>3. queue' \in [Host -> Seq(Job)]
    BY <1>2 DEF TypeOK, ScanNow, Enqueue, Job, Mode
  <2>4. awaiting' = Awaited'
    BY <1>2 DEF TypeOK, ScanNow, Awaited, Admitted, Waiting
  <2>5. UNCHANGED <<setup, clock, file, report, result, future, dbNonce, settling, lost, handling, agent,
      ledger, net, sent, ran, acts, faults>>
    BY <1>2 DEF ScanNow, core, nonces, agents, history
  <2> QED
    BY <2>1, <2>2, <2>3, <2>4, <2>5 DEF TypeOK, Awaited, HasJob
<1>3. ASSUME NEW o \in Op, DryRunReturns(o) PROVE TypeOK' /\ HasJob'
  <2>1. UNCHANGED <<issued, queue>> \/ Enqueue(<<o, "execute">>)
    BY <1>3 DEF DryRunReturns
  <2>2. clock \in 0 .. MaxClock /\ Target[o] \in Host
    BY DEF TypeOK
  <2>3. issued \in [Job -> 0 .. MaxClock] /\ queue \in [Host -> Seq(Job)] /\ <<o,
      "execute">>[1] = o
    BY DEF TypeOK
  <2>4. awaiting' = IF op'[o] = "execute" THEN (awaiting \ {<<o, "dry_run">>}) \cup {<<o,
      "execute">>}
                       ELSE awaiting \ {<<o, "dry_run">>}
    BY <1>3 DEF TypeOK, DryRunReturns
  <2>5. op[o] = "dry_run" /\ op' = [op EXCEPT ![o] = op'[o]] /\ op'[o] \notin {"dry_run"}
            /\ op'[o] \in {"skipped", "over_cap", "execute"}
    BY <1>3 DEF TypeOK, DryRunReturns
  <2>6. Append(queue[Target[o]], <<o, "execute">>) \in Seq(Job)
    BY <2>2, <2>3 DEF Job, Mode
  <2>7. op' \in [Op -> OpState]
    BY <1>3 DEF TypeOK, DryRunReturns, OpState, Waiting, Over
  <2>8. issued' \in [Job -> 0 .. MaxClock]
    BY <2>1, <2>2, <2>3, JobNames DEF TypeOK, Enqueue
  <2>9. report' \in [Op -> Payload]
    BY <1>3 DEF TypeOK, DryRunReturns, Future, Job, Mode
  <2>10. queue' \in [Host -> Seq(Job)]
    BY <2>1, <2>2, <2>3, <2>6 DEF Enqueue
  <2>11. awaiting' = Awaited'
    BY <2>4, <2>5 DEF TypeOK, Awaited, Waiting
  <2>12. UNCHANGED <<setup, clock, file, result, future, dbNonce, settling, lost, handling, agent, ledger,
      net, sent, ran, acts, faults>>
    BY <1>3 DEF DryRunReturns, core, nonces, agents, history
  <2> QED
    BY <2>7, <2>8, <2>9, <2>10, <2>11, <2>12 DEF TypeOK, Awaited, HasJob
<1>4. ASSUME NEW o \in Op, ExecuteReturns(o) PROVE TypeOK' /\ HasJob'
  <2>1. op' \in [Op -> OpState]
    BY <1>4 DEF TypeOK, ExecuteReturns, OpState, Over
  <2>2. result' \in [Op -> Payload]
    BY <1>4 DEF TypeOK, ExecuteReturns, Future, Job, Mode
  <2>3. awaiting' = Awaited'
    BY <1>4 DEF TypeOK, ExecuteReturns, Awaited, Waiting
  <2>4. UNCHANGED <<setup, clock, file, issued, report, queue, future, dbNonce, settling, lost, handling,
      agent, ledger, net, sent, ran, acts, faults>>
    BY <1>4 DEF ExecuteReturns, core, nonces, agents, history
  <2> QED
    BY <2>1, <2>2, <2>3, <2>4 DEF TypeOK, Awaited, HasJob
<1>5. ASSUME NEW o \in Op, DispatchTimeout(o) PROVE TypeOK' /\ HasJob'
  <2>1. op' \in [Op -> OpState]
    BY <1>5 DEF TypeOK, DispatchTimeout, OpState, Over
  <2>2. awaiting' = Awaited'
    BY <1>5 DEF TypeOK, DispatchTimeout, Awaited, Waiting
  <2>3. UNCHANGED <<setup, clock, file, issued, report, result, queue, future, dbNonce, settling, lost,
      handling, agent, ledger, net, sent, ran, acts, faults>>
    BY <1>5 DEF DispatchTimeout, core, nonces, agents, history
  <2> QED
    BY <2>1, <2>2, <2>3 DEF TypeOK, Awaited, HasJob
<1>6. ASSUME NEW m \in net, AcceptPost(m) PROVE TypeOK' /\ HasJob'
  <2>1. handling' \subseteq Post
    BY <1>6 DEF TypeOK, AcceptPost
  <2>2. UNCHANGED <<setup, clock, file, op, issued, report, result, queue, awaiting, future,
      dbNonce, settling, lost, agent, ledger, net, sent, ran, acts, faults>>
    BY <1>6 DEF AcceptPost, core, nonces, agents, history
  <2> QED
    BY <2>1, <2>2 DEF TypeOK, Awaited, HasJob
<1>7. ASSUME NEW m \in handling, FinishPost(m) PROVE TypeOK' /\ HasJob'
  <2>1. m.job \in Job /\ m.payload \in Payload
    BY DEF TypeOK, Post
  <2>2. future' \in [Job -> Future]
    BY <1>7, <2>1, Outcomes DEF TypeOK, FinishPost
  <2>3. dbNonce' = dbNonce /\ settling' \subseteq Job /\ lost' = lost
    BY <1>7, <2>1 DEF TypeOK, FinishPost
  <2>4. handling' \subseteq Post
    BY <1>7 DEF TypeOK, FinishPost
  <2>5. UNCHANGED <<setup, clock, file, op, issued, report, result, queue, awaiting, agent,
      ledger, net, sent, ran, acts, faults>>
    BY <1>7 DEF FinishPost, core, nonces, agents, history
  <2> QED
    BY <2>2, <2>3, <2>4, <2>5 DEF TypeOK, Awaited, HasJob
<1>8. ASSUME NEW h \in Host, PollDropsExpired(h) PROVE TypeOK' /\ HasJob'
  <2>1. queue' \in [Host -> Seq(Job)]
    BY <1>8 DEF TypeOK, PollDropsExpired
  <2>2. future' \in [Job -> Future]
    BY <1>8, Outcomes, QueueHead DEF TypeOK, PollDropsExpired
  <2>3. UNCHANGED <<setup, clock, file, op, issued, report, result, awaiting, dbNonce, settling, lost,
      handling, agent, ledger, net, sent, ran, acts, faults>>
    BY <1>8 DEF PollDropsExpired, core, nonces, agents, history
  <2> QED
    BY <2>1, <2>2, <2>3 DEF TypeOK, Awaited, HasJob
<1>9. ASSUME NEW h \in Host, Poll(h) PROVE TypeOK' /\ HasJob'
  <2>1. Head(queue[h]) \in Job /\ Tail(queue[h]) \in Seq(Job)
    BY <1>9, QueueHead DEF Poll
  <2>2. agent[h] \in AgentState
    BY DEF TypeOK
  <2>3. [agent[h] EXCEPT !.pc = "claimed", !.job = Head(queue[h])] \in AgentState
    BY <2>1, <2>2, AgentUpdates DEF Payload
  <2>4. [agent[h] EXCEPT !.pc = "claimed", !.job = Head(queue[h])].job \in Job
    BY <2>1, <2>2 DEF AgentState
  <2>5. queue' \in [Host -> Seq(Job)]
    BY <1>9 DEF TypeOK, Poll
  <2>6. agent' \in [Host -> AgentState]
    BY <1>9, <2>3 DEF TypeOK, Poll
  <2>7. sent' \subseteq Job
    BY <1>9 DEF TypeOK, Poll
  <2>8. HasJob'
    BY <1>9, <2>1, <2>4 DEF Poll, TypeOK, HasJob
  <2>9. UNCHANGED <<setup, clock, file, op, issued, report, result, awaiting, future, dbNonce, settling, lost,
      handling, ledger, net, ran, acts, faults>>
    BY <1>9 DEF Poll, core, nonces, agents, history
  <2> QED
    BY <2>5, <2>6, <2>7, <2>8, <2>9 DEF TypeOK, Awaited, HasJob
<1>10. ASSUME NEW h \in Host, Verify(h) PROVE TypeOK' /\ HasJob'
  <2>1. agent' \in [Host -> AgentState]
    <3>1. agent' = [agent EXCEPT ![h] = [@ EXCEPT !.pc = "verified"]]
      BY <1>10 DEF Verify
    <3>2. agent \in [Host -> AgentState]
      BY DEF TypeOK
    <3>3. [agent[h] EXCEPT !.pc = "verified"] \in AgentState
      BY <3>2 DEF AgentState
    <3> QED
      BY <3>1, <3>2, <3>3
  <2>2. ledger' \in [Host -> SUBSET Job]
    BY <1>10 DEF TypeOK, Verify, HasJob
  <2>3. HasJob'
    BY <1>10 DEF TypeOK, HasJob, Verify, AgentState
  <2>4. UNCHANGED <<setup, clock, file, op, issued, report, result, queue, awaiting, future,
      dbNonce, settling, lost, handling, net, sent, ran, acts, faults>>
    BY <1>10 DEF Verify, core, nonces, agents, history
  <2> QED
    BY <2>1, <2>2, <2>3, <2>4 DEF TypeOK, Awaited, HasJob
<1>11. ASSUME NEW h \in Host, Drops(h) PROVE TypeOK' /\ HasJob'
  <2>1. agent' \in [Host -> AgentState]
    BY <1>11 DEF TypeOK, Drops, AgentState, Idle, Payload
  <2>2. faults' \in [Fault -> Nat]
    BY <1>11 DEF TypeOK, Drops
  <2>3. HasJob'
    BY <1>11 DEF TypeOK, HasJob, Drops, Idle
  <2>4. UNCHANGED <<setup, clock, file, op, issued, report, result, queue, awaiting, future,
      dbNonce, settling, lost, handling, ledger, net, sent, ran, acts>>
    BY <1>11 DEF Drops, core, nonces, agents, history
  <2> QED
    BY <2>1, <2>2, <2>3, <2>4 DEF TypeOK, Awaited, HasJob
<1>12. ASSUME NEW h \in Host, NEW acted \in Payload, Runs(h, acted) PROVE TypeOK' /\ HasJob'
  <2> DEFINE Posting(payload) == [agent[h] EXCEPT !.pc = "posting", !.payload = payload]
  <2>1. agent[h] \in AgentState /\ Idle \in AgentState /\ Idle.pc = "idle"
    BY DEF TypeOK, AgentState, Idle, Payload
  <2>2. agent' = [agent EXCEPT ![h] = Idle]
        \/ \E payload \in Payload : agent' = [agent EXCEPT ![h] = Posting(payload)]
    BY <1>12 DEF Runs, RunsTo
  <2>3. \A payload \in Payload : Posting(payload) \in AgentState
    BY <2>1 DEF AgentState
  <2>4. agent[h].job \in Job /\ \A payload \in Payload : Posting(payload).job = agent[h].job
    BY <1>12, <2>1 DEF AgentState, Runs, HasJob
  <2>5. file' \in [Host -> [Item -> {"intact", "changed", "gone"}]]
    BY <1>12 DEF TypeOK, Runs, Ran
  <2>6. agent' \in [Host -> AgentState]
    BY <1>12, <2>1, <2>2, <2>3 DEF TypeOK, Runs
  <2>7. ran' \in [Job -> Seq(Host)]
    BY <1>12 DEF TypeOK, Runs, Ran, HasJob
  <2>8. acts' \in [Job -> Payload]
    BY <1>12 DEF TypeOK, Runs, Ran, HasJob, Payload
  <2>9. HasJob'
    BY <1>12, <2>1, <2>2, <2>4 DEF Runs, TypeOK, HasJob
  <2>10. UNCHANGED <<setup, clock, op, issued, report, result, queue, awaiting, future,
      dbNonce, settling, lost, handling, ledger, net, sent, faults>>
    BY <1>12 DEF Runs, core, nonces, agents, history
  <2> QED
    BY <2>5, <2>6, <2>7, <2>8, <2>9, <2>10 DEF TypeOK, Awaited, HasJob
<1>13. ASSUME NEW h \in Host, PostResult(h) PROVE TypeOK' /\ HasJob'
  <2>1. agent' \in [Host -> AgentState]
    BY <1>13 DEF TypeOK, PostResult, AgentState, Idle, Payload
  <2>2. net' \subseteq Post
    BY <1>13 DEF TypeOK, PostResult, HasJob, Post, AgentState
  <2>3. HasJob'
    BY <1>13 DEF TypeOK, HasJob, PostResult, Idle
  <2>4. UNCHANGED <<setup, clock, file, op, issued, report, result, queue, awaiting, future,
      dbNonce, settling, lost, handling, ledger, sent, ran, acts, faults>>
    BY <1>13 DEF PostResult, core, nonces, agents, history
  <2> QED
    BY <2>1, <2>2, <2>3, <2>4 DEF TypeOK, Awaited, HasJob
<1>14. ASSUME NEW h \in Host, NEW i \in Item, FileChanges(h, i) PROVE TypeOK' /\ HasJob'
  <2>1. file' \in [Host -> [Item -> {"intact", "changed", "gone"}]]
    BY <1>14 DEF TypeOK, FileChanges
  <2>2. faults' \in [Fault -> Nat]
    BY <1>14 DEF Fault, TypeOK, FileChanges
  <2>3. UNCHANGED <<setup, clock, op, issued, report, result, queue, awaiting, future,
      dbNonce, settling, lost, handling, agent, ledger, net, sent, ran, acts>>
    BY <1>14 DEF FileChanges, core, nonces, agents, history
  <2> QED
    BY <2>1, <2>2, <2>3 DEF TypeOK, Awaited, HasJob
<1>15. ASSUME NEW h \in Host, NEW s \in sent, Replay(h, s) PROVE TypeOK' /\ HasJob'
  <2>1. agent' \in [Host -> AgentState]
    <3>1. agent \in [Host -> AgentState] /\ s \in Job
      BY DEF TypeOK
    <3>2. agent' = [agent EXCEPT ![h] = agent'[h]] /\ agent'[h] \in AgentState
      BY <1>15, <3>1 DEF Replay, AgentState
    <3> QED
      BY <3>1, <3>2
  <2>2. faults' \in [Fault -> Nat]
    BY <1>15 DEF Fault, TypeOK, Replay
  <2>3. HasJob'
    BY <1>15 DEF TypeOK, HasJob, Replay, AgentState
  <2>4. UNCHANGED <<setup, clock, file, op, issued, report, result, queue, awaiting, future,
      dbNonce, settling, lost, handling, ledger, net, sent, ran, acts>>
    BY <1>15 DEF Replay, core, nonces, agents, history
  <2> QED
    BY <2>1, <2>2, <2>3, <2>4 DEF TypeOK, Awaited, HasJob
<1>16. ASSUME CoreCrash PROVE TypeOK' /\ HasJob'
  <2>1. op' \in [Op -> OpState]
    BY <1>16 DEF TypeOK, CoreCrash, OpState, Over
  <2>2. queue' \in [Host -> Seq(Job)]
    BY <1>16 DEF TypeOK, CoreCrash
  <2>3. awaiting' = Awaited'
    BY <1>16 DEF TypeOK, CoreCrash, Awaited, Waiting, Over
  <2>4. handling' \subseteq Post /\ settling' \subseteq Job /\ lost' \subseteq Job
    BY <1>16 DEF TypeOK, CoreCrash
  <2>5. faults' \in [Fault -> Nat]
    BY <1>16 DEF Fault, TypeOK, CoreCrash
  <2>6. UNCHANGED <<setup, clock, file, issued, report, result, future, dbNonce, agent,
      ledger, net, sent, ran, acts>>
    BY <1>16 DEF CoreCrash, core, nonces, agents, history
  <2> QED
    BY <2>1, <2>2, <2>3, <2>4, <2>5, <2>6 DEF TypeOK, Awaited, HasJob
<1>17. ASSUME Tick PROVE TypeOK' /\ HasJob'
  <2>1. clock' \in 1 .. MaxClock
    BY <1>17 DEF TypeOK, Tick
  <2>2. UNCHANGED <<setup, file, op, issued, report, result, queue, awaiting, future, dbNonce, settling, lost,
      handling, agent, ledger, net, sent, ran, acts, faults>>
    BY <1>17 DEF Tick, core, nonces, agents, history
  <2> QED
    BY <2>1, <2>2 DEF TypeOK, Awaited, HasJob
<1>18. ASSUME UNCHANGED vars PROVE TypeOK' /\ HasJob'
  BY <1>18 DEF TypeOK, HasJob, vars, core, nonces, agents, history
<1>19. ASSUME NEW s \in settling, CommitPost(s) \/ CommitFails(s)
      PROVE  TypeOK' /\ HasJob'
  <2>1. /\ dbNonce' \subseteq Job /\ settling' \subseteq Job /\ lost' \subseteq Job
        /\ faults' \in [Fault -> Nat]
    BY <1>19 DEF TypeOK, CommitPost, CommitFails
  <2>2. UNCHANGED <<setup, clock, file, op, issued, report, result, queue, awaiting, future,
      handling, agent, ledger, net, sent, ran, acts>>
    BY <1>19 DEF CommitPost, CommitFails, agents, history
  <2> QED
    BY <2>1, <2>2 DEF TypeOK, Awaited, HasJob
<1> QED
  BY Cases, <1>1, <1>2, <1>3, <1>4, <1>5, <1>6, <1>7, <1>8, <1>9, <1>10, <1>11, <1>12, <1>13,
      <1>14, <1>15, <1>16, <1>17, <1>18, <1>19

-----------------------------------------------------------------------------
(* What the steps do, variable by variable.                                *)

(* enqueue_and_wait: the job now exists and is last in its host's queue.   *)
LEMMA Enqueued ==
    ASSUME TypeOK, NEW o \in Op, NEW md \in Mode, Enqueue(<<o, md>>)
    PROVE  /\ <<o, md>> \in Job /\ Target[o] \in Host /\ clock # 0
           /\ \A j \in Job : issued'[j] = IF j = <<o, md>> THEN clock ELSE issued[j]
           /\ \A h \in Host : queue'[h] = IF h = Target[o] THEN Append(queue[h], <<o, md>>)
                                          ELSE queue[h]
<1>1. <<o, md>> \in Job /\ Target[o] \in Host
  BY ChannelConstants DEF Job
<1>2. clock # 0
  BY DEF TypeOK
<1>3. issued \in [Job -> 0 .. MaxClock] /\ queue \in [Host -> Seq(Job)]
  BY DEF TypeOK
<1>4. \A j \in Job : issued'[j] = IF j = <<o, md>> THEN clock ELSE issued[j]
  BY <1>1, <1>3 DEF Enqueue
<1>5. \A h \in Host : queue'[h] = IF h = Target[o] THEN Append(queue[h], <<o, md>>)
                                  ELSE queue[h]
  BY <1>1, <1>3 DEF Enqueue
<1> QED
  BY <1>1, <1>2, <1>4, <1>5

(* A step that ends at most the job of h.                                  *)
LEMMA AgentEnds ==
    ASSUME TypeOK, NEW h \in Host, agent' = [agent EXCEPT ![h] = Idle]
    PROVE  /\ agent'[h].pc = "idle"
           /\ \A g \in Host : g # h => agent'[g] = agent[g]
  BY DEF TypeOK, Idle

(* A job reaches the agent of h: poll() or a replay.                       *)
LEMMA AgentClaims ==
    ASSUME TypeOK, NEW h \in Host, NEW j,
           agent' = [agent EXCEPT ![h] = [@ EXCEPT !.pc = "claimed", !.job = j]]
    PROVE  /\ agent'[h].pc = "claimed" /\ agent'[h].job = j
           /\ \A g \in Host : g # h => agent'[g] = agent[g]
<1>1. agent \in [Host -> AgentState]
  BY DEF TypeOK
<1> QED
  BY <1>1 DEF AgentState

(* verify_job records the nonce before the job runs.                       *)
LEMMA Verified ==
    ASSUME TypeOK, HasJob, NEW h \in Host, Verify(h)
    PROVE  /\ agent[h].job \in Job /\ agent[h].pc = "claimed"
           /\ Acceptable(h, agent[h].job) /\ agent[h].job \notin ledger[h]
           /\ agent'[h].pc = "verified" /\ agent'[h].job = agent[h].job
           /\ ledger'[h] = ledger[h] \cup {agent[h].job}
           /\ \A g \in Host : g # h => agent'[g] = agent[g] /\ ledger'[g] = ledger[g]
<1>1. agent \in [Host -> AgentState] /\ ledger \in [Host -> SUBSET Job]
  BY DEF TypeOK
<1> QED
  BY <1>1 DEF AgentState, Verify, HasJob

(* A run is recorded with what it acted on, and only its agent moves.      *)
LEMMA RunEffect ==
    ASSUME TypeOK, HasJob, NEW h \in Host, NEW acted \in Payload, Runs(h, acted)
    PROVE  /\ agent[h].job \in Job /\ agent[h].pc = "verified"
           /\ \A j \in Job : ran'[j] = IF j = agent[h].job THEN Append(ran[j], h) ELSE ran[j]
           /\ \A j \in Job : acts'[j] = IF j = agent[h].job THEN acts[j] \cup acted
                                        ELSE acts[j]
           /\ \A g \in Host : \A i \in Item :
                 file'[g][i] = IF g = h /\ i \in acted THEN "gone" ELSE file[g][i]
           /\ \A g \in Host : g # h => agent'[g] = agent[g]
           /\ \/ agent'[h].pc = "idle"
              \/ /\ agent'[h].pc = "posting" /\ agent'[h].job = agent[h].job
                 /\ agent[h].job[2] = "execute" => agent'[h].payload = acted
<1>1. agent[h].job \in Job /\ agent[h].pc = "verified"
  BY DEF Runs, HasJob
<1>2. ran \in [Job -> Seq(Host)] /\ acts \in [Job -> Payload]
  BY DEF TypeOK
<1>3. file \in [Host -> [Item -> {"intact", "changed", "gone"}]]
  BY DEF TypeOK
<1>4. agent \in [Host -> AgentState]
  BY DEF TypeOK
<1>5. \A j \in Job : ran'[j] = IF j = agent[h].job THEN Append(ran[j], h) ELSE ran[j]
  BY <1>1, <1>2 DEF Runs, Ran
<1>6. \A j \in Job : acts'[j] = IF j = agent[h].job THEN acts[j] \cup acted ELSE acts[j]
  BY <1>1, <1>2 DEF Runs, Ran
<1>7. \A g \in Host : \A i \in Item :
          file'[g][i] = IF g = h /\ i \in acted THEN "gone" ELSE file[g][i]
  BY <1>3 DEF Runs, Ran
<1>8. CASE agent' = [agent EXCEPT ![h] = Idle]
  BY <1>1, <1>5, <1>6, <1>7, <1>8, AgentEnds
<1>9. CASE \E payload \in Payload :
              RunsTo(h, payload) /\ (agent[h].job[2] = "execute" => payload = acted)
  <2>1. PICK payload \in Payload :
            RunsTo(h, payload) /\ (agent[h].job[2] = "execute" => payload = acted)
    BY <1>9
  <2>2. agent' = [agent EXCEPT ![h] =
                      [agent[h] EXCEPT !.pc = "posting", !.payload = payload]]
    BY <2>1 DEF RunsTo
  <2>3. /\ agent'[h].pc = "posting" /\ agent'[h].job = agent[h].job
        /\ agent'[h].payload = payload
        /\ \A g \in Host : g # h => agent'[g] = agent[g]
    BY <1>4, <2>2 DEF AgentState
  <2> QED
    BY <1>1, <1>5, <1>6, <1>7, <2>1, <2>3
<1> QED
  BY <1>8, <1>9 DEF Runs

(* The head and the rest of a queue.                                       *)
LEMMA QueueTail ==
    ASSUME NEW s \in Seq(Job), s # << >>
    PROVE  /\ Head(s) = s[1] /\ 1 \in 1 .. Len(s)
           /\ \A n \in 1 .. Len(Tail(s)) : n + 1 \in 1 .. Len(s) /\ Tail(s)[n] = s[n + 1]
  OBVIOUS

(* A job that was issued stays issued.                                     *)
LEMMA IssuedStays == TypeOK /\ [Next]_vars => \A j \in Job : Exists(j) => Exists(j)'
<1> SUFFICES ASSUME TypeOK, [Next]_vars PROVE \A j \in Job : Exists(j) => Exists(j)'
  OBVIOUS
<1>1. ASSUME NEW o \in Op, StartExecute(o) PROVE \A j \in Job : Exists(j) => Exists(j)'
  BY <1>1, Enqueued DEF StartExecute, Exists, Mode
<1>2. ASSUME NEW o \in Op, ScanNow(o) PROVE \A j \in Job : Exists(j) => Exists(j)'
  BY <1>2, Enqueued DEF ScanNow, Exists, Mode
<1>3. ASSUME NEW o \in Op, DryRunReturns(o) PROVE \A j \in Job : Exists(j) => Exists(j)'
  <2>1. UNCHANGED <<issued, queue>> \/ Enqueue(<<o, "execute">>)
    BY <1>3 DEF DryRunReturns
  <2> QED
    BY <2>1, Enqueued DEF Exists, Mode
<1>4. ASSUME NEW o \in Op, ExecuteReturns(o) PROVE \A j \in Job : Exists(j) => Exists(j)'
  BY <1>4 DEF Exists, ExecuteReturns, core, nonces, agents, history
<1>5. ASSUME NEW o \in Op, DispatchTimeout(o) PROVE \A j \in Job : Exists(j) => Exists(j)'
  BY <1>5 DEF Exists, DispatchTimeout, core, nonces, agents, history
<1>6. ASSUME NEW m \in net, AcceptPost(m) PROVE \A j \in Job : Exists(j) => Exists(j)'
  BY <1>6 DEF Exists, AcceptPost, core, nonces, agents, history
<1>7. ASSUME NEW m \in handling, FinishPost(m) PROVE \A j \in Job : Exists(j) => Exists(j)'
  BY <1>7 DEF Exists, FinishPost, core, nonces, agents, history
<1>8. ASSUME NEW h \in Host, PollDropsExpired(h) PROVE \A j \in Job : Exists(j) => Exists(j)'
  BY <1>8 DEF Exists, PollDropsExpired, core, nonces, agents, history
<1>9. ASSUME NEW h \in Host, Poll(h) PROVE \A j \in Job : Exists(j) => Exists(j)'
  BY <1>9 DEF Exists, Poll, core, nonces, agents, history
<1>10. ASSUME NEW h \in Host, Verify(h) PROVE \A j \in Job : Exists(j) => Exists(j)'
  BY <1>10 DEF Exists, Verify, core, nonces, agents, history
<1>11. ASSUME NEW h \in Host, Drops(h) PROVE \A j \in Job : Exists(j) => Exists(j)'
  BY <1>11 DEF Exists, Drops, core, nonces, agents, history
<1>12. ASSUME NEW h \in Host, NEW acted \in Payload, Runs(h, acted)
       PROVE  \A j \in Job : Exists(j) => Exists(j)'
  BY <1>12 DEF Exists, Runs, core, nonces, agents, history
<1>13. ASSUME NEW h \in Host, PostResult(h) PROVE \A j \in Job : Exists(j) => Exists(j)'
  BY <1>13 DEF Exists, PostResult, core, nonces, agents, history
<1>14. ASSUME NEW h \in Host, NEW i \in Item, FileChanges(h, i)
       PROVE  \A j \in Job : Exists(j) => Exists(j)'
  BY <1>14 DEF Exists, FileChanges, core, nonces, agents, history
<1>15. ASSUME NEW h \in Host, NEW s \in sent, Replay(h, s)
       PROVE  \A j \in Job : Exists(j) => Exists(j)'
  BY <1>15 DEF Exists, Replay, core, nonces, agents, history
<1>16. ASSUME CoreCrash PROVE \A j \in Job : Exists(j) => Exists(j)'
  BY <1>16 DEF Exists, CoreCrash, core, nonces, agents, history
<1>17. ASSUME Tick PROVE \A j \in Job : Exists(j) => Exists(j)'
  BY <1>17 DEF Exists, Tick, core, nonces, agents, history
<1>18. ASSUME UNCHANGED vars PROVE \A j \in Job : Exists(j) => Exists(j)'
  BY <1>18 DEF Exists, vars, core, nonces, agents, history
<1>19. ASSUME NEW s \in settling, CommitPost(s) \/ CommitFails(s)
      PROVE  \A j \in Job : Exists(j) => Exists(j)'
  BY <1>19 DEF Exists, CommitPost, CommitFails, core, nonces, agents, history
<1> QED
  BY Cases, <1>1, <1>2, <1>3, <1>4, <1>5, <1>6, <1>7, <1>8, <1>9, <1>10, <1>11, <1>12, <1>13,
      <1>14, <1>15, <1>16, <1>17, <1>18, <1>19

(* enqueue_and_wait appends an issued job to a queue of issued jobs.        *)
LEMMA QueueGrows ==
    ASSUME TypeOK, JobsExist, NEW o \in Op, NEW md \in Mode, Enqueue(<<o, md>>)
    PROVE  \A g \in Host : \A n \in 1 .. Len(queue'[g]) : issued'[queue'[g][n]] # 0
<1>1. PICK j : j = <<o, md>>
  OBVIOUS
<1>2. queue \in [Host -> Seq(Job)]
  BY DEF TypeOK
<1>3. /\ j \in Job /\ issued'[j] # 0
      /\ \A k \in Job : issued[k] # 0 => issued'[k] # 0
      /\ \A h \in Host : queue'[h] = queue[h] \/ queue'[h] = Append(queue[h], j)
  BY <1>1, Enqueued
<1>4. \A h \in Host : \A n \in 1 .. Len(queue[h]) :
          queue[h][n] \in Job /\ issued'[queue[h][n]] # 0
  BY <1>2, <1>3 DEF JobsExist, Exists
<1>5. ASSUME NEW h \in Host, NEW s \in Seq(Job), s = queue[h],
             NEW n \in 1 .. Len(Append(s, j))
      PROVE  issued'[Append(s, j)[n]] # 0
  <2>1. CASE n = Len(s) + 1
    BY <1>3, <2>1
  <2>2. CASE n # Len(s) + 1
    BY <1>4, <1>5, <2>2
  <2> QED
    BY <2>1, <2>2
<1>6. ASSUME NEW h \in Host, NEW n \in 1 .. Len(queue'[h])
      PROVE  issued'[queue'[h][n]] # 0
  <2>1. CASE queue'[h] = queue[h]
    BY <1>4, <1>6, <2>1
  <2>2. CASE queue'[h] = Append(queue[h], j)
    BY <1>2, <1>5, <1>6, <2>2
  <2> QED
    BY <1>3, <2>1, <2>2
<1> QED
  BY <1>6

(* Only issued jobs are queued, polled, replayed and run.                  *)
LEMMA JobsExistStep == TypeOK /\ HasJob /\ JobsExist /\ [Next]_vars => JobsExist'
<1> SUFFICES ASSUME TypeOK, HasJob, JobsExist, [Next]_vars PROVE JobsExist'
  OBVIOUS
<1>1. ASSUME NEW o \in Op, StartExecute(o) PROVE JobsExist'
  <2>1. "dry_run" \in Mode /\ Enqueue(<<o, "dry_run">>)
    BY <1>1 DEF StartExecute, Mode
  <2>2. \A j \in Job : Exists(j) => Exists(j)'
    BY IssuedStays
  <2>3. \A g \in Host : \A n \in 1 .. Len(queue'[g]) : issued'[queue'[g][n]] # 0
    BY <2>1, QueueGrows
  <2>4. UNCHANGED <<agent, sent>> /\ sent \subseteq Job
    BY <1>1 DEF StartExecute, agents, TypeOK
  <2> QED
    BY <2>2, <2>3, <2>4 DEF JobsExist, Exists, HasJob
<1>2. ASSUME NEW o \in Op, ScanNow(o) PROVE JobsExist'
  <2>1. "scan" \in Mode /\ Enqueue(<<o, "scan">>)
    BY <1>2 DEF ScanNow, Mode
  <2>2. \A j \in Job : Exists(j) => Exists(j)'
    BY IssuedStays
  <2>3. \A g \in Host : \A n \in 1 .. Len(queue'[g]) : issued'[queue'[g][n]] # 0
    BY <2>1, QueueGrows
  <2>4. UNCHANGED <<agent, sent>> /\ sent \subseteq Job
    BY <1>2 DEF ScanNow, agents, TypeOK
  <2> QED
    BY <2>2, <2>3, <2>4 DEF JobsExist, Exists, HasJob
<1>3. ASSUME NEW o \in Op, DryRunReturns(o) PROVE JobsExist'
  <2>1. UNCHANGED <<issued, queue>> \/ Enqueue(<<o, "execute">>)
    BY <1>3 DEF DryRunReturns
  <2>2. \A j \in Job : Exists(j) => Exists(j)'
    BY IssuedStays
  <2>3. \A g \in Host : \A n \in 1 .. Len(queue'[g]) : issued'[queue'[g][n]] # 0
    BY <2>1, QueueGrows DEF Mode, JobsExist, Exists
  <2>4. UNCHANGED <<agent, sent>> /\ sent \subseteq Job
    BY <1>3 DEF DryRunReturns, agents, TypeOK
  <2> QED
    BY <2>2, <2>3, <2>4 DEF JobsExist, Exists, HasJob
<1>4. ASSUME NEW o \in Op, ExecuteReturns(o) PROVE JobsExist'
  BY <1>4 DEF JobsExist, Exists, ExecuteReturns, core, nonces, agents, history
<1>5. ASSUME NEW o \in Op, DispatchTimeout(o) PROVE JobsExist'
  BY <1>5 DEF JobsExist, Exists, DispatchTimeout, core, nonces, agents, history
<1>6. ASSUME NEW m \in net, AcceptPost(m) PROVE JobsExist'
  BY <1>6 DEF JobsExist, Exists, AcceptPost, core, nonces, agents, history
<1>7. ASSUME NEW m \in handling, FinishPost(m) PROVE JobsExist'
  BY <1>7 DEF JobsExist, Exists, FinishPost, core, nonces, agents, history
<1>8. ASSUME NEW h \in Host, PollDropsExpired(h) PROVE JobsExist'
  <2>1. queue \in [Host -> Seq(Job)]
    BY DEF TypeOK
  <2>2. queue[h] # << >> /\ queue' = [queue EXCEPT ![h] = Tail(queue[h])] /\ issued' = issued
    BY <1>8 DEF PollDropsExpired
  <2>3. queue[h] \in Seq(Job) /\ queue'[h] = Tail(queue[h])
            /\ \A g \in Host : g # h => queue'[g] = queue[g]
    BY <2>1, <2>2
  <2>4. \A n \in 1 .. Len(queue'[h]) : issued'[queue'[h][n]] # 0
    BY <2>2, <2>3, QueueTail DEF JobsExist, Exists
  <2>5. \A g \in Host : \A n \in 1 .. Len(queue'[g]) : issued'[queue'[g][n]] # 0
    BY <2>2, <2>3, <2>4 DEF JobsExist, Exists
  <2>6. UNCHANGED <<agent, sent>>
    BY <1>8 DEF PollDropsExpired, agents
  <2> QED
    BY <2>2, <2>5, <2>6 DEF JobsExist, Exists
<1>9. ASSUME NEW h \in Host, Poll(h) PROVE JobsExist'
  <2>1. queue \in [Host -> Seq(Job)]
    BY DEF TypeOK
  <2>2. queue[h] # << >> /\ queue' = [queue EXCEPT ![h] = Tail(queue[h])] /\ issued' = issued
    BY <1>9 DEF Poll
  <2>3. queue[h] \in Seq(Job) /\ queue'[h] = Tail(queue[h])
            /\ \A g \in Host : g # h => queue'[g] = queue[g]
    BY <2>1, <2>2
  <2>4. \A n \in 1 .. Len(queue'[h]) : issued'[queue'[h][n]] # 0
    BY <2>2, <2>3, QueueTail DEF JobsExist, Exists
  <2>5. \A g \in Host : \A n \in 1 .. Len(queue'[g]) : issued'[queue'[g][n]] # 0
    BY <2>2, <2>3, <2>4 DEF JobsExist, Exists
  <2>6. issued[Head(queue[h])] # 0
    BY <2>2, <2>3, QueueTail DEF JobsExist, Exists
  <2>7. \A j \in sent' : issued'[j] # 0
    BY <1>9, <2>2, <2>6 DEF Poll, JobsExist, Exists
  <2>8. PICK j : j = Head(queue[h])
    OBVIOUS
  <2>9. \/ UNCHANGED agent
        \/ agent' = [agent EXCEPT ![h] = [@ EXCEPT !.pc = "claimed", !.job = j]]
    BY <1>9, <2>8 DEF Poll
  <2>10. \A g \in Host : agent'[g] = agent[g] \/ (agent'[g].pc = "claimed" /\ agent'[g].job = j)
    <3>1. CASE UNCHANGED agent
      BY <3>1
    <3>2. CASE agent # agent'
      BY <2>9, <3>2, AgentClaims
    <3> QED
      BY <3>1, <3>2
  <2>11. \A g \in Host : agent'[g].pc # "idle" => issued'[agent'[g].job] # 0
    BY <2>2, <2>6, <2>8, <2>10 DEF JobsExist, Exists
  <2> QED
    BY <2>5, <2>7, <2>11 DEF JobsExist, Exists
<1>10. ASSUME NEW h \in Host, Verify(h) PROVE JobsExist'
  <2>1. UNCHANGED <<queue, sent, issued>>
    BY <1>10 DEF Verify, core
  <2> QED
    BY <1>10, <2>1, Verified DEF JobsExist, Exists
<1>11. ASSUME NEW h \in Host, Drops(h) PROVE JobsExist'
  <2>1. UNCHANGED <<queue, sent, issued>>
    BY <1>11 DEF Drops, core
  <2>2. agent' = [agent EXCEPT ![h] = Idle]
    BY <1>11 DEF Drops
  <2> QED
    BY <2>1, <2>2, AgentEnds DEF JobsExist, Exists
<1>12. ASSUME NEW h \in Host, NEW acted \in Payload, Runs(h, acted) PROVE JobsExist'
  <2>1. UNCHANGED <<queue, sent, issued>>
    BY <1>12 DEF Runs, core
  <2>2. \A g \in Host : agent'[g].pc # "idle" => issued'[agent'[g].job] # 0
    BY <1>12, <2>1, RunEffect DEF JobsExist, Exists
  <2> QED
    BY <2>1, <2>2 DEF JobsExist, Exists
<1>13. ASSUME NEW h \in Host, PostResult(h) PROVE JobsExist'
  <2>1. UNCHANGED <<queue, sent, issued>>
    BY <1>13 DEF PostResult, core
  <2> QED
    BY <1>13, <2>1, AgentEnds DEF PostResult, JobsExist, Exists
<1>14. ASSUME NEW h \in Host, NEW i \in Item, FileChanges(h, i) PROVE JobsExist'
  BY <1>14 DEF JobsExist, Exists, FileChanges, core, nonces, agents, history
<1>15. ASSUME NEW h \in Host, NEW s \in sent, Replay(h, s) PROVE JobsExist'
  <2>1. UNCHANGED <<queue, sent, issued>>
    BY <1>15 DEF Replay, core
  <2>2. agent' = [agent EXCEPT ![h] = [@ EXCEPT !.pc = "claimed", !.job = s]]
    BY <1>15 DEF Replay
  <2>3. \A g \in Host : agent'[g] = agent[g] \/ (agent'[g].pc = "claimed" /\ agent'[g].job = s)
    BY <2>2 DEF TypeOK, AgentState
  <2> QED
    BY <2>1, <2>3 DEF JobsExist, Exists
<1>16. ASSUME CoreCrash PROVE JobsExist'
  BY <1>16 DEF JobsExist, Exists, CoreCrash, agents
<1>17. ASSUME Tick PROVE JobsExist'
  BY <1>17 DEF JobsExist, Exists, Tick, core, nonces, agents, history
<1>18. ASSUME UNCHANGED vars PROVE JobsExist'
  BY <1>18 DEF JobsExist, Exists, vars, core, nonces, agents, history
<1>19. ASSUME NEW s \in settling, CommitPost(s) \/ CommitFails(s)
      PROVE  JobsExist'
  BY <1>19 DEF JobsExist, Exists, CommitPost, CommitFails, core, nonces, agents, history
<1> QED
  BY Cases, <1>1, <1>2, <1>3, <1>4, <1>5, <1>6, <1>7, <1>8, <1>9, <1>10, <1>11, <1>12, <1>13,
      <1>14, <1>15, <1>16, <1>17, <1>18, <1>19

(* verify_job records a nonce before the job runs, and refuses one that is *)
(* recorded.                                                               *)
LEMMA NonceFirstStep == TypeOK /\ HasJob /\ JobsExist /\ NonceFirst /\ [Next]_vars => NonceFirst'
<1> SUFFICES ASSUME TypeOK, HasJob, JobsExist, NonceFirst, [Next]_vars PROVE NonceFirst'
  OBVIOUS
<1>1. ASSUME NEW o \in Op, StartExecute(o) PROVE NonceFirst'
  <2>1. \A j \in Job : Exists(j) => Exists(j)'
    BY IssuedStays
  <2>2. UNCHANGED <<ran, ledger, agent>>
    BY <1>1 DEF StartExecute, agents, history
  <2> QED
    BY <2>1, <2>2 DEF NonceFirst, Exists
<1>2. ASSUME NEW o \in Op, ScanNow(o) PROVE NonceFirst'
  <2>1. \A j \in Job : Exists(j) => Exists(j)'
    BY IssuedStays
  <2>2. UNCHANGED <<ran, ledger, agent>>
    BY <1>2 DEF ScanNow, agents, history
  <2> QED
    BY <2>1, <2>2 DEF NonceFirst, Exists
<1>3. ASSUME NEW o \in Op, DryRunReturns(o) PROVE NonceFirst'
  <2>1. \A j \in Job : Exists(j) => Exists(j)'
    BY IssuedStays
  <2>2. UNCHANGED <<ran, ledger, agent>>
    BY <1>3 DEF DryRunReturns, agents, history
  <2> QED
    BY <2>1, <2>2 DEF NonceFirst, Exists
<1>4. ASSUME NEW o \in Op, ExecuteReturns(o) PROVE NonceFirst'
  BY <1>4 DEF NonceFirst, Exists, ExecuteReturns, core, nonces, agents, history
<1>5. ASSUME NEW o \in Op, DispatchTimeout(o) PROVE NonceFirst'
  BY <1>5 DEF NonceFirst, Exists, DispatchTimeout, core, nonces, agents, history
<1>6. ASSUME NEW m \in net, AcceptPost(m) PROVE NonceFirst'
  BY <1>6 DEF NonceFirst, Exists, AcceptPost, core, nonces, agents, history
<1>7. ASSUME NEW m \in handling, FinishPost(m) PROVE NonceFirst'
  BY <1>7 DEF NonceFirst, Exists, FinishPost, core, nonces, agents, history
<1>8. ASSUME NEW h \in Host, PollDropsExpired(h) PROVE NonceFirst'
  BY <1>8 DEF NonceFirst, Exists, PollDropsExpired, core, nonces, agents, history
<1>9. ASSUME NEW h \in Host, Poll(h) PROVE NonceFirst'
  <2>1. UNCHANGED <<ran, ledger, issued>>
    BY <1>9 DEF Poll, history
  <2>2. PICK j : j = Head(queue[h])
    OBVIOUS
  <2>3. \/ UNCHANGED agent
        \/ agent' = [agent EXCEPT ![h] = [@ EXCEPT !.pc = "claimed", !.job = j]]
    BY <1>9, <2>2 DEF Poll
  <2>4. \A g \in Host : agent'[g] = agent[g] \/ agent'[g].pc = "claimed"
    <3>1. CASE UNCHANGED agent
      BY <3>1
    <3>2. CASE agent # agent'
      BY <2>3, <3>2, AgentClaims
    <3> QED
      BY <3>1, <3>2
  <2> QED
    BY <2>1, <2>4 DEF NonceFirst, Exists
<1>10. ASSUME NEW h \in Host, Verify(h) PROVE NonceFirst'
  <2>1. UNCHANGED <<ran, issued>>
    BY <1>10 DEF Verify, core, history
  <2>2. PICK j \in Job : j = agent[h].job
    BY <1>10, Verified
  <2>3. /\ Target[j[1]] = h /\ j \notin ledger[h]
        /\ agent'[h].pc = "verified" /\ agent'[h].job = j /\ ledger'[h] = ledger[h] \cup {j}
        /\ \A g \in Host : g # h => agent'[g] = agent[g] /\ ledger'[g] = ledger[g]
    BY <1>10, <2>2, Verified DEF Acceptable
  <2>4. ran[j] = << >>
    BY <2>3 DEF NonceFirst
  <2>5. \A k \in Job : ran'[k] = << >>
            \/ (ran'[k] = <<Target[k[1]]>> /\ k \in ledger'[Target[k[1]]] /\ issued'[k] # 0)
    BY <2>1, <2>3, JobHost DEF NonceFirst, Exists
  <2>6. \A g \in Host : agent'[g].pc = "verified" =>
              LET k == agent'[g].job IN Target[k[1]] = g /\ k \in ledger'[g] /\ ran'[k] = << >>
    BY <2>1, <2>3, <2>4 DEF NonceFirst
  <2> QED
    BY <2>5, <2>6 DEF NonceFirst, Exists
<1>11. ASSUME NEW h \in Host, Drops(h) PROVE NonceFirst'
  <2>1. UNCHANGED <<ran, ledger, issued>>
    BY <1>11 DEF Drops, core, history
  <2>2. agent' = [agent EXCEPT ![h] = Idle]
    BY <1>11 DEF Drops
  <2>3. \A g \in Host : agent'[g] = agent[g] \/ agent'[g].pc = "idle"
    BY <2>2, AgentEnds
  <2> QED
    BY <2>1, <2>3 DEF NonceFirst, Exists
<1>12. ASSUME NEW h \in Host, NEW acted \in Payload, Runs(h, acted) PROVE NonceFirst'
  <2>1. UNCHANGED <<ledger, issued>>
    BY <1>12 DEF Runs, core
  <2>2. PICK j \in Job : j = agent[h].job
    BY <1>12, RunEffect
  <2>3. agent[h].pc = "verified" /\ issued[j] # 0
    BY <1>12, <2>2 DEF Runs, JobsExist, Exists
  <2>4. Target[j[1]] = h /\ j \in ledger[h] /\ ran[j] = << >>
    BY <2>2, <2>3 DEF NonceFirst
  <2>5. ran'[j] = Append(ran[j], h) /\ \A k \in Job : k # j => ran'[k] = ran[k]
    BY <1>12, <2>2, RunEffect
  <2>6. \A g \in Host : agent'[g].pc = "verified" => g # h /\ agent'[g] = agent[g]
    BY <1>12, RunEffect
  <2>7. ran'[j] = <<h>>
    BY <2>4, <2>5
  <2>8. \A k \in Job : ran'[k] = << >>
            \/ (ran'[k] = <<Target[k[1]]>> /\ k \in ledger'[Target[k[1]]] /\ issued'[k] # 0)
    <3>1. ASSUME NEW k \in Job, k # j
          PROVE  ran'[k] = << >>
            \/ (ran'[k] = <<Target[k[1]]>> /\ k \in ledger'[Target[k[1]]] /\ issued'[k] # 0)
      BY <2>1, <2>5, <3>1 DEF NonceFirst, Exists
    <3>2. ran'[j] = <<Target[j[1]]>> /\ j \in ledger'[Target[j[1]]] /\ issued'[j] # 0
      BY <2>1, <2>3, <2>4, <2>7
    <3> QED
      BY <3>1, <3>2
  <2>9. ASSUME NEW g \in Host, agent'[g].pc = "verified"
          PROVE  LET k == agent'[g].job
                 IN Target[k[1]] = g /\ k \in ledger'[g] /\ ran'[k] = << >>
    <3>1. g # h /\ agent'[g] = agent[g] /\ agent[g].job \in Job
      BY <2>6, <2>9 DEF HasJob
    <3>2. Target[agent[g].job[1]] = g /\ agent[g].job \in ledger[g] /\ ran[agent[g].job] = << >>
      BY <2>9, <3>1 DEF NonceFirst
    <3>3. agent[g].job # j
      BY <2>4, <3>1, <3>2
    <3>4. ran'[agent[g].job] = << >>
      BY <2>5, <3>1, <3>2, <3>3
    <3> QED
      BY <3>1, <3>2, <3>3, <3>4, <2>1
  <2> QED
    BY <2>8, <2>9 DEF NonceFirst, Exists
<1>13. ASSUME NEW h \in Host, PostResult(h) PROVE NonceFirst'
  <2>1. UNCHANGED <<ran, ledger, issued>>
    BY <1>13 DEF PostResult, core, history
  <2>2. agent' = [agent EXCEPT ![h] = Idle]
    BY <1>13 DEF PostResult
  <2>3. \A g \in Host : agent'[g] = agent[g] \/ agent'[g].pc = "idle"
    BY <2>2, AgentEnds
  <2> QED
    BY <2>1, <2>3 DEF NonceFirst, Exists
<1>14. ASSUME NEW h \in Host, NEW i \in Item, FileChanges(h, i) PROVE NonceFirst'
  BY <1>14 DEF NonceFirst, Exists, FileChanges, core, nonces, agents, history
<1>15. ASSUME NEW h \in Host, NEW s \in sent, Replay(h, s) PROVE NonceFirst'
  <2>1. UNCHANGED <<ran, ledger, issued>>
    BY <1>15 DEF Replay, core, history
  <2>2. agent' = [agent EXCEPT ![h] = [@ EXCEPT !.pc = "claimed", !.job = s]]
    BY <1>15 DEF Replay
  <2>3. \A g \in Host : agent'[g] = agent[g] \/ agent'[g].pc = "claimed"
    BY <2>2, AgentClaims
  <2> QED
    BY <2>1, <2>3 DEF NonceFirst, Exists
<1>16. ASSUME CoreCrash PROVE NonceFirst'
  BY <1>16 DEF NonceFirst, Exists, CoreCrash, core, nonces, agents, history
<1>17. ASSUME Tick PROVE NonceFirst'
  BY <1>17 DEF NonceFirst, Exists, Tick, core, nonces, agents, history
<1>18. ASSUME UNCHANGED vars PROVE NonceFirst'
  BY <1>18 DEF NonceFirst, Exists, vars, core, nonces, agents, history
<1>19. ASSUME NEW s \in settling, CommitPost(s) \/ CommitFails(s)
      PROVE  NonceFirst'
  BY <1>19 DEF NonceFirst, Exists, CommitPost, CommitFails, core, nonces, agents, history
<1> QED
  BY Cases, <1>1, <1>2, <1>3, <1>4, <1>5, <1>6, <1>7, <1>8, <1>9, <1>10, <1>11, <1>12, <1>13,
      <1>14, <1>15, <1>16, <1>17, <1>18, <1>19

(* A result on its way, and the future it resolves, say what the run did.  *)
LEMMA ResultsTrueStep ==
    TypeOK /\ HasJob /\ NonceFirst /\ ResultsTrue /\ [Next]_vars => ResultsTrue'
<1> SUFFICES ASSUME TypeOK, HasJob, NonceFirst, ResultsTrue, [Next]_vars PROVE ResultsTrue'
  OBVIOUS
<1>1. ASSUME NEW o \in Op, StartExecute(o) PROVE ResultsTrue'
  BY <1>1 DEF ResultsTrue, Reports, StartExecute, core, nonces, agents, history
<1>2. ASSUME NEW o \in Op, ScanNow(o) PROVE ResultsTrue'
  BY <1>2 DEF ResultsTrue, Reports, ScanNow, core, nonces, agents, history
<1>3. ASSUME NEW o \in Op, DryRunReturns(o) PROVE ResultsTrue'
  BY <1>3 DEF ResultsTrue, Reports, DryRunReturns, core, nonces, agents, history
<1>4. ASSUME NEW o \in Op, ExecuteReturns(o) PROVE ResultsTrue'
  BY <1>4 DEF ResultsTrue, Reports, ExecuteReturns, core, nonces, agents, history
<1>5. ASSUME NEW o \in Op, DispatchTimeout(o) PROVE ResultsTrue'
  BY <1>5 DEF ResultsTrue, Reports, DispatchTimeout, core, nonces, agents, history
<1>6. ASSUME NEW m \in net, AcceptPost(m) PROVE ResultsTrue'
  <2>1. UNCHANGED <<ran, acts, agent, net, future>>
    BY <1>6 DEF AcceptPost, agents, history
  <2>2. handling' = handling \cup {m}
    BY <1>6 DEF AcceptPost
  <2> QED
    BY <2>1, <2>2 DEF ResultsTrue, Reports
<1>7. ASSUME NEW m \in handling, FinishPost(m) PROVE ResultsTrue'
  <2>1. UNCHANGED <<ran, acts, agent, net>>
    BY <1>7 DEF FinishPost, agents, history
  <2>2. m.job \in Job /\ future \in [Job -> Future]
    BY DEF TypeOK, Post
  <2>3. handling' \subseteq handling
            /\ (future' = future \/ future' = [future EXCEPT ![m.job] = Result(m.payload)])
    BY <1>7 DEF FinishPost
  <2>4. Reports(m.job, m.payload) /\ Result(m.payload).payload = m.payload
    BY DEF ResultsTrue, Result
  <2>5. \A j \in Job : future'[j] = future[j] \/ (j = m.job /\ future'[j].payload = m.payload)
    BY <2>2, <2>3, <2>4
  <2>6. \A j \in Job : future'[j].state = "result" => Reports(j, future'[j].payload)
    BY <2>4, <2>5 DEF ResultsTrue
  <2> QED
    BY <2>1, <2>3, <2>6 DEF ResultsTrue, Reports
<1>8. ASSUME NEW h \in Host, PollDropsExpired(h) PROVE ResultsTrue'
  <2>1. UNCHANGED <<ran, acts, agent, net, handling>>
    BY <1>8 DEF PollDropsExpired, agents, history
  <2>2. \A j \in Job : future'[j] = future[j] \/ future'[j].state = "failed"
    BY <1>8, QueueHead DEF PollDropsExpired, TypeOK, Failed
  <2> QED
    BY <2>1, <2>2 DEF ResultsTrue, Reports
<1>9. ASSUME NEW h \in Host, Poll(h) PROVE ResultsTrue'
  <2>1. UNCHANGED <<ran, acts, net, handling, future>>
    BY <1>9 DEF Poll, history
  <2>2. PICK j : j = Head(queue[h])
    OBVIOUS
  <2>3. \/ UNCHANGED agent
        \/ agent' = [agent EXCEPT ![h] = [@ EXCEPT !.pc = "claimed", !.job = j]]
    BY <1>9, <2>2 DEF Poll
  <2>4. \A g \in Host : agent'[g] = agent[g] \/ agent'[g].pc = "claimed"
    <3>1. CASE UNCHANGED agent
      BY <3>1
    <3>2. CASE agent # agent'
      BY <2>3, <3>2, AgentClaims
    <3> QED
      BY <3>1, <3>2
  <2> QED
    BY <2>1, <2>4 DEF ResultsTrue, Reports
<1>10. ASSUME NEW h \in Host, Verify(h) PROVE ResultsTrue'
  <2>1. UNCHANGED <<ran, acts, net, handling, future>>
    BY <1>10 DEF Verify, core, history
  <2>2. \A g \in Host : agent'[g] = agent[g] \/ agent'[g].pc = "verified"
    BY <1>10, Verified
  <2> QED
    BY <2>1, <2>2 DEF ResultsTrue, Reports
<1>11. ASSUME NEW h \in Host, Drops(h) PROVE ResultsTrue'
  <2>1. UNCHANGED <<ran, acts, net, handling, future>>
    BY <1>11 DEF Drops, core, history
  <2>2. agent' = [agent EXCEPT ![h] = Idle]
    BY <1>11 DEF Drops
  <2>3. \A g \in Host : agent'[g] = agent[g] \/ agent'[g].pc = "idle"
    BY <2>2, AgentEnds
  <2> QED
    BY <2>1, <2>3 DEF ResultsTrue, Reports
<1>12. ASSUME NEW h \in Host, NEW acted \in Payload, Runs(h, acted) PROVE ResultsTrue'
  <2>1. UNCHANGED <<net, handling, future>>
    BY <1>12 DEF Runs, core
  <2>2. PICK j \in Job : j = agent[h].job
    BY <1>12, RunEffect
  <2>3. ran[j] = << >> /\ acts[j] = {}
    BY <1>12, <2>2, RunEffect DEF NonceFirst, ResultsTrue
  <2>4. ran'[j] = Append(ran[j], h) /\ \A k \in Job : k # j => ran'[k] = ran[k]
    BY <1>12, <2>2, RunEffect
  <2>5. acts'[j] = acts[j] \cup acted /\ \A k \in Job : k # j => acts'[k] = acts[k]
    <3>1. \A k \in Job : acts'[k] = IF k = j THEN acts[k] \cup acted ELSE acts[k]
      BY <1>12, <2>2, RunEffect
    <3>2. acts'[j] = acts[j] \cup acted
      BY <3>1
    <3>3. \A k \in Job : k # j => acts'[k] = acts[k]
      BY <3>1
    <3> QED
      BY <3>1, <3>2, <3>3
  <2>6. ran'[j] # << >> /\ acts'[j] = acted
    BY <2>3, <2>4, <2>5
  <2>7. \A k \in Job : ran[k] # << >> => ran'[k] # << >> /\ acts'[k] = acts[k]
    BY <2>3, <2>4, <2>5
  <2>8. \A m \in net \cup handling : m.job \in Job
    BY DEF TypeOK, Post
  <2>9. \A g \in Host : agent'[g].pc = "posting" =>
              \/ g # h /\ agent'[g] = agent[g]
              \/ agent'[g].job = j /\ (j[2] = "execute" => agent'[g].payload = acted)
    BY <1>12, <2>2, RunEffect
  <2>10. ASSUME NEW g \in Host, agent'[g].pc = "posting" PROVE Reports(agent[g].job,
      agent[g].payload)'
    <3>1. CASE g # h /\ agent'[g] = agent[g]
      BY <2>7, <2>10, <3>1 DEF Reports, ResultsTrue, HasJob
    <3>2. CASE agent'[g].job = j /\ (j[2] = "execute" => agent'[g].payload = acted)
      BY <2>6, <3>2 DEF Reports
    <3> QED
      BY <3>1, <3>2, <2>9, <2>10
  <2>11. \A k \in Job : ran'[k] = << >> => acts'[k] = {}
    BY <2>4, <2>5, <2>6 DEF ResultsTrue
  <2>12. \A m \in net \cup handling : Reports(m.job, m.payload)'
    BY <2>1, <2>7, <2>8 DEF ResultsTrue, Reports
  <2>13. \A k \in Job : future[k].state = "result" => Reports(k, future[k].payload)'
    BY <2>1, <2>7 DEF ResultsTrue, Reports
  <2> QED
    BY <2>1, <2>10, <2>11, <2>12, <2>13 DEF ResultsTrue, Reports
<1>13. ASSUME NEW h \in Host, PostResult(h) PROVE ResultsTrue'
  <2>1. UNCHANGED <<ran, acts, handling, future>>
    BY <1>13 DEF PostResult, core, history
  <2>2. agent' = [agent EXCEPT ![h] = Idle]
    BY <1>13 DEF PostResult
  <2>3. \A g \in Host : agent'[g] = agent[g] \/ agent'[g].pc = "idle"
    BY <2>2, AgentEnds
  <2>4. PICK m : m = [job |-> agent[h].job, host |-> h, payload |-> agent[h].payload]
    OBVIOUS
  <2>5. net' = net \cup {m} /\ m.job = agent[h].job /\ m.payload = agent[h].payload
    BY <1>13, <2>4 DEF PostResult
  <2>6. Reports(m.job, m.payload)
    BY <1>13, <2>5 DEF PostResult, ResultsTrue
  <2> QED
    BY <2>1, <2>3, <2>5, <2>6 DEF ResultsTrue, Reports
<1>14. ASSUME NEW h \in Host, NEW i \in Item, FileChanges(h, i) PROVE ResultsTrue'
  BY <1>14 DEF ResultsTrue, Reports, FileChanges, core, nonces, agents, history
<1>15. ASSUME NEW h \in Host, NEW s \in sent, Replay(h, s) PROVE ResultsTrue'
  <2>1. UNCHANGED <<ran, acts, net, handling, future>>
    BY <1>15 DEF Replay, core, history
  <2>2. agent' = [agent EXCEPT ![h] = [@ EXCEPT !.pc = "claimed", !.job = s]]
    BY <1>15 DEF Replay
  <2>3. \A g \in Host : agent'[g] = agent[g] \/ agent'[g].pc = "claimed"
    BY <2>2, AgentClaims
  <2> QED
    BY <2>1, <2>3 DEF ResultsTrue, Reports
<1>16. ASSUME CoreCrash PROVE ResultsTrue'
  BY <1>16 DEF ResultsTrue, Reports, CoreCrash, core, nonces, agents, history
<1>17. ASSUME Tick PROVE ResultsTrue'
  BY <1>17 DEF ResultsTrue, Reports, Tick, core, nonces, agents, history
<1>18. ASSUME UNCHANGED vars PROVE ResultsTrue'
  BY <1>18 DEF ResultsTrue, Reports, vars, core, nonces, agents, history
<1>19. ASSUME NEW s \in settling, CommitPost(s) \/ CommitFails(s)
      PROVE  ResultsTrue'
  BY <1>19 DEF ResultsTrue, Reports, CommitPost, CommitFails, core, nonces, agents, history
<1> QED
  BY Cases, <1>1, <1>2, <1>3, <1>4, <1>5, <1>6, <1>7, <1>8, <1>9, <1>10, <1>11, <1>12, <1>13,
      <1>14, <1>15, <1>16, <1>17, <1>18, <1>19

(* submit_job_result resolves the dispatch while the transaction that      *)
(* inserts the nonce is open.                                              *)
LEMMA LedgerStep == TypeOK /\ LedgerMatchesDispatch /\ [Next]_vars => LedgerMatchesDispatch'
<1> SUFFICES ASSUME TypeOK, LedgerMatchesDispatch, [Next]_vars PROVE LedgerMatchesDispatch'
  OBVIOUS
<1>1. ASSUME NEW o \in Op, StartExecute(o) PROVE LedgerMatchesDispatch'
  BY <1>1 DEF LedgerMatchesDispatch, StartExecute, core, nonces, agents, history
<1>2. ASSUME NEW o \in Op, ScanNow(o) PROVE LedgerMatchesDispatch'
  BY <1>2 DEF LedgerMatchesDispatch, ScanNow, core, nonces, agents, history
<1>3. ASSUME NEW o \in Op, DryRunReturns(o) PROVE LedgerMatchesDispatch'
  BY <1>3 DEF LedgerMatchesDispatch, DryRunReturns, core, nonces, agents, history
<1>4. ASSUME NEW o \in Op, ExecuteReturns(o) PROVE LedgerMatchesDispatch'
  BY <1>4 DEF LedgerMatchesDispatch, ExecuteReturns, core, nonces, agents, history
<1>5. ASSUME NEW o \in Op, DispatchTimeout(o) PROVE LedgerMatchesDispatch'
  BY <1>5 DEF LedgerMatchesDispatch, DispatchTimeout, core, nonces, agents, history
<1>6. ASSUME NEW m \in net, AcceptPost(m) PROVE LedgerMatchesDispatch'
  BY <1>6 DEF LedgerMatchesDispatch, AcceptPost, core, nonces, agents, history
<1>7. ASSUME NEW m \in handling, FinishPost(m) PROVE LedgerMatchesDispatch'
  <2>1. m.job \in Job /\ future \in [Job -> Future]
    BY DEF TypeOK, Post
  <2>2. Result(m.payload).state = "result"
    BY DEF Result
  <2>3. /\ UNCHANGED <<dbNonce, lost>>
        /\ \/ UNCHANGED <<settling, future>>
           \/ /\ settling' = settling \cup {m.job} /\ future[m.job] = Pending
              /\ future' = [future EXCEPT ![m.job] = Result(m.payload)]
    BY <1>7 DEF FinishPost
  <2>4. Pending.state # "result"
    BY DEF Pending
  <2> QED
    BY <2>1, <2>2, <2>3, <2>4 DEF LedgerMatchesDispatch
<1>8. ASSUME NEW h \in Host, PollDropsExpired(h) PROVE LedgerMatchesDispatch'
  <2>1. UNCHANGED <<dbNonce, settling, lost>>
    BY <1>8 DEF PollDropsExpired, nonces
  <2>2. future \in [Job -> Future] /\ Pending.state = "pending" /\ Failed.state = "failed"
    BY DEF TypeOK, Pending, Failed
  <2>3. \A j \in Job : future'[j] = future[j] \/ (future[j] = Pending /\ future'[j] = Failed)
    BY <1>8, <2>2 DEF PollDropsExpired
  <2> QED
    BY <2>1, <2>2, <2>3 DEF LedgerMatchesDispatch
<1>9. ASSUME NEW h \in Host, Poll(h) PROVE LedgerMatchesDispatch'
  BY <1>9 DEF LedgerMatchesDispatch, Poll, core, nonces, agents, history
<1>10. ASSUME NEW h \in Host, Verify(h) PROVE LedgerMatchesDispatch'
  BY <1>10 DEF LedgerMatchesDispatch, Verify, core, nonces, agents, history
<1>11. ASSUME NEW h \in Host, Drops(h) PROVE LedgerMatchesDispatch'
  BY <1>11 DEF LedgerMatchesDispatch, Drops, core, nonces, agents, history
<1>12. ASSUME NEW h \in Host, NEW acted \in Payload, Runs(h, acted) PROVE LedgerMatchesDispatch'
  BY <1>12 DEF LedgerMatchesDispatch, Runs, core, nonces, agents, history
<1>13. ASSUME NEW h \in Host, PostResult(h) PROVE LedgerMatchesDispatch'
  BY <1>13 DEF LedgerMatchesDispatch, PostResult, core, nonces, agents, history
<1>14. ASSUME NEW h \in Host, NEW i \in Item, FileChanges(h, i) PROVE LedgerMatchesDispatch'
  BY <1>14 DEF LedgerMatchesDispatch, FileChanges, core, nonces, agents, history
<1>15. ASSUME NEW h \in Host, NEW s \in sent, Replay(h, s) PROVE LedgerMatchesDispatch'
  BY <1>15 DEF LedgerMatchesDispatch, Replay, core, nonces, agents, history
<1>16. ASSUME CoreCrash PROVE LedgerMatchesDispatch'
  BY <1>16 DEF LedgerMatchesDispatch, CoreCrash, core, nonces, agents, history
<1>17. ASSUME Tick PROVE LedgerMatchesDispatch'
  BY <1>17 DEF LedgerMatchesDispatch, Tick, core, nonces, agents, history
<1>18. ASSUME UNCHANGED vars PROVE LedgerMatchesDispatch'
  BY <1>18 DEF LedgerMatchesDispatch, vars, core, nonces, agents, history
<1>19. ASSUME NEW s \in settling, CommitPost(s) \/ CommitFails(s)
      PROVE  LedgerMatchesDispatch'
  BY <1>19 DEF LedgerMatchesDispatch, CommitPost, CommitFails, core, nonces, agents, history
<1> QED
  BY Cases, <1>1, <1>2, <1>3, <1>4, <1>5, <1>6, <1>7, <1>8, <1>9, <1>10, <1>11, <1>12, <1>13,
      <1>14, <1>15, <1>16, <1>17, <1>18, <1>19

(* A job is issued once: a request that is past a phase does not go back.  *)
LEMMA IssuedOnce ==
    TypeOK /\ Phases /\ [Next]_vars => \A j \in Job : Exists(j) => issued'[j] = issued[j]
<1> SUFFICES ASSUME TypeOK, Phases, [Next]_vars
             PROVE  \A j \in Job : Exists(j) => issued'[j] = issued[j]
  OBVIOUS
<1>1. ASSUME NEW o \in Op, StartExecute(o)
      PROVE  \A j \in Job : Exists(j) => issued'[j] = issued[j]
  <2>1. Enqueue(<<o, "dry_run">>) /\ "dry_run" \in Mode /\ issued[<<o, "dry_run">>] = 0
    BY <1>1 DEF StartExecute, Admitted, Phases, Exists, Mode
  <2> QED
    BY <2>1, Enqueued DEF Exists
<1>2. ASSUME NEW o \in Op, ScanNow(o) PROVE \A j \in Job : Exists(j) => issued'[j] = issued[j]
  <2>1. Enqueue(<<o, "scan">>) /\ "scan" \in Mode /\ issued[<<o, "scan">>] = 0
    BY <1>2 DEF ScanNow, Admitted, Phases, Exists, Mode
  <2> QED
    BY <2>1, Enqueued DEF Exists
<1>3. ASSUME NEW o \in Op, DryRunReturns(o)
      PROVE  \A j \in Job : Exists(j) => issued'[j] = issued[j]
  <2>1. UNCHANGED <<issued, queue>> \/ Enqueue(<<o, "execute">>)
    BY <1>3 DEF DryRunReturns
  <2>2. "execute" \in Mode /\ issued[<<o, "execute">>] = 0
    BY <1>3 DEF DryRunReturns, Phases, Exists, Exec, Mode
  <2> QED
    BY <2>1, <2>2, Enqueued DEF Exists
<1>4. ASSUME NEW o \in Op, ExecuteReturns(o)
      PROVE  \A j \in Job : Exists(j) => issued'[j] = issued[j]
  BY <1>4 DEF Exists, ExecuteReturns, core, nonces, agents, history
<1>5. ASSUME NEW o \in Op, DispatchTimeout(o)
      PROVE  \A j \in Job : Exists(j) => issued'[j] = issued[j]
  BY <1>5 DEF Exists, DispatchTimeout, core, nonces, agents, history
<1>6. ASSUME NEW m \in net, AcceptPost(m)
      PROVE  \A j \in Job : Exists(j) => issued'[j] = issued[j]
  BY <1>6 DEF Exists, AcceptPost, core, nonces, agents, history
<1>7. ASSUME NEW m \in handling, FinishPost(m)
      PROVE  \A j \in Job : Exists(j) => issued'[j] = issued[j]
  BY <1>7 DEF Exists, FinishPost, core, nonces, agents, history
<1>8. ASSUME NEW h \in Host, PollDropsExpired(h)
      PROVE  \A j \in Job : Exists(j) => issued'[j] = issued[j]
  BY <1>8 DEF Exists, PollDropsExpired, core, nonces, agents, history
<1>9. ASSUME NEW h \in Host, Poll(h) PROVE \A j \in Job : Exists(j) => issued'[j] = issued[j]
  BY <1>9 DEF Exists, Poll, core, nonces, agents, history
<1>10. ASSUME NEW h \in Host, Verify(h) PROVE \A j \in Job : Exists(j) => issued'[j] = issued[j]
  BY <1>10 DEF Exists, Verify, core, nonces, agents, history
<1>11. ASSUME NEW h \in Host, Drops(h) PROVE \A j \in Job : Exists(j) => issued'[j] = issued[j]
  BY <1>11 DEF Exists, Drops, core, nonces, agents, history
<1>12. ASSUME NEW h \in Host, NEW acted \in Payload, Runs(h, acted)
       PROVE  \A j \in Job : Exists(j) => issued'[j] = issued[j]
  BY <1>12 DEF Exists, Runs, core, nonces, agents, history
<1>13. ASSUME NEW h \in Host, PostResult(h)
       PROVE  \A j \in Job : Exists(j) => issued'[j] = issued[j]
  BY <1>13 DEF Exists, PostResult, core, nonces, agents, history
<1>14. ASSUME NEW h \in Host, NEW i \in Item, FileChanges(h, i)
       PROVE  \A j \in Job : Exists(j) => issued'[j] = issued[j]
  BY <1>14 DEF Exists, FileChanges, core, nonces, agents, history
<1>15. ASSUME NEW h \in Host, NEW s \in sent, Replay(h, s)
       PROVE  \A j \in Job : Exists(j) => issued'[j] = issued[j]
  BY <1>15 DEF Exists, Replay, core, nonces, agents, history
<1>16. ASSUME CoreCrash PROVE \A j \in Job : Exists(j) => issued'[j] = issued[j]
  BY <1>16 DEF Exists, CoreCrash, core, nonces, agents, history
<1>17. ASSUME Tick PROVE \A j \in Job : Exists(j) => issued'[j] = issued[j]
  BY <1>17 DEF Exists, Tick, core, nonces, agents, history
<1>18. ASSUME UNCHANGED vars PROVE \A j \in Job : Exists(j) => issued'[j] = issued[j]
  BY <1>18 DEF Exists, vars, core, nonces, agents, history
<1>19. ASSUME NEW s \in settling, CommitPost(s) \/ CommitFails(s)
      PROVE  \A j \in Job : Exists(j) => issued'[j] = issued[j]
  BY <1>19 DEF Exists, CommitPost, CommitFails, core, nonces, agents, history
<1> QED
  BY Cases, <1>1, <1>2, <1>3, <1>4, <1>5, <1>6, <1>7, <1>8, <1>9, <1>10, <1>11, <1>12, <1>13,
      <1>14, <1>15, <1>16, <1>17, <1>18, <1>19

(* A request goes through its phases in order, and executed means done.    *)
LEMMA PhasesStep ==
    TypeOK /\ HasJob /\ NonceFirst /\ ResultsTrue /\ Phases /\ [Next]_vars => Phases'
<1> SUFFICES ASSUME TypeOK, HasJob, NonceFirst, ResultsTrue, Phases, [Next]_vars PROVE Phases'
  OBVIOUS
<1>1. ASSUME NEW o \in Op, StartExecute(o) PROVE Phases'
  <2>1. Enqueue(<<o, "dry_run">>) /\ "dry_run" \in Mode
    BY <1>1 DEF StartExecute, Mode
  <2>2. \A p \in Op : \A md \in Mode : <<p, md>> \in Job
    BY DEF Job
  <2>3. \A p \in Op : \A md \in Mode : <<p, md>> # <<o, "dry_run">> => issued'[<<p,
      md>>] = issued[<<p, md>>]
    BY <2>1, <2>2, Enqueued
  <2>4. op'[o] = "dry_run" /\ op[o] = "idle" /\ \A p \in Op : p # o => op'[p] = op[p]
    BY <1>1 DEF StartExecute, Admitted, TypeOK
  <2>5. UNCHANGED <<report, result, ran, acts>>
    BY <1>1 DEF StartExecute, history
  <2>6. \A p \in Op : op'[p] = "idle" => \A md \in Mode : issued'[<<p, md>>] = 0
    BY <2>3, <2>4 DEF Phases, Exists
  <2>7. \A p \in Op : issued'[<<p, "execute">>] = issued[<<p, "execute">>]
    BY <2>3 DEF Mode
  <2> QED
    BY <2>4, <2>5, <2>6, <2>7 DEF Phases, Exists, Exec, DryRun
<1>2. ASSUME NEW o \in Op, ScanNow(o) PROVE Phases'
  <2>1. Enqueue(<<o, "scan">>) /\ "scan" \in Mode
    BY <1>2 DEF ScanNow, Mode
  <2>2. \A p \in Op : \A md \in Mode : <<p, md>> \in Job
    BY DEF Job
  <2>3. \A p \in Op : \A md \in Mode : <<p, md>> # <<o, "scan">> => issued'[<<p,
      md>>] = issued[<<p, md>>]
    BY <2>1, <2>2, Enqueued
  <2>4. op'[o] = "enqueued" /\ op[o] = "idle" /\ \A p \in Op : p # o => op'[p] = op[p]
    BY <1>2 DEF ScanNow, Admitted, TypeOK
  <2>5. UNCHANGED <<report, result, ran, acts>>
    BY <1>2 DEF ScanNow, history
  <2>6. \A p \in Op : op'[p] = "idle" => \A md \in Mode : issued'[<<p, md>>] = 0
    BY <2>3, <2>4 DEF Phases, Exists
  <2>7. \A p \in Op : issued'[<<p, "execute">>] = issued[<<p, "execute">>]
    BY <2>3 DEF Mode
  <2> QED
    BY <2>4, <2>5, <2>6, <2>7 DEF Phases, Exists, Exec, DryRun
<1>3. ASSUME NEW o \in Op, DryRunReturns(o) PROVE Phases'
  <2>1. UNCHANGED <<issued, queue>> \/ Enqueue(<<o, "execute">>)
    BY <1>3 DEF DryRunReturns
  <2>2. \A p \in Op : \A md \in Mode : <<p, md>> \in Job
    BY DEF Job
  <2>3. \A p \in Op : \A md \in Mode : <<p, md>> # <<o, "execute">> => issued'[<<p,
      md>>] = issued[<<p, md>>]
    BY <2>1, <2>2, Enqueued DEF Mode
  <2>4. /\ op[o] = "dry_run" /\ op'[o] \in {"skipped", "over_cap", "execute"}
        /\ \A p \in Op : p # o => op'[p] = op[p]
    BY <1>3 DEF DryRunReturns, TypeOK
  <2>5. /\ op'[o] = "execute" => issued'[<<o, "execute">>] # 0
        /\ op'[o] # "execute" => UNCHANGED issued
    <3>1. CASE op'[o] = "execute"
      BY <1>3, <2>4, <3>1, Enqueued DEF DryRunReturns, TypeOK, Mode
    <3>2. CASE op'[o] # "execute"
      BY <1>3, <2>4, <3>2 DEF DryRunReturns, TypeOK
    <3> QED
      BY <3>1, <3>2
  <2>6. \A p \in Op : p # o => report'[p] = report[p]
    BY <1>3 DEF DryRunReturns, TypeOK
  <2>7. UNCHANGED <<result, ran, acts>>
    BY <1>3 DEF DryRunReturns, history
  <2>8. issued[<<o, "execute">>] = 0 /\ acts[<<o, "execute">>] = {}
    BY <2>2, <2>4 DEF Mode, Phases, Exec, Exists, NonceFirst, ResultsTrue
  <2>9. ran[<<o, "dry_run">>] # << >>
    BY <1>3, <2>2 DEF DryRunReturns, Resolved, ResultsTrue, Reports, Mode
  <2>10. \A p \in Op : op'[p] = "idle" => \A md \in Mode : issued'[<<p, md>>] = 0
    BY <2>3, <2>4 DEF Phases, Exists
  <2>11. \A p \in Op : p # o => issued'[<<p, "execute">>] = issued[<<p, "execute">>]
    BY <2>3 DEF Mode
  <2>12. \A p \in Op : acts'[<<p, "execute">>] \cap report'[p] = {}
    BY <2>6, <2>7, <2>8 DEF Phases, Exec
  <2> QED
    BY <2>4, <2>5, <2>7, <2>8, <2>9, <2>10, <2>11, <2>12 DEF Phases, Exists, Exec, DryRun
<1>4. ASSUME NEW o \in Op, ExecuteReturns(o) PROVE Phases'
  <2>1. op[o] = "execute" /\ op'[o] = "executed" /\ \A p \in Op : p # o => op'[p] = op[p]
    BY <1>4 DEF ExecuteReturns, TypeOK
  <2>2. <<o, "execute">> \in Job /\ future[<<o, "execute">>].state = "result"
    BY <1>4, JobNames DEF ExecuteReturns, Resolved
  <2>3. ran[<<o, "execute">>] # << >> /\ future[<<o, "execute">>].payload = acts[<<o,
      "execute">>]
    BY <2>2 DEF ResultsTrue, Reports
  <2>4. result'[o] = acts[<<o, "execute">>] /\ \A p \in Op : p # o => result'[p] = result[p]
    BY <1>4, <2>3 DEF ExecuteReturns, TypeOK
  <2>5. UNCHANGED <<issued, report, ran, acts>>
    BY <1>4 DEF ExecuteReturns, history
  <2> QED
    BY <2>1, <2>3, <2>4, <2>5 DEF Phases, Exists, Exec, DryRun
<1>5. ASSUME NEW o \in Op, DispatchTimeout(o) PROVE Phases'
  <2>1. op[o] # "idle" /\ op'[o] = "timeout" /\ \A p \in Op : p # o => op'[p] = op[p]
    BY <1>5 DEF DispatchTimeout, Waiting, TypeOK
  <2>2. UNCHANGED <<issued, report, result, ran, acts>>
    BY <1>5 DEF DispatchTimeout, history
  <2> QED
    BY <2>1, <2>2 DEF Phases, Exists, Exec, DryRun
<1>6. ASSUME NEW m \in net, AcceptPost(m) PROVE Phases'
  BY <1>6 DEF Phases, Exists, Exec, DryRun, AcceptPost, core, nonces, agents, history
<1>7. ASSUME NEW m \in handling, FinishPost(m) PROVE Phases'
  BY <1>7 DEF Phases, Exists, Exec, DryRun, FinishPost, core, nonces, agents, history
<1>8. ASSUME NEW h \in Host, PollDropsExpired(h) PROVE Phases'
  BY <1>8 DEF Phases, Exists, Exec, DryRun, PollDropsExpired, core, nonces, agents, history
<1>9. ASSUME NEW h \in Host, Poll(h) PROVE Phases'
  BY <1>9 DEF Phases, Exists, Exec, DryRun, Poll, core, nonces, agents, history
<1>10. ASSUME NEW h \in Host, Verify(h) PROVE Phases'
  BY <1>10 DEF Phases, Exists, Exec, DryRun, Verify, core, nonces, agents, history
<1>11. ASSUME NEW h \in Host, Drops(h) PROVE Phases'
  BY <1>11 DEF Phases, Exists, Exec, DryRun, Drops, core, nonces, agents, history
<1>12. ASSUME NEW h \in Host, NEW acted \in Payload, Runs(h, acted) PROVE Phases'
  <2>1. PICK j \in Job : j = agent[h].job
    BY <1>12, RunEffect
  <2>2. agent[h].pc = "verified" /\ ran[j] = << >> /\ acts[j] = {}
    BY <1>12, <2>1, RunEffect DEF NonceFirst, ResultsTrue
  <2>3. \A k \in Job : ran'[k] = IF k = j THEN Append(ran[k], h) ELSE ran[k]
    BY <1>12, <2>1, RunEffect
  <2>4. \A k \in Job : acts'[k] = IF k = j THEN acts[k] \cup acted ELSE acts[k]
    <3>1. \A k \in Job : acts'[k] = IF k = agent[h].job THEN acts[k] \cup acted ELSE acts[k]
      BY <1>12, RunEffect, Zenon
    <3> QED
      BY <2>1, <3>1, Zenon
  <2>5. \A k \in Job : ran[k] # << >> => ran'[k] # << >> /\ acts'[k] = acts[k]
    BY <2>2, <2>3, <2>4
  <2>6. \A o \in Op : j = <<o, "execute">> => acted \cap report[o] = {}
    BY <1>12, <2>1 DEF Runs, Clean, Carried
  <2>7. \A o \in Op : <<o, "execute">> \in Job /\ <<o, "dry_run">> \in Job
    BY JobNames
  <2>8. \A o \in Op : acts'[<<o, "execute">>] \cap report[o] = {}
    <3>1. ASSUME NEW o \in Op PROVE acts'[<<o, "execute">>] \cap report[o] = {}
      <4>1. CASE j = <<o, "execute">>
        BY <2>2, <2>4, <2>6, <4>1
      <4>2. CASE j # <<o, "execute">>
        BY <2>4, <2>7, <4>2 DEF Phases, Exec
      <4> QED
        BY <4>1, <4>2
    <3> QED
      BY <3>1
  <2>9. UNCHANGED <<op, issued, report, result>>
    BY <1>12 DEF Runs, core
  <2> QED
    BY <2>5, <2>7, <2>8, <2>9 DEF Phases, Exists, Exec, DryRun
<1>13. ASSUME NEW h \in Host, PostResult(h) PROVE Phases'
  BY <1>13 DEF Phases, Exists, Exec, DryRun, PostResult, core, nonces, agents, history
<1>14. ASSUME NEW h \in Host, NEW i \in Item, FileChanges(h, i) PROVE Phases'
  BY <1>14 DEF Phases, Exists, Exec, DryRun, FileChanges, core, nonces, agents, history
<1>15. ASSUME NEW h \in Host, NEW s \in sent, Replay(h, s) PROVE Phases'
  BY <1>15 DEF Phases, Exists, Exec, DryRun, Replay, core, nonces, agents, history
<1>16. ASSUME CoreCrash PROVE Phases'
  <2>1. \A o \in Op : op'[o] = op[o] \/ (op[o] \in Waiting /\ op'[o] = "crashed")
    BY <1>16 DEF CoreCrash, TypeOK
  <2>2. UNCHANGED <<issued, report, result, ran, acts>>
    BY <1>16 DEF CoreCrash, history
  <2> QED
    BY <2>1, <2>2 DEF Waiting, Phases, Exists, Exec, DryRun
<1>17. ASSUME Tick PROVE Phases'
  BY <1>17 DEF Phases, Exists, Exec, DryRun, Tick, core, nonces, agents, history
<1>18. ASSUME UNCHANGED vars PROVE Phases'
  BY <1>18 DEF Phases, Exists, Exec, DryRun, vars, core, nonces, agents, history
<1>19. ASSUME NEW s \in settling, CommitPost(s) \/ CommitFails(s)
      PROVE  Phases'
  BY <1>19 DEF Phases, Exists, Exec, DryRun, CommitPost, CommitFails, core, nonces, agents, history
<1> QED
  BY Cases, <1>1, <1>2, <1>3, <1>4, <1>5, <1>6, <1>7, <1>8, <1>9, <1>10, <1>11, <1>12, <1>13,
      <1>14, <1>15, <1>16, <1>17, <1>18, <1>19

(* What a run acted on is not intact again.                                *)
LEMMA ActedIsGoneStep == TypeOK /\ HasJob /\ NonceFirst /\ ResultsTrue /\ ActedIsGone
    /\ [Next]_vars => ActedIsGone'
<1> SUFFICES ASSUME TypeOK, HasJob, NonceFirst, ResultsTrue, ActedIsGone, [Next]_vars
             PROVE  ActedIsGone'
  OBVIOUS
<1>1. ASSUME NEW o \in Op, StartExecute(o) PROVE ActedIsGone'
  BY <1>1 DEF ActedIsGone, Exec, StartExecute, core, nonces, agents, history
<1>2. ASSUME NEW o \in Op, ScanNow(o) PROVE ActedIsGone'
  BY <1>2 DEF ActedIsGone, Exec, ScanNow, core, nonces, agents, history
<1>3. ASSUME NEW o \in Op, DryRunReturns(o) PROVE ActedIsGone'
  BY <1>3 DEF ActedIsGone, Exec, DryRunReturns, core, nonces, agents, history
<1>4. ASSUME NEW o \in Op, ExecuteReturns(o) PROVE ActedIsGone'
  BY <1>4 DEF ActedIsGone, Exec, ExecuteReturns, core, nonces, agents, history
<1>5. ASSUME NEW o \in Op, DispatchTimeout(o) PROVE ActedIsGone'
  BY <1>5 DEF ActedIsGone, Exec, DispatchTimeout, core, nonces, agents, history
<1>6. ASSUME NEW m \in net, AcceptPost(m) PROVE ActedIsGone'
  BY <1>6 DEF ActedIsGone, Exec, AcceptPost, core, nonces, agents, history
<1>7. ASSUME NEW m \in handling, FinishPost(m) PROVE ActedIsGone'
  BY <1>7 DEF ActedIsGone, Exec, FinishPost, core, nonces, agents, history
<1>8. ASSUME NEW h \in Host, PollDropsExpired(h) PROVE ActedIsGone'
  BY <1>8 DEF ActedIsGone, Exec, PollDropsExpired, core, nonces, agents, history
<1>9. ASSUME NEW h \in Host, Poll(h) PROVE ActedIsGone'
  BY <1>9 DEF ActedIsGone, Exec, Poll, core, nonces, agents, history
<1>10. ASSUME NEW h \in Host, Verify(h) PROVE ActedIsGone'
  BY <1>10 DEF ActedIsGone, Exec, Verify, core, nonces, agents, history
<1>11. ASSUME NEW h \in Host, Drops(h) PROVE ActedIsGone'
  BY <1>11 DEF ActedIsGone, Exec, Drops, core, nonces, agents, history
<1>12. ASSUME NEW h \in Host, NEW acted \in Payload, Runs(h, acted) PROVE ActedIsGone'
  <2>1. PICK j \in Job : j = agent[h].job
    BY <1>12, RunEffect
  <2>2. agent[h].pc = "verified" /\ Target[j[1]] = h
    BY <1>12, <2>1, RunEffect DEF NonceFirst
  <2>3. \A k \in Job : acts'[k] = IF k = j THEN acts[k] \cup acted ELSE acts[k]
    <3>1. \A k \in Job : acts'[k] = IF k = agent[h].job THEN acts[k] \cup acted ELSE acts[k]
      BY <1>12, RunEffect, Zenon
    <3> QED
      BY <2>1, <3>1, Zenon
  <2>4. \A g \in Host : \A i \in Item :
              file'[g][i] = IF g = h /\ i \in acted THEN "gone" ELSE file[g][i]
    BY <1>12, RunEffect
  <2>5. \A o \in Op : <<o, "execute">> \in Job /\ Target[o] \in Host /\ acts[<<o,
      "execute">>] \subseteq Item
    BY JobNames, ChannelConstants DEF TypeOK, Payload
  <2>6. acted \subseteq Item
    BY DEF Payload
  <2>7. ASSUME NEW o \in Op, NEW i \in acts'[<<o, "execute">>]
        PROVE  file'[Target[o]][i] # "intact"
    <3>1. PICK k : k = <<o, "execute">>
      OBVIOUS
    <3>2. k \in Job /\ k[1] = o /\ Target[o] \in Host
      BY <2>5, <3>1
    <3>3. (i \in acts[k] \/ (k = j /\ i \in acted)) /\ i \in Item
      BY <2>3, <2>5, <2>6, <2>7, <3>1, <3>2
    <3>4. CASE i \in acts[k]
      BY <2>4, <3>1, <3>2, <3>3, <3>4 DEF ActedIsGone, Exec
    <3>5. CASE k = j /\ i \in acted
      BY <2>2, <2>4, <3>2, <3>3, <3>5
    <3> QED
      BY <3>1, <3>2, <3>3, <3>4, <3>5
  <2> QED
    BY <2>7 DEF ActedIsGone, Exec
<1>13. ASSUME NEW h \in Host, PostResult(h) PROVE ActedIsGone'
  BY <1>13 DEF ActedIsGone, Exec, PostResult, core, nonces, agents, history
<1>14. ASSUME NEW h \in Host, NEW i \in Item, FileChanges(h, i) PROVE ActedIsGone'
  <2>1. \A g \in Host : \A k \in Item : file'[g][k] = file[g][k] \/ file'[g][k] = "changed"
    BY <1>14 DEF FileChanges, TypeOK
  <2>2. \A o \in Op : Target[o] \in Host /\ acts[<<o, "execute">>] \subseteq Item
    BY JobNames, ChannelConstants DEF TypeOK, Payload
  <2>3. UNCHANGED acts
    BY <1>14 DEF FileChanges, history
  <2> QED
    BY <2>1, <2>2, <2>3 DEF ActedIsGone, Exec
<1>15. ASSUME NEW h \in Host, NEW s \in sent, Replay(h, s) PROVE ActedIsGone'
  BY <1>15 DEF ActedIsGone, Exec, Replay, core, nonces, agents, history
<1>16. ASSUME CoreCrash PROVE ActedIsGone'
  BY <1>16 DEF ActedIsGone, Exec, CoreCrash, core, nonces, agents, history
<1>17. ASSUME Tick PROVE ActedIsGone'
  BY <1>17 DEF ActedIsGone, Exec, Tick, core, nonces, agents, history
<1>18. ASSUME UNCHANGED vars PROVE ActedIsGone'
  BY <1>18 DEF ActedIsGone, Exec, vars, core, nonces, agents, history
<1>19. ASSUME NEW s \in settling, CommitPost(s) \/ CommitFails(s)
      PROVE  ActedIsGone'
  BY <1>19 DEF ActedIsGone, Exec, CommitPost, CommitFails, core, nonces, agents, history
<1> QED
  BY Cases, <1>1, <1>2, <1>3, <1>4, <1>5, <1>6, <1>7, <1>8, <1>9, <1>10, <1>11, <1>12, <1>13,
      <1>14, <1>15, <1>16, <1>17, <1>18, <1>19

(* The second of two requests finds what the first acted on drifted when   *)
(* dispatch_execute verifies again.                                        *)
LEMMA ActedOnOnceStep == TypeOK /\ HasJob /\ NonceFirst /\ ActedIsGone /\ OnePerFile
    /\ [Next]_vars => OnePerFile'
<1> SUFFICES ASSUME TypeOK, HasJob, NonceFirst, ActedIsGone, OnePerFile, [Next]_vars
             PROVE  OnePerFile'
  OBVIOUS
<1>1. ASSUME NEW o \in Op, StartExecute(o) PROVE OnePerFile'
  BY <1>1 DEF OnePerFile, Exec, StartExecute, core, nonces, agents, history
<1>2. ASSUME NEW o \in Op, ScanNow(o) PROVE OnePerFile'
  BY <1>2 DEF OnePerFile, Exec, ScanNow, core, nonces, agents, history
<1>3. ASSUME NEW o \in Op, DryRunReturns(o) PROVE OnePerFile'
  BY <1>3 DEF OnePerFile, Exec, DryRunReturns, core, nonces, agents, history
<1>4. ASSUME NEW o \in Op, ExecuteReturns(o) PROVE OnePerFile'
  BY <1>4 DEF OnePerFile, Exec, ExecuteReturns, core, nonces, agents, history
<1>5. ASSUME NEW o \in Op, DispatchTimeout(o) PROVE OnePerFile'
  BY <1>5 DEF OnePerFile, Exec, DispatchTimeout, core, nonces, agents, history
<1>6. ASSUME NEW m \in net, AcceptPost(m) PROVE OnePerFile'
  BY <1>6 DEF OnePerFile, Exec, AcceptPost, core, nonces, agents, history
<1>7. ASSUME NEW m \in handling, FinishPost(m) PROVE OnePerFile'
  BY <1>7 DEF OnePerFile, Exec, FinishPost, core, nonces, agents, history
<1>8. ASSUME NEW h \in Host, PollDropsExpired(h) PROVE OnePerFile'
  BY <1>8 DEF OnePerFile, Exec, PollDropsExpired, core, nonces, agents, history
<1>9. ASSUME NEW h \in Host, Poll(h) PROVE OnePerFile'
  BY <1>9 DEF OnePerFile, Exec, Poll, core, nonces, agents, history
<1>10. ASSUME NEW h \in Host, Verify(h) PROVE OnePerFile'
  BY <1>10 DEF OnePerFile, Exec, Verify, core, nonces, agents, history
<1>11. ASSUME NEW h \in Host, Drops(h) PROVE OnePerFile'
  BY <1>11 DEF OnePerFile, Exec, Drops, core, nonces, agents, history
<1>12. ASSUME NEW h \in Host, NEW acted \in Payload, Runs(h, acted) PROVE OnePerFile'
  <2>1. PICK j \in Job : j = agent[h].job
    BY <1>12, RunEffect
  <2>2. agent[h].pc = "verified" /\ Target[j[1]] = h
    BY <1>12, <2>1, RunEffect DEF NonceFirst
  <2>3. \A k \in Job : acts'[k] = IF k = j THEN acts[k] \cup acted ELSE acts[k]
    <3>1. \A k \in Job : acts'[k] = IF k = agent[h].job THEN acts[k] \cup acted ELSE acts[k]
      BY <1>12, RunEffect, Zenon
    <3> QED
      BY <2>1, <3>1, Zenon
  <2>4. \A o \in Op : <<o, "execute">> \in Job /\ <<o, "execute">>[1] = o
    BY JobNames
  <2>5. \A i \in acted : i \in Item /\ file[h][i] = "intact"
    BY <1>12 DEF Runs, Clean, Carried, Drifted, Payload
  <2>6. \A o \in Op : Target[o] = h => acts[Exec(o)] \cap acted = {}
    BY <2>5 DEF ActedIsGone
  <2>7. ASSUME NEW o \in Op, NEW p \in Op, o # p, Target[o] = Target[p]
          PROVE  acts'[Exec(o)] \cap acts'[Exec(p)] = {}
    <3>1. Exec(o) \in Job /\ Exec(p) \in Job /\ Exec(o)[1] = o /\ Exec(p)[1] = p
      BY <2>4 DEF Exec
    <3>2. acts[Exec(o)] \cap acts[Exec(p)] = {}
      BY <2>7 DEF OnePerFile
    <3>3. CASE Exec(o) = j
      BY <2>2, <2>3, <2>6, <2>7, <3>1, <3>2, <3>3
    <3>4. CASE Exec(p) = j
      BY <2>2, <2>3, <2>6, <2>7, <3>1, <3>2, <3>4
    <3>5. CASE Exec(o) # j /\ Exec(p) # j
      BY <2>3, <3>1, <3>2, <3>5
    <3> QED
      BY <3>1, <3>2, <3>3, <3>4, <3>5
  <2> QED
    BY <2>7 DEF OnePerFile, Exec
<1>13. ASSUME NEW h \in Host, PostResult(h) PROVE OnePerFile'
  BY <1>13 DEF OnePerFile, Exec, PostResult, core, nonces, agents, history
<1>14. ASSUME NEW h \in Host, NEW i \in Item, FileChanges(h, i) PROVE OnePerFile'
  BY <1>14 DEF OnePerFile, Exec, FileChanges, core, nonces, agents, history
<1>15. ASSUME NEW h \in Host, NEW s \in sent, Replay(h, s) PROVE OnePerFile'
  BY <1>15 DEF OnePerFile, Exec, Replay, core, nonces, agents, history
<1>16. ASSUME CoreCrash PROVE OnePerFile'
  BY <1>16 DEF OnePerFile, Exec, CoreCrash, core, nonces, agents, history
<1>17. ASSUME Tick PROVE OnePerFile'
  BY <1>17 DEF OnePerFile, Exec, Tick, core, nonces, agents, history
<1>18. ASSUME UNCHANGED vars PROVE OnePerFile'
  BY <1>18 DEF OnePerFile, Exec, vars, core, nonces, agents, history
<1>19. ASSUME NEW s \in settling, CommitPost(s) \/ CommitFails(s)
      PROVE  OnePerFile'
  BY <1>19 DEF OnePerFile, Exec, CommitPost, CommitFails, core, nonces, agents, history
<1> QED
  BY Cases, <1>1, <1>2, <1>3, <1>4, <1>5, <1>6, <1>7, <1>8, <1>9, <1>10, <1>11, <1>12, <1>13,
      <1>14, <1>15, <1>16, <1>17, <1>18, <1>19

(* Time does not go back, and the end of the window stays the end.         *)
LEMMA ClockGoesOn ==
    TypeOK /\ [Next]_vars
        => clock \in Nat /\ clock' \in Nat /\ clock <= clock' /\ (clock = MaxClock => clock' = clock)
<1> SUFFICES ASSUME TypeOK, [Next]_vars
             PROVE  clock \in Nat /\ clock' \in Nat /\ clock <= clock'
        /\ (clock = MaxClock => clock' = clock)
  OBVIOUS
<1>1. ASSUME NEW o \in Op, StartExecute(o)
      PROVE  clock \in Nat /\ clock' \in Nat /\ clock <= clock'
        /\ (clock = MaxClock => clock' = clock)
  BY <1>1 DEF TypeOK, StartExecute, core, nonces, agents, history
<1>2. ASSUME NEW o \in Op, ScanNow(o)
      PROVE  clock \in Nat /\ clock' \in Nat /\ clock <= clock'
        /\ (clock = MaxClock => clock' = clock)
  BY <1>2 DEF TypeOK, ScanNow, core, nonces, agents, history
<1>3. ASSUME NEW o \in Op, DryRunReturns(o)
      PROVE  clock \in Nat /\ clock' \in Nat /\ clock <= clock'
        /\ (clock = MaxClock => clock' = clock)
  BY <1>3 DEF TypeOK, DryRunReturns, core, nonces, agents, history
<1>4. ASSUME NEW o \in Op, ExecuteReturns(o)
      PROVE  clock \in Nat /\ clock' \in Nat /\ clock <= clock'
        /\ (clock = MaxClock => clock' = clock)
  BY <1>4 DEF TypeOK, ExecuteReturns, core, nonces, agents, history
<1>5. ASSUME NEW o \in Op, DispatchTimeout(o)
      PROVE  clock \in Nat /\ clock' \in Nat /\ clock <= clock'
        /\ (clock = MaxClock => clock' = clock)
  BY <1>5 DEF TypeOK, DispatchTimeout, core, nonces, agents, history
<1>6. ASSUME NEW m \in net, AcceptPost(m)
      PROVE  clock \in Nat /\ clock' \in Nat /\ clock <= clock'
        /\ (clock = MaxClock => clock' = clock)
  BY <1>6 DEF TypeOK, AcceptPost, core, nonces, agents, history
<1>7. ASSUME NEW m \in handling, FinishPost(m)
      PROVE  clock \in Nat /\ clock' \in Nat /\ clock <= clock'
        /\ (clock = MaxClock => clock' = clock)
  BY <1>7 DEF TypeOK, FinishPost, core, nonces, agents, history
<1>8. ASSUME NEW h \in Host, PollDropsExpired(h)
      PROVE  clock \in Nat /\ clock' \in Nat /\ clock <= clock'
        /\ (clock = MaxClock => clock' = clock)
  BY <1>8 DEF TypeOK, PollDropsExpired, core, nonces, agents, history
<1>9. ASSUME NEW h \in Host, Poll(h)
      PROVE  clock \in Nat /\ clock' \in Nat /\ clock <= clock'
        /\ (clock = MaxClock => clock' = clock)
  BY <1>9 DEF TypeOK, Poll, core, nonces, agents, history
<1>10. ASSUME NEW h \in Host, Verify(h)
       PROVE  clock \in Nat /\ clock' \in Nat /\ clock <= clock'
        /\ (clock = MaxClock => clock' = clock)
  BY <1>10 DEF TypeOK, Verify, core, nonces, agents, history
<1>11. ASSUME NEW h \in Host, Drops(h)
       PROVE  clock \in Nat /\ clock' \in Nat /\ clock <= clock'
        /\ (clock = MaxClock => clock' = clock)
  BY <1>11 DEF TypeOK, Drops, core, nonces, agents, history
<1>12. ASSUME NEW h \in Host, NEW acted \in Payload, Runs(h, acted)
       PROVE  clock \in Nat /\ clock' \in Nat /\ clock <= clock'
        /\ (clock = MaxClock => clock' = clock)
  BY <1>12 DEF TypeOK, Runs, core, nonces, agents, history
<1>13. ASSUME NEW h \in Host, PostResult(h)
       PROVE  clock \in Nat /\ clock' \in Nat /\ clock <= clock'
        /\ (clock = MaxClock => clock' = clock)
  BY <1>13 DEF TypeOK, PostResult, core, nonces, agents, history
<1>14. ASSUME NEW h \in Host, NEW i \in Item, FileChanges(h, i)
       PROVE  clock \in Nat /\ clock' \in Nat /\ clock <= clock'
        /\ (clock = MaxClock => clock' = clock)
  BY <1>14 DEF TypeOK, FileChanges, core, nonces, agents, history
<1>15. ASSUME NEW h \in Host, NEW s \in sent, Replay(h, s)
       PROVE  clock \in Nat /\ clock' \in Nat /\ clock <= clock'
        /\ (clock = MaxClock => clock' = clock)
  BY <1>15 DEF TypeOK, Replay, core, nonces, agents, history
<1>16. ASSUME CoreCrash PROVE clock \in Nat /\ clock' \in Nat /\ clock <= clock'
           /\ (clock = MaxClock => clock' = clock)
  BY <1>16 DEF TypeOK, CoreCrash, core, nonces, agents, history
<1>17. ASSUME Tick PROVE clock \in Nat /\ clock' \in Nat /\ clock <= clock'
           /\ (clock = MaxClock => clock' = clock)
  BY <1>17 DEF Tick, TypeOK
<1>18. ASSUME UNCHANGED vars PROVE clock \in Nat /\ clock' \in Nat /\ clock <= clock'
           /\ (clock = MaxClock => clock' = clock)
  BY <1>18 DEF TypeOK, vars, core, nonces, agents, history
<1>19. ASSUME NEW s \in settling, CommitPost(s) \/ CommitFails(s)
      PROVE  clock \in Nat /\ clock' \in Nat /\ clock <= clock'
           /\ (clock = MaxClock => clock' = clock)
  BY <1>19 DEF CommitPost, CommitFails, TypeOK
<1> QED
  BY Cases, <1>1, <1>2, <1>3, <1>4, <1>5, <1>6, <1>7, <1>8, <1>9, <1>10, <1>11, <1>12, <1>13,
      <1>14, <1>15, <1>16, <1>17, <1>18, <1>19

(* A job that has expired stays expired (verify_job compares with the clock). *)
LEMMA ExpiredStays ==
    TypeOK /\ Phases /\ [Next]_vars => \A j \in Job : Exists(j) /\ _expired(j) => _expired(j)'
<1> SUFFICES ASSUME TypeOK, Phases, [Next]_vars, NEW j \in Job, Exists(j), _expired(j)
             PROVE  _expired(j)'
  OBVIOUS
<1>1. issued'[j] = issued[j] /\ issued[j] \in Nat /\ TTL \in Nat
  BY IssuedOnce, ChannelConstants DEF TypeOK
<1>2. clock \in Nat /\ clock' \in Nat /\ clock <= clock' /\ (clock = MaxClock => clock' = clock)
  BY ClockGoesOn
<1> QED
  BY <1>1, <1>2 DEF _expired, expires_at

(* A dispatch ends without a result only after its job expired.            *)
LEMMA GiveUpIsLateStep == TypeOK /\ HasJob /\ JobsExist /\ Phases /\ GiveUpIsLate
    /\ [Next]_vars => GiveUpIsLate'
<1> SUFFICES ASSUME TypeOK, HasJob, JobsExist, Phases, GiveUpIsLate, [Next]_vars
             PROVE  GiveUpIsLate'
  OBVIOUS
<1>1. ASSUME NEW o \in Op, StartExecute(o) PROVE GiveUpIsLate'
  <2>1. op'[o] = "dry_run" /\ op[o] = "idle" /\ \A p \in Op : p # o => op'[p] = op[p]
    BY <1>1 DEF StartExecute, Admitted, TypeOK
  <2>2. UNCHANGED future
    BY <1>1 DEF StartExecute
  <2>3. \A j \in Job : Exists(j) /\ _expired(j) => Exists(j)' /\ _expired(j)'
    BY IssuedStays, ExpiredStays
  <2>4. Enqueue(<<o, "dry_run">>) /\ "dry_run" \in Mode
    BY <1>1 DEF StartExecute, Mode
  <2>5. \A j \in Job : j[1] # o => issued'[j] = issued[j]
    BY <2>4, Enqueued
  <2>6. \A j \in Job : j[1] \in Op /\ <<j[1], "execute">> \in Job /\ <<j[1],
      "execute">>[1] = j[1]
    BY JobHost, JobNames
  <2>7. \A j \in Job : GaveUp(j)' => j[1] # o /\ GaveUp(j)
    BY <2>1, <2>5, <2>6 DEF GaveUp
  <2>8. \A j \in Job : GaveUp(j) => Exists(j)
    BY DEF GaveUp, Exists
  <2> QED
    BY <2>2, <2>3, <2>7, <2>8 DEF GiveUpIsLate
<1>2. ASSUME NEW o \in Op, ScanNow(o) PROVE GiveUpIsLate'
  <2>1. op'[o] = "enqueued" /\ op[o] = "idle" /\ \A p \in Op : p # o => op'[p] = op[p]
    BY <1>2 DEF ScanNow, Admitted, TypeOK
  <2>2. UNCHANGED future
    BY <1>2 DEF ScanNow
  <2>3. \A j \in Job : Exists(j) /\ _expired(j) => Exists(j)' /\ _expired(j)'
    BY IssuedStays, ExpiredStays
  <2>4. Enqueue(<<o, "scan">>) /\ "scan" \in Mode
    BY <1>2 DEF ScanNow, Mode
  <2>5. \A j \in Job : j[1] # o => issued'[j] = issued[j]
    BY <2>4, Enqueued
  <2>6. \A j \in Job : j[1] \in Op /\ <<j[1], "execute">> \in Job /\ <<j[1],
      "execute">>[1] = j[1]
    BY JobHost, JobNames
  <2>7. \A j \in Job : GaveUp(j)' => j[1] # o /\ GaveUp(j)
    BY <2>1, <2>5, <2>6 DEF GaveUp
  <2>8. \A j \in Job : GaveUp(j) => Exists(j)
    BY DEF GaveUp, Exists
  <2> QED
    BY <2>2, <2>3, <2>7, <2>8 DEF GiveUpIsLate
<1>3. ASSUME NEW o \in Op, DryRunReturns(o) PROVE GiveUpIsLate'
  <2>1. op'[o] # "timeout" /\ \A p \in Op : p # o => op'[p] = op[p]
    BY <1>3 DEF DryRunReturns, TypeOK
  <2>2. UNCHANGED future
    BY <1>3 DEF DryRunReturns
  <2>3. \A j \in Job : Exists(j) /\ _expired(j) => Exists(j)' /\ _expired(j)'
    BY IssuedStays, ExpiredStays
  <2>4. UNCHANGED <<issued, queue>> \/ Enqueue(<<o, "execute">>)
    BY <1>3 DEF DryRunReturns
  <2>5. \A j \in Job : j[1] # o => issued'[j] = issued[j]
    <3>1. CASE UNCHANGED issued
      BY <3>1
    <3>2. CASE Enqueue(<<o, "execute">>)
      <4>1. "execute" \in Mode
        BY DEF Mode
      <4>2. \A j \in Job : issued'[j] = IF j = <<o, "execute">> THEN clock ELSE issued[j]
        BY <3>2, <4>1, Enqueued
      <4>3. \A j \in Job : j[1] # o => issued'[j] = issued[j]
        BY <4>2
      <4> QED
        BY <4>1, <4>2, <4>3
    <3> QED
      BY <3>1, <3>2, <2>4
  <2>6. \A j \in Job : j[1] \in Op /\ <<j[1], "execute">> \in Job /\ <<j[1],
      "execute">>[1] = j[1]
    BY JobHost, JobNames
  <2>7. \A j \in Job : GaveUp(j)' => j[1] # o /\ GaveUp(j)
    BY <2>1, <2>5, <2>6 DEF GaveUp
  <2>8. \A j \in Job : GaveUp(j) => Exists(j)
    BY DEF GaveUp, Exists
  <2> QED
    BY <2>2, <2>3, <2>7, <2>8 DEF GiveUpIsLate
<1>4. ASSUME NEW o \in Op, ExecuteReturns(o) PROVE GiveUpIsLate'
  <2>1. op'[o] # "timeout" /\ \A p \in Op : p # o => op'[p] = op[p]
    BY <1>4 DEF ExecuteReturns, TypeOK
  <2>2. UNCHANGED <<future, issued, clock>>
    BY <1>4 DEF ExecuteReturns
  <2>3. \A j \in Job : GaveUp(j)' => GaveUp(j)
    BY <2>1, <2>2, JobHost DEF GaveUp
  <2> QED
    BY <2>2, <2>3 DEF GiveUpIsLate, Exists, _expired, expires_at
<1>5. ASSUME NEW o \in Op, DispatchTimeout(o) PROVE GiveUpIsLate'
  <2>1. UNCHANGED <<future, issued, clock>>
    BY <1>5 DEF DispatchTimeout
  <2>2. op[o] \in {"dry_run",
      "execute"} /\ op'[o] = "timeout" /\ \A p \in Op : p # o => op'[p] = op[p]
    BY <1>5 DEF DispatchTimeout, TypeOK, Waiting
  <2>3. <<o, op[o]>> \in Job /\ _expired(<<o, op[o]>>)
    <3>1. <<o, op[o]>> \in Job
      BY <2>2, JobNames
    <3>2. future[<<o, op[o]>>] = Failed \/ _expired(<<o, op[o]>>)
      BY <1>5 DEF DispatchTimeout
    <3>3. Failed.state = "failed"
      BY DEF Failed
    <3>4. _expired(<<o, op[o]>>)
      BY <3>1, <3>2, <3>3 DEF GiveUpIsLate
    <3> QED
      BY <3>1, <3>2, <3>3, <3>4
  <2>4. ASSUME NEW j \in Job, j[2] # "scan", GaveUp(j)' PROVE _expired(j)
    <3>1. CASE j[1] # o
      BY <2>1, <2>2, <2>4, <3>1, JobHost DEF GiveUpIsLate, GaveUp
    <3>2. CASE j[1] = o
      <4>1. j = <<o, "dry_run">> \/ j = <<o, "execute">>
        BY <2>4, <3>2 DEF Job, Mode
      <4>2. CASE op[o] = "execute"
        <5>1. issued[<<o, "execute">>] # 0
          BY <4>2 DEF Phases, Exec, Exists
        <5>2. j = <<o, "execute">>
          BY <2>1, <2>4, <4>1, <5>1 DEF GaveUp
        <5> QED
          BY <5>1, <5>2, <2>3, <4>2
      <4>3. CASE op[o] = "dry_run"
        <5>1. issued[<<o, "execute">>] = 0
          BY <4>3 DEF Phases, Exec, Exists
        <5>2. j = <<o, "dry_run">>
          BY <2>1, <2>4, <4>1, <5>1 DEF GaveUp
        <5> QED
          BY <5>1, <5>2, <2>3, <4>3
      <4> QED
        BY <4>1, <4>2, <4>3, <2>2
    <3> QED
      BY <3>1, <3>2
  <2> QED
    BY <2>1, <2>4 DEF GiveUpIsLate, Exists, _expired, expires_at
<1>6. ASSUME NEW m \in net, AcceptPost(m) PROVE GiveUpIsLate'
  <2>1. UNCHANGED <<op, future, issued, clock>>
    BY <1>6 DEF AcceptPost, core
  <2> QED
    BY <2>1 DEF GiveUpIsLate, GaveUp, Exists, _expired, expires_at
<1>7. ASSUME NEW m \in handling, FinishPost(m) PROVE GiveUpIsLate'
  <2>1. m.job \in Job /\ future \in [Job -> Future] /\ Result(m.payload).state = "result"
    BY DEF TypeOK, Post, Result
  <2>2. \A j \in Job : future'[j] = future[j] \/ future'[j].state = "result"
    BY <1>7, <2>1 DEF FinishPost
  <2>3. UNCHANGED <<op, issued, clock>>
    BY <1>7 DEF FinishPost
  <2> QED
    BY <2>2, <2>3 DEF GiveUpIsLate, GaveUp, Exists, _expired, expires_at
<1>8. ASSUME NEW h \in Host, PollDropsExpired(h) PROVE GiveUpIsLate'
  <2>1. UNCHANGED <<op, issued, clock>>
    BY <1>8 DEF PollDropsExpired
  <2>2. queue[h] \in Seq(Job) /\ queue[h] # << >> /\ future \in [Job -> Future]
    BY <1>8 DEF PollDropsExpired, TypeOK
  <2>3. PICK k : k = Head(queue[h])
    OBVIOUS
  <2>4. k \in Job /\ Exists(k) /\ _expired(k)
    BY <1>8, <2>2, <2>3, QueueTail DEF PollDropsExpired, JobsExist
  <2>5. \A j \in Job : future'[j] = future[j] \/ j = k
    BY <1>8, <2>2, <2>3 DEF PollDropsExpired
  <2> QED
    BY <2>1, <2>4, <2>5 DEF GiveUpIsLate, GaveUp, Exists, _expired, expires_at
<1>9. ASSUME NEW h \in Host, Poll(h) PROVE GiveUpIsLate'
  <2>1. UNCHANGED <<op, future, issued, clock>>
    BY <1>9 DEF Poll, core
  <2> QED
    BY <2>1 DEF GiveUpIsLate, GaveUp, Exists, _expired, expires_at
<1>10. ASSUME NEW h \in Host, Verify(h) PROVE GiveUpIsLate'
  <2>1. UNCHANGED <<op, future, issued, clock>>
    BY <1>10 DEF Verify, core
  <2> QED
    BY <2>1 DEF GiveUpIsLate, GaveUp, Exists, _expired, expires_at
<1>11. ASSUME NEW h \in Host, Drops(h) PROVE GiveUpIsLate'
  <2>1. UNCHANGED <<op, future, issued, clock>>
    BY <1>11 DEF Drops, core
  <2> QED
    BY <2>1 DEF GiveUpIsLate, GaveUp, Exists, _expired, expires_at
<1>12. ASSUME NEW h \in Host, NEW acted \in Payload, Runs(h, acted) PROVE GiveUpIsLate'
  <2>1. UNCHANGED <<op, future, issued, clock>>
    BY <1>12 DEF Runs, core
  <2> QED
    BY <2>1 DEF GiveUpIsLate, GaveUp, Exists, _expired, expires_at
<1>13. ASSUME NEW h \in Host, PostResult(h) PROVE GiveUpIsLate'
  <2>1. UNCHANGED <<op, future, issued, clock>>
    BY <1>13 DEF PostResult, core
  <2> QED
    BY <2>1 DEF GiveUpIsLate, GaveUp, Exists, _expired, expires_at
<1>14. ASSUME NEW h \in Host, NEW i \in Item, FileChanges(h, i) PROVE GiveUpIsLate'
  <2>1. UNCHANGED <<op, future, issued, clock>>
    BY <1>14 DEF FileChanges, core
  <2> QED
    BY <2>1 DEF GiveUpIsLate, GaveUp, Exists, _expired, expires_at
<1>15. ASSUME NEW h \in Host, NEW s \in sent, Replay(h, s) PROVE GiveUpIsLate'
  <2>1. UNCHANGED <<op, future, issued, clock>>
    BY <1>15 DEF Replay, core
  <2> QED
    BY <2>1 DEF GiveUpIsLate, GaveUp, Exists, _expired, expires_at
<1>16. ASSUME CoreCrash PROVE GiveUpIsLate'
  <2>1. \A o \in Op : op'[o] = op[o] \/ op'[o] = "crashed"
    BY <1>16 DEF CoreCrash, TypeOK
  <2>2. UNCHANGED <<future, issued, clock>>
    BY <1>16 DEF CoreCrash
  <2>3. \A j \in Job : GaveUp(j)' => GaveUp(j)
    BY <2>1, <2>2, JobHost DEF GaveUp
  <2> QED
    BY <2>2, <2>3 DEF GiveUpIsLate, Exists, _expired, expires_at
<1>17. ASSUME Tick PROVE GiveUpIsLate'
  <2>1. UNCHANGED <<op, future, issued>>
    BY <1>17 DEF Tick, core
  <2>2. \A j \in Job : Exists(j) /\ _expired(j) => Exists(j)' /\ _expired(j)'
    BY IssuedStays, ExpiredStays
  <2> QED
    BY <2>1, <2>2 DEF GiveUpIsLate, GaveUp, Exists
<1>18. ASSUME UNCHANGED vars PROVE GiveUpIsLate'
  <2>1. UNCHANGED <<op, future, issued, clock>>
    BY <1>18 DEF vars, core
  <2> QED
    BY <2>1 DEF GiveUpIsLate, GaveUp, Exists, _expired, expires_at
<1>19. ASSUME NEW s \in settling, CommitPost(s) \/ CommitFails(s)
      PROVE  GiveUpIsLate'
  <2>1. UNCHANGED <<op, issued, future>>
    BY <1>19 DEF CommitPost, CommitFails
  <2>2. \A j \in Job : Exists(j) /\ _expired(j) => Exists(j)' /\ _expired(j)'
    BY IssuedStays, ExpiredStays
  <2> QED
    BY <2>1, <2>2 DEF GiveUpIsLate, GaveUp, Exists
<1> QED
  BY Cases, <1>1, <1>2, <1>3, <1>4, <1>5, <1>6, <1>7, <1>8, <1>9, <1>10, <1>11, <1>12, <1>13,
      <1>14, <1>15, <1>16, <1>17, <1>18, <1>19

-----------------------------------------------------------------------------
(* The theorems.                                                           *)

(* Nothing has been issued, polled or run at the start.                    *)
LEMMA InitIInv == Init => IInv
<1> SUFFICES ASSUME Init PROVE IInv
  OBVIOUS
<1>1. TypeOK
  BY TypeInit
<1>2. HasJob
  BY DEF Init, HasJob, Idle
<1>3. JobsExist
  BY DEF Init, JobsExist, Idle
<1>4. NonceFirst
  BY DEF Init, NonceFirst, Idle
<1>5. ResultsTrue
  BY DEF Init, ResultsTrue, Idle, Pending
<1>6. Phases
  BY JobNames DEF Init, Phases, Exec, DryRun, Exists, Job
<1>7. ActedIsGone
  BY JobNames DEF Init, ActedIsGone, Exec
<1>8. GiveUpIsLate
  BY JobHost DEF Init, GiveUpIsLate, Pending, GaveUp
<1>9. LedgerMatchesDispatch
  BY DEF Init, LedgerMatchesDispatch, Pending
<1>10. OnePerFile
  BY JobNames DEF Init, OnePerFile, Exec
<1> QED
  BY <1>1, <1>2, <1>3, <1>4, <1>5, <1>6, <1>7, <1>8, <1>9, <1>10 DEF IInv

(* Every step of core, of an agent, of the network or of the clock keeps   *)
(* the invariant.                                                          *)
LEMMA StepIInv == IInv /\ [Next]_vars => IInv'
  BY TypeStep, JobsExistStep, NonceFirstStep, ResultsTrueStep, PhasesStep,
     ActedIsGoneStep, ActedOnOnceStep, GiveUpIsLateStep, LedgerStep DEF IInv

(* The invariant holds in every reachable state.                           *)
LEMMA Invariance == Spec => []IInv
  BY InitIInv, StepIInv, PTL DEF Spec

(* The state always has its type; awaiting is exactly the set of jobs    *)
(* whose request waits (JobQueue's three correlation maps).                *)
THEOREM JobTypes == Spec => []TypeOK
<1>1. IInv => TypeOK
  BY DEF IInv
<1> QED
  BY <1>1, Invariance, PTL

(* A signed job runs at most once and on its own host, whatever is         *)
(* replayed and whoever restarts (verify_job, SqliteNonceStore).           *)
THEOREM JobsAreSingleUse == Spec => []SingleUse
<1>1. IInv => SingleUse
  BY DEF IInv, NonceFirst, SingleUse
<1> QED
  BY <1>1, Invariance, PTL

(* What an agent acts on was shown clean by a dry run of the same request, *)
(* and what core records as executed is what was done.                     *)
THEOREM ExecutionsAreTrue == Spec => []ExecutedMeansDone
<1>1. ASSUME IInv, NEW o \in Op
      PROVE  LET done == acts[<<o, "execute">>]
             IN /\ done # {} => ran[<<o, "dry_run">>] # << >> /\ done \cap report[o] = {}
                /\ op[o] = "executed" => result[o] = done
  <2>1. <<o, "execute">> \in Job
    BY JobNames
  <2>2. acts[<<o, "execute">>] # {} => issued[<<o, "execute">>] # 0
    BY <1>1, <2>1 DEF IInv, ResultsTrue, NonceFirst, Exists
  <2> QED
    BY <1>1, <2>2 DEF IInv, Phases, Exec, DryRun, Exists
<1>2. IInv => ExecutedMeansDone
  BY <1>1 DEF ExecutedMeansDone
<1> QED
  BY <1>2, Invariance, PTL

(* Two requests that execute the same plan never both act on a file        *)
(* (dispatch_execute verifies again).                                      *)
THEOREM FilesAreActedOnOnce == Spec => []ActedOnOnce
<1>1. IInv => ActedOnOnce
  BY DEF IInv, OnePerFile, Exec, ActedOnOnce
<1> QED
  BY <1>1, Invariance, PTL

(* A nonce is on core's ledger only if its result reached the request, and *)
(* is missing from it only while submit_job_result's transaction is open   *)
(* or after a crash or a failed commit ended it.                           *)
THEOREM LedgerIsExact == Spec => []LedgerMatchesDispatch
<1>1. IInv => LedgerMatchesDispatch
  BY DEF IInv
<1> QED
  BY <1>1, Invariance, PTL

(* No agent starts on a job whose request has timed out: the dispatch      *)
(* window is the job's time to live (job_queue.py, verify_job).            *)
THEOREM NothingStartsLate == Spec => NoStartAfterGiveUp
<1>1. ASSUME IInv, NEW h \in Host, Verify(h), agent[h].job[2] # "scan"
      PROVE  ~GaveUp(agent[h].job)
  <2>1. agent[h].job \in Job /\ ~_expired(agent[h].job)
    BY <1>1, Verified DEF IInv, Acceptable
  <2> QED
    BY <1>1, <2>1 DEF IInv, GiveUpIsLate
<1>2. IInv => \A h \in Host : (Verify(h) /\ agent[h].job[2] # "scan") => ~GaveUp(agent[h].job)
  BY <1>1
<1> QED
  BY <1>2, Invariance, PTL DEF NoStartAfterGiveUp

=============================================================================
