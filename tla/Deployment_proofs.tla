------------------------- MODULE Deployment_proofs -------------------------
(* Proofs about Deployment, for any runs, hosts, tokens and fetches: what the *)
(* audit log knows of the identities handed out, that a recorded result is    *)
(* final, and that an ended host holds neither a slot nor an SSH session.     *)
EXTENDS Deployment, TLAPS

TaskStep == {"new", "refused", "created", "running", "recorded", "unrecorded", "lost"}
EnrollStep == {"new", "refused", "issued", "given", "unknown", "known", "uncommitted"}
FetchStep == {"new", "refused", "redeemed", "recorded", "served"}

(* The values of the variables that are not counters.                         *)
Types ==
    /\ core \in {"up", "draining", "down"}
    /\ task \in [Run -> TaskStep] /\ phase \in [Item -> Phase]
    /\ minted \subseteq Item /\ placed \subseteq Item
    /\ slot \subseteq Item /\ cut \subseteq Item /\ client \subseteq Item \cup Probe
    /\ probe \in [Probe -> {"new", "open", "ended"}]
    /\ grants \subseteq Token /\ expired \subseteq Token
    /\ enroll \in [Token -> EnrollStep] /\ fetch \in [Fetch -> FetchStep]

(* A background task exists only once the initiation of its run is committed. *)
Initiated ==
    \A r \in Run : task[r] \in {"running", "recorded", "unrecorded"} => <<"initiated", r>> \in log

PlacedIsKnown == \A i \in placed : <<"initiated", run_of[i]>> \in log

(* A bundle leaves the core only after the record of its fetch.               *)
FetchIsKnown == \A f \in Fetch : fetch[f] \in {"recorded", "served"} => <<"redeemed", f>> \in log

(* Fetches that got, or may still get, an identity for their token.           *)
Redeemed(f) == fetch[f] \in {"redeemed", "recorded", "served"} \/ <<"redeemed", f>> \in log

(* Their token is consumed and is never issued again.                         *)
Spent == \A f \in Fetch : Redeemed(f) => /\ token_of[f] \notin grants
                                         /\ enroll[token_of[f]] # "new"

OnePerToken ==
    \A f, g \in Fetch : token_of[f] = token_of[g] /\ Redeemed(f) /\ Redeemed(g) => f = g

(* No host of a run is touched before its background task exists.             *)
Untouched == \A i \in Item : task[run_of[i]] \in {"new", "created"} => phase[i] = "pending"

(* Between its first and its last phase a host is inside the semaphore.       *)
InSemaphore ==
    \A i \in Item : /\ task[run_of[i]] = "running" /\ i \notin cut
                    /\ phase[i] \notin Terminal \cup {"pending"}
                    => i \in slot

(* gather returned before the results were written: with all of its children, *)
(* or because drain cancelled them.                                           *)
Finished ==
    \A i \in Item : task[run_of[i]] \in {"recorded", "unrecorded"} => Ended(i) \/ i \in cut

(* Once drain has cancelled a host of a run all hosts of the run are cancelled *)
(* or have ended, and the core does not come up again before the run has.     *)
CutTogether ==
    \A i \in cut :
        /\ task[run_of[i]] \notin {"new", "created"}
        /\ task[run_of[i]] = "running" =>
              /\ core # "up"
              /\ \A j \in Item : run_of[j] = run_of[i] => Ended(j) \/ j \in cut

(* The inductive invariant.                                                   *)
IInv ==
    /\ Types /\ Initiated /\ PlacedIsKnown /\ FetchIsKnown /\ Spent /\ OnePerToken
    /\ Untouched /\ InSemaphore /\ Finished /\ CutTogether
    /\ EndedHoldsNothing /\ ResultIsFinal

-----------------------------------------------------------------------------
(* Every step keeps the types.                                             *)
LEMMA TypesStep == Types /\ [Next]_vars => Types'
<1> SUFFICES ASSUME Types, [Next]_vars PROVE Types'
  OBVIOUS
<1>1. CASE UNCHANGED <<core, task, phase, minted, placed, slot, cut, client, probe, grants,
    expired, enroll, fetch>>
  BY <1>1 DEF Types, TaskStep, Phase, Terminal, EnrollStep, FetchStep
<1>2. ASSUME NEW r \in Run, RefuseDeploy(r) PROVE Types'
  BY <1>2, DeployConstants DEF Types, TaskStep, Phase, Terminal, EnrollStep, FetchStep,
      RefuseDeploy, Advance, Packed, Disturb, deploy, pull
<1>3. ASSUME NEW r \in Run, Create(r) PROVE Types'
  BY <1>3, DeployConstants DEF Types, TaskStep, Phase, Terminal, EnrollStep, FetchStep,
      Create, Advance, Packed, Disturb, deploy, pull
<1>4. ASSUME NEW r \in Run, Initiate(r) PROVE Types'
  BY <1>4, DeployConstants DEF Types, TaskStep, Phase, Terminal, EnrollStep, FetchStep,
      Initiate, Advance, Packed, Disturb, deploy, pull
<1>5. ASSUME NEW r \in Run, InitiateFails(r) PROVE Types'
  BY <1>5, DeployConstants DEF Types, TaskStep, Phase, Terminal, EnrollStep, FetchStep,
      InitiateFails, Advance, Packed, Disturb, deploy, pull
<1>6. ASSUME NEW r \in Run, RecordResults(r) PROVE Types'
  BY <1>6, DeployConstants DEF Types, TaskStep, Phase, Terminal, EnrollStep, FetchStep,
      RecordResults, Advance, Packed, Disturb, deploy, pull
<1>7. ASSUME NEW r \in Run, RecordFails(r) PROVE Types'
  BY <1>7, DeployConstants DEF Types, TaskStep, Phase, Terminal, EnrollStep, FetchStep,
      RecordFails, Advance, Packed, Disturb, deploy, pull
<1>8. ASSUME NEW i \in Item, Enter(i) PROVE Types'
  BY <1>8, DeployConstants DEF Types, TaskStep, Phase, Terminal, EnrollStep, FetchStep,
      Enter, Advance, Packed, Disturb, deploy, pull
<1>9. ASSUME NEW i \in Item, Connect(i) PROVE Types'
  BY <1>9, DeployConstants DEF Types, TaskStep, Phase, Terminal, EnrollStep, FetchStep,
      Connect, Advance, Packed, Disturb, deploy, pull
<1>10. ASSUME NEW i \in Item, MintCert(i) PROVE Types'
  BY <1>10, DeployConstants DEF Types, TaskStep, Phase, Terminal, EnrollStep, FetchStep,
      MintCert, Advance, Packed, Disturb, deploy, pull
<1>11. ASSUME NEW i \in Item, Upload(i) PROVE Types'
  BY <1>11, DeployConstants DEF Types, TaskStep, Phase, Terminal, EnrollStep, FetchStep,
      Upload, Advance, Packed, Disturb, deploy, pull
<1>12. ASSUME NEW i \in Item, EnsureImage(i) PROVE Types'
  BY <1>12, DeployConstants DEF Types, TaskStep, Phase, Terminal, EnrollStep, FetchStep,
      EnsureImage, Advance, Packed, Disturb, deploy, pull
<1>13. ASSUME NEW i \in Item, ComposeUp(i) PROVE Types'
  BY <1>13, DeployConstants DEF Types, TaskStep, Phase, Terminal, EnrollStep, FetchStep,
      ComposeUp, Advance, Packed, Disturb, deploy, pull
<1>14. ASSUME NEW i \in Item, VerifyContainer(i) PROVE Types'
  BY <1>14, DeployConstants DEF Types, TaskStep, Phase, Terminal, EnrollStep, FetchStep,
      VerifyContainer, Advance, Packed, Disturb, deploy, pull
<1>15. ASSUME NEW i \in Item, CloseClient(i) PROVE Types'
  BY <1>15, DeployConstants DEF Types, TaskStep, Phase, Terminal, EnrollStep, FetchStep,
      CloseClient, Advance, Packed, Disturb, deploy, pull
<1>16. ASSUME NEW i \in Item, FailHost(i) PROVE Types'
  BY <1>16, DeployConstants DEF Types, TaskStep, Phase, Terminal, EnrollStep, FetchStep,
      FailHost, Advance, Packed, Disturb, deploy, pull
<1>17. ASSUME NEW p \in Probe, RefuseProbe(p) PROVE Types'
  BY <1>17, DeployConstants DEF Types, TaskStep, Phase, Terminal, EnrollStep, FetchStep,
      RefuseProbe, Advance, Packed, Disturb, deploy, pull
<1>18. ASSUME NEW p \in Probe, OpenProbe(p) PROVE Types'
  BY <1>18, DeployConstants DEF Types, TaskStep, Phase, Terminal, EnrollStep, FetchStep,
      OpenProbe, Advance, Packed, Disturb, deploy, pull
<1>19. ASSUME NEW p \in Probe, CloseProbe(p) PROVE Types'
  BY <1>19, DeployConstants DEF Types, TaskStep, Phase, Terminal, EnrollStep, FetchStep,
      CloseProbe, Advance, Packed, Disturb, deploy, pull
<1>20. ASSUME NEW t \in Token, RefuseEnroll(t) PROVE Types'
  BY <1>20, DeployConstants DEF Types, TaskStep, Phase, Terminal, EnrollStep, FetchStep,
      RefuseEnroll, Advance, Packed, Disturb, deploy, pull
<1>21. ASSUME NEW t \in Token, Issue(t) PROVE Types'
  BY <1>21, DeployConstants DEF Types, TaskStep, Phase, Terminal, EnrollStep, FetchStep,
      Issue, Advance, Packed, Disturb, deploy, pull
<1>22. ASSUME NEW t \in Token, EnrollResponds(t) PROVE Types'
  BY <1>22, DeployConstants DEF Types, TaskStep, Phase, Terminal, EnrollStep, FetchStep,
      EnrollResponds, Advance, Packed, Disturb, deploy, pull
<1>23. ASSUME NEW t \in Token, EnrollCommits(t) PROVE Types'
  BY <1>23, DeployConstants DEF Types, TaskStep, Phase, Terminal, EnrollStep, FetchStep,
      EnrollCommits, Advance, Packed, Disturb, deploy, pull
<1>24. ASSUME NEW t \in Token, Expire(t) PROVE Types'
  BY <1>24, DeployConstants DEF Types, TaskStep, Phase, Terminal, EnrollStep, FetchStep,
      Expire, Advance, Packed, Disturb, deploy, pull
<1>25. ASSUME NEW t \in Token, FetchImage(t) PROVE Types'
  BY <1>25, DeployConstants DEF Types, TaskStep, Phase, Terminal, EnrollStep, FetchStep,
      FetchImage, Advance, Packed, Disturb, deploy, pull
<1>26. ASSUME NEW f \in Fetch, Redeem(f) PROVE Types'
  BY <1>26, DeployConstants DEF Types, TaskStep, Phase, Terminal, EnrollStep, FetchStep,
      Redeem, Advance, Packed, Disturb, deploy, pull
<1>27. ASSUME NEW f \in Fetch, RecordRedeemed(f) PROVE Types'
  BY <1>27, DeployConstants DEF Types, TaskStep, Phase, Terminal, EnrollStep, FetchStep,
      RecordRedeemed, Advance, Packed, Disturb, deploy, pull
<1>28. ASSUME NEW f \in Fetch, ServeBundle(f) PROVE Types'
  BY <1>28, DeployConstants DEF Types, TaskStep, Phase, Terminal, EnrollStep, FetchStep,
      ServeBundle, Advance, Packed, Disturb, deploy, pull
<1>29. ASSUME Stop PROVE Types'
  BY <1>29, DeployConstants DEF Types, TaskStep, Phase, Terminal, EnrollStep, FetchStep,
      Stop, Advance, Packed, Disturb, deploy, pull
<1>30. ASSUME CancelStragglers PROVE Types'
  BY <1>30, DeployConstants DEF Types, TaskStep, Phase, Terminal, EnrollStep, FetchStep,
      CancelStragglers, Advance, Packed, Disturb, deploy, pull
<1>31. ASSUME Drained PROVE Types'
  BY <1>31, DeployConstants DEF Types, TaskStep, Phase, Terminal, EnrollStep, FetchStep,
      Drained, Advance, Packed, Disturb, deploy, pull
<1>32. ASSUME Crash PROVE Types'
  BY <1>32, DeployConstants DEF Types, TaskStep, Phase, Terminal, EnrollStep, FetchStep,
      Crash, Advance, Packed, Disturb, deploy, pull
<1>33. ASSUME Restart PROVE Types'
  BY <1>33, DeployConstants DEF Types, TaskStep, Phase, Terminal, EnrollStep, FetchStep,
      Restart, Advance, Packed, Disturb, deploy, pull
<1>35. ASSUME NEW i \in Item, EndCancelled(i) PROVE Types'
  BY <1>35, DeployConstants DEF Types, TaskStep, Phase, Terminal, EnrollStep, FetchStep,
      EndCancelled, Advance, Packed, Disturb, deploy, pull
<1>36. ASSUME NEW i \in Item, CloseRaises(i) PROVE Types'
  BY <1>36, DeployConstants DEF Types, TaskStep, Phase, Terminal, EnrollStep, FetchStep,
      CloseRaises, Advance, Packed, Disturb, deploy, pull
<1>34. \/ UNCHANGED <<core, task, phase, minted, placed, slot, cut, client, probe, grants,
              expired, enroll, fetch>>
        \/ (\E r \in Run : RefuseDeploy(r) \/ Create(r) \/ Initiate(r) \/ InitiateFails(r)
            \/ RecordResults(r) \/ RecordFails(r))
        \/ (\E i \in Item : Enter(i) \/ Connect(i) \/ MintCert(i) \/ Upload(i)
            \/ EnsureImage(i) \/ ComposeUp(i) \/ VerifyContainer(i) \/ CloseClient(i)
                \/ FailHost(i) \/ EndCancelled(i) \/ CloseRaises(i))
        \/ (\E p \in Probe : RefuseProbe(p) \/ OpenProbe(p) \/ CloseProbe(p))
        \/ (\E t \in Token : RefuseEnroll(t) \/ Issue(t) \/ EnrollResponds(t)
            \/ EnrollCommits(t) \/ Expire(t) \/ FetchImage(t))
        \/ (\E f \in Fetch : Redeem(f) \/ RecordRedeemed(f) \/ ServeBundle(f))
        \/ Stop
        \/ CancelStragglers
        \/ Drained
        \/ Crash
        \/ Restart
  BY DEF Next, deploy_one, Idle, vars, deploy, pull
<1> QED
  BY <1>1, <1>2, <1>3, <1>4, <1>5, <1>6, <1>7, <1>8, <1>9, <1>10, <1>11, <1>12, <1>13, <1>14,
      <1>15, <1>16, <1>17, <1>18, <1>19, <1>20, <1>21, <1>22, <1>23, <1>24, <1>25, <1>26,
          <1>27, <1>28, <1>29, <1>30, <1>31, <1>32, <1>33, <1>34, <1>35, <1>36

(* The audit log is append-only: no route and no task takes a record back. *)
LEMMA LogGrows == [Next]_vars => log \subseteq log'
<1> SUFFICES ASSUME [Next]_vars PROVE log \subseteq log'
  OBVIOUS
<1>1. CASE UNCHANGED <<log>>
  BY <1>1 DEF vars
<1>2. ASSUME NEW r \in Run, Initiate(r) PROVE log \subseteq log'
  BY <1>2 DEF Initiate
<1>3. ASSUME NEW r \in Run, RecordResults(r) PROVE log \subseteq log'
  BY <1>3 DEF RecordResults
<1>4. ASSUME NEW t \in Token, EnrollCommits(t) PROVE log \subseteq log'
  BY <1>4 DEF EnrollCommits
<1>5. ASSUME NEW f \in Fetch, RecordRedeemed(f) PROVE log \subseteq log'
  BY <1>5 DEF RecordRedeemed
<1>6. \/ UNCHANGED <<log>>
       \/ (\E r \in Run : Initiate(r) \/ RecordResults(r))
       \/ (\E t \in Token : EnrollCommits(t))
       \/ (\E f \in Fetch : RecordRedeemed(f))
  BY DEF Next, deploy_one, RefuseDeploy, Create, InitiateFails, RecordFails, Enter, Connect,
      MintCert, Upload, EnsureImage, ComposeUp, VerifyContainer, CloseClient, FailHost, EndCancelled, CloseRaises,
      RefuseProbe, OpenProbe, CloseProbe, RefuseEnroll, Issue, EnrollResponds, Expire,
      FetchImage, Redeem, ServeBundle, Stop, CancelStragglers, Drained, Crash,
      Restart, Idle, vars, deploy, pull
<1> QED
  BY <1>1, <1>2, <1>3, <1>4, <1>5, <1>6

(* deploy_route commits the initiation, then starts the task.              *)
LEMMA InitiatedStep == Types /\ Initiated /\ [Next]_vars => Initiated'
<1> SUFFICES ASSUME Types, Initiated, [Next]_vars PROVE Initiated'
  OBVIOUS
<1>1. CASE UNCHANGED <<task, log>>
  BY <1>1 DEF Initiated
<1>2. ASSUME NEW r \in Run, RefuseDeploy(r) PROVE Initiated'
  <2>1. task' = [task EXCEPT ![r] = "refused"]
    BY <1>2 DEF RefuseDeploy
  <2>2. log \subseteq log'
    BY LogGrows
  <2> QED
    BY <2>1, <2>2 DEF Types, Initiated
<1>3. ASSUME NEW r \in Run, Create(r) PROVE Initiated'
  <2>1. task' = [task EXCEPT ![r] = "created"]
    BY <1>3 DEF Create
  <2>2. log \subseteq log'
    BY LogGrows
  <2> QED
    BY <2>1, <2>2 DEF Types, Initiated
<1>4. ASSUME NEW r \in Run, Initiate(r) PROVE Initiated'
  <2>1. task' = [task EXCEPT ![r] = "running"]
    BY <1>4 DEF Initiate
  <2>2. log \subseteq log' /\ <<"initiated", r>> \in log'
    BY <1>4 DEF Initiate
  <2> QED
    BY <2>1, <2>2 DEF Types, Initiated
<1>5. ASSUME NEW r \in Run, InitiateFails(r) PROVE Initiated'
  <2>1. task' = [task EXCEPT ![r] = "refused"]
    BY <1>5 DEF InitiateFails
  <2>2. log \subseteq log'
    BY LogGrows
  <2> QED
    BY <2>1, <2>2 DEF Types, Initiated
<1>6. ASSUME NEW r \in Run, RecordResults(r) PROVE Initiated'
  <2>1. task' = [task EXCEPT ![r] = "recorded"] /\ task[r] = "running"
    BY <1>6 DEF RecordResults
  <2>2. log \subseteq log'
    BY LogGrows
  <2> QED
    BY <2>1, <2>2 DEF Types, Initiated
<1>7. ASSUME NEW r \in Run, RecordFails(r) PROVE Initiated'
  <2>1. task' = [task EXCEPT ![r] = "unrecorded"] /\ task[r] = "running"
    BY <1>7 DEF RecordFails
  <2>2. log \subseteq log'
    BY LogGrows
  <2> QED
    BY <2>1, <2>2 DEF Types, Initiated
<1>8. ASSUME NEW t \in Token, EnrollCommits(t) PROVE Initiated'
  <2>1. UNCHANGED <<task>>
    BY <1>8 DEF EnrollCommits, deploy, pull
  <2>2. log \subseteq log'
    BY LogGrows
  <2> QED
    BY <2>1, <2>2 DEF Initiated
<1>9. ASSUME NEW f \in Fetch, RecordRedeemed(f) PROVE Initiated'
  <2>1. UNCHANGED <<task>>
    BY <1>9 DEF RecordRedeemed, deploy, pull
  <2>2. log \subseteq log'
    BY LogGrows
  <2> QED
    BY <2>1, <2>2 DEF Initiated
<1>10. ASSUME Restart PROVE Initiated'
  <2>1. \A x \in Run : task'[x] = task[x] \/ task'[x] = "lost"
    BY <1>10 DEF Restart
  <2>2. log \subseteq log'
    BY LogGrows
  <2> QED
    BY <2>1, <2>2 DEF Initiated
<1>11. \/ UNCHANGED <<task, log>>
        \/ (\E r \in Run : RefuseDeploy(r) \/ Create(r) \/ Initiate(r) \/ InitiateFails(r)
            \/ RecordResults(r) \/ RecordFails(r))
        \/ (\E t \in Token : EnrollCommits(t))
        \/ (\E f \in Fetch : RecordRedeemed(f))
        \/ Restart
  BY DEF Next, deploy_one, Enter, Connect, MintCert, Upload, EnsureImage, ComposeUp,
      VerifyContainer, CloseClient, FailHost, EndCancelled, CloseRaises, RefuseProbe, OpenProbe, CloseProbe,
      RefuseEnroll, Issue, EnrollResponds, Expire, FetchImage, Redeem, ServeBundle, Stop,
      CancelStragglers, Drained, Crash, Idle, vars, deploy, pull
<1> QED
  BY <1>1, <1>2, <1>3, <1>4, <1>5, <1>6, <1>7, <1>8, <1>9, <1>10, <1>11

(* Only the background task of an initiated run uploads.                   *)
LEMMA PlacedIsKnownStep == Initiated /\ PlacedIsKnown /\ [Next]_vars => PlacedIsKnown'
<1> SUFFICES ASSUME Initiated, PlacedIsKnown, [Next]_vars PROVE PlacedIsKnown'
  OBVIOUS
<1>1. CASE UNCHANGED <<placed, log>>
  BY <1>1 DEF PlacedIsKnown
<1>2. ASSUME NEW r \in Run, Initiate(r) PROVE PlacedIsKnown'
  <2>1. UNCHANGED <<placed>>
    BY <1>2 DEF Initiate, deploy, pull
  <2>2. log \subseteq log'
    BY LogGrows
  <2> QED
    BY <2>1, <2>2 DEF PlacedIsKnown
<1>3. ASSUME NEW r \in Run, RecordResults(r) PROVE PlacedIsKnown'
  <2>1. UNCHANGED <<placed>>
    BY <1>3 DEF RecordResults, deploy, pull
  <2>2. log \subseteq log'
    BY LogGrows
  <2> QED
    BY <2>1, <2>2 DEF PlacedIsKnown
<1>4. ASSUME NEW i \in Item, Upload(i) PROVE PlacedIsKnown'
  <2>1. run_of[i] \in Run
    BY DeployConstants
  <2>2. task[run_of[i]] \in {"running", "recorded",
      "unrecorded"} /\ placed' = placed \cup {i} /\ log' = log
    BY <1>4 DEF Upload, Working
  <2> QED
    BY <2>1, <2>2 DEF Initiated, PlacedIsKnown
<1>5. ASSUME NEW t \in Token, EnrollCommits(t) PROVE PlacedIsKnown'
  <2>1. UNCHANGED <<placed>>
    BY <1>5 DEF EnrollCommits, deploy, pull
  <2>2. log \subseteq log'
    BY LogGrows
  <2> QED
    BY <2>1, <2>2 DEF PlacedIsKnown
<1>6. ASSUME NEW f \in Fetch, RecordRedeemed(f) PROVE PlacedIsKnown'
  <2>1. UNCHANGED <<placed>>
    BY <1>6 DEF RecordRedeemed, deploy, pull
  <2>2. log \subseteq log'
    BY LogGrows
  <2> QED
    BY <2>1, <2>2 DEF PlacedIsKnown
<1>7. \/ UNCHANGED <<placed, log>>
       \/ (\E r \in Run : Initiate(r) \/ RecordResults(r))
       \/ (\E i \in Item : Upload(i))
       \/ (\E t \in Token : EnrollCommits(t))
       \/ (\E f \in Fetch : RecordRedeemed(f))
  BY DEF Next, deploy_one, RefuseDeploy, Create, InitiateFails, RecordFails, Enter, Connect,
      MintCert, EnsureImage, ComposeUp, VerifyContainer, CloseClient, FailHost, EndCancelled, CloseRaises, RefuseProbe,
      OpenProbe, CloseProbe, RefuseEnroll, Issue, EnrollResponds, Expire, FetchImage,
      Redeem, ServeBundle, Stop, CancelStragglers, Drained, Crash, Restart, Idle,
      vars, deploy, pull
<1> QED
  BY <1>1, <1>2, <1>3, <1>4, <1>5, <1>6, <1>7

(* A bundle is served after its record is committed.                       *)
LEMMA FetchIsKnownStep == Types /\ FetchIsKnown /\ [Next]_vars => FetchIsKnown'
<1> SUFFICES ASSUME Types, FetchIsKnown, [Next]_vars PROVE FetchIsKnown'
  OBVIOUS
<1>1. CASE UNCHANGED <<fetch, log>>
  BY <1>1 DEF FetchIsKnown
<1>2. ASSUME NEW r \in Run, Initiate(r) PROVE FetchIsKnown'
  <2>1. UNCHANGED <<fetch>>
    BY <1>2 DEF Initiate, deploy, pull
  <2>2. log \subseteq log'
    BY LogGrows
  <2> QED
    BY <2>1, <2>2 DEF FetchIsKnown
<1>3. ASSUME NEW r \in Run, RecordResults(r) PROVE FetchIsKnown'
  <2>1. UNCHANGED <<fetch>>
    BY <1>3 DEF RecordResults, deploy, pull
  <2>2. log \subseteq log'
    BY LogGrows
  <2> QED
    BY <2>1, <2>2 DEF FetchIsKnown
<1>4. ASSUME NEW t \in Token, EnrollCommits(t) PROVE FetchIsKnown'
  <2>1. UNCHANGED <<fetch>>
    BY <1>4 DEF EnrollCommits, deploy, pull
  <2>2. log \subseteq log'
    BY LogGrows
  <2> QED
    BY <2>1, <2>2 DEF FetchIsKnown
<1>5. ASSUME NEW f \in Fetch, Redeem(f) PROVE FetchIsKnown'
  <2>1. \E out \in {"redeemed", "refused"} : fetch' = [fetch EXCEPT ![f] = out]
    BY <1>5 DEF Redeem, Packed
  <2>2. log \subseteq log'
    BY LogGrows
  <2> QED
    BY <2>1, <2>2 DEF FetchIsKnown, Types
<1>6. ASSUME NEW f \in Fetch, RecordRedeemed(f) PROVE FetchIsKnown'
  <2>1. log \subseteq log'
    BY LogGrows
  <2>2. \/ fetch' = [fetch EXCEPT ![f] = "recorded"] /\ <<"redeemed", f>> \in log'
        \/ fetch' = [fetch EXCEPT ![f] = "refused"]
    BY <1>6 DEF RecordRedeemed
  <2> QED
    BY <2>1, <2>2 DEF FetchIsKnown, Types
<1>7. ASSUME NEW f \in Fetch, ServeBundle(f) PROVE FetchIsKnown'
  <2>1. log \subseteq log'
    BY LogGrows
  <2>2. fetch[f] = "recorded" /\ fetch' = [fetch EXCEPT ![f] = "served"]
    BY <1>7 DEF ServeBundle
  <2> QED
    BY <2>1, <2>2 DEF FetchIsKnown, Types
<1>8. ASSUME Restart PROVE FetchIsKnown'
  <2>1. log \subseteq log'
    BY LogGrows
  <2>2. \A x \in Fetch : fetch'[x] = fetch[x] \/ fetch'[x] = "refused"
    BY <1>8 DEF Restart
  <2> QED
    BY <2>1, <2>2 DEF FetchIsKnown
<1>9. \/ UNCHANGED <<fetch, log>>
       \/ (\E r \in Run : Initiate(r) \/ RecordResults(r))
       \/ (\E t \in Token : EnrollCommits(t))
       \/ (\E f \in Fetch : Redeem(f) \/ RecordRedeemed(f) \/ ServeBundle(f))
       \/ Restart
  BY DEF Next, deploy_one, RefuseDeploy, Create, InitiateFails, RecordFails, Enter, Connect,
      MintCert, Upload, EnsureImage, ComposeUp, VerifyContainer, CloseClient, FailHost, EndCancelled, CloseRaises,
      RefuseProbe, OpenProbe, CloseProbe, RefuseEnroll, Issue, EnrollResponds, Expire,
      FetchImage, Stop, CancelStragglers, Drained, Crash, Idle, vars, deploy, pull
<1> QED
  BY <1>1, <1>2, <1>3, <1>4, <1>5, <1>6, <1>7, <1>8, <1>9

(* Only EnrollmentRegistry.redeem gives a fetch an identity.               *)
LEMMA OnlyRedeemMints ==
    Types /\ [Next]_vars =>
        (\A x \in Fetch : Redeemed(x)' => Redeemed(x)) \/ (\E g \in Fetch : Redeem(g))
<1> DEFINE NoneMinted ==
       (\A x \in Fetch : Redeemed(x)' => Redeemed(x)) \/ (\E g \in Fetch : Redeem(g))
<1> SUFFICES ASSUME Types, [Next]_vars
             PROVE  NoneMinted
  OBVIOUS
<1>1. CASE UNCHANGED <<fetch, log>>
  BY <1>1 DEF Redeemed
<1>2. ASSUME NEW r \in Run, Initiate(r)
      PROVE  NoneMinted
  <2>1. UNCHANGED <<fetch>>
    BY <1>2 DEF Initiate, deploy, pull
  <2>2. log' = log \cup {<<"initiated", r>>}
    BY <1>2 DEF Initiate
  <2> QED
    BY <2>1, <2>2 DEF Redeemed
<1>3. ASSUME NEW r \in Run, RecordResults(r)
      PROVE  NoneMinted
  <2>1. UNCHANGED <<fetch>>
    BY <1>3 DEF RecordResults, deploy, pull
  <2>2. log' = log \cup {Result(y) : y \in hosts(r)}
    BY <1>3 DEF RecordResults
  <2>3. \A x \in Fetch, y \in Item : <<"redeemed", x>> # Result(y)
    BY DEF Result
  <2>4. hosts(r) \subseteq Item
    BY DEF hosts
  <2> QED
    BY <2>1, <2>2, <2>3, <2>4 DEF Redeemed
<1>4. ASSUME NEW t \in Token, EnrollCommits(t)
      PROVE  NoneMinted
  <2>1. UNCHANGED <<fetch>>
    BY <1>4 DEF EnrollCommits, deploy, pull
  <2>2. log' = log \/ log' = log \cup {<<"issued", t>>}
    BY <1>4 DEF EnrollCommits
  <2> QED
    BY <2>1, <2>2 DEF Redeemed
<1>5. ASSUME NEW f \in Fetch, Redeem(f)
      PROVE  NoneMinted
  BY <1>5
<1>6. ASSUME NEW f \in Fetch, RecordRedeemed(f)
      PROVE  NoneMinted
  <2>1. fetch[f] = "redeemed"
    BY <1>6 DEF RecordRedeemed
  <2>2. \A x \in Fetch \ {f} : fetch'[x] = fetch[x]
    BY <1>6 DEF RecordRedeemed, Types
  <2>3. log' = log \/ log' = log \cup {<<"redeemed", f>>}
    BY <1>6 DEF RecordRedeemed
  <2> QED
    BY <2>1, <2>2, <2>3 DEF Redeemed
<1>7. ASSUME NEW f \in Fetch, ServeBundle(f)
      PROVE  NoneMinted
  <2>1. fetch[f] = "recorded"
    BY <1>7 DEF ServeBundle
  <2>2. \A x \in Fetch \ {f} : fetch'[x] = fetch[x]
    BY <1>7 DEF ServeBundle, Types
  <2>3. UNCHANGED <<log>>
    BY <1>7 DEF ServeBundle, deploy, pull
  <2> QED
    BY <2>1, <2>2, <2>3 DEF Redeemed
<1>8. ASSUME Restart PROVE NoneMinted
  <2>1. \A x \in Fetch : fetch'[x] = fetch[x] \/ fetch'[x] = "refused"
    BY <1>8 DEF Restart
  <2>2. UNCHANGED <<log>>
    BY <1>8 DEF Restart, deploy, pull
  <2> QED
    BY <2>1, <2>2 DEF Redeemed
<1>9. \/ UNCHANGED <<fetch, log>>
       \/ (\E r \in Run : Initiate(r) \/ RecordResults(r))
       \/ (\E t \in Token : EnrollCommits(t))
       \/ (\E f \in Fetch : Redeem(f) \/ RecordRedeemed(f) \/ ServeBundle(f))
       \/ Restart
  BY DEF Next, deploy_one, RefuseDeploy, Create, InitiateFails, RecordFails, Enter, Connect,
      MintCert, Upload, EnsureImage, ComposeUp, VerifyContainer, CloseClient, FailHost, EndCancelled, CloseRaises,
      RefuseProbe, OpenProbe, CloseProbe, RefuseEnroll, Issue, EnrollResponds, Expire,
      FetchImage, Stop, CancelStragglers, Drained, Crash, Idle, vars, deploy, pull
<1> QED
  BY <1>1, <1>2, <1>3, <1>4, <1>5, <1>6, <1>7, <1>8, <1>9

(* redeem consumes a live token for one fetch and changes no other.         *)
LEMMA RedeemMints ==
    ASSUME Types, NEW f \in Fetch, Redeem(f)
    PROVE  /\ grants' = grants \ {token_of[f]} /\ enroll' = enroll
           /\ enroll[token_of[f]] # "new"
           /\ \A x \in Fetch \ {f} : Redeemed(x)' => Redeemed(x)
           /\ Redeemed(f)' => token_of[f] \in grants \/ Redeemed(f)
<1> DEFINE t == token_of[f]
<1>1. /\ grants' = grants \ {t} /\ enroll' = enroll /\ log' = log /\ enroll[t] # "new"
  BY DEF Redeem, Held
<1>2. PICK out \in {"redeemed", "refused"} :
        /\ fetch' = [fetch EXCEPT ![f] = out] /\ (t \in grants \/ out = "refused")
  BY DEF Redeem, Packed
<1>3. /\ \A x \in Fetch \ {f} : fetch'[x] = fetch[x]
      /\ fetch'[f] = out
  BY <1>2 DEF Types
<1> QED
  BY <1>1, <1>2, <1>3 DEF Redeemed


(* A consumed token does not come back: issue takes new requests only, and a *)
(* restart empties the registry.                                           *)
LEMMA GrantsAreNew ==
    Types /\ [Next]_vars =>
        \A x \in Token : /\ x \in grants' => x \in grants \/ enroll[x] = "new"
                         /\ enroll'[x] = "new" => enroll[x] = "new"
<1> DEFINE FromNew ==
       \A x \in Token : /\ x \in grants' => x \in grants \/ enroll[x] = "new"
                        /\ enroll'[x] = "new" => enroll[x] = "new"
<1> SUFFICES ASSUME Types, [Next]_vars
             PROVE  FromNew
  OBVIOUS
<1>1. CASE UNCHANGED <<grants, enroll>>
  BY <1>1 DEF Types
<1>2. ASSUME NEW t \in Token, RefuseEnroll(t)
      PROVE  FromNew
  BY <1>2 DEF Types, RefuseEnroll
<1>3. ASSUME NEW t \in Token, Issue(t)
      PROVE  FromNew
  BY <1>3 DEF Types, Issue
<1>4. ASSUME NEW t \in Token, EnrollResponds(t)
      PROVE  FromNew
  BY <1>4 DEF Types, EnrollResponds
<1>5. ASSUME NEW t \in Token, EnrollCommits(t)
      PROVE  FromNew
  BY <1>5 DEF Types, EnrollCommits
<1>6. ASSUME NEW t \in Token, FetchImage(t)
      PROVE  FromNew
  BY <1>6 DEF Types, FetchImage
<1>7. ASSUME NEW f \in Fetch, Redeem(f)
      PROVE  FromNew
  BY <1>7 DEF Types, Redeem
<1>8. ASSUME Restart PROVE FromNew
  BY <1>8 DEF Types, Restart
<1>9. \/ UNCHANGED <<grants, enroll>>
       \/ (\E t \in Token : RefuseEnroll(t) \/ Issue(t) \/ EnrollResponds(t)
           \/ EnrollCommits(t) \/ FetchImage(t))
       \/ (\E f \in Fetch : Redeem(f))
       \/ Restart
  BY DEF Next, deploy_one, RefuseDeploy, Create, Initiate, InitiateFails, RecordResults,
      RecordFails, Enter, Connect, MintCert, Upload, EnsureImage, ComposeUp, VerifyContainer,
      CloseClient, FailHost, EndCancelled, CloseRaises, RefuseProbe, OpenProbe, CloseProbe, Expire, RecordRedeemed,
      ServeBundle, Stop, CancelStragglers, Drained, Crash, Idle, vars, deploy, pull
<1> QED
  BY <1>1, <1>2, <1>3, <1>4, <1>5, <1>6, <1>7, <1>8, <1>9

(* The token of an identity is spent for good.                              *)
LEMMA SpentStep == Types /\ Spent /\ [Next]_vars => Spent'
<1> SUFFICES ASSUME Types, Spent, [Next]_vars, NEW x \in Fetch, Redeemed(x)'
             PROVE  token_of[x] \notin grants' /\ enroll'[token_of[x]] # "new"
  BY DEF Spent
<1>1. token_of[x] \in Token
  BY DeployConstants
<1>2. CASE Redeemed(x)
  <2>1. token_of[x] \notin grants /\ enroll[token_of[x]] # "new"
    BY <1>2 DEF Spent
  <2> QED
    BY <1>1, <2>1, GrantsAreNew
<1>3. CASE ~Redeemed(x)
  <2>1. PICK f \in Fetch : Redeem(f)
    BY <1>3, OnlyRedeemMints
  <2>2. x = f
    BY <1>3, <2>1, RedeemMints
  <2> QED
    BY <2>1, <2>2, RedeemMints
<1> QED
  BY <1>2, <1>3

(* One token, one identity: of two fetches at once the second finds nothing.   *)
LEMMA OnePerTokenStep == Types /\ Spent /\ OnePerToken /\ [Next]_vars => OnePerToken'
<1> SUFFICES ASSUME Types, Spent, OnePerToken, [Next]_vars, NEW x \in Fetch, NEW y \in Fetch,
                    token_of[x] = token_of[y], Redeemed(x)', Redeemed(y)'
             PROVE  x = y
  BY DEF OnePerToken
<1>1. CASE Redeemed(x) /\ Redeemed(y)
  BY <1>1 DEF OnePerToken
<1>2. CASE ~(Redeemed(x) /\ Redeemed(y))
  <2>1. PICK f \in Fetch : Redeem(f)
    BY <1>2, OnlyRedeemMints
  <2>2. \A z \in Fetch \ {f} : Redeemed(z)' => Redeemed(z)
    BY <2>1, RedeemMints
  <2>3. Redeemed(f)' => token_of[f] \in grants \/ Redeemed(f)
    BY <2>1, RedeemMints
  <2>4. \A z \in Fetch : Redeemed(z) => token_of[z] \notin grants
    BY DEF Spent
  <2> QED
    BY <1>2, <2>2, <2>3, <2>4
<1> QED
  BY <1>1, <1>2

(* The steps, by what they do to runs, hosts and probes.                    *)
NotStarted(r) == RefuseDeploy(r) \/ Create(r) \/ InitiateFails(r)
Recorded(r) == RecordResults(r) \/ RecordFails(r)
Closing(i) == EndCancelled(i) \/ CloseRaises(i)
ProbeStep(p) == RefuseProbe(p) \/ OpenProbe(p) \/ CloseProbe(p)
Elsewhere == UNCHANGED <<core, task, phase, minted, slot, cut, client, probe>>

LEMMA Steps ==
    [Next]_vars =>
        \/ Elsewhere
        \/ \E r \in Run : NotStarted(r) \/ Initiate(r) \/ Recorded(r)
        \/ \E i \in Item : deploy_one(i) \/ Closing(i)
        \/ \E p \in Probe : ProbeStep(p)
        \/ Stop \/ CancelStragglers \/ Drained \/ Crash \/ Restart
  BY DEF Next, Elsewhere, NotStarted, Recorded, Closing, ProbeStep, RefuseEnroll, Issue,
      EnrollResponds, EnrollCommits, Expire, FetchImage, Redeem, RecordRedeemed, ServeBundle,
      Idle, vars, deploy

(* deploy_route before its task runs.                                        *)
LEMMA NotStartedStep ==
    ASSUME Types, NEW r \in Run, NotStarted(r)
    PROVE  /\ UNCHANGED <<core, phase, minted, slot, cut, client, probe>>
           /\ task[r] \in {"new", "created"} /\ task'[r] \in {"refused", "created"}
           /\ task'[r] = "created" => task[r] = "new"
           /\ \A x \in Run \ {r} : task'[x] = task[x]
  BY DEF NotStarted, RefuseDeploy, Create, InitiateFails, Types

(* Its first step as a background task.                                      *)
LEMMA InitiateStep ==
    ASSUME Types, NEW r \in Run, Initiate(r)
    PROVE  /\ UNCHANGED <<core, phase, minted, slot, cut, client, probe>>
           /\ core = "up" /\ task[r] = "created" /\ task'[r] = "running"
           /\ \A x \in Run \ {r} : task'[x] = task[x]
  BY DEF Initiate, Types

(* Its last step.                                                            *)
LEMMA RecordedStep ==
    ASSUME Types, NEW r \in Run, Recorded(r)
    PROVE  /\ UNCHANGED <<core, phase, minted, slot, cut, client, probe>>
           /\ core # "down" /\ task[r] = "running" /\ Gathered(r)
           /\ task'[r] \in {"recorded", "unrecorded"}
           /\ task'[r] = "recorded" => \A x \in Item : run_of[x] = r => Result(x) \in log'
           /\ \A x \in Run \ {r} : task'[x] = task[x]
  BY DEF Recorded, RecordResults, RecordFails, Types, hosts

(* The coroutine of a host that has not ended belongs to a run that is not    *)
(* recorded, and past its first phase it is inside the semaphore.             *)
LEMMA StillRunning ==
    ASSUME Types, Finished, InSemaphore, NEW i \in Item, Working(i), ~Ended(i)
    PROVE  /\ task[run_of[i]] = "running"
           /\ phase[i] # "pending" => i \in slot
<1>1. task[run_of[i]] \in {"running", "recorded", "unrecorded"} /\ i \notin cut
  BY DEF Working
<1> QED
  BY <1>1 DEF Finished, InSemaphore, Ended

(* A step of deploy_one touches its own host only, one that has not ended.    *)
LEMMA HostStep ==
    ASSUME Types, Finished, InSemaphore, NEW i \in Item, deploy_one(i)
    PROVE  /\ i \notin cut /\ ~Ended(i) /\ task[run_of[i]] = "running"
           /\ UNCHANGED <<core, task, cut, probe, log>>
           /\ \A x \in Item \ {i} : /\ phase'[x] = phase[x] /\ (x \in minted' <=> x \in minted)
                                    /\ (x \in slot' <=> x \in slot)
           /\ \A x \in (Item \cup Probe) \ {i} : x \in client' <=> x \in client
           /\ \/ i \in slot' /\ phase'[i] # "pending"
              \/ i \notin slot' \cup client' /\ phase'[i] \in Terminal
<1>1. Working(i)
  BY DEF deploy_one, Enter, Connect, MintCert, Upload, EnsureImage, ComposeUp, VerifyContainer,
         CloseClient, FailHost
<1>2. phase[i] \in Terminal => i \in slot
  BY DEF deploy_one, Enter, Connect, MintCert, Upload, EnsureImage, ComposeUp, VerifyContainer,
         CloseClient, FailHost, Terminal
<1>3. ~Ended(i) /\ i \notin cut
  BY <1>1, <1>2 DEF Ended, Working
<1>4. task[run_of[i]] = "running" /\ (phase[i] # "pending" => i \in slot)
  BY <1>1, <1>3, StillRunning
<1> DEFINE Touched ==
       /\ UNCHANGED <<core, task, cut, probe, log>>
       /\ \A x \in Item \ {i} : /\ phase'[x] = phase[x] /\ (x \in minted' <=> x \in minted)
                                /\ (x \in slot' <=> x \in slot)
       /\ \A x \in (Item \cup Probe) \ {i} : x \in client' <=> x \in client
       /\ \/ i \in slot' /\ phase'[i] # "pending"
          \/ i \notin slot' \cup client' /\ phase'[i] \in Terminal
<1>5. Touched
  <2>1. CASE Enter(i)
    BY <1>4, <2>1 DEF Enter, Types, Advance, Terminal
  <2>2. CASE Connect(i)
    BY <1>4, <2>2 DEF Connect, Types, Advance, Terminal
  <2>3. CASE MintCert(i)
    BY <1>4, <2>3 DEF MintCert, Types, Advance, Terminal
  <2>4. CASE Upload(i)
    BY <1>4, <2>4 DEF Upload, Types, Advance, Terminal
  <2>5. CASE EnsureImage(i)
    BY <1>4, <2>5 DEF EnsureImage, Types, Advance, Terminal
  <2>6. CASE ComposeUp(i)
    BY <1>4, <2>6 DEF ComposeUp, Types, Advance, Terminal
  <2>7. CASE VerifyContainer(i)
    BY <1>4, <2>7 DEF VerifyContainer, Types, Advance, Terminal
  <2>8. CASE CloseClient(i)
    BY <1>4, <2>8 DEF CloseClient, Types, Advance, Terminal
  <2>9. CASE FailHost(i)
    BY <1>4, <2>9 DEF FailHost, Types, Advance, Terminal
  <2> QED
    BY <2>1, <2>2, <2>3, <2>4, <2>5, <2>6, <2>7, <2>8, <2>9 DEF deploy_one
<1> QED
  BY <1>3, <1>4, <1>5

(* A cancelled host gives back what it holds, and may be taken for failed.    *)
LEMMA ClosingStep ==
    ASSUME Types, NEW i \in Item, Closing(i)
    PROVE  /\ UNCHANGED <<core, task, minted, cut, probe, log>>
           /\ i \in cut \cap slot /\ slot' = slot \ {i} /\ client' = client \ {i}
           /\ \A x \in Item \ {i} : phase'[x] = phase[x]
           /\ phase'[i] = phase[i] \/ (phase[i] \notin Terminal /\ phase'[i] = "failed")
  BY DEF Closing, EndCancelled, CloseRaises, Advance, Types

(* deploy_one runs in the background task only.                              *)
LEMMA UntouchedStep ==
    Types /\ Finished /\ InSemaphore /\ CutTogether /\ Untouched /\ [Next]_vars => Untouched'
<1> SUFFICES ASSUME Types, Finished, InSemaphore, CutTogether, Untouched, [Next]_vars
             PROVE  Untouched'
  OBVIOUS
<1> USE DeployConstants DEF Untouched
<1>1. ASSUME NEW r \in Run, NotStarted(r) PROVE Untouched'
  BY <1>1, NotStartedStep
<1>2. ASSUME NEW r \in Run, Initiate(r) PROVE Untouched'
  BY <1>2, InitiateStep
<1>3. ASSUME NEW r \in Run, Recorded(r) PROVE Untouched'
  BY <1>3, RecordedStep
<1>4. ASSUME NEW i \in Item, deploy_one(i) PROVE Untouched'
  BY <1>4, HostStep
<1>5. ASSUME NEW i \in Item, Closing(i) PROVE Untouched'
  BY <1>5, ClosingStep DEF CutTogether
<1>6. ASSUME NEW p \in Probe, ProbeStep(p) PROVE Untouched'
  BY <1>6 DEF ProbeStep, RefuseProbe, OpenProbe, CloseProbe, deploy
<1>7. CASE Restart
  <2>1. \A x \in Run : task'[x] = task[x] \/ task'[x] = "lost"
    BY <1>7 DEF Restart
  <2> QED
    BY <1>7, <2>1 DEF Restart
<1>8. CASE Elsewhere \/ Stop \/ CancelStragglers \/ Drained \/ Crash
  BY <1>8 DEF Elsewhere, Stop, CancelStragglers, Drained, Crash, deploy
<1> QED
  BY <1>1, <1>2, <1>3, <1>4, <1>5, <1>6, <1>7, <1>8, Steps

(* The phases between the first and the last run under the semaphore.         *)
LEMMA InSemaphoreStep ==
    Types /\ Untouched /\ Finished /\ InSemaphore /\ [Next]_vars => InSemaphore'
<1> SUFFICES ASSUME Types, Untouched, Finished, InSemaphore, [Next]_vars PROVE InSemaphore'
  OBVIOUS
<1> USE DeployConstants DEF InSemaphore
<1>1. ASSUME NEW r \in Run, NotStarted(r) PROVE InSemaphore'
  BY <1>1, NotStartedStep
<1>2. ASSUME NEW r \in Run, Initiate(r) PROVE InSemaphore'
  BY <1>2, InitiateStep DEF Untouched
<1>3. ASSUME NEW r \in Run, Recorded(r) PROVE InSemaphore'
  BY <1>3, RecordedStep
<1>4. ASSUME NEW i \in Item, deploy_one(i) PROVE InSemaphore'
  BY <1>4, HostStep
<1>5. ASSUME NEW i \in Item, Closing(i) PROVE InSemaphore'
  BY <1>5, ClosingStep
<1>6. ASSUME NEW p \in Probe, ProbeStep(p) PROVE InSemaphore'
  BY <1>6 DEF ProbeStep, RefuseProbe, OpenProbe, CloseProbe, deploy
<1>7. CASE Restart
  <2>1. \A x \in Run : task'[x] # "running"
    BY <1>7 DEF Restart
  <2> QED
    BY <2>1
<1>8. CASE Elsewhere \/ Stop \/ Drained \/ Crash
  BY <1>8 DEF Elsewhere, Stop, Drained, Crash, deploy
<1>9. CASE CancelStragglers
  <2>1. UNCHANGED <<task, phase, slot>> /\ cut \subseteq cut'
    BY <1>9 DEF CancelStragglers
  <2> QED
    BY <2>1
<1> QED
  BY <1>1, <1>2, <1>3, <1>4, <1>5, <1>6, <1>7, <1>8, <1>9, Steps

(* gather returned: every host of the run has ended or is cancelled.          *)
LEMMA AllGathered ==
    ASSUME CutTogether, NEW r \in Run, task[r] = "running", Gathered(r),
           NEW x \in Item, run_of[x] = r
    PROVE  Ended(x) \/ x \in cut
  BY DEF CutTogether, Gathered, hosts

(* drain cancels every host task of a run that has not ended, and nothing     *)
(* starts a host again.                                                       *)
LEMMA CutTogetherStep ==
    Types /\ Finished /\ InSemaphore /\ CutTogether /\ [Next]_vars => CutTogether'
<1> SUFFICES ASSUME Types, Finished, InSemaphore, CutTogether, [Next]_vars PROVE CutTogether'
  OBVIOUS
<1> USE DeployConstants DEF CutTogether
<1>1. ASSUME NEW r \in Run, NotStarted(r) PROVE CutTogether'
  BY <1>1, NotStartedStep DEF Ended, Types
<1>2. ASSUME NEW r \in Run, Initiate(r) PROVE CutTogether'
  BY <1>2, InitiateStep DEF Ended, Types
<1>3. ASSUME NEW r \in Run, Recorded(r) PROVE CutTogether'
  BY <1>3, RecordedStep DEF Ended, Types
<1>4. ASSUME NEW i \in Item, deploy_one(i) PROVE CutTogether'
  <2>1. \A x \in Item \ {i} : Ended(x)' <=> Ended(x)
    BY <1>4, HostStep DEF Ended
  <2> QED
    BY <1>4, <2>1, HostStep DEF Types
<1>5. ASSUME NEW i \in Item, Closing(i) PROVE CutTogether'
  <2>1. \A x \in Item : Ended(x) => Ended(x)'
    BY <1>5, ClosingStep DEF Ended
  <2> QED
    BY <1>5, <2>1, ClosingStep DEF Types
<1>6. ASSUME NEW p \in Probe, ProbeStep(p) PROVE CutTogether'
  BY <1>6 DEF ProbeStep, RefuseProbe, OpenProbe, CloseProbe, deploy, Ended
<1>7. CASE Restart
  <2>1. \A x \in Run : task'[x] # "running" /\ (task'[x] = task[x] \/ task'[x] = "lost")
    BY <1>7 DEF Restart
  <2> QED
    BY <1>7, <2>1 DEF Restart, Types
<1>8. CASE Elsewhere \/ Drained \/ Stop \/ Crash
  BY <1>8 DEF Elsewhere, Drained, Stop, Crash, deploy, Ended
<1>9. CASE CancelStragglers
  <2>1. /\ UNCHANGED <<task, phase, slot, core>> /\ core = "draining"
        /\ cut' = cut \cup {i \in Item \ cut : task[run_of[i]] = "running" /\ ~Ended(i)}
    BY <1>9 DEF CancelStragglers
  <2>2. \A x \in Item : Ended(x) => Ended(x)'
    BY <2>1 DEF Ended
  <2> QED
    BY <2>1, <2>2 DEF Types
<1> QED
  BY <1>1, <1>2, <1>3, <1>4, <1>5, <1>6, <1>7, <1>8, <1>9, Steps

(* gather returns with all of its children or with a cancelled one.           *)
LEMMA FinishedStep ==
    Types /\ InSemaphore /\ CutTogether /\ Finished /\ [Next]_vars => Finished'
<1> SUFFICES ASSUME Types, InSemaphore, CutTogether, Finished, [Next]_vars PROVE Finished'
  OBVIOUS
<1> USE DeployConstants DEF Finished
<1>1. ASSUME NEW r \in Run, NotStarted(r) PROVE Finished'
  BY <1>1, NotStartedStep DEF Ended
<1>2. ASSUME NEW r \in Run, Initiate(r) PROVE Finished'
  BY <1>2, InitiateStep DEF Ended
<1>3. ASSUME NEW r \in Run, Recorded(r) PROVE Finished'
  <2>1. \A x \in Item : run_of[x] = r => Ended(x) \/ x \in cut
    BY <1>3, RecordedStep, AllGathered
  <2> QED
    BY <1>3, <2>1, RecordedStep DEF Ended
<1>4. ASSUME NEW i \in Item, deploy_one(i) PROVE Finished'
  <2>1. \A x \in Item \ {i} : Ended(x)' <=> Ended(x)
    BY <1>4, HostStep DEF Ended
  <2> QED
    BY <1>4, <2>1, HostStep
<1>5. ASSUME NEW i \in Item, Closing(i) PROVE Finished'
  <2>1. \A x \in Item : Ended(x) => Ended(x)'
    BY <1>5, ClosingStep DEF Ended
  <2> QED
    BY <1>5, <2>1, ClosingStep
<1>6. ASSUME NEW p \in Probe, ProbeStep(p) PROVE Finished'
  BY <1>6 DEF ProbeStep, RefuseProbe, OpenProbe, CloseProbe, deploy, Ended
<1>7. CASE Restart
  <2>1. \A x \in Run : task'[x] = task[x] \/ task'[x] = "lost"
    BY <1>7 DEF Restart
  <2>2. \A x \in Item : Ended(x) => Ended(x)'
    BY <1>7 DEF Restart, Ended
  <2> QED
    BY <1>7, <2>1, <2>2 DEF Restart
<1>8. CASE Elsewhere \/ Stop \/ Drained \/ Crash
  BY <1>8 DEF Elsewhere, Stop, Drained, Crash, deploy, Ended
<1>9. CASE CancelStragglers
  <2>1. UNCHANGED <<task, phase, slot>> /\ cut \subseteq cut'
    BY <1>9 DEF CancelStragglers
  <2> QED
    BY <2>1 DEF Ended
<1> QED
  BY <1>1, <1>2, <1>3, <1>4, <1>5, <1>6, <1>7, <1>8, <1>9, Steps

(* Every way out of deploy_one and of a probe gives back what it held.        *)
LEMMA EndedHoldsNothingStep ==
    Types /\ InSemaphore /\ Finished /\ CutTogether /\ EndedHoldsNothing /\ [Next]_vars
        => EndedHoldsNothing'
<1> SUFFICES ASSUME Types, InSemaphore, Finished, CutTogether, EndedHoldsNothing, [Next]_vars
             PROVE  EndedHoldsNothing'
  OBVIOUS
<1> USE DeployConstants DEF EndedHoldsNothing
<1>1. ASSUME NEW r \in Run, NotStarted(r) PROVE EndedHoldsNothing'
  BY <1>1, NotStartedStep
<1>2. ASSUME NEW r \in Run, Initiate(r) PROVE EndedHoldsNothing'
  BY <1>2, InitiateStep
<1>3. ASSUME NEW r \in Run, Recorded(r) PROVE EndedHoldsNothing'
  <2>1. \A x \in Item : run_of[x] = r => x \notin slot \/ x \in cut
    BY <1>3, RecordedStep, AllGathered DEF Ended
  <2>2. \A x \in cut : run_of[x] = r => core = "draining"
    BY <1>3, RecordedStep DEF CutTogether, Types
  <2> QED
    BY <1>3, <2>1, <2>2, RecordedStep
<1>4. ASSUME NEW i \in Item, deploy_one(i) PROVE EndedHoldsNothing'
  BY <1>4, HostStep
<1>5. ASSUME NEW i \in Item, Closing(i) PROVE EndedHoldsNothing'
  BY <1>5, ClosingStep
<1>6. ASSUME NEW p \in Probe, ProbeStep(p) PROVE EndedHoldsNothing'
  <2>1. UNCHANGED <<core, task, slot, cut>> /\ client' \cap Item = client \cap Item
    BY <1>6 DEF ProbeStep, RefuseProbe, OpenProbe, CloseProbe, deploy
  <2>2. \A x \in Probe \ {p} : probe'[x] = probe[x] /\ (x \in client' <=> x \in client)
    BY <1>6 DEF ProbeStep, RefuseProbe, OpenProbe, CloseProbe, Types
  <2>3. p \in client' => probe'[p] = "open" \/ (p \in client /\ probe[p] = "new")
    BY <1>6 DEF ProbeStep, RefuseProbe, OpenProbe, CloseProbe, Types
  <2> QED
    BY <2>1, <2>2, <2>3
<1>7. CASE Restart
  BY <1>7 DEF Restart
<1>8. CASE Elsewhere \/ Drained \/ Crash
  BY <1>8 DEF Elsewhere, Drained, Crash
<1>9. CASE Stop
  <2>1. core = "up" /\ UNCHANGED <<task, slot, cut, client, probe>>
    BY <1>9 DEF Stop, deploy
  <2> QED
    BY <2>1
<1>10. CASE CancelStragglers
  <2>1. UNCHANGED <<core, task, slot, client, probe>> /\ cut \subseteq cut'
    BY <1>10 DEF CancelStragglers
  <2> QED
    BY <2>1
<1> QED
  BY <1>1, <1>2, <1>3, <1>4, <1>5, <1>6, <1>7, <1>8, <1>9, <1>10, Steps

(* After the records are written only a cancelled host changes, and only by   *)
(* failing while it closes.                                                   *)
LEMMA ResultIsFinalStep ==
    Types /\ InSemaphore /\ Finished /\ ResultIsFinal /\ [Next]_vars => ResultIsFinal'
<1> SUFFICES ASSUME Types, InSemaphore, Finished, ResultIsFinal, [Next]_vars
             PROVE  ResultIsFinal'
  OBVIOUS
<1> DEFINE IsFinal(x) ==
       \/ Result(x) \in log
       \/ /\ x \in cut /\ phase[x] = "failed"
          /\ \E was \in Phase \ Terminal : <<"result", x, was, x \in minted>> \in log
<1>0. \A x \in Item : task[run_of[x]] = "recorded" => IsFinal(x)
  BY DEF ResultIsFinal
<1>1. SUFFICES \A x \in Item : task'[run_of[x]] = "recorded" => IsFinal(x)'
  BY <1>1 DEF ResultIsFinal
<1>2. log \subseteq log'
  BY LogGrows
<1>3. ASSUME NEW x \in Item, phase'[x] = phase[x], x \in minted' <=> x \in minted,
             cut \subseteq cut', IsFinal(x)
      PROVE  IsFinal(x)'
  <2>1. (x \in minted') = (x \in minted)
    BY <1>3
  <2>2. Result(x)' = Result(x)
    BY <1>3, <2>1 DEF Result
  <2> QED
    BY <1>2, <1>3, <2>1, <2>2
<1> HIDE DEF IsFinal
<1> USE DeployConstants
<1>4. ASSUME NEW r \in Run, NotStarted(r)
      PROVE  \A x \in Item : task'[run_of[x]] = "recorded" => IsFinal(x)'
  BY <1>0, <1>3, <1>4, NotStartedStep
<1>5. ASSUME NEW r \in Run, Initiate(r)
      PROVE  \A x \in Item : task'[run_of[x]] = "recorded" => IsFinal(x)'
  BY <1>0, <1>3, <1>5, InitiateStep
<1>6. ASSUME NEW r \in Run, Recorded(r), NEW x \in Item, task'[run_of[x]] = "recorded"
      PROVE  IsFinal(x)'
  <2>1. CASE run_of[x] = r
    <3>1. Result(x) \in log' /\ UNCHANGED <<phase, minted>>
      BY <1>6, <2>1, RecordedStep
    <3> QED
      BY <3>1 DEF IsFinal, Result
  <2>2. CASE run_of[x] # r
    BY <1>0, <1>3, <1>6, <2>2, RecordedStep
  <2> QED
    BY <2>1, <2>2
<1>7. ASSUME NEW i \in Item, deploy_one(i), NEW x \in Item, task'[run_of[x]] = "recorded"
      PROVE  IsFinal(x)'
  BY <1>0, <1>3, <1>7, HostStep
<1>8. ASSUME NEW i \in Item, Closing(i), NEW x \in Item, task'[run_of[x]] = "recorded"
      PROVE  IsFinal(x)'
  <2>1. IsFinal(x) /\ UNCHANGED <<minted, cut, log>>
    BY <1>0, <1>8, ClosingStep
  <2>2. CASE phase'[x] = phase[x]
    BY <1>3, <2>1, <2>2
  <2>3. CASE phase'[x] # phase[x]
    <3>1. x = i /\ i \in cut /\ phase[x] \in Phase \ Terminal /\ phase'[x] = "failed"
      BY <1>8, <2>3, ClosingStep DEF Types
    <3>2. <<"result", x, phase[x], x \in minted>> \in log
      BY <2>1, <3>1 DEF IsFinal, Result, Terminal
    <3> QED
      BY <2>1, <3>1, <3>2 DEF IsFinal
  <2> QED
    BY <2>2, <2>3
<1>9. ASSUME NEW p \in Probe, ProbeStep(p)
      PROVE  \A x \in Item : task'[run_of[x]] = "recorded" => IsFinal(x)'
  <2>1. UNCHANGED <<task, phase, minted, cut>>
    BY <1>9 DEF ProbeStep, RefuseProbe, OpenProbe, CloseProbe, deploy
  <2> QED
    BY <1>0, <1>3, <2>1
<1>10. CASE Restart
  <2>1. /\ \A x \in Run : task'[x] = task[x] \/ task'[x] = "lost"
        /\ UNCHANGED <<phase, minted, cut>>
    BY <1>10 DEF Restart
  <2> QED
    BY <1>0, <1>3, <2>1
<1>11. CASE Elsewhere \/ Stop \/ CancelStragglers \/ Drained \/ Crash
  <2>1. UNCHANGED <<task, phase, minted>> /\ cut \subseteq cut'
    BY <1>11 DEF Elsewhere, Stop, CancelStragglers, Drained, Crash, deploy
  <2> QED
    BY <1>0, <1>3, <2>1
<1> QED
  BY <1>4, <1>5, <1>6, <1>7, <1>8, <1>9, <1>10, <1>11, Steps
-----------------------------------------------------------------------------
(* The core starts with empty registries and nothing under way.               *)
LEMMA InitIInv == Init => IInv
<1> SUFFICES ASSUME Init PROVE IInv
  OBVIOUS
<1>1. PICK made \in Made :
        /\ task = [r \in Run |-> IF r \in made THEN "new" ELSE "refused"]
        /\ probe = [p \in Probe |-> IF p \in made THEN "new" ELSE "ended"]
        /\ enroll = [t \in Token |-> IF t \in made THEN "new" ELSE "refused"]
        /\ fetch = [f \in Fetch |-> IF f \in made THEN "new" ELSE "refused"]
  BY DEF Init
<1>2. /\ core = "up" /\ phase = [i \in Item |-> "pending"]
      /\ minted = {} /\ placed = {} /\ slot = {} /\ client = {} /\ cut = {}
      /\ grants = {} /\ expired = {} /\ log = {}
  BY DEF Init
<1>3. Types
  BY <1>1, <1>2 DEF Types, TaskStep, Phase, EnrollStep, FetchStep
<1>4. /\ \A r \in Run : task[r] \in {"new", "refused"}
      /\ \A f \in Fetch : fetch[f] \in {"new", "refused"}
      /\ \A i \in Item : run_of[i] \in Run
  BY <1>1, DeployConstants
<1>5. Initiated /\ PlacedIsKnown /\ FetchIsKnown
  BY <1>2, <1>4 DEF Initiated, PlacedIsKnown, FetchIsKnown
<1>6. \A f \in Fetch : ~Redeemed(f)
  BY <1>2, <1>4 DEF Redeemed
<1>7. Spent /\ OnePerToken
  BY <1>6 DEF Spent, OnePerToken
<1>8. Untouched /\ InSemaphore /\ Finished /\ CutTogether
  BY <1>2, <1>4 DEF Untouched, InSemaphore, Finished, CutTogether
<1>9. EndedHoldsNothing /\ ResultIsFinal
  BY <1>2, <1>4 DEF EndedHoldsNothing, ResultIsFinal
<1> QED
  BY <1>3, <1>5, <1>7, <1>8, <1>9 DEF IInv

(* The invariant is inductive.                                                *)
LEMMA Invariance == Spec => []IInv
<1>1. IInv /\ [Next]_vars => IInv'
  BY TypesStep, InitiatedStep, PlacedIsKnownStep, FetchIsKnownStep, SpentStep, OnePerTokenStep,
     UntouchedStep, InSemaphoreStep, FinishedStep, CutTogetherStep, EndedHoldsNothingStep,
     ResultIsFinalStep DEF IInv
<1> QED
  BY InitIInv, <1>1, PTL DEF Spec

(* Every identity that left the core is known to the audit log, and one token *)
(* gave at most one: deploy_route commits before its task starts, the bundle  *)
(* route consumes the token before its first await and commits before it      *)
(* answers, for any number of hosts, tokens, fetches, failures and restarts.  *)
THEOREM IdentitiesAreKnown == Spec => []IdentityIsRecorded
<1>1. IInv => IdentityIsRecorded
  BY DEF IInv, PlacedIsKnown, FetchIsKnown, OnePerToken, Redeemed, IdentityIsRecorded
<1> QED
  BY <1>1, Invariance, PTL

(* What _deploy_and_audit wrote about a host stays true: no phase and no      *)
(* certificate of the host changes after the record, but for a host that drain *)
(* cancelled, which may fail in its close.                                    *)
THEOREM ResultsAreFinal == Spec => []ResultIsFinal
<1>1. IInv => ResultIsFinal
  BY DEF IInv
<1> QED
  BY <1>1, Invariance, PTL

(* Success, error and the end of a probe give back the slot of the semaphore  *)
(* and the SSH session; what drain cancels gives them back while it closes,   *)
(* and before a core that is up again deploys.                                *)
THEOREM NothingIsHeld == Spec => []EndedHoldsNothing
<1>1. IInv => EndedHoldsNothing
  BY DEF IInv
<1> QED
  BY <1>1, Invariance, PTL

============================================================================
