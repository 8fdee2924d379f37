----------------------- MODULE RemediationPlan_proofs -----------------------
(* Proofs about RemediationPlan, for any files, requests, principals and keys *)
(* and any number of overlapping builds and executions: idempotency keys name *)
(* one plan, the keeper of a duplicate group survives, and a comparison is    *)
(* exact about what scans left alone.                                         *)
EXTENDS RemediationPlan, FiniteSetTheorems, WellFoundedInduction, TLAPS

Step == {"new", "refused", "proposed", "drafted", "conflict", "flushed", "answered", "loaded",
         "verified", "acting", "acted", "failed", "done"}

(* Typing, as far as the argument needs it.  A draft holds the proposed moves *)
(* first and the items of the plan later.                                     *)
Types ==
    /\ pc \in [Maker \cup Runner -> Step]
    /\ saved \subseteq Maker /\ answer \in [Maker -> Maker \cup {None}]
    /\ draft = [q \in Maker |-> draft[q]] /\ plan \in [Runner -> Maker \cup {None}]
    /\ live = [x \in Runner |-> live[x]] /\ job = [x \in Runner |-> job[x]]
    /\ disk = [p \in Path |-> disk[p]] /\ group \subseteq Entry

(* A saved plan is never built again, so its items and keeper are fixed.      *)
SavedIsOver == \A q \in saved : pc[q] = "answered"

(* One open transaction holds an inserted plan, and no committed plan has its *)
(* key: the other inserts wait for it.                                        *)
FlushedAlone == \A p, q \in Maker : pc[p] = "flushed" /\ pc[q] = "flushed" => p = q
FlushedIsNew == \A q \in Maker : pc[q] = "flushed" => ~KeyTaken(q)

(* A plan has a keeper that is not among its items and moves nothing, or has  *)
(* no keeper and moves every item to another path.                            *)
WellFormed(d) ==
    \/ /\ d.keeper \in Entry /\ d.keeper \notin DOMAIN d.items
       /\ \A e \in DOMAIN d.items : d.items[e].dest = None
    \/ /\ d.keeper = None
       /\ \A e \in DOMAIN d.items : d.items[e].dest \in Path /\ d.items[e].dest # d.items[e].path

Plans ==
    \A q \in Maker : pc[q] \in {"drafted", "flushed"} \/ q \in saved => WellFormed(draft[q])

(* A runner works on the items of one saved plan.                             *)
OnSaved ==
    \A x \in Runner :
        /\ pc[x] = "new" => live[x] = {} /\ job[x] = {}
        /\ pc[x] = "loaded" => plan[x] \in saved
        /\ live[x] \cup job[x] # {} => plan[x] \in saved
        /\ plan[x] \in saved => live[x] \cup job[x] \subseteq DOMAIN items(x)

ActedIsSaved == \A a \in acted : a[1] \in saved

(* The inductive invariant.                                                   *)
IInv ==
    /\ Types /\ SavedIsOver /\ FlushedAlone /\ FlushedIsNew /\ Plans /\ OnSaved /\ ActedIsSaved
    /\ OnePlanPerKey /\ KeeperSurvives

-----------------------------------------------------------------------------
(* Every step keeps the types.                                                *)
LEMMA TypesStep == Types /\ [Next]_vars => Types'
<1> SUFFICES ASSUME Types, [Next]_vars PROVE Types'
  OBVIOUS
<1>1. CASE UNCHANGED <<pc, saved, answer, draft, plan, live, job, disk, group>>
  BY <1>1 DEF Types
<1>2. ASSUME NEW q \in Maker, RefusePlan(q) PROVE Types'
  <2>1. \E to \in {"refused"} : pc' = [pc EXCEPT ![q] = to]
    BY <1>2 DEF RefusePlan, Goto, Drafted
  <2>2. UNCHANGED <<saved, answer, draft, plan, live, job, disk, group>>
    BY <1>2 DEF RefusePlan, Goto, Drafted, files, routes, runs, plans, compare
  <2> QED
    BY <2>1, <2>2 DEF Types, Step
<1>3. ASSUME NEW q \in Maker, Replay(q) PROVE Types'
  <2>1. \E to \in {"answered"} : pc' = [pc EXCEPT ![q] = to]
    BY <1>3 DEF Replay, Goto, Drafted
  <2>2. \E z \in saved : answer' = [answer EXCEPT ![q] = z]
    BY <1>3 DEF Replay, Existing
  <2>3. UNCHANGED <<saved, draft, plan, live, job, disk, group>>
    BY <1>3 DEF Replay, Goto, Drafted, files, routes, runs, plans, compare
  <2> QED
    BY <2>1, <2>2, <2>3 DEF Types, Step
<1>4. ASSUME NEW q \in Maker, BuildPlan(q) PROVE Types'
  <2>1. \E to \in {"drafted"} : pc' = [pc EXCEPT ![q] = to]
    BY <1>4 DEF BuildPlan, Goto, Drafted
  <2>2. \E d : draft' = [draft EXCEPT ![q] = d]
    BY <1>4 DEF BuildPlan, Drafted
  <2>3. UNCHANGED <<saved, answer, plan, live, job, disk, group>>
    BY <1>4 DEF BuildPlan, Goto, Drafted, files, routes, runs, plans, compare
  <2> QED
    BY <2>1, <2>2, <2>3 DEF Types, Step
<1>5. ASSUME NEW q \in Maker, SuggestMoves(q) PROVE Types'
  <2>1. \E to \in {"proposed"} : pc' = [pc EXCEPT ![q] = to]
    BY <1>5 DEF SuggestMoves, Goto, Drafted
  <2>2. \E d : draft' = [draft EXCEPT ![q] = d]
    BY <1>5 DEF SuggestMoves, Drafted
  <2>3. UNCHANGED <<saved, answer, plan, live, job, disk, group>>
    BY <1>5 DEF SuggestMoves, Goto, Drafted, files, routes, runs, plans, compare
  <2> QED
    BY <2>1, <2>2, <2>3 DEF Types, Step
<1>6. ASSUME NEW q \in Maker, BuildMovePlan(q) PROVE Types'
  <2>1. \E to \in {"drafted"} : pc' = [pc EXCEPT ![q] = to]
    BY <1>6 DEF BuildMovePlan, Goto, Drafted
  <2>2. \E d : draft' = [draft EXCEPT ![q] = d]
    BY <1>6 DEF BuildMovePlan, Drafted
  <2>3. UNCHANGED <<saved, answer, plan, live, job, disk, group>>
    BY <1>6 DEF BuildMovePlan, Goto, Drafted, files, routes, runs, plans, compare
  <2> QED
    BY <2>1, <2>2, <2>3 DEF Types, Step
<1>7. ASSUME NEW q \in Maker, FlushPlan(q) PROVE Types'
  <2>1. \E to \in {"conflict", "flushed"} : pc' = [pc EXCEPT ![q] = to]
    BY <1>7 DEF FlushPlan, Goto, Drafted
  <2>2. UNCHANGED <<saved, answer, draft, plan, live, job, disk, group>>
    BY <1>7 DEF FlushPlan, Goto, Drafted, files, routes, runs, plans, compare
  <2> QED
    BY <2>1, <2>2 DEF Types, Step
<1>8. ASSUME NEW q \in Maker, CommitPlan(q) PROVE Types'
  <2>1. \E to \in {"answered"} : pc' = [pc EXCEPT ![q] = to]
    BY <1>8 DEF CommitPlan, Goto, Drafted
  <2>2. saved' = saved \cup {q} /\ answer' = [answer EXCEPT ![q] = q]
    BY <1>8 DEF CommitPlan
  <2>3. UNCHANGED <<draft, plan, live, job, disk, group>>
    BY <1>8 DEF CommitPlan, Goto, Drafted, files, routes, runs, plans, compare
  <2> QED
    BY <2>1, <2>2, <2>3 DEF Types, Step
<1>9. ASSUME NEW q \in Maker, CommitFails(q) PROVE Types'
  <2>1. \E to \in {"answered"} : pc' = [pc EXCEPT ![q] = to]
    BY <1>9 DEF CommitFails, Goto, Drafted
  <2>2. answer' = [answer EXCEPT ![q] = q]
    BY <1>9 DEF CommitFails
  <2>3. UNCHANGED <<saved, draft, plan, live, job, disk, group>>
    BY <1>9 DEF CommitFails, Goto, Drafted, files, routes, runs, plans, compare
  <2> QED
    BY <2>1, <2>2, <2>3 DEF Types, Step
<1>10. ASSUME NEW x \in Runner, LoadPlan(x) PROVE Types'
  <2>1. \E to \in {"loaded", "refused"} : pc' = [pc EXCEPT ![x] = to]
    BY <1>10 DEF LoadPlan, Goto, Drafted
  <2>2. plan' = plan \/ \E z \in saved : plan' = [plan EXCEPT ![x] = z]
    BY <1>10 DEF LoadPlan
  <2>3. UNCHANGED <<saved, answer, draft, live, job, disk, group>>
    BY <1>10 DEF LoadPlan, Goto, Drafted, files, routes, runs, plans, compare
  <2> QED
    BY <2>1, <2>2, <2>3 DEF Types, Step
<1>11. ASSUME NEW x \in Runner, DryRun(x) PROVE Types'
  <2>1. \E to \in {"verified", "acted"} : pc' = [pc EXCEPT ![x] = to]
    BY <1>11 DEF DryRun, Goto, Drafted
  <2>2. \E z : live' = [live EXCEPT ![x] = z]
    BY <1>11 DEF DryRun
  <2>3. UNCHANGED <<saved, answer, draft, plan, job, disk, group>>
    BY <1>11 DEF DryRun, Goto, Drafted, files, routes, runs, plans, compare
  <2> QED
    BY <2>1, <2>2, <2>3 DEF Types, Step
<1>12. ASSUME NEW x \in Runner, Execute(x) PROVE Types'
  <2>1. \E to \in {"acted", "refused", "acting"} : pc' = [pc EXCEPT ![x] = to]
    BY <1>12 DEF Execute, Goto, Drafted
  <2>2. job' = job \/ \E z : job' = [job EXCEPT ![x] = z]
    BY <1>12 DEF Execute
  <2>3. UNCHANGED <<saved, answer, draft, plan, live, disk, group>>
    BY <1>12 DEF Execute, Goto, Drafted, files, routes, runs, plans, compare
  <2> QED
    BY <2>1, <2>2, <2>3 DEF Types, Step
<1>13. ASSUME NEW x \in Runner, Act(x) PROVE Types'
  <2>1. job' = [y \in Runner |-> job'[y]]
    BY <1>13 DEF Act, Types
  <2>2. disk' = [y \in Path |-> disk'[y]]
    BY <1>13 DEF Act, Types
  <2>3. UNCHANGED <<pc, saved, answer, draft, plan, live, group>>
    BY <1>13 DEF Act, Goto, Drafted, files, routes, runs, plans, compare
  <2> QED
    BY <2>1, <2>2, <2>3 DEF Types, Step
<1>14. ASSUME NEW x \in Runner, ExecuteReturns(x) PROVE Types'
  <2>1. \E to \in {"acted"} : pc' = [pc EXCEPT ![x] = to]
    BY <1>14 DEF ExecuteReturns, Goto, Drafted
  <2>2. UNCHANGED <<saved, answer, draft, plan, live, job, disk, group>>
    BY <1>14 DEF ExecuteReturns, Goto, Drafted, files, routes, runs, plans, compare
  <2> QED
    BY <2>1, <2>2 DEF Types, Step
<1>15. ASSUME NEW x \in Runner, DispatchFails(x) PROVE Types'
  <2>1. \E to \in {"failed"} : pc' = [pc EXCEPT ![x] = to]
    BY <1>15 DEF DispatchFails, Goto, Drafted
  <2>2. UNCHANGED <<saved, answer, draft, plan, live, job, disk, group>>
    BY <1>15 DEF DispatchFails, Goto, Drafted, files, routes, runs, plans, compare
  <2> QED
    BY <2>1, <2>2 DEF Types, Step
<1>16. ASSUME NEW x \in Runner, SaveStatus(x) PROVE Types'
  <2>1. \E to \in {"done", "failed"} : pc' = [pc EXCEPT ![x] = to]
    BY <1>16 DEF SaveStatus, Goto, Drafted
  <2>2. UNCHANGED <<saved, answer, draft, plan, live, job, disk, group>>
    BY <1>16 DEF SaveStatus, Goto, Drafted, files, routes, runs, plans, compare
  <2> QED
    BY <2>1, <2>2 DEF Types, Step
<1>17. ASSUME NEW p \in Path, Write(p) PROVE Types'
  <2>1. disk' = [y \in Path |-> disk'[y]]
    BY <1>17 DEF Write, Types
  <2>2. UNCHANGED <<pc, saved, answer, draft, plan, live, job, group>>
    BY <1>17 DEF Write, Goto, Drafted, files, routes, runs, plans, compare
  <2> QED
    BY <2>1, <2>2 DEF Types, Step
<1>18. ASSUME NEW p \in Path, NEW d \in Path, Rename(p, d) PROVE Types'
  <2>1. disk' = [y \in Path |-> disk'[y]]
    BY <1>18 DEF Rename, Types
  <2>2. UNCHANGED <<pc, saved, answer, draft, plan, live, job, group>>
    BY <1>18 DEF Rename, Goto, Drafted, files, routes, runs, plans, compare
  <2> QED
    BY <2>1, <2>2 DEF Types, Step
<1>19. ASSUME Regroup PROVE Types'
  <2>1. group' \subseteq Entry
    BY <1>19 DEF Regroup
  <2>2. UNCHANGED <<pc, saved, answer, draft, plan, live, job, disk>>
    BY <1>19 DEF Regroup, Goto, Drafted, files, routes, runs, plans, compare
  <2> QED
    BY <2>1, <2>2 DEF Types, Step
<1>20. \/ UNCHANGED <<pc, saved, answer, draft, plan, live, job, disk, group>>
       \/ \E q \in Maker : RefusePlan(q) \/ Replay(q) \/ BuildPlan(q) \/ SuggestMoves(q)
           \/ BuildMovePlan(q) \/ FlushPlan(q) \/ CommitPlan(q) \/ CommitFails(q)
       \/ \E x \in Runner : LoadPlan(x) \/ DryRun(x) \/ Execute(x) \/ Act(x)
           \/ ExecuteReturns(x) \/ DispatchFails(x) \/ SaveStatus(x)
       \/ \E p \in Path : Write(p)
       \/ \E p \in Path, d \in Path : Rename(p, d)
       \/ Regroup
  BY DEF Next, Rescan, Compare, RequestQuarantine, Quiet, vars, files, routes, runs, plans,
      compare
<1> QED
  BY <1>1, <1>2, <1>3, <1>4, <1>5, <1>6, <1>7, <1>8, <1>9, <1>10, <1>11, <1>12, <1>13, <1>14,
      <1>15, <1>16, <1>17, <1>18, <1>19, <1>20

(* No request changes the items or the keeper of a saved plan.                *)
LEMMA SavedIsFrozen ==
    Types /\ SavedIsOver /\ [Next]_vars
        => (saved \subseteq saved' /\ \A z \in saved : draft'[z] = draft[z])
<1> SUFFICES ASSUME Types, SavedIsOver, [Next]_vars
             PROVE  (saved \subseteq saved' /\ \A z \in saved : draft'[z] = draft[z])
  OBVIOUS
<1>1. CASE UNCHANGED <<saved, draft>>
  BY <1>1 DEF Types
<1>2. ASSUME NEW q \in Maker, BuildPlan(q)
      PROVE  (saved \subseteq saved' /\ \A z \in saved : draft'[z] = draft[z])
  <2>1. q \notin saved
    BY <1>2 DEF BuildPlan, Ready, SavedIsOver
  <2>2. (\E d : draft' = [draft EXCEPT ![q] = d]) /\ saved' = saved
    BY <1>2 DEF BuildPlan, Drafted
  <2> QED
    BY <2>1, <2>2 DEF Types
<1>3. ASSUME NEW q \in Maker, SuggestMoves(q)
      PROVE  (saved \subseteq saved' /\ \A z \in saved : draft'[z] = draft[z])
  <2>1. q \notin saved
    BY <1>3 DEF SuggestMoves, Ready, SavedIsOver
  <2>2. (\E d : draft' = [draft EXCEPT ![q] = d]) /\ saved' = saved
    BY <1>3 DEF SuggestMoves, Drafted
  <2> QED
    BY <2>1, <2>2 DEF Types
<1>4. ASSUME NEW q \in Maker, BuildMovePlan(q)
      PROVE  (saved \subseteq saved' /\ \A z \in saved : draft'[z] = draft[z])
  <2>1. q \notin saved
    BY <1>4 DEF BuildMovePlan, Ready, SavedIsOver
  <2>2. (\E d : draft' = [draft EXCEPT ![q] = d]) /\ saved' = saved
    BY <1>4 DEF BuildMovePlan, Drafted
  <2> QED
    BY <2>1, <2>2 DEF Types
<1>5. ASSUME NEW q \in Maker, CommitPlan(q)
      PROVE  (saved \subseteq saved' /\ \A z \in saved : draft'[z] = draft[z])
  <2>1. saved \subseteq saved' /\ draft' = draft
    BY <1>5 DEF CommitPlan
  <2> QED
    BY <2>1
<1>6. \/ UNCHANGED <<saved, draft>>
      \/ \E q \in Maker : BuildPlan(q) \/ SuggestMoves(q) \/ BuildMovePlan(q) \/ CommitPlan(q)
  BY DEF Next, RefusePlan, Replay, FlushPlan, CommitFails, LoadPlan, DryRun, Execute, Act,
      ExecuteReturns, DispatchFails, SaveStatus, Write, Rename, Rescan, Compare,
      RequestQuarantine, Regroup, Quiet, vars, files, routes, runs, plans, compare
<1> QED
  BY <1>1, <1>2, <1>3, <1>4, <1>5, <1>6

(* A request that saved a plan has answered; nothing reopens it.              *)
LEMMA SavedIsOverStep == Types /\ SavedIsOver /\ [Next]_vars => SavedIsOver'
<1> SUFFICES ASSUME Types, SavedIsOver, [Next]_vars PROVE SavedIsOver'
  OBVIOUS
<1>1. CASE UNCHANGED <<pc, saved>>
  BY <1>1 DEF SavedIsOver
<1>2. ASSUME NEW q \in Maker, RefusePlan(q) PROVE SavedIsOver'
  <2>1. q \notin saved /\ saved' = saved
    BY <1>2 DEF RefusePlan, Drafted, Ready, SavedIsOver, routes
  <2>2. \E to \in {"refused"} : pc' = [pc EXCEPT ![q] = to]
    BY <1>2 DEF RefusePlan, Goto, Drafted
  <2> QED
    BY <2>1, <2>2 DEF Types, SavedIsOver
<1>3. ASSUME NEW q \in Maker, Replay(q) PROVE SavedIsOver'
  <2>1. q \notin saved /\ saved' = saved
    BY <1>3 DEF Replay, Drafted, Ready, SavedIsOver, routes
  <2>2. \E to \in {"answered"} : pc' = [pc EXCEPT ![q] = to]
    BY <1>3 DEF Replay, Goto, Drafted
  <2> QED
    BY <2>1, <2>2 DEF Types, SavedIsOver
<1>4. ASSUME NEW q \in Maker, BuildPlan(q) PROVE SavedIsOver'
  <2>1. q \notin saved /\ saved' = saved
    BY <1>4 DEF BuildPlan, Drafted, Ready, SavedIsOver, routes
  <2>2. \E to \in {"drafted"} : pc' = [pc EXCEPT ![q] = to]
    BY <1>4 DEF BuildPlan, Goto, Drafted
  <2> QED
    BY <2>1, <2>2 DEF Types, SavedIsOver
<1>5. ASSUME NEW q \in Maker, SuggestMoves(q) PROVE SavedIsOver'
  <2>1. q \notin saved /\ saved' = saved
    BY <1>5 DEF SuggestMoves, Drafted, Ready, SavedIsOver, routes
  <2>2. \E to \in {"proposed"} : pc' = [pc EXCEPT ![q] = to]
    BY <1>5 DEF SuggestMoves, Goto, Drafted
  <2> QED
    BY <2>1, <2>2 DEF Types, SavedIsOver
<1>6. ASSUME NEW q \in Maker, BuildMovePlan(q) PROVE SavedIsOver'
  <2>1. q \notin saved /\ saved' = saved
    BY <1>6 DEF BuildMovePlan, Drafted, Ready, SavedIsOver, routes
  <2>2. \E to \in {"drafted"} : pc' = [pc EXCEPT ![q] = to]
    BY <1>6 DEF BuildMovePlan, Goto, Drafted
  <2> QED
    BY <2>1, <2>2 DEF Types, SavedIsOver
<1>7. ASSUME NEW q \in Maker, FlushPlan(q) PROVE SavedIsOver'
  <2>1. q \notin saved /\ saved' = saved
    BY <1>7 DEF FlushPlan, Drafted, Ready, SavedIsOver, routes
  <2>2. \E to \in {"conflict", "flushed"} : pc' = [pc EXCEPT ![q] = to]
    BY <1>7 DEF FlushPlan, Goto, Drafted
  <2> QED
    BY <2>1, <2>2 DEF Types, SavedIsOver
<1>8. ASSUME NEW q \in Maker, CommitPlan(q) PROVE SavedIsOver'
  <2>1. pc' = [pc EXCEPT ![q] = "answered"] /\ saved' = saved \cup {q}
    BY <1>8 DEF CommitPlan, Goto
  <2> QED
    BY <2>1 DEF Types, SavedIsOver
<1>9. ASSUME NEW q \in Maker, CommitFails(q) PROVE SavedIsOver'
  <2>1. q \notin saved /\ saved' = saved
    BY <1>9 DEF CommitFails, Drafted, Ready, SavedIsOver, routes
  <2>2. \E to \in {"answered"} : pc' = [pc EXCEPT ![q] = to]
    BY <1>9 DEF CommitFails, Goto, Drafted
  <2> QED
    BY <2>1, <2>2 DEF Types, SavedIsOver
<1>10. ASSUME NEW x \in Runner, LoadPlan(x) PROVE SavedIsOver'
  <2>1. \E to \in {"loaded", "refused"} : pc' = [pc EXCEPT ![x] = to]
    BY <1>10 DEF LoadPlan, Goto, Drafted
  <2>2. \A z \in Maker : pc'[z] = pc[z]
    BY <2>1, PlanConstants DEF Types
  <2>3. UNCHANGED <<saved>>
    BY <1>10 DEF LoadPlan, files, routes, runs, plans, compare
  <2> QED
    BY <2>2, <2>3 DEF SavedIsOver, Types
<1>11. ASSUME NEW x \in Runner, DryRun(x) PROVE SavedIsOver'
  <2>1. \E to \in {"verified", "acted"} : pc' = [pc EXCEPT ![x] = to]
    BY <1>11 DEF DryRun, Goto, Drafted
  <2>2. \A z \in Maker : pc'[z] = pc[z]
    BY <2>1, PlanConstants DEF Types
  <2>3. UNCHANGED <<saved>>
    BY <1>11 DEF DryRun, files, routes, runs, plans, compare
  <2> QED
    BY <2>2, <2>3 DEF SavedIsOver, Types
<1>12. ASSUME NEW x \in Runner, Execute(x) PROVE SavedIsOver'
  <2>1. \E to \in {"acted", "refused", "acting"} : pc' = [pc EXCEPT ![x] = to]
    BY <1>12 DEF Execute, Goto, Drafted
  <2>2. \A z \in Maker : pc'[z] = pc[z]
    BY <2>1, PlanConstants DEF Types
  <2>3. UNCHANGED <<saved>>
    BY <1>12 DEF Execute, files, routes, runs, plans, compare
  <2> QED
    BY <2>2, <2>3 DEF SavedIsOver, Types
<1>13. ASSUME NEW x \in Runner, ExecuteReturns(x) PROVE SavedIsOver'
  <2>1. \E to \in {"acted"} : pc' = [pc EXCEPT ![x] = to]
    BY <1>13 DEF ExecuteReturns, Goto, Drafted
  <2>2. \A z \in Maker : pc'[z] = pc[z]
    BY <2>1, PlanConstants DEF Types
  <2>3. UNCHANGED <<saved>>
    BY <1>13 DEF ExecuteReturns, files, routes, runs, plans, compare
  <2> QED
    BY <2>2, <2>3 DEF SavedIsOver, Types
<1>14. ASSUME NEW x \in Runner, DispatchFails(x) PROVE SavedIsOver'
  <2>1. \E to \in {"failed"} : pc' = [pc EXCEPT ![x] = to]
    BY <1>14 DEF DispatchFails, Goto, Drafted
  <2>2. \A z \in Maker : pc'[z] = pc[z]
    BY <2>1, PlanConstants DEF Types
  <2>3. UNCHANGED <<saved>>
    BY <1>14 DEF DispatchFails, files, routes, runs, plans, compare
  <2> QED
    BY <2>2, <2>3 DEF SavedIsOver, Types
<1>15. ASSUME NEW x \in Runner, SaveStatus(x) PROVE SavedIsOver'
  <2>1. \E to \in {"done", "failed"} : pc' = [pc EXCEPT ![x] = to]
    BY <1>15 DEF SaveStatus, Goto, Drafted
  <2>2. \A z \in Maker : pc'[z] = pc[z]
    BY <2>1, PlanConstants DEF Types
  <2>3. UNCHANGED <<saved>>
    BY <1>15 DEF SaveStatus, files, routes, runs, plans, compare
  <2> QED
    BY <2>2, <2>3 DEF SavedIsOver, Types
<1>16. \/ UNCHANGED <<pc, saved>>
       \/ \E q \in Maker : RefusePlan(q) \/ Replay(q) \/ BuildPlan(q) \/ SuggestMoves(q)
           \/ BuildMovePlan(q) \/ FlushPlan(q) \/ CommitPlan(q) \/ CommitFails(q)
       \/ \E x \in Runner : LoadPlan(x) \/ DryRun(x) \/ Execute(x) \/ ExecuteReturns(x)
           \/ DispatchFails(x) \/ SaveStatus(x)
  BY DEF Next, Act, Write, Rename, Rescan, Compare, RequestQuarantine, Regroup, Quiet, vars,
      files, routes, runs, plans, compare
<1> QED
  BY <1>1, <1>2, <1>3, <1>4, <1>5, <1>6, <1>7, <1>8, <1>9, <1>10, <1>11, <1>12, <1>13, <1>14,
      <1>15, <1>16

(* A second INSERT waits for the open transaction.                            *)
LEMMA FlushedAloneStep == Types /\ FlushedAlone /\ [Next]_vars => FlushedAlone'
<1> SUFFICES ASSUME Types, FlushedAlone, [Next]_vars PROVE FlushedAlone'
  OBVIOUS
<1>1. CASE UNCHANGED <<pc>>
  BY <1>1 DEF FlushedAlone
<1>2. ASSUME NEW q \in Maker, RefusePlan(q) PROVE FlushedAlone'
  <2>1. \E to \in {"refused"} : pc' = [pc EXCEPT ![q] = to]
    BY <1>2 DEF RefusePlan, Goto, Drafted
  <2> QED
    BY <2>1 DEF Types, FlushedAlone
<1>3. ASSUME NEW q \in Maker, Replay(q) PROVE FlushedAlone'
  <2>1. \E to \in {"answered"} : pc' = [pc EXCEPT ![q] = to]
    BY <1>3 DEF Replay, Goto, Drafted
  <2> QED
    BY <2>1 DEF Types, FlushedAlone
<1>4. ASSUME NEW q \in Maker, BuildPlan(q) PROVE FlushedAlone'
  <2>1. \E to \in {"drafted"} : pc' = [pc EXCEPT ![q] = to]
    BY <1>4 DEF BuildPlan, Goto, Drafted
  <2> QED
    BY <2>1 DEF Types, FlushedAlone
<1>5. ASSUME NEW q \in Maker, SuggestMoves(q) PROVE FlushedAlone'
  <2>1. \E to \in {"proposed"} : pc' = [pc EXCEPT ![q] = to]
    BY <1>5 DEF SuggestMoves, Goto, Drafted
  <2> QED
    BY <2>1 DEF Types, FlushedAlone
<1>6. ASSUME NEW q \in Maker, BuildMovePlan(q) PROVE FlushedAlone'
  <2>1. \E to \in {"drafted"} : pc' = [pc EXCEPT ![q] = to]
    BY <1>6 DEF BuildMovePlan, Goto, Drafted
  <2> QED
    BY <2>1 DEF Types, FlushedAlone
<1>7. ASSUME NEW q \in Maker, FlushPlan(q) PROVE FlushedAlone'
  <2>1. \/ pc' = [pc EXCEPT ![q] = "conflict"]
        \/ pc' = [pc EXCEPT ![q] = "flushed"] /\ \A z \in Maker : pc[z] # "flushed"
    BY <1>7 DEF FlushPlan, Goto, InsertWaits
  <2> QED
    BY <2>1 DEF Types, FlushedAlone
<1>8. ASSUME NEW q \in Maker, CommitPlan(q) PROVE FlushedAlone'
  <2>1. \E to \in {"answered"} : pc' = [pc EXCEPT ![q] = to]
    BY <1>8 DEF CommitPlan, Goto, Drafted
  <2> QED
    BY <2>1 DEF Types, FlushedAlone
<1>9. ASSUME NEW q \in Maker, CommitFails(q) PROVE FlushedAlone'
  <2>1. \E to \in {"answered"} : pc' = [pc EXCEPT ![q] = to]
    BY <1>9 DEF CommitFails, Goto, Drafted
  <2> QED
    BY <2>1 DEF Types, FlushedAlone
<1>10. ASSUME NEW x \in Runner, LoadPlan(x) PROVE FlushedAlone'
  <2>1. \E to \in {"loaded", "refused"} : pc' = [pc EXCEPT ![x] = to]
    BY <1>10 DEF LoadPlan, Goto, Drafted
  <2>2. \A z \in Maker : pc'[z] = pc[z]
    BY <2>1, PlanConstants DEF Types
  <2> QED
    BY <2>2 DEF FlushedAlone
<1>11. ASSUME NEW x \in Runner, DryRun(x) PROVE FlushedAlone'
  <2>1. \E to \in {"verified", "acted"} : pc' = [pc EXCEPT ![x] = to]
    BY <1>11 DEF DryRun, Goto, Drafted
  <2>2. \A z \in Maker : pc'[z] = pc[z]
    BY <2>1, PlanConstants DEF Types
  <2> QED
    BY <2>2 DEF FlushedAlone
<1>12. ASSUME NEW x \in Runner, Execute(x) PROVE FlushedAlone'
  <2>1. \E to \in {"acted", "refused", "acting"} : pc' = [pc EXCEPT ![x] = to]
    BY <1>12 DEF Execute, Goto, Drafted
  <2>2. \A z \in Maker : pc'[z] = pc[z]
    BY <2>1, PlanConstants DEF Types
  <2> QED
    BY <2>2 DEF FlushedAlone
<1>13. ASSUME NEW x \in Runner, ExecuteReturns(x) PROVE FlushedAlone'
  <2>1. \E to \in {"acted"} : pc' = [pc EXCEPT ![x] = to]
    BY <1>13 DEF ExecuteReturns, Goto, Drafted
  <2>2. \A z \in Maker : pc'[z] = pc[z]
    BY <2>1, PlanConstants DEF Types
  <2> QED
    BY <2>2 DEF FlushedAlone
<1>14. ASSUME NEW x \in Runner, DispatchFails(x) PROVE FlushedAlone'
  <2>1. \E to \in {"failed"} : pc' = [pc EXCEPT ![x] = to]
    BY <1>14 DEF DispatchFails, Goto, Drafted
  <2>2. \A z \in Maker : pc'[z] = pc[z]
    BY <2>1, PlanConstants DEF Types
  <2> QED
    BY <2>2 DEF FlushedAlone
<1>15. ASSUME NEW x \in Runner, SaveStatus(x) PROVE FlushedAlone'
  <2>1. \E to \in {"done", "failed"} : pc' = [pc EXCEPT ![x] = to]
    BY <1>15 DEF SaveStatus, Goto, Drafted
  <2>2. \A z \in Maker : pc'[z] = pc[z]
    BY <2>1, PlanConstants DEF Types
  <2> QED
    BY <2>2 DEF FlushedAlone
<1>16. \/ UNCHANGED <<pc>>
       \/ \E q \in Maker : RefusePlan(q) \/ Replay(q) \/ BuildPlan(q) \/ SuggestMoves(q)
           \/ BuildMovePlan(q) \/ FlushPlan(q) \/ CommitPlan(q) \/ CommitFails(q)
       \/ \E x \in Runner : LoadPlan(x) \/ DryRun(x) \/ Execute(x) \/ ExecuteReturns(x)
           \/ DispatchFails(x) \/ SaveStatus(x)
  BY DEF Next, Act, Write, Rename, Rescan, Compare, RequestQuarantine, Regroup, Quiet, vars,
      files, routes, runs, plans, compare
<1> QED
  BY <1>1, <1>2, <1>3, <1>4, <1>5, <1>6, <1>7, <1>8, <1>9, <1>10, <1>11, <1>12, <1>13, <1>14,
      <1>15, <1>16

(* The UNIQUE key holds from the flush to the commit.                         *)
LEMMA FlushedIsNewStep == Types /\ FlushedAlone /\ FlushedIsNew /\ [Next]_vars => FlushedIsNew'
<1> SUFFICES ASSUME Types, FlushedAlone, FlushedIsNew, [Next]_vars PROVE FlushedIsNew'
  OBVIOUS
<1>1. CASE UNCHANGED <<pc, saved>>
  BY <1>1 DEF FlushedIsNew, KeyTaken
<1>2. ASSUME NEW q \in Maker, RefusePlan(q) PROVE FlushedIsNew'
  <2>1. \E to \in {"refused"} : pc' = [pc EXCEPT ![q] = to]
    BY <1>2 DEF RefusePlan, Goto, Drafted
  <2>2. UNCHANGED <<saved>>
    BY <1>2 DEF RefusePlan, Drafted, files, routes, runs, plans, compare
  <2> QED
    BY <2>1, <2>2 DEF Types, FlushedIsNew, KeyTaken
<1>3. ASSUME NEW q \in Maker, Replay(q) PROVE FlushedIsNew'
  <2>1. \E to \in {"answered"} : pc' = [pc EXCEPT ![q] = to]
    BY <1>3 DEF Replay, Goto, Drafted
  <2>2. UNCHANGED <<saved>>
    BY <1>3 DEF Replay, Drafted, files, routes, runs, plans, compare
  <2> QED
    BY <2>1, <2>2 DEF Types, FlushedIsNew, KeyTaken
<1>4. ASSUME NEW q \in Maker, BuildPlan(q) PROVE FlushedIsNew'
  <2>1. \E to \in {"drafted"} : pc' = [pc EXCEPT ![q] = to]
    BY <1>4 DEF BuildPlan, Goto, Drafted
  <2>2. UNCHANGED <<saved>>
    BY <1>4 DEF BuildPlan, Drafted, files, routes, runs, plans, compare
  <2> QED
    BY <2>1, <2>2 DEF Types, FlushedIsNew, KeyTaken
<1>5. ASSUME NEW q \in Maker, SuggestMoves(q) PROVE FlushedIsNew'
  <2>1. \E to \in {"proposed"} : pc' = [pc EXCEPT ![q] = to]
    BY <1>5 DEF SuggestMoves, Goto, Drafted
  <2>2. UNCHANGED <<saved>>
    BY <1>5 DEF SuggestMoves, Drafted, files, routes, runs, plans, compare
  <2> QED
    BY <2>1, <2>2 DEF Types, FlushedIsNew, KeyTaken
<1>6. ASSUME NEW q \in Maker, BuildMovePlan(q) PROVE FlushedIsNew'
  <2>1. \E to \in {"drafted"} : pc' = [pc EXCEPT ![q] = to]
    BY <1>6 DEF BuildMovePlan, Goto, Drafted
  <2>2. UNCHANGED <<saved>>
    BY <1>6 DEF BuildMovePlan, Drafted, files, routes, runs, plans, compare
  <2> QED
    BY <2>1, <2>2 DEF Types, FlushedIsNew, KeyTaken
<1>7. ASSUME NEW q \in Maker, FlushPlan(q) PROVE FlushedIsNew'
  <2>1. /\ saved' = saved
        /\ \/ pc' = [pc EXCEPT ![q] = "conflict"]
           \/ pc' = [pc EXCEPT ![q] = "flushed"] /\ ~KeyTaken(q)
    BY <1>7 DEF FlushPlan, Goto, Clash, routes
  <2> QED
    BY <2>1 DEF Types, FlushedIsNew, KeyTaken
<1>8. ASSUME NEW q \in Maker, CommitPlan(q) PROVE FlushedIsNew'
  <2>1. pc[q] = "flushed" /\ pc' = [pc EXCEPT ![q] = "answered"]
    BY <1>8 DEF CommitPlan, Goto
  <2>2. \A z \in Maker : pc'[z] # "flushed"
    BY <2>1 DEF Types, FlushedAlone
  <2> QED
    BY <2>2 DEF FlushedIsNew, KeyTaken
<1>9. ASSUME NEW q \in Maker, CommitFails(q) PROVE FlushedIsNew'
  <2>1. \E to \in {"answered"} : pc' = [pc EXCEPT ![q] = to]
    BY <1>9 DEF CommitFails, Goto, Drafted
  <2>2. UNCHANGED <<saved>>
    BY <1>9 DEF CommitFails, Drafted, files, routes, runs, plans, compare
  <2> QED
    BY <2>1, <2>2 DEF Types, FlushedIsNew, KeyTaken
<1>10. ASSUME NEW x \in Runner, LoadPlan(x) PROVE FlushedIsNew'
  <2>1. \E to \in {"loaded", "refused"} : pc' = [pc EXCEPT ![x] = to]
    BY <1>10 DEF LoadPlan, Goto, Drafted
  <2>2. \A z \in Maker : pc'[z] = pc[z]
    BY <2>1, PlanConstants DEF Types
  <2>3. UNCHANGED <<saved>>
    BY <1>10 DEF LoadPlan, files, routes, runs, plans, compare
  <2> QED
    BY <2>2, <2>3 DEF FlushedIsNew, KeyTaken
<1>11. ASSUME NEW x \in Runner, DryRun(x) PROVE FlushedIsNew'
  <2>1. \E to \in {"verified", "acted"} : pc' = [pc EXCEPT ![x] = to]
    BY <1>11 DEF DryRun, Goto, Drafted
  <2>2. \A z \in Maker : pc'[z] = pc[z]
    BY <2>1, PlanConstants DEF Types
  <2>3. UNCHANGED <<saved>>
    BY <1>11 DEF DryRun, files, routes, runs, plans, compare
  <2> QED
    BY <2>2, <2>3 DEF FlushedIsNew, KeyTaken
<1>12. ASSUME NEW x \in Runner, Execute(x) PROVE FlushedIsNew'
  <2>1. \E to \in {"acted", "refused", "acting"} : pc' = [pc EXCEPT ![x] = to]
    BY <1>12 DEF Execute, Goto, Drafted
  <2>2. \A z \in Maker : pc'[z] = pc[z]
    BY <2>1, PlanConstants DEF Types
  <2>3. UNCHANGED <<saved>>
    BY <1>12 DEF Execute, files, routes, runs, plans, compare
  <2> QED
    BY <2>2, <2>3 DEF FlushedIsNew, KeyTaken
<1>13. ASSUME NEW x \in Runner, ExecuteReturns(x) PROVE FlushedIsNew'
  <2>1. \E to \in {"acted"} : pc' = [pc EXCEPT ![x] = to]
    BY <1>13 DEF ExecuteReturns, Goto, Drafted
  <2>2. \A z \in Maker : pc'[z] = pc[z]
    BY <2>1, PlanConstants DEF Types
  <2>3. UNCHANGED <<saved>>
    BY <1>13 DEF ExecuteReturns, files, routes, runs, plans, compare
  <2> QED
    BY <2>2, <2>3 DEF FlushedIsNew, KeyTaken
<1>14. ASSUME NEW x \in Runner, DispatchFails(x) PROVE FlushedIsNew'
  <2>1. \E to \in {"failed"} : pc' = [pc EXCEPT ![x] = to]
    BY <1>14 DEF DispatchFails, Goto, Drafted
  <2>2. \A z \in Maker : pc'[z] = pc[z]
    BY <2>1, PlanConstants DEF Types
  <2>3. UNCHANGED <<saved>>
    BY <1>14 DEF DispatchFails, files, routes, runs, plans, compare
  <2> QED
    BY <2>2, <2>3 DEF FlushedIsNew, KeyTaken
<1>15. ASSUME NEW x \in Runner, SaveStatus(x) PROVE FlushedIsNew'
  <2>1. \E to \in {"done", "failed"} : pc' = [pc EXCEPT ![x] = to]
    BY <1>15 DEF SaveStatus, Goto, Drafted
  <2>2. \A z \in Maker : pc'[z] = pc[z]
    BY <2>1, PlanConstants DEF Types
  <2>3. UNCHANGED <<saved>>
    BY <1>15 DEF SaveStatus, files, routes, runs, plans, compare
  <2> QED
    BY <2>2, <2>3 DEF FlushedIsNew, KeyTaken
<1>16. \/ UNCHANGED <<pc, saved>>
       \/ \E q \in Maker : RefusePlan(q) \/ Replay(q) \/ BuildPlan(q) \/ SuggestMoves(q)
           \/ BuildMovePlan(q) \/ FlushPlan(q) \/ CommitPlan(q) \/ CommitFails(q)
       \/ \E x \in Runner : LoadPlan(x) \/ DryRun(x) \/ Execute(x) \/ ExecuteReturns(x)
           \/ DispatchFails(x) \/ SaveStatus(x)
  BY DEF Next, Act, Write, Rename, Rescan, Compare, RequestQuarantine, Regroup, Quiet, vars,
      files, routes, runs, plans, compare
<1> QED
  BY <1>1, <1>2, <1>3, <1>4, <1>5, <1>6, <1>7, <1>8, <1>9, <1>10, <1>11, <1>12, <1>13, <1>14,
      <1>15, <1>16

(* A key is committed once, and a replay finds its own plan.                  *)
LEMMA OnePlanPerKeyStep == Types /\ FlushedIsNew /\ OnePlanPerKey /\ [Next]_vars => OnePlanPerKey'
<1> SUFFICES ASSUME Types, FlushedIsNew, OnePlanPerKey, [Next]_vars PROVE OnePlanPerKey'
  OBVIOUS
<1>1. CASE UNCHANGED <<saved, answer>>
  BY <1>1 DEF OnePlanPerKey
<1>2. ASSUME NEW q \in Maker, Replay(q) PROVE OnePlanPerKey'
  <2>1. UNCHANGED <<saved>>
    BY <1>2 DEF Replay, files, routes, runs, plans, compare
  <2>2. \E z \in saved : owner[z] = owner[q] /\ answer' = [answer EXCEPT ![q] = z]
    BY <1>2 DEF Replay, Existing
  <2> QED
    BY <2>1, <2>2 DEF Types, OnePlanPerKey
<1>3. ASSUME NEW q \in Maker, CommitPlan(q) PROVE OnePlanPerKey'
  <2>1. ~KeyTaken(q)
    BY <1>3 DEF CommitPlan, FlushedIsNew
  <2>2. saved' = saved \cup {q} /\ answer' = [answer EXCEPT ![q] = q]
    BY <1>3 DEF CommitPlan
  <2> QED
    BY <2>1, <2>2 DEF Types, OnePlanPerKey, KeyTaken
<1>4. ASSUME NEW q \in Maker, CommitFails(q) PROVE OnePlanPerKey'
  <2>1. saved' = saved /\ answer' = [answer EXCEPT ![q] = q]
    BY <1>4 DEF CommitFails
  <2> QED
    BY <2>1 DEF Types, OnePlanPerKey
<1>5. \/ UNCHANGED <<saved, answer>>
      \/ \E q \in Maker : Replay(q) \/ CommitPlan(q) \/ CommitFails(q)
  BY DEF Next, RefusePlan, BuildPlan, SuggestMoves, BuildMovePlan, FlushPlan, LoadPlan,
      DryRun, Execute, Act, ExecuteReturns, DispatchFails, SaveStatus, Write, Rename, Rescan,
      Compare, RequestQuarantine, Regroup, Quiet, vars, files, routes, runs, plans,
      compare, Drafted
<1> QED
  BY <1>1, <1>2, <1>3, <1>4, <1>5

(* The keeper is taken from the group and left out of the items; every        *)
(* approved move stays below the root and changes the path.                   *)
LEMMA PlansStep == Types /\ SavedIsOver /\ Plans /\ [Next]_vars => Plans'
<1> SUFFICES ASSUME Types, SavedIsOver, Plans, [Next]_vars PROVE Plans'
  OBVIOUS
<1>1. CASE UNCHANGED <<pc, draft, saved>>
  BY <1>1 DEF Plans
<1>2. ASSUME NEW q \in Maker, RefusePlan(q) PROVE Plans'
  <2>1. \E to \in {"refused"} : pc' = [pc EXCEPT ![q] = to]
    BY <1>2 DEF RefusePlan, Goto, Drafted
  <2>2. UNCHANGED <<saved, draft>>
    BY <1>2 DEF RefusePlan, files, routes, runs, plans, compare
  <2> QED
    BY <2>1, <2>2 DEF Types, Plans
<1>3. ASSUME NEW q \in Maker, Replay(q) PROVE Plans'
  <2>1. \E to \in {"answered"} : pc' = [pc EXCEPT ![q] = to]
    BY <1>3 DEF Replay, Goto, Drafted
  <2>2. UNCHANGED <<saved, draft>>
    BY <1>3 DEF Replay, files, routes, runs, plans, compare
  <2> QED
    BY <2>1, <2>2 DEF Types, Plans
<1>4. ASSUME NEW q \in Maker, BuildPlan(q) PROVE Plans'
  <2>1. PICK keeper \in group : draft' = [draft EXCEPT ![q] = build_plan(keeper)]
    BY <1>4 DEF BuildPlan, Drafted
  <2>2. WellFormed(build_plan(keeper))
    BY DEF WellFormed, build_plan, Types
  <2>3. \E to \in {"drafted"} : pc' = [pc EXCEPT ![q] = to]
    BY <1>4 DEF BuildPlan, Goto, Drafted
  <2>4. UNCHANGED <<saved>>
    BY <1>4 DEF BuildPlan, Drafted, files, routes, runs, plans, compare
  <2> QED
    BY <2>1, <2>2, <2>3, <2>4 DEF Types, Plans
<1>5. ASSUME NEW q \in Maker, SuggestMoves(q) PROVE Plans'
  <2>1. q \notin saved /\ saved' = saved
    BY <1>5 DEF SuggestMoves, SavedIsOver
  <2>2. \E to \in {"proposed"} : pc' = [pc EXCEPT ![q] = to]
    BY <1>5 DEF SuggestMoves, Goto, Drafted
  <2>3. (\E d : draft' = [draft EXCEPT ![q] = d])
    BY <1>5 DEF SuggestMoves
  <2> QED
    BY <2>1, <2>2, <2>3 DEF Types, Plans
<1>6. ASSUME NEW q \in Maker, BuildMovePlan(q) PROVE Plans'
  <2> DEFINE moves == draft[q].items
  <2>1. draft' = [draft EXCEPT ![q] = build_move_plan(moves)] /\ MovesOK(moves)
    BY <1>6 DEF BuildMovePlan, Drafted
  <2>2. WellFormed(build_move_plan(moves))
    BY <2>1, PlanConstants DEF WellFormed, build_move_plan, MovesOK, clamp_to_root
  <2>3. \E to \in {"drafted"} : pc' = [pc EXCEPT ![q] = to]
    BY <1>6 DEF BuildMovePlan, Goto, Drafted
  <2>4. UNCHANGED <<saved>>
    BY <1>6 DEF BuildMovePlan, Drafted, files, routes, runs, plans, compare
  <2> QED
    BY <2>1, <2>2, <2>3, <2>4 DEF Types, Plans
<1>7. ASSUME NEW q \in Maker, FlushPlan(q) PROVE Plans'
  <2>1. pc[q] = "drafted" /\ draft' = draft /\ saved' = saved
    BY <1>7 DEF FlushPlan, routes
  <2>2. \E to \in {"conflict", "flushed"} : pc' = [pc EXCEPT ![q] = to]
    BY <1>7 DEF FlushPlan, Goto, Drafted
  <2> QED
    BY <2>1, <2>2 DEF Types, Plans
<1>8. ASSUME NEW q \in Maker, CommitPlan(q) PROVE Plans'
  <2>1. pc[q] = "flushed" /\ draft' = draft /\ saved' = saved \cup {q}
    BY <1>8 DEF CommitPlan
  <2>2. \E to \in {"answered"} : pc' = [pc EXCEPT ![q] = to]
    BY <1>8 DEF CommitPlan, Goto, Drafted
  <2> QED
    BY <2>1, <2>2 DEF Types, Plans
<1>9. ASSUME NEW q \in Maker, CommitFails(q) PROVE Plans'
  <2>1. \E to \in {"answered"} : pc' = [pc EXCEPT ![q] = to]
    BY <1>9 DEF CommitFails, Goto, Drafted
  <2>2. UNCHANGED <<saved, draft>>
    BY <1>9 DEF CommitFails, files, routes, runs, plans, compare
  <2> QED
    BY <2>1, <2>2 DEF Types, Plans
<1>10. ASSUME NEW x \in Runner, LoadPlan(x) PROVE Plans'
  <2>1. \E to \in {"loaded", "refused"} : pc' = [pc EXCEPT ![x] = to]
    BY <1>10 DEF LoadPlan, Goto, Drafted
  <2>2. \A z \in Maker : pc'[z] = pc[z]
    BY <2>1, PlanConstants DEF Types
  <2>3. UNCHANGED <<saved, draft>>
    BY <1>10 DEF LoadPlan, files, routes, runs, plans, compare
  <2> QED
    BY <2>2, <2>3 DEF Plans
<1>11. ASSUME NEW x \in Runner, DryRun(x) PROVE Plans'
  <2>1. \E to \in {"verified", "acted"} : pc' = [pc EXCEPT ![x] = to]
    BY <1>11 DEF DryRun, Goto, Drafted
  <2>2. \A z \in Maker : pc'[z] = pc[z]
    BY <2>1, PlanConstants DEF Types
  <2>3. UNCHANGED <<saved, draft>>
    BY <1>11 DEF DryRun, files, routes, runs, plans, compare
  <2> QED
    BY <2>2, <2>3 DEF Plans
<1>12. ASSUME NEW x \in Runner, Execute(x) PROVE Plans'
  <2>1. \E to \in {"acted", "refused", "acting"} : pc' = [pc EXCEPT ![x] = to]
    BY <1>12 DEF Execute, Goto, Drafted
  <2>2. \A z \in Maker : pc'[z] = pc[z]
    BY <2>1, PlanConstants DEF Types
  <2>3. UNCHANGED <<saved, draft>>
    BY <1>12 DEF Execute, files, routes, runs, plans, compare
  <2> QED
    BY <2>2, <2>3 DEF Plans
<1>13. ASSUME NEW x \in Runner, ExecuteReturns(x) PROVE Plans'
  <2>1. \E to \in {"acted"} : pc' = [pc EXCEPT ![x] = to]
    BY <1>13 DEF ExecuteReturns, Goto, Drafted
  <2>2. \A z \in Maker : pc'[z] = pc[z]
    BY <2>1, PlanConstants DEF Types
  <2>3. UNCHANGED <<saved, draft>>
    BY <1>13 DEF ExecuteReturns, files, routes, runs, plans, compare
  <2> QED
    BY <2>2, <2>3 DEF Plans
<1>14. ASSUME NEW x \in Runner, DispatchFails(x) PROVE Plans'
  <2>1. \E to \in {"failed"} : pc' = [pc EXCEPT ![x] = to]
    BY <1>14 DEF DispatchFails, Goto, Drafted
  <2>2. \A z \in Maker : pc'[z] = pc[z]
    BY <2>1, PlanConstants DEF Types
  <2>3. UNCHANGED <<saved, draft>>
    BY <1>14 DEF DispatchFails, files, routes, runs, plans, compare
  <2> QED
    BY <2>2, <2>3 DEF Plans
<1>15. ASSUME NEW x \in Runner, SaveStatus(x) PROVE Plans'
  <2>1. \E to \in {"done", "failed"} : pc' = [pc EXCEPT ![x] = to]
    BY <1>15 DEF SaveStatus, Goto, Drafted
  <2>2. \A z \in Maker : pc'[z] = pc[z]
    BY <2>1, PlanConstants DEF Types
  <2>3. UNCHANGED <<saved, draft>>
    BY <1>15 DEF SaveStatus, files, routes, runs, plans, compare
  <2> QED
    BY <2>2, <2>3 DEF Plans
<1>16. \/ UNCHANGED <<pc, draft, saved>>
       \/ \E q \in Maker : RefusePlan(q) \/ Replay(q) \/ BuildPlan(q) \/ SuggestMoves(q)
           \/ BuildMovePlan(q) \/ FlushPlan(q) \/ CommitPlan(q) \/ CommitFails(q)
       \/ \E x \in Runner : LoadPlan(x) \/ DryRun(x) \/ Execute(x) \/ ExecuteReturns(x)
           \/ DispatchFails(x) \/ SaveStatus(x)
  BY DEF Next, Act, Write, Rename, Rescan, Compare, RequestQuarantine, Regroup, Quiet, vars,
      files, routes, runs, plans, compare
<1> QED
  BY <1>1, <1>2, <1>3, <1>4, <1>5, <1>6, <1>7, <1>8, <1>9, <1>10, <1>11, <1>12, <1>13, <1>14,
      <1>15, <1>16

(* Only a committed plan is run, and only its items are acted on.             *)
LEMMA OnSavedStep == Types /\ SavedIsOver /\ OnSaved /\ [Next]_vars => OnSaved'
<1> SUFFICES ASSUME Types, SavedIsOver, OnSaved, [Next]_vars PROVE OnSaved'
  OBVIOUS
<1>1. CASE UNCHANGED <<pc, saved, draft, plan, live, job>>
  BY <1>1 DEF OnSaved, items
<1>2. ASSUME NEW q \in Maker, RefusePlan(q) PROVE OnSaved'
  <2>1. \E to \in {"refused"} : pc' = [pc EXCEPT ![q] = to]
    BY <1>2 DEF RefusePlan, Goto, Drafted
  <2>2. \A z \in Runner : pc'[z] = pc[z]
    BY <2>1, PlanConstants DEF Types
  <2>3. UNCHANGED <<plan, live, job>>
    BY <1>2 DEF RefusePlan, Drafted, files, routes, runs, plans, compare
  <2>4. saved \subseteq saved' /\ \A z \in saved : draft'[z] = draft[z]
    BY SavedIsFrozen
  <2>5. \A z \in Runner : plan[z] \in saved' /\ plan[z] \notin saved => live[z] \cup job[z] = {}
    BY DEF OnSaved
  <2>6. \A z \in Runner : plan[z] \in saved => items(z)' = items(z)
    BY <2>3, <2>4 DEF items
  <2> QED
    BY <2>2, <2>3, <2>4, <2>5, <2>6 DEF OnSaved
<1>3. ASSUME NEW q \in Maker, Replay(q) PROVE OnSaved'
  <2>1. \E to \in {"answered"} : pc' = [pc EXCEPT ![q] = to]
    BY <1>3 DEF Replay, Goto, Drafted
  <2>2. \A z \in Runner : pc'[z] = pc[z]
    BY <2>1, PlanConstants DEF Types
  <2>3. UNCHANGED <<plan, live, job>>
    BY <1>3 DEF Replay, Drafted, files, routes, runs, plans, compare
  <2>4. saved \subseteq saved' /\ \A z \in saved : draft'[z] = draft[z]
    BY SavedIsFrozen
  <2>5. \A z \in Runner : plan[z] \in saved' /\ plan[z] \notin saved => live[z] \cup job[z] = {}
    BY DEF OnSaved
  <2>6. \A z \in Runner : plan[z] \in saved => items(z)' = items(z)
    BY <2>3, <2>4 DEF items
  <2> QED
    BY <2>2, <2>3, <2>4, <2>5, <2>6 DEF OnSaved
<1>4. ASSUME NEW q \in Maker, BuildPlan(q) PROVE OnSaved'
  <2>1. \E to \in {"drafted"} : pc' = [pc EXCEPT ![q] = to]
    BY <1>4 DEF BuildPlan, Goto, Drafted
  <2>2. \A z \in Runner : pc'[z] = pc[z]
    BY <2>1, PlanConstants DEF Types
  <2>3. UNCHANGED <<plan, live, job>>
    BY <1>4 DEF BuildPlan, Drafted, files, routes, runs, plans, compare
  <2>4. saved \subseteq saved' /\ \A z \in saved : draft'[z] = draft[z]
    BY SavedIsFrozen
  <2>5. \A z \in Runner : plan[z] \in saved' /\ plan[z] \notin saved => live[z] \cup job[z] = {}
    BY DEF OnSaved
  <2>6. \A z \in Runner : plan[z] \in saved => items(z)' = items(z)
    BY <2>3, <2>4 DEF items
  <2> QED
    BY <2>2, <2>3, <2>4, <2>5, <2>6 DEF OnSaved
<1>5. ASSUME NEW q \in Maker, SuggestMoves(q) PROVE OnSaved'
  <2>1. \E to \in {"proposed"} : pc' = [pc EXCEPT ![q] = to]
    BY <1>5 DEF SuggestMoves, Goto, Drafted
  <2>2. \A z \in Runner : pc'[z] = pc[z]
    BY <2>1, PlanConstants DEF Types
  <2>3. UNCHANGED <<plan, live, job>>
    BY <1>5 DEF SuggestMoves, Drafted, files, routes, runs, plans, compare
  <2>4. saved \subseteq saved' /\ \A z \in saved : draft'[z] = draft[z]
    BY SavedIsFrozen
  <2>5. \A z \in Runner : plan[z] \in saved' /\ plan[z] \notin saved => live[z] \cup job[z] = {}
    BY DEF OnSaved
  <2>6. \A z \in Runner : plan[z] \in saved => items(z)' = items(z)
    BY <2>3, <2>4 DEF items
  <2> QED
    BY <2>2, <2>3, <2>4, <2>5, <2>6 DEF OnSaved
<1>6. ASSUME NEW q \in Maker, BuildMovePlan(q) PROVE OnSaved'
  <2>1. \E to \in {"drafted"} : pc' = [pc EXCEPT ![q] = to]
    BY <1>6 DEF BuildMovePlan, Goto, Drafted
  <2>2. \A z \in Runner : pc'[z] = pc[z]
    BY <2>1, PlanConstants DEF Types
  <2>3. UNCHANGED <<plan, live, job>>
    BY <1>6 DEF BuildMovePlan, Drafted, files, routes, runs, plans, compare
  <2>4. saved \subseteq saved' /\ \A z \in saved : draft'[z] = draft[z]
    BY SavedIsFrozen
  <2>5. \A z \in Runner : plan[z] \in saved' /\ plan[z] \notin saved => live[z] \cup job[z] = {}
    BY DEF OnSaved
  <2>6. \A z \in Runner : plan[z] \in saved => items(z)' = items(z)
    BY <2>3, <2>4 DEF items
  <2> QED
    BY <2>2, <2>3, <2>4, <2>5, <2>6 DEF OnSaved
<1>7. ASSUME NEW q \in Maker, FlushPlan(q) PROVE OnSaved'
  <2>1. \E to \in {"conflict", "flushed"} : pc' = [pc EXCEPT ![q] = to]
    BY <1>7 DEF FlushPlan, Goto, Drafted
  <2>2. \A z \in Runner : pc'[z] = pc[z]
    BY <2>1, PlanConstants DEF Types
  <2>3. UNCHANGED <<plan, live, job>>
    BY <1>7 DEF FlushPlan, Drafted, files, routes, runs, plans, compare
  <2>4. saved \subseteq saved' /\ \A z \in saved : draft'[z] = draft[z]
    BY SavedIsFrozen
  <2>5. \A z \in Runner : plan[z] \in saved' /\ plan[z] \notin saved => live[z] \cup job[z] = {}
    BY DEF OnSaved
  <2>6. \A z \in Runner : plan[z] \in saved => items(z)' = items(z)
    BY <2>3, <2>4 DEF items
  <2> QED
    BY <2>2, <2>3, <2>4, <2>5, <2>6 DEF OnSaved
<1>8. ASSUME NEW q \in Maker, CommitPlan(q) PROVE OnSaved'
  <2>1. \E to \in {"answered"} : pc' = [pc EXCEPT ![q] = to]
    BY <1>8 DEF CommitPlan, Goto, Drafted
  <2>2. \A z \in Runner : pc'[z] = pc[z]
    BY <2>1, PlanConstants DEF Types
  <2>3. UNCHANGED <<plan, live, job>>
    BY <1>8 DEF CommitPlan, Drafted, files, routes, runs, plans, compare
  <2>4. saved \subseteq saved' /\ \A z \in saved : draft'[z] = draft[z]
    BY SavedIsFrozen
  <2>5. \A z \in Runner : plan[z] \in saved' /\ plan[z] \notin saved => live[z] \cup job[z] = {}
    BY DEF OnSaved
  <2>6. \A z \in Runner : plan[z] \in saved => items(z)' = items(z)
    BY <2>3, <2>4 DEF items
  <2> QED
    BY <2>2, <2>3, <2>4, <2>5, <2>6 DEF OnSaved
<1>9. ASSUME NEW q \in Maker, CommitFails(q) PROVE OnSaved'
  <2>1. \E to \in {"answered"} : pc' = [pc EXCEPT ![q] = to]
    BY <1>9 DEF CommitFails, Goto, Drafted
  <2>2. \A z \in Runner : pc'[z] = pc[z]
    BY <2>1, PlanConstants DEF Types
  <2>3. UNCHANGED <<plan, live, job>>
    BY <1>9 DEF CommitFails, Drafted, files, routes, runs, plans, compare
  <2>4. saved \subseteq saved' /\ \A z \in saved : draft'[z] = draft[z]
    BY SavedIsFrozen
  <2>5. \A z \in Runner : plan[z] \in saved' /\ plan[z] \notin saved => live[z] \cup job[z] = {}
    BY DEF OnSaved
  <2>6. \A z \in Runner : plan[z] \in saved => items(z)' = items(z)
    BY <2>3, <2>4 DEF items
  <2> QED
    BY <2>2, <2>3, <2>4, <2>5, <2>6 DEF OnSaved
<1>10. ASSUME NEW x \in Runner, LoadPlan(x) PROVE OnSaved'
  <2>1. UNCHANGED <<saved, draft, live, job>>
    BY <1>10 DEF LoadPlan, files, routes, runs, plans, compare
  <2>2. live[x] = {} /\ job[x] = {}
    BY <1>10 DEF LoadPlan, OnSaved
  <2>3. \/ \E z \in saved : plan' = [plan EXCEPT ![x] = z] /\ pc' = [pc EXCEPT ![x] = "loaded"]
        \/ plan' = plan /\ pc' = [pc EXCEPT ![x] = "refused"]
    BY <1>10 DEF LoadPlan, Goto
  <2>4. \A z \in Runner \ {x} : plan'[z] = plan[z] /\ pc'[z] = pc[z]
    BY <2>3 DEF Types
  <2>5. (plan'[x] \in saved /\ pc'[x] = "loaded") \/ (plan'[x] = plan[x] /\ pc'[x] = "refused")
    BY <2>3 DEF Types
  <2> QED
    BY <2>1, <2>2, <2>4, <2>5 DEF OnSaved, items
<1>11. ASSUME NEW x \in Runner, DryRun(x) PROVE OnSaved'
  <2>1. UNCHANGED <<saved, draft, plan, job>>
    BY <1>11 DEF DryRun, files, routes, runs, plans, compare
  <2>2. plan[x] \in saved
    BY <1>11 DEF DryRun, OnSaved
  <2>3. \E to \in {"verified", "acted"} : pc' = [pc EXCEPT ![x] = to]
    BY <1>11 DEF DryRun, Goto, Drafted
  <2>4. live'[x] \subseteq DOMAIN items(x) /\ \A z \in Runner \ {x} : live'[z] = live[z]
    BY <1>11 DEF DryRun, Types
  <2>5. pc'[x] \notin {"new", "loaded"} /\ \A z \in Runner \ {x} : pc'[z] = pc[z]
    BY <2>3 DEF Types
  <2> QED
    BY <2>1, <2>2, <2>4, <2>5 DEF OnSaved, items
<1>12. ASSUME NEW x \in Runner, Execute(x) PROVE OnSaved'
  <2>1. UNCHANGED <<saved, draft, plan, live>>
    BY <1>12 DEF Execute, files, routes, runs, plans, compare
  <2>2. \E to \in {"acted", "refused", "acting"} : pc' = [pc EXCEPT ![x] = to]
    BY <1>12 DEF Execute, Goto, Drafted
  <2>3. job'[x] \in {job[x], live[x]} /\ \A z \in Runner \ {x} : job'[z] = job[z]
    BY <1>12 DEF Execute, Types
  <2>4. pc'[x] \notin {"new", "loaded"} /\ \A z \in Runner \ {x} : pc'[z] = pc[z]
    BY <2>2 DEF Types
  <2> QED
    BY <2>1, <2>3, <2>4 DEF OnSaved, items
<1>13. ASSUME NEW x \in Runner, Act(x) PROVE OnSaved'
  <2>1. UNCHANGED <<pc, saved, draft, plan, live>>
    BY <1>13 DEF Act, files, routes, runs, plans, compare
  <2>2. \A z \in Runner : job'[z] \subseteq job[z]
    BY <1>13 DEF Act, Types
  <2> QED
    BY <2>1, <2>2 DEF OnSaved, items
<1>14. ASSUME NEW x \in Runner, ExecuteReturns(x) PROVE OnSaved'
  <2>1. \E to \in {"acted"} : pc' = [pc EXCEPT ![x] = to]
    BY <1>14 DEF ExecuteReturns, Goto, Drafted
  <2>2. UNCHANGED <<saved, draft, plan, live, job>>
    BY <1>14 DEF ExecuteReturns, files, routes, runs, plans, compare
  <2> QED
    BY <2>1, <2>2 DEF Types, OnSaved, items
<1>15. ASSUME NEW x \in Runner, DispatchFails(x) PROVE OnSaved'
  <2>1. \E to \in {"failed"} : pc' = [pc EXCEPT ![x] = to]
    BY <1>15 DEF DispatchFails, Goto, Drafted
  <2>2. UNCHANGED <<saved, draft, plan, live, job>>
    BY <1>15 DEF DispatchFails, files, routes, runs, plans, compare
  <2> QED
    BY <2>1, <2>2 DEF Types, OnSaved, items
<1>16. ASSUME NEW x \in Runner, SaveStatus(x) PROVE OnSaved'
  <2>1. \E to \in {"done", "failed"} : pc' = [pc EXCEPT ![x] = to]
    BY <1>16 DEF SaveStatus, Goto, Drafted
  <2>2. UNCHANGED <<saved, draft, plan, live, job>>
    BY <1>16 DEF SaveStatus, files, routes, runs, plans, compare
  <2> QED
    BY <2>1, <2>2 DEF Types, OnSaved, items
<1>17. \/ UNCHANGED <<pc, saved, draft, plan, live, job>>
       \/ \E q \in Maker : RefusePlan(q) \/ Replay(q) \/ BuildPlan(q) \/ SuggestMoves(q)
           \/ BuildMovePlan(q) \/ FlushPlan(q) \/ CommitPlan(q) \/ CommitFails(q)
       \/ \E x \in Runner : LoadPlan(x) \/ DryRun(x) \/ Execute(x) \/ Act(x)
           \/ ExecuteReturns(x) \/ DispatchFails(x) \/ SaveStatus(x)
  BY DEF Next, Write, Rename, Rescan, Compare, RequestQuarantine, Regroup, Quiet, vars,
      files, routes, runs, plans, compare
<1> QED
  BY <1>1, <1>2, <1>3, <1>4, <1>5, <1>6, <1>7, <1>8, <1>9, <1>10, <1>11, <1>12, <1>13, <1>14,
      <1>15, <1>16, <1>17

(* Every mutation belongs to a saved plan.                                    *)
LEMMA ActedIsSavedStep == OnSaved /\ ActedIsSaved /\ [Next]_vars => ActedIsSaved'
<1> SUFFICES ASSUME OnSaved, ActedIsSaved, [Next]_vars PROVE ActedIsSaved'
  OBVIOUS
<1>1. CASE UNCHANGED <<saved, acted>>
  BY <1>1 DEF ActedIsSaved
<1>2. ASSUME NEW q \in Maker, CommitPlan(q) PROVE ActedIsSaved'
  <2>1. saved \subseteq saved' /\ acted' = acted
    BY <1>2 DEF CommitPlan
  <2> QED
    BY <2>1 DEF ActedIsSaved
<1>3. ASSUME NEW x \in Runner, Act(x) PROVE ActedIsSaved'
  <2>1. UNCHANGED <<saved>>
    BY <1>3 DEF Act, files, routes, runs, plans, compare
  <2>2. \E e \in job[x] : acted' \subseteq acted \cup {<<plan[x], e>>}
    BY <1>3 DEF Act
  <2>3. plan[x] \in saved
    BY <2>2 DEF OnSaved
  <2> QED
    BY <2>1, <2>2, <2>3 DEF ActedIsSaved
<1>4. \/ UNCHANGED <<saved, acted>>
      \/ \E q \in Maker : CommitPlan(q)
      \/ \E x \in Runner : Act(x)
  BY DEF Next, RefusePlan, Replay, BuildPlan, SuggestMoves, BuildMovePlan, FlushPlan,
      CommitFails, LoadPlan, DryRun, Execute, ExecuteReturns, DispatchFails, SaveStatus,
      Write, Rename, Rescan, Compare, RequestQuarantine, Regroup, Quiet, vars, files,
      routes, runs, plans, compare, Drafted
<1> QED
  BY <1>1, <1>2, <1>3, <1>4
-----------------------------------------------------------------------------
(* One item of a plan: the file of k stays at its path, is moved to another   *)
(* one, or was an item that a plan with another keeper deletes.               *)
LEMMA ActKeeps ==
    ASSUME Types, Plans, OnSaved, NEW x \in Runner, Act(x), NEW k \in Entry, NEW p \in Path,
           disk[p] = [ino |-> k, data |-> "A"],
           \A a \in acted' : draft[a[1]].keeper \in {k, None}
    PROVE  \E y \in Path : disk'[y] = [ino |-> k, data |-> "A"]
<1>1. PICK e \in job[x] :
        LET i == items(x)[e]
            ok == Recheck(e, i) /\ (i.dest = None \/ disk[i.dest] = NoFile)
        IN /\ disk' = IF ok THEN [y \in Path |-> IF y = i.path THEN NoFile
                                                ELSE IF y = i.dest THEN disk[i.path]
                                                ELSE disk[y]]
                      ELSE disk
           /\ acted' = IF ok THEN acted \cup {<<plan[x], e>>} ELSE acted
  BY DEF Act
<1> DEFINE i == items(x)[e]
           ok == Recheck(e, i) /\ (i.dest = None \/ disk[i.dest] = NoFile)
<1>2. CASE ~ok
  BY <1>1, <1>2
<1>3. CASE ok
  <2>1. plan[x] \in saved /\ e \in DOMAIN items(x)
    BY <1>1 DEF OnSaved
  <2>2. WellFormed(draft[plan[x]])
    BY <2>1 DEF Plans, Types
  <2>3. <<plan[x], e>> \in acted'
    BY <1>1, <1>3
  <2>4. draft[plan[x]].keeper \in {k, None}
    BY <2>3
  <2>5. disk[i.path] = [ino |-> e, data |-> i.hash]
    BY <1>3 DEF Recheck
  <2>6. disk' = [y \in Path |-> IF y = i.path THEN NoFile
                                ELSE IF y = i.dest THEN disk[i.path] ELSE disk[y]]
    BY <1>1, <1>3
  <2>7. disk[p] # NoFile /\ k # None
    BY PlanConstants DEF NoFile
  <2>8. CASE draft[plan[x]].keeper = k
    <3>1. e # k /\ i.dest = None
      BY <2>1, <2>2, <2>7, <2>8 DEF WellFormed, items
    <3>2. p # i.path /\ p # i.dest
      BY <2>5, <3>1, PlanConstants
    <3> QED
      BY <2>6, <3>2
  <2>9. CASE draft[plan[x]].keeper = None
    <3>1. i.dest \in Path /\ i.dest # i.path
      BY <2>1, <2>2, <2>9, PlanConstants DEF WellFormed, items
    <3>2. disk[i.dest] = NoFile
      BY <1>3, <3>1, PlanConstants
    <3>3. CASE p = i.path
      BY <2>6, <3>1, <3>3
    <3>4. CASE p # i.path
      BY <2>6, <2>7, <3>2, <3>4
    <3> QED
      BY <3>3, <3>4
  <2> QED
    BY <2>4, <2>8, <2>9
<1> QED
  BY <1>2, <1>3

(* The keeper survives every step: plans spare it, moves carry it along, and  *)
(* what other users do to it is in touched.                                   *)
LEMMA KeeperSurvivesStep ==
    Types /\ SavedIsOver /\ Plans /\ OnSaved /\ ActedIsSaved /\ KeeperSurvives /\ [Next]_vars
        => KeeperSurvives'
<1> SUFFICES ASSUME Types, SavedIsOver, Plans, OnSaved, ActedIsSaved, KeeperSurvives,
                    [Next]_vars, NEW k \in Entry, k \notin touched',
                    \A a \in acted' : draft'[a[1]].keeper \in {k, None}
             PROVE  \E y \in Path : disk'[y] = [ino |-> k, data |-> "A"]
  BY DEF KeeperSurvives
<1>1. touched \subseteq touched' /\ acted \subseteq acted'
  <2>1. \/ UNCHANGED <<touched, acted>>
        \/ \E x \in Runner : Act(x)
        \/ \E p \in Path : Write(p)
    BY DEF Next, RefusePlan, Replay, BuildPlan, SuggestMoves, BuildMovePlan, FlushPlan,
           CommitPlan, CommitFails, LoadPlan, DryRun, Execute, ExecuteReturns, DispatchFails,
           SaveStatus, Rename, Rescan, RequestQuarantine, Regroup, Quiet, Drafted, vars, files,
           routes, runs, plans
  <2>2. ASSUME NEW x \in Runner, Act(x) PROVE touched \subseteq touched' /\ acted \subseteq acted'
    BY <2>2 DEF Act
  <2>3. ASSUME NEW p \in Path, Write(p) PROVE touched \subseteq touched' /\ acted \subseteq acted'
    BY <2>3 DEF Write
  <2> QED
    BY <2>1, <2>2, <2>3
<1>2. \A a \in acted : draft'[a[1]] = draft[a[1]]
  BY SavedIsFrozen DEF ActedIsSaved
<1>3. PICK p \in Path : disk[p] = [ino |-> k, data |-> "A"]
  BY <1>1, <1>2 DEF KeeperSurvives
<1>4. disk[p] # NoFile /\ disk[p].ino = k
  BY <1>3, PlanConstants DEF NoFile
<1>5. CASE UNCHANGED disk
  BY <1>3, <1>5
<1>6. ASSUME NEW x \in Runner, Act(x) PROVE \E y \in Path : disk'[y] = [ino |-> k, data |-> "A"]
  <2>1. UNCHANGED draft
    BY <1>6 DEF Act, routes
  <2> QED
    BY <1>3, <1>6, <2>1, ActKeeps
<1>7. ASSUME NEW q \in Path, Write(q) PROVE \E y \in Path : disk'[y] = [ino |-> k, data |-> "A"]
  <2>1. \/ disk' = [disk EXCEPT ![q] = NoFile]
        \/ \E c \in {"B", "C"} : disk' = [disk EXCEPT ![q].data = c]
        \/ \E c \in Content : disk' = [disk EXCEPT ![q] = [ino |-> Fresh, data |-> c]]
    BY <1>7 DEF Write
  <2>2. \A y \in Path \ {q} : disk'[y] = disk[y]
    BY <2>1 DEF Types
  <2>3. disk[q] # NoFile => disk[q].ino \in touched'
    BY <1>7 DEF Write
  <2>4. p # q
    BY <1>4, <2>3
  <2> QED
    BY <1>3, <2>2, <2>4
<1>8. ASSUME NEW q \in Path, NEW d \in Path, Rename(q, d)
      PROVE  \E y \in Path : disk'[y] = [ino |-> k, data |-> "A"]
  <2>1. disk' = [disk EXCEPT ![d] = disk[q], ![q] = NoFile] /\ disk[q] # NoFile
            /\ disk[d] = NoFile
    BY <1>8 DEF Rename
  <2>2. q # d /\ p # d
    BY <1>4, <2>1
  <2>3. disk'[d] = disk[q] /\ \A y \in Path \ {d, q} : disk'[y] = disk[y]
    BY <2>1, <2>2 DEF Types
  <2> QED
    BY <1>3, <2>2, <2>3
<1>9. \/ UNCHANGED disk
      \/ \E x \in Runner : Act(x)
      \/ \E q \in Path : Write(q)
      \/ \E q, d \in Path : Rename(q, d)
  BY DEF Next, RefusePlan, Replay, BuildPlan, SuggestMoves, BuildMovePlan, FlushPlan,
         CommitPlan, CommitFails, LoadPlan, DryRun, Execute, ExecuteReturns, DispatchFails,
         SaveStatus, Rescan, RequestQuarantine, Regroup, Quiet, Drafted, vars, files, routes,
         runs, plans
<1> QED
  BY <1>5, <1>6, <1>7, <1>8, <1>9

(* At first every file is at its own path and no plan exists.                 *)
LEMMA InitIInv == Init => IInv
<1> SUFFICES ASSUME Init PROVE IInv
  OBVIOUS
<1>1. /\ saved = {} /\ acted = {} /\ group = Entry
      /\ answer = [q \in Maker |-> None] /\ draft = [q \in Maker |-> NoPlan]
      /\ plan = [x \in Runner |-> None]
      /\ live = [x \in Runner |-> {}] /\ job = [x \in Runner |-> {}]
  BY DEF Init
<1>2. PICK made \in Made :
        pc = [q \in Maker \cup Runner |-> IF q \in made.requests THEN "new" ELSE "refused"]
  BY DEF Init
<1>3. disk = [p \in Path |-> IF \E e \in Entry : home[e] = p
                             THEN [ino |-> CHOOSE e \in Entry : home[e] = p, data |-> "A"]
                             ELSE NoFile]
  BY DEF Init
<1>4. Types
  BY <1>1, <1>2, <1>3 DEF Types, Step
<1>5. \A q \in Maker \cup Runner : pc[q] \in {"new", "refused"}
  BY <1>2
<1>6. SavedIsOver /\ FlushedAlone /\ FlushedIsNew /\ Plans /\ ActedIsSaved
  BY <1>1, <1>5 DEF SavedIsOver, FlushedAlone, FlushedIsNew, Plans, ActedIsSaved
<1>7. OnSaved
  BY <1>1, <1>5 DEF OnSaved
<1>8. OnePlanPerKey
  BY <1>1 DEF OnePlanPerKey
<1>9. ASSUME NEW k \in Entry PROVE disk[home[k]] = [ino |-> k, data |-> "A"]
  <2>1. home[k] \in Path /\ \A e \in Entry : home[e] = home[k] => e = k
    BY PlanConstants
  <2>2. (CHOOSE e \in Entry : home[e] = home[k]) = k
    BY <2>1
  <2> QED
    BY <1>3, <2>1, <2>2
<1>10. KeeperSurvives
  BY <1>9, PlanConstants DEF KeeperSurvives
<1> QED
  BY <1>4, <1>6, <1>7, <1>8, <1>10 DEF IInv

(* The invariant is inductive.                                                *)
LEMMA Invariance == Spec => []IInv
<1>1. IInv /\ [Next]_vars => IInv'
  BY TypesStep, SavedIsOverStep, FlushedAloneStep, FlushedIsNewStep, PlansStep, OnSavedStep,
     ActedIsSavedStep, OnePlanPerKeyStep, KeeperSurvivesStep DEF IInv
<1> QED
  BY InitIInv, <1>1, PTL DEF Spec

(* Building is idempotent: for any number of overlapping requests with one    *)
(* idempotency key, failed commits included, at most one plan is committed    *)
(* for it, and a replay answers with a committed plan of the same principal.  *)
THEOREM KeysNameOnePlan == Spec => []OnePlanPerKey
<1>1. IInv => OnePlanPerKey
  BY DEF IInv
<1> QED
  BY <1>1, Invariance, PTL

(* However many plans of one keeper are executed, at once or again, with      *)
(* stale catalogue rows and moves among them, the keeper's file exists with   *)
(* its content unless somebody else edited or removed it.                     *)
THEOREM KeepersSurvive == Spec => []KeeperSurvives
<1>1. IInv => KeeperSurvives
  BY DEF IInv
<1> QED
  BY <1>1, Invariance, PTL

-----------------------------------------------------------------------------
(* Comparisons.                                                               *)

(* The items of S about one relative path.                                    *)
About(S, r) == {i \in S : i.rel = r}

Relative == {rel[p] : p \in Path}
Starting == {"new", "small", "large", "matched"}
Listing == {"flagged", "list_comparison", "list_definitive", "compared"}
Differing == {"diverged", "size_match_unhashed"}

(* Typing, as far as the comparisons need it.                                 *)
RowTypes ==
    /\ cat \in [Entry -> [path : Path, hash : Content \cup {None}, size : Nat,
                        present : BOOLEAN]]
    /\ step = [c \in Reader |-> step[c]] /\ found = [c \in Reader |-> found[c]]
    /\ listed = [c \in Reader |-> listed[c]] /\ changed = [c \in Reader |-> changed[c]]

(* Between its statements a comparison has counted, of the paths that scans   *)
(* left alone, what those statements would count now.                         *)
Counted(c) ==
    /\ step[c] \in Starting => found[c] = {}
    /\ \A r \in Relative \ changed[c] :
          /\ step[c] = "on_comparison" => About(found[c], r) = About(Matched, r)
          /\ step[c] = "on_definitive" =>
                About(found[c], r) = About(Matched, r) \cup About(MissingOnComparison, r)
          /\ step[c] \in Listing =>
                About(found[c], r) = About(Matched, r) \cup About(MissingOnComparison, r)
                                     \cup About(MissingOnDefinitive, r)

(* The list never exceeds its limit, and its three samples are of different   *)
(* classes.                                                                   *)
ListInLimit(c) ==
    /\ IsFiniteSet(listed[c]) /\ Cardinality(listed[c]) <= MAX_ITEMS
    /\ step[c] \in Starting \cup {"on_comparison", "on_definitive", "flagged"} => listed[c] = {}
    /\ step[c] = "list_comparison" => \A i \in listed[c] : i.class \in Differing
    /\ step[c] = "list_definitive" =>
          \A i \in listed[c] : i.class \in Differing \cup {"missing_on_comparison"}

(* Below the limit nothing that a sample was to list is missing, of the paths *)
(* that scans left alone.                                                     *)
ListComplete(c) ==
    ~truncated(c) => \A r \in Relative \ changed[c] :
        /\ step[c] \in {"list_comparison", "list_definitive", "compared"} =>
              About(Flagged, r) \subseteq listed[c]
        /\ step[c] \in {"list_definitive", "compared"} =>
              About(MissingOnComparison, r) \subseteq listed[c]
        /\ step[c] = "compared" => About(MissingOnDefinitive, r) \subseteq listed[c]

ComparedSoFar == \A c \in Reader : Counted(c) /\ ListInLimit(c) /\ ListComplete(c)

CompareInv == RowTypes /\ ComparedSoFar

-----------------------------------------------------------------------------

(* A set of naturals has a least element.                                     *)
LEMMA LeastOf ==
    ASSUME NEW T, T \subseteq Nat, T # {}
    PROVE  \E x \in T : \A y \in T : x <= y
<1>1. PICK x \in T : \A y \in T : ~ (<<y, x>> \in OpToRel(<, Nat))
  BY WFMin, NatLessThanWellFounded, Zenon
<1>2. \A y \in T : ~(y < x)
  BY <1>1 DEF OpToRel
<1> QED
  BY <1>2

(* ORDER BY relpath LIMIT n is defined and returns n rows, or all of them.    *)
(* The induction over n is written as a least counterexample.                 *)
LEMMA FirstTakes ==
    ASSUME NEW R, IsFiniteSet(R), \A i \in R : i.rel \in Nat, NEW n \in Nat
    PROVE  /\ First(n, R) \subseteq R
           /\ Cardinality(First(n, R)) = IF Cardinality(R) < n THEN Cardinality(R) ELSE n
<1> DEFINE Cut(f, m) == /\ Cardinality(f) = m
                        /\ \A i \in f, j \in R \ f : i.rel <= j.rel
           T == {m \in Nat : m <= Cardinality(R) /\ ~ \E f \in SUBSET R : Cut(f, m)}
<1>0. Cardinality(R) \in Nat
  BY FS_CardinalityType
<1>1. T = {}
  <2> SUFFICES ASSUME T # {} PROVE FALSE
    OBVIOUS
  <2>1. PICK m \in T : \A k \in T : m <= k
    BY LeastOf
  <2>2. m # 0
    <3>1. Cardinality({}) = 0 /\ \A i \in {}, j \in R \ {} : i.rel <= j.rel
      BY FS_EmptySet
    <3> QED
      BY <3>1, <2>1
  <2>3. m \in Nat /\ m - 1 \in Nat /\ m - 1 < m /\ m <= Cardinality(R)
    BY <2>1, <2>2
  <2>4. m - 1 \notin T
    BY <2>1, <2>3
  <2>5. PICK f \in SUBSET R : Cut(f, m - 1)
    BY <2>3, <2>4, <1>0
  <2>6. IsFiniteSet(f) /\ R \ f # {}
    <3>1. IsFiniteSet(f)
      BY FS_Subset
    <3>2. f # R
      BY <2>5, <2>3, <1>0
    <3> QED
      BY <3>1, <3>2
  <2>7. PICK j \in R \ f : \A k \in R \ f : j.rel <= k.rel
    <3> DEFINE N == {k.rel : k \in R \ f}
    <3>1. N \subseteq Nat /\ N # {}
      BY <2>6
    <3>2. PICK x \in N : \A y \in N : x <= y
      BY <3>1, LeastOf
    <3> QED
      BY <3>2
  <2>8. Cardinality(f \cup {j}) = m
    <3>1. Cardinality(f \cup {j}) = Cardinality(f) + 1
      BY <2>6, <2>7, FS_AddElement
    <3>2. Cardinality(f) = m - 1
      BY <2>5
    <3> QED
      BY <3>1, <3>2, <2>3
  <2>9. \A i \in f \cup {j}, k \in R \ (f \cup {j}) : i.rel <= k.rel
    BY <2>5, <2>7
  <2> QED
    BY <2>1, <2>8, <2>9, <2>7
<1> DEFINE m == IF Cardinality(R) < n THEN Cardinality(R) ELSE n
<1>2. m \in Nat /\ m <= Cardinality(R)
  BY <1>0
<1>3. \E f \in SUBSET R : Cut(f, m)
  BY <1>1, <1>2
<1>4. First(n, R) = CHOOSE f \in SUBSET R : Cut(f, m)
  BY DEF First
<1> HIDE DEF Cut, m
<1>5. First(n, R) \in SUBSET R /\ Cut(First(n, R), m)
  BY <1>3, <1>4
<1> QED
  BY <1>5 DEF Cut, m

(* One sample: the list stays within its limit, and unless it reaches it all  *)
(* the rows are on it (_sample_items).                                        *)
LEMMA SampleTakes ==
    ASSUME NEW L, IsFiniteSet(L), Cardinality(L) <= MAX_ITEMS,
           NEW R, IsFiniteSet(R), \A i \in R : i.rel \in Nat, L \cap R = {},
           NEW N, N = L \cup First(MAX_ITEMS - Cardinality(L), R)
    PROVE  /\ IsFiniteSet(N) /\ Cardinality(N) <= MAX_ITEMS
           /\ N \subseteq L \cup R
           /\ Cardinality(N) >= MAX_ITEMS \/ R \subseteq N
           /\ Cardinality(N) < MAX_ITEMS => Cardinality(L) < MAX_ITEMS
<1> DEFINE n == MAX_ITEMS - Cardinality(L)
           F == First(n, R)
<1>1. /\ MAX_ITEMS \in Nat /\ Cardinality(L) \in Nat /\ Cardinality(R) \in Nat
      /\ n \in Nat
  BY FS_CardinalityType, ReconcileConstants
<1>2. F \subseteq R /\ Cardinality(F) = IF Cardinality(R) < n THEN Cardinality(R) ELSE n
  BY <1>1, FirstTakes
<1> HIDE DEF F
<1>3. IsFiniteSet(F) /\ L \cap F = {} /\ (Cardinality(R) = Cardinality(F) => F = R)
  <2>1. F \in SUBSET R
    BY <1>2
  <2>2. IsFiniteSet(F) /\ (Cardinality(R) = Cardinality(F) => R = F)
    BY <2>1, FS_Subset
  <2> QED
    BY <1>2, <2>2
<1>4. N = L \cup F
  BY DEF F
<1>5. IsFiniteSet(N) /\ Cardinality(N) = Cardinality(L) + Cardinality(F)
  <2>1. Cardinality(L \cap F) = 0
    BY <1>3, FS_EmptySet
  <2>2. /\ IsFiniteSet(L \cup F)
        /\ Cardinality(L \cup F) = Cardinality(L) + Cardinality(F) - Cardinality(L \cap F)
    BY <1>3, FS_Union
  <2>3. Cardinality(F) \in Nat
    BY <1>3, FS_CardinalityType
  <2>4. Cardinality(L) + Cardinality(F) - 0 = Cardinality(L) + Cardinality(F)
    BY <1>1, <2>3
  <2> QED
    BY <1>4, <2>1, <2>2, <2>4
<1>6. Cardinality(R) < n \/ Cardinality(N) >= MAX_ITEMS
  BY <1>1, <1>2, <1>5
<1> QED
  BY <1>1, <1>2, <1>3, <1>4, <1>5, <1>6

(* The items about one relative path come from the rows with that path.       *)
MatchedOf(d, k, r) ==
    {[rel |-> r, class |-> classify(p[1], p[2]), rows |-> {p[1], p[2]}] : p \in d \X k}
MissingOf(d, k, class, r) ==
    {[rel |-> r, class |-> class, rows |-> {e}] : e \in {x \in d : k = {}}}

ItemsAreOfRows ==
    \A r : /\ About(Matched, r) = MatchedOf(Rows("definitive", r), Rows("comparison", r), r)
           /\ \A s, o, class :
                 About(Missing(s, o, class), r) = MissingOf(Rows(s, r), Rows(o, r), class, r)

(* It holds in every state, so also after every step.                         *)
LEMMA ItemsOfRows == ItemsAreOfRows
<1> SUFFICES ASSUME NEW r
             PROVE  /\ About(Matched, r)
                         = MatchedOf(Rows("definitive", r), Rows("comparison", r), r)
                    /\ \A s, o, class :
                          About(Missing(s, o, class), r)
                          = MissingOf(Rows(s, r), Rows(o, r), class, r)
  BY DEF ItemsAreOfRows
<1> DEFINE D == Rows("definitive", r)
           K == Rows("comparison", r)
           It(p) == [rel |-> relpath(p[1]), class |-> classify(p[1], p[2]), rows |-> {p[1], p[2]}]
           P == {q \in _side("definitive") \X _side("comparison") : relpath(q[1]) = relpath(q[2])}
<1>1. About(Matched, r) = MatchedOf(D, K, r)
  <2>1. Matched = {It(p) : p \in P}
    BY DEF Matched
  <2>2. \A p \in P : It(p).rel = r <=> p \in D \X K
    BY DEF Rows
  <2>3. \A p \in D \X K : p \in P
    BY DEF Rows
  <2>4. \A p \in D \X K : It(p) = [rel |-> r, class |-> classify(p[1], p[2]), rows |-> {p[1], p[2]}]
    BY DEF Rows
  <2> HIDE DEF P, D, K
  <2>5. About(Matched, r) = {It(p) : p \in D \X K}
    BY <2>1, <2>2, <2>3 DEF About
  <2> QED
    BY <2>4, <2>5 DEF MatchedOf
<1>2. ASSUME NEW s, NEW o, NEW class
      PROVE  About(Missing(s, o, class), r) = MissingOf(Rows(s, r), Rows(o, r), class, r)
  <2> DEFINE Q == {d \in _side(s) : \A c \in _side(o) : relpath(c) # relpath(d)}
             Jt(e) == [rel |-> relpath(e), class |-> class, rows |-> {e}]
             X == {x \in Rows(s, r) : Rows(o, r) = {}}
  <2>1. Missing(s, o, class) = {Jt(e) : e \in Q}
    BY DEF Missing
  <2>2. \A e \in Q : Jt(e).rel = r <=> e \in X
    BY DEF Rows
  <2>3. \A e \in X : e \in Q /\ Jt(e) = [rel |-> r, class |-> class, rows |-> {e}]
    BY DEF Rows
  <2> HIDE DEF Q, X
  <2>4. About(Missing(s, o, class), r) = {Jt(e) : e \in X}
    BY <2>1, <2>2, <2>3 DEF About
  <2> QED
    BY <2>3, <2>4 DEF MissingOf, X
<1> QED
  BY <1>1, <1>2

(* A scan of a row disturbs only the items about its old and new path.        *)
LEMMA RowBecomesKeeps ==
    ASSUME RowTypes, NEW e \in Entry, NEW row, cat' = [cat EXCEPT ![e] = row],
           NEW r, r # relpath(e), r # rel[row.path]
    PROVE  /\ About(Matched, r)' = About(Matched, r)
           /\ About(MissingOnComparison, r)' = About(MissingOnComparison, r)
           /\ About(MissingOnDefinitive, r)' = About(MissingOnDefinitive, r)
           /\ About(Flagged, r)' = About(Flagged, r)
<1> DEFINE D == Rows("definitive", r)
           K == Rows("comparison", r)
<1>1. \A x \in Entry : cat'[x] = IF x = e THEN row ELSE cat[x]
  BY DEF RowTypes
<1>2. ASSUME NEW s PROVE Rows(s, r)' = Rows(s, r)
  BY <1>1 DEF Rows, _side, relpath
<1>3. \A s : \A x \in Rows(s, r) : cat'[x] = cat[x]
  BY <1>1 DEF Rows, _side, relpath
<1>4. /\ About(Matched, r)' = MatchedOf(D, K, r)'
      /\ About(MissingOnComparison, r)' = MissingOf(D, K, "missing_on_comparison", r)'
      /\ About(MissingOnDefinitive, r)' = MissingOf(K, D, "missing_on_definitive", r)'
  <2>1. ItemsAreOfRows'
    BY ItemsOfRows, PTL
  <2> QED
    BY <2>1 DEF ItemsAreOfRows, MissingOnComparison, MissingOnDefinitive
<1>5. MatchedOf(D, K, r)' = MatchedOf(D, K, r)
  BY <1>2, <1>3 DEF MatchedOf, classify
<1>6. /\ MissingOf(D, K, "missing_on_comparison", r)' = MissingOf(D, K, "missing_on_comparison", r)
      /\ MissingOf(K, D, "missing_on_definitive", r)' = MissingOf(K, D, "missing_on_definitive", r)
  BY <1>2 DEF MissingOf
<1>7. /\ About(Matched, r) = MatchedOf(D, K, r)
      /\ About(MissingOnComparison, r) = MissingOf(D, K, "missing_on_comparison", r)
      /\ About(MissingOnDefinitive, r) = MissingOf(K, D, "missing_on_definitive", r)
  BY ItemsOfRows DEF ItemsAreOfRows, MissingOnComparison, MissingOnDefinitive
<1>8. About(Flagged, r) = {i \in About(Matched, r) : i.class \in Differing}
  BY DEF About, Flagged, Differing
<1>9. About(Flagged, r)' = {i \in About(Matched, r)' : i.class \in Differing}
  BY DEF About, Flagged, Differing
<1> QED
  BY <1>4, <1>5, <1>6, <1>7, <1>8, <1>9

(* Each join yields finitely many rows, with relative paths of the catalogue. *)
LEMMA FiniteJoins ==
    ASSUME RowTypes
    PROVE  /\ IsFiniteSet(Flagged) /\ IsFiniteSet(MissingOnComparison)
           /\ IsFiniteSet(MissingOnDefinitive)
           /\ \A i \in Flagged : i.rel \in Nat /\ i.class \in Differing
           /\ \A i \in MissingOnComparison : i.rel \in Nat /\ i.class = "missing_on_comparison"
           /\ \A i \in MissingOnDefinitive : i.rel \in Nat /\ i.class = "missing_on_definitive"
<1>1. \A e \in Entry : relpath(e) \in Nat
  BY ReconcileConstants DEF RowTypes, relpath
<1>2. ASSUME NEW s, NEW o, NEW class
      PROVE  /\ IsFiniteSet(Missing(s, o, class))
             /\ \A i \in Missing(s, o, class) : i.rel \in Nat /\ i.class = class
  <2> DEFINE Q == {d \in _side(s) : \A c \in _side(o) : relpath(c) # relpath(d)}
             g == [e \in Q |-> [rel |-> relpath(e), class |-> class, rows |-> {e}]]
  <2>1. Q \in SUBSET Entry
    BY DEF _side
  <2>2. IsFiniteSet(Q)
    BY <2>1, ReconcileConstants, FS_Subset
  <2>3. g \in Surjection(Q, Missing(s, o, class))
    BY DEF Missing, Surjection
  <2>4. IsFiniteSet(Missing(s, o, class))
    BY <2>2, <2>3, FS_Surjection
  <2> QED
    BY <2>1, <2>4, <1>1 DEF Missing
<1>3. IsFiniteSet(Matched) /\ \A i \in Matched : i.rel \in Nat
  <2> DEFINE P == {q \in _side("definitive") \X _side("comparison") :
                      relpath(q[1]) = relpath(q[2])}
             g == [p \in P |-> [rel |-> relpath(p[1]), class |-> classify(p[1], p[2]),
                                rows |-> {p[1], p[2]}]]
  <2>1. P \in SUBSET (Entry \X Entry)
    BY DEF _side
  <2>2. IsFiniteSet(P)
    BY <2>1, ReconcileConstants, FS_Product, FS_Subset
  <2>3. g \in Surjection(P, Matched)
    BY DEF Matched, Surjection
  <2>4. IsFiniteSet(Matched)
    BY <2>2, <2>3, FS_Surjection
  <2> QED
    BY <2>1, <2>4, <1>1 DEF Matched
<1>4. IsFiniteSet(Flagged) /\ \A i \in Flagged : i \in Matched /\ i.class \in Differing
  <2>1. Flagged \in SUBSET Matched
    BY DEF Flagged
  <2> QED
    BY <2>1, <1>3, FS_Subset DEF Flagged, Differing
<1> QED
  BY <1>2, <1>3, <1>4 DEF MissingOnComparison, MissingOnDefinitive

(* Only scans change rows, and only comparisons change comparisons.           *)
LEMMA TouchesRows ==
    ASSUME [Next]_vars
    PROVE  \/ UNCHANGED <<cat, compare>>
           \/ \E e \in Entry : Rescan(e)
           \/ \E c \in Reader : Compare(c) /\ UNCHANGED cat
  BY DEF Next, RefusePlan, Replay, BuildPlan, SuggestMoves, BuildMovePlan, FlushPlan, CommitPlan,
      CommitFails, LoadPlan, DryRun, Execute, Act, ExecuteReturns, DispatchFails, SaveStatus,
      Write, Rename, RequestQuarantine, Regroup, Quiet, Drafted, vars, files, plans

(* A scanned row is a row.                                                    *)
LEMMA RescanRow ==
    ASSUME RowTypes, NEW e \in Entry, Rescan(e)
    PROVE  \E row \in [path : Path, hash : Content \cup {None}, size : Nat, present : BOOLEAN] :
              RowBecomes(e, row)
<1> DEFINE RowSet == [path : Path, hash : Content \cup {None}, size : Nat, present : BOOLEAN]
<1>1. ASSUME NEW p \in Path, NEW h \in Content \cup {None},
             RowBecomes(e, [path |-> p, hash |-> h, size |-> SizeOf(disk[p].data),
                            present |-> TRUE])
      PROVE  \E row \in RowSet : RowBecomes(e, row)
  <2>1. SizeOf(disk[p].data) \in Nat
    BY DEF SizeOf
  <2>2. [path |-> p, hash |-> h, size |-> SizeOf(disk[p].data), present |-> TRUE] \in RowSet
    BY <2>1
  <2> QED
    BY <1>1, <2>2
<1>2. ASSUME RowBecomes(e, [cat[e] EXCEPT !.present = FALSE])
      PROVE  \E row \in RowSet : RowBecomes(e, row)
  <2>1. [cat[e] EXCEPT !.present = FALSE] \in RowSet
    BY DEF RowTypes
  <2> QED
    BY <1>2, <2>1
<1> HIDE DEF RowSet
<1>3. \E row \in RowSet : RowBecomes(e, row)
  BY <1>1, <1>2 DEF Rescan
<1> QED
  BY <1>3 DEF RowSet

(* Every step keeps the types.                                                *)
LEMMA RowTypesStep == RowTypes /\ [Next]_vars => RowTypes'
<1> SUFFICES ASSUME RowTypes, [Next]_vars PROVE RowTypes'
  OBVIOUS
<1>1. CASE UNCHANGED <<cat, compare>>
  BY <1>1 DEF RowTypes, compare
<1>2. ASSUME NEW e \in Entry, Rescan(e) PROVE RowTypes'
  <2>1. PICK row \in [path : Path, hash : Content \cup {None}, size : Nat, present : BOOLEAN] :
                RowBecomes(e, row)
    BY <1>2, RescanRow
  <2> QED
    BY <2>1 DEF RowBecomes, RowTypes
<1>3. ASSUME NEW c \in Reader, Compare(c), UNCHANGED cat PROVE RowTypes'
  <2>1. \E to : step' = [step EXCEPT ![c] = to]
    BY <1>3 DEF Compare, RefuseCompare, CountSide, CountClasses, Count, SampleItems, Sample,
                StatementTimeout
  <2>2. found' = found \/ \E z : found' = [found EXCEPT ![c] = z]
    BY <1>3 DEF Compare, RefuseCompare, CountSide, CountClasses, Count, SampleItems, Sample,
                StatementTimeout
  <2>3. listed' = listed \/ \E z : listed' = [listed EXCEPT ![c] = z]
    BY <1>3 DEF Compare, RefuseCompare, CountSide, CountClasses, Count, SampleItems, Sample,
                StatementTimeout
  <2>4. changed' = changed
    BY <1>3 DEF Compare, RefuseCompare, CountSide, CountClasses, Count, SampleItems, Sample,
                StatementTimeout
  <2> QED
    BY <1>3, <2>1, <2>2, <2>3, <2>4 DEF RowTypes
<1> QED
  BY <1>1, <1>2, <1>3, TouchesRows

(* A step that changes no row changes no join.                                *)
LEMMA SameRows ==
    ASSUME UNCHANGED cat
    PROVE  /\ Matched' = Matched /\ Flagged' = Flagged
           /\ MissingOnComparison' = MissingOnComparison
           /\ MissingOnDefinitive' = MissingOnDefinitive
<1>1. Matched' = Matched
  BY DEF Matched, _side, relpath, classify
<1>2. Flagged' = Flagged
  BY <1>1 DEF Flagged
<1>3. \A s, o, class : Missing(s, o, class)' = Missing(s, o, class)
  BY DEF Missing, _side, relpath
<1> QED
  BY <1>1, <1>2, <1>3 DEF MissingOnComparison, MissingOnDefinitive

(* A comparison that does nothing is as right as it was.                      *)
LEMMA IdleCompare ==
    ASSUME UNCHANGED cat, NEW c, Counted(c), ListInLimit(c), ListComplete(c),
           step'[c] = step[c], found'[c] = found[c], listed'[c] = listed[c],
           changed'[c] = changed[c]
    PROVE  Counted(c)' /\ ListInLimit(c)' /\ ListComplete(c)'
<1>1. Counted(c)'
  BY SameRows DEF Counted, About
<1>2. ListInLimit(c)'
  BY DEF ListInLimit
<1>3. ListComplete(c)'
  BY SameRows DEF ListComplete, About, truncated
<1> QED
  BY <1>1, <1>2, <1>3

(* A scan between two statements: the paths that it touches are set aside.    *)
LEMMA RescanKeeps ==
    ASSUME RowTypes, NEW e \in Entry, NEW row, RowBecomes(e, row),
           NEW c \in Reader, Counted(c), ListInLimit(c), ListComplete(c)
    PROVE  Counted(c)' /\ ListInLimit(c)' /\ ListComplete(c)'
<1>1. step' = step /\ found' = found /\ listed' = listed /\ cat' = [cat EXCEPT ![e] = row]
  BY DEF RowBecomes
<1>2. ListInLimit(c)'
  BY <1>1 DEF ListInLimit
<1>3. CASE step[c] \in {"new", "refused", "timeout"}
  <2>1. Counted(c)'
    BY <1>1, <1>3 DEF Counted, Starting, Listing
  <2>2. ListComplete(c)'
    BY <1>1, <1>3 DEF ListComplete
  <2> QED
    BY <1>2, <2>1, <2>2
<1>4. CASE step[c] \notin {"new", "refused", "timeout"}
  <2>1. changed'[c] = changed[c] \cup {relpath(e), rel[row.path]}
    BY <1>4 DEF RowBecomes
  <2>2. ASSUME NEW r \in Relative \ changed'[c]
        PROVE  /\ r \in Relative \ changed[c]
               /\ About(Matched, r)' = About(Matched, r)
               /\ About(MissingOnComparison, r)' = About(MissingOnComparison, r)
               /\ About(MissingOnDefinitive, r)' = About(MissingOnDefinitive, r)
               /\ About(Flagged, r)' = About(Flagged, r)
    BY <2>1, <1>1, RowBecomesKeeps
  <2>3. \A r : About(found[c], r)' = About(found[c], r)
    BY <1>1 DEF About
  <2>4. Counted(c)'
    BY <1>1, <2>2, <2>3 DEF Counted
  <2>5. ListComplete(c)'
    BY <1>1, <2>2 DEF ListComplete, truncated
  <2> QED
    BY <1>2, <2>4, <2>5
<1> QED
  BY <1>3, <1>4

(* The statements that count (_compare_inner).                                *)
LEMMA CountKeeps ==
    ASSUME RowTypes, UNCHANGED cat, NEW c \in Reader, CountClasses(c),
           Counted(c), ListInLimit(c), ListComplete(c)
    PROVE  Counted(c)' /\ ListInLimit(c)' /\ ListComplete(c)'
<1>1. PICK at, rows, to : Count(c, at, rows, to) /\
           \/ at = "matched" /\ rows = Matched /\ to = "on_comparison"
           \/ at = "on_comparison" /\ rows = MissingOnComparison /\ to = "on_definitive"
           \/ at = "on_definitive" /\ rows = MissingOnDefinitive /\ to = "flagged"
  BY DEF CountClasses
<1>2. /\ step[c] = at /\ step'[c] = to /\ found'[c] = found[c] \cup rows
      /\ listed' = listed /\ changed' = changed
  BY <1>1 DEF Count, RowTypes
<1>3. \A r : About(found'[c], r) = About(found[c], r) \cup About(rows, r)
  BY <1>2 DEF About
<1>4. at = "matched" => \A r : About(found[c], r) = {}
  BY <1>2 DEF Counted, Starting, About
<1>5. Counted(c)'
  BY <1>1, <1>2, <1>3, <1>4, SameRows DEF Counted, Starting, Listing
<1>6. ListInLimit(c)'
  BY <1>1, <1>2 DEF ListInLimit, Starting
<1>7. ListComplete(c)'
  BY <1>1, <1>2 DEF ListComplete
<1> QED
  BY <1>5, <1>6, <1>7

(* The statements that list (_sample_items).                                  *)
LEMMA SampleKeeps ==
    ASSUME RowTypes, UNCHANGED cat, NEW c \in Reader, SampleItems(c),
           Counted(c), ListInLimit(c), ListComplete(c)
    PROVE  Counted(c)' /\ ListInLimit(c)' /\ ListComplete(c)'
<1>1. PICK at, rows, to : Sample(c, at, rows, to) /\
           \/ at = "flagged" /\ rows = Flagged /\ to = "list_comparison"
           \/ at = "list_comparison" /\ rows = MissingOnComparison /\ to = "list_definitive"
           \/ at = "list_definitive" /\ rows = MissingOnDefinitive /\ to = "compared"
  BY DEF SampleItems
<1> DEFINE L == listed[c]
           N == listed'[c]
<1>2. /\ step[c] = at /\ step'[c] = to /\ N = L \cup First(MAX_ITEMS - Cardinality(L), rows)
      /\ found' = found /\ changed' = changed
  BY <1>1 DEF Sample, RowTypes
<1>3. IsFiniteSet(rows) /\ \A i \in rows : i.rel \in Nat
  BY <1>1, FiniteJoins
<1>4. /\ at = "flagged" => L = {} /\ \A i \in rows : i.class \in Differing
      /\ at = "list_comparison" => /\ \A i \in L : i.class \in Differing
                                   /\ \A i \in rows : i.class = "missing_on_comparison"
      /\ at = "list_definitive" =>
            /\ \A i \in L : i.class \in Differing \cup {"missing_on_comparison"}
            /\ \A i \in rows : i.class = "missing_on_definitive"
  BY <1>1, <1>2, FiniteJoins DEF ListInLimit
<1>5. L \cap rows = {}
  BY <1>1, <1>4 DEF Differing
<1>6. /\ IsFiniteSet(N) /\ Cardinality(N) <= MAX_ITEMS
      /\ N \subseteq L \cup rows /\ L \subseteq N
      /\ Cardinality(N) >= MAX_ITEMS \/ rows \subseteq N
      /\ Cardinality(N) < MAX_ITEMS => Cardinality(L) < MAX_ITEMS
  <2>1. IsFiniteSet(L) /\ Cardinality(L) <= MAX_ITEMS
    BY DEF ListInLimit
  <2>2. N = L \cup First(MAX_ITEMS - Cardinality(L), rows)
    BY <1>2
  <2> HIDE DEF L, N
  <2>3. L \subseteq N
    BY <2>2
  <2>4. /\ IsFiniteSet(N) /\ Cardinality(N) <= MAX_ITEMS /\ N \subseteq L \cup rows
        /\ Cardinality(N) >= MAX_ITEMS \/ rows \subseteq N
        /\ Cardinality(N) < MAX_ITEMS => Cardinality(L) < MAX_ITEMS
    <3>1. \A i \in rows : i.rel \in Nat
      BY <1>3
    <3>2. IsFiniteSet(rows)
      BY <1>3
    <3> QED
      BY <3>1, <3>2, <1>5, <2>1, <2>2, SampleTakes
  <2> QED
    BY <2>3, <2>4
<1>7. Counted(c)'
  BY <1>1, <1>2, SameRows DEF Counted, Starting, Listing, About
<1>8. ListInLimit(c)'
  <2>1. \A i \in N : i \in L \/ i \in rows
    BY <1>6
  <2>2. to = "list_comparison" => \A i \in N : i.class \in Differing
    BY <1>1, <1>4, <2>1
  <2>3. to = "list_definitive" =>
            \A i \in N : i.class \in Differing \cup {"missing_on_comparison"}
    <3> SUFFICES ASSUME at = "list_comparison", NEW i \in N
                 PROVE  i.class \in Differing \cup {"missing_on_comparison"}
      BY <1>1
    <3>1. i \in L => i.class \in Differing
      BY <1>4
    <3>2. i \in rows => i.class = "missing_on_comparison"
      BY <1>1, FiniteJoins
    <3> QED
      BY <3>1, <3>2, <2>1
  <2>4. to \notin Starting \cup {"on_comparison", "on_definitive", "flagged"}
    BY <1>1 DEF Starting
  <2> QED
    BY <1>2, <1>6, <2>2, <2>3, <2>4 DEF ListInLimit
<1>9. ListComplete(c)'
  <2> SUFFICES ASSUME ~truncated(c)' PROVE
        \A r \in Relative \ changed'[c] :
            /\ About(Flagged, r) \subseteq N
            /\ to \in {"list_definitive", "compared"} => About(MissingOnComparison, r) \subseteq N
            /\ to = "compared" => About(MissingOnDefinitive, r) \subseteq N
    BY <1>1, <1>2, SameRows DEF ListComplete, About
  <2>1. Cardinality(N) \in Nat /\ Cardinality(L) \in Nat /\ MAX_ITEMS \in Nat
    BY <1>6, FS_CardinalityType, ReconcileConstants DEF ListInLimit
  <2>2. Cardinality(N) < MAX_ITEMS /\ Cardinality(L) < MAX_ITEMS /\ rows \subseteq N
    BY <2>1, <1>6 DEF truncated
  <2>3. ~truncated(c)
    BY <2>1, <2>2 DEF truncated
  <2>4. \A r \in Relative \ changed[c] : About(rows, r) \subseteq N
    BY <2>2 DEF About
  <2>5. \A r \in Relative \ changed[c] :
            /\ at \in {"list_comparison", "list_definitive"} => About(Flagged, r) \subseteq L
            /\ at = "list_definitive" => About(MissingOnComparison, r) \subseteq L
    BY <2>3, <1>2 DEF ListComplete
  <2> QED
    BY <1>1, <1>2, <1>6, <2>4, <2>5
<1> QED
  BY <1>7, <1>8, <1>9

(* Every step keeps the comparisons right.                                    *)
LEMMA ComparedSoFarStep == RowTypes /\ ComparedSoFar /\ [Next]_vars => ComparedSoFar'
<1> SUFFICES ASSUME RowTypes, ComparedSoFar, [Next]_vars, NEW c \in Reader
             PROVE  Counted(c)' /\ ListInLimit(c)' /\ ListComplete(c)'
  BY DEF ComparedSoFar
<1>0. Counted(c) /\ ListInLimit(c) /\ ListComplete(c)
  BY DEF ComparedSoFar
<1>1. CASE UNCHANGED <<cat, compare>>
  BY <1>0, <1>1, IdleCompare DEF compare
<1>2. ASSUME NEW e \in Entry, Rescan(e)
      PROVE  Counted(c)' /\ ListInLimit(c)' /\ ListComplete(c)'
  BY <1>0, <1>2, RescanRow, RescanKeeps
<1>3. ASSUME NEW b \in Reader, Compare(b), UNCHANGED cat
      PROVE  Counted(c)' /\ ListInLimit(c)' /\ ListComplete(c)'
  <2>1. CASE b # c
    <3>1. /\ step'[c] = step[c] /\ found'[c] = found[c] /\ listed'[c] = listed[c]
          /\ changed'[c] = changed[c]
      BY <1>3, <2>1 DEF Compare, RefuseCompare, CountSide, CountClasses, Count, SampleItems,
                        Sample, StatementTimeout, RowTypes
    <3> QED
      BY <1>0, <1>3, <3>1, IdleCompare
  <2>2. CASE b = c /\ CountClasses(c)
    BY <1>0, <1>3, <2>2, CountKeeps
  <2>3. CASE b = c /\ SampleItems(c)
    BY <1>0, <1>3, <2>3, SampleKeeps
  <2>4. CASE b = c /\ (RefuseCompare(c) \/ CountSide(c) \/ StatementTimeout(c))
    <3>1. /\ found' = found /\ listed' = listed /\ changed' = changed
          /\ \/ step'[c] \in {"refused", "timeout"}
             \/ step[c] \in Starting /\ step'[c] \in Starting
      BY <2>4 DEF RefuseCompare, CountSide, StatementTimeout, RowTypes, Starting
    <3>2. Counted(c)'
      BY <1>0, <3>1 DEF Counted, Starting, Listing
    <3>3. ListInLimit(c)'
      BY <1>0, <3>1 DEF ListInLimit, Starting
    <3>4. ListComplete(c)'
      BY <3>1 DEF ListComplete, Starting
    <3> QED
      BY <3>2, <3>3, <3>4
  <2> QED
    BY <1>3, <2>1, <2>2, <2>3, <2>4 DEF Compare
<1> QED
  BY <1>1, <1>2, <1>3, TouchesRows

(* No comparison has begun, and every file has its row.                       *)
LEMMA InitCompareInv == Init => CompareInv
<1> SUFFICES ASSUME Init PROVE CompareInv
  OBVIOUS
<1>1. PICK made \in Made : CompareInit(made.requests)
  BY DEF Init
<1>2. /\ step = [c \in Reader |-> IF c \in made.requests THEN "new" ELSE "refused"]
      /\ found = [c \in Reader |-> {}] /\ listed = [c \in Reader |-> {}]
      /\ changed = [c \in Reader |-> {}]
  BY <1>1 DEF CompareInit
<1>3. RowTypes
  <2>1. cat = [e \in Entry |-> [path |-> home[e], hash |-> "A", size |-> 1, present |-> TRUE]]
    BY DEF Init, SizeOf
  <2>2. \A e \in Entry : home[e] \in Path
    BY PlanConstants
  <2> QED
    BY <1>2, <2>1, <2>2 DEF RowTypes, Content
<1>4. ASSUME NEW c \in Reader PROVE Counted(c) /\ ListInLimit(c) /\ ListComplete(c)
  <2>1. step[c] \in {"new", "refused"} /\ found[c] = {} /\ listed[c] = {}
    BY <1>2
  <2>2. MAX_ITEMS \in Nat /\ IsFiniteSet({}) /\ Cardinality({}) = 0
    BY ReconcileConstants, FS_EmptySet
  <2>3. ListInLimit(c)
    BY <2>1, <2>2 DEF ListInLimit
  <2> QED
    BY <2>1, <2>3 DEF Counted, ListComplete, Starting, Listing
<1> QED
  BY <1>3, <1>4 DEF CompareInv, ComparedSoFar

(* A finished comparison is exact about a path that no scan touched, whose    *)
(* rows are at most one on either side.                                       *)
LEMMA ComparedIsExact == CompareInv => ComparisonIsExact
<1> SUFFICES ASSUME CompareInv, NEW c \in Reader, step[c] = "compared",
                    NEW r \in Relative \ changed[c],
                    Cardinality(Rows("definitive", r)) <= 1,
                    Cardinality(Rows("comparison", r)) <= 1
             PROVE  LET d == Rows("definitive", r)
                        k == Rows("comparison", r)
                        of == {i \in found[c] : i.rel = r}
                    IN  /\ Cardinality(of) = IF d \cup k = {} THEN 0 ELSE 1
                        /\ \A i \in of :
                              /\ i.rows = d \cup k
                              /\ i.class = "missing_on_comparison" <=> k = {}
                              /\ i.class = "missing_on_definitive" <=> d = {}
                              /\ i.class = "same" =>
                                    \E h \in {cat[e].hash : e \in i.rows} \ {None} :
                                        \A e \in i.rows : cat[e].hash = h
                              /\ ~truncated(c) /\ i.class # "same" => i \in listed[c]
  BY DEF ComparisonIsExact, Relative
<1> DEFINE d == Rows("definitive", r)
           k == Rows("comparison", r)
           of == {i \in found[c] : i.rel = r}
           M == About(Matched, r)
           C == About(MissingOnComparison, r)
           D == About(MissingOnDefinitive, r)
<1>1. of = M \cup C \cup D
  BY DEF CompareInv, ComparedSoFar, Counted, Listing, About
<1>2. /\ M = MatchedOf(d, k, r)
      /\ C = MissingOf(d, k, "missing_on_comparison", r)
      /\ D = MissingOf(k, d, "missing_on_definitive", r)
  BY ItemsOfRows DEF ItemsAreOfRows, MissingOnComparison, MissingOnDefinitive
<1>3. ~truncated(c) => {i \in M : i.class \in Differing} \cup C \cup D \subseteq listed[c]
  BY DEF CompareInv, ComparedSoFar, ListComplete, About, Flagged, Differing
<1>4. (d = {} \/ \E x \in Entry : d = {x}) /\ (k = {} \/ \E y \in Entry : k = {y})
  <2>1. d \in SUBSET Entry /\ k \in SUBSET Entry
    BY DEF Rows, _side
  <2>2. /\ IsFiniteSet(d) /\ IsFiniteSet(k) /\ Cardinality(d) \in Nat /\ Cardinality(k) \in Nat
    BY <2>1, ReconcileConstants, FS_Subset, FS_CardinalityType
  <2>3. (Cardinality(d) = 0 \/ Cardinality(d) = 1) /\ (Cardinality(k) = 0 \/ Cardinality(k) = 1)
    BY <2>2
  <2> HIDE DEF d, k
  <2> QED
    BY <2>1, <2>2, <2>3, FS_EmptySet, FS_Singleton
<1> DEFINE Right(i) == /\ i.rows = d \cup k
                       /\ i.class = "missing_on_comparison" <=> k = {}
                       /\ i.class = "missing_on_definitive" <=> d = {}
                       /\ i.class = "same" =>
                             \E h \in {cat[e].hash : e \in i.rows} \ {None} :
                                \A e \in i.rows : cat[e].hash = h
                       /\ ~truncated(c) /\ i.class # "same" => i \in listed[c]
<1> SUFFICES /\ Cardinality(of) = IF d \cup k = {} THEN 0 ELSE 1
             /\ \A i \in of : Right(i)
  OBVIOUS
<1> HIDE DEF d, k, M, C, D
<1>5. CASE d = {} /\ k = {}
  <2>1. of = {}
    BY <1>1, <1>2, <1>5 DEF MatchedOf, MissingOf
  <2> QED
    BY <2>1, <1>5, FS_EmptySet
<1>6. CASE k = {} /\ \E x \in Entry : d = {x}
  <2>1. PICK x \in Entry : d = {x}
    BY <1>6
  <2> DEFINE it == [rel |-> r, class |-> "missing_on_comparison", rows |-> {x}]
  <2>2. M = {} /\ D = {} /\ C = {it}
    BY <1>2, <1>6, <2>1 DEF MatchedOf, MissingOf
  <2>3. of = {it}
    BY <1>1, <2>2
  <2>4. Right(it)
    BY <1>3, <1>6, <2>1, <2>2
  <2> QED
    BY <2>3, <2>4, <2>1, FS_Singleton
<1>7. CASE d = {} /\ \E y \in Entry : k = {y}
  <2>1. PICK y \in Entry : k = {y}
    BY <1>7
  <2> DEFINE it == [rel |-> r, class |-> "missing_on_definitive", rows |-> {y}]
  <2>2. M = {} /\ C = {} /\ D = {it}
    BY <1>2, <1>7, <2>1 DEF MatchedOf, MissingOf
  <2>3. of = {it}
    BY <1>1, <2>2
  <2>4. Right(it)
    BY <1>3, <1>7, <2>1, <2>2
  <2> QED
    BY <2>3, <2>4, <2>1, FS_Singleton
<1>8. CASE (\E x \in Entry : d = {x}) /\ (\E y \in Entry : k = {y})
  <2>1. PICK x \in Entry, y \in Entry : d = {x} /\ k = {y}
    BY <1>8
  <2> DEFINE it == [rel |-> r, class |-> classify(x, y), rows |-> {x, y}]
  <2>2. C = {} /\ D = {} /\ M = {it}
    <3>1. C = {} /\ D = {}
      BY <1>2, <2>1 DEF MissingOf
    <3>2. d \X k = {<<x, y>>}
      BY <2>1
    <3>3. \A p \in d \X k : p[1] = x /\ p[2] = y
      BY <3>2
    <3>4. M = {[rel |-> r, class |-> classify(x, y), rows |-> {x, y}] : p \in d \X k}
      BY <1>2, <3>3 DEF MatchedOf
    <3> QED
      BY <3>1, <3>2, <3>4
  <2>3. of = {it}
    BY <1>1, <2>2
  <2>4. /\ classify(x, y) = "same" \/ classify(x, y) \in Differing
        /\ classify(x, y) = "same" => cat[x].hash = cat[y].hash /\ cat[x].hash # None
    BY DEF classify, Differing
  <2>5. /\ it.rows = d \cup k /\ it.class # "missing_on_comparison"
        /\ it.class # "missing_on_definitive"
    BY <2>1, <2>4 DEF Differing
  <2>6. it.class = "same" => \E h \in {cat[e].hash : e \in it.rows} \ {None} :
                                \A e \in it.rows : cat[e].hash = h
    BY <2>4
  <2>7. ~truncated(c) /\ it.class # "same" => it \in listed[c]
    BY <1>3, <2>2, <2>4
  <2>8. Right(it)
    BY <2>1, <2>5, <2>6, <2>7
  <2> HIDE DEF it, Right
  <2>9. Cardinality(of) = 1 /\ d \cup k # {}
    BY <2>3, <2>1, FS_Singleton
  <2>10. \A i \in of : Right(i)
    BY <2>3, <2>8
  <2> QED
    BY <2>9, <2>10
<1> QED
  BY <1>4, <1>5, <1>6, <1>7, <1>8

(* However scans overlap the statements of any number of comparisons, a       *)
(* finished one is exact about every relative path that they left alone: it   *)
(* is counted once, in the right class, and listed unless the list is full.   *)
THEOREM ComparisonsAreExact == Spec => []ComparisonIsExact
<1>1. CompareInv /\ [Next]_vars => CompareInv'
  BY RowTypesStep, ComparedSoFarStep DEF CompareInv
<1> QED
  BY InitCompareInv, <1>1, ComparedIsExact, PTL DEF Spec

=============================================================================
