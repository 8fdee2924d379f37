------------------------ MODULE ActorExecutor_proofs ------------------------
(***************************************************************************)
(* Proofs about ActorExecutor, for any plan, any number of jobs, restarts  *)
(* and changes by other users: every act is on the log before it happens,  *)
(* an item's status is what was done to it, and quarantine and move never  *)
(* take the last name of a file.                                           *)
(***************************************************************************)
EXTENDS ActorExecutor, WellFoundedInduction, TLAPS

-----------------------------------------------------------------------------
(* The inductive invariant.                                                *)

Failure == {"aborted_drift", "skipped_disabled"}

(* An act has a result.                                                    *)
HasResult == pc = "result" => results[p0] # "none"

(* The intent is logged before the act.                                    *)
Logged ==
    /\ EveryActIsLogged
    /\ pc = "mutate" => <<p0, "pending">> \in log

(* What has been done so far was done to items that are behind, or to the  *)
(* current one.                                                            *)
Behind ==
    /\ pc \in {"verify", "reverify"} => did = {}
    /\ \A p \in todo : p \in did => p = p0 /\ pc \in {"unlink", "rollback", "result"}

(* Between the link and the end of a move the destination is there, and no *)
(* failed move of this job left something at the same place.               *)
Moving ==
    pc \in {"unlink", "rollback"} =>
        /\ p0 \in did /\ Action[p0] = "move" /\ dst[Dest[p0]] # NoInode
        /\ \A q \in did \ {p0} : Dest[q] = Dest[p0] => results[q] \notin Failure

(* A path holds its file of the plan, a new file or nothing, and so does   *)
(* its place in the quarantine, but not both the file.                     *)
Places ==
    \A p \in Path :
        /\ src[p] \in {NoInode, prior_inode[p]} \cup Fresh
        /\ quar[quarantine_name(p)] \in {NoInode, prior_inode[p]} \cup Fresh
        /\ src[p] = prior_inode[p] => quar[quarantine_name(p)] # prior_inode[p]

(* The current item's place in the quarantine is free for it, and its new  *)
(* link is the file that is (or was, before its owner took it) at its path. *)
Ready ==
    /\ pc \in {"log", "mutate"} => quar[quarantine_name(p0)] # prior_inode[p0]
    /\ pc \in {"unlink", "rollback"} =>
          /\ dst[Dest[p0]] \in {prior_inode[p0]} \cup Fresh
          /\ src[p0] = prior_inode[p0] => dst[Dest[p0]] = prior_inode[p0]
          /\ dst[Dest[p0]] = prior_inode[p0] =>
                src[p0] = prior_inode[p0] \/ prior_inode[p0] \in disowned

IInv ==
    /\ TypeOK /\ HasResult
    /\ Logged
    /\ Behind /\ Moving /\ StatusIsTrue
    /\ Places /\ Ready

-----------------------------------------------------------------------------
(* The current item.                                                       *)

(* A set of natural numbers has a least element.                           *)
LEMMA LeastElement ==
    ASSUME NEW T \in SUBSET Nat, T # {}
    PROVE  \E n \in T : \A m \in T : n <= m
<1>1. PICK n \in T : \A m \in T : ~(<<m, n>> \in OpToRel(<, Nat))
  BY WFMin, NatLessThanWellFounded
<1>2. \A m \in T : m \in Nat /\ ~(m < n)
  BY <1>1 DEF OpToRel
<1>3. n \in Nat
  OBVIOUS
<1> QED
  BY <1>2, <1>3

(* While there are items left, one of them is the next in the plan's order *)
(* (Executor.execute walks plan.items).                                    *)
LEMMA Current ==
    ASSUME todo \subseteq Path, todo # {}
    PROVE  p0 \in todo
<1>1. {Rank[p] : p \in todo} \in SUBSET Nat /\ {Rank[p] : p \in todo} # {}
  BY ExecutorConstants
<1>2. PICK n \in {Rank[p] : p \in todo} : \A m \in {Rank[p] : p \in todo} : n <= m
  BY <1>1, LeastElement
<1>3. \E p \in todo : \A q \in todo : Rank[p] <= Rank[q]
  BY <1>2
<1> QED
  BY <1>3 DEF p0

(* The current item changes only when an item is finished.                 *)
LEMMA CurrentStays == todo' = todo => p0' = p0
  BY DEF p0

(* The catalogue's inodes and the names made from them.                    *)
LEMMA PlanNames ==
    /\ \A p \in Path : /\ prior_inode[p] \in Inode /\ prior_inode[p] # NoInode
                       /\ prior_inode[p] \notin Fresh
                       /\ quarantine_name(p) \in QName
                       /\ Dest[p] \in Range(Dest)
    /\ \A p, q \in Path : p # q => prior_inode[p] # prior_inode[q]
    /\ \A p, q \in Path : p # q => quarantine_name(p) # quarantine_name(q)
    /\ Fresh \subseteq Inode /\ NoInode \notin Fresh
<1>1. /\ \A p \in Path : prior_inode[p] \in Range(prior_inode) /\ Base[p] \in Range(Base)
      /\ \A p \in Path : Dest[p] \in Range(Dest)
  BY ExecutorConstants DEF Range
<1>2. \A p, q \in Path : p # q => prior_inode[p] # prior_inode[q]
  BY ExecutorConstants DEF IsInjective
<1>3. \A p \in Path : quarantine_name(p) \in QName
  BY <1>1 DEF quarantine_name, QName, Inode
<1>4. \A p, q \in Path : p # q => quarantine_name(p) # quarantine_name(q)
  BY <1>2 DEF quarantine_name
<1> QED
  BY <1>1, <1>2, <1>3, <1>4, ExecutorConstants DEF Inode

-----------------------------------------------------------------------------
(* Types.                                                                  *)

(* Every step keeps the types.                                             *)
LEMMA TypeStep == TypeOK /\ HasResult /\ [Next]_vars => TypeOK'
<1> SUFFICES ASSUME TypeOK, HasResult, [Next]_vars PROVE TypeOK'
  OBVIOUS
<1>1. ASSUME StartJob, UNCHANGED config PROVE TypeOK'
  BY <1>1, ExecutorConstants DEF TypeOK, Status, StartJob, fs, config, bounds
<1>2. ASSUME VerifyPlan, UNCHANGED config PROVE TypeOK'
  BY <1>2 DEF TypeOK, Status, VerifyPlan, fs, config, bounds
<1>3. ASSUME Reverify, UNCHANGED config PROVE TypeOK'
  BY <1>3 DEF TypeOK, Status, Reverify, Drop, fs, config, bounds
<1>4. ASSUME OpenParent, UNCHANGED config PROVE TypeOK'
  BY <1>4 DEF TypeOK, Status, OpenParent, Drop, fs, config, bounds
<1>5. ASSUME Finish, UNCHANGED config PROVE TypeOK'
  BY <1>5  DEF TypeOK, Status, Finish, fs, config, bounds
<1>6. ASSUME Recheck, UNCHANGED config PROVE TypeOK'
  <2>1. p0 \in todo /\ p0 \in Path
    BY <1>6, Current DEF TypeOK, Recheck
  <2> QED
    BY <1>6, <2>1 DEF TypeOK, Status, Recheck, Drop, Done, ToResult, Mutated, AppendLog, fs,
        config, bounds
<1>7. ASSUME LogPending, UNCHANGED config PROVE TypeOK'
  <2>1. p0 \in todo /\ p0 \in Path
    BY <1>7, Current DEF TypeOK, LogPending
  <2> QED
    BY <1>7, <2>1 DEF TypeOK, Status, LogPending, Drop, Done, ToResult, Mutated, AppendLog,
        fs, config, bounds
<1>8. ASSUME Quarantine, UNCHANGED config PROVE TypeOK'
  <2>1. p0 \in todo /\ p0 \in Path
    BY <1>8, Current DEF TypeOK, Quarantine
  <2> QED
    BY <1>8, <2>1 DEF TypeOK, Status, Quarantine, Drop, Done, ToResult, Mutated, AppendLog,
        fs, config, bounds
<1>9. ASSUME HardDelete, UNCHANGED config PROVE TypeOK'
  <2>1. p0 \in todo /\ p0 \in Path
    BY <1>9, Current DEF TypeOK, HardDelete
  <2> QED
    BY <1>9, <2>1 DEF TypeOK, Status, HardDelete, Drop, Done, ToResult, Mutated, AppendLog,
        fs, config, bounds
<1>10. ASSUME NotImplemented, UNCHANGED config PROVE TypeOK'
  <2>1. p0 \in todo /\ p0 \in Path
    BY <1>10, Current DEF TypeOK, NotImplemented
  <2> QED
    BY <1>10, <2>1 DEF TypeOK, Status, NotImplemented, Drop, Done, ToResult, Mutated,
        AppendLog, fs, config, bounds
<1>11. ASSUME MoveLink, UNCHANGED config PROVE TypeOK'
  <2>1. p0 \in todo /\ p0 \in Path
    BY <1>11, Current DEF TypeOK, MoveLink
  <2> QED
    BY <1>11, <2>1 DEF TypeOK, Status, MoveLink, Drop, Done, ToResult, Mutated, AppendLog,
        fs, config, bounds
<1>12. ASSUME MoveUnlink, UNCHANGED config PROVE TypeOK'
  <2>1. p0 \in todo /\ p0 \in Path
    BY <1>12, Current DEF TypeOK, MoveUnlink
  <2> QED
    BY <1>12, <2>1 DEF TypeOK, Status, MoveUnlink, Drop, Done, ToResult, Mutated, AppendLog,
        fs, config, bounds
<1>13. ASSUME MoveRollback, UNCHANGED config PROVE TypeOK'
  <2>1. p0 \in todo /\ p0 \in Path
    BY <1>13, Current DEF TypeOK, MoveRollback
  <2> QED
    BY <1>13, <2>1 DEF TypeOK, Status, MoveRollback, Drop, Done, ToResult, Mutated,
        AppendLog, fs, config, bounds
<1>14. ASSUME LogResult, UNCHANGED config PROVE TypeOK'
  <2>1. p0 \in todo /\ p0 \in Path
    BY <1>14, Current DEF TypeOK, LogResult
  <2>2. results[p0] # "none"
    BY <1>14 DEF LogResult, HasResult
  <2> QED
    BY <1>14, <2>1, <2>2 DEF TypeOK, Status, LogResult, Drop, Done, ToResult, Mutated,
        AppendLog, fs, config, bounds
<1>15. ASSUME Crash, UNCHANGED config PROVE TypeOK'
  BY <1>15, ExecutorConstants DEF TypeOK, Status, Crash, fs, config, bounds
<1>16. ASSUME OtherUser, UNCHANGED config PROVE TypeOK'
  <2>1. PICK p \in Path : Overwrite(p) \/ Remove(p) \/ \E i \in Unused : Replace(p,
      i) \/ OccupyDest(p, i)
    BY <1>16 DEF OtherUser
  <2>2. Unused \subseteq Inode /\ Dest[p] \in Range(Dest)
    BY PlanNames DEF Unused
  <2>3. NoInode \notin Inode
    BY ExecutorConstants
  <2>4. /\ src' \in [Path -> Inode \cup {NoInode}] /\ quar' = quar
        /\ dst' \in [Range(Dest) -> Inode \cup {NoInode}] /\ edited' \subseteq Inode
    <3>1. CASE Overwrite(p)
      BY <2>3, <3>1 DEF Overwrite, TypeOK
    <3>2. CASE Remove(p)
      BY <3>2 DEF Remove, TypeOK
    <3>3. CASE \E i \in Unused : Replace(p, i)
      BY <2>2, <3>3 DEF Replace, TypeOK
    <3>4. CASE \E i \in Unused : OccupyDest(p, i)
      BY <2>2, <3>4 DEF OccupyDest, TypeOK
    <3> QED
      BY <3>1, <3>2, <3>3, <3>4, <2>1
  <2>5. changes' \in 0 .. MaxChanges /\ disowned' \subseteq Inode
    <3>1. changes' \in 0 .. MaxChanges
      BY <1>16, ExecutorConstants DEF OtherUser, TypeOK
    <3>2. Range(src) \subseteq Inode \cup {NoInode} /\ disowned \subseteq Inode
      BY DEF TypeOK, Range
    <3>3. disowned' = disowned \cup (Range(src) \ (Range(src') \cup {NoInode}))
      BY <1>16 DEF OtherUser
    <3>4. disowned' \subseteq Inode
      BY <3>2, <3>3
    <3> QED
      BY <3>1, <3>2, <3>3, <3>4
  <2>6. UNCHANGED <<allow_hard_delete, pc, todo, results, log, did, runs, crashes>>
    BY <1>16 DEF OtherUser, config
  <2> QED
    BY <2>4, <2>5, <2>6 DEF TypeOK
<1>17. ASSUME UNCHANGED vars PROVE TypeOK'
  BY <1>17  DEF TypeOK, Status, vars, fs, config, bounds
<1> QED
  BY <1>1, <1>2, <1>3, <1>4, <1>5, <1>6, <1>7, <1>8, <1>9, <1>10, <1>11, <1>12, <1>13, <1>14,
      <1>15, <1>16, <1>17 DEF Next, Executor, Rest

(* The result of an act is recorded before it is logged.                   *)
LEMMA HasResultStep == TypeOK /\ HasResult /\ [Next]_vars => HasResult'
<1> SUFFICES ASSUME TypeOK, HasResult, [Next]_vars PROVE HasResult'
  OBVIOUS
<1>1. ASSUME StartJob, UNCHANGED config PROVE HasResult'
  <2>1. pc' # "result"
    BY <1>1 DEF StartJob, Drop, Done, ToResult, Mutated, AppendLog
  <2> QED
    BY <2>1 DEF HasResult
<1>2. ASSUME VerifyPlan, UNCHANGED config PROVE HasResult'
  <2>1. pc' # "result"
    BY <1>2 DEF VerifyPlan, Drop, Done, ToResult, Mutated, AppendLog
  <2> QED
    BY <2>1 DEF HasResult
<1>3. ASSUME Reverify, UNCHANGED config PROVE HasResult'
  <2>1. pc' # "result"
    BY <1>3 DEF Reverify, Drop, Done, ToResult, Mutated, AppendLog
  <2> QED
    BY <2>1 DEF HasResult
<1>4. ASSUME OpenParent, UNCHANGED config PROVE HasResult'
  <2>1. pc' # "result"
    BY <1>4 DEF OpenParent, Drop, Done, ToResult, Mutated, AppendLog
  <2> QED
    BY <2>1 DEF HasResult
<1>5. ASSUME Finish, UNCHANGED config PROVE HasResult'
  <2>1. pc' # "result"
    BY <1>5 DEF Finish, Drop, Done, ToResult, Mutated, AppendLog
  <2> QED
    BY <2>1 DEF HasResult
<1>6. ASSUME Recheck, UNCHANGED config PROVE HasResult'
  <2>1. pc' # "result"
    BY <1>6 DEF Recheck, Drop, Done, ToResult, Mutated, AppendLog
  <2> QED
    BY <2>1 DEF HasResult
<1>7. ASSUME LogPending, UNCHANGED config PROVE HasResult'
  <2>1. pc' # "result"
    BY <1>7 DEF LogPending, Drop, Done, ToResult, Mutated, AppendLog
  <2> QED
    BY <2>1 DEF HasResult
<1>8. ASSUME Quarantine, UNCHANGED config PROVE HasResult'
  <2>1. p0 \in todo /\ p0 \in Path
    BY <1>8, Current DEF TypeOK, Quarantine
  <2>2. (todo' = todo /\ results'[p0] # "none") \/ pc' # "result"
    BY <1>8, <2>1 DEF TypeOK, Quarantine, Drop, Done, ToResult, Mutated, AppendLog
  <2> QED
    BY <2>2, CurrentStays DEF HasResult
<1>9. ASSUME HardDelete, UNCHANGED config PROVE HasResult'
  <2>1. p0 \in todo /\ p0 \in Path
    BY <1>9, Current DEF TypeOK, HardDelete
  <2>2. (todo' = todo /\ results'[p0] # "none") \/ pc' # "result"
    BY <1>9, <2>1 DEF TypeOK, HardDelete, Drop, Done, ToResult, Mutated, AppendLog
  <2> QED
    BY <2>2, CurrentStays DEF HasResult
<1>10. ASSUME NotImplemented, UNCHANGED config PROVE HasResult'
  <2>1. p0 \in todo /\ p0 \in Path
    BY <1>10, Current DEF TypeOK, NotImplemented
  <2>2. (todo' = todo /\ results'[p0] # "none") \/ pc' # "result"
    BY <1>10, <2>1 DEF TypeOK, NotImplemented, Drop, Done, ToResult, Mutated, AppendLog
  <2> QED
    BY <2>2, CurrentStays DEF HasResult
<1>11. ASSUME MoveLink, UNCHANGED config PROVE HasResult'
  <2>1. p0 \in todo /\ p0 \in Path
    BY <1>11, Current DEF TypeOK, MoveLink
  <2>2. (todo' = todo /\ results'[p0] # "none") \/ pc' # "result"
    BY <1>11, <2>1 DEF TypeOK, MoveLink, Drop, Done, ToResult, Mutated, AppendLog
  <2> QED
    BY <2>2, CurrentStays DEF HasResult
<1>12. ASSUME MoveUnlink, UNCHANGED config PROVE HasResult'
  <2>1. p0 \in todo /\ p0 \in Path
    BY <1>12, Current DEF TypeOK, MoveUnlink
  <2>2. (todo' = todo /\ results'[p0] # "none") \/ pc' # "result"
    BY <1>12, <2>1 DEF TypeOK, MoveUnlink, Drop, Done, ToResult, Mutated, AppendLog
  <2> QED
    BY <2>2, CurrentStays DEF HasResult
<1>13. ASSUME MoveRollback, UNCHANGED config PROVE HasResult'
  <2>1. p0 \in todo /\ p0 \in Path
    BY <1>13, Current DEF TypeOK, MoveRollback
  <2>2. (todo' = todo /\ results'[p0] # "none") \/ pc' # "result"
    BY <1>13, <2>1 DEF TypeOK, MoveRollback, Drop, Done, ToResult, Mutated, AppendLog
  <2> QED
    BY <2>2, CurrentStays DEF HasResult
<1>14. ASSUME LogResult, UNCHANGED config PROVE HasResult'
  <2>1. pc' # "result"
    BY <1>14 DEF LogResult, Drop, Done, ToResult, Mutated, AppendLog
  <2> QED
    BY <2>1 DEF HasResult
<1>15. ASSUME Crash, UNCHANGED config PROVE HasResult'
  <2>1. pc' # "result"
    BY <1>15 DEF Crash, Drop, Done, ToResult, Mutated, AppendLog
  <2> QED
    BY <2>1 DEF HasResult
<1>16. ASSUME OtherUser, UNCHANGED config PROVE HasResult'
  <2>1. UNCHANGED <<pc, todo, results>>
    BY <1>16 DEF OtherUser
  <2> QED
    BY <2>1, CurrentStays DEF HasResult
<1>17. ASSUME UNCHANGED vars PROVE HasResult'
  <2>1. UNCHANGED <<pc, todo, results>>
    BY <1>17 DEF vars
  <2> QED
    BY <2>1, CurrentStays DEF HasResult
<1> QED
  BY <1>1, <1>2, <1>3, <1>4, <1>5, <1>6, <1>7, <1>8, <1>9, <1>10, <1>11, <1>12, <1>13, <1>14,
      <1>15, <1>16, <1>17 DEF Next, Executor, Rest

(* The intent is on the log before the act, and the log only grows.        *)
LEMMA LoggedStep == Logged /\ [Next]_vars => Logged'
<1> SUFFICES ASSUME Logged, [Next]_vars PROVE Logged'
  OBVIOUS
<1>1. ASSUME StartJob, UNCHANGED config PROVE Logged'
  <2>1. pc' # "mutate" /\ did' = {}
    BY <1>1 DEF StartJob
  <2> QED
    BY <2>1 DEF Logged, EveryActIsLogged
<1>2. ASSUME VerifyPlan, UNCHANGED config PROVE Logged'
  <2>1. pc' # "mutate" /\ UNCHANGED <<log, did>>
    BY <1>2 DEF VerifyPlan, Drop, Done, ToResult
  <2> QED
    BY <2>1 DEF Logged, EveryActIsLogged
<1>3. ASSUME Reverify, UNCHANGED config PROVE Logged'
  <2>1. pc' # "mutate" /\ UNCHANGED <<log, did>>
    BY <1>3 DEF Reverify, Drop, Done, ToResult
  <2> QED
    BY <2>1 DEF Logged, EveryActIsLogged
<1>4. ASSUME OpenParent, UNCHANGED config PROVE Logged'
  <2>1. pc' # "mutate" /\ UNCHANGED <<log, did>>
    BY <1>4 DEF OpenParent, Drop, Done, ToResult
  <2> QED
    BY <2>1 DEF Logged, EveryActIsLogged
<1>5. ASSUME Finish, UNCHANGED config PROVE Logged'
  <2>1. pc' # "mutate" /\ UNCHANGED <<log, did>>
    BY <1>5 DEF Finish, Drop, Done, ToResult
  <2> QED
    BY <2>1 DEF Logged, EveryActIsLogged
<1>6. ASSUME Recheck, UNCHANGED config PROVE Logged'
  <2>1. pc' # "mutate" /\ UNCHANGED <<log, did>>
    BY <1>6 DEF Recheck, Drop, Done, ToResult
  <2> QED
    BY <2>1 DEF Logged, EveryActIsLogged
<1>7. ASSUME LogPending, UNCHANGED config PROVE Logged'
  <2>1. UNCHANGED did
    BY <1>7 DEF LogPending
  <2>2. \/ log' = log \cup {<<p0, "pending">>} /\ todo' = todo
        \/ log' = log /\ pc' # "mutate"
    BY <1>7 DEF LogPending, AppendLog, Drop
  <2> QED
    BY <2>1, <2>2, CurrentStays DEF Logged, EveryActIsLogged
<1>8. ASSUME Quarantine, UNCHANGED config PROVE Logged'
  <2>1. pc = "mutate" /\ pc' # "mutate" /\ log' = log /\ did' \subseteq did \cup {p0}
    BY <1>8 DEF Quarantine, Drop, ToResult, Mutated
  <2> QED
    BY <2>1 DEF Logged, EveryActIsLogged
<1>9. ASSUME HardDelete, UNCHANGED config PROVE Logged'
  <2>1. pc = "mutate" /\ pc' # "mutate" /\ log' = log /\ did' \subseteq did \cup {p0}
    BY <1>9 DEF HardDelete, Drop, ToResult, Mutated
  <2> QED
    BY <2>1 DEF Logged, EveryActIsLogged
<1>10. ASSUME NotImplemented, UNCHANGED config PROVE Logged'
  <2>1. pc' # "mutate" /\ UNCHANGED <<log, did>>
    BY <1>10 DEF NotImplemented, Drop, Done, ToResult
  <2> QED
    BY <2>1 DEF Logged, EveryActIsLogged
<1>11. ASSUME MoveLink, UNCHANGED config PROVE Logged'
  <2>1. pc = "mutate" /\ pc' # "mutate" /\ log' = log /\ did' \subseteq did \cup {p0}
    BY <1>11 DEF MoveLink, Drop, ToResult, Mutated
  <2> QED
    BY <2>1 DEF Logged, EveryActIsLogged
<1>12. ASSUME MoveUnlink, UNCHANGED config PROVE Logged'
  <2>1. pc' # "mutate" /\ UNCHANGED <<log, did>>
    BY <1>12 DEF MoveUnlink, Drop, Done, ToResult
  <2> QED
    BY <2>1 DEF Logged, EveryActIsLogged
<1>13. ASSUME MoveRollback, UNCHANGED config PROVE Logged'
  <2>1. pc' # "mutate" /\ log' = log /\ did' \subseteq did
    BY <1>13 DEF MoveRollback, ToResult
  <2> QED
    BY <2>1 DEF Logged, EveryActIsLogged
<1>14. ASSUME LogResult, UNCHANGED config PROVE Logged'
  <2>1. pc' # "mutate" /\ did' = did /\ log \subseteq log'
    BY <1>14 DEF LogResult, AppendLog, Done, Drop
  <2> QED
    BY <2>1 DEF Logged, EveryActIsLogged
<1>15. ASSUME Crash, UNCHANGED config PROVE Logged'
  <2>1. pc' # "mutate" /\ UNCHANGED <<log, did>>
    BY <1>15 DEF Crash, Drop, Done, ToResult
  <2> QED
    BY <2>1 DEF Logged, EveryActIsLogged
<1>16. ASSUME OtherUser, UNCHANGED config PROVE Logged'
  <2>1. UNCHANGED <<pc, todo, log, did>>
    BY <1>16 DEF OtherUser
  <2> QED
    BY <2>1, CurrentStays DEF Logged, EveryActIsLogged
<1>17. ASSUME UNCHANGED vars PROVE Logged'
  <2>1. UNCHANGED <<pc, todo, log, did>>
    BY <1>17 DEF vars
  <2> QED
    BY <2>1, CurrentStays DEF Logged, EveryActIsLogged
<1> QED
  BY <1>1, <1>2, <1>3, <1>4, <1>5, <1>6, <1>7, <1>8, <1>9, <1>10, <1>11, <1>12, <1>13, <1>14,
      <1>15, <1>16, <1>17 DEF Next, Executor, Rest

(* The items ahead are untouched: one item is acted on at a time.          *)
LEMMA BehindStep == Behind /\ [Next]_vars => Behind'
<1> SUFFICES ASSUME Behind, [Next]_vars PROVE Behind'
  OBVIOUS
<1>1. ASSUME StartJob, UNCHANGED config PROVE Behind'
  <2>1. did' = {}
    BY <1>1 DEF StartJob
  <2> QED
    BY <2>1 DEF Behind
<1>2. ASSUME VerifyPlan, UNCHANGED config PROVE Behind'
  <2>1. did = {} /\ did' = did
    BY <1>2 DEF Behind, VerifyPlan
  <2> QED
    BY <2>1 DEF Behind
<1>3. ASSUME Reverify, UNCHANGED config PROVE Behind'
  <2>1. did = {} /\ did' = did
    BY <1>3 DEF Behind, Reverify
  <2> QED
    BY <2>1 DEF Behind
<1>4. ASSUME OpenParent, UNCHANGED config PROVE Behind'
  <2>1. \A p \in todo : p \notin did
    BY <1>4 DEF Behind, OpenParent
  <2>2. todo' \subseteq todo /\ did' = did /\ pc' \notin {"verify", "reverify"}
    BY <1>4 DEF OpenParent, Drop
  <2> QED
    BY <2>1, <2>2 DEF Behind
<1>5. ASSUME Finish, UNCHANGED config PROVE Behind'
  <2>1. \A p \in todo : p \notin did
    BY <1>5 DEF Behind, Finish
  <2>2. todo' \subseteq todo /\ did' = did /\ pc' \notin {"verify", "reverify"}
    BY <1>5 DEF Finish
  <2> QED
    BY <2>1, <2>2 DEF Behind
<1>6. ASSUME Recheck, UNCHANGED config PROVE Behind'
  <2>1. \A p \in todo : p \notin did
    BY <1>6 DEF Behind, Recheck
  <2>2. todo' \subseteq todo /\ did' = did /\ pc' \notin {"verify", "reverify"}
    BY <1>6 DEF Recheck, Done
  <2> QED
    BY <2>1, <2>2 DEF Behind
<1>7. ASSUME LogPending, UNCHANGED config PROVE Behind'
  <2>1. \A p \in todo : p \notin did
    BY <1>7 DEF Behind, LogPending
  <2>2. todo' \subseteq todo /\ did' = did /\ pc' \notin {"verify", "reverify"}
    BY <1>7 DEF LogPending, Drop
  <2> QED
    BY <2>1, <2>2 DEF Behind
<1>8. ASSUME Quarantine, UNCHANGED config PROVE Behind'
  <2>1. \/ todo' = {} /\ pc' = "idle"
        \/ /\ todo' = todo /\ did' \subseteq did \cup {p0} /\ pc' \in {"unlink", "rollback",
            "result"}
    BY <1>8 DEF Quarantine, Drop, ToResult, Mutated
  <2> QED
    BY <2>1, CurrentStays DEF Behind
<1>9. ASSUME HardDelete, UNCHANGED config PROVE Behind'
  <2>1. \/ todo' = {} /\ pc' = "idle"
        \/ /\ todo' = todo /\ did' \subseteq did \cup {p0} /\ pc' \in {"unlink", "rollback",
            "result"}
    BY <1>9 DEF HardDelete, Drop, ToResult, Mutated
  <2> QED
    BY <2>1, CurrentStays DEF Behind
<1>10. ASSUME NotImplemented, UNCHANGED config PROVE Behind'
  <2>1. \A p \in todo : p \notin did
    BY <1>10 DEF Behind, NotImplemented
  <2>2. todo' \subseteq todo /\ did' = did /\ pc' \notin {"verify", "reverify"}
    BY <1>10 DEF NotImplemented, ToResult
  <2> QED
    BY <2>1, <2>2 DEF Behind
<1>11. ASSUME MoveLink, UNCHANGED config PROVE Behind'
  <2>1. \/ todo' = {} /\ pc' = "idle"
        \/ /\ todo' = todo /\ did' \subseteq did \cup {p0} /\ pc' \in {"unlink", "rollback",
            "result"}
    BY <1>11 DEF MoveLink, Drop, ToResult, Mutated
  <2> QED
    BY <2>1, CurrentStays DEF Behind
<1>12. ASSUME MoveUnlink, UNCHANGED config PROVE Behind'
  <2>1. \/ todo' = {} /\ pc' = "idle"
        \/ /\ todo' = todo /\ did' \subseteq did \cup {p0} /\ pc' \in {"unlink", "rollback",
            "result"}
    BY <1>12 DEF MoveUnlink, Drop, ToResult, Mutated
  <2> QED
    BY <2>1, CurrentStays DEF Behind
<1>13. ASSUME MoveRollback, UNCHANGED config PROVE Behind'
  <2>1. \/ todo' = {} /\ pc' = "idle"
        \/ /\ todo' = todo /\ did' \subseteq did \cup {p0} /\ pc' \in {"unlink", "rollback",
            "result"}
    BY <1>13 DEF MoveRollback, Drop, ToResult, Mutated
  <2> QED
    BY <2>1, CurrentStays DEF Behind
<1>14. ASSUME LogResult, UNCHANGED config PROVE Behind'
  <2>1. todo' \subseteq todo \ {p0} /\ did' = did /\ pc' \notin {"verify", "reverify"}
    BY <1>14 DEF LogResult, Done, Drop
  <2> QED
    BY <1>14, <2>1 DEF Behind
<1>15. ASSUME Crash, UNCHANGED config PROVE Behind'
  <2>1. todo' = {} /\ pc' = "idle"
    BY <1>15 DEF Crash
  <2> QED
    BY <2>1 DEF Behind
<1>16. ASSUME OtherUser, UNCHANGED config PROVE Behind'
  <2>1. UNCHANGED <<pc, todo, did>>
    BY <1>16 DEF OtherUser
  <2> QED
    BY <2>1, CurrentStays DEF Behind
<1>17. ASSUME UNCHANGED vars PROVE Behind'
  <2>1. UNCHANGED <<pc, todo, did>>
    BY <1>17 DEF vars
  <2> QED
    BY <2>1, CurrentStays DEF Behind
<1> QED
  BY <1>1, <1>2, <1>3, <1>4, <1>5, <1>6, <1>7, <1>8, <1>9, <1>10, <1>11, <1>12, <1>13, <1>14,
      <1>15, <1>16, <1>17 DEF Next, Executor, Rest

(* Another user never frees or takes a destination.                        *)
LEMMA OtherUserDest ==
    ASSUME TypeOK, OtherUser
    PROVE  \A d \in Range(Dest) : dst[d] # NoInode => dst'[d] = dst[d]
<1>1. PICK p \in Path : Overwrite(p) \/ Remove(p) \/ \E i \in Unused : Replace(p, i)
          \/ OccupyDest(p, i)
  BY DEF OtherUser
<1>2. dst' = dst \/ \E i \in Unused : dst[Dest[p]] = NoInode /\ dst' = [dst EXCEPT ![Dest[p]] = i]
  BY <1>1 DEF Overwrite, Remove, Replace, OccupyDest
<1> QED
  BY <1>2 DEF TypeOK

(* A move links before it unlinks, and never onto what is there.           *)
LEMMA MovingStep == TypeOK /\ StatusIsTrue /\ Moving /\ [Next]_vars => Moving'
<1> SUFFICES ASSUME TypeOK, StatusIsTrue, Moving, [Next]_vars PROVE Moving'
  OBVIOUS
<1>1. ASSUME StartJob, UNCHANGED config PROVE Moving'
  <2>1. pc' \notin {"unlink", "rollback"}
    BY <1>1 DEF StartJob, Drop, Done, ToResult, Mutated, AppendLog
  <2> QED
    BY <2>1 DEF Moving
<1>2. ASSUME VerifyPlan, UNCHANGED config PROVE Moving'
  <2>1. pc' \notin {"unlink", "rollback"}
    BY <1>2 DEF VerifyPlan, Drop, Done, ToResult, Mutated, AppendLog
  <2> QED
    BY <2>1 DEF Moving
<1>3. ASSUME Reverify, UNCHANGED config PROVE Moving'
  <2>1. pc' \notin {"unlink", "rollback"}
    BY <1>3 DEF Reverify, Drop, Done, ToResult, Mutated, AppendLog
  <2> QED
    BY <2>1 DEF Moving
<1>4. ASSUME OpenParent, UNCHANGED config PROVE Moving'
  <2>1. pc' \notin {"unlink", "rollback"}
    BY <1>4 DEF OpenParent, Drop, Done, ToResult, Mutated, AppendLog
  <2> QED
    BY <2>1 DEF Moving
<1>5. ASSUME Finish, UNCHANGED config PROVE Moving'
  <2>1. pc' \notin {"unlink", "rollback"}
    BY <1>5 DEF Finish, Drop, Done, ToResult, Mutated, AppendLog
  <2> QED
    BY <2>1 DEF Moving
<1>6. ASSUME Recheck, UNCHANGED config PROVE Moving'
  <2>1. pc' \notin {"unlink", "rollback"}
    BY <1>6 DEF Recheck, Drop, Done, ToResult, Mutated, AppendLog
  <2> QED
    BY <2>1 DEF Moving
<1>7. ASSUME LogPending, UNCHANGED config PROVE Moving'
  <2>1. pc' \notin {"unlink", "rollback"}
    BY <1>7 DEF LogPending, Drop, Done, ToResult, Mutated, AppendLog
  <2> QED
    BY <2>1 DEF Moving
<1>8. ASSUME Quarantine, UNCHANGED config PROVE Moving'
  <2>1. pc' \notin {"unlink", "rollback"}
    BY <1>8 DEF Quarantine, Drop, Done, ToResult, Mutated, AppendLog
  <2> QED
    BY <2>1 DEF Moving
<1>9. ASSUME HardDelete, UNCHANGED config PROVE Moving'
  <2>1. pc' \notin {"unlink", "rollback"}
    BY <1>9 DEF HardDelete, Drop, Done, ToResult, Mutated, AppendLog
  <2> QED
    BY <2>1 DEF Moving
<1>10. ASSUME NotImplemented, UNCHANGED config PROVE Moving'
  <2>1. pc' \notin {"unlink", "rollback"}
    BY <1>10 DEF NotImplemented, Drop, Done, ToResult, Mutated, AppendLog
  <2> QED
    BY <2>1 DEF Moving
<1>11. ASSUME MoveLink, UNCHANGED config PROVE Moving'
  <2>1. p0 \in todo /\ p0 \in Path
    BY <1>11, Current DEF TypeOK, MoveLink
  <2>2. (pc' = "unlink" /\ UNCHANGED results) \/ pc' \notin {"unlink", "rollback"}
    BY <1>11 DEF MoveLink, ToResult
  <2>3. CASE pc' = "unlink" /\ UNCHANGED results
    <3>1. Action[p0] = "move" /\ src[p0] # NoInode /\ dst[Dest[p0]] = NoInode /\ todo' = todo
          /\ dst' = [dst EXCEPT ![Dest[p0]] = src[p0]] /\ did' = did \cup {p0}
      BY <1>11, <2>3 DEF MoveLink, ToResult, Mutated
    <3>2. dst'[Dest[p0]] # NoInode
      BY <2>1, <3>1, PlanNames DEF TypeOK
    <3>3. \A q \in did : Dest[q] = Dest[p0] => results[q] \notin Failure
      BY <3>1 DEF StatusIsTrue, TypeOK, Failure
    <3>4. p0' = p0
      BY <3>1, CurrentStays
    <3>5. Moving'
      BY <2>3, <3>1, <3>2, <3>3, <3>4 DEF Moving
    <3> QED
      BY <3>1, <3>2, <3>3, <3>4, <3>5
  <2>4. CASE pc' \notin {"unlink", "rollback"}
    BY <2>4 DEF Moving
  <2> QED
    BY <2>2, <2>3, <2>4
<1>12. ASSUME MoveUnlink, UNCHANGED config PROVE Moving'
  <2>1. UNCHANGED <<todo, did,
      dst>> /\ ((pc = "unlink" /\ UNCHANGED results) \/ pc' \notin {"unlink", "rollback"})
    BY <1>12 DEF MoveUnlink, ToResult
  <2> QED
    BY <2>1, CurrentStays DEF Moving
<1>13. ASSUME MoveRollback, UNCHANGED config PROVE Moving'
  <2>1. pc' \notin {"unlink", "rollback"}
    BY <1>13 DEF MoveRollback, Drop, Done, ToResult, Mutated, AppendLog
  <2> QED
    BY <2>1 DEF Moving
<1>14. ASSUME LogResult, UNCHANGED config PROVE Moving'
  <2>1. pc' \notin {"unlink", "rollback"}
    BY <1>14 DEF LogResult, Drop, Done, ToResult, Mutated, AppendLog
  <2> QED
    BY <2>1 DEF Moving
<1>15. ASSUME Crash, UNCHANGED config PROVE Moving'
  <2>1. pc' \notin {"unlink", "rollback"}
    BY <1>15 DEF Crash, Drop, Done, ToResult, Mutated, AppendLog
  <2> QED
    BY <2>1 DEF Moving
<1>16. ASSUME OtherUser, UNCHANGED config PROVE Moving'
  <2>1. UNCHANGED <<pc, todo, results, did>>
    BY <1>16 DEF OtherUser
  <2>2. pc \in {"unlink", "rollback"} => p0 \in Path
    BY Current DEF TypeOK
  <2>3. pc \in {"unlink", "rollback"} => dst'[Dest[p0]] = dst[Dest[p0]]
    BY <1>16, <2>2, OtherUserDest, PlanNames DEF Moving
  <2> QED
    BY <2>1, <2>3, CurrentStays DEF Moving
<1>17. ASSUME UNCHANGED vars PROVE Moving'
  <2>1. UNCHANGED <<pc, todo, results, did, dst>>
    BY <1>17 DEF vars, fs
  <2> QED
    BY <2>1, CurrentStays DEF Moving
<1> QED
  BY <1>1, <1>2, <1>3, <1>4, <1>5, <1>6, <1>7, <1>8, <1>9, <1>10, <1>11, <1>12, <1>13, <1>14,
      <1>15, <1>16, <1>17 DEF Next, Executor, Rest

(* The status of an item is set with its act, and stays true.              *)
LEMMA StatusStep == TypeOK /\ Behind /\ Moving /\ StatusIsTrue /\ [Next]_vars => StatusIsTrue'
<1> SUFFICES ASSUME TypeOK, Behind, Moving, StatusIsTrue, [Next]_vars PROVE StatusIsTrue'
  OBVIOUS
<1>1. ASSUME StartJob, UNCHANGED config PROVE StatusIsTrue'
  <2>1. did' = {} /\ \A p \in Path : results'[p] = "none"
    BY <1>1 DEF StartJob
  <2> QED
    BY <2>1 DEF StatusIsTrue
<1>2. ASSUME VerifyPlan, UNCHANGED config PROVE StatusIsTrue'
  <2>1. did = {} /\ did' = did
    BY <1>2 DEF VerifyPlan, Behind
  <2>2. results' = results \/ \A p \in Path : results'[p] = "aborted_drift"
    BY <1>2 DEF VerifyPlan
  <2> QED
    BY <2>1, <2>2 DEF StatusIsTrue
<1>3. ASSUME Reverify, UNCHANGED config PROVE StatusIsTrue'
  <2>1. UNCHANGED <<results, did, dst>>
    BY <1>3 DEF Reverify, fs
  <2> QED
    BY <2>1 DEF StatusIsTrue
<1>4. ASSUME OpenParent, UNCHANGED config PROVE StatusIsTrue'
  <2>1. UNCHANGED <<results, did, dst>>
    BY <1>4 DEF OpenParent, fs
  <2> QED
    BY <2>1 DEF StatusIsTrue
<1>5. ASSUME Finish, UNCHANGED config PROVE StatusIsTrue'
  <2>1. UNCHANGED <<results, did, dst>>
    BY <1>5 DEF Finish, fs
  <2> QED
    BY <2>1 DEF StatusIsTrue
<1>6. ASSUME Recheck, UNCHANGED config PROVE StatusIsTrue'
  <2>1. p0 \in todo /\ p0 \in Path
    BY <1>6, Current DEF TypeOK, Recheck
  <2>2. p0 \notin did /\ UNCHANGED <<did, dst>>
    BY <1>6, <2>1 DEF Recheck, Behind, fs
  <2>3. results' = results \/ results' = [results EXCEPT ![p0] = "aborted_drift"]
    BY <1>6 DEF Recheck, Done
  <2> QED
    BY <2>1, <2>2, <2>3 DEF StatusIsTrue, TypeOK
<1>7. ASSUME LogPending, UNCHANGED config PROVE StatusIsTrue'
  <2>1. UNCHANGED <<results, did, dst>>
    BY <1>7 DEF LogPending, fs
  <2> QED
    BY <2>1 DEF StatusIsTrue
<1>8. ASSUME Quarantine, UNCHANGED config PROVE StatusIsTrue'
  <2>1. p0 \in todo /\ p0 \in Path
    BY <1>8, Current DEF TypeOK, Quarantine
  <2>2. p0 \notin did
    BY <1>8, <2>1 DEF Quarantine, Behind
  <2>3. UNCHANGED dst
    BY <1>8 DEF Quarantine, fs
  <2>4. \/ UNCHANGED <<results, did>>
        \/ \E st \in Failure : results' = [results EXCEPT ![p0] = st] /\ did' = did
        \/ results' = [results EXCEPT ![p0] = "quarantined"] /\ did' = did \cup {p0}
    BY <1>8 DEF Quarantine, ToResult, Drop, Mutated, Failure
  <2> QED
    BY <2>1, <2>2, <2>3, <2>4 DEF StatusIsTrue, TypeOK, Failure
<1>9. ASSUME HardDelete, UNCHANGED config PROVE StatusIsTrue'
  <2>1. p0 \in todo /\ p0 \in Path
    BY <1>9, Current DEF TypeOK, HardDelete
  <2>2. p0 \notin did
    BY <1>9, <2>1 DEF HardDelete, Behind
  <2>3. UNCHANGED dst
    BY <1>9 DEF HardDelete, fs
  <2>4. \/ UNCHANGED <<results, did>>
        \/ \E st \in Failure : results' = [results EXCEPT ![p0] = st] /\ did' = did
        \/ results' = [results EXCEPT ![p0] = "deleted"] /\ did' = did \cup {p0}
    BY <1>9 DEF HardDelete, ToResult, Drop, Mutated, Failure
  <2> QED
    BY <2>1, <2>2, <2>3, <2>4 DEF StatusIsTrue, TypeOK, Failure
<1>10. ASSUME NotImplemented, UNCHANGED config PROVE StatusIsTrue'
  <2>1. p0 \in todo /\ p0 \in Path
    BY <1>10, Current DEF TypeOK, NotImplemented
  <2>2. p0 \notin did
    BY <1>10, <2>1 DEF NotImplemented, Behind
  <2>3. UNCHANGED dst
    BY <1>10 DEF NotImplemented, fs
  <2>4. \/ UNCHANGED <<results, did>>
        \/ \E st \in Failure : results' = [results EXCEPT ![p0] = st] /\ did' = did
        \/ results' = [results EXCEPT ![p0] = "deleted"] /\ did' = did \cup {p0}
    BY <1>10 DEF NotImplemented, ToResult, Drop, Mutated, Failure
  <2> QED
    BY <2>1, <2>2, <2>3, <2>4 DEF StatusIsTrue, TypeOK, Failure
<1>11. ASSUME MoveLink, UNCHANGED config PROVE StatusIsTrue'
  <2>1. p0 \in todo /\ p0 \in Path
    BY <1>11, Current DEF TypeOK, MoveLink
  <2>2. p0 \notin did
    BY <1>11, <2>1 DEF MoveLink, Behind
  <2>3. \/ dst' = dst /\ did' = did /\ \E st \in Failure : results' = [results EXCEPT ![p0] = st]
        \/ /\ Action[p0] = "move" /\ src[p0] # NoInode /\ results' = results
               /\ did' = did \cup {p0}
           /\ dst' = [dst EXCEPT ![Dest[p0]] = src[p0]]
    BY <1>11 DEF MoveLink, ToResult, Mutated, Failure
  <2>4. CASE dst' = dst /\ did' = did
            /\ \E st \in Failure : results' = [results EXCEPT ![p0] = st]
    BY <2>1, <2>2, <2>4 DEF StatusIsTrue, TypeOK, Failure
  <2>5. CASE /\ Action[p0] = "move" /\ src[p0] # NoInode /\ results' = results
                 /\ did' = did \cup {p0}
             /\ dst' = [dst EXCEPT ![Dest[p0]] = src[p0]]
    <3>1. \A p \in Path : dst[Dest[p]] # NoInode => dst'[Dest[p]] # NoInode
      BY <2>1, <2>5, PlanNames DEF TypeOK
    <3>2. dst'[Dest[p0]] # NoInode
      BY <2>1, <2>5, PlanNames DEF TypeOK
    <3>3. StatusIsTrue'
      BY <2>1, <2>5, <3>1, <3>2 DEF StatusIsTrue
    <3> QED
      BY <3>1, <3>2, <3>3
  <2> QED
    BY <2>3, <2>4, <2>5
<1>12. ASSUME MoveUnlink, UNCHANGED config PROVE StatusIsTrue'
  <2>1. p0 \in todo /\ p0 \in Path
    BY <1>12, Current DEF TypeOK, MoveUnlink
  <2>2. UNCHANGED <<did,
      dst>> /\ (results' = results \/ results' = [results EXCEPT ![p0] = "moved"])
    BY <1>12 DEF MoveUnlink, ToResult
  <2>3. p0 \in did
    BY <1>12 DEF MoveUnlink, Moving
  <2> QED
    BY <2>1, <2>2, <2>3 DEF StatusIsTrue, TypeOK
<1>13. ASSUME MoveRollback, UNCHANGED config PROVE StatusIsTrue'
  <2>1. p0 \in todo /\ p0 \in Path
    BY <1>13, Current DEF TypeOK, MoveRollback
  <2>2. results' = [results EXCEPT ![p0] = "aborted_drift"]
    BY <1>13 DEF MoveRollback, ToResult
  <2>3. /\ Action[p0] = "move" /\ dst[Dest[p0]] # NoInode
        /\ \A q \in did \ {p0} : Dest[q] = Dest[p0] => results[q] \notin Failure
    BY <1>13 DEF MoveRollback, Moving
  <2>4. CASE UNCHANGED <<dst, did>>
    BY <2>1, <2>2, <2>3, <2>4 DEF StatusIsTrue, TypeOK
  <2>5. CASE dst' = [dst EXCEPT ![Dest[p0]] = NoInode] /\ did' = did \ {p0}
    <3>1. \A p \in Path : Dest[p] # Dest[p0] => dst'[Dest[p]] = dst[Dest[p]]
      BY <2>1, <2>5, PlanNames DEF TypeOK
    <3>2. \A p \in Path : p # p0 => results'[p] = results[p]
      BY <2>1, <2>2 DEF TypeOK
    <3>3. results'[p0] = "aborted_drift" /\ p0 \notin did'
      BY <2>1, <2>2, <2>5 DEF TypeOK
    <3>4. ASSUME NEW p \in Path, p # p0
            PROVE  /\ results'[p] \in {"quarantined", "moved", "deleted"} => p \in did'
                   /\ results'[p] \in Failure /\ p \in did'
                       => Action[p] = "move" /\ dst'[Dest[p]] # NoInode
      BY <2>3, <2>5, <3>1, <3>2, <3>4 DEF StatusIsTrue, Failure
    <3>5. StatusIsTrue'
      BY <3>3, <3>4 DEF StatusIsTrue, Failure
    <3> QED
      BY <3>1, <3>2, <3>3, <3>4, <3>5
  <2> QED
    BY <1>13, <2>4, <2>5 DEF MoveRollback
<1>14. ASSUME LogResult, UNCHANGED config PROVE StatusIsTrue'
  <2>1. p0 \in todo /\ p0 \in Path
    BY <1>14, Current DEF TypeOK, LogResult
  <2>2. UNCHANGED <<did,
      dst>> /\ (results' = results \/ results' = [results EXCEPT ![p0] = results[p0]])
    BY <1>14 DEF LogResult, Done, fs
  <2> QED
    BY <2>1, <2>2 DEF StatusIsTrue, TypeOK
<1>15. ASSUME Crash, UNCHANGED config PROVE StatusIsTrue'
  <2>1. \A p \in Path : results'[p] = "none"
    BY <1>15 DEF Crash
  <2> QED
    BY <2>1 DEF StatusIsTrue
<1>16. ASSUME OtherUser, UNCHANGED config PROVE StatusIsTrue'
  <2>1. UNCHANGED <<results, did>>
    BY <1>16 DEF OtherUser
  <2>2. \A p \in Path : dst[Dest[p]] # NoInode => dst'[Dest[p]] = dst[Dest[p]]
    BY <1>16, OtherUserDest, PlanNames
  <2> QED
    BY <2>1, <2>2 DEF StatusIsTrue
<1>17. ASSUME UNCHANGED vars PROVE StatusIsTrue'
  <2>1. UNCHANGED <<results, did, dst>>
    BY <1>17 DEF vars, fs
  <2> QED
    BY <2>1 DEF StatusIsTrue
<1> QED
  BY <1>1, <1>2, <1>3, <1>4, <1>5, <1>6, <1>7, <1>8, <1>9, <1>10, <1>11, <1>12, <1>13, <1>14,
      <1>15, <1>16, <1>17 DEF Next, Executor, Rest

(* Another user leaves a path alone, clears it or puts a new file there,   *)
(* and is then the one who took the file of the plan from it.              *)
LEMMA OtherUserSrc ==
    ASSUME TypeOK, Places, OtherUser
    PROVE  /\ quar' = quar /\ disowned \subseteq disowned'
           /\ \A p \in Path : src'[p] = src[p] \/ src'[p] \in {NoInode} \cup Fresh
           /\ \A p \in Path : src[p] = prior_inode[p] /\ src'[p] # prior_inode[p]
                                  => prior_inode[p] \in disowned'
<1>1. PICK p \in Path : Overwrite(p) \/ Remove(p) \/ \E i \in Unused : Replace(p, i)
          \/ OccupyDest(p, i)
  BY DEF OtherUser
<1>2. quar' = quar /\ (src' = src \/ \E i \in {NoInode} \cup Fresh : src' = [src EXCEPT ![p] = i])
  BY <1>1 DEF Overwrite, Remove, Replace, OccupyDest, Unused
<1>3. \A q \in Path : src'[q] = src[q] \/ src'[q] \in {NoInode} \cup Fresh
  BY <1>2 DEF TypeOK
<1>4. disowned' = disowned \cup (Range(src) \ (Range(src') \cup {NoInode}))
  BY DEF OtherUser
<1>5. DOMAIN src = Path /\ DOMAIN src' = Path
  BY <1>2 DEF TypeOK
<1>6. ASSUME NEW q \in Path, src[q] = prior_inode[q], src'[q] # prior_inode[q]
      PROVE  prior_inode[q] \in disowned'
  <2>1. prior_inode[q] \in Range(src)
    BY <1>5, <1>6 DEF Range
  <2>2. \A x \in Path : src'[x] # prior_inode[q]
    BY <1>3, <1>6, PlanNames DEF Places
  <2>3. prior_inode[q] \notin Range(src')
    BY <1>5, <2>2 DEF Range
  <2> QED
    BY <1>4, <2>1, <2>3, PlanNames
<1> QED
  BY <1>2, <1>3, <1>4, <1>6

(* The files of the plan only move from their paths to their own places.   *)
LEMMA PlacesStep == TypeOK /\ Places /\ [Next]_vars => Places'
<1> SUFFICES ASSUME TypeOK, Places, [Next]_vars PROVE Places'
  OBVIOUS
<1>1. ASSUME StartJob, UNCHANGED config PROVE Places'
  <2>1. UNCHANGED <<src, quar>>
    BY <1>1 DEF StartJob, fs
  <2> QED
    BY <2>1 DEF Places
<1>2. ASSUME VerifyPlan, UNCHANGED config PROVE Places'
  <2>1. UNCHANGED <<src, quar>>
    BY <1>2 DEF VerifyPlan, fs
  <2> QED
    BY <2>1 DEF Places
<1>3. ASSUME Reverify, UNCHANGED config PROVE Places'
  <2>1. UNCHANGED <<src, quar>>
    BY <1>3 DEF Reverify, fs
  <2> QED
    BY <2>1 DEF Places
<1>4. ASSUME OpenParent, UNCHANGED config PROVE Places'
  <2>1. UNCHANGED <<src, quar>>
    BY <1>4 DEF OpenParent, fs
  <2> QED
    BY <2>1 DEF Places
<1>5. ASSUME Finish, UNCHANGED config PROVE Places'
  <2>1. UNCHANGED <<src, quar>>
    BY <1>5 DEF Finish, fs
  <2> QED
    BY <2>1 DEF Places
<1>6. ASSUME Recheck, UNCHANGED config PROVE Places'
  <2>1. UNCHANGED <<src, quar>>
    BY <1>6 DEF Recheck, fs
  <2> QED
    BY <2>1 DEF Places
<1>7. ASSUME LogPending, UNCHANGED config PROVE Places'
  <2>1. UNCHANGED <<src, quar>>
    BY <1>7 DEF LogPending, fs
  <2> QED
    BY <2>1 DEF Places
<1>8. ASSUME Quarantine, UNCHANGED config PROVE Places'
  <2>1. p0 \in todo /\ p0 \in Path
    BY <1>8, Current DEF TypeOK, Quarantine
  <2>2. \/ UNCHANGED <<src, quar>>
        \/ /\ quar' = [quar EXCEPT ![quarantine_name(p0)] = src[p0]]
           /\ src' = [src EXCEPT ![p0] = NoInode]
    BY <1>8 DEF Quarantine
  <2>3. CASE UNCHANGED <<src, quar>>
    BY <2>3 DEF Places
  <2>4. CASE /\ quar' = [quar EXCEPT ![quarantine_name(p0)] = src[p0]]
             /\ src' = [src EXCEPT ![p0] = NoInode]
    <3>1. src'[p0] = NoInode /\ \A p \in Path : p # p0 => src'[p] = src[p]
      BY <2>1, <2>4 DEF TypeOK
    <3>2. quar'[quarantine_name(p0)] = src[p0]
      BY <2>1, <2>4, PlanNames DEF TypeOK
    <3>3. \A p \in Path : p # p0 => quar'[quarantine_name(p)] = quar[quarantine_name(p)]
      BY <2>1, <2>4, PlanNames DEF TypeOK
    <3>4. Places'
      BY <2>1, <3>1, <3>2, <3>3, PlanNames DEF Places, quarantine_name
    <3> QED
      BY <3>1, <3>2, <3>3, <3>4
  <2> QED
    BY <2>2, <2>3, <2>4
<1>9. ASSUME HardDelete, UNCHANGED config PROVE Places'
  <2>1. p0 \in todo /\ p0 \in Path
    BY <1>9, Current DEF TypeOK, HardDelete
  <2>2. UNCHANGED <<quar>>
    BY <1>9 DEF HardDelete
  <2>3. src' = src \/ src' = [src EXCEPT ![p0] = NoInode]
    BY <1>9 DEF HardDelete
  <2>4. \A p \in Path : src'[p] = src[p] \/ src'[p] = NoInode
    BY <2>1, <2>3 DEF TypeOK
  <2> QED
    BY <2>2, <2>4, PlanNames DEF Places
<1>10. ASSUME NotImplemented, UNCHANGED config PROVE Places'
  <2>1. UNCHANGED <<src, quar>>
    BY <1>10 DEF NotImplemented, fs
  <2> QED
    BY <2>1 DEF Places
<1>11. ASSUME MoveLink, UNCHANGED config PROVE Places'
  <2>1. UNCHANGED <<src, quar>>
    BY <1>11 DEF MoveLink, fs
  <2> QED
    BY <2>1 DEF Places
<1>12. ASSUME MoveUnlink, UNCHANGED config PROVE Places'
  <2>1. p0 \in todo /\ p0 \in Path
    BY <1>12, Current DEF TypeOK, MoveUnlink
  <2>2. UNCHANGED <<quar>>
    BY <1>12 DEF MoveUnlink
  <2>3. src' = src \/ src' = [src EXCEPT ![p0] = NoInode]
    BY <1>12 DEF MoveUnlink
  <2>4. \A p \in Path : src'[p] = src[p] \/ src'[p] = NoInode
    BY <2>1, <2>3 DEF TypeOK
  <2> QED
    BY <2>2, <2>4, PlanNames DEF Places
<1>13. ASSUME MoveRollback, UNCHANGED config PROVE Places'
  <2>1. UNCHANGED <<src, quar>>
    BY <1>13 DEF MoveRollback, fs
  <2> QED
    BY <2>1 DEF Places
<1>14. ASSUME LogResult, UNCHANGED config PROVE Places'
  <2>1. UNCHANGED <<src, quar>>
    BY <1>14 DEF LogResult, fs
  <2> QED
    BY <2>1 DEF Places
<1>15. ASSUME Crash, UNCHANGED config PROVE Places'
  <2>1. UNCHANGED <<src, quar>>
    BY <1>15 DEF Crash, fs
  <2> QED
    BY <2>1 DEF Places
<1>16. ASSUME OtherUser, UNCHANGED config PROVE Places'
  <2>1. quar' = quar /\ \A p \in Path : src'[p] = src[p] \/ src'[p] \in {NoInode} \cup Fresh
    BY <1>16, OtherUserSrc
  <2> QED
    BY <2>1, PlanNames DEF Places
<1>17. ASSUME UNCHANGED vars PROVE Places'
  <2>1. UNCHANGED <<src, quar>>
    BY <1>17 DEF vars, fs
  <2> QED
    BY <2>1 DEF Places
<1> QED
  BY <1>1, <1>2, <1>3, <1>4, <1>5, <1>6, <1>7, <1>8, <1>9, <1>10, <1>11, <1>12, <1>13, <1>14,
      <1>15, <1>16, <1>17 DEF Next, Executor, Rest

(* Neither a quarantine nor a move finds its own file at the other end, and *)
(* a rollback removes a second name only.                                  *)
LEMMA ReadyStep == TypeOK /\ Moving /\ Places /\ Ready /\ [Next]_vars => Ready'
<1> SUFFICES ASSUME TypeOK, Moving, Places, Ready, [Next]_vars PROVE Ready'
  OBVIOUS
<1>1. ASSUME StartJob, UNCHANGED config PROVE Ready'
  <2>1. pc' \notin {"log", "mutate", "unlink", "rollback"}
    BY <1>1 DEF StartJob, Drop, Done, ToResult, Mutated, AppendLog
  <2> QED
    BY <2>1 DEF Ready
<1>2. ASSUME VerifyPlan, UNCHANGED config PROVE Ready'
  <2>1. pc' \notin {"log", "mutate", "unlink", "rollback"}
    BY <1>2 DEF VerifyPlan, Drop, Done, ToResult, Mutated, AppendLog
  <2> QED
    BY <2>1 DEF Ready
<1>3. ASSUME Reverify, UNCHANGED config PROVE Ready'
  <2>1. pc' \notin {"log", "mutate", "unlink", "rollback"}
    BY <1>3 DEF Reverify, Drop, Done, ToResult, Mutated, AppendLog
  <2> QED
    BY <2>1 DEF Ready
<1>4. ASSUME OpenParent, UNCHANGED config PROVE Ready'
  <2>1. pc' \notin {"log", "mutate", "unlink", "rollback"}
    BY <1>4 DEF OpenParent, Drop, Done, ToResult, Mutated, AppendLog
  <2> QED
    BY <2>1 DEF Ready
<1>5. ASSUME Finish, UNCHANGED config PROVE Ready'
  <2>1. pc' \notin {"log", "mutate", "unlink", "rollback"}
    BY <1>5 DEF Finish, Drop, Done, ToResult, Mutated, AppendLog
  <2> QED
    BY <2>1 DEF Ready
<1>6. ASSUME Recheck, UNCHANGED config PROVE Ready'
  <2>1. p0 \in todo /\ p0 \in Path
    BY <1>6, Current DEF TypeOK, Recheck
  <2>2. UNCHANGED <<src, quar>>
    BY <1>6 DEF Recheck, fs
  <2>3. (pc' = "log" /\ todo' = todo /\ src[p0] = prior_inode[p0]) \/ pc' \notin {"log",
      "mutate", "unlink", "rollback"}
    BY <1>6 DEF Recheck, Done, _recheck, Intact
  <2> QED
    BY <2>1, <2>2, <2>3, CurrentStays DEF Ready, Places, quarantine_name
<1>7. ASSUME LogPending, UNCHANGED config PROVE Ready'
  <2>1. UNCHANGED <<src, quar>>
    BY <1>7 DEF LogPending, fs
  <2>2. (pc = "log" /\ pc' = "mutate" /\ todo' = todo) \/ pc' \notin {"log", "mutate",
      "unlink", "rollback"}
    BY <1>7 DEF LogPending, Drop
  <2> QED
    BY <2>1, <2>2, CurrentStays DEF Ready, quarantine_name
<1>8. ASSUME Quarantine, UNCHANGED config PROVE Ready'
  <2>1. pc' \notin {"log", "mutate", "unlink", "rollback"}
    BY <1>8 DEF Quarantine, Drop, Done, ToResult, Mutated, AppendLog
  <2> QED
    BY <2>1 DEF Ready
<1>9. ASSUME HardDelete, UNCHANGED config PROVE Ready'
  <2>1. pc' \notin {"log", "mutate", "unlink", "rollback"}
    BY <1>9 DEF HardDelete, Drop, Done, ToResult, Mutated, AppendLog
  <2> QED
    BY <2>1 DEF Ready
<1>10. ASSUME NotImplemented, UNCHANGED config PROVE Ready'
  <2>1. pc' \notin {"log", "mutate", "unlink", "rollback"}
    BY <1>10 DEF NotImplemented, Drop, Done, ToResult, Mutated, AppendLog
  <2> QED
    BY <2>1 DEF Ready
<1>11. ASSUME MoveLink, UNCHANGED config PROVE Ready'
  <2>1. p0 \in todo /\ p0 \in Path
    BY <1>11, Current DEF TypeOK, MoveLink
  <2>2. \/ pc' \notin {"log", "mutate", "unlink", "rollback"}
        \/ /\ pc' = "unlink" /\ src[p0] # NoInode
           /\ dst' = [dst EXCEPT ![Dest[p0]] = src[p0]] /\ UNCHANGED <<src, todo>>
    BY <1>11 DEF MoveLink, ToResult
  <2>3. CASE pc' \notin {"log", "mutate", "unlink", "rollback"}
    BY <2>3 DEF Ready
  <2>4. CASE /\ pc' = "unlink" /\ src[p0] # NoInode
             /\ dst' = [dst EXCEPT ![Dest[p0]] = src[p0]] /\ UNCHANGED <<src, todo>>
    <3>1. dst'[Dest[p0]] = src[p0] /\ src[p0] \in {prior_inode[p0]} \cup Fresh
      BY <2>1, <2>4, PlanNames DEF TypeOK, Places
    <3>2. p0' = p0
      BY <2>4, CurrentStays
    <3>3. Ready'
      BY <2>4, <3>1, <3>2 DEF Ready
    <3> QED
      BY <3>1, <3>2, <3>3
  <2> QED
    BY <2>2, <2>3, <2>4
<1>12. ASSUME MoveUnlink, UNCHANGED config PROVE Ready'
  <2>1. pc' \notin {"log", "mutate", "unlink"}
       /\ (pc' = "rollback" => pc = "unlink" /\ UNCHANGED <<src, dst, todo, disowned>>)
    BY <1>12 DEF MoveUnlink, ToResult
  <2> QED
    BY <2>1, CurrentStays DEF Ready
<1>13. ASSUME MoveRollback, UNCHANGED config PROVE Ready'
  <2>1. pc' \notin {"log", "mutate", "unlink", "rollback"}
    BY <1>13 DEF MoveRollback, Drop, Done, ToResult, Mutated, AppendLog
  <2> QED
    BY <2>1 DEF Ready
<1>14. ASSUME LogResult, UNCHANGED config PROVE Ready'
  <2>1. pc' \notin {"log", "mutate", "unlink", "rollback"}
    BY <1>14 DEF LogResult, Drop, Done, ToResult, Mutated, AppendLog
  <2> QED
    BY <2>1 DEF Ready
<1>15. ASSUME Crash, UNCHANGED config PROVE Ready'
  <2>1. pc' \notin {"log", "mutate", "unlink", "rollback"}
    BY <1>15 DEF Crash, Drop, Done, ToResult, Mutated, AppendLog
  <2> QED
    BY <2>1 DEF Ready
<1>16. ASSUME OtherUser, UNCHANGED config PROVE Ready'
  <2>1. UNCHANGED <<pc, todo>>
    BY <1>16 DEF OtherUser
  <2>2. pc \in {"log", "mutate", "unlink", "rollback"} => p0 \in Path
    BY Current DEF TypeOK
  <2>3. pc \in {"unlink", "rollback"} => dst'[Dest[p0]] = dst[Dest[p0]]
    BY <1>16, <2>2, OtherUserDest, PlanNames DEF Moving
  <2>4. /\ quar' = quar /\ disowned \subseteq disowned'
        /\ \A p \in Path : src'[p] = src[p] \/ src'[p] \in {NoInode} \cup Fresh
        /\ \A p \in Path : src[p] = prior_inode[p] /\ src'[p] # prior_inode[p]
                               => prior_inode[p] \in disowned'
    BY <1>16, OtherUserSrc
  <2>5. p0' = p0 /\ quarantine_name(p0)' = quarantine_name(p0)
    BY <2>1, CurrentStays DEF quarantine_name
  <2> QED
    BY <2>1, <2>2, <2>3, <2>4, <2>5, PlanNames DEF Ready
<1>17. ASSUME UNCHANGED vars PROVE Ready'
  <2>1. UNCHANGED <<pc, todo, src, quar, dst, disowned>>
    BY <1>17 DEF vars, fs
  <2> QED
    BY <2>1, CurrentStays DEF Ready, quarantine_name
<1> QED
  BY <1>1, <1>2, <1>3, <1>4, <1>5, <1>6, <1>7, <1>8, <1>9, <1>10, <1>11, <1>12, <1>13, <1>14,
      <1>15, <1>16, <1>17 DEF Next, Executor, Rest

-----------------------------------------------------------------------------
(* The theorems.                                                           *)

(* Before the first job every file is at its path.                         *)
LEMMA InitIInv == Init => IInv
<1> SUFFICES ASSUME Init PROVE IInv
  OBVIOUS
<1>1. prior_inode \in [Path -> Inode]
  BY ExecutorConstants DEF Inode
<1>2. TypeOK /\ HasResult
  BY <1>1, ExecutorConstants DEF Init, TypeOK, HasResult, Status
<1>3. Logged /\ Behind /\ Moving /\ Ready
  BY DEF Init, Logged, EveryActIsLogged, Behind, Moving, Ready
<1>4. StatusIsTrue
  BY DEF Init, StatusIsTrue
<1>5. Places
  BY PlanNames DEF Init, Places
<1> QED
  BY <1>2, <1>3, <1>4, <1>5 DEF IInv

(* Every step of the executor, a crash and any other user keep it.         *)
LEMMA StepIInv == IInv /\ [Next]_vars => IInv'
  BY TypeStep, HasResultStep, LoggedStep, BehindStep, MovingStep, StatusStep, PlacesStep,
     ReadyStep DEF IInv

(* The invariant holds in every reachable state.                           *)
LEMMA Invariance == Spec => []IInv
  BY InitIInv, StepIInv, PTL DEF Spec

(* The state always has its type; there is a current item while one is     *)
(* acted on.                                                               *)
THEOREM ExecutorTypes == Spec => []TypeOK
<1>1. IInv => TypeOK
  BY DEF IInv
<1> QED
  BY <1>1, Invariance, PTL

(* Every file the executor has touched has its intent on disk, whatever    *)
(* crashes and however the batch ends (_FileAuditSink, Executor._act).     *)
THEOREM ActsAreLogged == Spec => []EveryActIsLogged
<1>1. IInv => EveryActIsLogged
  BY DEF IInv, Logged
<1> QED
  BY <1>1, Invariance, PTL

(* A status says an item was acted on exactly when it was, but for a move  *)
(* whose rollback failed as well (Executor._move).                         *)
THEOREM StatusesAreTrue == Spec => []StatusIsTrue
<1>1. IInv => StatusIsTrue
  BY DEF IInv
<1> QED
  BY <1>1, Invariance, PTL

(* What a name map holds.                                                  *)
LEMMA NamedBy ==
    ASSUME TypeOK, NEW x \in Named(src, quar, dst)
    PROVE  \/ \E p \in Path : src[p] = x
           \/ \E q \in QName : quar[q] = x
           \/ \E d \in Range(Dest) : dst[d] = x
  BY DEF Named, Range, TypeOK

(* A file that some name leads to after a step is a named file.            *)
LEMMA NamedAfter ==
    ASSUME TypeOK', NEW x, x # NoInode,
           \/ \E p \in Path : src'[p] = x
           \/ \E q \in QName : quar'[q] = x
           \/ \E d \in Range(Dest) : dst'[d] = x
    PROVE  x \in Named(src', quar', dst')
  BY DEF Named, Range, TypeOK

(* A step of the executor but a deletion keeps a name for every file of    *)
(* the plan that has one and that nobody else took.                        *)
LEMMA StepKeepsNames ==
    ASSUME IInv, TypeOK', Executor, ~HardDelete,
           NEW x \in (Named(src, quar, dst) \cap Range(prior_inode)) \ disowned
    PROVE  x \in Named(src', quar', dst')
<1>1. PICK k \in Path : x = prior_inode[k]
  BY ExecutorConstants DEF Range
<1>2. x # NoInode /\ x \notin Fresh
  BY <1>1, PlanNames
<1>3. \/ \E p \in Path : src[p] = x
      \/ \E q \in QName : quar[q] = x
      \/ \E d \in Range(Dest) : dst[d] = x
  BY NamedBy DEF IInv
<1>4. CASE UNCHANGED <<src, quar, dst>>
  BY <1>2, <1>3, <1>4, NamedAfter
<1>5. CASE Quarantine /\ ~UNCHANGED <<src, quar, dst>>
  <2>1. p0 \in Path /\ pc = "mutate"
    BY <1>5, Current DEF IInv, TypeOK, Quarantine
  <2>2. /\ quar' = [quar EXCEPT ![quarantine_name(p0)] = src[p0]]
        /\ src' = [src EXCEPT ![p0] = NoInode]
        /\ dst' = dst
    BY <1>5 DEF Quarantine
  <2>3. quar[quarantine_name(p0)] # x
    BY <1>1, <1>2, <2>1, PlanNames DEF IInv, Places, Ready
  <2>4. quar'[quarantine_name(p0)] = src[p0] /\ quarantine_name(p0) \in QName
    BY <2>1, <2>2, PlanNames DEF IInv, TypeOK
  <2>5. \A p \in Path : p # p0 => src'[p] = src[p]
    BY <2>1, <2>2 DEF IInv, TypeOK
  <2>6. \A q \in QName : q # quarantine_name(p0) => quar'[q] = quar[q]
    BY <2>2 DEF IInv, TypeOK
  <2> QED
    BY <1>2, <1>3, <2>2, <2>3, <2>4, <2>5, <2>6, NamedAfter
<1>6. CASE MoveLink /\ ~UNCHANGED <<src, quar, dst>>
  <2>1. p0 \in Path /\ Dest[p0] \in Range(Dest)
    BY <1>6, Current, PlanNames DEF IInv, TypeOK, MoveLink
  <2>2. /\ dst[Dest[p0]] = NoInode
        /\ dst' = [dst EXCEPT ![Dest[p0]] = src[p0]]
        /\ UNCHANGED <<src, quar>>
    BY <1>6 DEF MoveLink
  <2>3. \A d \in Range(Dest) : d # Dest[p0] => dst'[d] = dst[d]
    BY <2>2 DEF IInv, TypeOK
  <2> QED
    BY <1>2, <1>3, <2>2, <2>3, NamedAfter
<1>7. CASE MoveUnlink /\ ~UNCHANGED <<src, quar, dst>>
  <2>1. p0 \in Path /\ Dest[p0] \in Range(Dest)
    BY <1>7, Current, PlanNames DEF IInv, TypeOK, MoveUnlink
  <2>2. src' = [src EXCEPT ![p0] = NoInode] /\ UNCHANGED <<quar, dst>> /\ pc = "unlink"
    BY <1>7 DEF MoveUnlink
  <2>3. src[p0] = x => dst[Dest[p0]] = x
    BY <1>1, <1>2, <2>1, <2>2, PlanNames DEF IInv, Places, Ready
  <2>4. \A p \in Path : p # p0 => src'[p] = src[p]
    BY <2>1, <2>2 DEF IInv, TypeOK
  <2> QED
    BY <1>2, <1>3, <2>1, <2>2, <2>3, <2>4, NamedAfter
<1>8. CASE MoveRollback /\ ~UNCHANGED <<src, quar, dst>>
  <2>1. p0 \in Path /\ Dest[p0] \in Range(Dest)
    BY <1>8, Current, PlanNames DEF IInv, TypeOK, MoveRollback
  <2>2. dst' = [dst EXCEPT ![Dest[p0]] = NoInode] /\ UNCHANGED <<src, quar>> /\ pc = "rollback"
    BY <1>8 DEF MoveRollback
  <2>3. dst[Dest[p0]] = x => src[p0] = x
    BY <1>1, <1>2, <2>1, <2>2, PlanNames DEF IInv, Ready
  <2>4. \A d \in Range(Dest) : d # Dest[p0] => dst'[d] = dst[d]
    BY <2>2 DEF IInv, TypeOK
  <2> QED
    BY <1>2, <1>3, <2>1, <2>2, <2>3, <2>4, NamedAfter
<1> QED
  BY <1>4, <1>5, <1>6, <1>7, <1>8 DEF Executor, VerifyPlan, Reverify, OpenParent, Finish,
     Recheck, LogPending, NotImplemented, LogResult, fs

(* Quarantine and move never take the last name of a file of the plan from *)
(* its owner, whatever other users do to the names meanwhile.              *)
THEOREM PlanFilesAreKept == Spec => PlanFilesKeepAName
<1>1. IInv /\ TypeOK' /\ Executor /\ ~HardDelete =>
          (Named(src, quar, dst) \cap Range(prior_inode)) \ disowned
              \subseteq Named(src', quar', dst')
  BY StepKeepsNames
<1>2. IInv /\ IInv' =>
          (Executor /\ ~HardDelete => (Named(src, quar, dst) \cap Range(prior_inode)) \ disowned
                       \subseteq Named(src', quar', dst'))
  BY <1>1 DEF IInv
<1> QED
  BY <1>2, Invariance, PTL DEF PlanFilesKeepAName

=============================================================================
