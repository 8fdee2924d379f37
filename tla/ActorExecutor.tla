---------------------------- MODULE ActorExecutor ----------------------------
(***************************************************************************)
(* The agent's guarded executor: agent/actor/executor.py, planner.py, the  *)
(* execute branch of dispatch.py and the durable act log of listen.py.     *)
(*                                                                         *)
(* One job at a time is verified and its items are acted on one after the  *)
(* other, while other users of the host change the same files between any  *)
(* two system calls and the agent may die between any two steps.           *)
(*                                                                         *)
(* A file system is a map from names to inodes: the plan's paths, the      *)
(* quarantine directory and the destinations of moves.  A name that maps   *)
(* to NoInode does not exist.                                              *)
(***************************************************************************)
EXTENDS Naturals, Functions

CONSTANTS
    Path,            \* the paths of the plan's items
    Rank,            \* Rank[p]: the item's place in the plan
    Action,          \* Action[p]: "quarantine", "hard_delete", "move", "hardlink"
    prior_inode,     \* prior_inode[p]: the inode in the catalogue
    Base,            \* Base[p]: the last component of the path
    Dest,            \* Dest[p]: where a move takes it, or NoDest
    Hashed,          \* the items with a prior_hash
    Fresh,           \* inodes that other users may create
    MaxChanges,      \* bound: changes made by other users
    MaxRuns,         \* bound: jobs executed
    MaxCrashes       \* bound: restarts of the agent

NoInode == "no inode"
NoDest == "no destination"
Inode == Range(prior_inode) \cup Fresh
QName == Inode \X Range(Base)

ASSUME ExecutorConstants ==
    /\ Rank \in [Path -> Nat] /\ IsInjective(Rank)
    /\ prior_inode \in [Path -> Range(prior_inode)]
    /\ DOMAIN Base = Path /\ DOMAIN Dest = Path
    /\ IsInjective(prior_inode)   \* uq_fs_entry_identity: one row per inode
    /\ Fresh \cap Range(prior_inode) = {}   \* other users make new files
    /\ Action \in [Path -> {"quarantine", "hard_delete", "move", "hardlink"}]
    /\ Hashed \subseteq Path
    /\ MaxChanges \in Nat /\ MaxRuns \in Nat /\ MaxCrashes \in Nat
    /\ NoInode \notin Inode

VARIABLES
    allow_hard_delete,   \* how the executor was built
    src,       \* the plan's paths
    quar,      \* the quarantine directory
    dst,       \* the destinations
    edited,    \* inodes whose content is no longer the approved content
    pc,        \* what the executor is about to do
    todo,      \* the items still to act on
    results,   \* the status of each item of this job
    log,       \* the records of the act log on disk (_FileAuditSink)
    did,       \* history: the items whose mutation this job carried out
    disowned,  \* history: inodes another user took from a path
    changes, runs, crashes

fs == <<src, quar, dst, edited>>
config == <<allow_hard_delete>>
bounds == <<changes, runs, crashes>>
vars == <<config, fs, pc, todo, results, log, did, disowned, bounds>>

Status == {"none", "pending", "quarantined", "deleted", "moved",
           "aborted_drift", "skipped_disabled"}

TypeOK ==
    /\ allow_hard_delete \in BOOLEAN
    /\ src \in [Path -> Inode \cup {NoInode}]
    /\ quar \in [QName -> Inode \cup {NoInode}]
    /\ dst \in [Range(Dest) -> Inode \cup {NoInode}]
    /\ edited \subseteq Inode
    /\ pc \in {"idle", "verify", "reverify", "open", "recheck", "log",
               "mutate", "unlink", "rollback", "result"}
    /\ todo \subseteq Path
    /\ results \in [Path -> Status]
    /\ log \subseteq Path \X (Status \ {"none"})
    /\ did \subseteq Path /\ disowned \subseteq Inode
    /\ changes \in 0 .. MaxChanges /\ runs \in 0 .. MaxRuns /\ crashes \in 0 .. MaxCrashes
    /\ pc \in {"recheck", "log", "mutate", "unlink", "rollback", "result"} => todo # {}

Init ==
    /\ allow_hard_delete \in BOOLEAN
    /\ src = prior_inode
    /\ quar = [q \in QName |-> NoInode]
    /\ dst = [d \in Range(Dest) |-> NoInode]
    /\ edited = {}
    /\ pc = "idle"
    /\ todo = {}
    /\ results = [p \in Path |-> "none"]
    /\ log = {}
    /\ did = {} /\ disowned = {}
    /\ changes = 0 /\ runs = 0 /\ crashes = 0

-----------------------------------------------------------------------------
(* Verification.                                                           *)

(* _verify_item: present, same inode (and size), same content when there   *)
(* is a hash to compare.                                                   *)
Intact(p) ==
    /\ src[p] = prior_inode[p]
    /\ p \in Hashed => src[p] \notin edited

(* Executor._recheck: the same through the parent's descriptor, and an     *)
(* irreversible action needs a hash.                                       *)
_recheck(p) == Intact(p) /\ (Action[p] = "hard_delete" => p \in Hashed)

StartJob ==
    /\ pc = "idle" /\ runs < MaxRuns
    /\ runs' = runs + 1
    /\ pc' = "verify"
    /\ todo' = Path
    /\ results' = [p \in Path |-> "none"]
    /\ did' = {}
    /\ UNCHANGED <<fs, log, disowned, changes, crashes>>

Drop ==
    /\ pc' = "idle"
    /\ todo' = {}

(* dispatch_execute: drifted items are left out; if there were any, the    *)
(* rest is verified once more.                                             *)
VerifyPlan ==
    LET clean == {p \in todo : Intact(p)}
    IN /\ pc = "verify"
       /\ todo' = clean
       /\ \/ clean = todo /\ pc' = "open" /\ UNCHANGED results
          \/ clean # todo /\ clean # {} /\ pc' = "reverify" /\ UNCHANGED results
          \/ /\ clean = {}
             /\ pc' = "idle"
             /\ results' = [p \in Path |-> "aborted_drift"]
       /\ UNCHANGED <<fs, log, did, disowned, bounds>>

(* The executor refuses a report with drift: ValueError, the job is        *)
(* dropped.                                                                *)
Reverify ==
    /\ pc = "reverify"
    /\ IF \A p \in todo : Intact(p)
       THEN pc' = "open" /\ UNCHANGED todo
       ELSE Drop
    /\ UNCHANGED <<fs, results, log, did, disowned, bounds>>

-----------------------------------------------------------------------------
(* Executor._act, for the item that is next in the order of the plan.      *)

p0 == CHOOSE p \in todo : \A q \in todo : Rank[p] <= Rank[q]

Done(status) ==
    /\ results' = [results EXCEPT ![p0] = status]
    /\ todo' = todo \ {p0}
    /\ pc' = "open"

(* The parent directory is opened outside any handler: an error there ends *)
(* the whole batch.                                                        *)
OpenParent ==
    /\ pc = "open" /\ todo # {}
    /\ \/ pc' = "recheck" /\ UNCHANGED todo
       \/ Drop
    /\ UNCHANGED <<fs, results, log, did, disowned, bounds>>

Finish ==
    /\ pc = "open" /\ todo = {}
    /\ pc' = "idle"
    /\ UNCHANGED <<fs, todo, results, log, did, disowned, bounds>>

Recheck ==
    /\ pc = "recheck"
    /\ \/ ~_recheck(p0) /\ Done("aborted_drift")
       \/ _recheck(p0) /\ pc' = "log" /\ UNCHANGED <<todo, results>>
    /\ UNCHANGED <<fs, log, did, disowned, bounds>>

AppendLog(status) == log' = log \cup {<<p0, status>>}

(* Faulty variant: the intent is only kept in memory.                      *)
LogPendingInMemory ==
    /\ pc = "log"
    /\ pc' = "mutate"
    /\ UNCHANGED <<fs, todo, results, log, did, disowned, bounds>>

(* Audit-before-act.  A sink that cannot write raises: nothing is mutated  *)
(* and the batch ends.                                                     *)
LogPending ==
    /\ pc = "log"
    /\ \/ AppendLog("pending") /\ pc' = "mutate" /\ UNCHANGED todo
       \/ Drop /\ UNCHANGED log
    /\ UNCHANGED <<fs, results, did, disowned, bounds>>

ToResult(status) ==
    /\ results' = [results EXCEPT ![p0] = status]
    /\ pc' = "result"

Mutated == did' = did \cup {p0}

quarantine_name(p) == <<prior_inode[p], Base[p]>>

(* Faulty variant: a rename that fails is reported as done.                *)
QuarantineSwallowsError ==
    /\ pc = "mutate" /\ Action[p0] = "quarantine"
    /\ ToResult("quarantined")
    /\ UNCHANGED <<fs, todo, log, did, disowned, bounds>>

(* rename(2) replaces the target.  Its OSError is reported for this item;  *)
(* one from opening the quarantine directory ends the batch.               *)
Quarantine ==
    /\ pc = "mutate" /\ Action[p0] = "quarantine"
    /\ \/ Drop /\ UNCHANGED <<src, quar, results, did>>
       \/ ToResult("aborted_drift") /\ UNCHANGED <<src, quar, todo, did>>
       \/ /\ src[p0] # NoInode
          /\ ToResult("quarantined")
          /\ quar' = [quar EXCEPT ![quarantine_name(p0)] = src[p0]]
          /\ src' = [src EXCEPT ![p0] = NoInode]
          /\ Mutated
          /\ UNCHANGED todo
    /\ UNCHANGED <<dst, edited, log, disowned, bounds>>

HardDelete ==
    /\ pc = "mutate" /\ Action[p0] = "hard_delete"
    /\ \/ ~allow_hard_delete /\ ToResult("skipped_disabled") /\ UNCHANGED <<src, did>>
       \/ allow_hard_delete /\ ToResult("aborted_drift") /\ UNCHANGED <<src, did>>
       \/ /\ allow_hard_delete /\ src[p0] # NoInode
          /\ ToResult("deleted")
          /\ src' = [src EXCEPT ![p0] = NoInode]
          /\ Mutated
    /\ UNCHANGED <<quar, dst, edited, todo, log, disowned, bounds>>

(* HARDLINK has no implementation.                                         *)
NotImplemented ==
    /\ pc = "mutate" /\ Action[p0] = "hardlink"
    /\ ToResult("skipped_disabled")
    /\ UNCHANGED <<fs, todo, log, did, disowned, bounds>>

(* Faulty variant: rename instead of link, which replaces the target.      *)
MoveClobbers ==
    /\ pc = "mutate" /\ Action[p0] = "move"
    /\ \/ Dest[p0] = NoDest /\ ToResult("skipped_disabled") /\ UNCHANGED <<dst, did>>
       \/ Dest[p0] # NoDest /\ ToResult("aborted_drift") /\ UNCHANGED <<dst, did>>
       \/ /\ Dest[p0] # NoDest /\ src[p0] # NoInode
          /\ dst' = [dst EXCEPT ![Dest[p0]] = src[p0]]
          /\ pc' = "unlink"
          /\ Mutated
          /\ UNCHANGED results
    /\ UNCHANGED <<src, quar, edited, todo, log, disowned, bounds>>

(* _move, up to the link, which fails if the name exists (no-clobber), if  *)
(* the source is gone, or for any other error.                             *)
MoveLink ==
    /\ pc = "mutate" /\ Action[p0] = "move"
    /\ \/ Dest[p0] = NoDest /\ ToResult("skipped_disabled") /\ UNCHANGED <<dst, did>>
       \/ Dest[p0] # NoDest /\ ToResult("aborted_drift") /\ UNCHANGED <<dst, did>>
       \/ /\ Dest[p0] # NoDest /\ src[p0] # NoInode /\ dst[Dest[p0]] = NoInode
          /\ dst' = [dst EXCEPT ![Dest[p0]] = src[p0]]
          /\ pc' = "unlink"
          /\ Mutated
          /\ UNCHANGED results
    /\ UNCHANGED <<src, quar, edited, todo, log, disowned, bounds>>

MoveUnlink ==
    /\ pc = "unlink"
    /\ \/ /\ src[p0] # NoInode
          /\ src' = [src EXCEPT ![p0] = NoInode]
          /\ ToResult("moved")
       \/ pc' = "rollback" /\ UNCHANGED <<src, results>>
    /\ UNCHANGED <<quar, dst, edited, todo, log, did, disowned, bounds>>

(* The source could not be removed: the new link is, if that works.        *)
MoveRollback ==
    /\ pc = "rollback"
    /\ \/ dst' = [dst EXCEPT ![Dest[p0]] = NoInode] /\ did' = did \ {p0}
       \/ UNCHANGED <<dst, did>>
    /\ ToResult("aborted_drift")
    /\ UNCHANGED <<src, quar, edited, todo, log, disowned, bounds>>

LogResult ==
    /\ pc = "result"
    /\ \/ AppendLog(results[p0]) /\ Done(results[p0])
       \/ Drop /\ UNCHANGED <<log, results>>
    /\ UNCHANGED <<fs, did, disowned, bounds>>

Executor ==
    \/ VerifyPlan \/ Reverify \/ OpenParent \/ Finish \/ Recheck \/ LogPending
    \/ Quarantine \/ HardDelete \/ NotImplemented
    \/ MoveLink \/ MoveUnlink \/ MoveRollback \/ LogResult

(* The agent dies; the act log stays.                                      *)
Crash ==
    /\ crashes < MaxCrashes
    /\ crashes' = crashes + 1
    /\ pc' = "idle"
    /\ todo' = {}
    /\ results' = [p \in Path |-> "none"]
    /\ UNCHANGED <<fs, log, did, disowned, changes, runs>>

-----------------------------------------------------------------------------
(* External: other users of the host.                                      *)

Named(s, q, d) == (Range(s) \cup Range(q) \cup Range(d)) \ {NoInode}

Unused == Fresh \ Named(src, quar, dst)

Overwrite(p) == src[p] # NoInode /\ edited' = edited \cup {src[p]} /\ UNCHANGED <<src, quar, dst>>
Remove(p) == src[p] # NoInode /\ src' = [src EXCEPT ![p] = NoInode] /\ UNCHANGED <<quar, dst, edited>>
Replace(p, i) == src' = [src EXCEPT ![p] = i] /\ edited' = edited \cup {i} /\ UNCHANGED <<quar, dst>>
OccupyDest(p, i) ==
    /\ Dest[p] # NoDest /\ dst[Dest[p]] = NoInode
    /\ dst' = [dst EXCEPT ![Dest[p]] = i]
    /\ edited' = edited \cup {i} /\ UNCHANGED <<src, quar>>

OtherUser ==
    /\ changes < MaxChanges
    /\ changes' = changes + 1
    /\ \E p \in Path :
          \/ Overwrite(p) \/ Remove(p)
          \/ \E i \in Unused : Replace(p, i) \/ OccupyDest(p, i)
    /\ disowned' = disowned \cup (Range(src) \ (Range(src') \cup {NoInode}))
    /\ UNCHANGED <<pc, todo, results, log, did, runs, crashes>>

Rest == pc = "idle" /\ runs = MaxRuns /\ UNCHANGED vars

Next ==
    \/ (StartJob \/ Executor \/ Crash \/ OtherUser) /\ UNCHANGED config
    \/ Rest

Spec == Init /\ [][Next]_vars

-----------------------------------------------------------------------------
(* Properties.                                                             *)

(* Every file the executor has touched has its intent on disk, even if the *)
(* agent died right after touching it or the batch was cut short           *)
(* (_FileAuditSink: "the act is still durably recorded on the host").      *)
EveryActIsLogged ==
    \A p \in did : <<p, "pending">> \in log

(* No step of the executor but an irreversible deletion takes the last     *)
(* name from a file of the plan that its owner did not remove or replace   *)
(* meanwhile: quarantine and move are reversible and never overwrite, two  *)
(* items with the same base name or the same destination included.         *)
PlanFilesKeepAName ==
    [][Executor /\ ~HardDelete => (Named(src, quar, dst) \cap Range(prior_inode)) \ disowned
                       \subseteq Named(src', quar', dst')]_vars

(* A finished item's status tells what happened to it: acted on if and     *)
(* only if the status says so.  (A rollback that fails as well is the      *)
(* exception the code accepts: "best-effort".)                             *)
StatusIsTrue ==
    \A p \in Path :
        /\ results[p] \in {"quarantined", "moved", "deleted"} => p \in did
        /\ results[p] \in {"aborted_drift", "skipped_disabled"} /\ p \in did
              => Action[p] = "move" /\ dst[Dest[p]] # NoInode
=============================================================================
