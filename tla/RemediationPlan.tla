--------------------------- MODULE RemediationPlan ---------------------------
(* Plans over duplicates and over reorganised folders: operators build them   *)
(* from the catalogue (remediation and organize routes), dry-run and execute  *)
(* them, several at a time, while the catalogue lags behind the disk.  How a  *)
(* job travels is in JobChannel and how one item is mutated in ActorExecutor; *)
(* here an item is rechecked and acted on in one step.  The rows are those of *)
(* Reconcile, and so are the comparisons that run beside the plans.           *)
EXTENDS Reconcile

CONSTANTS
    home,               \* [Entry -> Path]: where the files are at first
    Fresh,              \* an inode that is not in the catalogue
    InRoot,             \* paths below the root that is organised
    Build, Apply,       \* requests that build a dedup plan, a move plan
    Runner,             \* dry-run and execute requests
    owner, key, NoKey,  \* principals and idempotency keys, [Build \cup Apply -> _]
    Made,               \* the requests that are made in one behaviour, and the bound on
                        \* changes by others, scans, failed dispatches and commits in it
    BlastCap

Maker == Build \cup Apply
NoFile == [ino |-> None, data |-> None]
Content == {"A", "B", "C"}          \* "A" is the content of the duplicate group
SizeOf(c) == IF c = "C" THEN 2 ELSE 1

ASSUME PlanConstants ==
    /\ home \in [Entry -> Path] /\ \A e, f \in Entry : home[e] = home[f] => e = f
    /\ InRoot \subseteq Path /\ None \notin Path \cup Entry
    /\ Fresh \notin Entry /\ Build \cap Apply = {} /\ Maker \cap Runner = {}
    /\ DOMAIN owner = Maker /\ DOMAIN key = Maker
    /\ Made \subseteq [requests : SUBSET (Maker \cup Runner \cup Reader), events : Nat]
    /\ BlastCap \in Nat

VARIABLES
    disk,       \* [Path -> [ino, data]]
    group,      \* the members of the duplicate group of content "A"
    pc,         \* [Maker \cup Runner -> step of the route]
    draft,      \* [Maker -> the plan it builds: items, keeper]
    answer,     \* [Maker -> the plan it was given]
    saved,      \* plans whose row is committed
    status,     \* [Maker -> RemediationPlanRow.status]
    head,       \* number of committed transactions that extended the audit chain
    seen,       \* [request -> the head its chain was built on]
    plan,       \* [Runner -> the plan it runs]
    execute,    \* runners of execute_route; the others are dry runs
    live,       \* [Runner -> items that the dry run did not find drifted]
    job,        \* [Runner -> items that the agent still has to act on]
    acted,      \* <<plan, item>> of every mutation
    touched,    \* inodes that others edited or removed
    events      \* how many more changes and failures there may be

files   == <<disk, cat, group, touched>>
routes  == <<draft, answer, saved, status, head, seen>>
runs    == <<plan, execute, live, job>>
plans   == <<files, pc, routes, runs, acted, events>>
vars    == <<plans, compare>>

NoPlan == [keeper |-> None, items |-> <<>>]

Init ==
    /\ disk = [p \in Path |-> IF \E e \in Entry : home[e] = p
                              THEN [ino |-> CHOOSE e \in Entry : home[e] = p, data |-> "A"]
                              ELSE NoFile]
    /\ cat = [e \in Entry |-> [path |-> home[e], hash |-> "A", size |-> SizeOf("A"),
                           present |-> TRUE]]
    /\ group = Entry /\ touched = {} /\ acted = {}
    /\ \E made \in Made :
        /\ pc = [q \in Maker \cup Runner |-> IF q \in made.requests THEN "new" ELSE "refused"]
        /\ CompareInit(made.requests)
        /\ execute \in SUBSET (made.requests \cap Runner)
        /\ events = made.events
    /\ draft = [q \in Maker |-> NoPlan] /\ answer = [q \in Maker |-> None]
    /\ saved = {} /\ status = [q \in Maker |-> "built"]
    /\ head = 0 /\ seen = [q \in Maker \cup Runner |-> 0]
    /\ plan = [x \in Runner |-> None]
    /\ live = [x \in Runner |-> {}] /\ job = [x \in Runner |-> {}]

Disturb == events > 0 /\ events' = events - 1
Goto(q, to) == pc' = [pc EXCEPT ![q] = to]

-----------------------------------------------------------------------------
(* Building: build_plan_route and organize_plan.                              *)

(* A plan of this principal with this key, committed before.                  *)
Existing(q) == {p \in saved : key[q] # NoKey /\ key[p] = key[q] /\ owner[p] = owner[q]}

Ready(q) == pc[q] = "new" \/ (q \in Apply /\ pc[q] = "proposed")

(* Gates, capabilities, scope, an empty group or folder, a wrong keeper, ...  *)
RefusePlan(q) ==
    /\ Ready(q) /\ Goto(q, "refused")
    /\ UNCHANGED <<files, routes, runs, acted, compare, events>>

(* The replay of a request: the original plan is the answer.                  *)
Replay(q) ==
    /\ Ready(q)
    /\ \E p \in Existing(q) : answer' = [answer EXCEPT ![q] = p]
    /\ Goto(q, "answered")
    /\ UNCHANGED <<files, draft, saved, status, head, seen, runs, acted, compare, events>>

Drafted(q, d) ==
    /\ draft' = [draft EXCEPT ![q] = d]
    /\ seen' = [seen EXCEPT ![q] = head]
    /\ Goto(q, "drafted")
    /\ UNCHANGED <<files, answer, saved, status, head, runs, acted, compare, events>>

(* Members of the group, paths and inodes from the catalogue, the hash from   *)
(* the group (which may be older than the row); everything but the keeper.    *)
build_plan(keeper) ==
    [keeper |-> keeper,
     items |-> [e \in group \ {keeper} |-> [path |-> cat[e].path, hash |-> "A", dest |-> None]]]

BuildPlan(q) ==
    /\ q \in Build /\ Ready(q) /\ Existing(q) = {}
    /\ \E keeper \in group : group # {keeper} /\ Drafted(q, build_plan(keeper))

clamp_to_root(p) == p \in InRoot

(* The rows an organize request may be about: present files below the root.   *)
_files_under == {e \in Entry : cat[e].present /\ cat[e].path \in InRoot}

(* What a model may propose for them: any path, whatever it was shown.        *)
suggest(rows) == [rows -> Path]

(* OrganizeService._resolve: what a model proposed, without targets out of    *)
(* root and without the later of two items with one target.                   *)
_resolve(proposal) ==
    {e \in DOMAIN proposal :
        /\ clamp_to_root(proposal[e])
        /\ \A f \in DOMAIN proposal : proposal[f] = proposal[e] => f = e}

(* organize_suggest: read only; the answer stays with the operator.           *)
SuggestMoves(q) ==
    /\ q \in Apply /\ pc[q] = "new"
    /\ \E proposal \in suggest(_files_under) :
            LET moves == {e \in _resolve(proposal) : proposal[e] # cat[e].path}
            IN /\ moves # {}
               /\ draft' = [draft EXCEPT ![q] = [keeper |-> None,
                                                 items |-> [e \in moves |-> proposal[e]]]]
    /\ Goto(q, "proposed")
    /\ UNCHANGED <<files, answer, saved, status, head, seen, runs, acted, compare, events>>

(* The approved ids that are still present below the root.                    *)
_entries_by_id(ids) == ids \cap _files_under

(* OrganizeService.build_move_plan checks the approved moves against the      *)
(* catalogue as it is now.                                                    *)
MovesOK(moves) ==
    /\ _entries_by_id(DOMAIN moves) = DOMAIN moves
    /\ \A e \in DOMAIN moves :
        /\ cat[e].hash # None
        /\ clamp_to_root(moves[e]) /\ moves[e] # cat[e].path

build_move_plan(moves) ==
    [keeper |-> None,
     items |-> [e \in DOMAIN moves |->
                    [path |-> cat[e].path, hash |-> cat[e].hash, dest |-> moves[e]]]]

BuildMovePlan(q) ==
    /\ q \in Apply /\ pc[q] = "proposed" /\ Existing(q) = {}
    /\ MovesOK(draft[q].items)
    /\ Drafted(q, build_move_plan(draft[q].items))

KeyNeverTaken(q) == FALSE

(* UNIQUE idempotency_key over all principals, UNIQUE prev_hash of the audit  *)
(* row in the same flush.                                                     *)
KeyTaken(q) == key[q] # NoKey /\ \E p \in saved : key[p] = key[q]

Clash(q) == KeyTaken(q) \/ seen[q] # head

(* An INSERT that meets the row of another open transaction waits for it.     *)
InsertWaits == \E p \in Maker : pc[p] = "flushed"

(* session.flush                                                              *)
FlushPlan(q) ==
    /\ pc[q] = "drafted"
    /\ IF Clash(q)
       THEN Goto(q, "conflict")
       ELSE ~InsertWaits /\ Goto(q, "flushed")
    /\ UNCHANGED <<files, routes, runs, acted, compare, events>>

CommitPlan(q) ==
    /\ pc[q] = "flushed"
    /\ saved' = saved \cup {q} /\ head' = head + 1
    /\ answer' = [answer EXCEPT ![q] = q]
    /\ Goto(q, "answered")
    /\ UNCHANGED <<files, draft, status, seen, runs, acted, compare, events>>

(* The commit fails after the response: the client has a plan that is gone.   *)
CommitFails(q) ==
    /\ pc[q] = "flushed" /\ Disturb
    /\ answer' = [answer EXCEPT ![q] = q]
    /\ Goto(q, "answered")
    /\ UNCHANGED <<files, draft, saved, status, head, seen, runs, acted, compare>>

-----------------------------------------------------------------------------
(* Running: dry_run_route and execute_route.                                  *)

RecheckByHash(e, i) == disk[i.path] # NoFile /\ disk[i.path].data = i.hash

(* What the agent verifies about an item: inode, size and content.            *)
Recheck(e, i) == disk[i.path] = [ino |-> e, data |-> i.hash]

items(x) == draft[plan[x]].items

(* The plan is loaded, scope and the typed host name are checked.             *)
LoadPlan(x) ==
    /\ pc[x] = "new"
    /\ \/ \E p \in saved : plan' = [plan EXCEPT ![x] = p] /\ Goto(x, "loaded")
       \/ Goto(x, "refused") /\ UNCHANGED plan
    /\ seen' = [seen EXCEPT ![x] = head]
    /\ UNCHANGED <<files, draft, answer, saved, status, head, execute, live, job, acted, compare,
                   events>>

(* RemediationOrchestrator.dry_run: the agent reports what has drifted.       *)
DryRun(x) ==
    /\ pc[x] = "loaded"
    /\ live' = [live EXCEPT ![x] = {e \in DOMAIN items(x) : Recheck(e, items(x)[e])}]
    /\ Goto(x, IF x \in execute THEN "verified" ELSE "acted")
    /\ UNCHANGED <<files, routes, plan, execute, job, acted, compare, events>>

(* RemediationOrchestrator.execute: the live subset, if there is one and it   *)
(* is below the cap or confirmed.                                             *)
Execute(x) ==
    /\ pc[x] = "verified"
    /\ \/ live[x] = {} /\ Goto(x, "acted") /\ UNCHANGED job
       \/ Cardinality(live[x]) > BlastCap /\ Goto(x, "refused") /\ UNCHANGED job
       \/ live[x] # {} /\ Goto(x, "acting") /\ job' = [job EXCEPT ![x] = live[x]]
    /\ UNCHANGED <<files, routes, plan, execute, live, acted, compare, events>>

(* The agent acts on one item, if it has not drifted; a move never replaces.  *)
Act(x) ==
    \E e \in job[x] :
        LET i == items(x)[e]
            ok == Recheck(e, i) /\ (i.dest = None \/ disk[i.dest] = NoFile)
        IN /\ job' = [job EXCEPT ![x] = @ \ {e}]
           /\ disk' = IF ok THEN [p \in Path |-> IF p = i.path THEN NoFile
                                                ELSE IF p = i.dest THEN disk[i.path]
                                                ELSE disk[p]]
                      ELSE disk
           /\ acted' = IF ok THEN acted \cup {<<plan[x], e>>} ELSE acted
           /\ UNCHANGED <<cat, group, touched, pc, routes, plan, execute, live, events,
                          compare>>

(* The agent posts its results.                                               *)
ExecuteReturns(x) ==
    /\ pc[x] = "acting" /\ job[x] = {} /\ Goto(x, "acted")
    /\ UNCHANGED <<files, routes, runs, acted, compare, events>>

(* A dispatch times out: 500, rolled back; the agent may be in the middle.    *)
DispatchFails(x) ==
    /\ pc[x] \in {"loaded", "verified", "acting"} /\ Disturb
    /\ Goto(x, "failed")
    /\ UNCHANGED <<files, routes, runs, acted, compare>>

(* row.status and the audit rows; another writer may have taken the head.     *)
SaveStatus(x) ==
    /\ pc[x] = "acted" /\ ~InsertWaits
    /\ IF seen[x] = head
       THEN /\ status' = [status EXCEPT ![plan[x]] = IF x \in execute THEN "executed"
                                                     ELSE "dry_run"]
            /\ head' = head + 1 /\ Goto(x, "done")
       ELSE Goto(x, "failed") /\ UNCHANGED <<status, head>>
    /\ UNCHANGED <<files, draft, answer, saved, seen, runs, acted, compare, events>>

-----------------------------------------------------------------------------
(* Other writers of the audit chain, other users of the files, and the scans  *)
(* that follow them.                                                          *)

Busy ==
    \/ \E q \in Maker \cup Runner :
          pc[q] \notin {"answered", "conflict", "refused", "done", "failed"}
    \/ \E c \in Reader : step[c] \notin Answered

(* quarantine_restore_route and quarantine_purge_route: the request is        *)
(* recorded in the audit chain, and that is all they do.                      *)
RequestQuarantine ==
    /\ Busy /\ ~InsertWaits /\ Disturb
    /\ head' = head + 1
    /\ UNCHANGED <<files, pc, draft, answer, saved, status, seen, runs, acted, compare>>

Rename(p, d) ==
    /\ Busy /\ disk[p] # NoFile /\ disk[d] = NoFile /\ Disturb
    /\ disk' = [disk EXCEPT ![d] = disk[p], ![p] = NoFile]
    /\ UNCHANGED <<cat, group, touched, pc, routes, runs, acted, compare>>

(* A file is edited, removed, or a new one takes its path.                    *)
Write(p) ==
    /\ Busy /\ Disturb
    /\ \/ disk[p] # NoFile /\ disk' = [disk EXCEPT ![p] = NoFile]
       \/ disk[p] # NoFile /\ \E c \in {"B", "C"} : disk' = [disk EXCEPT ![p].data = c]
       \/ \E c \in Content : disk' = [disk EXCEPT ![p] = [ino |-> Fresh, data |-> c]]
    /\ touched' = touched \cup (IF disk[p] = NoFile THEN {} ELSE {disk[p].ino})
    /\ UNCHANGED <<cat, group, pc, routes, runs, acted, compare>>

(* A scan is ingested: the row of an inode follows it; hashes may be missing. *)
Rescan(e) ==
    /\ Busy /\ Disturb
    /\ \/ \E p \in Path, h \in Content \cup {None} :
            /\ disk[p] # NoFile /\ disk[p].ino = e /\ h \in {disk[p].data, None}
            /\ RowBecomes(e, [path |-> p, hash |-> h, size |-> SizeOf(disk[p].data),
                              present |-> TRUE])
       \/ /\ \A p \in Path : disk[p] = NoFile \/ disk[p].ino # e
          /\ RowBecomes(e, [cat[e] EXCEPT !.present = FALSE])
    /\ UNCHANGED <<disk, group, touched, pc, routes, runs, acted>>

(* Finalize rebuilds the duplicate group from the catalogue.                  *)
Regroup ==
    LET same == {e \in Entry : cat[e].present /\ cat[e].hash = "A"}
        new == IF Cardinality(same) > 1 THEN same ELSE {}
    IN /\ Busy /\ new # group /\ group' = new
       /\ UNCHANGED <<disk, cat, touched, pc, routes, runs, acted, compare, events>>

Quiet == ~Busy /\ (\A x \in Runner : job[x] = {}) /\ UNCHANGED vars

Next ==
    \/ \E q \in Maker : RefusePlan(q) \/ Replay(q) \/ BuildPlan(q) \/ SuggestMoves(q)
                        \/ BuildMovePlan(q) \/ FlushPlan(q) \/ CommitPlan(q) \/ CommitFails(q)
    \/ \E x \in Runner : LoadPlan(x) \/ DryRun(x) \/ Execute(x) \/ Act(x) \/ ExecuteReturns(x)
                         \/ DispatchFails(x) \/ SaveStatus(x)
    \/ \E p \in Path : Write(p) \/ \E d \in Path : Rename(p, d)
    \/ \E e \in Entry : Rescan(e)
    \/ \E c \in Reader : Compare(c) /\ UNCHANGED plans
    \/ RequestQuarantine \/ Regroup \/ Quiet

Spec == Init /\ [][Next]_vars

-----------------------------------------------------------------------------
(* Properties                                                                *)

(* Building is idempotent: however requests with one idempotency key overlap, *)
(* one plan exists for the key, and a replay is answered with an existing     *)
(* plan of the same principal.                                                *)
OnePlanPerKey ==
    /\ \A p, q \in saved : key[p] = key[q] /\ key[p] # NoKey => p = q
    /\ \A q \in Maker : answer[q] \notin {None, q}
                        => answer[q] \in saved /\ owner[answer[q]] = owner[q]

(* The keeper survives: if all plans that acted on duplicates were approved   *)
(* with one keeper, and nobody else edited or removed that file, it is still  *)
(* there with its content, whatever was moved onto the paths of the others    *)
(* and however often, or at the same time, the plans were executed.           *)
KeeperSurvives ==
    \A k \in Entry :
        /\ k \notin touched
        /\ \A a \in acted : draft[a[1]].keeper \in {k, None}
        => \E p \in Path : disk[p] = [ino |-> k, data |-> "A"]
=============================================================================
