----------------------------- MODULE Catalogue -----------------------------
(* What core derives from the rows the agents push: the subtree rollup of a  *)
(* volume, the totals of its snapshots, the newest point of its history, and *)
(* the duplicate groups of the whole estate.  An agent pushes batches into   *)
(* one snapshot per run and then asks for a finalize.  A finalize is one     *)
(* transaction of several statements, each of which sees what is committed   *)
(* when it starts, so finalizes of several hosts and batches interleave.     *)
(*                                                                           *)
(* One agent process per host; its finalize ends before its next batch.      *)
EXTENDS Naturals, FiniteSets, Sequences, FiniteSetsExt, TLC

CONSTANTS
    Volume,      \* one per host; the agent of the host is named after it
    Network,     \* volumes on a network mount: views of another host's files
    Entry,       \* file rows
    On,          \* On[e]: the volume of e
    Path,        \* Path[e]: directories and name below the mountpoint
    Size,        \* Size[e]
    Age,         \* Age[e]: min(mtime, ctime)
    Preferred,   \* entries on a preferred volume or path
    MaxSnap,     \* bound on the snapshots
    MaxFaults    \* bound on failures

VARIABLES
    row,       \* row[e]: whether it is present and has a full hash
    snaps,     \* snapshots: id -> volume, finished, total; committed or not
    open,      \* ids of snapshots whose first batch is not committed
    rollup,    \* rollup[v]: directory -> totals, and the snapshots it is younger than
    point,     \* point[v]: the newest size_history point of the root
    groups,    \* duplicate groups, each tagged with the finalize that built it
    agent,     \* agent[v]: idle, batch, pushed, or the statement of its finalize
    fin,       \* fin[v]: what the finalize of v's host has read and written
    faults,
    settled,   \* history: volumes whose newest run was finalized
    alone,     \* history: rebuilds that nothing has disturbed so far
    undisturbed \* history: the groups come from such a rebuild, and no batch followed

catalogueVars == <<row, snaps, open, rollup, point, groups>>
history == <<settled, alone, undisturbed>>
vars == <<catalogueVars, agent, fin, faults, history>>

-----------------------------------------------------------------------------
(* Rollups.                                                                  *)

(* The mountpoint and every directory down to the parent.                    *)
AncestorDirs(e) == {SubSeq(Path[e], 1, n) : n \in 0..(Len(Path[e]) - 1)}

Root == <<>>

OfVolume(v) == {e \in Entry : On[e] = v}

(* The rows the stream returns: live entries only.                           *)
Counted(v) == {e \in OfVolume(v) : row[e].present}

(* The tally: one accumulator per directory that some entry lies below.      *)
Tally(entries) ==
    FoldSet(LAMBDA e, acc :
              [d \in DOMAIN acc \cup AncestorDirs(e) |->
                  LET old == IF d \in DOMAIN acc THEN acc[d] ELSE [size |-> 0, files |-> 0]
                  IN  IF d \in AncestorDirs(e)
                      THEN [size |-> old.size + Size[e], files |-> old.files + 1] ELSE old],
            <<>>, entries)

NoRollup == [dirs |-> <<>>, younger |-> {}]

RootTotal(dirs) == IF Root \in DOMAIN dirs THEN dirs[Root].size ELSE 0

SnapsOf(v) == {s \in DOMAIN snaps : snaps[s].volume = v}
Committed(v) == SnapsOf(v) \ open

(* Mutant of IsStale: only a volume that was never rolled up is stale.       *)
IsStaleOnce(v) == Committed(v) # {} /\ rollup[v].dirs = <<>>

(* _stale_volume_ids: a snapshot at least as young as the rollup, or no      *)
(* rollup row at all.                                                        *)
IsStale(v) ==
    /\ Committed(v) # {}
    /\ rollup[v].dirs = <<>> \/ \E s \in Committed(v) : s \notin rollup[v].younger

-----------------------------------------------------------------------------
(* Duplicate groups.                                                         *)
IsNative(e) == On[e] \notin Network

(* The keeper: among the native copies if there are any, the oldest, then a  *)
(* preferred one, then the shortest path.                                    *)
Oldest(es) == {e \in es : \A d \in es : Age[e] <= Age[d]}
Prefer(es) == IF es \cap Preferred # {} THEN es \cap Preferred ELSE es
Shortest(es) == CHOOSE e \in es : \A d \in es : Len(Path[e]) <= Len(Path[d])

Keeper(members) ==
    LET native == {e \in members : IsNative(e)}
    IN  Shortest(Prefer(Oldest(IF native # {} THEN native ELSE members)))

Reclaimable(members, size) ==
    LET native == Cardinality({e \in members : IsNative(e)})
    IN  IF native > 1 THEN size * (native - 1) ELSE 0

(* _load_hashed_entries: present files with a hash.  All contents of one     *)
(* size are the same here, so the size stands for the pair (size, hash).     *)
Hashed == {e \in Entry : row[e].present /\ row[e].hashed}

GroupOf(size, entries) ==
    LET members == {e \in entries : Size[e] = size}
    IN  [members |-> members, keeper |-> Keeper(members),
         reclaimable |-> Reclaimable(members, size)]

Build(entries) ==
    {GroupOf(n, entries) :
        n \in {n \in {Size[e] : e \in entries} :
                  Cardinality({e \in entries : Size[e] = n}) > 1}}

(* Only a host that has hashes, of present or removed files, rebuilds.       *)
HasHashes(v) == \E e \in OfVolume(v) : row[e].hashed

-----------------------------------------------------------------------------
(* Batches.  The first one of a run opens the snapshot; started is the time  *)
(* at which its transaction began.                                           *)
NoFin == [stale |-> FALSE, dirs |-> <<>>, younger |-> {}, stamp |-> {},
          seen |-> {}, gone |-> {}, built |-> {}]

Current(v) == {s \in SnapsOf(v) : snaps[s].run}

Batch(v) ==
    /\ agent[v] \in {"idle", "pushed"}
    /\ IF Current(v) # {} THEN UNCHANGED <<snaps, open>>
       ELSE LET id == Cardinality(DOMAIN snaps) + 1
            IN  /\ id <= MaxSnap
                /\ snaps' = snaps @@
                      (id :> [volume |-> v, run |-> TRUE, finished |-> FALSE, total |-> 0])
                /\ open' = open \cup {id}
    /\ agent' = [agent EXCEPT ![v] = "batch"]
    /\ settled' = settled \ {v}
    /\ UNCHANGED <<row, rollup, point, groups, fin, faults, alone, undisturbed>>

(* A metadata batch brings a file or its removal, a full-bit batch its hash. *)
Written(e) ==
    {[row[e] EXCEPT !.present = TRUE], [row[e] EXCEPT !.present = FALSE]} \cup
    (IF row[e].present THEN {[row[e] EXCEPT !.hashed = TRUE]} ELSE {})

CommitBatch(v) ==
    /\ agent[v] = "batch"
    /\ \E e \in OfVolume(v) : \E r \in Written(e) : row' = [row EXCEPT ![e] = r]
    /\ open' = open \ Current(v)
    /\ agent' = [agent EXCEPT ![v] = "pushed"]
    /\ alone' = {} /\ undisturbed' = FALSE
    /\ UNCHANGED <<snaps, rollup, point, groups, fin, faults, settled>>

(* The run ends: the snapshot id is forgotten by the agent.                  *)
EndRun(v) == [s \in DOMAIN snaps |->
                 IF snaps[s].volume = v THEN [snaps[s] EXCEPT !.run = FALSE] ELSE snaps[s]]

(* A batch that fails is rolled back, snapshot and all, and ends the run;    *)
(* its rows stay staged at the agent.                                        *)
BatchFails(v) ==
    /\ agent[v] = "batch"
    /\ faults < MaxFaults
    /\ faults' = faults + 1
    /\ snaps' = [s \in DOMAIN snaps |->
          IF s \in open /\ s \in Current(v)
          THEN [EndRun(v)[s] EXCEPT !.volume = "none"] ELSE EndRun(v)[s]]
    /\ open' = open \ Current(v)
    /\ agent' = [agent EXCEPT ![v] = "idle"]
    /\ UNCHANGED <<row, rollup, point, groups, fin, history>>

(* The agent dies after a batch, or its call of finalize does not arrive.    *)
RunLost(v) ==
    /\ agent[v] = "pushed"
    /\ faults < MaxFaults
    /\ faults' = faults + 1
    /\ snaps' = EndRun(v)
    /\ agent' = [agent EXCEPT ![v] = "idle"]
    /\ UNCHANGED <<row, open, rollup, point, groups, fin, history>>

-----------------------------------------------------------------------------
(* Finalize, statement by statement; a run that had nothing to push calls it *)
(* too.                                                                      *)
BeginFinalize(v) ==
    /\ agent[v] \in {"idle", "pushed"}
    /\ snaps' = EndRun(v)
    /\ fin' = [fin EXCEPT ![v] = [NoFin EXCEPT !.stale = IsStale(v)]]
    /\ agent' = [agent EXCEPT ![v] = IF IsStale(v) THEN "read" ELSE "rolled"]
    /\ UNCHANGED <<row, open, rollup, point, groups, faults, history>>

ReadEntries(v) ==
    /\ agent[v] = "read"
    /\ fin' = [fin EXCEPT ![v].dirs = Tally(Counted(v))]
    /\ agent' = [agent EXCEPT ![v] = "replace"]
    /\ UNCHANGED <<catalogueVars, faults, history>>

(* computed_at is taken here, after the read: the rollup is younger than     *)
(* every snapshot begun so far.  Snapshots that are still open get the       *)
(* totals, if the volume has a root row.                                     *)
ReplaceRollup(v) ==
    /\ agent[v] = "replace"
    /\ fin' = [fin EXCEPT
          ![v].younger = SnapsOf(v),
          ![v].stamp = IF Root \in DOMAIN fin[v].dirs
                       THEN {s \in Committed(v) : ~snaps[s].finished} ELSE {}]
    /\ agent' = [agent EXCEPT ![v] = "rolled"]
    /\ UNCHANGED <<catalogueVars, faults, history>>

Rebuilding == {v \in Volume : agent[v] \in {"clear", "load", "built"}}

(* The DELETE of the groups starts: it sees those that are committed now.    *)
BeginClear(v) ==
    /\ agent[v] = "rolled"
    /\ IF HasHashes(v)
       THEN /\ fin' = [fin EXCEPT ![v].seen = groups]
            /\ agent' = [agent EXCEPT ![v] = "clear"]
            /\ alone' = IF Rebuilding = {} THEN {v} ELSE {}
       ELSE /\ agent' = [agent EXCEPT ![v] = "commit"]
            /\ UNCHANGED <<fin, alone>>
    /\ UNCHANGED <<catalogueVars, faults, settled, undisturbed>>

(* Mutant of Cleared: the groups whose files are still duplicates stay.      *)
ClearedDead(v) == {g \in fin[v].seen \cap groups : g.of.members \cap Hashed = {}}

(* What the DELETE removes: of the groups it saw, those that still exist.    *)
Cleared(v) == fin[v].seen \cap groups

(* It waits for another transaction that has deleted one of them.            *)
ClearScope(v) ==
    /\ agent[v] = "clear"
    /\ \A w \in Volume \ {v} : fin[w].gone \cap fin[v].seen = {}
    /\ fin' = [fin EXCEPT ![v].gone = Cleared(v), ![v].seen = {}]
    /\ agent' = [agent EXCEPT ![v] = "load"]
    /\ UNCHANGED <<catalogueVars, faults, history>>

BuildGroups(v) ==
    /\ agent[v] = "load"
    /\ fin' = [fin EXCEPT ![v].built = {[by |-> v, of |-> g] : g \in Build(Hashed)}]
    /\ agent' = [agent EXCEPT ![v] = "built"]
    /\ UNCHANGED <<catalogueVars, faults, history>>

CommitFinalize(v) ==
    /\ agent[v] \in {"built", "commit"}
    /\ IF fin[v].stale
       THEN /\ rollup' = [rollup EXCEPT ![v] = [dirs |-> fin[v].dirs, younger |-> fin[v].younger]]
            /\ point' = [point EXCEPT ![v] = RootTotal(fin[v].dirs)]
            /\ snaps' = [s \in DOMAIN snaps |->
                  IF s \in fin[v].stamp
                  THEN [snaps[s] EXCEPT !.finished = TRUE, !.total = RootTotal(fin[v].dirs)]
                  ELSE snaps[s]]
       ELSE UNCHANGED <<rollup, point, snaps>>
    /\ groups' = (groups \ fin[v].gone) \cup fin[v].built
    /\ undisturbed' = IF agent[v] = "built" THEN v \in alone ELSE undisturbed
    /\ alone' = IF agent[v] = "built" THEN {} ELSE alone
    /\ settled' = settled \cup {v}
    /\ fin' = [fin EXCEPT ![v] = NoFin]
    /\ agent' = [agent EXCEPT ![v] = "idle"]
    /\ UNCHANGED <<row, open, faults>>

(* It is rolled back as a whole; the run goes on without it.                 *)
FinalizeFails(v) ==
    /\ agent[v] \in {"read", "replace", "rolled", "clear", "load", "built", "commit"}
    /\ faults < MaxFaults
    /\ faults' = faults + 1
    /\ fin' = [fin EXCEPT ![v] = NoFin]
    /\ agent' = [agent EXCEPT ![v] = "idle"]
    /\ alone' = alone \ {v}
    /\ UNCHANGED <<catalogueVars, settled, undisturbed>>

-----------------------------------------------------------------------------
Init ==
    /\ row = [e \in Entry |-> [present |-> FALSE, hashed |-> FALSE]]
    /\ snaps = <<>> /\ open = {}
    /\ rollup = [v \in Volume |-> NoRollup]
    /\ point = [v \in Volume |-> 0]
    /\ groups = {}
    /\ agent = [v \in Volume |-> "idle"]
    /\ fin = [v \in Volume |-> NoFin]
    /\ faults = 0
    /\ settled = {} /\ alone = {} /\ undisturbed = FALSE

Next ==
    \E v \in Volume :
        \/ Batch(v) \/ CommitBatch(v) \/ BatchFails(v) \/ RunLost(v)
        \/ BeginFinalize(v) \/ ReadEntries(v) \/ ReplaceRollup(v)
        \/ BeginClear(v) \/ ClearScope(v) \/ BuildGroups(v)
        \/ CommitFinalize(v) \/ FinalizeFails(v)

Spec == Init /\ [][Next]_vars

-----------------------------------------------------------------------------
(* Properties.                                                               *)

Below(d, e) == Len(d) < Len(Path[e]) /\ SubSeq(Path[e], 1, Len(d)) = d

Total(v, d) ==
    MapThenSumSet(LAMBDA e : Size[e], {e \in OfVolume(v) : row[e].present /\ Below(d, e)})

(* After a run whose finalize was answered, and until the next batch of the  *)
(* host, every directory of its volume shows the sum of the live files below *)
(* it, the growth chart ends in that sum, and no scan of the volume is shown *)
(* as unfinished unless the volume is empty; whatever batches and finalizes  *)
(* of earlier runs were lost or failed, and although a volume that looks     *)
(* fresh is skipped.                                                         *)
FinalizedMeansExact ==
    \A v \in settled :
        /\ \A e \in OfVolume(v), d \in UNION {AncestorDirs(f) : f \in OfVolume(v)} :
              IF d \in DOMAIN rollup[v].dirs THEN rollup[v].dirs[d].size = Total(v, d)
                                             ELSE Total(v, d) = 0
        /\ point[v] = Total(v, Root)
        /\ Total(v, Root) > 0 => \A s \in SnapsOf(v) : snaps[s].finished

(* A rebuild that overlaps no other rebuild and no batch leaves exactly one  *)
(* group for every set of copies, however many doubled or outdated groups    *)
(* overlapping finalizes had left before; each names a keeper that is there, *)
(* that is no alias if there is a native copy and that no native copy is     *)
(* older than, and counts the native copies but one as reclaimable.          *)
LoneRebuildIsExact ==
    undisturbed =>
        /\ \A e, f \in Hashed : e # f /\ Size[e] = Size[f] =>
              Cardinality({g \in groups : {e, f} \subseteq g.of.members}) = 1
        /\ \A g \in groups :
              LET native == {e \in g.of.members : IsNative(e)}
              IN  /\ g.of.members \subseteq Hashed
                  /\ \A e, f \in g.of.members : Size[e] = Size[f]
                  /\ g.of.keeper \in g.of.members
                  /\ native # {} => /\ g.of.keeper \in native
                                    /\ \A e \in native : Age[g.of.keeper] <= Age[e]
                  /\ g.of.reclaimable + (IF native = {} THEN 0 ELSE Size[g.of.keeper]) =
                        MapThenSumSet(LAMBDA e : Size[e], native)
=============================================================================
