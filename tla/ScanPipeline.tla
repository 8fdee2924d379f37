---------------------------- MODULE ScanPipeline ----------------------------
(***************************************************************************)
(* From the files of a volume to the catalogue: the agent's scan cycle     *)
(* (agent/runner.py, reader/walker.py, incremental.py, feed.py,            *)
(* fullbit.py), its staging queue (staging/store.py), the push to core     *)
(* (transport/push.py), ingest and churn (core/ingest.py, incremental.py)  *)
(* and the duplicate groups that finalize rebuilds (core/finalize.py,      *)
(* dedup_service.py).                                                      *)
(*                                                                         *)
(* One agent process scans one volume of one host; a file is named by its  *)
(* inode.  All files have the same size, so two states of a file differ in *)
(* their mtime, and a full BLAKE3 hash is as good as the content.          *)
(***************************************************************************)
EXTENDS Integers, FiniteSets, FiniteSetsExt

CONSTANTS
    File,        \* inodes
    Content,
    Partial,     \* Partial[c]: the hash of the head and the tail
    Chunk,       \* entries per POST
    MaxChanges, MaxFaults, MaxForced,  \* bounds
    MaxEvents                          \* and of the three together

Path == {1, 2}             \* the names an inode can have
NoHash == "no hash"

ASSUME PipelineConstants ==
    /\ IsFiniteSet(File)
    /\ Content # {} /\ NoHash \notin Content
    /\ \A c \in Content : Partial[c] # NoHash
    /\ Chunk \in Nat \ {0}
    /\ MaxChanges \in Nat /\ MaxFaults \in Nat /\ MaxForced \in Nat
    /\ MaxEvents \in Nat

VARIABLES
    fullbit,   \* is the volume in fullbit_scope?
    disk,
    odd,       \* history: files the agent is known to have lost sight of
    staged,    \* staged_entry; mtime 0 when there is no row
    removal,   \* staged_removal
    baseline,  \* has a metadata run finished?
    pc, run,
    todo,      \* the files the current pass has yet to visit
    batch,     \* entries read from disk and not staged yet
    gone,      \* files the re-stat did not see
    partial,   \* the partial hashes of the full-bit pass
    flight,    \* the batch being posted
    cat,       \* fs_entry; mtime 0 when there is no row
    churn,     \* CREATE minus DELETE rows of change_log, per file
    groups,    \* dup_group: the hash a file is grouped under
    clean,     \* history: the cycle under way, if disk has not changed since
    exact,     \* history: the kinds of cycle completed since disk changed
    changes, faults, forced

files == <<fullbit, disk, odd>>
staging == <<staged, removal, baseline>>
cycle == <<pc, run, todo, batch, gone, partial, flight>>
server == <<cat, churn, groups>>
history == <<clean, exact>>
bounds == <<changes, faults, forced>>
vars == <<files, staging, cycle, server, history, bounds>>

Mtime == 0 .. MaxChanges + 1
Hash == Content \cup {NoHash}
Mode == {"metadata", "fullbit"}
Entry == [file : File, mtime : Mtime \ {0}, path : Path]
Row == [file : File, mtime : Mtime \ {0}, path : Path, hash : Hash]

TypeOK ==
    /\ fullbit \in BOOLEAN
    /\ disk \in [File -> [on : BOOLEAN, mtime : Mtime \ {0}, content : Content, path : Path]]
    /\ staged \in [File -> [mtime : Mtime, path : Path, hash : Hash,
                            run : Nat, mode : Mode, pushed : BOOLEAN]]
    /\ removal \in [File -> [run : Nat, pushed : BOOLEAN]]
    /\ baseline \in BOOLEAN /\ odd \subseteq File
    /\ pc \in {"idle", "walk", "restat", "removals", "partial", "full",
               "drain", "post", "ack"}
    /\ run \in Nat
    /\ todo \subseteq File /\ gone \subseteq File
    /\ batch \subseteq Entry
    /\ partial \in [File -> {Partial[c] : c \in Content} \cup {NoHash}]
    /\ flight.mode \in Mode /\ flight.rows \subseteq Row /\ flight.removed \subseteq File
    /\ cat \in [File -> [mtime : Mtime, path : Path, present : BOOLEAN, hash : Hash]]
    /\ churn \in [File -> Int]
    /\ groups \in [File -> Hash]
    /\ clean \in {"no", "incremental", "full"} /\ exact \subseteq {"incremental", "hashed"}
    /\ changes \in 0 .. MaxChanges /\ faults \in 0 .. MaxFaults /\ forced \in 0 .. MaxForced
    /\ pc \in {"post", "ack"} => flight.rows # {} \/ flight.removed # {}

NoRow == [mtime |-> 0, path |-> 1, present |-> FALSE, hash |-> NoHash]
NoFlight == [mode |-> "metadata", rows |-> {}, removed |-> {}]

Quiet == changes + faults + forced < MaxEvents
MayChange == Quiet /\ changes < MaxChanges
MayFail == Quiet /\ faults < MaxFaults
MayForce == Quiet /\ forced < MaxForced

Init ==
    /\ fullbit \in BOOLEAN
    /\ disk = [f \in File |-> [on |-> TRUE, mtime |-> 1, path |-> 1,
                                content |-> CHOOSE c \in Content : TRUE]]
    /\ odd = {}
    /\ staged = [f \in File |-> [mtime |-> 0, path |-> 1, hash |-> NoHash,
                                 run |-> 0, mode |-> "metadata", pushed |-> TRUE]]
    /\ removal = [f \in File |-> [run |-> 0, pushed |-> TRUE]]
    /\ baseline = FALSE
    /\ pc = "idle" /\ run = 0 /\ todo = {} /\ batch = {} /\ gone = {}
    /\ partial = [f \in File |-> NoHash]
    /\ flight = NoFlight
    /\ cat = [f \in File |-> NoRow]
    /\ churn = [f \in File |-> 0]
    /\ groups = [f \in File |-> NoHash]
    /\ clean = "no" /\ exact = {}
    /\ changes = 0 /\ faults = 0 /\ forced = 0

-----------------------------------------------------------------------------
(* External: the users of the volume.                                      *)

Disturbed == clean' = "no" /\ exact' = {}

(* The agent misses a rename, and a file that is put back, when the mtime  *)
(* is the old one (the upsert wants another mtime or size); and, with      *)
(* full-bit on, a file under the inode of a removed one, whose row the     *)
(* full-bit pass takes over before it is pushed.                           *)
Missed(f, m) ==
    \/ m = disk[f].mtime
    \/ ~disk[f].on /\ fullbit /\ staged[f].mtime # 0

(* A file is written, created under a free inode, or replaced, with a new  *)
(* mtime; or renamed, or put back unchanged, with its old one.  With       *)
(* full-bit off a new mtime also brings back a file that was lost.         *)
Change(f, m, c, p) ==
    /\ MayChange
    /\ ~fullbit => c = disk[f].content   \* only the full-bit pass reads it
    /\ m = disk[f].mtime => c = disk[f].content /\ (disk[f].on => p # disk[f].path)
    /\ changes' = changes + 1
    /\ disk' = [disk EXCEPT ![f] = [on |-> TRUE, mtime |-> m, content |-> c, path |-> p]]
    /\ odd' = IF Missed(f, m) THEN odd \cup {f} ELSE IF fullbit THEN odd ELSE odd \ {f}
    /\ Disturbed
    /\ UNCHANGED <<fullbit, staging, cycle, server, faults, forced>>

Remove(f) ==
    /\ MayChange /\ disk[f].on
    /\ changes' = changes + 1
    /\ disk' = [disk EXCEPT ![f].on = FALSE]
    /\ Disturbed
    /\ UNCHANGED <<fullbit, odd, staging, cycle, server, faults, forced>>

Users ==
    \E f \in File :
        \/ Remove(f)
        \/ \E m \in {changes + 2, disk[f].mtime}, c \in Content, p \in Path : Change(f, m, c, p)

-----------------------------------------------------------------------------
(* The agent: the metadata pass.                                           *)

Unpushed == {f \in File : ~staged[f].pushed}
UnpushedRemovals == {f \in File : ~removal[f].pushed}

(* start_run: ids grow.  Only runs with unpushed rows are ever looked up   *)
(* again, so the others' ids are given out anew.                           *)
start_run == Max({0} \cup {staged[f].run : f \in Unpushed}
                     \cup {removal[f].run : f \in UnpushedRemovals}) + 1

(* A full walk the first time and when forced, otherwise the change feed.  *)
Incremental(force) == baseline /\ ~force

(* _scan_one_scope                                                         *)
StartCycle(force) ==
    /\ pc = "idle"
    /\ force => MayForce
    /\ forced' = IF force THEN forced + 1 ELSE forced
    /\ pc' = IF Incremental(force) THEN "restat" ELSE "walk"
    /\ clean' = IF Incremental(force) THEN "incremental" ELSE "full"
    /\ run' = start_run
    /\ todo' = File /\ batch' = {} /\ gone' = {}
    /\ UNCHANGED <<files, staging, partial, flight, server, exact, changes, faults>>

(* Scan Now, and the scheduled refresh: a cycle that walks in full.  (One  *)
(* in metadata mode has no full-bit pass, as when it is blocked below.)    *)
scan_one_root_now == StartCycle(TRUE)

(* Faulty variant: only the name is compared.                              *)
ChangedName(f) == staged[f].mtime = 0 \/ staged[f].path # disk[f].path

(* RestatFeed.changes: create or modify.                                   *)
Changed(f) == staged[f].mtime # disk[f].mtime \/ staged[f].path # disk[f].path

(* PosixBackend.walk: what it comes to see where no error hides it, and    *)
(* what it makes of it.  One directory after another is read, so files     *)
(* change between two visits.                                              *)
Listed(f) == disk[f].on
_entry(f) == [file |-> f, mtime |-> disk[f].mtime, path |-> disk[f].path]

(* What becomes an event of the feed; the full walk takes all it sees.     *)
Reported(f) == Listed(f) /\ (pc = "walk" \/ Changed(f))

(* The scanner takes the next entry of the walk.                           *)
Visit(f) ==
    /\ pc \in {"walk", "restat"} /\ f \in todo
    /\ todo' = todo \ {f}
    /\ gone' = IF pc = "walk" \/ Listed(f) THEN gone ELSE gone \cup {f}
    /\ batch' = IF Reported(f) THEN batch \cup {_entry(f)} ELSE batch
    /\ UNCHANGED <<files, staging, pc, run, partial, flight, server, history, bounds>>

(* The row of a file that is taken for removed, as the feed and the upsert *)
(* see it: one that has the mtime of the disk is never sent again, nor,    *)
(* with full-bit on, one that the full-bit pass takes over.                *)
LostBySkip(f) == staged[f].mtime # 0 /\ (fullbit \/ staged[f].mtime = disk[f].mtime)

(* An OSError at the root, at a directory or at an entry: what lies there  *)
(* is left out and the walk goes on.  The re-stat takes it for removed.    *)
SkipEntries(skipped) ==
    /\ pc \in {"walk", "restat"} /\ MayFail
    /\ skipped # {} /\ skipped \subseteq todo
    /\ \A f \in skipped : disk[f].on
    /\ faults' = faults + 1
    /\ todo' = todo \ skipped
    /\ gone' = IF pc = "walk" THEN gone ELSE gone \cup skipped
    /\ odd' = IF pc = "walk" THEN odd ELSE odd \cup {f \in skipped : LostBySkip(f)}
    /\ clean' = "no"
    /\ UNCHANGED <<fullbit, disk, staging, pc, run, batch, partial, flight, server, exact,
                   changes, forced>>

(* The upsert takes a new row, or one whose mtime (or size) has changed;   *)
(* the hashes of a row stay.                                               *)
Upserts(f) == \E e \in batch : e.file = f /\ e.mtime # staged[f].mtime

stage_batch ==
    staged' = [f \in File |->
        IF Upserts(f)
        THEN LET e == CHOOSE x \in batch : x.file = f
             IN [staged[f] EXCEPT !.mtime = e.mtime, !.path = e.path, !.run = run,
                                  !.mode = "metadata", !.pushed = FALSE]
        ELSE staged[f]]

(* MetadataScanner._flush, after any number of entries.                    *)
Flush ==
    /\ pc = "walk" /\ batch # {}
    /\ stage_batch
    /\ batch' = {}
    /\ UNCHANGED <<files, removal, baseline, pc, run, todo, gone, partial, flight,
                   server, history, bounds>>

(* load_baseline: every file that was ever staged.                         *)
Known == {f \in File : staged[f].mtime # 0}

(* Candidates of _run_fullbit: staged rows whose size is not unique.       *)
Candidates == IF Cardinality(Known) >= 2 THEN Known ELSE {}

(* A finished run is a baseline.                                           *)
finish_run == baseline' = TRUE

(* The walk is over; then the optional full-bit pass.                      *)
FinishWalk ==
    /\ pc = "walk" /\ todo = {} /\ batch = {}
    /\ finish_run
    /\ IF fullbit
       THEN pc' = "partial" /\ todo' = Candidates /\ run' = start_run
       ELSE pc' = "drain" /\ run' = 0 /\ UNCHANGED todo
    /\ UNCHANGED <<files, staged, removal, batch, gone, partial, flight, server, history, bounds>>

(* The load supervisor refuses the pass (an array is resyncing).           *)
should_block_fullbit ==
    /\ pc = "walk" /\ todo = {} /\ batch = {}
    /\ fullbit /\ MayFail
    /\ faults' = faults + 1
    /\ finish_run
    /\ pc' = "drain" /\ run' = 0 /\ clean' = "no"
    /\ UNCHANGED <<files, staged, removal, todo, batch, gone, partial, flight, server, exact,
                   changes, forced>>

(* The delta is staged once collect_delta has drained the feed.            *)
StageDelta ==
    /\ pc = "restat" /\ todo = {}
    /\ stage_batch
    /\ batch' = {}
    /\ pc' = "removals"
    /\ UNCHANGED <<files, removal, baseline, run, todo, gone, partial, flight,
                   server, history, bounds>>

(* The rows of the baseline that the walk did not see, in every cycle      *)
(* again: their staged rows are never deleted.                             *)
stage_removals ==
    removal' = [f \in File |-> IF f \in gone \cap Known
                               THEN [run |-> run, pushed |-> FALSE] ELSE removal[f]]

(* The end of IncrementalScanner.scan.                                     *)
StageRemovals ==
    /\ pc = "removals"
    /\ stage_removals
    /\ pc' = "drain" /\ run' = 0 /\ gone' = {}
    /\ UNCHANGED <<files, staged, baseline, todo, batch, partial, flight,
                   server, history, bounds>>

-----------------------------------------------------------------------------
(* The agent: the full-bit pass.                                           *)

(* The name under which the file was staged leads to it.                   *)
Readable(f) == disk[f].on /\ disk[f].path = staged[f].path

partial_digest(f) == Partial[disk[f].content]
full_digest(f) == disk[f].content

HashPartial(f) ==
    /\ pc = "partial" /\ f \in todo
    /\ todo' = todo \ {f}
    /\ partial' = IF Readable(f)
                  THEN [partial EXCEPT ![f] = partial_digest(f)] ELSE partial
    /\ UNCHANGED <<files, staging, pc, run, batch, gone, flight, server, history, bounds>>

(* Faulty variant: the first member of each group is taken for unique.     *)
CollidersButOne ==
    LET shared == {f \in File : partial[f] # NoHash
                      /\ \E g \in File \ {f} : partial[g] = partial[f]}
    IN IF shared = {} THEN {} ELSE shared \ {CHOOSE f \in shared : TRUE}

(* _funnel_group: a file whose partial hash is unique is not hashed.       *)
Colliders ==
    {f \in File : partial[f] # NoHash /\ \E g \in File \ {f} : partial[g] = partial[f]}

FinishPartial ==
    /\ pc = "partial" /\ todo = {}
    /\ pc' = "full"
    /\ todo' = Colliders
    /\ partial' = [f \in File |-> NoHash]
    /\ UNCHANGED <<files, staging, run, batch, gone, flight, server, history, bounds>>

(* The row moves to the full-bit run and is unpushed again.                *)
stage_hash(f) ==
    staged' = [staged EXCEPT ![f] = [@ EXCEPT !.hash = full_digest(f), !.run = run,
                                              !.mode = "fullbit", !.pushed = FALSE]]

HashFull(f) ==
    /\ pc = "full" /\ f \in todo
    /\ todo' = todo \ {f}
    /\ IF Readable(f) THEN stage_hash(f) ELSE UNCHANGED staged
    /\ UNCHANGED <<files, removal, baseline, pc, run, batch, gone, partial, flight,
                   server, history, bounds>>

(* _hash_batch: a file that cannot be opened or read is left out, and the  *)
(* pass goes on.                                                           *)
HashSkips(f) ==
    /\ pc \in {"partial", "full"} /\ f \in todo /\ Readable(f) /\ MayFail
    /\ faults' = faults + 1
    /\ todo' = todo \ {f}
    /\ clean' = "no"
    /\ UNCHANGED <<files, staging, pc, run, batch, gone, partial, flight, server, exact,
                   changes, forced>>

FinishFull ==
    /\ pc = "full" /\ todo = {}
    /\ pc' = "drain" /\ run' = 0
    /\ UNCHANGED <<files, staging, todo, batch, gone, partial, flight,
                   server, history, bounds>>

Forget == run' = 0 /\ todo' = {} /\ batch' = {} /\ gone' = {}
          /\ partial' = [f \in File |-> NoHash]

(* An OSError or sqlite3.Error ends the scan of the scope, not the run.    *)
ScanFails ==
    /\ pc \in {"walk", "restat", "removals", "partial", "full"} /\ MayFail
    /\ faults' = faults + 1
    /\ pc' = "drain" /\ clean' = "no"
    /\ Forget
    /\ UNCHANGED <<files, staging, flight, server, exact, changes, forced>>

-----------------------------------------------------------------------------
(* The agent: PushClient.drain.  No row is staged while it runs, so the    *)
(* runs it goes through, oldest first, are those with unpushed rows.       *)

PendingRuns == {staged[f].run : f \in Unpushed} \cup {removal[f].run : f \in UnpushedRemovals}

RowsOf(r) == {f \in Unpushed : staged[f].run = r}
RemovalsOf(r) == {f \in UnpushedRemovals : removal[f].run = r}

(* Up to Chunk of the rows.                                                *)
Chunks(rows) == {s \in SUBSET rows : Cardinality(s) = Chunk \/ (s = rows /\ Cardinality(s) < Chunk)}

_row_to_entry(f) ==
    [file |-> f, mtime |-> staged[f].mtime, path |-> staged[f].path, hash |-> staged[f].hash]

(* Faulty variant: newest first.                                           *)
NextRunNewest == Max(PendingRuns)

NextRun == Min(PendingRuns)

(* A run's entries, then its removals.                                     *)
NextChunk ==
    /\ pc = "drain" /\ PendingRuns # {}
    /\ LET r == NextRun
       IN IF RowsOf(r) # {}
          THEN \E s \in Chunks(RowsOf(r)) : flight' =
                  [mode |-> (CHOOSE m \in Mode : \A f \in RowsOf(r) : staged[f].mode = m),
                   rows |-> {_row_to_entry(f) : f \in s}, removed |-> {}]
          ELSE \E s \in Chunks(RemovalsOf(r)) : flight' =
                  [mode |-> "metadata", rows |-> {}, removed |-> s]
    /\ pc' = "post"
    /\ UNCHANGED <<files, staging, run, todo, batch, gone, partial, server, history, bounds>>

mark_pushed ==
    staged' = [f \in File |->
        IF \E x \in flight.rows : x.file = f
        THEN [staged[f] EXCEPT !.pushed = TRUE, !.run = 0, !.mode = "metadata"] ELSE staged[f]]

mark_removals_pushed ==
    removal' = [f \in File |-> IF f \in flight.removed
                               THEN [run |-> 0, pushed |-> TRUE] ELSE removal[f]]

(* The batch was accepted.                                                 *)
Ack ==
    /\ pc = "ack"
    /\ mark_pushed
    /\ mark_removals_pushed
    /\ flight' = NoFlight
    /\ pc' = "drain"
    /\ UNCHANGED <<files, baseline, run, todo, batch, gone, partial, server, history, bounds>>

(* Faulty variant: the rows are marked whether or not they were accepted.  *)
GiveUpMarksPushed ==
    /\ pc = "post" /\ MayFail
    /\ faults' = faults + 1
    /\ staged' = [f \in File |-> IF \E x \in flight.rows : x.file = f
                                 THEN [staged[f] EXCEPT !.pushed = TRUE] ELSE staged[f]]
    /\ flight' = NoFlight
    /\ pc' = "idle" /\ clean' = "no"
    /\ UNCHANGED <<files, removal, baseline, run, todo, batch, gone, partial, server, exact,
                   changes, forced>>

(* The retries are used up: PushError ends the run.                        *)
GiveUp ==
    /\ pc = "post" /\ MayFail
    /\ faults' = faults + 1
    /\ flight' = NoFlight
    /\ pc' = "idle" /\ clean' = "no"
    /\ UNCHANGED <<files, staging, run, todo, batch, gone, partial, server, exact, changes, forced>>

Crash ==
    /\ pc # "idle" /\ MayFail
    /\ faults' = faults + 1
    /\ pc' = "idle" /\ flight' = NoFlight /\ clean' = "no"
    /\ Forget
    /\ UNCHANGED <<files, staging, server, exact, changes, forced>>

-----------------------------------------------------------------------------
(* Core: ingest and finalize.                                              *)

Posted(f) == \E x \in flight.rows : x.file = f
PostedRow(f) == CHOOSE x \in flight.rows : x.file = f

(* _upsert_entries.  A metadata batch keeps the hash and sets presence; it *)
(* skips a row that is present and unchanged.  A full-bit batch sets the   *)
(* hash and keeps presence, whose default is TRUE.                         *)
Upserted(f) ==
    LET new == PostedRow(f)
    IN IF cat[f].mtime = 0
       THEN [mtime |-> new.mtime, path |-> new.path, present |-> TRUE,
             hash |-> IF flight.mode = "fullbit" THEN new.hash ELSE NoHash]
       ELSE IF flight.mode = "fullbit"
       THEN [cat[f] EXCEPT !.mtime = new.mtime, !.path = new.path, !.hash = new.hash]
       ELSE IF new.mtime # cat[f].mtime \/ ~cat[f].present
       THEN [cat[f] EXCEPT !.mtime = new.mtime, !.path = new.path, !.present = TRUE]
       ELSE cat[f]

(* Faulty variant: a removal that is posted again is logged again.         *)
DeletedAgain(f) == f \in flight.removed /\ cat[f].mtime # 0

(* ChangeReconciler._classify and _mark_removed.                           *)
Created(f) == Posted(f) /\ flight.mode = "metadata" /\ ~cat[f].present
Deleted(f) == f \in flight.removed /\ cat[f].present

(* The rows it adds to change_log.                                         *)
Logged(f) == IF Created(f) THEN 1 ELSE IF Deleted(f) THEN -1 ELSE 0

(* One ingest transaction.  The response may be lost; the client posts the *)
(* batch again.                                                            *)
Ingest ==
    /\ pc = "post"
    /\ cat' = [f \in File |-> IF Posted(f) THEN Upserted(f)
                              ELSE IF Deleted(f) THEN [cat[f] EXCEPT !.present = FALSE]
                              ELSE cat[f]]
    /\ churn' = [f \in File |-> churn[f] + Logged(f)]
    /\ \/ pc' = "ack" /\ UNCHANGED faults
       \/ MayFail /\ faults' = faults + 1 /\ UNCHANGED pc
    /\ UNCHANGED <<files, staging, run, todo, batch, gone, partial, flight, groups,
                   history, changes, forced>>

(* DedupService: present rows with the same full hash, two or more.        *)
Hashed == {f \in File : cat[f].present /\ cat[f].hash # NoHash}
GroupOf(f) == IF f \in Hashed /\ \E g \in Hashed \ {f} : cat[g].hash = cat[f].hash
              THEN cat[f].hash ELSE NoHash

Completed ==
    exact' = exact \cup (IF clean = "incremental" THEN {"incremental"} ELSE {})
                   \cup (IF clean = "full" /\ fullbit THEN {"hashed"} ELSE {})

(* finalize_host rebuilds the groups if the host has any hash.  A failure  *)
(* is swallowed.                                                           *)
Finalize ==
    /\ pc = "drain" /\ PendingRuns = {}
    /\ pc' = "idle"
    /\ \/ /\ groups' = IF \E f \in File : cat[f].hash # NoHash
                       THEN [f \in File |-> GroupOf(f)] ELSE groups
          /\ Completed
          /\ UNCHANGED faults
       \/ /\ MayFail /\ faults' = faults + 1
          /\ UNCHANGED <<groups, exact>>
    /\ clean' = "no"
    /\ UNCHANGED <<files, staging, run, todo, batch, gone, partial, flight, cat, churn,
                   changes, forced>>

-----------------------------------------------------------------------------

Agent ==
    \/ \E f \in File : Visit(f) \/ HashPartial(f) \/ HashFull(f)
    \/ Flush \/ FinishWalk \/ StageDelta \/ StageRemovals
    \/ FinishPartial \/ FinishFull
    \/ NextChunk \/ Ingest \/ Ack \/ Finalize

(* What the agent leaves out.                                              *)
Skips == (\E skipped \in SUBSET todo : SkipEntries(skipped)) \/ \E f \in todo : HashSkips(f)

Next ==
    \/ Users \/ Agent \/ Skips \/ should_block_fullbit \/ ScanFails \/ GiveUp \/ Crash
    \/ StartCycle(FALSE) \/ scan_one_root_now

Spec == Init /\ [][Next]_vars

(* The scheduler keeps starting ordinary cycles and a cycle runs to its    *)
(* end; what goes wrong is bounded by MaxFaults.                           *)
FairSpec == Spec /\ WF_vars(Agent) /\ WF_vars(StartCycle(FALSE))

-----------------------------------------------------------------------------
(* Properties.                                                             *)

InCatalogue(f) ==
    IF disk[f].on
    THEN cat[f].present /\ cat[f].mtime = disk[f].mtime /\ cat[f].path = disk[f].path
    ELSE ~cat[f].present

(* After an incremental cycle in which nothing changed on disk and no      *)
(* error hid a file, and until the disk changes, the catalogue is exactly  *)
(* the disk: every file with its current name and mtime, and no other file *)
(* present, whatever failed, crashed or was posted twice in other cycles.  *)
(* Only the changes that Missed names and the files that LostBySkip names  *)
(* are left out.                                                           *)
CycleMeansExact == "incremental" \in exact => \A f \in File \ odd : InCatalogue(f)

(* A row the agent takes for pushed is in the catalogue, as staged: no     *)
(* lost request, lost response or crash loses a change (PushClient.drain). *)
PushedIsIngested ==
    \A f \in File : staged[f].pushed =>
        cat[f].mtime = staged[f].mtime /\ cat[f].path = staged[f].path

(* The change log tells the catalogue's story: over any number of retries  *)
(* a file that is present has one CREATE more than DELETEs, one that is    *)
(* not has as many.  (A full-bit batch writes no churn, so a file first    *)
(* pushed by one is not counted.)                                          *)
ChurnBalances ==
    ~fullbit => \A f \in File : churn[f] = IF cat[f].present THEN 1 ELSE 0

(* After a full-bit cycle in which nothing changed on disk and no error    *)
(* hid a file, two files with the same content are reported as duplicates. *)
DuplicatesAreFound ==
    "hashed" \in exact =>
        \A f, g \in File \ odd :
            f # g /\ disk[f].on /\ disk[g].on /\ disk[f].content = disk[g].content
            => groups[f] = disk[f].content

(* Once the disk no longer changes, the catalogue becomes the disk and     *)
(* stays so, but for the changes that Missed names and the files that      *)
(* LostBySkip names.                                                       *)
EventuallyExact == <>[](\A f \in File \ odd : InCatalogue(f))

(* What core/incremental.py:14 promises of a removed row, for files that   *)
(* nobody touches: one that is seen again is present again.                *)
SeenAgainIsPresent == <>[](\A f \in File : disk[f].on => cat[f].present)
=============================================================================
