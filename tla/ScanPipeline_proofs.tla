------------------------- MODULE ScanPipeline_proofs -------------------------
(* Proofs about ScanPipeline, for any finite set of files, any contents and   *)
(* hash functions, any chunk size and any number of changes, faults and       *)
(* cycles: a row marked as pushed is in the catalogue, the change log adds    *)
(* up, an incremental cycle without errors leaves the catalogue equal to the  *)
(* disk but for the files it lost sight of, and a full-bit cycle without      *)
(* errors finds the duplicates.                                               *)
EXTENDS ScanPipeline, FiniteSetTheorems, WellFoundedInduction, TLAPS

Moment == {"idle", "walk", "restat", "removals", "partial", "full", "drain", "post", "ack"}
Sending == {"drain", "post", "ack"}
Pending(f) == ~staged[f].pushed
Leaving(f) == ~removal[f].pushed

-----------------------------------------------------------------------------
(* What each part of the agent's memory holds at each moment of a cycle.      *)
Moments ==
    /\ pc \notin {"walk", "restat"} => batch = {}
    /\ pc \notin {"restat", "removals"} => gone = {}
    /\ pc \notin {"post", "ack"} => flight = NoFlight
    /\ flight.rows = {} \/ flight.removed = {}
    /\ pc \in {"partial", "full"} => fullbit
    /\ clean = "incremental" => pc \in {"restat", "removals"} \cup Sending
    /\ clean = "full" => pc \in {"walk", "partial", "full"} \cup Sending
    /\ "hashed" \in exact => fullbit

(* A pass visits a file once: it is read, or missed, or still to do.          *)
OneVisit ==
    /\ \A e \in batch : e.file \notin todo /\ e.file \notin gone
    /\ \A e1, e2 \in batch : e1.file = e2.file => e1 = e2
    /\ pc = "restat" => gone \cap todo = {}

(* Versions of a file reach the batch, the staging table and the catalogue in *)
(* the order of their mtimes.                                                 *)
MtimesGrow ==
    /\ \A f \in File : /\ cat[f].mtime <= staged[f].mtime
                       /\ staged[f].mtime <= disk[f].mtime
                       /\ disk[f].mtime <= changes + 1
    /\ \A e \in batch : staged[e.file].mtime <= e.mtime /\ e.mtime <= disk[e.file].mtime

(* Rows and removals that are pending are about files that were staged.       *)
StagedFirst ==
    /\ \A f \in File : staged[f].mtime = 0 => ~Pending(f) /\ ~Leaving(f)
    /\ \A f \in File : cat[f].mtime = 0 => ~cat[f].present
    /\ pc \in {"partial", "full"} => todo \subseteq Known
    /\ \A f \in File : partial[f] # NoHash => f \in Known

(* The rows of a run have one mode; the run under way is the newest.          *)
RunsAreApart ==
    /\ \A f, g \in File : Pending(f) /\ Pending(g) /\ staged[f].run = staged[g].run
                          => staged[f].mode = staged[g].mode
    /\ pc \in {"walk", "restat", "removals", "partial", "full"} =>
          \A f \in File : /\ Pending(f) => staged[f].run <= run
                          /\ Leaving(f) => removal[f].run < run
                          /\ Pending(f) /\ staged[f].run = run =>
                                staged[f].mode = IF pc \in {"partial", "full"} THEN "fullbit"
                                                 ELSE "metadata"
    /\ ~fullbit => \A f \in File : staged[f].mode = "metadata"

(* The batch in flight is what is staged, of the oldest run, entries first.   *)
FlightIsStaged ==
    /\ \A x \in flight.rows :
          /\ x.file \in File /\ x = _row_to_entry(x.file)
          /\ Pending(x.file) /\ staged[x.file].mode = flight.mode
          /\ \A f \in File : Leaving(f) => staged[x.file].run <= removal[f].run
    /\ \A f \in flight.removed :
          /\ Leaving(f)
          /\ \A g \in File : Pending(g) => removal[f].run < staged[g].run
    /\ ~fullbit => flight.mode = "metadata"

(* An acknowledged batch is in the catalogue.                                 *)
AckedIsIngested ==
    pc = "ack" =>
        /\ \A x \in flight.rows :
              /\ cat[x.file].mtime = x.mtime /\ cat[x.file].path = x.path
              /\ IF flight.mode = "fullbit" THEN cat[x.file].hash = x.hash
                 ELSE cat[x.file].present
        /\ \A f \in flight.removed : ~cat[f].present

(* One mtime of a file has one name, in the catalogue as in the staging table *)
(* and, but for the changes the agent misses, as on disk.                     *)
NamesFollow ==
    /\ \A f \in File : cat[f].mtime = staged[f].mtime => cat[f].path = staged[f].path
    /\ \A f \in File \ odd : staged[f].mtime = disk[f].mtime => staged[f].path = disk[f].path
    /\ \A e \in batch : e.file \notin odd /\ e.mtime = disk[e.file].mtime
                        => e.path = disk[e.file].path

(* With full-bit on, a file that comes back under a known inode is missed:    *)
(* one that is not was never removed.                                         *)
NeverRemoved ==
    fullbit => \A f \in File \ odd :
        disk[f].on => /\ ~Leaving(f)
                      /\ f \in gone => staged[f].mtime = 0
                      /\ cat[f].mtime # 0 => cat[f].present

(* With full-bit off, a removal that is still pending was staged before the   *)
(* row of the file that came back.                                            *)
RemovedBefore ==
    ~fullbit => \A f \in File \ odd :
        disk[f].on /\ staged[f].mtime = disk[f].mtime =>
            /\ f \notin gone
            /\ Leaving(f) => Pending(f) /\ removal[f].run < staged[f].run
            /\ ~Pending(f) => cat[f].present

(* What an incremental cycle has done so far, if nothing changed on disk.     *)
Seen(f) ==
    \/ disk[f].on /\ f \notin gone
          /\ \/ staged[f].mtime = disk[f].mtime
             \/ \E e \in batch : e.file = f /\ e.mtime = disk[f].mtime
    \/ ~disk[f].on /\ f \in gone

Delivered(f) ==
    IF disk[f].on THEN staged[f].mtime = disk[f].mtime
    ELSE \/ Leaving(f) /\ (Pending(f) => staged[f].run <= removal[f].run)
         \/ ~Pending(f) /\ ~cat[f].present

IncrementalSoFar ==
    clean = "incremental" =>
        /\ pc = "restat" => \A f \in File : f \notin todo => Seen(f)
        /\ pc = "removals" => \A f \in File :
              IF disk[f].on THEN f \notin gone /\ staged[f].mtime = disk[f].mtime
              ELSE f \in gone
        /\ pc \in Sending => \A f \in File : Delivered(f)

(* Until the disk changes, no later cycle changes what matters.               *)
Settled(f) ==
    /\ InCatalogue(f)
    /\ IF disk[f].on THEN staged[f].mtime = disk[f].mtime /\ ~Leaving(f) /\ f \notin gone
       ELSE ~Pending(f) /\ \A e \in batch : e.file # f

StaysExact == "incremental" \in exact => \A f \in File \ odd : Settled(f)

(* A file that has a duplicate.                                               *)
Twin(f) ==
    /\ f \in File \ odd /\ disk[f].on
    /\ \E g \in File \ odd : g # f /\ disk[g].on /\ disk[g].content = disk[f].content

(* What a full-bit cycle has done so far, if nothing changed on disk.         *)
HashedSoFar ==
    clean = "full" =>
        /\ pc = "walk" => \A f \in File : disk[f].on /\ f \notin todo =>
              \/ staged[f].mtime = disk[f].mtime
              \/ \E e \in batch : e.file = f /\ e.mtime = disk[f].mtime
        /\ pc # "walk" => \A f \in File : disk[f].on => staged[f].mtime = disk[f].mtime
        /\ pc = "partial" => \A f \in File :
              Twin(f) /\ f \notin todo => partial[f] = Partial[disk[f].content]
        /\ pc = "full" => \A f \in File :
              Twin(f) /\ f \notin todo => /\ staged[f].hash = disk[f].content
                                          /\ Pending(f) /\ staged[f].mode = "fullbit"
        /\ pc \in Sending /\ fullbit => \A f \in File :
              Twin(f) => /\ staged[f].hash = disk[f].content
                         /\ IF Pending(f) THEN staged[f].mode = "fullbit"
                            ELSE cat[f].hash = disk[f].content

StaysHashed ==
    "hashed" \in exact => \A f \in File : Twin(f) =>
        /\ staged[f].mtime = disk[f].mtime /\ staged[f].hash = disk[f].content
        /\ cat[f].present /\ cat[f].hash = disk[f].content
        /\ groups[f] = disk[f].content

(* The inductive invariant.                                                   *)
IInv ==
    /\ TypeOK /\ Moments /\ OneVisit /\ MtimesGrow /\ StagedFirst /\ RunsAreApart
    /\ FlightIsStaged /\ AckedIsIngested /\ NamesFollow /\ PushedIsIngested /\ ChurnBalances
    /\ NeverRemoved /\ RemovedBefore /\ IncrementalSoFar /\ StaysExact
    /\ HashedSoFar /\ StaysHashed

-----------------------------------------------------------------------------
(* Numbers.                                                                   *)

(* A set of naturals has a least element.  (This is how an induction over     *)
(* data is written here: the least counterexample.)                           *)
LEMMA LeastOf ==
    ASSUME NEW T, T \subseteq Nat, T # {}
    PROVE  \E x \in T : \A y \in T : x <= y
<1>1. PICK x \in T : \A y \in T : ~ (<<y, x>> \in OpToRel(<, Nat))
  BY WFMin, NatLessThanWellFounded, Zenon
<1>2. \A y \in T : ~(y < x)
  BY <1>1 DEF OpToRel
<1> QED
  BY <1>2

(* A finite set of naturals has a greatest element.                           *)
LEMMA GreatestOf ==
    ASSUME NEW S, S \subseteq Nat, IsFiniteSet(S), S # {}
    PROVE  \E x \in S : \A y \in S : y <= x
<1> DEFINE Bad(n) == \E U \in SUBSET S : /\ U # {} /\ Cardinality(U) = n
                                         /\ \A x \in U : \E y \in U : ~(y <= x)
           T == {n \in Nat : Bad(n)}
<1>1. SUFFICES ASSUME ~ \E x \in S : \A y \in S : y <= x PROVE FALSE
  OBVIOUS
<1>2. Cardinality(S) \in T
  BY <1>1, FS_CardinalityType
<1>3. PICK n \in T : \A m \in T : n <= m
  BY <1>2, LeastOf
<1>4. PICK U \in SUBSET S : /\ U # {} /\ Cardinality(U) = n
                            /\ \A x \in U : \E y \in U : ~(y <= x)
  BY <1>3
<1>5. PICK z \in U : TRUE
  BY <1>4
<1>6. IsFiniteSet(U)
  BY FS_Subset
<1>7. IsFiniteSet(U \ {z}) /\ Cardinality(U \ {z}) = n - 1 /\ Cardinality(U \ {z}) \in Nat
  BY <1>6, <1>4, <1>5, FS_RemoveElement, FS_CardinalityType
<1>8. \A x \in U \ {z} : \E y \in U \ {z} : ~(y <= x)
  <2> TAKE x \in U \ {z}
  <2>1. PICK y \in U : ~(y <= x)
    BY <1>4
  <2>2. CASE y = z
    <3>1. PICK w \in U : ~(w <= z)
      BY <1>4, <1>5
    <3> QED
      BY <2>1, <2>2, <3>1
  <2> QED
    BY <2>1, <2>2
<1>9. U \ {z} # {}
  <2>1. PICK w \in U : ~(w <= z)
    BY <1>4, <1>5
  <2> QED
    BY <2>1, <1>5
<1> HIDE DEF T
<1>10. n - 1 \in T
  BY <1>7, <1>8, <1>9 DEF T
<1> QED
  BY <1>10, <1>3 DEF T

(* The values of a function on a finite set are finitely many.                *)
LEMMA FiniteImage ==
    ASSUME NEW S, IsFiniteSet(S), NEW g
    PROVE  IsFiniteSet({g[x] : x \in S})
<1> DEFINE T == {g[x] : x \in S}
           h == [x \in S |-> g[x]]
<1>1. h \in Surjection(S, T)
  BY DEF Surjection
<1> QED
  BY <1>1, FS_Surjection

(* start_run gives a number above those of all the runs that are pending.     *)
LEMMA StartRunIsNew ==
    ASSUME TypeOK
    PROVE  /\ start_run \in Nat
           /\ \A f \in File : /\ Pending(f) => staged[f].run < start_run
                              /\ Leaving(f) => removal[f].run < start_run
<1> DEFINE A == {staged[f].run : f \in Unpushed}
           B == {removal[f].run : f \in UnpushedRemovals}
           S == {0} \cup A \cup B
           sr == [f \in File |-> staged[f].run]
           rr == [f \in File |-> removal[f].run]
<1>1. IsFiniteSet(Unpushed) /\ IsFiniteSet(UnpushedRemovals)
  BY PipelineConstants, FS_Subset DEF Unpushed, UnpushedRemovals
<1>2. A = {sr[f] : f \in Unpushed} /\ B = {rr[f] : f \in UnpushedRemovals}
  BY DEF Unpushed, UnpushedRemovals
<1>3. IsFiniteSet(A) /\ IsFiniteSet(B)
  <2> HIDE DEF sr, rr
  <2>1. IsFiniteSet({sr[f] : f \in Unpushed}) /\ IsFiniteSet({rr[f] : f \in UnpushedRemovals})
    BY <1>1, FiniteImage
  <2> QED
    BY <2>1, <1>2
<1>4. A \subseteq Nat /\ B \subseteq Nat
  BY DEF TypeOK, Unpushed, UnpushedRemovals
<1>5. IsFiniteSet(S) /\ S \subseteq Nat /\ S # {}
  <2> HIDE DEF A, B
  <2>1. IsFiniteSet({0})
    BY FS_Singleton
  <2>2. IsFiniteSet({0} \cup A)
    BY <2>1, <1>3, FS_Union
  <2>3. IsFiniteSet(({0} \cup A) \cup B)
    BY <2>2, <1>3, FS_Union
  <2>4. S = ({0} \cup A) \cup B /\ 0 \in S
    OBVIOUS
  <2> QED
    BY <2>3, <2>4, <1>4
<1>6. Max(S) \in S /\ \A y \in S : y <= Max(S)
  <2> HIDE DEF S
  <2>1. PICK x \in S : \A y \in S : y <= x
    BY <1>5, GreatestOf
  <2>2. \A y \in S : x >= y
    BY <2>1, <1>5
  <2>3. Max(S) \in S /\ \A y \in S : Max(S) >= y
    BY <2>2 DEF Max
  <2> QED
    BY <2>3, <1>5
<1>7. start_run = Max(S) + 1
  BY DEF start_run
<1>8. \A f \in File : /\ Pending(f) => staged[f].run \in S
                      /\ Leaving(f) => removal[f].run \in S
  BY DEF Pending, Leaving, Unpushed, UnpushedRemovals
<1> HIDE DEF S
<1>9. Max(S) \in Nat
  BY <1>5, <1>6
<1>10. \A y \in S : y < Max(S) + 1
  BY <1>5, <1>6, <1>9
<1> QED
  BY <1>7, <1>8, <1>9, <1>10

(* The drain takes the oldest run.                                            *)
LEMMA NextRunIsOldest ==
    ASSUME TypeOK, PendingRuns # {}
    PROVE  /\ NextRun \in PendingRuns
           /\ \A f \in File : /\ Pending(f) => NextRun <= staged[f].run
                              /\ Leaving(f) => NextRun <= removal[f].run
<1>1. PendingRuns \subseteq Nat
  BY DEF PendingRuns, TypeOK, Unpushed, UnpushedRemovals
<1>2. PICK x \in PendingRuns : \A y \in PendingRuns : x <= y
  BY <1>1, LeastOf
<1>3. NextRun \in PendingRuns /\ \A y \in PendingRuns : NextRun <= y
  BY <1>2 DEF NextRun, Min
<1>4. \A f \in File : /\ Pending(f) => staged[f].run \in PendingRuns
                      /\ Leaving(f) => removal[f].run \in PendingRuns
  BY DEF Pending, Leaving, Unpushed, UnpushedRemovals, PendingRuns
<1> QED
  BY <1>3, <1>4

-----------------------------------------------------------------------------
(* What the actions do to the row of one file.                                *)

Restaged(f, e) ==
    /\ e.file = f /\ e.mtime # staged[f].mtime
    /\ staged'[f].mtime = e.mtime /\ staged'[f].path = e.path
    /\ staged'[f].hash = staged[f].hash /\ staged'[f].run = run
    /\ staged'[f].mode = "metadata" /\ staged'[f].pushed = FALSE

StageMove(f) ==
    \/ staged'[f] = staged[f] /\ \A e \in batch : e.file = f => e.mtime = staged[f].mtime
    \/ \E e \in batch : Restaged(f, e)

(* stage_batch: the row is replaced by an entry with another mtime, or kept.  *)
LEMMA StageBatchRows ==
    ASSUME TypeOK, OneVisit, stage_batch, NEW f \in File
    PROVE  StageMove(f)
<1> USE DEF StageMove
<1>1. CASE ~Upserts(f)
  BY <1>1 DEF stage_batch, Upserts
<1>2. CASE Upserts(f)
  <2>1. PICK e \in batch : e.file = f /\ e.mtime # staged[f].mtime
    BY <1>2 DEF Upserts
  <2>2. (CHOOSE x \in batch : x.file = f) = e
    BY <2>1 DEF OneVisit
  <2>3. staged'[f] = [staged[f] EXCEPT !.mtime = e.mtime, !.path = e.path, !.run = run,
                                       !.mode = "metadata", !.pushed = FALSE]
    BY <1>2, <2>2 DEF stage_batch
  <2>4. staged[f] \in [mtime : Mtime, path : Path, hash : Hash,
                       run : Nat, mode : Mode, pushed : BOOLEAN]
    BY DEF TypeOK
  <2> HIDE DEF stage_batch, Mtime, Path, Hash, Mode
  <2>5. Restaged(f, e)
    BY <2>1, <2>3, <2>4 DEF Restaged
  <2> QED
    BY <2>5
<1> QED
  BY <1>1, <1>2

HashMove(f) ==
    /\ \A g \in File : g # f => staged'[g] = staged[g]
    /\ ~Readable(f) => staged'[f] = staged[f]
    /\ Readable(f) => /\ staged'[f].mtime = staged[f].mtime /\ staged'[f].path = staged[f].path
                      /\ staged'[f].hash = disk[f].content /\ staged'[f].run = run
                      /\ staged'[f].mode = "fullbit" /\ staged'[f].pushed = FALSE

(* stage_hash: the row of a file that can be read moves to the full-bit run.  *)
LEMMA HashFullRows ==
    ASSUME TypeOK, NEW f \in File, HashFull(f)
    PROVE  HashMove(f)
<1> USE DEF HashMove
<1>1. CASE ~Readable(f)
  BY <1>1 DEF HashFull
<1>2. CASE Readable(f)
  <2>1. staged' = [staged EXCEPT ![f] =
             [@ EXCEPT !.hash = disk[f].content, !.run = run,
                       !.mode = "fullbit", !.pushed = FALSE]]
    BY <1>2 DEF HashFull, stage_hash, full_digest
  <2>2. staged \in [File -> [mtime : Mtime, path : Path, hash : Hash,
                             run : Nat, mode : Mode, pushed : BOOLEAN]]
    BY DEF TypeOK
  <2> HIDE DEF Mtime, Path, Hash, Mode
  <2> QED
    BY <1>2, <2>1, <2>2
<1> QED
  BY <1>1, <1>2

AckMove(f) ==
    /\ ~Posted(f) => staged'[f] = staged[f]
    /\ Posted(f) => /\ staged'[f].mtime = staged[f].mtime /\ staged'[f].path = staged[f].path
                    /\ staged'[f].hash = staged[f].hash /\ staged'[f].run = 0
                    /\ staged'[f].mode = "metadata" /\ staged'[f].pushed = TRUE
    /\ f \notin flight.removed => removal'[f] = removal[f]
    /\ f \in flight.removed => removal'[f] = [run |-> 0, pushed |-> TRUE]

(* mark_pushed and mark_removals_pushed: the rows of the batch, no other.     *)
LEMMA AckRows ==
    ASSUME TypeOK, Ack, NEW f \in File
    PROVE  AckMove(f)
<1> USE DEF AckMove
<1>1. staged' = [g \in File |-> IF Posted(g)
             THEN [staged[g] EXCEPT !.pushed = TRUE, !.run = 0, !.mode = "metadata"]
             ELSE staged[g]]
  BY DEF Ack, mark_pushed, Posted
<1>2. staged \in [File -> [mtime : Mtime, path : Path, hash : Hash,
                           run : Nat, mode : Mode, pushed : BOOLEAN]]
  BY DEF TypeOK
<1>3. /\ f \notin flight.removed => removal'[f] = removal[f]
      /\ f \in flight.removed => removal'[f] = [run |-> 0, pushed |-> TRUE]
  BY DEF Ack, mark_removals_pushed
<1> HIDE DEF Mtime, Path, Hash, Mode, Posted
<1>4. ~Posted(f) => staged'[f] = staged[f]
  BY <1>1
<1>5. Posted(f) => staged'[f] =
          [staged[f] EXCEPT !.pushed = TRUE, !.run = 0, !.mode = "metadata"]
  BY <1>1
<1>6. staged[f] \in [mtime : Mtime, path : Path, hash : Hash,
                     run : Nat, mode : Mode, pushed : BOOLEAN]
  BY <1>2
<1> QED
  BY <1>3, <1>4, <1>5, <1>6

Applied(f, x) ==
    /\ x.file = f
    /\ cat'[f].mtime = x.mtime
    /\ \/ cat'[f].path = x.path
       \/ cat'[f].path = cat[f].path /\ cat[f].mtime = x.mtime
    /\ flight.mode = "fullbit" => cat'[f].hash = x.hash
    /\ flight.mode # "fullbit" /\ cat[f].mtime # 0 => cat'[f].hash = cat[f].hash
    /\ cat'[f].present <=> cat[f].mtime = 0 \/ flight.mode # "fullbit" \/ cat[f].present

IngestMove(f) ==
    /\ Posted(f) => \E x \in flight.rows : Applied(f, x)
    /\ ~Posted(f) => /\ cat'[f].mtime = cat[f].mtime /\ cat'[f].path = cat[f].path
                     /\ cat'[f].hash = cat[f].hash
                     /\ (cat'[f].present <=> cat[f].present /\ f \notin flight.removed)

(* _upsert_entries and _mark_removed on the row of one file.                  *)
LEMMA IngestRows ==
    ASSUME TypeOK, Ingest, NEW f \in File
    PROVE  IngestMove(f)
<1> USE DEF IngestMove
<1>1. cat' = [g \in File |-> IF Posted(g) THEN Upserted(g)
                             ELSE IF Deleted(g) THEN [cat[g] EXCEPT !.present = FALSE]
                             ELSE cat[g]]
  BY DEF Ingest
<1>2. cat[f] \in [mtime : Mtime, path : Path, present : BOOLEAN, hash : Hash]
  BY DEF TypeOK
<1>3. CASE ~Posted(f)
  <2> HIDE DEF Mtime, Path, Hash, Posted
  <2>1. cat'[f] = IF Deleted(f) THEN [cat[f] EXCEPT !.present = FALSE] ELSE cat[f]
    BY <1>1, <1>3
  <2> QED
    BY <1>2, <1>3, <2>1 DEF Deleted
<1>4. CASE Posted(f)
  <2> DEFINE row == PostedRow(f)
  <2>1. row \in flight.rows /\ row.file = f
    BY <1>4 DEF Posted, PostedRow
  <2>2. cat'[f] = Upserted(f)
    BY <1>1, <1>4
  <2> HIDE DEF row, Mtime, Path, Hash
  <2>3. ASSUME cat[f].mtime = 0
       PROVE  Applied(f, row)
    <3>1. cat'[f] = [mtime |-> row.mtime, path |-> row.path, present |-> TRUE,
                     hash |-> IF flight.mode = "fullbit" THEN row.hash ELSE NoHash]
      BY <2>2, <2>3 DEF Upserted, row
    <3> QED
      BY <2>1, <2>3, <3>1 DEF Applied
  <2>4. ASSUME cat[f].mtime # 0 /\ flight.mode = "fullbit"
       PROVE  Applied(f, row)
    <3>1. cat'[f] = [cat[f] EXCEPT !.mtime = row.mtime, !.path = row.path, !.hash = row.hash]
      BY <2>2, <2>4 DEF Upserted, row
    <3> QED
      BY <1>2, <2>1, <2>4, <3>1 DEF Applied
  <2>5. ASSUME /\ cat[f].mtime # 0 /\ flight.mode # "fullbit"
               /\ row.mtime # cat[f].mtime \/ ~cat[f].present
       PROVE  Applied(f, row)
    <3>1. cat'[f] = [cat[f] EXCEPT !.mtime = row.mtime, !.path = row.path, !.present = TRUE]
      BY <2>2, <2>5 DEF Upserted, row
    <3> QED
      BY <1>2, <2>1, <2>5, <3>1 DEF Applied
  <2>6. ASSUME /\ cat[f].mtime # 0 /\ flight.mode # "fullbit"
               /\ row.mtime = cat[f].mtime /\ cat[f].present
       PROVE  Applied(f, row)
    <3>1. cat'[f] = cat[f]
      BY <2>2, <2>6 DEF Upserted, row
    <3> QED
      BY <1>2, <2>1, <2>6, <3>1 DEF Applied
  <2>7. Applied(f, row)
    BY <2>3, <2>4, <2>5, <2>6
  <2> QED
    BY <1>4, <2>1, <2>7
<1> QED
  BY <1>3, <1>4

ChunkTaken ==
    /\ flight'.mode \in Mode /\ flight'.rows \subseteq Row /\ flight'.removed \subseteq File
    /\ flight'.rows # {} \/ flight'.removed # {}
    /\ flight'.rows = {} \/ flight'.removed = {}
    /\ \A x \in flight'.rows :
          /\ x.file \in File /\ x = _row_to_entry(x.file) /\ Pending(x.file)
          /\ staged[x.file].mode = flight'.mode
          /\ \A f \in File : Leaving(f) => staged[x.file].run <= removal[f].run
    /\ \A f \in flight'.removed :
          Leaving(f) /\ \A g \in File : Pending(g) => removal[f].run < staged[g].run
    /\ ~fullbit => flight'.mode = "metadata"

(* A chunk of something is something.                                         *)
LEMMA ChunksAreNotEmpty ==
    ASSUME NEW rows, rows # {}, NEW s \in Chunks(rows)
    PROVE  s # {} /\ s \subseteq rows
<1>1. Cardinality({}) = 0
  BY FS_EmptySet
<1>2. s \in SUBSET rows /\ (Cardinality(s) = Chunk \/ s = rows)
  BY DEF Chunks
<1>3. Chunk # 0
  BY PipelineConstants
<1> QED
  BY <1>1, <1>2, <1>3

(* The next batch: rows of one mode, or removals, of the oldest run.          *)
LEMMA NextChunkTakes ==
    ASSUME TypeOK, StagedFirst, RunsAreApart, NextChunk
    PROVE  ChunkTaken
<1> DEFINE r == NextRun
<1>1. /\ r \in PendingRuns
      /\ \A f \in File : Pending(f) => r <= staged[f].run
      /\ \A f \in File : Leaving(f) => r <= removal[f].run
  BY NextRunIsOldest DEF NextChunk
<1>2. /\ RowsOf(r) \subseteq File
      /\ \A f \in File : f \in RowsOf(r) <=> Pending(f) /\ staged[f].run = r
  BY DEF RowsOf, Unpushed, Pending
<1>3. /\ RemovalsOf(r) \subseteq File
      /\ \A f \in File : f \in RemovalsOf(r) <=> Leaving(f) /\ removal[f].run = r
  BY DEF RemovalsOf, UnpushedRemovals, Leaving
<1>4. CASE RowsOf(r) # {}
  <2> DEFINE mode == CHOOSE m \in Mode : \A f \in RowsOf(r) : staged[f].mode = m
  <2>1. PICK s \in Chunks(RowsOf(r)) :
            flight' = [mode |-> mode, rows |-> {_row_to_entry(f) : f \in s}, removed |-> {}]
    BY <1>4 DEF NextChunk
  <2>2. s # {} /\ s \subseteq RowsOf(r)
    BY <1>4, ChunksAreNotEmpty
  <2>3. PICK f0 \in RowsOf(r) : TRUE
    BY <1>4
  <2>4. staged[f0].mode \in Mode /\ \A f \in RowsOf(r) : staged[f].mode = staged[f0].mode
    <3>1. staged[f0].mode \in Mode
      BY <1>2, <2>3 DEF TypeOK
    <3> QED
      BY <1>2, <2>3, <3>1 DEF RunsAreApart
  <2>5. mode \in Mode /\ \A f \in RowsOf(r) : staged[f].mode = mode
    BY <2>4
  <2> HIDE DEF mode
  <2>6. flight'.mode = mode /\ flight'.rows = {_row_to_entry(f) : f \in s}
            /\ flight'.removed = {}
    BY <2>1
  <2>7. \A x \in flight'.rows : \E f \in s : x = _row_to_entry(f)
    BY <2>6
  <2>8. \A f \in s : _row_to_entry(f).file = f
    BY DEF _row_to_entry
  <2>9. ASSUME NEW f \in s PROVE _row_to_entry(f) \in Row
    <3>1. f \in File /\ Pending(f)
      BY <1>2, <2>2
    <3>2. staged[f].mtime # 0 /\ staged[f].mtime \in Mtime /\ staged[f].path \in Path
             /\ staged[f].hash \in Hash
      BY <3>1 DEF StagedFirst, TypeOK
    <3> QED
      BY <3>1, <3>2 DEF Row, _row_to_entry
  <2>10. flight'.rows \subseteq Row /\ flight'.rows # {}
    BY <2>2, <2>6, <2>9
  <2>11. ASSUME NEW x \in flight'.rows
         PROVE  /\ x.file \in File /\ x = _row_to_entry(x.file) /\ Pending(x.file)
                /\ staged[x.file].mode = flight'.mode
                /\ \A f \in File : Leaving(f) => staged[x.file].run <= removal[f].run
    <3>1. PICK f \in s : x = _row_to_entry(f)
      BY <2>7
    <3>2. x.file = f /\ f \in RowsOf(r)
      BY <3>1, <2>8, <2>2
    <3>3. f \in File /\ Pending(f) /\ staged[f].run = r
      BY <3>2, <1>2
    <3>4. staged[f].mode = flight'.mode
      BY <3>2, <2>5, <2>6
    <3> HIDE DEF r
    <3> QED
      BY <3>1, <3>2, <3>3, <3>4, <1>1
  <2>12. ~fullbit => flight'.mode = "metadata"
    <3>1. ~fullbit => staged[f0].mode = "metadata"
      BY <1>2, <2>3 DEF RunsAreApart
    <3> QED
      BY <3>1, <2>3, <2>5, <2>6
  <2>13. \A f \in flight'.removed : FALSE
    BY <2>6
  <2> QED
    BY <2>5, <2>6, <2>10, <2>11, <2>12, <2>13 DEF ChunkTaken
<1>5. CASE RowsOf(r) = {}
  <2>1. PICK s \in Chunks(RemovalsOf(r)) :
            flight' = [mode |-> "metadata", rows |-> {}, removed |-> s]
    BY <1>5 DEF NextChunk
  <2>2. RemovalsOf(r) # {}
    <3>1. r \in {staged[f].run : f \in Unpushed} => RowsOf(r) # {}
      BY DEF RowsOf, Unpushed
    <3>2. r \in {removal[f].run : f \in UnpushedRemovals} => RemovalsOf(r) # {}
      BY DEF RemovalsOf, UnpushedRemovals
    <3> QED
      BY <3>1, <3>2, <1>1, <1>5 DEF PendingRuns
  <2>3. s # {} /\ s \subseteq RemovalsOf(r)
    BY <2>2, ChunksAreNotEmpty
  <2>4. flight'.mode = "metadata" /\ flight'.rows = {} /\ flight'.removed = s
    BY <2>1
  <2>5. ASSUME NEW f \in s
        PROVE  f \in File /\ Leaving(f) /\ \A g \in File : Pending(g) =>
            removal[f].run < staged[g].run
    <3>1. f \in File /\ Leaving(f) /\ removal[f].run = r
      BY <1>3, <2>3
    <3>2. \A g \in File : Pending(g) => staged[g].run # r
      BY <1>2, <1>5
    <3>3. r \in Nat /\ \A g \in File : staged[g].run \in Nat
      <4>1. PendingRuns \subseteq Nat
        BY DEF PendingRuns, TypeOK, Unpushed, UnpushedRemovals
      <4> QED
        BY <4>1, <1>1 DEF TypeOK
    <3> HIDE DEF r
    <3> QED
      BY <3>1, <3>2, <3>3, <1>1
  <2> QED
    BY <2>3, <2>4, <2>5 DEF ChunkTaken, Mode
<1> QED
  BY <1>4, <1>5

-----------------------------------------------------------------------------
(* The mtimes a change may have.                                              *)
NewMtimes(f) == {changes + 2, disk[f].mtime}
Rewrite(f) == \E m \in NewMtimes(f), c \in Content, p \in Path : Change(f, m, c, p)

(* What an error hides from the walk, or from the full-bit pass, is left out. *)
LeavesOut(skipped) ==
    /\ pc \in {"walk", "restat", "partial", "full"}
    /\ \A f \in skipped : disk[f].on
    /\ todo' = todo \ skipped
    /\ gone' = IF pc = "restat" THEN gone \cup skipped ELSE gone
    /\ odd' = IF pc = "restat" THEN odd \cup {f \in skipped : LostBySkip(f)} ELSE odd
    /\ clean' = "no" /\ faults' = faults + 1 /\ faults < MaxFaults
    /\ UNCHANGED <<fullbit, disk, staged, removal, baseline, pc, run, batch, partial, flight,
                   cat, churn, groups, exact, changes, forced>>

(* An error in the walk and one in the full-bit pass are of this kind.        *)
LEMMA SkipsLeaveOut ==
    ASSUME Skips
    PROVE  \E skipped \in SUBSET todo : LeavesOut(skipped)
<1>1. ASSUME NEW skipped \in SUBSET todo, SkipEntries(skipped) PROVE LeavesOut(skipped)
  BY <1>1 DEF SkipEntries, LeavesOut, MayFail, staging, server
<1>2. ASSUME NEW f \in todo, HashSkips(f) PROVE LeavesOut({f})
  BY <1>2 DEF HashSkips, LeavesOut, MayFail, Readable, files, staging, server
<1> QED
  BY <1>1, <1>2 DEF Skips

(* A file whose row is up to date is left out only at the price of odd: the   *)
(* re-stat takes it for removed (feed.py) and never sends it again.           *)
LEMMA SkippedIsLost ==
    ASSUME TypeOK, NEW skipped \in SUBSET todo, LeavesOut(skipped)
    PROVE  \A u \in File \ odd' : staged[u].mtime = disk[u].mtime /\ u \in gone' => u \in gone
<1> SUFFICES ASSUME NEW u \in File \ odd', staged[u].mtime = disk[u].mtime, u \notin gone
             PROVE  u \notin gone'
  OBVIOUS
<1>1. disk[u].mtime # 0
  BY DEF TypeOK
<1>2. u \in skipped => LostBySkip(u)
  BY <1>1 DEF LostBySkip
<1> QED
  BY <1>2 DEF LeavesOut

(* The kinds of steps.                                                        *)
LEMMA Steps ==
    ASSUME [Next]_vars
    PROVE  \/ UNCHANGED vars
           \/ \E f \in File : Remove(f) \/ Rewrite(f) \/ Visit(f) \/ HashPartial(f)
                              \/ HashFull(f)
           \/ \E force \in BOOLEAN : StartCycle(force)
           \/ \E skipped \in SUBSET todo : LeavesOut(skipped)
           \/ Flush \/ FinishWalk \/ should_block_fullbit \/ StageDelta \/ StageRemovals
           \/ FinishPartial \/ FinishFull \/ ScanFails \/ NextChunk \/ Ack \/ GiveUp
           \/ Crash \/ Ingest \/ Finalize
  BY SkipsLeaveOut DEF Next, Users, Agent, scan_one_root_now, Rewrite, NewMtimes

StagedRow == [mtime : Mtime, path : Path, hash : Hash, run : Nat, mode : Mode, pushed : BOOLEAN]

(* stage_batch writes rows.                                                   *)
LEMMA StageBatchType ==
    ASSUME TypeOK, stage_batch
    PROVE  staged' \in [File -> StagedRow]
<1>1. ASSUME NEW f \in File, NEW e \in Entry
      PROVE  [staged[f] EXCEPT !.mtime = e.mtime, !.path = e.path, !.run = run,
                               !.mode = "metadata", !.pushed = FALSE] \in StagedRow
  <2>1. staged[f] \in StagedRow /\ e.mtime \in Mtime /\ e.path \in Path /\ run \in Nat
    BY DEF TypeOK, Entry, StagedRow
  <2> QED
    BY <2>1 DEF StagedRow, Mode
<1>2. ASSUME NEW f \in File, Upserts(f)
      PROVE  (CHOOSE x \in batch : x.file = f) \in Entry
  BY <1>2 DEF Upserts, TypeOK
<1>3. staged \in [File -> StagedRow]
  BY DEF TypeOK, StagedRow
<1> HIDE DEF StagedRow, Entry
<1> QED
  BY <1>1, <1>2, <1>3 DEF stage_batch

(* Ingest writes rows.                                                        *)
LEMMA IngestType ==
    ASSUME TypeOK, Ingest
    PROVE  cat' \in [File -> [mtime : Mtime, path : Path, present : BOOLEAN, hash : Hash]]
<1> DEFINE R == [mtime : Mtime, path : Path, present : BOOLEAN, hash : Hash]
<1>1. cat \in [File -> R]
  BY DEF TypeOK
<1>2. ASSUME NEW f \in File, Posted(f) PROVE Upserted(f) \in R
  <2> DEFINE row == PostedRow(f)
  <2>1. row \in Row
    BY <1>2 DEF Posted, PostedRow, TypeOK
  <2>2. row.mtime \in Mtime /\ row.path \in Path /\ row.hash \in Hash /\ NoHash \in Hash
    BY <2>1 DEF Row, Hash
  <2>3. cat[f] \in R
    BY <1>1
  <2> HIDE DEF row
  <2>4. /\ [mtime |-> row.mtime, path |-> row.path, present |-> TRUE,
            hash |-> IF flight.mode = "fullbit" THEN row.hash ELSE NoHash] \in R
        /\ [cat[f] EXCEPT !.mtime = row.mtime, !.path = row.path, !.hash = row.hash] \in R
        /\ [cat[f] EXCEPT !.mtime = row.mtime, !.path = row.path, !.present = TRUE] \in R
    BY <2>2, <2>3
  <2> HIDE DEF R
  <2> QED
    BY <2>3, <2>4 DEF Upserted, row
<1>3. \A f \in File : [cat[f] EXCEPT !.present = FALSE] \in R
  BY <1>1
<1> HIDE DEF R
<1>4. cat' \in [File -> R]
  BY <1>1, <1>2, <1>3 DEF Ingest
<1> QED
  BY <1>4 DEF R

(* Every step keeps the types.                                                *)
LEMMA TypeStep == TypeOK /\ StagedFirst /\ RunsAreApart /\ [Next]_vars => TypeOK'
<1> SUFFICES ASSUME TypeOK, StagedFirst, RunsAreApart, [Next]_vars PROVE TypeOK'
  OBVIOUS
<1>1. CASE UNCHANGED <<fullbit, disk, odd, staged, removal, baseline, pc, run, todo, batch,
    gone, partial, flight, cat, churn, groups, clean, exact, changes, faults, forced>>
  BY <1>1 DEF TypeOK
<1>2. ASSUME NEW f \in File, Remove(f) PROVE TypeOK'
  <2>1. disk' \in [File -> [on : BOOLEAN, mtime : Mtime \ {0}, content : Content, path : Path]]
    <3>1. disk' = [disk EXCEPT ![f].on = FALSE]
      BY <1>2 DEF Remove
    <3>2. disk \in [File -> [on : BOOLEAN, mtime : Mtime \ {0}, content : Content, path : Path]]
      BY DEF TypeOK
    <3> QED
      BY <3>1, <3>2
  <2>2. changes' \in 0 .. MaxChanges
    BY <1>2, PipelineConstants DEF Remove, MayChange, TypeOK
  <2>3. clean' = "no" /\ exact' = {}
    BY <1>2 DEF Remove, Disturbed
  <2>4. UNCHANGED <<fullbit, odd, staged, removal, baseline, pc, run, todo, batch, gone,
      partial, flight, cat, churn, groups, faults, forced>>
    BY <1>2 DEF Remove, Disturbed, files, staging, cycle, server, history, bounds
  <2> QED
    BY <2>1, <2>2, <2>3, <2>4 DEF TypeOK
<1>3. ASSUME NEW f \in File, Rewrite(f) PROVE TypeOK'
  <2>1. PICK m \in NewMtimes(f), c \in Content, p \in Path : Change(f, m, c, p)
    BY <1>3 DEF Rewrite
  <2>2. m \in Mtime \ {0}
    BY <2>1, PipelineConstants DEF Change, NewMtimes, MayChange, Mtime, TypeOK
  <2>3. disk' \in [File -> [on : BOOLEAN, mtime : Mtime \ {0}, content : Content, path : Path]]
    <3>1. disk' = [disk EXCEPT ![f] = [on |-> TRUE, mtime |-> m, content |-> c, path |-> p]]
      BY <2>1 DEF Change
    <3> QED
      BY <3>1, <2>1, <2>2 DEF TypeOK
  <2>4. odd' \subseteq File
    BY <2>1 DEF Change, TypeOK
  <2>5. changes' \in 0 .. MaxChanges
    BY <2>1, PipelineConstants DEF Change, MayChange, TypeOK
  <2>6. clean' = "no" /\ exact' = {}
    BY <2>1 DEF Change, Disturbed
  <2>7. UNCHANGED <<fullbit, staged, removal, baseline, pc, run, todo, batch, gone, partial,
      flight, cat, churn, groups, faults, forced>>
    BY <2>1 DEF Change, files, staging, cycle, server, history, bounds
  <2> QED
    BY <2>1, <2>2, <2>3, <2>4, <2>5, <2>6, <2>7 DEF TypeOK
<1>4. ASSUME NEW force \in BOOLEAN, StartCycle(force) PROVE TypeOK'
  <2>1. pc' \in {"restat", "walk"}
    BY <1>4 DEF StartCycle
  <2>2. clean' \in {"no", "incremental", "full"}
    BY <1>4 DEF StartCycle
  <2>3. run' \in Nat
    BY <1>4, StartRunIsNew DEF StartCycle, TypeOK
  <2>4. todo' = File /\ batch' = {} /\ gone' = {}
    BY <1>4 DEF StartCycle
  <2>5. forced' \in 0 .. MaxForced
    BY <1>4, PipelineConstants DEF StartCycle, MayForce, TypeOK
  <2>6. UNCHANGED <<fullbit, disk, odd, staged, removal, baseline, partial, flight, cat,
      churn, groups, exact, changes, faults>>
    BY <1>4 DEF StartCycle, files, staging, cycle, server, history, bounds
  <2> QED
    BY <2>1, <2>2, <2>3, <2>4, <2>5, <2>6 DEF TypeOK
<1>5. ASSUME NEW f \in File, Visit(f) PROVE TypeOK'
  <2>1. todo' \subseteq File /\ gone' \subseteq File
    BY <1>5 DEF Visit, TypeOK
  <2>2. _entry(f) \in Entry
    BY DEF _entry, Entry, TypeOK
  <2>3. batch' \subseteq Entry
    BY <1>5, <2>2 DEF Visit, TypeOK
  <2>4. UNCHANGED <<fullbit, disk, odd, staged, removal, baseline, pc, run, partial, flight,
      cat, churn, groups, clean, exact, changes, faults, forced>>
    BY <1>5 DEF Visit, files, staging, cycle, server, history, bounds
  <2> QED
    BY <2>1, <2>2, <2>3, <2>4 DEF TypeOK
<1>6. ASSUME Flush PROVE TypeOK'
  <2>1. staged' \in [File -> StagedRow]
    BY <1>6, StageBatchType DEF Flush
  <2>2. batch' = {}
    BY <1>6 DEF Flush
  <2>3. UNCHANGED <<fullbit, disk, odd, removal, baseline, pc, run, todo, gone, partial,
      flight, cat, churn, groups, clean, exact, changes, faults, forced>>
    BY <1>6 DEF Flush, files, staging, cycle, server, history, bounds
  <2> QED
    BY <2>1, <2>2, <2>3 DEF TypeOK, StagedRow
<1>7. ASSUME FinishWalk PROVE TypeOK'
  <2>1. pc' \in {"partial", "drain"}
    BY <1>7 DEF FinishWalk, finish_run
  <2>2. run' \in Nat
    BY <1>7, StartRunIsNew DEF FinishWalk, finish_run, TypeOK
  <2>3. todo' \subseteq File
    BY <1>7 DEF FinishWalk, finish_run, TypeOK, Candidates, Known
  <2>4. baseline' = TRUE
    BY <1>7 DEF FinishWalk, finish_run
  <2>5. UNCHANGED <<fullbit, disk, odd, staged, removal, batch, gone, partial, flight, cat,
      churn, groups, clean, exact, changes, faults, forced>>
    BY <1>7 DEF FinishWalk, finish_run, files, staging, cycle, server, history, bounds
  <2> QED
    BY <2>1, <2>2, <2>3, <2>4, <2>5 DEF TypeOK
<1>8. ASSUME should_block_fullbit PROVE TypeOK'
  <2>1. baseline' = TRUE /\ pc' = "drain" /\ run' = 0 /\ clean' = "no"
    BY <1>8 DEF should_block_fullbit, finish_run
  <2>2. faults' \in 0 .. MaxFaults
    BY <1>8, PipelineConstants DEF should_block_fullbit, MayFail, TypeOK
  <2>3. UNCHANGED <<fullbit, disk, odd, staged, removal, todo, batch, gone, partial, flight,
      cat, churn, groups, exact, changes, forced>>
    BY <1>8 DEF should_block_fullbit, finish_run, files, staging, cycle, server, history, bounds
  <2> QED
    BY <2>1, <2>2, <2>3 DEF TypeOK
<1>9. ASSUME StageDelta PROVE TypeOK'
  <2>1. staged' \in [File -> StagedRow]
    BY <1>9, StageBatchType DEF StageDelta
  <2>2. batch' = {} /\ pc' = "removals"
    BY <1>9 DEF StageDelta
  <2>3. UNCHANGED <<fullbit, disk, odd, removal, baseline, run, todo, gone, partial, flight,
      cat, churn, groups, clean, exact, changes, faults, forced>>
    BY <1>9 DEF StageDelta, files, staging, cycle, server, history, bounds
  <2> QED
    BY <2>1, <2>2, <2>3 DEF TypeOK, StagedRow
<1>10. ASSUME StageRemovals PROVE TypeOK'
  <2>1. removal' \in [File -> [run : Nat, pushed : BOOLEAN]]
    BY <1>10 DEF StageRemovals, stage_removals, TypeOK
  <2>2. pc' = "drain" /\ run' = 0 /\ gone' = {}
    BY <1>10 DEF StageRemovals
  <2>3. UNCHANGED <<fullbit, disk, odd, staged, baseline, todo, batch, partial, flight, cat,
      churn, groups, clean, exact, changes, faults, forced>>
    BY <1>10 DEF StageRemovals, files, staging, cycle, server, history, bounds
  <2> QED
    BY <2>1, <2>2, <2>3 DEF TypeOK
<1>11. ASSUME NEW f \in File, HashPartial(f) PROVE TypeOK'
  <2>1. todo' \subseteq File
    BY <1>11 DEF HashPartial, TypeOK
  <2>2. partial' \in [File -> {Partial[c] : c \in Content} \cup {NoHash}]
    BY <1>11 DEF HashPartial, partial_digest, TypeOK
  <2>3. UNCHANGED <<fullbit, disk, odd, staged, removal, baseline, pc, run, batch, gone,
      flight, cat, churn, groups, clean, exact, changes, faults, forced>>
    BY <1>11 DEF HashPartial, files, staging, cycle, server, history, bounds
  <2> QED
    BY <2>1, <2>2, <2>3 DEF TypeOK
<1>12. ASSUME FinishPartial PROVE TypeOK'
  <2>1. pc' = "full" /\ partial' = [f \in File |-> NoHash]
    BY <1>12 DEF FinishPartial
  <2>2. todo' \subseteq File
    BY <1>12 DEF FinishPartial, TypeOK, Colliders
  <2>3. UNCHANGED <<fullbit, disk, odd, staged, removal, baseline, run, batch, gone, flight,
      cat, churn, groups, clean, exact, changes, faults, forced>>
    BY <1>12 DEF FinishPartial, files, staging, cycle, server, history, bounds
  <2> QED
    BY <2>1, <2>2, <2>3 DEF TypeOK
<1>13. ASSUME NEW f \in File, HashFull(f) PROVE TypeOK'
  <2>1. todo' \subseteq File
    BY <1>13 DEF HashFull, TypeOK
  <2>2. staged' \in [File -> StagedRow]
    <3>1. staged \in [File -> StagedRow] /\ disk[f].content \in Hash /\ run \in Nat
      BY DEF TypeOK, StagedRow, Hash
    <3>2. [staged[f] EXCEPT !.hash = disk[f].content, !.run = run,
                           !.mode = "fullbit", !.pushed = FALSE] \in StagedRow
      BY <3>1 DEF StagedRow, Mode
    <3>3. \/ staged' = staged
          \/ staged' = [staged EXCEPT ![f] = [staged[f] EXCEPT !.hash = disk[f].content,
                 !.run = run,
                                                               !.mode = "fullbit",
                                                                   !.pushed = FALSE]]
      BY <1>13 DEF HashFull, stage_hash, full_digest
    <3> QED
      BY <3>1, <3>2, <3>3
  <2>3. UNCHANGED <<fullbit, disk, odd, removal, baseline, pc, run, batch, gone, partial,
      flight, cat, churn, groups, clean, exact, changes, faults, forced>>
    BY <1>13 DEF HashFull, files, staging, cycle, server, history, bounds
  <2> QED
    BY <2>1, <2>2, <2>3 DEF TypeOK, StagedRow
<1>14. ASSUME FinishFull PROVE TypeOK'
  <2>1. pc' = "drain" /\ run' = 0
    BY <1>14 DEF FinishFull
  <2>2. UNCHANGED <<fullbit, disk, odd, staged, removal, baseline, todo, batch, gone,
      partial, flight, cat, churn, groups, clean, exact, changes, faults, forced>>
    BY <1>14 DEF FinishFull, files, staging, cycle, server, history, bounds
  <2> QED
    BY <2>1, <2>2 DEF TypeOK
<1>15. ASSUME ScanFails PROVE TypeOK'
  <2>1. pc' = "drain" /\ clean' = "no" /\ run' = 0 /\ todo' = {} /\ batch' = {} /\ gone' = {}
    BY <1>15 DEF ScanFails, Forget
  <2>2. partial' = [f \in File |-> NoHash]
    BY <1>15 DEF ScanFails, Forget
  <2>3. faults' \in 0 .. MaxFaults
    BY <1>15, PipelineConstants DEF ScanFails, MayFail, TypeOK
  <2>4. UNCHANGED <<fullbit, disk, odd, staged, removal, baseline, flight, cat, churn,
      groups, exact, changes, forced>>
    BY <1>15 DEF ScanFails, Forget, files, staging, cycle, server, history, bounds
  <2> QED
    BY <2>1, <2>2, <2>3, <2>4 DEF TypeOK
<1>16. ASSUME NextChunk PROVE TypeOK'
  <2>1. pc' = "post"
    BY <1>16 DEF NextChunk
  <2>2. ChunkTaken
    BY <1>16, NextChunkTakes
  <2>3. UNCHANGED <<fullbit, disk, odd, staged, removal, baseline, run, todo, batch, gone,
      partial, cat, churn, groups, clean, exact, changes, faults, forced>>
    BY <1>16 DEF NextChunk, files, staging, cycle, server, history, bounds
  <2> QED
    BY <2>1, <2>2, <2>3 DEF TypeOK, ChunkTaken
<1>17. ASSUME Ack PROVE TypeOK'
  <2>1. staged' \in [File -> StagedRow]
    <3>1. staged \in [File -> StagedRow]
      BY DEF TypeOK, StagedRow
    <3>2. \A u \in File : [staged[u] EXCEPT !.pushed = TRUE, !.run = 0,
        !.mode = "metadata"] \in StagedRow
      BY <3>1 DEF StagedRow, Mode
    <3> QED
      BY <3>1, <3>2, <1>17 DEF Ack, mark_pushed
  <2>2. removal' \in [File -> [run : Nat, pushed : BOOLEAN]]
    BY <1>17 DEF Ack, mark_removals_pushed, TypeOK
  <2>3. pc' = "drain" /\ flight' = NoFlight
    BY <1>17 DEF Ack
  <2>4. UNCHANGED <<fullbit, disk, odd, baseline, run, todo, batch, gone, partial, cat,
      churn, groups, clean, exact, changes, faults, forced>>
    BY <1>17 DEF Ack, files, staging, cycle, server, history, bounds
  <2> QED
    BY <2>1, <2>2, <2>3, <2>4 DEF TypeOK, StagedRow, NoFlight, Mode
<1>18. ASSUME GiveUp PROVE TypeOK'
  <2>1. pc' = "idle" /\ clean' = "no" /\ flight' = NoFlight
    BY <1>18 DEF GiveUp
  <2>2. faults' \in 0 .. MaxFaults
    BY <1>18, PipelineConstants DEF GiveUp, MayFail, TypeOK
  <2>3. UNCHANGED <<fullbit, disk, odd, staged, removal, baseline, run, todo, batch, gone,
      partial, cat, churn, groups, exact, changes, forced>>
    BY <1>18 DEF GiveUp, files, staging, cycle, server, history, bounds
  <2> QED
    BY <2>1, <2>2, <2>3 DEF TypeOK, NoFlight, Mode
<1>19. ASSUME Crash PROVE TypeOK'
  <2>1. pc' = "idle" /\ clean' = "no" /\ run' = 0 /\ todo' = {} /\ batch' = {} /\ gone' = {}
    BY <1>19 DEF Crash, Forget
  <2>2. partial' = [f \in File |-> NoHash] /\ flight' = NoFlight
    BY <1>19 DEF Crash, Forget
  <2>3. faults' \in 0 .. MaxFaults
    BY <1>19, PipelineConstants DEF Crash, MayFail, TypeOK
  <2>4. UNCHANGED <<fullbit, disk, odd, staged, removal, baseline, cat, churn, groups, exact,
      changes, forced>>
    BY <1>19 DEF Crash, Forget, files, staging, cycle, server, history, bounds
  <2> QED
    BY <2>1, <2>2, <2>3, <2>4 DEF TypeOK, NoFlight, Mode
<1>20. ASSUME Ingest PROVE TypeOK'
  <2>1. cat' \in [File -> [mtime : Mtime, path : Path, present : BOOLEAN, hash : Hash]]
    BY <1>20, IngestType
  <2>2. churn' \in [File -> Int]
    BY <1>20 DEF Ingest, Logged, TypeOK
  <2>3. pc' \in {"ack", "post"} /\ pc = "post"
    BY <1>20 DEF Ingest
  <2>4. faults' \in 0 .. MaxFaults
    BY <1>20, PipelineConstants DEF Ingest, MayFail, TypeOK
  <2>5. UNCHANGED <<fullbit, disk, odd, staged, removal, baseline, run, todo, batch, gone,
      partial, flight, groups, clean, exact, changes, forced>>
    BY <1>20 DEF Ingest, files, staging, cycle, server, history, bounds
  <2> QED
    BY <2>1, <2>2, <2>3, <2>4, <2>5 DEF TypeOK
<1>21. ASSUME Finalize PROVE TypeOK'
  <2>1. pc' = "idle" /\ clean' = "no"
    BY <1>21 DEF Finalize
  <2>2. groups' \in [File -> Hash]
    BY <1>21 DEF Finalize, GroupOf, Hashed, TypeOK, Hash
  <2>3. exact' \subseteq {"incremental", "hashed"}
    BY <1>21 DEF Finalize, Completed, TypeOK
  <2>4. faults' \in 0 .. MaxFaults
    BY <1>21, PipelineConstants DEF Finalize, MayFail, TypeOK
  <2>5. UNCHANGED <<fullbit, disk, odd, staged, removal, baseline, run, todo, batch, gone,
      partial, flight, cat, churn, changes, forced>>
    BY <1>21 DEF Finalize, files, staging, cycle, server, history, bounds
  <2> QED
    BY <2>1, <2>2, <2>3, <2>4, <2>5 DEF TypeOK
<1>22. ASSUME UNCHANGED vars PROVE UNCHANGED <<fullbit, disk, odd, staged, removal, baseline,
    pc, run, todo, batch, gone, partial, flight, cat, churn, groups, clean, exact, changes,
        faults, forced>>
  BY <1>22 DEF vars, files, staging, cycle, server, history, bounds
<1>23. ASSUME NEW skipped \in SUBSET todo, LeavesOut(skipped) PROVE TypeOK'
  <2>1. todo' \subseteq File /\ gone' \subseteq File /\ odd' \subseteq File
    BY <1>23 DEF LeavesOut, TypeOK
  <2>2. clean' = "no" /\ faults' \in 0 .. MaxFaults
    BY <1>23, PipelineConstants DEF LeavesOut, TypeOK
  <2>3. UNCHANGED <<fullbit, disk, staged, removal, baseline, pc, run, batch, partial, flight,
      cat, churn, groups, exact, changes, forced>>
    BY <1>23 DEF LeavesOut
  <2> QED
    BY <2>1, <2>2, <2>3 DEF TypeOK
<1> QED
  BY <1>1, <1>2, <1>3, <1>4, <1>5, <1>6, <1>7, <1>8, <1>9, <1>10, <1>11, <1>12, <1>13, <1>14,
      <1>15, <1>16, <1>17, <1>18, <1>19, <1>20, <1>21, <1>22, <1>23, Steps

(* What the memory of a cycle holds when.                                     *)
LEMMA MomentsStep ==
    TypeOK /\ StagedFirst /\ RunsAreApart /\ Moments /\ [Next]_vars => Moments'
<1> SUFFICES ASSUME TypeOK, StagedFirst, RunsAreApart, Moments, [Next]_vars PROVE Moments'
  OBVIOUS
<1>1. CASE UNCHANGED <<pc, batch, gone, flight, fullbit, clean, exact>>
  BY <1>1 DEF Moments, Sending
<1>2. ASSUME NEW f \in File, Remove(f) PROVE Moments'
  BY <1>2 DEF Remove, Disturbed, Moments, files, staging, cycle, server, history, bounds
<1>3. ASSUME NEW f \in File, Rewrite(f) PROVE Moments'
  <2>1. PICK m \in NewMtimes(f), c \in Content, p \in Path : Change(f, m, c, p)
    BY <1>3 DEF Rewrite
  <2> QED
    BY <2>1 DEF Change, Disturbed, Moments, files, staging, cycle, server, history, bounds
<1>4. ASSUME NEW force \in BOOLEAN, StartCycle(force) PROVE Moments'
  BY <1>4 DEF StartCycle, Incremental, Sending, Moments, files, staging, cycle, server,
      history, bounds
<1>5. ASSUME NEW f \in File, Visit(f) PROVE Moments'
  BY <1>5 DEF Visit, Moments, files, staging, cycle, server, history, bounds
<1>6. ASSUME Flush PROVE Moments'
  BY <1>6 DEF Flush, Moments, files, staging, cycle, server, history, bounds
<1>7. ASSUME FinishWalk PROVE Moments'
  BY <1>7 DEF FinishWalk, finish_run, Moments, Sending, files, staging, cycle, server,
      history, bounds
<1>8. ASSUME should_block_fullbit PROVE Moments'
  BY <1>8 DEF should_block_fullbit, finish_run, Moments, Sending, files, staging, cycle,
      server, history, bounds
<1>9. ASSUME StageDelta PROVE Moments'
  BY <1>9 DEF StageDelta, Moments, Sending, files, staging, cycle, server, history, bounds
<1>10. ASSUME StageRemovals PROVE Moments'
  BY <1>10 DEF StageRemovals, Moments, Sending, files, staging, cycle, server, history, bounds
<1>11. ASSUME FinishPartial PROVE Moments'
  BY <1>11 DEF FinishPartial, Moments, Sending, files, staging, cycle, server, history, bounds
<1>12. ASSUME FinishFull PROVE Moments'
  BY <1>12 DEF FinishFull, Moments, Sending, files, staging, cycle, server, history, bounds
<1>13. ASSUME ScanFails PROVE Moments'
  BY <1>13 DEF ScanFails, Forget, Moments, Sending, files, staging, cycle, server, history,
      bounds
<1>14. ASSUME NextChunk PROVE Moments'
  <2>1. ChunkTaken
    BY <1>14, NextChunkTakes
  <2> QED
    BY <1>14, <2>1 DEF NextChunk, ChunkTaken, Moments, Sending, files, staging, cycle,
        server, history, bounds
<1>15. ASSUME Ack PROVE Moments'
  BY <1>15 DEF Ack, Moments, NoFlight, Sending, files, staging, cycle, server, history, bounds
<1>16. ASSUME GiveUp PROVE Moments'
  BY <1>16 DEF GiveUp, Moments, NoFlight, files, staging, cycle, server, history, bounds
<1>17. ASSUME Crash PROVE Moments'
  BY <1>17 DEF Crash, Forget, Moments, NoFlight, files, staging, cycle, server, history, bounds
<1>18. ASSUME Ingest PROVE Moments'
  BY <1>18 DEF Ingest, Moments, Sending, files, staging, cycle, server, history, bounds
<1>19. ASSUME Finalize PROVE Moments'
  <2>1. pc = "drain" /\ pc' = "idle" /\ clean' = "no"
    BY <1>19 DEF Finalize
  <2>2. UNCHANGED <<batch, gone, flight, fullbit>>
    BY <1>19 DEF Finalize, files, staging, cycle, server, history, bounds
  <2>3. "hashed" \in exact' => "hashed" \in exact \/ fullbit
    BY <1>19 DEF Finalize, Completed
  <2> QED
    BY <2>1, <2>2, <2>3 DEF Moments, Sending
<1>20. ASSUME NEW f \in File, HashPartial(f) \/ HashFull(f) PROVE UNCHANGED <<pc, batch,
    gone, flight, fullbit, clean, exact>>
  BY <1>20 DEF HashPartial, HashFull, files, staging, cycle, server, history, bounds
<1>21. ASSUME UNCHANGED vars PROVE UNCHANGED <<pc, batch, gone, flight, fullbit, clean, exact>>
  BY <1>21 DEF vars, files, staging, cycle, server, history, bounds
<1>22. ASSUME NEW skipped \in SUBSET todo, LeavesOut(skipped) PROVE Moments'
  BY <1>22 DEF LeavesOut, Moments
<1> QED
  BY <1>1, <1>2, <1>3, <1>4, <1>5, <1>6, <1>7, <1>8, <1>9, <1>10, <1>11, <1>12, <1>13, <1>14,
      <1>15, <1>16, <1>17, <1>18, <1>19, <1>20, <1>21, <1>22, Steps

(* A pass visits a file once.                                                 *)
LEMMA OneVisitStep == Moments /\ OneVisit /\ [Next]_vars => OneVisit'
<1> SUFFICES ASSUME Moments, OneVisit, [Next]_vars PROVE OneVisit'
  OBVIOUS
<1>1. CASE UNCHANGED <<batch, todo, gone, pc>>
  BY <1>1 DEF OneVisit
<1>2. ASSUME NEW force \in BOOLEAN, StartCycle(force) PROVE OneVisit'
  BY <1>2 DEF StartCycle, OneVisit, files, staging, cycle, server, history, bounds
<1>3. ASSUME NEW f \in File, Visit(f) PROVE OneVisit'
  <2>1. f \in todo /\ f \notin gone
    BY <1>3 DEF Visit, OneVisit, Moments
  <2>2. _entry(f).file = f
    BY DEF _entry
  <2>3. todo' = todo \ {f} /\ pc' = pc
    BY <1>3 DEF Visit, files, staging, cycle, server, history, bounds
  <2>4. gone' \subseteq gone \cup {f}
    BY <1>3 DEF Visit
  <2>5. \/ batch' = batch /\ gone' \subseteq gone \cup {f}
        \/ batch' = batch \cup {_entry(f)} /\ gone' = gone
    BY <1>3 DEF Visit, Reported
  <2>6. \A e \in batch : e.file # f
    BY <2>1 DEF OneVisit
  <2> QED
    BY <2>1, <2>2, <2>3, <2>5, <2>6 DEF OneVisit
<1>4. ASSUME Flush PROVE OneVisit'
  BY <1>4 DEF Flush, OneVisit, Moments, files, staging, cycle, server, history, bounds
<1>5. ASSUME FinishWalk PROVE OneVisit'
  BY <1>5 DEF FinishWalk, finish_run, OneVisit, Moments, files, staging, cycle, server,
      history, bounds
<1>6. ASSUME should_block_fullbit PROVE OneVisit'
  BY <1>6 DEF should_block_fullbit, finish_run, OneVisit, Moments, files, staging, cycle,
      server, history, bounds
<1>7. ASSUME StageDelta PROVE OneVisit'
  BY <1>7 DEF StageDelta, OneVisit, files, staging, cycle, server, history, bounds
<1>8. ASSUME StageRemovals PROVE OneVisit'
  BY <1>8 DEF StageRemovals, OneVisit, Moments, files, staging, cycle, server, history, bounds
<1>9. ASSUME NEW f \in File, HashPartial(f) PROVE OneVisit'
  BY <1>9 DEF HashPartial, OneVisit, Moments, files, staging, cycle, server, history, bounds
<1>10. ASSUME FinishPartial PROVE OneVisit'
  BY <1>10 DEF FinishPartial, OneVisit, Moments, files, staging, cycle, server, history, bounds
<1>11. ASSUME NEW f \in File, HashFull(f) PROVE OneVisit'
  BY <1>11 DEF HashFull, OneVisit, Moments, files, staging, cycle, server, history, bounds
<1>12. ASSUME FinishFull PROVE OneVisit'
  BY <1>12 DEF FinishFull, OneVisit, Moments, files, staging, cycle, server, history, bounds
<1>13. ASSUME ScanFails PROVE OneVisit'
  BY <1>13 DEF ScanFails, Forget, OneVisit, files, staging, cycle, server, history, bounds
<1>14. ASSUME NextChunk PROVE OneVisit'
  BY <1>14 DEF NextChunk, OneVisit, Moments, files, staging, cycle, server, history, bounds
<1>15. ASSUME Ack PROVE OneVisit'
  BY <1>15 DEF Ack, OneVisit, Moments, files, staging, cycle, server, history, bounds
<1>16. ASSUME GiveUp PROVE OneVisit'
  BY <1>16 DEF GiveUp, OneVisit, Moments, files, staging, cycle, server, history, bounds
<1>17. ASSUME Crash PROVE OneVisit'
  BY <1>17 DEF Crash, Forget, OneVisit, files, staging, cycle, server, history, bounds
<1>18. ASSUME Ingest PROVE OneVisit'
  BY <1>18 DEF Ingest, OneVisit, Moments, files, staging, cycle, server, history, bounds
<1>19. ASSUME Finalize PROVE OneVisit'
  BY <1>19 DEF Finalize, OneVisit, Moments, files, staging, cycle, server, history, bounds
<1>20. ASSUME NEW f \in File, Remove(f) \/ Rewrite(f) PROVE UNCHANGED <<batch, todo, gone, pc>>
  BY <1>20 DEF Remove, Disturbed, Rewrite, Change, files, staging, cycle, server, history,
      bounds
<1>21. ASSUME UNCHANGED vars PROVE UNCHANGED <<batch, todo, gone, pc>>
  BY <1>21 DEF vars, files, staging, cycle, server, history, bounds
<1>22. ASSUME NEW skipped \in SUBSET todo, LeavesOut(skipped) PROVE OneVisit'
  BY <1>22 DEF LeavesOut, OneVisit
<1> QED
  BY <1>1, <1>2, <1>3, <1>4, <1>5, <1>6, <1>7, <1>8, <1>9, <1>10, <1>11, <1>12, <1>13, <1>14,
      <1>15, <1>16, <1>17, <1>18, <1>19, <1>20, <1>21, <1>22, Steps

(* Versions travel in the order of their mtimes.                              *)
LEMMA MtimesGrowStep ==
    TypeOK /\ OneVisit /\ FlightIsStaged /\ MtimesGrow /\ [Next]_vars => MtimesGrow'
<1> SUFFICES ASSUME TypeOK, OneVisit, FlightIsStaged, MtimesGrow, [Next]_vars
             PROVE  MtimesGrow'
  OBVIOUS
<1>1. CASE UNCHANGED <<cat, staged, disk, changes, batch>>
  BY <1>1 DEF MtimesGrow
<1>2. ASSUME NEW f \in File, Remove(f) PROVE MtimesGrow'
  <2>1. disk' = [disk EXCEPT ![f].on = FALSE] /\ changes' = changes + 1
    BY <1>2 DEF Remove
  <2>2. UNCHANGED <<cat, staged, batch>>
    BY <1>2 DEF Remove, Disturbed, files, staging, cycle, server, history, bounds
  <2>3. \A u \in File : disk'[u].mtime = disk[u].mtime
    BY <2>1 DEF TypeOK
  <2>4. \A u \in File : cat[u].mtime \in Nat /\ staged[u].mtime \in Nat /\ disk[u].mtime \in Nat
    BY PipelineConstants DEF TypeOK, Mtime
  <2>5. changes \in Nat
    BY DEF TypeOK
  <2>6. \A e \in batch : e.file \in File /\ e.mtime \in Nat
    BY PipelineConstants DEF TypeOK, Entry, Mtime
  <2> QED
    BY <2>1, <2>2, <2>3, <2>4, <2>5, <2>6 DEF MtimesGrow
<1>3. ASSUME NEW f \in File, Rewrite(f) PROVE MtimesGrow'
  <2>1. PICK m \in NewMtimes(f), c \in Content, p \in Path : Change(f, m, c, p)
    BY <1>3 DEF Rewrite
  <2>2. /\ disk'[f].mtime = m /\ disk'[f].path = p /\ disk'[f].content = c /\ disk'[f].on = TRUE
        /\ \A u \in File : u # f => disk'[u] = disk[u]
    BY <2>1 DEF Change, TypeOK
  <2>3. UNCHANGED <<cat, staged, batch>>
    BY <2>1 DEF Change, files, staging, cycle, server, history, bounds
  <2>4. changes' = changes + 1 /\ changes \in Nat
    BY <2>1 DEF Change, TypeOK
  <2>5. \A u \in File : cat[u].mtime \in Nat /\ staged[u].mtime \in Nat /\ disk[u].mtime \in Nat
    BY PipelineConstants DEF TypeOK, Mtime
  <2>6. \A e \in batch : e.file \in File /\ e.mtime \in Nat
    BY PipelineConstants DEF TypeOK, Entry, Mtime
  <2>7. disk[f].mtime <= m /\ m <= changes + 2
    BY <2>4, <2>5 DEF NewMtimes, MtimesGrow
  <2>8. \A u \in File : disk[u].mtime <= disk'[u].mtime /\ disk'[u].mtime <= changes + 2
            /\ disk'[u].mtime \in Nat
    BY <2>2, <2>4, <2>5, <2>7 DEF MtimesGrow, NewMtimes
  <2> QED
    BY <2>3, <2>4, <2>5, <2>6, <2>8 DEF MtimesGrow
<1>4. ASSUME NEW force \in BOOLEAN, StartCycle(force) PROVE MtimesGrow'
  <2>1. batch' = {}
    BY <1>4 DEF StartCycle
  <2>2. UNCHANGED <<cat, staged, disk, changes>>
    BY <1>4 DEF StartCycle, files, staging, cycle, server, history, bounds
  <2> QED
    BY <2>1, <2>2 DEF MtimesGrow
<1>5. ASSUME NEW f \in File, Visit(f) PROVE MtimesGrow'
  <2>1. UNCHANGED <<cat, staged, disk, changes>>
    BY <1>5 DEF Visit, files, staging, cycle, server, history, bounds
  <2>2. batch' \subseteq batch \cup {_entry(f)}
    BY <1>5 DEF Visit
  <2>3. _entry(f).file = f /\ _entry(f).mtime = disk[f].mtime
    BY DEF _entry
  <2>4. \A u \in File : cat[u].mtime \in Nat /\ staged[u].mtime \in Nat /\ disk[u].mtime \in Nat
    BY PipelineConstants DEF TypeOK, Mtime
  <2> QED
    BY <2>1, <2>2, <2>3, <2>4 DEF MtimesGrow
<1>6. ASSUME Flush PROVE MtimesGrow'
  <2>1. \A u \in File : StageMove(u)
    BY <1>6, StageBatchRows DEF Flush
  <2>2. batch' = {}
    BY <1>6 DEF Flush
  <2>3. UNCHANGED <<cat, disk, changes>>
    BY <1>6 DEF Flush, files, staging, cycle, server, history, bounds
  <2>4. \A u \in File : cat[u].mtime \in Nat /\ staged[u].mtime \in Nat /\ disk[u].mtime \in Nat
    BY PipelineConstants DEF TypeOK, Mtime
  <2>5. \A e \in batch : e.file \in File /\ e.mtime \in Nat
    BY PipelineConstants DEF TypeOK, Entry, Mtime
  <2>6. \A u \in File : staged[u].mtime <= staged'[u].mtime
            /\ staged'[u].mtime <= disk[u].mtime /\ staged'[u].mtime \in Nat
    BY <2>1, <2>4, <2>5 DEF StageMove, Restaged, MtimesGrow
  <2> QED
    BY <2>2, <2>3, <2>4, <2>6 DEF MtimesGrow
<1>7. ASSUME StageDelta PROVE MtimesGrow'
  <2>1. \A u \in File : StageMove(u)
    BY <1>7, StageBatchRows DEF StageDelta
  <2>2. batch' = {}
    BY <1>7 DEF StageDelta
  <2>3. UNCHANGED <<cat, disk, changes>>
    BY <1>7 DEF StageDelta, files, staging, cycle, server, history, bounds
  <2>4. \A u \in File : cat[u].mtime \in Nat /\ staged[u].mtime \in Nat /\ disk[u].mtime \in Nat
    BY PipelineConstants DEF TypeOK, Mtime
  <2>5. \A e \in batch : e.file \in File /\ e.mtime \in Nat
    BY PipelineConstants DEF TypeOK, Entry, Mtime
  <2>6. \A u \in File : staged[u].mtime <= staged'[u].mtime
            /\ staged'[u].mtime <= disk[u].mtime /\ staged'[u].mtime \in Nat
    BY <2>1, <2>4, <2>5 DEF StageMove, Restaged, MtimesGrow
  <2> QED
    BY <2>2, <2>3, <2>4, <2>6 DEF MtimesGrow
<1>8. ASSUME NEW f \in File, HashFull(f) PROVE MtimesGrow'
  <2>1. HashMove(f)
    BY <1>8, HashFullRows
  <2>2. UNCHANGED <<cat, disk, changes, batch>>
    BY <1>8 DEF HashFull, files, staging, cycle, server, history, bounds
  <2>3. \A u \in File : staged'[u].mtime = staged[u].mtime
    BY <2>1 DEF HashMove
  <2>4. \A e \in batch : e.file \in File /\ e.mtime \in Nat
    BY PipelineConstants DEF TypeOK, Entry, Mtime
  <2> QED
    BY <2>2, <2>3, <2>4 DEF MtimesGrow
<1>9. ASSUME ScanFails PROVE MtimesGrow'
  <2>1. batch' = {}
    BY <1>9 DEF ScanFails, Forget
  <2>2. UNCHANGED <<cat, staged, disk, changes>>
    BY <1>9 DEF ScanFails, Forget, files, staging, cycle, server, history, bounds
  <2> QED
    BY <2>1, <2>2 DEF MtimesGrow
<1>10. ASSUME Ack PROVE MtimesGrow'
  <2>1. \A u \in File : AckMove(u)
    BY <1>10, AckRows
  <2>2. UNCHANGED <<cat, disk, changes, batch>>
    BY <1>10 DEF Ack, files, staging, cycle, server, history, bounds
  <2>3. \A u \in File : staged'[u].mtime = staged[u].mtime
    BY <2>1 DEF AckMove
  <2>4. \A e \in batch : e.file \in File /\ e.mtime \in Nat
    BY PipelineConstants DEF TypeOK, Entry, Mtime
  <2> QED
    BY <2>2, <2>3, <2>4 DEF MtimesGrow
<1>11. ASSUME Crash PROVE MtimesGrow'
  <2>1. batch' = {}
    BY <1>11 DEF Crash, Forget
  <2>2. UNCHANGED <<cat, staged, disk, changes>>
    BY <1>11 DEF Crash, Forget, files, staging, cycle, server, history, bounds
  <2> QED
    BY <2>1, <2>2 DEF MtimesGrow
<1>12. ASSUME Ingest PROVE MtimesGrow'
  <2>1. \A u \in File : IngestMove(u)
    BY <1>12, IngestRows
  <2>2. UNCHANGED <<staged, disk, changes, batch>>
    BY <1>12 DEF Ingest, files, staging, cycle, server, history, bounds
  <2>3. \A x \in flight.rows : x.file \in File /\ x.mtime = staged[x.file].mtime
            /\ x.path = staged[x.file].path /\ x.hash = staged[x.file].hash
    BY DEF FlightIsStaged, _row_to_entry
  <2>4. \A u \in File : cat'[u].mtime = cat[u].mtime \/ cat'[u].mtime = staged[u].mtime
    BY <2>1, <2>3 DEF IngestMove, Applied
  <2>5. \A u \in File : cat[u].mtime \in Nat /\ staged[u].mtime \in Nat /\ disk[u].mtime \in Nat
    BY PipelineConstants DEF TypeOK, Mtime
  <2> QED
    BY <2>2, <2>4, <2>5 DEF MtimesGrow
<1>13. ASSUME FinishWalk \/ should_block_fullbit \/ StageRemovals \/ FinishPartial
           \/ FinishFull \/ NextChunk \/ GiveUp \/ Finalize \/ UNCHANGED vars
       PROVE  UNCHANGED <<cat, staged, disk, changes, batch>>
  BY <1>13 DEF FinishWalk, finish_run, should_block_fullbit, StageRemovals, FinishPartial,
      FinishFull, NextChunk, GiveUp, Finalize, vars, files, staging, cycle, server, history,
          bounds
<1>14. ASSUME NEW f \in File, HashPartial(f) PROVE UNCHANGED <<cat, staged, disk, changes,
    batch>>
  BY <1>14 DEF HashPartial, files, staging, cycle, server, history, bounds
<1>15. ASSUME NEW skipped \in SUBSET todo, LeavesOut(skipped) PROVE MtimesGrow'
  BY <1>15 DEF LeavesOut, MtimesGrow
<1> QED
  BY <1>1, <1>2, <1>3, <1>4, <1>5, <1>6, <1>7, <1>8, <1>9, <1>10, <1>11, <1>12, <1>13, <1>14, <1>15,
      Steps

(* Only files that were staged are pushed or removed.                         *)
LEMMA StagedFirstStep ==
    TypeOK /\ OneVisit /\ FlightIsStaged /\ StagedFirst /\ [Next]_vars => StagedFirst'
<1> SUFFICES ASSUME TypeOK, OneVisit, FlightIsStaged, StagedFirst,
    [Next]_vars PROVE StagedFirst'
  OBVIOUS
<1>1. CASE UNCHANGED <<staged, removal, cat, pc, todo, partial>>
  BY <1>1 DEF StagedFirst, Pending, Leaving, Known
<1>2. ASSUME NEW force \in BOOLEAN, StartCycle(force) PROVE StagedFirst'
  <2>1. pc' \in {"walk", "restat"}
    BY <1>2 DEF StartCycle
  <2>2. UNCHANGED <<staged, removal, cat, partial>>
    BY <1>2 DEF StartCycle, files, staging, cycle, server, history, bounds
  <2> QED
    BY <2>1, <2>2 DEF StagedFirst, Pending, Leaving, Known
<1>3. ASSUME NEW f \in File, Visit(f) PROVE StagedFirst'
  <2>1. pc' \in {"walk", "restat"}
    BY <1>3 DEF Visit, files, staging, cycle, server, history, bounds
  <2>2. UNCHANGED <<staged, removal, cat, partial>>
    BY <1>3 DEF Visit, files, staging, cycle, server, history, bounds
  <2> QED
    BY <2>1, <2>2 DEF StagedFirst, Pending, Leaving, Known
<1>4. ASSUME Flush PROVE StagedFirst'
  <2>1. \A u \in File : StageMove(u)
    BY <1>4, StageBatchRows DEF Flush
  <2>2. pc' \in {"walk", "removals"}
    BY <1>4 DEF Flush, files, staging, cycle, server, history, bounds
  <2>3. UNCHANGED <<removal, cat, partial>>
    BY <1>4 DEF Flush, files, staging, cycle, server, history, bounds
  <2>4. \A e \in batch : e.mtime # 0
    BY DEF TypeOK, Entry
  <2>5. \A u \in File : staged'[u].mtime = 0 => staged'[u] = staged[u] /\ staged[u].mtime = 0
    BY <2>1, <2>4 DEF StageMove, Restaged
  <2> QED
    BY <2>2, <2>3, <2>5 DEF StagedFirst, Pending, Leaving, Known
<1>5. ASSUME FinishWalk PROVE StagedFirst'
  <2>1. pc' = "drain" \/ todo' = Candidates
    BY <1>5 DEF FinishWalk
  <2>2. Candidates \subseteq Known
    BY DEF Candidates
  <2>3. UNCHANGED <<staged, removal, cat, partial>>
    BY <1>5 DEF FinishWalk, finish_run, files, staging, cycle, server, history, bounds
  <2>4. Known' = Known
    BY <2>3 DEF Known
  <2> QED
    BY <2>1, <2>2, <2>3, <2>4 DEF StagedFirst, Pending, Leaving
<1>6. ASSUME should_block_fullbit PROVE StagedFirst'
  <2>1. pc' = "drain"
    BY <1>6 DEF should_block_fullbit
  <2>2. UNCHANGED <<staged, removal, cat, partial>>
    BY <1>6 DEF should_block_fullbit, finish_run, files, staging, cycle, server, history, bounds
  <2> QED
    BY <2>1, <2>2 DEF StagedFirst, Pending, Leaving, Known
<1>7. ASSUME StageDelta PROVE StagedFirst'
  <2>1. \A u \in File : StageMove(u)
    BY <1>7, StageBatchRows DEF StageDelta
  <2>2. pc' \in {"walk", "removals"}
    BY <1>7 DEF StageDelta, files, staging, cycle, server, history, bounds
  <2>3. UNCHANGED <<removal, cat, partial>>
    BY <1>7 DEF StageDelta, files, staging, cycle, server, history, bounds
  <2>4. \A e \in batch : e.mtime # 0
    BY DEF TypeOK, Entry
  <2>5. \A u \in File : staged'[u].mtime = 0 => staged'[u] = staged[u] /\ staged[u].mtime = 0
    BY <2>1, <2>4 DEF StageMove, Restaged
  <2> QED
    BY <2>2, <2>3, <2>5 DEF StagedFirst, Pending, Leaving, Known
<1>8. ASSUME StageRemovals PROVE StagedFirst'
  <2>1. pc' = "drain"
    BY <1>8 DEF StageRemovals
  <2>2. UNCHANGED <<staged, cat, partial>>
    BY <1>8 DEF StageRemovals, files, staging, cycle, server, history, bounds
  <2>3. \A u \in File : removal'[u] = removal[u] \/ staged[u].mtime # 0
    BY <1>8 DEF StageRemovals, stage_removals, Known
  <2> QED
    BY <2>1, <2>2, <2>3 DEF StagedFirst, Pending, Leaving, Known
<1>9. ASSUME NEW f \in File, HashPartial(f) PROVE StagedFirst'
  <2>1. f \in todo /\ pc = "partial" /\ todo' \subseteq todo
    BY <1>9 DEF HashPartial
  <2>2. \A u \in File : partial'[u] = partial[u] \/ u = f
    BY <1>9 DEF HashPartial, TypeOK
  <2>3. UNCHANGED <<staged, removal, cat, pc>>
    BY <1>9 DEF HashPartial, files, staging, cycle, server, history, bounds
  <2> QED
    BY <2>1, <2>2, <2>3 DEF StagedFirst, Pending, Leaving, Known
<1>10. ASSUME FinishPartial PROVE StagedFirst'
  <2>1. Colliders \subseteq Known
    BY DEF Colliders, StagedFirst
  <2>2. todo' = Colliders /\ \A u \in File : partial'[u] = NoHash
    BY <1>10 DEF FinishPartial
  <2>3. UNCHANGED <<staged, removal, cat>>
    BY <1>10 DEF FinishPartial, files, staging, cycle, server, history, bounds
  <2>4. Known' = Known
    BY <2>3 DEF Known
  <2> QED
    BY <2>1, <2>2, <2>3, <2>4 DEF StagedFirst, Pending, Leaving
<1>11. ASSUME NEW f \in File, HashFull(f) PROVE StagedFirst'
  <2>1. HashMove(f)
    BY <1>11, HashFullRows
  <2>2. f \in Known /\ todo' \subseteq todo /\ pc = "full"
    BY <1>11 DEF HashFull, StagedFirst
  <2>3. UNCHANGED <<removal, cat, pc, partial>>
    BY <1>11 DEF HashFull, files, staging, cycle, server, history, bounds
  <2>4. \A u \in File : staged'[u].mtime = staged[u].mtime /\ (staged'[u] = staged[u]
            \/ staged[u].mtime # 0)
    BY <2>1, <2>2 DEF HashMove, Known
  <2> QED
    BY <2>2, <2>3, <2>4 DEF StagedFirst, Pending, Leaving, Known
<1>12. ASSUME FinishFull PROVE StagedFirst'
  <2>1. pc' = "drain"
    BY <1>12 DEF FinishFull
  <2>2. UNCHANGED <<staged, removal, cat, partial>>
    BY <1>12 DEF FinishFull, files, staging, cycle, server, history, bounds
  <2> QED
    BY <2>1, <2>2 DEF StagedFirst, Pending, Leaving, Known
<1>13. ASSUME ScanFails PROVE StagedFirst'
  <2>1. pc' = "drain" /\ \A u \in File : partial'[u] = NoHash
    BY <1>13 DEF ScanFails, Forget
  <2>2. UNCHANGED <<staged, removal, cat>>
    BY <1>13 DEF ScanFails, Forget, files, staging, cycle, server, history, bounds
  <2> QED
    BY <2>1, <2>2 DEF StagedFirst, Pending, Leaving, Known
<1>14. ASSUME NextChunk PROVE StagedFirst'
  <2>1. pc' = "post"
    BY <1>14 DEF NextChunk
  <2>2. UNCHANGED <<staged, removal, cat, partial>>
    BY <1>14 DEF NextChunk, files, staging, cycle, server, history, bounds
  <2> QED
    BY <2>1, <2>2 DEF StagedFirst, Pending, Leaving, Known
<1>15. ASSUME Ack PROVE StagedFirst'
  <2>1. \A u \in File : AckMove(u)
    BY <1>15, AckRows
  <2>2. pc' = "drain"
    BY <1>15 DEF Ack
  <2>3. UNCHANGED <<cat, partial>>
    BY <1>15 DEF Ack, files, staging, cycle, server, history, bounds
  <2>4. \A u \in File : /\ staged'[u].mtime = staged[u].mtime
                        /\ (staged[u].pushed => staged'[u].pushed)
                        /\ (removal[u].pushed => removal'[u].pushed)
    BY <2>1 DEF AckMove
  <2> QED
    BY <2>2, <2>3, <2>4 DEF StagedFirst, Pending, Leaving, Known
<1>16. ASSUME GiveUp PROVE StagedFirst'
  <2>1. pc' = "idle"
    BY <1>16 DEF GiveUp
  <2>2. UNCHANGED <<staged, removal, cat, partial>>
    BY <1>16 DEF GiveUp, files, staging, cycle, server, history, bounds
  <2> QED
    BY <2>1, <2>2 DEF StagedFirst, Pending, Leaving, Known
<1>17. ASSUME Crash PROVE StagedFirst'
  <2>1. pc' = "idle" /\ \A u \in File : partial'[u] = NoHash
    BY <1>17 DEF Crash, Forget
  <2>2. UNCHANGED <<staged, removal, cat>>
    BY <1>17 DEF Crash, Forget, files, staging, cycle, server, history, bounds
  <2> QED
    BY <2>1, <2>2 DEF StagedFirst, Pending, Leaving, Known
<1>18. ASSUME Ingest PROVE StagedFirst'
  <2>1. \A u \in File : IngestMove(u)
    BY <1>18, IngestRows
  <2>2. pc' \in {"ack", "post"}
    BY <1>18 DEF Ingest
  <2>3. UNCHANGED <<staged, removal, partial>>
    BY <1>18 DEF Ingest, files, staging, cycle, server, history, bounds
  <2>4. \A x \in flight.rows : x.file \in File /\ x.mtime = staged[x.file].mtime
            /\ x.path = staged[x.file].path /\ x.hash = staged[x.file].hash
    BY DEF FlightIsStaged, _row_to_entry
  <2>5. \A x \in flight.rows : x.mtime # 0
    BY DEF TypeOK, Row
  <2>6. \A u \in File : cat'[u].mtime = 0 => ~cat'[u].present
    BY <2>1, <2>4, <2>5 DEF IngestMove, Applied, StagedFirst
  <2> QED
    BY <2>2, <2>3, <2>6 DEF StagedFirst, Pending, Leaving, Known
<1>19. ASSUME Finalize PROVE StagedFirst'
  <2>1. pc' = "idle"
    BY <1>19 DEF Finalize
  <2>2. UNCHANGED <<staged, removal, cat, partial>>
    BY <1>19 DEF Finalize, files, staging, cycle, server, history, bounds
  <2> QED
    BY <2>1, <2>2 DEF StagedFirst, Pending, Leaving, Known
<1>20. ASSUME NEW f \in File, Remove(f) \/ Rewrite(f) PROVE UNCHANGED <<staged, removal, cat,
    pc, todo, partial>>
  BY <1>20 DEF Remove, Disturbed, Rewrite, Change, files, staging, cycle, server, history,
      bounds
<1>21. ASSUME UNCHANGED vars PROVE UNCHANGED <<staged, removal, cat, pc, todo, partial>>
  BY <1>21 DEF vars, files, staging, cycle, server, history, bounds
<1>22. ASSUME NEW skipped \in SUBSET todo, LeavesOut(skipped) PROVE StagedFirst'
  BY <1>22 DEF LeavesOut, StagedFirst, Pending, Leaving, Known
<1> QED
  BY <1>1, <1>2, <1>3, <1>4, <1>5, <1>6, <1>7, <1>8, <1>9, <1>10, <1>11, <1>12, <1>13, <1>14,
      <1>15, <1>16, <1>17, <1>18, <1>19, <1>20, <1>21, <1>22, Steps

(* The rows of a run have one mode.                                           *)
LEMMA RunsAreApartStep ==
    TypeOK /\ Moments /\ OneVisit /\ RunsAreApart /\ [Next]_vars => RunsAreApart'
<1> SUFFICES ASSUME TypeOK, Moments, OneVisit, RunsAreApart, [Next]_vars
             PROVE  RunsAreApart'
  OBVIOUS
<1>1. CASE UNCHANGED <<staged, removal, pc, run, fullbit>>
  BY <1>1 DEF RunsAreApart, Pending, Leaving
<1>2. ASSUME NEW force \in BOOLEAN, StartCycle(force) PROVE RunsAreApart'
  <2>1. pc' \in {"walk", "restat"} /\ run' = start_run
    BY <1>2 DEF StartCycle
  <2>2. UNCHANGED <<staged, removal, fullbit>>
    BY <1>2 DEF StartCycle, files, staging, cycle, server, history, bounds
  <2>3. \A u \in File : /\ Pending(u) => staged[u].run < run'
                        /\ Leaving(u) => removal[u].run < run'
    BY <2>1, StartRunIsNew
  <2>4. \A u \in File : staged[u].run \in Nat /\ run' \in Nat
    BY <2>1, StartRunIsNew DEF TypeOK
  <2> QED
    BY <2>1, <2>2, <2>3, <2>4 DEF RunsAreApart, Pending, Leaving
<1>3. ASSUME Flush PROVE RunsAreApart'
  <2>1. \A u \in File : StageMove(u)
    BY <1>3, StageBatchRows DEF Flush
  <2>2. UNCHANGED <<removal, run, fullbit>>
    BY <1>3 DEF Flush, files, staging, cycle, server, history, bounds
  <2>3. pc \in {"walk", "restat"} /\ pc' \in {"walk", "removals"}
    BY <1>3 DEF Flush, files, staging, cycle, server, history, bounds
  <2>4. \A u \in File : \/ staged'[u] = staged[u]
                        \/ staged'[u].run = run /\ staged'[u].mode = "metadata"
    BY <2>1 DEF StageMove, Restaged
  <2>5. run \in Nat
    BY DEF TypeOK
  <2>6. \A u \in File : Pending(u) /\ staged[u].run = run => staged[u].mode = "metadata"
    BY <2>3 DEF RunsAreApart
  <2> QED
    BY <2>2, <2>3, <2>4, <2>5, <2>6 DEF RunsAreApart, Pending, Leaving
<1>4. ASSUME FinishWalk PROVE RunsAreApart'
  <2>1. pc' = "drain" \/ (pc' = "partial" /\ run' = start_run)
    BY <1>4 DEF FinishWalk
  <2>2. UNCHANGED <<staged, removal, fullbit>>
    BY <1>4 DEF FinishWalk, finish_run, files, staging, cycle, server, history, bounds
  <2>3. pc' = "partial" => \A u \in File : /\ Pending(u) => staged[u].run < run'
                                           /\ Leaving(u) => removal[u].run < run'
    BY <2>1, StartRunIsNew
  <2>4. pc' = "partial" => \A u \in File : staged[u].run \in Nat /\ run' \in Nat
    BY <2>1, StartRunIsNew DEF TypeOK
  <2> QED
    BY <2>1, <2>2, <2>3, <2>4 DEF RunsAreApart, Pending, Leaving
<1>5. ASSUME should_block_fullbit PROVE RunsAreApart'
  <2>1. pc' = "drain"
    BY <1>5 DEF should_block_fullbit
  <2>2. UNCHANGED <<staged, removal, fullbit>>
    BY <1>5 DEF should_block_fullbit, finish_run, files, staging, cycle, server, history, bounds
  <2> QED
    BY <2>1, <2>2 DEF RunsAreApart, Pending, Leaving
<1>6. ASSUME StageDelta PROVE RunsAreApart'
  <2>1. \A u \in File : StageMove(u)
    BY <1>6, StageBatchRows DEF StageDelta
  <2>2. UNCHANGED <<removal, run, fullbit>>
    BY <1>6 DEF StageDelta, files, staging, cycle, server, history, bounds
  <2>3. pc \in {"walk", "restat"} /\ pc' \in {"walk", "removals"}
    BY <1>6 DEF StageDelta, files, staging, cycle, server, history, bounds
  <2>4. \A u \in File : \/ staged'[u] = staged[u]
                        \/ staged'[u].run = run /\ staged'[u].mode = "metadata"
    BY <2>1 DEF StageMove, Restaged
  <2>5. run \in Nat
    BY DEF TypeOK
  <2>6. \A u \in File : Pending(u) /\ staged[u].run = run => staged[u].mode = "metadata"
    BY <2>3 DEF RunsAreApart
  <2> QED
    BY <2>2, <2>3, <2>4, <2>5, <2>6 DEF RunsAreApart, Pending, Leaving
<1>7. ASSUME StageRemovals PROVE RunsAreApart'
  <2>1. pc' = "drain"
    BY <1>7 DEF StageRemovals
  <2>2. UNCHANGED <<staged, fullbit>>
    BY <1>7 DEF StageRemovals, files, staging, cycle, server, history, bounds
  <2> QED
    BY <2>1, <2>2 DEF RunsAreApart, Pending, Leaving
<1>8. ASSUME FinishPartial PROVE RunsAreApart'
  <2>1. pc = "partial" /\ pc' = "full"
    BY <1>8 DEF FinishPartial
  <2>2. UNCHANGED <<staged, removal, run, fullbit>>
    BY <1>8 DEF FinishPartial, files, staging, cycle, server, history, bounds
  <2> QED
    BY <2>1, <2>2 DEF RunsAreApart, Pending, Leaving
<1>9. ASSUME NEW f \in File, HashFull(f) PROVE RunsAreApart'
  <2>1. HashMove(f)
    BY <1>9, HashFullRows
  <2>2. UNCHANGED <<removal, run, fullbit, pc>>
    BY <1>9 DEF HashFull, files, staging, cycle, server, history, bounds
  <2>3. pc = "full" /\ fullbit
    BY <1>9 DEF HashFull, Moments
  <2>4. \A u \in File : \/ staged'[u] = staged[u]
                        \/ staged'[u].run = run /\ staged'[u].mode = "fullbit"
    BY <2>1 DEF HashMove
  <2>5. run \in Nat
    BY DEF TypeOK
  <2>6. \A u \in File : Pending(u) /\ staged[u].run = run => staged[u].mode = "fullbit"
    BY <2>3 DEF RunsAreApart
  <2> QED
    BY <2>2, <2>3, <2>4, <2>5, <2>6 DEF RunsAreApart, Pending, Leaving
<1>10. ASSUME FinishFull PROVE RunsAreApart'
  <2>1. pc' = "drain"
    BY <1>10 DEF FinishFull
  <2>2. UNCHANGED <<staged, removal, fullbit>>
    BY <1>10 DEF FinishFull, files, staging, cycle, server, history, bounds
  <2> QED
    BY <2>1, <2>2 DEF RunsAreApart, Pending, Leaving
<1>11. ASSUME ScanFails PROVE RunsAreApart'
  <2>1. pc' = "drain"
    BY <1>11 DEF ScanFails
  <2>2. UNCHANGED <<staged, removal, fullbit>>
    BY <1>11 DEF ScanFails, Forget, files, staging, cycle, server, history, bounds
  <2> QED
    BY <2>1, <2>2 DEF RunsAreApart, Pending, Leaving
<1>12. ASSUME NextChunk PROVE RunsAreApart'
  <2>1. pc' = "post"
    BY <1>12 DEF NextChunk
  <2>2. UNCHANGED <<staged, removal, fullbit>>
    BY <1>12 DEF NextChunk, files, staging, cycle, server, history, bounds
  <2> QED
    BY <2>1, <2>2 DEF RunsAreApart, Pending, Leaving
<1>13. ASSUME Ack PROVE RunsAreApart'
  <2>1. \A u \in File : AckMove(u)
    BY <1>13, AckRows
  <2>2. pc' = "drain"
    BY <1>13 DEF Ack
  <2>3. UNCHANGED <<fullbit>>
    BY <1>13 DEF Ack, files, staging, cycle, server, history, bounds
  <2>4. \A u \in File : \/ staged'[u] = staged[u]
                        \/ staged'[u].pushed = TRUE /\ staged'[u].mode = "metadata"
    BY <2>1 DEF AckMove
  <2> QED
    BY <2>2, <2>3, <2>4 DEF RunsAreApart, Pending, Leaving
<1>14. ASSUME GiveUp PROVE RunsAreApart'
  <2>1. pc' = "idle"
    BY <1>14 DEF GiveUp
  <2>2. UNCHANGED <<staged, removal, fullbit>>
    BY <1>14 DEF GiveUp, files, staging, cycle, server, history, bounds
  <2> QED
    BY <2>1, <2>2 DEF RunsAreApart, Pending, Leaving
<1>15. ASSUME Crash PROVE RunsAreApart'
  <2>1. pc' = "idle"
    BY <1>15 DEF Crash
  <2>2. UNCHANGED <<staged, removal, fullbit>>
    BY <1>15 DEF Crash, Forget, files, staging, cycle, server, history, bounds
  <2> QED
    BY <2>1, <2>2 DEF RunsAreApart, Pending, Leaving
<1>16. ASSUME Ingest PROVE RunsAreApart'
  <2>1. pc' \in {"ack", "post"}
    BY <1>16 DEF Ingest
  <2>2. UNCHANGED <<staged, removal, fullbit>>
    BY <1>16 DEF Ingest, files, staging, cycle, server, history, bounds
  <2> QED
    BY <2>1, <2>2 DEF RunsAreApart, Pending, Leaving
<1>17. ASSUME Finalize PROVE RunsAreApart'
  <2>1. pc' = "idle"
    BY <1>17 DEF Finalize
  <2>2. UNCHANGED <<staged, removal, fullbit>>
    BY <1>17 DEF Finalize, files, staging, cycle, server, history, bounds
  <2> QED
    BY <2>1, <2>2 DEF RunsAreApart, Pending, Leaving
<1>18. ASSUME NEW f \in File,
    Remove(f) \/ Rewrite(f) \/ Visit(f) \/ HashPartial(f) PROVE UNCHANGED <<staged, removal,
        pc, run, fullbit>>
  BY <1>18 DEF Remove, Disturbed, Rewrite, Change, Visit, HashPartial, files, staging, cycle,
      server, history, bounds
<1>19. ASSUME UNCHANGED vars PROVE UNCHANGED <<staged, removal, pc, run, fullbit>>
  BY <1>19 DEF vars, files, staging, cycle, server, history, bounds
<1>20. ASSUME NEW skipped \in SUBSET todo, LeavesOut(skipped) PROVE RunsAreApart'
  BY <1>20 DEF LeavesOut, RunsAreApart, Pending, Leaving
<1> QED
  BY <1>1, <1>2, <1>3, <1>4, <1>5, <1>6, <1>7, <1>8, <1>9, <1>10, <1>11, <1>12, <1>13, <1>14,
      <1>15, <1>16, <1>17, <1>18, <1>19, <1>20, Steps

(* The batch in flight is what is staged.                                     *)
LEMMA FlightIsStagedStep ==
    TypeOK /\ Moments /\ StagedFirst /\ RunsAreApart /\ FlightIsStaged
      /\ [Next]_vars => FlightIsStaged'
<1> SUFFICES ASSUME TypeOK, Moments, StagedFirst, RunsAreApart, FlightIsStaged,
    [Next]_vars PROVE FlightIsStaged'
  OBVIOUS
<1>1. CASE UNCHANGED <<flight, staged, removal, fullbit>>
  BY <1>1 DEF FlightIsStaged, Pending, Leaving, _row_to_entry
<1>2. ASSUME Flush PROVE FlightIsStaged'
  <2>1. flight = NoFlight
    BY <1>2 DEF Flush, Moments
  <2>2. UNCHANGED <<flight>>
    BY <1>2 DEF Flush, files, staging, cycle, server, history, bounds
  <2> QED
    BY <2>1, <2>2 DEF FlightIsStaged, NoFlight
<1>3. ASSUME StageDelta PROVE FlightIsStaged'
  <2>1. flight = NoFlight
    BY <1>3 DEF StageDelta, Moments
  <2>2. UNCHANGED <<flight>>
    BY <1>3 DEF StageDelta, files, staging, cycle, server, history, bounds
  <2> QED
    BY <2>1, <2>2 DEF FlightIsStaged, NoFlight
<1>4. ASSUME StageRemovals PROVE FlightIsStaged'
  <2>1. flight = NoFlight
    BY <1>4 DEF StageRemovals, Moments
  <2>2. UNCHANGED <<flight>>
    BY <1>4 DEF StageRemovals, files, staging, cycle, server, history, bounds
  <2> QED
    BY <2>1, <2>2 DEF FlightIsStaged, NoFlight
<1>5. ASSUME NEW f \in File, HashFull(f) PROVE FlightIsStaged'
  <2>1. flight = NoFlight
    BY <1>5 DEF HashFull, Moments
  <2>2. UNCHANGED <<flight>>
    BY <1>5 DEF HashFull, files, staging, cycle, server, history, bounds
  <2> QED
    BY <2>1, <2>2 DEF FlightIsStaged, NoFlight
<1>6. ASSUME NextChunk PROVE FlightIsStaged'
  <2>1. ChunkTaken
    BY <1>6, NextChunkTakes
  <2>2. UNCHANGED <<staged, removal, fullbit>>
    BY <1>6 DEF NextChunk, files, staging, cycle, server, history, bounds
  <2> QED
    BY <2>1, <2>2 DEF ChunkTaken, FlightIsStaged, Pending, Leaving, _row_to_entry
<1>7. ASSUME Ack PROVE FlightIsStaged'
  <2>1. flight' = NoFlight
    BY <1>7 DEF Ack
  <2> QED
    BY <2>1 DEF FlightIsStaged, NoFlight
<1>8. ASSUME GiveUp PROVE FlightIsStaged'
  <2>1. flight' = NoFlight
    BY <1>8 DEF GiveUp
  <2> QED
    BY <2>1 DEF FlightIsStaged, NoFlight
<1>9. ASSUME Crash PROVE FlightIsStaged'
  <2>1. flight' = NoFlight
    BY <1>9 DEF Crash
  <2> QED
    BY <2>1 DEF FlightIsStaged, NoFlight
<1>10. ASSUME NEW f \in File,
    Remove(f) \/ Rewrite(f) \/ Visit(f) \/ HashPartial(f) PROVE UNCHANGED <<flight, staged,
        removal, fullbit>>
  BY <1>10 DEF Remove, Disturbed, Rewrite, Change, Visit, HashPartial, files, staging, cycle,
      server, history, bounds
<1>11. ASSUME NEW force \in BOOLEAN, StartCycle(force) PROVE UNCHANGED <<flight, staged,
    removal, fullbit>>
  BY <1>11 DEF StartCycle, files, staging, cycle, server, history, bounds
<1>12. ASSUME FinishWalk \/ should_block_fullbit \/ FinishPartial \/ FinishFull \/ ScanFails
           \/ Ingest \/ Finalize \/ UNCHANGED vars
       PROVE  UNCHANGED <<flight, staged, removal, fullbit>>
  BY <1>12 DEF FinishWalk, finish_run, should_block_fullbit, FinishPartial, FinishFull,
      ScanFails, Forget, Ingest, Finalize, vars, files, staging, cycle, server, history, bounds
<1>13. ASSUME NEW skipped \in SUBSET todo, LeavesOut(skipped) PROVE FlightIsStaged'
  BY <1>13 DEF LeavesOut, FlightIsStaged, Pending, Leaving, _row_to_entry
<1> QED
  BY <1>1, <1>2, <1>3, <1>4, <1>5, <1>6, <1>7, <1>8, <1>9, <1>10, <1>11, <1>12, <1>13, Steps

(* An acknowledged batch is in the catalogue.                                 *)
LEMMA AckedIsIngestedStep ==
    TypeOK /\ Moments /\ FlightIsStaged /\ NamesFollow /\ AckedIsIngested
      /\ [Next]_vars => AckedIsIngested'
<1> SUFFICES ASSUME TypeOK, Moments, FlightIsStaged, NamesFollow, AckedIsIngested,
    [Next]_vars PROVE AckedIsIngested'
  OBVIOUS
<1>1. CASE UNCHANGED <<pc, flight, cat>>
  BY <1>1 DEF AckedIsIngested
<1>2. ASSUME NEW force \in BOOLEAN, StartCycle(force) PROVE AckedIsIngested'
  <2>1. pc' \in {"restat", "walk"}
    BY <1>2 DEF StartCycle
  <2> QED
    BY <2>1 DEF AckedIsIngested
<1>3. ASSUME FinishWalk PROVE AckedIsIngested'
  <2>1. pc' \in {"partial", "drain"}
    BY <1>3 DEF FinishWalk, finish_run
  <2> QED
    BY <2>1 DEF AckedIsIngested
<1>4. ASSUME should_block_fullbit PROVE AckedIsIngested'
  <2>1. pc' \in {"drain"}
    BY <1>4 DEF should_block_fullbit, finish_run
  <2> QED
    BY <2>1 DEF AckedIsIngested
<1>5. ASSUME StageDelta PROVE AckedIsIngested'
  <2>1. pc' \in {"removals"}
    BY <1>5 DEF StageDelta
  <2> QED
    BY <2>1 DEF AckedIsIngested
<1>6. ASSUME StageRemovals PROVE AckedIsIngested'
  <2>1. pc' \in {"drain"}
    BY <1>6 DEF StageRemovals
  <2> QED
    BY <2>1 DEF AckedIsIngested
<1>7. ASSUME FinishPartial PROVE AckedIsIngested'
  <2>1. pc' \in {"full"}
    BY <1>7 DEF FinishPartial
  <2> QED
    BY <2>1 DEF AckedIsIngested
<1>8. ASSUME FinishFull PROVE AckedIsIngested'
  <2>1. pc' \in {"drain"}
    BY <1>8 DEF FinishFull
  <2> QED
    BY <2>1 DEF AckedIsIngested
<1>9. ASSUME ScanFails PROVE AckedIsIngested'
  <2>1. pc' \in {"drain"}
    BY <1>9 DEF ScanFails, Forget
  <2> QED
    BY <2>1 DEF AckedIsIngested
<1>10. ASSUME NextChunk PROVE AckedIsIngested'
  <2>1. pc' \in {"post"}
    BY <1>10 DEF NextChunk
  <2> QED
    BY <2>1 DEF AckedIsIngested
<1>11. ASSUME Ack PROVE AckedIsIngested'
  <2>1. pc' \in {"drain"}
    BY <1>11 DEF Ack
  <2> QED
    BY <2>1 DEF AckedIsIngested
<1>12. ASSUME GiveUp PROVE AckedIsIngested'
  <2>1. pc' \in {"idle"}
    BY <1>12 DEF GiveUp
  <2> QED
    BY <2>1 DEF AckedIsIngested
<1>13. ASSUME Crash PROVE AckedIsIngested'
  <2>1. pc' \in {"idle"}
    BY <1>13 DEF Crash, Forget
  <2> QED
    BY <2>1 DEF AckedIsIngested
<1>14. ASSUME Ingest PROVE AckedIsIngested'
  <2>1. \A u \in File : IngestMove(u)
    BY <1>14, IngestRows
  <2>2. UNCHANGED <<flight>>
    BY <1>14 DEF Ingest, files, staging, cycle, server, history, bounds
  <2>3. \A x \in flight.rows : x.file \in File /\ x.mtime = staged[x.file].mtime
            /\ x.path = staged[x.file].path /\ x.hash = staged[x.file].hash
    BY DEF FlightIsStaged, _row_to_entry
  <2>4. \A x, y \in flight.rows : x.file = y.file => x = y
    BY DEF FlightIsStaged
  <2>5. \A x \in flight.rows : Applied(x.file, x)
    <3>1. \A x \in flight.rows : x.file \in File /\ Posted(x.file)
      BY <2>3 DEF Posted
    <3>2. \A x \in flight.rows : \E y \in flight.rows : Applied(x.file, y)
      BY <2>1, <3>1 DEF IngestMove
    <3>3. \A x, y \in flight.rows : Applied(x.file, y) => y.file = x.file
      BY DEF Applied
    <3> QED
      BY <3>1, <3>2, <3>3, <2>4
  <2>6. \A x \in flight.rows : cat'[x.file].path = x.path
    BY <2>3, <2>5 DEF Applied, NamesFollow
  <2>7. \A u \in flight.removed : u \in File /\ ~Posted(u)
    BY DEF Moments, Posted, TypeOK
  <2>8. \A u \in flight.removed : ~cat'[u].present
    BY <2>1, <2>7 DEF IngestMove
  <2> QED
    BY <2>2, <2>5, <2>6, <2>8 DEF AckedIsIngested, Applied
<1>15. ASSUME Finalize PROVE AckedIsIngested'
  <2>1. pc' \in {"idle"}
    BY <1>15 DEF Finalize
  <2> QED
    BY <2>1 DEF AckedIsIngested
<1>16. ASSUME NEW f \in File,
    Remove(f) \/ Rewrite(f) \/ Visit(f) \/ HashPartial(f) \/ HashFull(f)
    PROVE  UNCHANGED <<pc, flight, cat>>
  BY <1>16 DEF Remove, Disturbed, Rewrite, Change, Visit, HashPartial, HashFull, files,
      staging, cycle, server, history, bounds
<1>17. ASSUME Flush \/ UNCHANGED vars PROVE UNCHANGED <<pc, flight, cat>>
  BY <1>17 DEF Flush, vars, files, staging, cycle, server, history, bounds
<1>18. ASSUME NEW skipped \in SUBSET todo, LeavesOut(skipped) PROVE AckedIsIngested'
  BY <1>18 DEF LeavesOut, AckedIsIngested
<1> QED
  BY <1>1, <1>2, <1>3, <1>4, <1>5, <1>6, <1>7, <1>8, <1>9, <1>10, <1>11, <1>12, <1>13, <1>14,
      <1>15, <1>16, <1>17, <1>18, Steps

(* One mtime, one name.                                                       *)
LEMMA NamesFollowStep ==
    TypeOK /\ OneVisit /\ MtimesGrow /\ FlightIsStaged /\ NamesFollow
      /\ [Next]_vars => NamesFollow'
<1> SUFFICES ASSUME TypeOK, OneVisit, MtimesGrow, FlightIsStaged, NamesFollow,
    [Next]_vars PROVE NamesFollow'
  OBVIOUS
<1>1. CASE UNCHANGED <<cat, staged, disk, odd, batch>>
  BY <1>1 DEF NamesFollow
<1>2. ASSUME NEW f \in File, Remove(f) PROVE NamesFollow'
  <2>1. disk' = [disk EXCEPT ![f].on = FALSE]
    BY <1>2 DEF Remove
  <2>2. UNCHANGED <<cat, staged, batch, odd>>
    BY <1>2 DEF Remove, Disturbed, files, staging, cycle, server, history, bounds
  <2>3. \A u \in File : disk'[u].mtime = disk[u].mtime /\ disk'[u].path = disk[u].path
    BY <2>1 DEF TypeOK
  <2>4. \A e \in batch : e.file \in File /\ e.mtime \in Nat
    BY PipelineConstants DEF TypeOK, Entry, Mtime
  <2> QED
    BY <2>2, <2>3, <2>4 DEF NamesFollow
<1>3. ASSUME NEW f \in File, Rewrite(f) PROVE NamesFollow'
  <2>1. PICK m \in NewMtimes(f), c \in Content, p \in Path : Change(f, m, c, p)
    BY <1>3 DEF Rewrite
  <2>2. /\ disk'[f].mtime = m /\ disk'[f].path = p /\ disk'[f].content = c /\ disk'[f].on = TRUE
        /\ \A u \in File : u # f => disk'[u] = disk[u]
    BY <2>1 DEF Change, TypeOK
  <2>3. UNCHANGED <<cat, staged, batch>>
    BY <2>1 DEF Change, files, staging, cycle, server, history, bounds
  <2>4. \/ odd' = odd \cup {f}
        \/ odd' \in {odd, odd \ {f}} /\ m = changes + 2
    BY <2>1 DEF Change, Missed, NewMtimes
  <2>5. staged[f].mtime < changes + 2 /\ \A e \in batch : e.file = f => e.mtime < changes + 2
    <3>1. \A u \in File : cat[u].mtime \in Nat /\ staged[u].mtime \in Nat
              /\ disk[u].mtime \in Nat
      BY PipelineConstants DEF TypeOK, Mtime
    <3>2. \A e \in batch : e.file \in File /\ e.mtime \in Nat
      BY PipelineConstants DEF TypeOK, Entry, Mtime
    <3>3. changes \in Nat
      BY DEF TypeOK
    <3> QED
      BY <3>1, <3>2, <3>3 DEF MtimesGrow
  <2>6. \A e \in batch : e.file \in File /\ e.mtime \in Nat
    BY PipelineConstants DEF TypeOK, Entry, Mtime
  <2>7. \A u \in File \ odd' : u # f \/ disk'[f].mtime = changes + 2
    BY <2>2, <2>4
  <2>8. \A u \in File : u # f /\ u \notin odd' => u \notin odd
    BY <2>4
  <2>9. \A u \in File \ odd' : staged[u].mtime = disk'[u].mtime =>
            staged[u].path = disk'[u].path
    <3>1. \A u \in File \ odd' : u = f => staged[u].mtime # disk'[u].mtime
      <4>1. \A u \in File : cat[u].mtime \in Nat /\ staged[u].mtime \in Nat
                /\ disk[u].mtime \in Nat
        BY PipelineConstants DEF TypeOK, Mtime
      <4>2. changes \in Nat
        BY DEF TypeOK
      <4> QED
        BY <4>1, <4>2, <2>5, <2>7
    <3> QED
      BY <3>1, <2>2, <2>8 DEF NamesFollow
  <2>10. \A e \in batch : e.file \notin odd' /\ e.mtime = disk'[e.file].mtime =>
             e.path = disk'[e.file].path
    <3>1. \A e \in batch : e.file \notin odd' /\ e.file = f => e.mtime # disk'[f].mtime
      <4>1. changes \in Nat
        BY DEF TypeOK
      <4> QED
        BY <4>1, <2>5, <2>6, <2>7
    <3> QED
      BY <3>1, <2>2, <2>6, <2>8 DEF NamesFollow
  <2> QED
    BY <2>3, <2>9, <2>10 DEF NamesFollow
<1>4. ASSUME NEW force \in BOOLEAN, StartCycle(force) PROVE NamesFollow'
  <2>1. batch' = {}
    BY <1>4 DEF StartCycle
  <2>2. UNCHANGED <<cat, staged, disk, odd>>
    BY <1>4 DEF StartCycle, files, staging, cycle, server, history, bounds
  <2> QED
    BY <2>1, <2>2 DEF NamesFollow
<1>5. ASSUME NEW f \in File, Visit(f) PROVE NamesFollow'
  <2>1. UNCHANGED <<cat, staged, disk, odd>>
    BY <1>5 DEF Visit, files, staging, cycle, server, history, bounds
  <2>2. batch' \subseteq batch \cup {_entry(f)}
    BY <1>5 DEF Visit
  <2>3. _entry(f).file = f /\ _entry(f).path = disk[f].path
    BY DEF _entry
  <2> QED
    BY <2>1, <2>2, <2>3 DEF NamesFollow
<1>6. ASSUME Flush PROVE NamesFollow'
  <2>1. \A u \in File : StageMove(u)
    BY <1>6, StageBatchRows DEF Flush
  <2>2. batch' = {}
    BY <1>6 DEF Flush
  <2>3. UNCHANGED <<cat, disk, odd>>
    BY <1>6 DEF Flush, files, staging, cycle, server, history, bounds
  <2>4. \A u \in File : cat[u].mtime \in Nat /\ staged[u].mtime \in Nat /\ disk[u].mtime \in Nat
    BY PipelineConstants DEF TypeOK, Mtime
  <2>5. \A e \in batch : e.file \in File /\ e.mtime \in Nat
    BY PipelineConstants DEF TypeOK, Entry, Mtime
  <2>6. \A u \in File : cat[u].mtime = staged'[u].mtime => cat[u].path = staged'[u].path
    <3>1. \A u \in File : \A e \in batch : Restaged(u, e) => cat[u].mtime < e.mtime
      BY <2>4, <2>5 DEF Restaged, MtimesGrow
    <3> QED
      BY <3>1, <2>1, <2>4, <2>5 DEF StageMove, Restaged, NamesFollow
  <2>7. \A u \in File \ odd : staged'[u].mtime = disk[u].mtime => staged'[u].path = disk[u].path
    BY <2>1 DEF StageMove, Restaged, NamesFollow
  <2> QED
    BY <2>2, <2>3, <2>6, <2>7 DEF NamesFollow
<1>7. ASSUME StageDelta PROVE NamesFollow'
  <2>1. \A u \in File : StageMove(u)
    BY <1>7, StageBatchRows DEF StageDelta
  <2>2. batch' = {}
    BY <1>7 DEF StageDelta
  <2>3. UNCHANGED <<cat, disk, odd>>
    BY <1>7 DEF StageDelta, files, staging, cycle, server, history, bounds
  <2>4. \A u \in File : cat[u].mtime \in Nat /\ staged[u].mtime \in Nat /\ disk[u].mtime \in Nat
    BY PipelineConstants DEF TypeOK, Mtime
  <2>5. \A e \in batch : e.file \in File /\ e.mtime \in Nat
    BY PipelineConstants DEF TypeOK, Entry, Mtime
  <2>6. \A u \in File : cat[u].mtime = staged'[u].mtime => cat[u].path = staged'[u].path
    <3>1. \A u \in File : \A e \in batch : Restaged(u, e) => cat[u].mtime < e.mtime
      BY <2>4, <2>5 DEF Restaged, MtimesGrow
    <3> QED
      BY <3>1, <2>1, <2>4, <2>5 DEF StageMove, Restaged, NamesFollow
  <2>7. \A u \in File \ odd : staged'[u].mtime = disk[u].mtime => staged'[u].path = disk[u].path
    BY <2>1 DEF StageMove, Restaged, NamesFollow
  <2> QED
    BY <2>2, <2>3, <2>6, <2>7 DEF NamesFollow
<1>8. ASSUME NEW f \in File, HashFull(f) PROVE NamesFollow'
  <2>1. HashMove(f)
    BY <1>8, HashFullRows
  <2>2. UNCHANGED <<cat, disk, odd, batch>>
    BY <1>8 DEF HashFull, files, staging, cycle, server, history, bounds
  <2>3. \A u \in File : staged'[u].mtime = staged[u].mtime /\ staged'[u].path = staged[u].path
    BY <2>1 DEF HashMove
  <2> QED
    BY <2>2, <2>3 DEF NamesFollow
<1>9. ASSUME ScanFails PROVE NamesFollow'
  <2>1. batch' = {}
    BY <1>9 DEF ScanFails, Forget
  <2>2. UNCHANGED <<cat, staged, disk, odd>>
    BY <1>9 DEF ScanFails, Forget, files, staging, cycle, server, history, bounds
  <2> QED
    BY <2>1, <2>2 DEF NamesFollow
<1>10. ASSUME Ack PROVE NamesFollow'
  <2>1. \A u \in File : AckMove(u)
    BY <1>10, AckRows
  <2>2. UNCHANGED <<cat, disk, odd, batch>>
    BY <1>10 DEF Ack, files, staging, cycle, server, history, bounds
  <2>3. \A u \in File : staged'[u].mtime = staged[u].mtime /\ staged'[u].path = staged[u].path
    BY <2>1 DEF AckMove
  <2> QED
    BY <2>2, <2>3 DEF NamesFollow
<1>11. ASSUME Crash PROVE NamesFollow'
  <2>1. batch' = {}
    BY <1>11 DEF Crash, Forget
  <2>2. UNCHANGED <<cat, staged, disk, odd>>
    BY <1>11 DEF Crash, Forget, files, staging, cycle, server, history, bounds
  <2> QED
    BY <2>1, <2>2 DEF NamesFollow
<1>12. ASSUME Ingest PROVE NamesFollow'
  <2>1. \A u \in File : IngestMove(u)
    BY <1>12, IngestRows
  <2>2. UNCHANGED <<staged, disk, odd, batch>>
    BY <1>12 DEF Ingest, files, staging, cycle, server, history, bounds
  <2>3. \A x \in flight.rows : x.file \in File /\ x.mtime = staged[x.file].mtime
            /\ x.path = staged[x.file].path /\ x.hash = staged[x.file].hash
    BY DEF FlightIsStaged, _row_to_entry
  <2>4. \A u \in File : cat'[u].mtime = staged[u].mtime => cat'[u].path = staged[u].path
    BY <2>1, <2>3 DEF IngestMove, Applied, NamesFollow
  <2> QED
    BY <2>2, <2>4 DEF NamesFollow
<1>13. ASSUME FinishWalk \/ should_block_fullbit \/ StageRemovals \/ FinishPartial
           \/ FinishFull \/ NextChunk \/ GiveUp \/ Finalize \/ UNCHANGED vars
       PROVE  UNCHANGED <<cat, staged, disk, odd, batch>>
  BY <1>13 DEF FinishWalk, finish_run, should_block_fullbit, StageRemovals, FinishPartial,
      FinishFull, NextChunk, GiveUp, Finalize, vars, files, staging, cycle, server, history,
          bounds
<1>14. ASSUME NEW f \in File, HashPartial(f) PROVE UNCHANGED <<cat, staged, disk, odd, batch>>
  BY <1>14 DEF HashPartial, files, staging, cycle, server, history, bounds
<1>15. ASSUME NEW skipped \in SUBSET todo, LeavesOut(skipped) PROVE NamesFollow'
  BY <1>15 DEF LeavesOut, NamesFollow
<1> QED
  BY <1>1, <1>2, <1>3, <1>4, <1>5, <1>6, <1>7, <1>8, <1>9, <1>10, <1>11, <1>12, <1>13, <1>14, <1>15,
      Steps

(* What is pushed is in the catalogue.                                        *)
LEMMA PushedStep ==
    TypeOK /\ OneVisit /\ FlightIsStaged /\ AckedIsIngested /\ PushedIsIngested
      /\ [Next]_vars => PushedIsIngested'
<1> SUFFICES ASSUME TypeOK, OneVisit, FlightIsStaged, AckedIsIngested, PushedIsIngested,
    [Next]_vars PROVE PushedIsIngested'
  OBVIOUS
<1>1. CASE UNCHANGED <<staged, cat>>
  BY <1>1 DEF PushedIsIngested
<1>2. ASSUME Flush PROVE PushedIsIngested'
  <2>1. \A u \in File : StageMove(u)
    BY <1>2, StageBatchRows DEF Flush
  <2>2. UNCHANGED <<cat>>
    BY <1>2 DEF Flush, files, staging, cycle, server, history, bounds
  <2> QED
    BY <2>1, <2>2 DEF StageMove, Restaged, PushedIsIngested
<1>3. ASSUME StageDelta PROVE PushedIsIngested'
  <2>1. \A u \in File : StageMove(u)
    BY <1>3, StageBatchRows DEF StageDelta
  <2>2. UNCHANGED <<cat>>
    BY <1>3 DEF StageDelta, files, staging, cycle, server, history, bounds
  <2> QED
    BY <2>1, <2>2 DEF StageMove, Restaged, PushedIsIngested
<1>4. ASSUME NEW f \in File, HashFull(f) PROVE PushedIsIngested'
  <2>1. HashMove(f)
    BY <1>4, HashFullRows
  <2>2. UNCHANGED <<cat>>
    BY <1>4 DEF HashFull, files, staging, cycle, server, history, bounds
  <2> QED
    BY <2>1, <2>2 DEF HashMove, PushedIsIngested
<1>5. ASSUME Ack PROVE PushedIsIngested'
  <2>1. \A u \in File : AckMove(u)
    BY <1>5, AckRows
  <2>2. UNCHANGED <<cat>>
    BY <1>5 DEF Ack, files, staging, cycle, server, history, bounds
  <2>3. \A x \in flight.rows : x.file \in File /\ x.mtime = staged[x.file].mtime
            /\ x.path = staged[x.file].path /\ x.hash = staged[x.file].hash
    BY DEF FlightIsStaged, _row_to_entry
  <2>4. \A u \in File : Posted(u) =>
            cat[u].mtime = staged[u].mtime /\ cat[u].path = staged[u].path
    BY <1>5, <2>3 DEF Ack, Posted, AckedIsIngested
  <2> QED
    BY <2>1, <2>2, <2>4 DEF AckMove, PushedIsIngested
<1>6. ASSUME Ingest PROVE PushedIsIngested'
  <2>1. \A u \in File : IngestMove(u)
    BY <1>6, IngestRows
  <2>2. UNCHANGED <<staged>>
    BY <1>6 DEF Ingest, files, staging, cycle, server, history, bounds
  <2>3. \A u \in File : Posted(u) => ~staged[u].pushed
    BY DEF Posted, FlightIsStaged, Pending
  <2> QED
    BY <2>1, <2>2, <2>3 DEF IngestMove, PushedIsIngested
<1>7. ASSUME NEW f \in File,
    Remove(f) \/ Rewrite(f) \/ Visit(f) \/ HashPartial(f) PROVE UNCHANGED <<staged, cat>>
  BY <1>7 DEF Remove, Disturbed, Rewrite, Change, Visit, HashPartial, files, staging, cycle,
      server, history, bounds
<1>8. ASSUME NEW force \in BOOLEAN, StartCycle(force) PROVE UNCHANGED <<staged, cat>>
  BY <1>8 DEF StartCycle, files, staging, cycle, server, history, bounds
<1>9. ASSUME FinishWalk \/ should_block_fullbit \/ StageRemovals \/ FinishPartial
          \/ FinishFull \/ ScanFails \/ NextChunk \/ GiveUp \/ Crash \/ Finalize
                 \/ UNCHANGED vars
      PROVE  UNCHANGED <<staged, cat>>
  BY <1>9 DEF FinishWalk, finish_run, should_block_fullbit, StageRemovals, FinishPartial,
      FinishFull, ScanFails, Forget, NextChunk, GiveUp, Crash, Finalize, vars, files,
          staging, cycle, server, history, bounds
<1>10. ASSUME NEW skipped \in SUBSET todo, LeavesOut(skipped) PROVE PushedIsIngested'
  BY <1>10 DEF LeavesOut, PushedIsIngested
<1> QED
  BY <1>1, <1>2, <1>3, <1>4, <1>5, <1>6, <1>7, <1>8, <1>9, <1>10, Steps

(* The change log adds up.                                                    *)
LEMMA ChurnStep ==
    TypeOK /\ Moments /\ FlightIsStaged /\ ChurnBalances /\ [Next]_vars => ChurnBalances'
<1> SUFFICES ASSUME TypeOK, Moments, FlightIsStaged, ChurnBalances,
    [Next]_vars PROVE ChurnBalances'
  OBVIOUS
<1>1. CASE UNCHANGED <<fullbit, churn, cat>>
  BY <1>1 DEF ChurnBalances
<1>2. ASSUME Ingest PROVE ChurnBalances'
  <2>1. \A u \in File : IngestMove(u)
    BY <1>2, IngestRows
  <2>2. UNCHANGED <<fullbit>>
    BY <1>2 DEF Ingest, files, staging, cycle, server, history, bounds
  <2>3. \A u \in File : churn'[u] = churn[u] + Logged(u)
    BY <1>2 DEF Ingest
  <2>4. ~fullbit => flight.mode = "metadata"
    BY DEF FlightIsStaged
  <2>5. \A u \in File : u \in flight.removed => ~Posted(u)
    BY DEF Moments, Posted
  <2>6. \A u \in File : churn[u] \in Int /\ cat[u].present \in BOOLEAN
    BY DEF TypeOK
  <2>7. ASSUME ~fullbit, NEW u \in File PROVE churn'[u] = IF cat'[u].present THEN 1 ELSE 0
    <3>1. flight.mode # "fullbit" /\ flight.mode = "metadata"
      BY <2>4, <2>7
    <3>2. churn[u] = IF cat[u].present THEN 1 ELSE 0
      BY <2>7 DEF ChurnBalances
    <3>3. Posted(u) => cat'[u].present /\ Logged(u) = IF cat[u].present THEN 0 ELSE 1
      BY <2>1, <2>5, <3>1 DEF IngestMove, Applied, Logged, Created, Deleted
    <3>4. ~Posted(u) => /\ cat'[u].present <=> cat[u].present /\ u \notin flight.removed
                        /\ Logged(u) = IF cat[u].present /\ u \in flight.removed THEN -1 ELSE 0
      BY <2>1 DEF IngestMove, Logged, Created, Deleted
    <3>5. CASE Posted(u)
      BY <3>2, <3>3, <3>5, <2>3, <2>6
    <3>6. CASE ~Posted(u)
      BY <3>2, <3>4, <3>6, <2>3, <2>6
    <3> QED
      BY <3>1, <3>2, <3>3, <3>4, <3>5, <3>6
  <2> QED
    BY <2>2, <2>7 DEF ChurnBalances
<1>3. ASSUME NEW f \in File,
    Remove(f) \/ Rewrite(f) \/ Visit(f) \/ HashPartial(f) \/ HashFull(f)
    PROVE  UNCHANGED <<fullbit, churn, cat>>
  BY <1>3 DEF Remove, Disturbed, Rewrite, Change, Visit, HashPartial, HashFull, files,
      staging, cycle, server, history, bounds
<1>4. ASSUME NEW force \in BOOLEAN, StartCycle(force) PROVE UNCHANGED <<fullbit, churn, cat>>
  BY <1>4 DEF StartCycle, files, staging, cycle, server, history, bounds
<1>5. ASSUME Flush \/ FinishWalk \/ should_block_fullbit \/ StageDelta \/ StageRemovals
          \/ FinishPartial \/ FinishFull \/ ScanFails \/ NextChunk \/ Ack \/ GiveUp \/ Crash
                 \/ Finalize \/ UNCHANGED vars
      PROVE  UNCHANGED <<fullbit, churn, cat>>
  BY <1>5 DEF Flush, FinishWalk, finish_run, should_block_fullbit, StageDelta, StageRemovals,
      FinishPartial, FinishFull, ScanFails, Forget, NextChunk, Ack, GiveUp, Crash, Finalize,
          vars, files, staging, cycle, server, history, bounds
<1>6. ASSUME NEW skipped \in SUBSET todo, LeavesOut(skipped) PROVE ChurnBalances'
  BY <1>6 DEF LeavesOut, ChurnBalances
<1> QED
  BY <1>1, <1>2, <1>3, <1>4, <1>5, <1>6, Steps

(* With full-bit on, no file that the agent follows was removed.              *)
LEMMA NeverRemovedStep ==
    TypeOK /\ OneVisit /\ MtimesGrow /\ StagedFirst /\ FlightIsStaged
      /\ NeverRemoved /\ [Next]_vars => NeverRemoved'
<1> SUFFICES ASSUME TypeOK, OneVisit, MtimesGrow, StagedFirst, FlightIsStaged, NeverRemoved,
    [Next]_vars PROVE NeverRemoved'
  OBVIOUS
<1>1. CASE UNCHANGED <<fullbit, odd, disk, removal, gone, staged, cat>>
  BY <1>1 DEF NeverRemoved, Leaving
<1>2. ASSUME NEW f \in File, Remove(f) PROVE NeverRemoved'
  <2>1. disk' = [disk EXCEPT ![f].on = FALSE]
    BY <1>2 DEF Remove
  <2>2. UNCHANGED <<fullbit, odd, removal, gone, staged, cat>>
    BY <1>2 DEF Remove, Disturbed, files, staging, cycle, server, history, bounds
  <2>3. \A u \in File : disk'[u].on => disk[u].on
    BY <2>1 DEF TypeOK
  <2> QED
    BY <2>2, <2>3 DEF NeverRemoved, Leaving
<1>3. ASSUME NEW f \in File, Rewrite(f) PROVE NeverRemoved'
  <2>1. PICK m \in NewMtimes(f), c \in Content, p \in Path : Change(f, m, c, p)
    BY <1>3 DEF Rewrite
  <2>2. /\ disk'[f].mtime = m /\ disk'[f].path = p /\ disk'[f].content = c /\ disk'[f].on = TRUE
        /\ \A u \in File : u # f => disk'[u] = disk[u]
    BY <2>1 DEF Change, TypeOK
  <2>3. UNCHANGED <<fullbit, removal, gone, staged, cat>>
    BY <2>1 DEF Change, files, staging, cycle, server, history, bounds
  <2>4. /\ fullbit => odd \subseteq odd'
        /\ fullbit /\ f \notin odd' /\ ~disk[f].on => staged[f].mtime = 0
    BY <2>1 DEF Change, Missed
  <2>5. \A u \in File : cat[u].mtime \in Nat /\ staged[u].mtime \in Nat /\ disk[u].mtime \in Nat
    BY PipelineConstants DEF TypeOK, Mtime
  <2>6. staged[f].mtime = 0 => cat[f].mtime = 0 /\ ~Leaving(f)
    BY <2>5 DEF MtimesGrow, StagedFirst
  <2> QED
    BY <2>2, <2>3, <2>4, <2>6 DEF NeverRemoved, Leaving
<1>4. ASSUME NEW force \in BOOLEAN, StartCycle(force) PROVE NeverRemoved'
  <2>1. gone' = {}
    BY <1>4 DEF StartCycle
  <2>2. UNCHANGED <<fullbit, odd, disk, removal, staged, cat>>
    BY <1>4 DEF StartCycle, files, staging, cycle, server, history, bounds
  <2> QED
    BY <2>1, <2>2 DEF NeverRemoved, Leaving
<1>5. ASSUME NEW f \in File, Visit(f) PROVE NeverRemoved'
  <2>1. UNCHANGED <<fullbit, odd, disk, removal, staged, cat>>
    BY <1>5 DEF Visit, files, staging, cycle, server, history, bounds
  <2>2. \A u \in gone' : u \in gone \/ ~disk[u].on
    BY <1>5 DEF Visit, Listed
  <2> QED
    BY <2>1, <2>2 DEF NeverRemoved, Leaving
<1>6. ASSUME Flush PROVE NeverRemoved'
  <2>1. \A u \in File : StageMove(u)
    BY <1>6, StageBatchRows DEF Flush
  <2>2. UNCHANGED <<fullbit, odd, disk, removal, cat, gone>>
    BY <1>6 DEF Flush, files, staging, cycle, server, history, bounds
  <2>3. \A u \in gone : u \in File => staged'[u] = staged[u]
    BY <2>1 DEF StageMove, Restaged, OneVisit
  <2> QED
    BY <2>2, <2>3 DEF NeverRemoved, Leaving
<1>7. ASSUME StageDelta PROVE NeverRemoved'
  <2>1. \A u \in File : StageMove(u)
    BY <1>7, StageBatchRows DEF StageDelta
  <2>2. UNCHANGED <<fullbit, odd, disk, removal, cat, gone>>
    BY <1>7 DEF StageDelta, files, staging, cycle, server, history, bounds
  <2>3. \A u \in gone : u \in File => staged'[u] = staged[u]
    BY <2>1 DEF StageMove, Restaged, OneVisit
  <2> QED
    BY <2>2, <2>3 DEF NeverRemoved, Leaving
<1>8. ASSUME StageRemovals PROVE NeverRemoved'
  <2>1. gone' = {} /\ \A u \in File : removal'[u] = removal[u] \/ (u \in gone
            /\ staged[u].mtime # 0)
    BY <1>8 DEF StageRemovals, stage_removals, Known
  <2>2. UNCHANGED <<fullbit, odd, disk, staged, cat>>
    BY <1>8 DEF StageRemovals, files, staging, cycle, server, history, bounds
  <2> QED
    BY <2>1, <2>2 DEF NeverRemoved, Leaving
<1>9. ASSUME NEW f \in File, HashFull(f) PROVE NeverRemoved'
  <2>1. HashMove(f)
    BY <1>9, HashFullRows
  <2>2. UNCHANGED <<fullbit, odd, disk, removal, cat, gone>>
    BY <1>9 DEF HashFull, files, staging, cycle, server, history, bounds
  <2>3. \A u \in File : staged'[u].mtime = staged[u].mtime
    BY <2>1 DEF HashMove
  <2> QED
    BY <2>2, <2>3 DEF NeverRemoved, Leaving
<1>10. ASSUME ScanFails PROVE NeverRemoved'
  <2>1. gone' = {}
    BY <1>10 DEF ScanFails, Forget
  <2>2. UNCHANGED <<fullbit, odd, disk, removal, staged, cat>>
    BY <1>10 DEF ScanFails, Forget, files, staging, cycle, server, history, bounds
  <2> QED
    BY <2>1, <2>2 DEF NeverRemoved, Leaving
<1>11. ASSUME Ack PROVE NeverRemoved'
  <2>1. \A u \in File : AckMove(u)
    BY <1>11, AckRows
  <2>2. UNCHANGED <<fullbit, odd, disk, cat, gone>>
    BY <1>11 DEF Ack, files, staging, cycle, server, history, bounds
  <2>3. \A u \in File : staged'[u].mtime = staged[u].mtime /\ (removal[u].pushed =>
            removal'[u].pushed)
    BY <2>1 DEF AckMove
  <2> QED
    BY <2>2, <2>3 DEF NeverRemoved, Leaving
<1>12. ASSUME Crash PROVE NeverRemoved'
  <2>1. gone' = {}
    BY <1>12 DEF Crash, Forget
  <2>2. UNCHANGED <<fullbit, odd, disk, removal, staged, cat>>
    BY <1>12 DEF Crash, Forget, files, staging, cycle, server, history, bounds
  <2> QED
    BY <2>1, <2>2 DEF NeverRemoved, Leaving
<1>13. ASSUME Ingest PROVE NeverRemoved'
  <2>1. \A u \in File : IngestMove(u)
    BY <1>13, IngestRows
  <2>2. UNCHANGED <<fullbit, odd, disk, removal, gone, staged>>
    BY <1>13 DEF Ingest, files, staging, cycle, server, history, bounds
  <2>3. \A u \in File : u \in flight.removed => Leaving(u)
    BY DEF FlightIsStaged
  <2>4. \A u \in File : cat'[u].mtime # 0 /\ u \notin flight.removed /\ (cat[u].mtime # 0 =>
            cat[u].present) => cat'[u].present
    BY <2>1 DEF IngestMove, Applied
  <2> QED
    BY <2>2, <2>3, <2>4 DEF NeverRemoved, Leaving
<1>14. ASSUME FinishWalk \/ should_block_fullbit \/ FinishPartial \/ FinishFull \/ NextChunk
           \/ GiveUp \/ Finalize \/ UNCHANGED vars
       PROVE  UNCHANGED <<fullbit, odd, disk, removal, gone, staged, cat>>
  BY <1>14 DEF FinishWalk, finish_run, should_block_fullbit, FinishPartial, FinishFull,
      NextChunk, GiveUp, Finalize, vars, files, staging, cycle, server, history, bounds
<1>15. ASSUME NEW f \in File, HashPartial(f) PROVE UNCHANGED <<fullbit, odd, disk, removal,
    gone, staged, cat>>
  BY <1>15 DEF HashPartial, files, staging, cycle, server, history, bounds
<1>16. ASSUME NEW skipped \in SUBSET todo, LeavesOut(skipped) PROVE NeverRemoved'
  BY <1>16 DEF LeavesOut, NeverRemoved, Leaving, LostBySkip
<1> QED
  BY <1>1, <1>2, <1>3, <1>4, <1>5, <1>6, <1>7, <1>8, <1>9, <1>10, <1>11, <1>12, <1>13, <1>14,
      <1>15, <1>16, Steps

(* With full-bit off, a pending removal is older than the row of a file that is back. *)
LEMMA RemovedBeforeStep ==
    TypeOK /\ Moments /\ OneVisit /\ MtimesGrow /\ RunsAreApart /\ FlightIsStaged
      /\ AckedIsIngested /\ RemovedBefore /\ [Next]_vars => RemovedBefore'
<1> SUFFICES ASSUME TypeOK, Moments, OneVisit, MtimesGrow, RunsAreApart, FlightIsStaged,
    AckedIsIngested, RemovedBefore, [Next]_vars PROVE RemovedBefore'
  OBVIOUS
<1>1. CASE UNCHANGED <<fullbit, odd, disk, staged, gone, removal, cat>>
  BY <1>1 DEF RemovedBefore, Leaving, Pending
<1>2. ASSUME NEW f \in File, Remove(f) PROVE RemovedBefore'
  <2>1. disk' = [disk EXCEPT ![f].on = FALSE]
    BY <1>2 DEF Remove
  <2>2. UNCHANGED <<fullbit, odd, removal, gone, staged, cat>>
    BY <1>2 DEF Remove, Disturbed, files, staging, cycle, server, history, bounds
  <2>3. \A u \in File : (disk'[u].on => disk[u].on) /\ disk'[u].mtime = disk[u].mtime
    BY <2>1 DEF TypeOK
  <2> QED
    BY <2>2, <2>3 DEF RemovedBefore, Leaving, Pending
<1>3. ASSUME NEW f \in File, Rewrite(f) PROVE RemovedBefore'
  <2>1. PICK m \in NewMtimes(f), c \in Content, p \in Path : Change(f, m, c, p)
    BY <1>3 DEF Rewrite
  <2>2. /\ disk'[f].mtime = m /\ disk'[f].path = p /\ disk'[f].content = c /\ disk'[f].on = TRUE
        /\ \A u \in File : u # f => disk'[u] = disk[u]
    BY <2>1 DEF Change, TypeOK
  <2>3. UNCHANGED <<fullbit, removal, gone, staged, cat>>
    BY <2>1 DEF Change, files, staging, cycle, server, history, bounds
  <2>4. /\ \A u \in File : u # f /\ u \notin odd' => u \notin odd
        /\ f \notin odd' => m = changes + 2
    BY <2>1 DEF Change, Missed, NewMtimes
  <2>5. staged[f].mtime < changes + 2
    <3>1. \A u \in File : cat[u].mtime \in Nat /\ staged[u].mtime \in Nat
              /\ disk[u].mtime \in Nat
      BY PipelineConstants DEF TypeOK, Mtime
    <3>2. changes \in Nat
      BY DEF TypeOK
    <3> QED
      BY <3>1, <3>2 DEF MtimesGrow
  <2>6. f \notin odd' => staged[f].mtime # disk'[f].mtime
    <3>1. \A u \in File : cat[u].mtime \in Nat /\ staged[u].mtime \in Nat
              /\ disk[u].mtime \in Nat
      BY PipelineConstants DEF TypeOK, Mtime
    <3>2. changes \in Nat
      BY DEF TypeOK
    <3> QED
      BY <3>1, <3>2, <2>2, <2>4, <2>5
  <2> QED
    BY <2>2, <2>3, <2>4, <2>6 DEF RemovedBefore, Leaving, Pending
<1>4. ASSUME NEW force \in BOOLEAN, StartCycle(force) PROVE RemovedBefore'
  <2>1. gone' = {}
    BY <1>4 DEF StartCycle
  <2>2. UNCHANGED <<fullbit, odd, disk, removal, staged, cat>>
    BY <1>4 DEF StartCycle, files, staging, cycle, server, history, bounds
  <2> QED
    BY <2>1, <2>2 DEF RemovedBefore, Leaving, Pending
<1>5. ASSUME NEW f \in File, Visit(f) PROVE RemovedBefore'
  <2>1. UNCHANGED <<fullbit, odd, disk, removal, staged, cat>>
    BY <1>5 DEF Visit, files, staging, cycle, server, history, bounds
  <2>2. \A u \in gone' : u \in gone \/ ~disk[u].on
    BY <1>5 DEF Visit, Listed
  <2> QED
    BY <2>1, <2>2 DEF RemovedBefore, Leaving, Pending
<1>6. ASSUME Flush PROVE RemovedBefore'
  <2>1. \A u \in File : StageMove(u)
    BY <1>6, StageBatchRows DEF Flush
  <2>2. UNCHANGED <<fullbit, odd, disk, removal, cat, gone>>
    BY <1>6 DEF Flush, files, staging, cycle, server, history, bounds
  <2>3. \A u \in File : \/ staged'[u] = staged[u]
                        \/ u \notin gone /\ staged'[u].run = run /\ staged'[u].pushed = FALSE
    BY <2>1 DEF StageMove, Restaged, OneVisit
  <2>4. \A u \in File : Leaving(u) => removal[u].run < run
    BY <1>6 DEF Flush, RunsAreApart
  <2> QED
    BY <2>2, <2>3, <2>4 DEF RemovedBefore, Leaving, Pending
<1>7. ASSUME StageDelta PROVE RemovedBefore'
  <2>1. \A u \in File : StageMove(u)
    BY <1>7, StageBatchRows DEF StageDelta
  <2>2. UNCHANGED <<fullbit, odd, disk, removal, cat, gone>>
    BY <1>7 DEF StageDelta, files, staging, cycle, server, history, bounds
  <2>3. \A u \in File : \/ staged'[u] = staged[u]
                        \/ u \notin gone /\ staged'[u].run = run /\ staged'[u].pushed = FALSE
    BY <2>1 DEF StageMove, Restaged, OneVisit
  <2>4. \A u \in File : Leaving(u) => removal[u].run < run
    BY <1>7 DEF StageDelta, RunsAreApart
  <2> QED
    BY <2>2, <2>3, <2>4 DEF RemovedBefore, Leaving, Pending
<1>8. ASSUME StageRemovals PROVE RemovedBefore'
  <2>1. gone' = {} /\ \A u \in File : removal'[u] = removal[u] \/ u \in gone
    BY <1>8 DEF StageRemovals, stage_removals
  <2>2. UNCHANGED <<fullbit, odd, disk, staged, cat>>
    BY <1>8 DEF StageRemovals, files, staging, cycle, server, history, bounds
  <2> QED
    BY <2>1, <2>2 DEF RemovedBefore, Leaving, Pending
<1>9. ASSUME NEW f \in File, HashFull(f) PROVE RemovedBefore'
  <2>1. fullbit /\ fullbit' = fullbit
    BY <1>9 DEF HashFull, Moments, files, staging, cycle, server, history, bounds
  <2> QED
    BY <2>1 DEF RemovedBefore
<1>10. ASSUME ScanFails PROVE RemovedBefore'
  <2>1. gone' = {}
    BY <1>10 DEF ScanFails, Forget
  <2>2. UNCHANGED <<fullbit, odd, disk, removal, staged, cat>>
    BY <1>10 DEF ScanFails, Forget, files, staging, cycle, server, history, bounds
  <2> QED
    BY <2>1, <2>2 DEF RemovedBefore, Leaving, Pending
<1>11. ASSUME Ack PROVE RemovedBefore'
  <2>1. \A u \in File : AckMove(u)
    BY <1>11, AckRows
  <2>2. UNCHANGED <<fullbit, odd, disk, cat, gone>>
    BY <1>11 DEF Ack, files, staging, cycle, server, history, bounds
  <2>3. \A u \in File : /\ staged'[u].mtime = staged[u].mtime
                        /\ (removal[u].pushed => removal'[u].pushed)
                        /\ (~removal'[u].pushed => removal'[u] = removal[u])
                        /\ (~Posted(u) => staged'[u] = staged[u])
    BY <2>1 DEF AckMove
  <2>4. \A u \in File : Posted(u) /\ ~fullbit => cat[u].present
    BY <1>11 DEF Ack, Posted, AckedIsIngested, FlightIsStaged
  <2>5. \A u \in File : Posted(u) /\ Leaving(u) => staged[u].run <= removal[u].run
    BY DEF Posted, FlightIsStaged
  <2>6. \A u \in File : staged[u].run \in Nat /\ removal[u].run \in Nat
    BY DEF TypeOK
  <2>7. \A u \in File : Posted(u) => ~(removal[u].run < staged[u].run) \/ ~Leaving(u)
    BY <2>5, <2>6
  <2> QED
    BY <2>2, <2>3, <2>4, <2>7 DEF RemovedBefore, Leaving, Pending
<1>12. ASSUME Crash PROVE RemovedBefore'
  <2>1. gone' = {}
    BY <1>12 DEF Crash, Forget
  <2>2. UNCHANGED <<fullbit, odd, disk, removal, staged, cat>>
    BY <1>12 DEF Crash, Forget, files, staging, cycle, server, history, bounds
  <2> QED
    BY <2>1, <2>2 DEF RemovedBefore, Leaving, Pending
<1>13. ASSUME Ingest PROVE RemovedBefore'
  <2>1. \A u \in File : IngestMove(u)
    BY <1>13, IngestRows
  <2>2. UNCHANGED <<fullbit, odd, disk, removal, gone, staged>>
    BY <1>13 DEF Ingest, files, staging, cycle, server, history, bounds
  <2>3. \A u \in File : u \in flight.removed => Leaving(u)
    BY DEF FlightIsStaged
  <2>4. \A u \in File : Posted(u) => Pending(u)
    BY DEF FlightIsStaged, Posted
  <2>5. \A u \in File : u \notin flight.removed /\ ~Posted(u) /\ cat[u].present =>
            cat'[u].present
    BY <2>1 DEF IngestMove
  <2> QED
    BY <2>2, <2>3, <2>4, <2>5 DEF RemovedBefore, Leaving, Pending
<1>14. ASSUME FinishWalk \/ should_block_fullbit \/ FinishPartial \/ FinishFull \/ NextChunk
           \/ GiveUp \/ Finalize \/ UNCHANGED vars
       PROVE  UNCHANGED <<fullbit, odd, disk, staged, gone, removal, cat>>
  BY <1>14 DEF FinishWalk, finish_run, should_block_fullbit, FinishPartial, FinishFull,
      NextChunk, GiveUp, Finalize, vars, files, staging, cycle, server, history, bounds
<1>15. ASSUME NEW f \in File, HashPartial(f) PROVE UNCHANGED <<fullbit, odd, disk, staged,
    gone, removal, cat>>
  BY <1>15 DEF HashPartial, files, staging, cycle, server, history, bounds
<1>16. ASSUME NEW skipped \in SUBSET todo, LeavesOut(skipped) PROVE RemovedBefore'
  <2>1. UNCHANGED <<fullbit, disk, staged, removal, cat>> /\ odd \subseteq odd'
    BY <1>16 DEF LeavesOut
  <2> QED
    BY <1>16, <2>1, SkippedIsLost DEF RemovedBefore, Pending, Leaving
<1> QED
  BY <1>1, <1>2, <1>3, <1>4, <1>5, <1>6, <1>7, <1>8, <1>9, <1>10, <1>11, <1>12, <1>13, <1>14,
      <1>15, <1>16, Steps

(* What an incremental cycle has done so far.                                 *)
LEMMA IncrementalStep ==
    TypeOK /\ Moments /\ OneVisit /\ MtimesGrow /\ StagedFirst /\ RunsAreApart
      /\ FlightIsStaged /\ AckedIsIngested /\ IncrementalSoFar /\ [Next]_vars =>
             IncrementalSoFar'
<1> SUFFICES ASSUME TypeOK, Moments, OneVisit, MtimesGrow, StagedFirst, RunsAreApart,
    FlightIsStaged, AckedIsIngested, IncrementalSoFar, [Next]_vars PROVE IncrementalSoFar'
  OBVIOUS
<1>1. CASE UNCHANGED <<clean, pc, todo, disk, gone, staged, batch, removal, cat>>
  BY <1>1 DEF IncrementalSoFar, Seen, Delivered, Pending, Leaving
<1>2. ASSUME NEW f \in File, Remove(f) PROVE IncrementalSoFar'
  <2>1. clean' = "no"
    BY <1>2 DEF Remove, Disturbed
  <2> QED
    BY <2>1 DEF IncrementalSoFar
<1>3. ASSUME NEW f \in File, Rewrite(f) PROVE IncrementalSoFar'
  <2>1. PICK m \in NewMtimes(f), c \in Content, p \in Path : Change(f, m, c, p)
    BY <1>3 DEF Rewrite
  <2>2. clean' = "no"
    BY <2>1 DEF Change, Disturbed
  <2> QED
    BY <2>2 DEF IncrementalSoFar
<1>4. ASSUME NEW force \in BOOLEAN, StartCycle(force) PROVE IncrementalSoFar'
  <2>1. pc' \in {"walk", "restat"} /\ todo' = File
    BY <1>4 DEF StartCycle
  <2> QED
    BY <2>1 DEF IncrementalSoFar, Sending
<1>5. ASSUME NEW f \in File, Visit(f) PROVE IncrementalSoFar'
  <2>1. ASSUME clean = "incremental" PROVE IncrementalSoFar'
    <3>1. pc = "restat"
      BY <1>5, <2>1 DEF Visit, Moments, Sending
    <3>2. UNCHANGED <<pc, disk, staged, removal, cat, clean>>
      BY <1>5 DEF Visit, files, staging, cycle, server, history, bounds
    <3>3. /\ f \in todo /\ f \notin gone /\ todo' = todo \ {f}
          /\ gone' = IF disk[f].on THEN gone ELSE gone \cup {f}
          /\ batch' = IF disk[f].on /\ Changed(f) THEN batch \cup {_entry(f)} ELSE batch
      BY <1>5, <3>1 DEF Visit, Listed, Reported, OneVisit
    <3>4. _entry(f).file = f /\ _entry(f).mtime = disk[f].mtime
      BY DEF _entry
    <3>5. \A u \in File \ {f} : u \notin todo' => Seen(u)
      BY <2>1, <3>1, <3>3 DEF IncrementalSoFar
    <3>6. \A u \in File \ {f} : Seen(u) => Seen(u)'
      BY <3>2, <3>3 DEF Seen
    <3>7. Seen(f)'
      <4>1. CASE disk[f].on /\ Changed(f)
        BY <3>2, <3>3, <3>4, <4>1 DEF Seen
      <4>2. CASE disk[f].on /\ ~Changed(f)
        BY <3>2, <3>3, <4>2 DEF Seen, Changed
      <4>3. CASE ~disk[f].on
        BY <3>2, <3>3, <4>3 DEF Seen
      <4> QED
        BY <4>1, <4>2, <4>3
    <3> QED
      BY <3>1, <3>2, <3>3, <3>4, <3>5, <3>6, <3>7, <2>1 DEF IncrementalSoFar, Sending
  <2>2. clean # "incremental" => IncrementalSoFar'
    BY <1>5 DEF Visit, IncrementalSoFar, files, staging, cycle, server, history, bounds
  <2> QED
    BY <2>1, <2>2
<1>6. ASSUME Flush PROVE IncrementalSoFar'
  <2>1. clean # "incremental" /\ clean' = clean
    BY <1>6 DEF Flush, Moments, Sending, files, staging, cycle, server, history, bounds
  <2> QED
    BY <2>1 DEF IncrementalSoFar
<1>7. ASSUME FinishWalk PROVE IncrementalSoFar'
  <2>1. clean # "incremental" /\ clean' = clean
    BY <1>7 DEF FinishWalk, Moments, Sending, files, staging, cycle, server, history, bounds
  <2> QED
    BY <2>1 DEF IncrementalSoFar
<1>8. ASSUME should_block_fullbit PROVE IncrementalSoFar'
  <2>1. clean' = "no"
    BY <1>8 DEF should_block_fullbit, finish_run
  <2> QED
    BY <2>1 DEF IncrementalSoFar
<1>9. ASSUME StageDelta PROVE IncrementalSoFar'
  <2>1. ASSUME clean = "incremental" PROVE IncrementalSoFar'
    <3>1. pc = "restat" /\ pc' = "removals" /\ todo = {}
      BY <1>9 DEF StageDelta
    <3>2. UNCHANGED <<disk, gone, clean>>
      BY <1>9 DEF StageDelta, files, staging, cycle, server, history, bounds
    <3>3. \A u \in File : Seen(u)
      BY <2>1, <3>1 DEF IncrementalSoFar
    <3>4. \A u \in File : StageMove(u)
      BY <1>9, StageBatchRows DEF StageDelta
    <3>5. \A e \in batch : e.file \in File /\ staged[e.file].mtime = disk[e.file].mtime =>
              e.mtime = staged[e.file].mtime
      <4>1. \A u \in File : cat[u].mtime \in Nat /\ staged[u].mtime \in Nat
                /\ disk[u].mtime \in Nat
        BY PipelineConstants DEF TypeOK, Mtime
      <4>2. \A e \in batch : e.file \in File /\ e.mtime \in Nat
        BY PipelineConstants DEF TypeOK, Entry, Mtime
      <4> QED
        BY <4>1, <4>2 DEF MtimesGrow
    <3>6. \A u \in File : staged[u].mtime = disk[u].mtime => staged'[u].mtime = disk[u].mtime
      BY <3>4, <3>5 DEF StageMove, Restaged
    <3>7. \A u \in File : (\E e \in batch : e.file = u /\ e.mtime = disk[u].mtime) =>
              staged'[u].mtime = disk[u].mtime
      BY <3>4 DEF StageMove, Restaged, OneVisit
    <3>8. \A u \in File : IF disk[u].on THEN u \notin gone
              /\ staged'[u].mtime = disk[u].mtime ELSE u \in gone
      BY <3>3, <3>6, <3>7 DEF Seen
    <3> QED
      BY <3>1, <3>2, <3>3, <3>4, <3>5, <3>6, <3>7, <3>8, <2>1 DEF IncrementalSoFar, Sending
  <2>2. clean # "incremental" => IncrementalSoFar'
    BY <1>9 DEF StageDelta, IncrementalSoFar, files, staging, cycle, server, history, bounds
  <2> QED
    BY <2>1, <2>2
<1>10. ASSUME StageRemovals PROVE IncrementalSoFar'
  <2>1. ASSUME clean = "incremental" PROVE IncrementalSoFar'
    <3>1. pc = "removals" /\ pc' = "drain"
      BY <1>10 DEF StageRemovals
    <3>2. UNCHANGED <<disk, staged, cat, clean>>
      BY <1>10 DEF StageRemovals, files, staging, cycle, server, history, bounds
    <3>3. \A u \in File : IF disk[u].on THEN u \notin gone
              /\ staged[u].mtime = disk[u].mtime ELSE u \in gone
      BY <2>1, <3>1 DEF IncrementalSoFar
    <3>4. \A u \in File : u \in gone /\ staged[u].mtime # 0 => removal'[u] = [run |-> run,
        pushed |-> FALSE]
      BY <1>10 DEF StageRemovals, stage_removals, Known
    <3>5. \A u \in File : Pending(u) => staged[u].run <= run
      BY <3>1 DEF RunsAreApart
    <3>6. \A u \in File : staged[u].mtime = 0 => ~Pending(u) /\ ~cat[u].present
      <4>1. \A u \in File : cat[u].mtime \in Nat /\ staged[u].mtime \in Nat
                /\ disk[u].mtime \in Nat
        BY PipelineConstants DEF TypeOK, Mtime
      <4> QED
        BY <4>1 DEF MtimesGrow, StagedFirst
    <3>7. \A u \in File : Delivered(u)'
      <4>1. ASSUME NEW u \in File, disk[u].on PROVE Delivered(u)'
        BY <4>1, <3>2, <3>3 DEF Delivered
      <4>2. ASSUME NEW u \in File, ~disk[u].on, staged[u].mtime = 0 PROVE Delivered(u)'
        BY <4>2, <3>2, <3>6 DEF Delivered, Pending
      <4>3. ASSUME NEW u \in File, ~disk[u].on, staged[u].mtime # 0 PROVE Delivered(u)'
        <5>1. removal'[u].run = run /\ ~removal'[u].pushed
          BY <4>3, <3>3, <3>4
        <5> QED
          BY <5>1, <4>3, <3>2, <3>5 DEF Delivered, Pending, Leaving
      <4> QED
        BY <4>1, <4>2, <4>3
    <3> QED
      BY <3>1, <3>2, <3>3, <3>4, <3>5, <3>6, <3>7, <2>1 DEF IncrementalSoFar, Sending
  <2>2. clean # "incremental" => IncrementalSoFar'
    BY <1>10 DEF StageRemovals, IncrementalSoFar, files, staging, cycle, server, history, bounds
  <2> QED
    BY <2>1, <2>2
<1>11. ASSUME NEW f \in File, HashPartial(f) PROVE IncrementalSoFar'
  <2>1. clean # "incremental" /\ clean' = clean
    BY <1>11 DEF HashPartial, Moments, Sending, files, staging, cycle, server, history, bounds
  <2> QED
    BY <2>1 DEF IncrementalSoFar
<1>12. ASSUME FinishPartial PROVE IncrementalSoFar'
  <2>1. clean # "incremental" /\ clean' = clean
    BY <1>12 DEF FinishPartial, Moments, Sending, files, staging, cycle, server, history, bounds
  <2> QED
    BY <2>1 DEF IncrementalSoFar
<1>13. ASSUME NEW f \in File, HashFull(f) PROVE IncrementalSoFar'
  <2>1. clean # "incremental" /\ clean' = clean
    BY <1>13 DEF HashFull, Moments, Sending, files, staging, cycle, server, history, bounds
  <2> QED
    BY <2>1 DEF IncrementalSoFar
<1>14. ASSUME FinishFull PROVE IncrementalSoFar'
  <2>1. clean # "incremental" /\ clean' = clean
    BY <1>14 DEF FinishFull, Moments, Sending, files, staging, cycle, server, history, bounds
  <2> QED
    BY <2>1 DEF IncrementalSoFar
<1>15. ASSUME ScanFails PROVE IncrementalSoFar'
  <2>1. clean' = "no"
    BY <1>15 DEF ScanFails, Forget
  <2> QED
    BY <2>1 DEF IncrementalSoFar
<1>16. ASSUME NextChunk PROVE IncrementalSoFar'
  <2>1. pc = "drain" /\ pc' = "post"
    BY <1>16 DEF NextChunk
  <2>2. UNCHANGED <<clean, disk, staged, removal, cat>>
    BY <1>16 DEF NextChunk, files, staging, cycle, server, history, bounds
  <2> QED
    BY <2>1, <2>2 DEF IncrementalSoFar, Sending, Delivered, Pending, Leaving
<1>17. ASSUME Ack PROVE IncrementalSoFar'
  <2>1. pc = "ack" /\ pc' = "drain"
    BY <1>17 DEF Ack
  <2>2. UNCHANGED <<clean, disk, cat>>
    BY <1>17 DEF Ack, files, staging, cycle, server, history, bounds
  <2>3. \A u \in File : AckMove(u)
    BY <1>17, AckRows
  <2>4. \A u \in File : u \in flight.removed =>
            ~cat[u].present /\ Leaving(u) /\ (Pending(u) => removal[u].run < staged[u].run)
    BY <2>1 DEF AckedIsIngested, FlightIsStaged
  <2>5. \A u \in File : staged[u].run \in Nat /\ removal[u].run \in Nat
    BY DEF TypeOK
  <2>6. \A u \in File : Posted(u) => Pending(u)
    BY DEF Posted, FlightIsStaged
  <2>7. \A u \in File : staged'[u].mtime = staged[u].mtime /\ (Pending(u)' =>
            Pending(u) /\ staged'[u] = staged[u])
    BY <2>3 DEF AckMove, Pending
  <2>8. \A u \in File : Delivered(u) => Delivered(u)'
    <3>1. ASSUME NEW u \in File, Delivered(u), disk[u].on PROVE Delivered(u)'
      BY <3>1, <2>2, <2>7 DEF Delivered
    <3>2. ASSUME NEW u \in File, Delivered(u), ~disk[u].on,
        u \in flight.removed PROVE Delivered(u)'
      <4>1. ~Pending(u)
        BY <3>2, <2>4, <2>5, <2>6 DEF Delivered
      <4> QED
        BY <4>1, <3>2, <2>2, <2>4, <2>7 DEF Delivered
    <3>3. ASSUME NEW u \in File, Delivered(u), ~disk[u].on,
        u \notin flight.removed PROVE Delivered(u)'
      <4>1. removal'[u] = removal[u]
        BY <3>3, <2>3 DEF AckMove
      <4> QED
        BY <4>1, <3>3, <2>2, <2>7 DEF Delivered, Leaving
    <3> QED
      BY <3>1, <3>2, <3>3
  <2> QED
    BY <2>1, <2>2, <2>8 DEF IncrementalSoFar, Sending
<1>18. ASSUME GiveUp PROVE IncrementalSoFar'
  <2>1. clean' = "no"
    BY <1>18 DEF GiveUp
  <2> QED
    BY <2>1 DEF IncrementalSoFar
<1>19. ASSUME Crash PROVE IncrementalSoFar'
  <2>1. clean' = "no"
    BY <1>19 DEF Crash, Forget
  <2> QED
    BY <2>1 DEF IncrementalSoFar
<1>20. ASSUME Ingest PROVE IncrementalSoFar'
  <2>1. pc = "post" /\ pc' \in {"post", "ack"}
    BY <1>20 DEF Ingest
  <2>2. UNCHANGED <<clean, disk, staged, removal>>
    BY <1>20 DEF Ingest, files, staging, cycle, server, history, bounds
  <2>3. \A u \in File : IngestMove(u)
    BY <1>20, IngestRows
  <2>4. \A u \in File : Posted(u) => Pending(u)
    BY DEF Posted, FlightIsStaged
  <2>5. \A u \in File : ~Pending(u) /\ ~cat[u].present => ~cat'[u].present
    BY <2>3, <2>4 DEF IngestMove
  <2>6. \A u \in File : Delivered(u) => Delivered(u)'
    BY <2>2, <2>5 DEF Delivered, Pending, Leaving
  <2> QED
    BY <2>1, <2>2, <2>6 DEF IncrementalSoFar, Sending
<1>21. ASSUME Finalize PROVE IncrementalSoFar'
  <2>1. clean' = "no"
    BY <1>21 DEF Finalize
  <2> QED
    BY <2>1 DEF IncrementalSoFar
<1>22. ASSUME UNCHANGED vars PROVE UNCHANGED <<clean, pc, todo, disk, gone, staged, batch,
    removal, cat>>
  BY <1>22 DEF vars, files, staging, cycle, server, history, bounds
<1>23. ASSUME NEW skipped \in SUBSET todo, LeavesOut(skipped) PROVE IncrementalSoFar'
  BY <1>23 DEF LeavesOut, IncrementalSoFar
<1> QED
  BY <1>1, <1>2, <1>3, <1>4, <1>5, <1>6, <1>7, <1>8, <1>9, <1>10, <1>11, <1>12, <1>13, <1>14,
      <1>15, <1>16, <1>17, <1>18, <1>19, <1>20, <1>21, <1>22, <1>23, Steps

(* Until the disk changes the catalogue stays exact.                          *)
LEMMA StaysExactStep ==
    TypeOK /\ Moments /\ OneVisit /\ MtimesGrow /\ FlightIsStaged /\ NamesFollow
      /\ PushedIsIngested /\ NeverRemoved /\ RemovedBefore /\ IncrementalSoFar
      /\ StaysExact /\ [Next]_vars => StaysExact'
<1> SUFFICES ASSUME TypeOK, Moments, OneVisit, MtimesGrow, FlightIsStaged, NamesFollow,
    PushedIsIngested, NeverRemoved, RemovedBefore, IncrementalSoFar, StaysExact,
        [Next]_vars PROVE StaysExact'
  OBVIOUS
<1>1. CASE UNCHANGED <<exact, odd, disk, staged, removal, gone, batch, cat>>
  BY <1>1 DEF StaysExact, Settled, InCatalogue, Pending, Leaving
<1>2. ASSUME NEW f \in File, Remove(f) PROVE StaysExact'
  <2>1. exact' = {}
    BY <1>2 DEF Remove, Disturbed
  <2> QED
    BY <2>1 DEF StaysExact
<1>3. ASSUME NEW f \in File, Rewrite(f) PROVE StaysExact'
  <2>1. PICK m \in NewMtimes(f), c \in Content, p \in Path : Change(f, m, c, p)
    BY <1>3 DEF Rewrite
  <2>2. exact' = {}
    BY <2>1 DEF Change, Disturbed
  <2> QED
    BY <2>2 DEF StaysExact
<1>4. ASSUME NEW force \in BOOLEAN, StartCycle(force) PROVE StaysExact'
  <2>1. batch' = {} /\ gone' = {}
    BY <1>4 DEF StartCycle
  <2>2. UNCHANGED <<exact, odd, disk, staged, removal, cat>>
    BY <1>4 DEF StartCycle, files, staging, cycle, server, history, bounds
  <2> QED
    BY <2>1, <2>2 DEF StaysExact, Settled, InCatalogue, Pending, Leaving
<1>5. ASSUME NEW f \in File, Visit(f) PROVE StaysExact'
  <2>1. UNCHANGED <<exact, odd, disk, staged, removal, cat>>
    BY <1>5 DEF Visit, files, staging, cycle, server, history, bounds
  <2>2. \A u \in gone' : u \in gone \/ ~disk[u].on
    BY <1>5 DEF Visit, Listed
  <2>3. \A e \in batch' : e \in batch \/ disk[e.file].on
    BY <1>5 DEF Visit, Reported, Listed, _entry
  <2> QED
    BY <2>1, <2>2, <2>3 DEF StaysExact, Settled, InCatalogue, Pending, Leaving
<1>6. ASSUME Flush PROVE StaysExact'
  <2>1. \A u \in File : StageMove(u)
    BY <1>6, StageBatchRows DEF Flush
  <2>2. UNCHANGED <<exact, odd, disk, removal, cat, gone>>
    BY <1>6 DEF Flush, files, staging, cycle, server, history, bounds
  <2>3. batch' = {}
    BY <1>6 DEF Flush
  <2>4. \A e \in batch : e.file \in File /\ staged[e.file].mtime = disk[e.file].mtime =>
            e.mtime = staged[e.file].mtime
    <3>1. \A u \in File : cat[u].mtime \in Nat /\ staged[u].mtime \in Nat
              /\ disk[u].mtime \in Nat
      BY PipelineConstants DEF TypeOK, Mtime
    <3>2. \A e \in batch : e.file \in File /\ e.mtime \in Nat
      BY PipelineConstants DEF TypeOK, Entry, Mtime
    <3> QED
      BY <3>1, <3>2 DEF MtimesGrow
  <2>5. \A u \in File : staged[u].mtime = disk[u].mtime \/ (\A e \in batch : e.file # u) =>
            staged'[u] = staged[u]
    BY <2>1, <2>4 DEF StageMove, Restaged
  <2> QED
    BY <2>2, <2>3, <2>5 DEF StaysExact, Settled, InCatalogue, Pending, Leaving
<1>7. ASSUME StageDelta PROVE StaysExact'
  <2>1. \A u \in File : StageMove(u)
    BY <1>7, StageBatchRows DEF StageDelta
  <2>2. UNCHANGED <<exact, odd, disk, removal, cat, gone>>
    BY <1>7 DEF StageDelta, files, staging, cycle, server, history, bounds
  <2>3. batch' = {}
    BY <1>7 DEF StageDelta
  <2>4. \A e \in batch : e.file \in File /\ staged[e.file].mtime = disk[e.file].mtime =>
            e.mtime = staged[e.file].mtime
    <3>1. \A u \in File : cat[u].mtime \in Nat /\ staged[u].mtime \in Nat
              /\ disk[u].mtime \in Nat
      BY PipelineConstants DEF TypeOK, Mtime
    <3>2. \A e \in batch : e.file \in File /\ e.mtime \in Nat
      BY PipelineConstants DEF TypeOK, Entry, Mtime
    <3> QED
      BY <3>1, <3>2 DEF MtimesGrow
  <2>5. \A u \in File : staged[u].mtime = disk[u].mtime \/ (\A e \in batch : e.file # u) =>
            staged'[u] = staged[u]
    BY <2>1, <2>4 DEF StageMove, Restaged
  <2> QED
    BY <2>2, <2>3, <2>5 DEF StaysExact, Settled, InCatalogue, Pending, Leaving
<1>8. ASSUME StageRemovals PROVE StaysExact'
  <2>1. gone' = {} /\ \A u \in File : removal'[u] = removal[u] \/ u \in gone
    BY <1>8 DEF StageRemovals, stage_removals
  <2>2. UNCHANGED <<exact, odd, disk, staged, batch, cat>>
    BY <1>8 DEF StageRemovals, files, staging, cycle, server, history, bounds
  <2> QED
    BY <2>1, <2>2 DEF StaysExact, Settled, InCatalogue, Pending, Leaving
<1>9. ASSUME NEW f \in File, HashFull(f) PROVE StaysExact'
  <2>1. HashMove(f)
    BY <1>9, HashFullRows
  <2>2. UNCHANGED <<exact, odd, disk, removal, gone, batch, cat>>
    BY <1>9 DEF HashFull, files, staging, cycle, server, history, bounds
  <2>3. \A u \in File : staged'[u].mtime = staged[u].mtime /\ (staged'[u] = staged[u]
            \/ disk[u].on)
    BY <2>1 DEF HashMove, Readable
  <2> QED
    BY <2>2, <2>3 DEF StaysExact, Settled, InCatalogue, Pending, Leaving
<1>10. ASSUME ScanFails PROVE StaysExact'
  <2>1. batch' = {} /\ gone' = {}
    BY <1>10 DEF ScanFails, Forget
  <2>2. UNCHANGED <<exact, odd, disk, staged, removal, cat>>
    BY <1>10 DEF ScanFails, Forget, files, staging, cycle, server, history, bounds
  <2> QED
    BY <2>1, <2>2 DEF StaysExact, Settled, InCatalogue, Pending, Leaving
<1>11. ASSUME Ack PROVE StaysExact'
  <2>1. \A u \in File : AckMove(u)
    BY <1>11, AckRows
  <2>2. UNCHANGED <<exact, odd, disk, gone, batch, cat>>
    BY <1>11 DEF Ack, files, staging, cycle, server, history, bounds
  <2>3. \A u \in File : staged'[u].mtime = staged[u].mtime /\ (staged[u].pushed =>
            staged'[u].pushed) /\ (removal[u].pushed => removal'[u].pushed)
    BY <2>1 DEF AckMove
  <2> QED
    BY <2>2, <2>3 DEF StaysExact, Settled, InCatalogue, Pending, Leaving
<1>12. ASSUME Crash PROVE StaysExact'
  <2>1. batch' = {} /\ gone' = {}
    BY <1>12 DEF Crash, Forget
  <2>2. UNCHANGED <<exact, odd, disk, staged, removal, cat>>
    BY <1>12 DEF Crash, Forget, files, staging, cycle, server, history, bounds
  <2> QED
    BY <2>1, <2>2 DEF StaysExact, Settled, InCatalogue, Pending, Leaving
<1>13. ASSUME Ingest PROVE StaysExact'
  <2>1. \A u \in File : IngestMove(u)
    BY <1>13, IngestRows
  <2>2. UNCHANGED <<exact, odd, disk, staged, removal, gone, batch>>
    BY <1>13 DEF Ingest, files, staging, cycle, server, history, bounds
  <2>3. \A x \in flight.rows : x.file \in File /\ x.mtime = staged[x.file].mtime
            /\ x.path = staged[x.file].path /\ x.hash = staged[x.file].hash
    BY DEF FlightIsStaged, _row_to_entry
  <2>4. \A u \in File : (Posted(u) => Pending(u)) /\ (u \in flight.removed => Leaving(u))
    BY DEF Posted, FlightIsStaged
  <2>5. \A u \in File \ odd : disk[u].on /\ Settled(u) /\ Posted(u) =>
            cat'[u].mtime = disk[u].mtime /\ cat'[u].path = disk[u].path /\ cat'[u].present
    BY <2>1, <2>3 DEF IngestMove, Applied, Settled, InCatalogue, NamesFollow
  <2>6. \A u \in File \ odd : Settled(u) => InCatalogue(u)'
    BY <2>1, <2>2, <2>4, <2>5 DEF IngestMove, Settled, InCatalogue
  <2> QED
    BY <2>2, <2>6 DEF StaysExact, Settled, Pending, Leaving
<1>14. ASSUME Finalize PROVE StaysExact'
  <2>1. pc = "drain" /\ batch = {} /\ gone = {}
    BY <1>14 DEF Finalize, Moments
  <2>2. \A u \in File : ~Pending(u) /\ ~Leaving(u)
    BY <1>14 DEF Finalize, PendingRuns, Unpushed, UnpushedRemovals, Pending, Leaving
  <2>3. UNCHANGED <<odd, disk, staged, removal, gone, batch, cat>>
    BY <1>14 DEF Finalize, files, staging, cycle, server, history, bounds
  <2>4. "incremental" \in exact' => "incremental" \in exact \/ clean = "incremental"
    BY <1>14 DEF Finalize, Completed
  <2>5. \A u \in File \ odd : disk[u].on /\ staged[u].mtime = disk[u].mtime =>
            cat[u].mtime = disk[u].mtime /\ cat[u].path = disk[u].path /\ cat[u].present
    <3>1. \A u \in File : disk[u].mtime # 0
      BY DEF TypeOK
    <3>2. \A u \in File : cat[u].mtime = staged[u].mtime /\ cat[u].path = staged[u].path
      BY <2>2 DEF PushedIsIngested, Pending
    <3>3. \A u \in File \ odd : disk[u].on /\ staged[u].mtime = disk[u].mtime => cat[u].present
      BY <3>1, <3>2, <2>2 DEF NeverRemoved, RemovedBefore
    <3> QED
      BY <3>1, <3>2, <3>3 DEF NamesFollow
  <2>6. clean = "incremental" => \A u \in File \ odd : Settled(u)
    <3>1. clean = "incremental" => \A u \in File : Delivered(u)
      BY <2>1 DEF IncrementalSoFar, Sending
    <3> QED
      BY <3>1, <2>1, <2>2, <2>5 DEF Delivered, Settled, InCatalogue
  <2>7. "incremental" \in exact' => \A u \in File \ odd : Settled(u)
    BY <2>4, <2>6 DEF StaysExact
  <2> QED
    BY <2>3, <2>7 DEF StaysExact, Settled, InCatalogue, Pending, Leaving
<1>15. ASSUME FinishWalk \/ should_block_fullbit \/ FinishPartial \/ FinishFull \/ NextChunk
           \/ GiveUp \/ UNCHANGED vars
       PROVE  UNCHANGED <<exact, odd, disk, staged, removal, gone, batch, cat>>
  BY <1>15 DEF FinishWalk, finish_run, should_block_fullbit, FinishPartial, FinishFull,
      NextChunk, GiveUp, vars, files, staging, cycle, server, history, bounds
<1>16. ASSUME NEW f \in File, HashPartial(f) PROVE UNCHANGED <<exact, odd, disk, staged,
    removal, gone, batch, cat>>
  BY <1>16 DEF HashPartial, files, staging, cycle, server, history, bounds
<1>17. ASSUME NEW skipped \in SUBSET todo, LeavesOut(skipped) PROVE StaysExact'
  <2>1. UNCHANGED <<exact, disk, staged, removal, batch, cat>> /\ odd \subseteq odd'
    BY <1>17 DEF LeavesOut
  <2> QED
    BY <1>17, <2>1, SkippedIsLost DEF StaysExact, Settled, InCatalogue, Pending, Leaving
<1> QED
  BY <1>1, <1>2, <1>3, <1>4, <1>5, <1>6, <1>7, <1>8, <1>9, <1>10, <1>11, <1>12, <1>13, <1>14,
      <1>15, <1>16, <1>17, Steps

(* A duplicate has a duplicate.                                               *)
LEMMA TwinHasTwin ==
    ASSUME NEW f \in File, Twin(f)
    PROVE  \E t \in File : t # f /\ Twin(t) /\ disk[t].content = disk[f].content
  BY DEF Twin

(* Two files with the same size make both of them candidates.                 *)
LEMMA TwoAreCandidates ==
    ASSUME NEW f \in Known, NEW t \in Known, f # t
    PROVE  f \in Candidates
<1>1. IsFiniteSet(Known)
  BY PipelineConstants, FS_Subset DEF Known
<1>2. Cardinality({f}) = 1 /\ IsFiniteSet({f})
  BY FS_Singleton
<1>3. Cardinality({f} \cup {t}) = Cardinality({f}) + 1 /\ IsFiniteSet({f} \cup {t})
  BY <1>2, FS_AddElement
<1>4. Cardinality({f} \cup {t}) <= Cardinality(Known)
  BY <1>1, FS_Subset
<1>5. Cardinality(Known) \in Nat
  BY <1>1, FS_CardinalityType
<1> QED
  BY <1>2, <1>3, <1>4, <1>5 DEF Candidates

(* What a full-bit cycle has done so far.                                     *)
LEMMA HashedSoFarStep ==
    TypeOK /\ Moments /\ OneVisit /\ MtimesGrow /\ FlightIsStaged
      /\ AckedIsIngested /\ NamesFollow /\ HashedSoFar /\ [Next]_vars => HashedSoFar'
<1> SUFFICES ASSUME TypeOK, Moments, OneVisit, MtimesGrow, FlightIsStaged, AckedIsIngested,
    NamesFollow, HashedSoFar, [Next]_vars PROVE HashedSoFar'
  OBVIOUS
<1>1. CASE UNCHANGED <<clean, pc, disk, todo, staged, batch, odd, partial, fullbit, cat>>
  BY <1>1 DEF HashedSoFar, Twin, Pending
<1>2. ASSUME NEW f \in File, Remove(f) PROVE HashedSoFar'
  <2>1. clean' = "no"
    BY <1>2 DEF Remove, Disturbed
  <2> QED
    BY <2>1 DEF HashedSoFar
<1>3. ASSUME NEW f \in File, Rewrite(f) PROVE HashedSoFar'
  <2>1. PICK m \in NewMtimes(f), c \in Content, p \in Path : Change(f, m, c, p)
    BY <1>3 DEF Rewrite
  <2>2. clean' = "no"
    BY <2>1 DEF Change, Disturbed
  <2> QED
    BY <2>2 DEF HashedSoFar
<1>4. ASSUME NEW force \in BOOLEAN, StartCycle(force) PROVE HashedSoFar'
  <2>1. todo' = File /\ (clean' = "full" => pc' = "walk")
    BY <1>4 DEF StartCycle
  <2> QED
    BY <2>1 DEF HashedSoFar, Sending
<1>5. ASSUME NEW f \in File, Visit(f) PROVE HashedSoFar'
  <2>1. ASSUME clean = "full" PROVE HashedSoFar'
    <3>1. pc = "walk"
      BY <1>5, <2>1 DEF Visit, Moments, Sending
    <3>2. UNCHANGED <<pc, disk, staged, clean>>
      BY <1>5 DEF Visit, files, staging, cycle, server, history, bounds
    <3>3. /\ todo' = todo \ {f}
          /\ batch' = IF disk[f].on THEN batch \cup {_entry(f)} ELSE batch
      BY <1>5, <3>1 DEF Visit, Listed, Reported
    <3>4. _entry(f).file = f /\ _entry(f).mtime = disk[f].mtime
      BY DEF _entry
    <3> QED
      BY <3>1, <3>2, <3>3, <3>4, <2>1 DEF HashedSoFar, Sending
  <2>2. clean # "full" => HashedSoFar'
    BY <1>5 DEF Visit, HashedSoFar, files, staging, cycle, server, history, bounds
  <2> QED
    BY <2>1, <2>2
<1>6. ASSUME Flush PROVE HashedSoFar'
  <2>1. ASSUME clean = "full" PROVE HashedSoFar'
    <3>1. pc = "walk"
      BY <1>6 DEF Flush
    <3>2. UNCHANGED <<pc, disk, todo, clean>>
      BY <1>6 DEF Flush, files, staging, cycle, server, history, bounds
    <3>3. \A u \in File : StageMove(u)
      BY <1>6, StageBatchRows DEF Flush
    <3>4. \A e \in batch : e.file \in File /\ staged[e.file].mtime = disk[e.file].mtime =>
              e.mtime = staged[e.file].mtime
      <4>1. \A u \in File : cat[u].mtime \in Nat /\ staged[u].mtime \in Nat
                /\ disk[u].mtime \in Nat
        BY PipelineConstants DEF TypeOK, Mtime
      <4>2. \A e \in batch : e.file \in File /\ e.mtime \in Nat
        BY PipelineConstants DEF TypeOK, Entry, Mtime
      <4> QED
        BY <4>1, <4>2 DEF MtimesGrow
    <3>5. \A u \in File : staged[u].mtime = disk[u].mtime => staged'[u].mtime = disk[u].mtime
      BY <3>3, <3>4 DEF StageMove, Restaged
    <3>6. \A u \in File : (\E e \in batch : e.file = u /\ e.mtime = disk[u].mtime) =>
              staged'[u].mtime = disk[u].mtime
      BY <3>3 DEF StageMove, Restaged, OneVisit
    <3>7. \A u \in File : disk[u].on /\ u \notin todo => staged'[u].mtime = disk[u].mtime
      BY <2>1, <3>1, <3>5, <3>6 DEF HashedSoFar
    <3> QED
      BY <3>1, <3>2, <3>3, <3>4, <3>5, <3>6, <3>7 DEF HashedSoFar, Sending
  <2>2. clean # "full" => HashedSoFar'
    BY <1>6 DEF Flush, HashedSoFar, files, staging, cycle, server, history, bounds
  <2> QED
    BY <2>1, <2>2
<1>7. ASSUME FinishWalk PROVE HashedSoFar'
  <2>1. ASSUME clean = "full" PROVE HashedSoFar'
    <3>1. pc = "walk" /\ todo = {} /\ batch = {}
      BY <1>7 DEF FinishWalk
    <3>2. UNCHANGED <<fullbit, disk, odd, staged, clean>>
      BY <1>7 DEF FinishWalk, finish_run, files, staging, cycle, server, history, bounds
    <3>3. \A u \in File : disk[u].on => staged[u].mtime = disk[u].mtime
      BY <2>1, <3>1 DEF HashedSoFar
    <3>4. \A u \in File : disk[u].on => u \in Known
      BY <3>3 DEF Known, TypeOK
    <3>5. \A u \in File : Twin(u) => u \in Candidates
      <4>1. SUFFICES ASSUME NEW u \in File, Twin(u) PROVE u \in Candidates
        OBVIOUS
      <4>2. PICK t \in File : t # u /\ Twin(t)
        BY <4>1, TwinHasTwin
      <4>3. u \in Known /\ t \in Known
        BY <4>1, <4>2, <3>4 DEF Twin
      <4> QED
        BY <4>1, <4>2, <4>3, TwoAreCandidates
    <3>6. (pc' = "partial" /\ todo' = Candidates) \/ (pc' = "drain" /\ ~fullbit)
      BY <1>7 DEF FinishWalk
    <3>7. \A u \in File : Twin(u)' <=> Twin(u)
      BY <3>2 DEF Twin
    <3> QED
      BY <3>1, <3>2, <3>3, <3>4, <3>5, <3>6, <3>7 DEF HashedSoFar, Sending
  <2>2. clean # "full" => HashedSoFar'
    BY <1>7 DEF FinishWalk, HashedSoFar, files, staging, cycle, server, history, bounds
  <2> QED
    BY <2>1, <2>2
<1>8. ASSUME should_block_fullbit PROVE HashedSoFar'
  <2>1. clean' = "no"
    BY <1>8 DEF should_block_fullbit, finish_run
  <2> QED
    BY <2>1 DEF HashedSoFar
<1>9. ASSUME StageDelta PROVE HashedSoFar'
  <2>1. clean # "full" /\ clean' = clean
    BY <1>9 DEF StageDelta, Moments, Sending, files, staging, cycle, server, history, bounds
  <2> QED
    BY <2>1 DEF HashedSoFar
<1>10. ASSUME StageRemovals PROVE HashedSoFar'
  <2>1. clean # "full" /\ clean' = clean
    BY <1>10 DEF StageRemovals, Moments, Sending, files, staging, cycle, server, history, bounds
  <2> QED
    BY <2>1 DEF HashedSoFar
<1>11. ASSUME NEW f \in File, HashPartial(f) PROVE HashedSoFar'
  <2>1. ASSUME clean = "full" PROVE HashedSoFar'
    <3>1. pc = "partial" /\ todo' = todo \ {f}
      BY <1>11 DEF HashPartial
    <3>2. UNCHANGED <<pc, fullbit, disk, odd, staged, clean>>
      BY <1>11 DEF HashPartial, files, staging, cycle, server, history, bounds
    <3>3. \A u \in File : Twin(u) => Readable(u)
      BY <2>1, <3>1 DEF HashedSoFar, Twin, Readable, NamesFollow
    <3>4. /\ Readable(f) => partial'[f] = Partial[disk[f].content]
          /\ \A u \in File : u # f => partial'[u] = partial[u]
      BY <1>11 DEF HashPartial, partial_digest, TypeOK
    <3>5. \A u \in File : Twin(u)' <=> Twin(u)
      BY <3>2 DEF Twin
    <3> QED
      BY <3>1, <3>2, <3>3, <3>4, <3>5, <2>1 DEF HashedSoFar, Sending
  <2>2. clean # "full" => HashedSoFar'
    BY <1>11 DEF HashPartial, HashedSoFar, files, staging, cycle, server, history, bounds
  <2> QED
    BY <2>1, <2>2
<1>12. ASSUME FinishPartial PROVE HashedSoFar'
  <2>1. ASSUME clean = "full" PROVE HashedSoFar'
    <3>1. pc = "partial" /\ todo = {} /\ pc' = "full" /\ todo' = Colliders
      BY <1>12 DEF FinishPartial
    <3>2. UNCHANGED <<fullbit, disk, odd, staged, clean>>
      BY <1>12 DEF FinishPartial, files, staging, cycle, server, history, bounds
    <3>3. \A u \in File : Twin(u) =>
              partial[u] = Partial[disk[u].content] /\ partial[u] # NoHash
      BY <2>1, <3>1, PipelineConstants DEF HashedSoFar, TypeOK
    <3>4. \A u \in File : Twin(u) => u \in Colliders
      <4>1. SUFFICES ASSUME NEW u \in File, Twin(u) PROVE u \in Colliders
        OBVIOUS
      <4>2. PICK t \in File : t # u /\ Twin(t) /\ disk[t].content = disk[u].content
        BY <4>1, TwinHasTwin
      <4> QED
        BY <4>1, <4>2, <3>3 DEF Colliders
    <3>5. \A u \in File : Twin(u)' <=> Twin(u)
      BY <3>2 DEF Twin
    <3> QED
      BY <3>1, <3>2, <3>3, <3>4, <3>5, <2>1 DEF HashedSoFar, Sending
  <2>2. clean # "full" => HashedSoFar'
    BY <1>12 DEF FinishPartial, HashedSoFar, files, staging, cycle, server, history, bounds
  <2> QED
    BY <2>1, <2>2
<1>13. ASSUME NEW f \in File, HashFull(f) PROVE HashedSoFar'
  <2>1. ASSUME clean = "full" PROVE HashedSoFar'
    <3>1. pc = "full" /\ todo' = todo \ {f}
      BY <1>13 DEF HashFull
    <3>2. UNCHANGED <<pc, fullbit, disk, odd, clean>>
      BY <1>13 DEF HashFull, files, staging, cycle, server, history, bounds
    <3>3. \A u \in File : Twin(u) => Readable(u)
      BY <2>1, <3>1 DEF HashedSoFar, Twin, Readable, NamesFollow
    <3>4. HashMove(f)
      BY <1>13, HashFullRows
    <3>5. \A u \in File : staged'[u].mtime = staged[u].mtime
      BY <3>4 DEF HashMove
    <3>6. Twin(f) => /\ staged'[f].hash = disk[f].content /\ staged'[f].pushed = FALSE
                     /\ staged'[f].mode = "fullbit"
      BY <3>3, <3>4 DEF HashMove
    <3>7. \A u \in File : u # f => staged'[u] = staged[u]
      BY <3>4 DEF HashMove
    <3>8. \A u \in File : Twin(u)' <=> Twin(u)
      BY <3>2 DEF Twin
    <3> QED
      BY <3>1, <3>2, <3>3, <3>4, <3>5, <3>6, <3>7, <3>8, <2>1 DEF HashedSoFar, Sending, Pending
  <2>2. clean # "full" => HashedSoFar'
    BY <1>13 DEF HashFull, HashedSoFar, files, staging, cycle, server, history, bounds
  <2> QED
    BY <2>1, <2>2
<1>14. ASSUME FinishFull PROVE HashedSoFar'
  <2>1. ASSUME clean = "full" PROVE HashedSoFar'
    <3>1. pc = "full" /\ todo = {} /\ pc' = "drain"
      BY <1>14 DEF FinishFull
    <3>2. UNCHANGED <<fullbit, disk, odd, staged, clean>>
      BY <1>14 DEF FinishFull, files, staging, cycle, server, history, bounds
    <3>3. \A u \in File : Twin(u)' <=> Twin(u)
      BY <3>2 DEF Twin
    <3> QED
      BY <3>1, <3>2, <3>3, <2>1 DEF HashedSoFar, Sending, Pending
  <2>2. clean # "full" => HashedSoFar'
    BY <1>14 DEF FinishFull, HashedSoFar, files, staging, cycle, server, history, bounds
  <2> QED
    BY <2>1, <2>2
<1>15. ASSUME ScanFails PROVE HashedSoFar'
  <2>1. clean' = "no"
    BY <1>15 DEF ScanFails, Forget
  <2> QED
    BY <2>1 DEF HashedSoFar
<1>16. ASSUME NextChunk PROVE HashedSoFar'
  <2>1. pc = "drain" /\ pc' = "post"
    BY <1>16 DEF NextChunk
  <2>2. UNCHANGED <<fullbit, clean, disk, odd, staged, cat>>
    BY <1>16 DEF NextChunk, files, staging, cycle, server, history, bounds
  <2>3. \A u \in File : Twin(u)' <=> Twin(u)
    BY <2>2 DEF Twin
  <2> QED
    BY <2>1, <2>2, <2>3 DEF HashedSoFar, Sending, Pending
<1>17. ASSUME Ack PROVE HashedSoFar'
  <2>1. pc = "ack" /\ pc' = "drain"
    BY <1>17 DEF Ack
  <2>2. UNCHANGED <<fullbit, clean, disk, odd, cat>>
    BY <1>17 DEF Ack, files, staging, cycle, server, history, bounds
  <2>3. \A u \in File : AckMove(u)
    BY <1>17, AckRows
  <2>4. \A u \in File : staged'[u].mtime = staged[u].mtime /\ staged'[u].hash = staged[u].hash
    BY <2>3 DEF AckMove
  <2>5. \A u \in File : ~Posted(u) => staged'[u] = staged[u]
    BY <2>3 DEF AckMove
  <2>6. \A u \in File : Posted(u) =>
            Pending(u) /\ ~Pending(u)' /\ (staged[u].mode = "fullbit" =>
                cat[u].hash = staged[u].hash)
    <3>1. SUFFICES ASSUME NEW u \in File, Posted(u)
                       PROVE  Pending(u) /\ ~Pending(u)' /\ (staged[u].mode = "fullbit" =>
                           cat[u].hash = staged[u].hash)
      OBVIOUS
    <3>2. PICK x \in flight.rows : x.file = u
      BY <3>1 DEF Posted
    <3>3. /\ Pending(u) /\ staged[u].mode = flight.mode /\ x.hash = staged[u].hash
          /\ flight.mode = "fullbit" => cat[u].hash = x.hash
      BY <3>2, <2>1 DEF FlightIsStaged, AckedIsIngested, _row_to_entry
    <3> QED
      BY <3>1, <3>2, <3>3, <2>3 DEF AckMove, Pending
  <2>7. \A u \in File : Twin(u)' <=> Twin(u)
    BY <2>2 DEF Twin
  <2> QED
    BY <2>1, <2>2, <2>4, <2>5, <2>6, <2>7 DEF HashedSoFar, Sending, Pending
<1>18. ASSUME GiveUp PROVE HashedSoFar'
  <2>1. clean' = "no"
    BY <1>18 DEF GiveUp
  <2> QED
    BY <2>1 DEF HashedSoFar
<1>19. ASSUME Crash PROVE HashedSoFar'
  <2>1. clean' = "no"
    BY <1>19 DEF Crash, Forget
  <2> QED
    BY <2>1 DEF HashedSoFar
<1>20. ASSUME Ingest PROVE HashedSoFar'
  <2>1. pc = "post" /\ pc' \in {"post", "ack"}
    BY <1>20 DEF Ingest
  <2>2. UNCHANGED <<fullbit, clean, disk, odd, staged>>
    BY <1>20 DEF Ingest, files, staging, cycle, server, history, bounds
  <2>3. \A u \in File : IngestMove(u)
    BY <1>20, IngestRows
  <2>4. \A u \in File : Posted(u) => Pending(u)
    BY DEF Posted, FlightIsStaged
  <2>5. \A u \in File : ~Pending(u) => cat'[u].hash = cat[u].hash
    BY <2>3, <2>4 DEF IngestMove
  <2>6. \A u \in File : Twin(u)' <=> Twin(u)
    BY <2>2 DEF Twin
  <2> QED
    BY <2>1, <2>2, <2>5, <2>6 DEF HashedSoFar, Sending, Pending
<1>21. ASSUME Finalize PROVE HashedSoFar'
  <2>1. clean' = "no"
    BY <1>21 DEF Finalize
  <2> QED
    BY <2>1 DEF HashedSoFar
<1>22. ASSUME UNCHANGED vars PROVE UNCHANGED <<clean, pc, disk, todo, staged, batch, odd,
    partial, fullbit, cat>>
  BY <1>22 DEF vars, files, staging, cycle, server, history, bounds
<1>23. ASSUME NEW skipped \in SUBSET todo, LeavesOut(skipped) PROVE HashedSoFar'
  BY <1>23 DEF LeavesOut, HashedSoFar
<1> QED
  BY <1>1, <1>2, <1>3, <1>4, <1>5, <1>6, <1>7, <1>8, <1>9, <1>10, <1>11, <1>12, <1>13, <1>14,
      <1>15, <1>16, <1>17, <1>18, <1>19, <1>20, <1>21, <1>22, <1>23, Steps

(* Until the disk changes the duplicates stay grouped.                        *)
LEMMA StaysHashedStep ==
    TypeOK /\ Moments /\ OneVisit /\ MtimesGrow /\ StagedFirst /\ FlightIsStaged
      /\ NamesFollow /\ PushedIsIngested /\ NeverRemoved /\ RemovedBefore
      /\ HashedSoFar /\ StaysHashed /\ [Next]_vars => StaysHashed'
<1> SUFFICES ASSUME TypeOK, Moments, OneVisit, MtimesGrow, StagedFirst, FlightIsStaged,
    NamesFollow, PushedIsIngested, NeverRemoved, RemovedBefore, HashedSoFar, StaysHashed,
        [Next]_vars PROVE StaysHashed'
  OBVIOUS
<1>1. CASE UNCHANGED <<exact, odd, disk, staged, cat, groups>>
  BY <1>1 DEF StaysHashed, Twin
<1>2. ASSUME NEW f \in File, Remove(f) PROVE StaysHashed'
  <2>1. exact' = {}
    BY <1>2 DEF Remove, Disturbed
  <2> QED
    BY <2>1 DEF StaysHashed
<1>3. ASSUME NEW f \in File, Rewrite(f) PROVE StaysHashed'
  <2>1. PICK m \in NewMtimes(f), c \in Content, p \in Path : Change(f, m, c, p)
    BY <1>3 DEF Rewrite
  <2>2. exact' = {}
    BY <2>1 DEF Change, Disturbed
  <2> QED
    BY <2>2 DEF StaysHashed
<1>4. ASSUME Flush PROVE StaysHashed'
  <2>1. \A u \in File : StageMove(u)
    BY <1>4, StageBatchRows DEF Flush
  <2>2. UNCHANGED <<exact, odd, disk, cat, groups>>
    BY <1>4 DEF Flush, files, staging, cycle, server, history, bounds
  <2>3. \A e \in batch : e.file \in File /\ staged[e.file].mtime = disk[e.file].mtime =>
            e.mtime = staged[e.file].mtime
    <3>1. \A u \in File : cat[u].mtime \in Nat /\ staged[u].mtime \in Nat
              /\ disk[u].mtime \in Nat
      BY PipelineConstants DEF TypeOK, Mtime
    <3>2. \A e \in batch : e.file \in File /\ e.mtime \in Nat
      BY PipelineConstants DEF TypeOK, Entry, Mtime
    <3> QED
      BY <3>1, <3>2 DEF MtimesGrow
  <2>4. \A u \in File : staged[u].mtime = disk[u].mtime => staged'[u] = staged[u]
    BY <2>1, <2>3 DEF StageMove, Restaged
  <2>5. \A u \in File : Twin(u)' <=> Twin(u)
    BY <2>2 DEF Twin
  <2> QED
    BY <2>2, <2>4, <2>5 DEF StaysHashed
<1>5. ASSUME StageDelta PROVE StaysHashed'
  <2>1. \A u \in File : StageMove(u)
    BY <1>5, StageBatchRows DEF StageDelta
  <2>2. UNCHANGED <<exact, odd, disk, cat, groups>>
    BY <1>5 DEF StageDelta, files, staging, cycle, server, history, bounds
  <2>3. \A e \in batch : e.file \in File /\ staged[e.file].mtime = disk[e.file].mtime =>
            e.mtime = staged[e.file].mtime
    <3>1. \A u \in File : cat[u].mtime \in Nat /\ staged[u].mtime \in Nat
              /\ disk[u].mtime \in Nat
      BY PipelineConstants DEF TypeOK, Mtime
    <3>2. \A e \in batch : e.file \in File /\ e.mtime \in Nat
      BY PipelineConstants DEF TypeOK, Entry, Mtime
    <3> QED
      BY <3>1, <3>2 DEF MtimesGrow
  <2>4. \A u \in File : staged[u].mtime = disk[u].mtime => staged'[u] = staged[u]
    BY <2>1, <2>3 DEF StageMove, Restaged
  <2>5. \A u \in File : Twin(u)' <=> Twin(u)
    BY <2>2 DEF Twin
  <2> QED
    BY <2>2, <2>4, <2>5 DEF StaysHashed
<1>6. ASSUME NEW f \in File, HashFull(f) PROVE StaysHashed'
  <2>1. HashMove(f)
    BY <1>6, HashFullRows
  <2>2. UNCHANGED <<exact, odd, disk, cat, groups>>
    BY <1>6 DEF HashFull, files, staging, cycle, server, history, bounds
  <2>3. \A u \in File : staged'[u].mtime = staged[u].mtime
            /\ (staged'[u].hash = staged[u].hash \/ staged'[u].hash = disk[u].content)
    BY <2>1 DEF HashMove
  <2>4. \A u \in File : Twin(u)' <=> Twin(u)
    BY <2>2 DEF Twin
  <2> QED
    BY <2>2, <2>3, <2>4 DEF StaysHashed
<1>7. ASSUME Ack PROVE StaysHashed'
  <2>1. \A u \in File : AckMove(u)
    BY <1>7, AckRows
  <2>2. UNCHANGED <<exact, odd, disk, cat, groups>>
    BY <1>7 DEF Ack, files, staging, cycle, server, history, bounds
  <2>3. \A u \in File : staged'[u].mtime = staged[u].mtime /\ staged'[u].hash = staged[u].hash
    BY <2>1 DEF AckMove
  <2>4. \A u \in File : Twin(u)' <=> Twin(u)
    BY <2>2 DEF Twin
  <2> QED
    BY <2>2, <2>3, <2>4 DEF StaysHashed
<1>8. ASSUME Ingest PROVE StaysHashed'
  <2>1. \A u \in File : IngestMove(u)
    BY <1>8, IngestRows
  <2>2. UNCHANGED <<exact, odd, disk, staged, groups>>
    BY <1>8 DEF Ingest, files, staging, cycle, server, history, bounds
  <2>3. \A x \in flight.rows : x.file \in File /\ x.mtime = staged[x.file].mtime
            /\ x.path = staged[x.file].path /\ x.hash = staged[x.file].hash
    BY DEF FlightIsStaged, _row_to_entry
  <2>4. "hashed" \in exact => \A u \in File : Twin(u) => u \notin flight.removed
    BY DEF Moments, FlightIsStaged, NeverRemoved, Twin
  <2>5. \A u \in File : cat[u].present => cat[u].mtime # 0
    BY DEF StagedFirst
  <2>6. \A u \in File : cat[u].present /\ u \notin flight.removed => cat'[u].present
    BY <2>1 DEF IngestMove, Applied
  <2>7. \A u \in File : cat[u].present =>
            cat'[u].hash = cat[u].hash \/ cat'[u].hash = staged[u].hash
    BY <2>1, <2>3, <2>5 DEF IngestMove, Applied
  <2>8. \A u \in File : Twin(u)' <=> Twin(u)
    BY <2>2 DEF Twin
  <2> QED
    BY <2>2, <2>4, <2>6, <2>7, <2>8 DEF StaysHashed
<1>9. ASSUME Finalize PROVE StaysHashed'
  <2>1. pc = "drain"
    BY <1>9 DEF Finalize
  <2>2. \A u \in File : ~Pending(u) /\ ~Leaving(u)
    BY <1>9 DEF Finalize, PendingRuns, Unpushed, UnpushedRemovals, Pending, Leaving
  <2>3. UNCHANGED <<odd, disk, staged, cat>>
    BY <1>9 DEF Finalize, files, staging, cycle, server, history, bounds
  <2>4. "hashed" \in exact' => "hashed" \in exact \/ (clean = "full" /\ fullbit)
    BY <1>9 DEF Finalize, Completed
  <2>5. \A u \in File \ odd : disk[u].on /\ staged[u].mtime = disk[u].mtime =>
            cat[u].mtime = disk[u].mtime /\ cat[u].path = disk[u].path /\ cat[u].present
    <3>1. \A u \in File : disk[u].mtime # 0
      BY DEF TypeOK
    <3>2. \A u \in File : cat[u].mtime = staged[u].mtime /\ cat[u].path = staged[u].path
      BY <2>2 DEF PushedIsIngested, Pending
    <3>3. \A u \in File \ odd : disk[u].on /\ staged[u].mtime = disk[u].mtime => cat[u].present
      BY <3>1, <3>2, <2>2 DEF NeverRemoved, RemovedBefore
    <3> QED
      BY <3>1, <3>2, <3>3 DEF NamesFollow
  <2>6. clean = "full" /\ fullbit =>
            \A u \in File : Twin(u) =>
                staged[u].mtime = disk[u].mtime /\ staged[u].hash = disk[u].content
                    /\ cat[u].present /\ cat[u].hash = disk[u].content
    <3>1. clean = "full" /\ fullbit => \A u \in File : Twin(u) => 
          staged[u].mtime = disk[u].mtime /\ staged[u].hash = disk[u].content
              /\ cat[u].hash = disk[u].content
      BY <2>1, <2>2 DEF HashedSoFar, Sending, Twin
    <3> QED
      BY <3>1, <2>5 DEF Twin
  <2>7. "hashed" \in exact' =>
            \A u \in File : Twin(u) =>
                staged[u].mtime = disk[u].mtime /\ staged[u].hash = disk[u].content
                    /\ cat[u].present /\ cat[u].hash = disk[u].content
    BY <2>4, <2>6 DEF StaysHashed
  <2>8. \/ groups' = groups /\ exact' = exact
        \/ groups' = groups /\ \A u \in File : cat[u].hash = NoHash
        \/ \A u \in File : groups'[u] = GroupOf(u)
    BY <1>9 DEF Finalize
  <2>9. \A u \in File : disk[u].content # NoHash
    BY PipelineConstants DEF TypeOK
  <2>10. "hashed" \in exact' => \A u \in File : Twin(u) => GroupOf(u) = disk[u].content
    <3>1. SUFFICES ASSUME "hashed" \in exact', NEW u \in File,
        Twin(u) PROVE GroupOf(u) = disk[u].content
      OBVIOUS
    <3>2. PICK t \in File : t # u /\ Twin(t) /\ disk[t].content = disk[u].content
      BY <3>1, TwinHasTwin
    <3>3. u \in Hashed /\ t \in Hashed \ {u} /\ cat[t].hash = cat[u].hash
              /\ cat[u].hash = disk[u].content
      BY <3>1, <3>2, <2>7, <2>9 DEF Hashed
    <3> QED
      BY <3>1, <3>2, <3>3 DEF GroupOf
  <2>11. "hashed" \in exact' => \A u \in File : Twin(u) => groups'[u] = disk[u].content
    BY <2>7, <2>8, <2>9, <2>10 DEF StaysHashed
  <2>12. \A u \in File : Twin(u)' <=> Twin(u)
    BY <2>3 DEF Twin
  <2> QED
    BY <2>3, <2>7, <2>11, <2>12 DEF StaysHashed
<1>10. ASSUME NEW force \in BOOLEAN, StartCycle(force) PROVE UNCHANGED <<exact, odd, disk,
    staged, cat, groups>>
  BY <1>10 DEF StartCycle, files, staging, cycle, server, history, bounds
<1>11. ASSUME NEW f \in File, Visit(f) \/ HashPartial(f) PROVE UNCHANGED <<exact, odd, disk,
    staged, cat, groups>>
  BY <1>11 DEF Visit, HashPartial, files, staging, cycle, server, history, bounds
<1>12. ASSUME FinishWalk \/ should_block_fullbit \/ StageRemovals \/ FinishPartial
           \/ FinishFull \/ ScanFails \/ NextChunk \/ GiveUp \/ Crash \/ UNCHANGED vars
       PROVE  UNCHANGED <<exact, odd, disk, staged, cat, groups>>
  BY <1>12 DEF FinishWalk, finish_run, should_block_fullbit, StageRemovals, FinishPartial,
      FinishFull, ScanFails, Forget, NextChunk, GiveUp, Crash, vars, files, staging, cycle,
          server, history, bounds
<1>13. ASSUME NEW skipped \in SUBSET todo, LeavesOut(skipped) PROVE StaysHashed'
  BY <1>13 DEF LeavesOut, StaysHashed, Twin
<1> QED
  BY <1>1, <1>2, <1>3, <1>4, <1>5, <1>6, <1>7, <1>8, <1>9, <1>10, <1>11, <1>12, <1>13, Steps
-----------------------------------------------------------------------------
(* The invariant, and what follows from it.                                   *)

(* Nothing is staged, posted or catalogued at first.                          *)
LEMMA InitIInv == Init => IInv
<1> SUFFICES ASSUME Init PROVE IInv
  OBVIOUS
<1> DEFINE c0 == CHOOSE c \in Content : TRUE
<1>1. c0 \in Content
  BY PipelineConstants
<1> HIDE DEF c0
<1>2. disk = [f \in File |-> [on |-> TRUE, mtime |-> 1, path |-> 1, content |-> c0]]
  BY DEF Init, c0
<1>3. 0 \in Mtime /\ 1 \in Mtime /\ NoHash \in Hash /\ 1 \in Path /\ "metadata" \in Mode
  BY PipelineConstants DEF Mtime, Hash, Path, Mode
<1>4. disk \in [File -> [on : BOOLEAN, mtime : Mtime \ {0}, content : Content, path : Path]]
  BY <1>1, <1>2, <1>3
<1>5. staged \in [File -> [mtime : Mtime, path : Path, hash : Hash,
                           run : Nat, mode : Mode, pushed : BOOLEAN]]
  BY <1>3 DEF Init
<1>6. cat \in [File -> [mtime : Mtime, path : Path, present : BOOLEAN, hash : Hash]]
  BY <1>3 DEF Init, NoRow
<1>7. /\ flight.mode \in Mode /\ flight.rows = {} /\ flight.removed = {} /\ flight = NoFlight
      /\ flight.mode = "metadata"
  BY <1>3 DEF Init, NoFlight
<1>8. /\ groups \in [File -> Hash] /\ removal \in [File -> [run : Nat, pushed : BOOLEAN]]
      /\ churn \in [File -> Int]
      /\ partial \in [File -> {Partial[c] : c \in Content} \cup {NoHash}]
  BY <1>3 DEF Init
<1>9. TypeOK
  <2>1. /\ fullbit \in BOOLEAN /\ baseline \in BOOLEAN /\ odd = {} /\ pc = "idle" /\ run = 0
        /\ todo = {} /\ gone = {} /\ batch = {} /\ clean = "no" /\ exact = {}
        /\ changes = 0 /\ faults = 0 /\ forced = 0
    BY DEF Init
  <2>2. 0 \in 0 .. MaxChanges /\ 0 \in 0 .. MaxFaults /\ 0 \in 0 .. MaxForced
    BY PipelineConstants
  <2> QED
    BY <1>4, <1>5, <1>6, <1>7, <1>8, <2>1, <2>2 DEF TypeOK
<1>10. /\ pc = "idle" /\ batch = {} /\ gone = {} /\ todo = {} /\ clean = "no" /\ exact = {}
       /\ changes = 0
  BY DEF Init
<1>11. \A f \in File : /\ staged[f].mtime = 0 /\ staged[f].path = 1 /\ staged[f].pushed = TRUE
                       /\ staged[f].mode = "metadata" /\ removal[f].pushed = TRUE
                       /\ cat[f].mtime = 0 /\ cat[f].path = 1 /\ cat[f].present = FALSE
                       /\ disk[f].mtime = 1 /\ churn[f] = 0 /\ partial[f] = NoHash
  BY <1>2 DEF Init, NoRow
<1>12. Moments /\ OneVisit
  BY <1>7, <1>10 DEF Moments, OneVisit, Sending
<1>13. MtimesGrow /\ StagedFirst /\ RunsAreApart
  BY <1>10, <1>11 DEF MtimesGrow, StagedFirst, RunsAreApart, Pending, Leaving
<1>14. FlightIsStaged /\ AckedIsIngested
  BY <1>7, <1>10 DEF FlightIsStaged, AckedIsIngested
<1>15. NamesFollow /\ PushedIsIngested /\ ChurnBalances
  BY <1>10, <1>11 DEF NamesFollow, PushedIsIngested, ChurnBalances
<1>16. NeverRemoved /\ RemovedBefore
  BY <1>10, <1>11 DEF NeverRemoved, RemovedBefore, Pending, Leaving
<1>17. IncrementalSoFar /\ StaysExact /\ HashedSoFar /\ StaysHashed
  BY <1>10 DEF IncrementalSoFar, StaysExact, HashedSoFar, StaysHashed
<1> QED
  BY <1>9, <1>12, <1>13, <1>14, <1>15, <1>16, <1>17 DEF IInv

(* The invariant holds in every reachable state.                              *)
LEMMA Invariance == Spec => []IInv
<1>1. IInv /\ [Next]_vars => IInv'
  <2> SUFFICES ASSUME IInv, [Next]_vars PROVE IInv'
    OBVIOUS
  <2>1. TypeOK' /\ Moments' /\ OneVisit' /\ MtimesGrow' /\ StagedFirst' /\ RunsAreApart'
    BY TypeStep, MomentsStep, OneVisitStep, MtimesGrowStep, StagedFirstStep, RunsAreApartStep
    DEF IInv
  <2>2. FlightIsStaged' /\ AckedIsIngested' /\ NamesFollow' /\ PushedIsIngested'
            /\ ChurnBalances'
    BY FlightIsStagedStep, AckedIsIngestedStep, NamesFollowStep, PushedStep, ChurnStep DEF IInv
  <2>3. NeverRemoved' /\ RemovedBefore' /\ IncrementalSoFar' /\ StaysExact'
    BY NeverRemovedStep, RemovedBeforeStep, IncrementalStep, StaysExactStep DEF IInv
  <2>4. HashedSoFar' /\ StaysHashed'
    BY HashedSoFarStep, StaysHashedStep DEF IInv
  <2> QED
    BY <2>1, <2>2, <2>3, <2>4 DEF IInv
<1> QED
  BY <1>1, InitIInv, PTL DEF Spec

(* Every variable of the agent and of the server keeps its type; no batch     *)
(* that PushClient.drain posts is empty.                                      *)
THEOREM PipelineTypes == Spec => []TypeOK
<1>1. IInv => TypeOK
  BY DEF IInv
<1> QED
  BY <1>1, Invariance, PTL

(* PushClient.drain loses nothing: a staged row that is marked as pushed is   *)
(* in the catalogue with the staged mtime and name, whatever was lost, posted *)
(* twice, given up or cut short by a crash.                                   *)
THEOREM NoPushIsLost == Spec => []PushedIsIngested
<1>1. IInv => PushedIsIngested
  BY DEF IInv
<1> QED
  BY <1>1, Invariance, PTL

(* ChangeReconciler counts once: without the full-bit pass the CREATE and     *)
(* DELETE rows of a file add up to whether it is present, over any number of  *)
(* batches that are posted again.                                             *)
THEOREM ChurnAddsUp == Spec => []ChurnBalances
<1>1. IInv => ChurnBalances
  BY DEF IInv
<1> QED
  BY <1>1, Invariance, PTL

(* IncrementalScanner.scan and the drain after it bring the catalogue up to   *)
(* date: after a cycle in which the disk did not change and no error hid a    *)
(* file, and until the disk changes, every file but those the agent has lost  *)
(* sight of (Missed, LostBySkip) is catalogued as it is, and none that is     *)
(* gone is present.                                                           *)
THEOREM IncrementalCycleIsExact == Spec => []CycleMeansExact
<1>1. IInv => CycleMeansExact
  BY DEF IInv, StaysExact, Settled, CycleMeansExact
<1> QED
  BY <1>1, Invariance, PTL

(* The funnel of the full-bit pass skips no duplicate: after a full-bit cycle *)
(* in which the disk did not change and no error hid a file, and until the    *)
(* disk changes, two files with the same content are in the group of that     *)
(* content.                                                                   *)
THEOREM FunnelFindsDuplicates == Spec => []DuplicatesAreFound
<1>1. IInv => DuplicatesAreFound
  BY DEF IInv, StaysHashed, Twin, DuplicatesAreFound
<1> QED
  BY <1>1, Invariance, PTL
=============================================================================
