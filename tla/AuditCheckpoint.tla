--------------------------- MODULE AuditCheckpoint ---------------------------
(***************************************************************************)
(* Signed checkpoints of the audit log (core/audit_store.py) over the log  *)
(* of AuditStore.  Someone with access to the database may delete or       *)
(* rewrite rows, recomputing a row's hash, but cannot sign a checkpoint.   *)
(***************************************************************************)
EXTENDS AuditStore, FiniteSets

CONSTANT MaxTamper   \* bound: changes made behind the application's back

ASSUME TamperBound == MaxTamper \in Nat

VARIABLES
    cp,        \* the latest checkpoint row, or NoCheckpoint
    anchored,  \* history: the rows that were in the log when it was written
    tampered   \* changes made so far

cvars == <<vars, cp, anchored, tampered>>

NoCheckpoint == [seq |-> 0, row_hash |-> GENESIS_HASH, signed |-> TRUE]

-----------------------------------------------------------------------------

(* persisted_records()[k - 1], and the first k of them.                    *)
Position(T, x) == Cardinality(Preceding(T, x)) + 1
Contents(T) == {<<x.rec, x.prev_hash, x.row_hash>> : x \in T}
FirstRows(T, k) == {x \in T : Position(T, x) <= k}

(* Faulty variant: the anchored row's hash is not compared.                *)
VerifyChainOnly ==
    \/ cp = NoCheckpoint
    \/ /\ cp.signed
       /\ Cardinality(table) >= cp.seq
       /\ verify_chain(FirstRows(table, cp.seq))

verify_latest_checkpoint ==
    \/ cp = NoCheckpoint
    \/ /\ cp.signed
       /\ Cardinality(table) >= cp.seq
       /\ \A x \in table : Position(table, x) = cp.seq => x.row_hash = cp.row_hash
       /\ verify_chain(FirstRows(table, cp.seq))

-----------------------------------------------------------------------------

CheckpointInit ==
    /\ Init
    /\ cp = NoCheckpoint
    /\ anchored = {}
    /\ tampered = 0

(* Faulty variant: the anchor names the row after the head.                *)
CheckpointOffByOne ==
    /\ table # {}
    /\ cp' = [seq |-> LastRow(table).seq + 1,
              row_hash |-> LastRow(table).row_hash, signed |-> TRUE]
    /\ anchored' = table
    /\ UNCHANGED <<vars, tampered>>

(* write_checkpoint anchors the last committed row.                        *)
WriteCheckpoint ==
    /\ table # {}
    /\ cp' = [seq |-> LastRow(table).seq,
              row_hash |-> LastRow(table).row_hash, signed |-> TRUE]
    /\ anchored' = table
    /\ UNCHANGED <<vars, tampered>>

-----------------------------------------------------------------------------
(* External: changes to the tables that are not made by this program, made *)
(* while no request is in progress.                                        *)

Quiet == tampered < MaxTamper /\ \A r \in Req : pc[r] \in {"idle", "done"}

Tampered(T) ==
    /\ table' = T
    /\ nextSeq' = IF SeqBurns THEN nextSeq
                  ELSE IF T = {} THEN 1 ELSE LastRow(T).seq + 1
    /\ tampered' = tampered + 1
    /\ UNCHANGED <<pc, head, staged, ins, count, tries, acted, outcome>>

DropRow(x) ==
    /\ Quiet
    /\ Tampered(table \ {x})
    /\ UNCHANGED <<cp, anchored>>

RewriteRow(x, rec, h) ==
    /\ Quiet /\ rec # x.rec
    /\ Tampered((table \ {x}) \cup {[x EXCEPT !.rec = rec, !.row_hash = h]})
    /\ UNCHANGED <<cp, anchored>>

(* A checkpoint row is pointed at another row; its signature no longer     *)
(* covers its (seq, row_hash).                                             *)
RewriteCheckpoint(x) ==
    /\ Quiet /\ cp # NoCheckpoint
    /\ x.row_hash # cp.row_hash
    /\ cp' = [seq |-> x.seq, row_hash |-> x.row_hash, signed |-> FALSE]
    /\ tampered' = tampered + 1
    /\ UNCHANGED <<vars, anchored>>

Rewritten(x, rec) == {x.row_hash, compute_row_hash(x.prev_hash, rec)}

CheckpointNext ==
    \/ Next /\ UNCHANGED <<cp, anchored, tampered>>
    \/ WriteCheckpoint
    \/ \E x \in table :
          \/ DropRow(x)
          \/ \E rec \in Record : \E h \in Rewritten(x, rec) : RewriteRow(x, rec, h)
          \/ RewriteCheckpoint(x)

CheckpointSpec == CheckpointInit /\ [][CheckpointNext]_cvars

-----------------------------------------------------------------------------

(* verify_latest_checkpoint accepts a log nobody touched, whatever was     *)
(* appended, rolled back or retried before and after the checkpoint: it    *)
(* reports tampering only when there was some.  Holds on SQLite; on        *)
(* PostgreSQL a failed INSERT leaves a hole in seq and the position        *)
(* records[cp.seq - 1] is no longer the anchored row.                      *)
CleanLogVerifies == tampered = 0 => verify_latest_checkpoint

(* Once an intact log is anchored, dropping or rewriting the anchored row, *)
(* a row before it or the anchor itself is noticed, also when rows written *)
(* later or further changes fill the gap (verify_latest_checkpoint,        *)
(* conditions 1 to 3).                                                     *)
HarmIsCaught ==
    /\ cp # NoCheckpoint /\ verify_chain(anchored)
    /\ verify_latest_checkpoint
    => Contents(FirstRows(table, cp.seq)) = Contents(anchored)
=============================================================================
