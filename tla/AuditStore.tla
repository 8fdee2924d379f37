----------------------------- MODULE AuditStore -----------------------------
(***************************************************************************)
(* The durable hash-chained audit log: core/audit.py, core/audit_store.py, *)
(* the remediation_audit table and the request transaction that writes it. *)
(*                                                                         *)
(* Every request that audits owns one database transaction.  A "staged"    *)
(* request (build_persistent_chain) reads the chain head once, keeps its   *)
(* own head in memory, adds rows to its session and lets the transaction   *)
(* flush and commit them at the end.  A "durable" request (append_durable) *)
(* re-reads the head for every record and inserts it in a SAVEPOINT, with  *)
(* a bounded retry when another writer took the head.                      *)
(*                                                                         *)
(* A record's hash covers its predecessor's hash, so hashes are modelled   *)
(* as what they commit to: the sequence of records from the genesis to     *)
(* this one.  That makes compute_row_hash injective and nothing else.      *)
(***************************************************************************)
EXTENDS Naturals, Sequences

CONSTANTS
    Req,          \* requests that write audit records
    Durable,      \* the requests that use append_durable; the others stage
    MaxRecs,      \* bound: records one request appends
    MaxRetries,   \* _MAX_APPEND_RETRIES
    SeqBurns      \* TRUE: PostgreSQL (a failed INSERT uses up a seq value);
                  \* FALSE: SQLite (the next rowid is the largest plus one)

ASSUME AuditConstants ==
    /\ Durable \subseteq Req
    /\ MaxRecs \in Nat \ {0}
    /\ MaxRetries \in Nat \ {0}
    /\ SeqBurns \in BOOLEAN

VARIABLES
    table,    \* committed rows of remediation_audit
    nextSeq,  \* the next value of the seq column's generator
    pc,       \* where each request's handler is
    head,     \* the request's AuditChain.head
    staged,   \* rows added to the session, not flushed yet
    ins,      \* rows inserted by the open transaction
    count,    \* records the request has appended
    tries,    \* failed attempts of the append_durable in progress
    acted,    \* has the audited action been carried out?
    outcome   \* how the request's transaction ended

vars == <<table, nextSeq, pc, head, staged, ins, count, tries, acted, outcome>>

Record == Req \X (1 .. MaxRecs)
Hash == Seq(Record)
Staged == [rec : Record, prev_hash : Hash, row_hash : Hash]
Row == [seq : Nat \ {0}, rec : Record, prev_hash : Hash, row_hash : Hash]

TypeOK ==
    /\ table \subseteq Row
    /\ nextSeq \in Nat \ {0}
    /\ pc \in [Req -> {"idle", "open", "loaded", "flushing", "done"}]
    /\ head \in [Req -> Hash]
    /\ staged \in [Req -> Seq(Staged)]
    /\ ins \in [Req -> SUBSET Row]
    /\ count \in [Req -> 0 .. MaxRecs]
    /\ tries \in [Req -> 0 .. MaxRetries - 1]
    /\ acted \in [Req -> BOOLEAN]
    /\ outcome \in [Req -> {"none", "committed", "forked", "failed"}]

-----------------------------------------------------------------------------
(* The chain.                                                              *)

GENESIS_HASH == << >>

compute_row_hash(prev, rec) == Append(prev, rec)

LastRow(T) == CHOOSE x \in T : \A y \in T : y.seq <= x.seq

(* load_head: the row_hash of the row with the largest seq.                *)
load_head(T) == IF T = {} THEN GENESIS_HASH ELSE LastRow(T).row_hash

Preceding(T, x) == {y \in T : y.seq < x.seq}

(* verify_chain over the rows in the order of their seq.                   *)
verify_chain(T) ==
    \A x \in T :
        /\ x.prev_hash = load_head(Preceding(T, x))
        /\ x.row_hash = compute_row_hash(x.prev_hash, x.rec)

(* Faulty variant: the UNIQUE constraint on prev_hash is missing.          *)
CollidesOnRowHash(T, r) == \E x \in T : x.row_hash = r.row_hash

(* The two UNIQUE constraints of remediation_audit.                        *)
Collides(T, r) ==
    \E x \in T : x.prev_hash = r.prev_hash \/ x.row_hash = r.row_hash

(* An INSERT fails on a committed row or on one of its own transaction.    *)
Refused(r, row) == Collides(table \cup ins[r], row)

InsertedBefore(r) == UNION {ins[o] : o \in Req \ {r}}

-----------------------------------------------------------------------------
(* How a transaction ends.                                                 *)

(* PostgreSQL's sequence keeps the values that failed or rolled-back       *)
(* INSERTs drew; SQLite takes the largest rowid plus one.                  *)
SeqAfterRollback(r, used) ==
    IF SeqBurns THEN nextSeq + used
    ELSE IF ins[r] = {} THEN nextSeq
    ELSE IF table = {} THEN 1 ELSE LastRow(table).seq + 1

End(r, how) ==
    /\ pc' = [pc EXCEPT ![r] = "done"]
    /\ outcome' = [outcome EXCEPT ![r] = how]
    /\ staged' = [staged EXCEPT ![r] = << >>]
    /\ ins' = [ins EXCEPT ![r] = {}]

Abort(r, how, used) ==
    /\ End(r, how)
    /\ nextSeq' = SeqAfterRollback(r, used)
    /\ UNCHANGED <<table, head, count, tries, acted>>

-----------------------------------------------------------------------------
(* Requests.                                                               *)

Init ==
    /\ table = {}
    /\ nextSeq = 1
    /\ pc = [r \in Req |-> "idle"]
    /\ head = [r \in Req |-> GENESIS_HASH]
    /\ staged = [r \in Req |-> << >>]
    /\ ins = [r \in Req |-> {}]
    /\ count = [r \in Req |-> 0]
    /\ tries = [r \in Req |-> 0]
    /\ acted = [r \in Req |-> FALSE]
    /\ outcome = [r \in Req |-> "none"]

(* build_persistent_chain reads the committed head; append_durable does so *)
(* itself, for each record.                                                *)
Begin(r) ==
    /\ pc[r] = "idle"
    /\ pc' = [pc EXCEPT ![r] = "open"]
    /\ head' = [head EXCEPT ![r] = load_head(table)]
    /\ UNCHANGED <<table, nextSeq, staged, ins, count, tries, acted, outcome>>

(* AuditChain.append and AuditChain.splice: the row goes to the session    *)
(* (session.add) and the request's own head advances.                      *)
AppendRecord(r) ==
    /\ r \notin Durable /\ pc[r] = "open" /\ count[r] < MaxRecs
    /\ LET rec == <<r, count[r] + 1>>
           h == compute_row_hash(head[r], rec)
       IN /\ staged' = [staged EXCEPT ![r] =
                 Append(@, [rec |-> rec, prev_hash |-> head[r], row_hash |-> h])]
          /\ head' = [head EXCEPT ![r] = h]
    /\ count' = [count EXCEPT ![r] = @ + 1]
    /\ UNCHANGED <<table, nextSeq, pc, ins, tries, acted, outcome>>

(* The audited action (a dispatched job, a served preview, a deployment)   *)
(* is carried out while the transaction is still open: before the rows are *)
(* flushed (execute_route) or after (the browse and deployment routes).    *)
Act(r) ==
    /\ \/ pc[r] = "open" /\ count[r] > 0
       \/ pc[r] = "flushing" /\ staged[r] = << >>
    /\ ~acted[r]
    /\ acted' = [acted EXCEPT ![r] = TRUE]
    /\ UNCHANGED <<table, nextSeq, pc, head, staged, ins, count, tries, outcome>>

StartFlush(r) ==
    /\ pc[r] = "open" /\ staged[r] # << >>
    /\ pc' = [pc EXCEPT ![r] = "flushing"]
    /\ UNCHANGED <<table, nextSeq, head, staged, ins, count, tries, acted, outcome>>

Inserted(r, row) ==
    /\ ~Refused(r, row)
    /\ ~Collides(InsertedBefore(r), row)   \* otherwise the INSERT waits
    /\ ins' = [ins EXCEPT ![r] = @ \cup
           {[seq |-> nextSeq, rec |-> row.rec,
             prev_hash |-> row.prev_hash, row_hash |-> row.row_hash]}]
    /\ nextSeq' = nextSeq + 1

(* The flush inserts the session's rows in the order they were added.      *)
FlushRow(r) ==
    /\ pc[r] = "flushing" /\ staged[r] # << >>
    /\ Inserted(r, Head(staged[r]))
    /\ staged' = [staged EXCEPT ![r] = Tail(@)]
    /\ UNCHANGED <<table, pc, head, count, tries, acted, outcome>>

(* Faulty variant: the IntegrityError is swallowed and the flush tried     *)
(* again with the same rows.                                               *)
ConflictSwallowed(r) ==
    /\ pc[r] = "flushing" /\ staged[r] # << >>
    /\ Refused(r, Head(staged[r]))
    /\ UNCHANGED vars

(* A committed row has the prev_hash already: IntegrityError, and the      *)
(* request's transaction rolls back with every row it added.               *)
FlushConflict(r) ==
    /\ pc[r] = "flushing" /\ staged[r] # << >>
    /\ Refused(r, Head(staged[r]))
    /\ Abort(r, "forked", 1)

Commit(r) ==
    /\ \/ pc[r] = "flushing" /\ staged[r] = << >>
       \/ r \in Durable /\ pc[r] = "open" /\ count[r] > 0
    /\ table' = table \cup ins[r]
    /\ End(r, "committed")
    /\ UNCHANGED <<nextSeq, head, count, tries, acted>>

(* Faulty variant: what was flushed is committed although the handler      *)
(* raised.                                                                 *)
RollbackKeepsInserts(r) ==
    /\ pc[r] \in {"open", "loaded", "flushing"}
    /\ table' = table \cup ins[r]
    /\ End(r, "failed")
    /\ UNCHANGED <<nextSeq, head, count, tries, acted>>

(* The handler raised, or the process died: the transaction rolls back.    *)
Rollback(r) ==
    /\ pc[r] \in {"open", "loaded", "flushing"}
    /\ Abort(r, "failed", 0)

-----------------------------------------------------------------------------
(* append_durable and _splice_record_durable.                              *)

(* load_head inside the request's transaction sees its own inserts.        *)
DurableLoad(r) ==
    /\ r \in Durable /\ pc[r] = "open" /\ count[r] < MaxRecs
    /\ pc' = [pc EXCEPT ![r] = "loaded"]
    /\ head' = [head EXCEPT ![r] = load_head(table \cup ins[r])]
    /\ UNCHANGED <<table, nextSeq, staged, ins, count, tries, acted, outcome>>

DurableRow(r) ==
    LET rec == <<r, count[r] + 1>>
    IN [rec |-> rec, prev_hash |-> head[r],
        row_hash |-> compute_row_hash(head[r], rec)]

DurableInsert(r) ==
    /\ pc[r] = "loaded"
    /\ Inserted(r, DurableRow(r))
    /\ pc' = [pc EXCEPT ![r] = "open"]
    /\ count' = [count EXCEPT ![r] = @ + 1]
    /\ tries' = [tries EXCEPT ![r] = 0]
    /\ UNCHANGED <<table, head, staged, acted, outcome>>

(* Faulty variant: one attempt too many.                                   *)
RetryOnceMore(r) ==
    /\ pc[r] = "loaded" /\ Refused(r, DurableRow(r))
    /\ tries[r] + 1 <= MaxRetries
    /\ pc' = [pc EXCEPT ![r] = "open"]
    /\ tries' = [tries EXCEPT ![r] = @ + 1]
    /\ nextSeq' = IF SeqBurns THEN nextSeq + 1 ELSE nextSeq
    /\ UNCHANGED <<table, head, staged, ins, count, acted, outcome>>

(* The SAVEPOINT rolls back and the loop reads the head again.             *)
DurableRetry(r) ==
    /\ pc[r] = "loaded" /\ Refused(r, DurableRow(r))
    /\ tries[r] + 1 < MaxRetries
    /\ pc' = [pc EXCEPT ![r] = "open"]
    /\ tries' = [tries EXCEPT ![r] = @ + 1]
    /\ nextSeq' = IF SeqBurns THEN nextSeq + 1 ELSE nextSeq
    /\ UNCHANGED <<table, head, staged, ins, count, acted, outcome>>

(* The retries are used up: RuntimeError, and the transaction rolls back.  *)
DurableGiveUp(r) ==
    /\ pc[r] = "loaded" /\ Refused(r, DurableRow(r))
    /\ tries[r] + 1 = MaxRetries
    /\ Abort(r, "forked", 1)

-----------------------------------------------------------------------------

Step(r) ==
    \/ AppendRecord(r) \/ Act(r) \/ StartFlush(r) \/ FlushRow(r)
    \/ FlushConflict(r) \/ Commit(r)
    \/ DurableLoad(r) \/ DurableInsert(r) \/ DurableRetry(r) \/ DurableGiveUp(r)

Terminated ==
    /\ \A r \in Req : pc[r] = "done"
    /\ UNCHANGED vars

Next ==
    \/ \E r \in Req : Begin(r) \/ Step(r) \/ Rollback(r)
    \/ Terminated

Spec == Init /\ [][Next]_vars

(* The event loop keeps running a request that can run.                    *)
FairSpec == Spec /\ \A r \in Req : WF_vars(Step(r))

-----------------------------------------------------------------------------
(* Properties.                                                             *)

(* The persisted log is one unbroken chain whatever the order in which     *)
(* concurrent requests read the head, insert, commit and roll back: two    *)
(* writers that resumed the same head never both commit (UNIQUE prev_hash, *)
(* models.py RemediationAuditRow).                                         *)
ChainUnbroken == verify_chain(table)

(* At most one open transaction holds uncommitted audit rows, and they     *)
(* continue the committed head; an insert that waits never waits for a     *)
(* transaction that waits for it.                                          *)
OneWriterAtTheHead ==
    \A r \in Req : ins[r] # {} =>
        /\ \A o \in Req \ {r} : ins[o] = {}
        /\ verify_chain(table \cup ins[r])

(* The readers' view (the records the head hash commits to) is the log of  *)
(* AuditLog: a request's records reach it all together, in the order they  *)
(* were appended and with no other request's record between them, or not   *)
(* at all (db_session: commit on success, rollback on error).              *)
Readers == INSTANCE AuditLog WITH
    log <- load_head(table),
    published <- {r \in Req : outcome[r] = "committed"}
AllOrNothing == Readers!Spec

(* No code path updates or deletes a persisted row, and a later row always *)
(* has a larger seq than every row already there.                          *)
AppendOnly ==
    [][/\ table \subseteq table'
       /\ \A x \in table' \ table : \A y \in table : y.seq < x.seq]_table

(* Every request that starts also ends: waiting for a rival's uncommitted  *)
(* row and retrying for the head both come to an end.                      *)
EveryRequestEnds == \A r \in Req : (pc[r] = "open") ~> (pc[r] = "done")
=============================================================================
