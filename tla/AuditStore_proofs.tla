-------------------------- MODULE AuditStore_proofs --------------------------
(***************************************************************************)
(* Proofs about AuditStore and AuditCheckpoint, for any set of requests,   *)
(* any bounds and both database behaviours: the type invariant, the        *)
(* unbroken chain, the single writer at the head, the append-only action   *)
(* property, that the store implements AuditLog, that changes to anchored  *)
(* rows are caught and that an untouched log without gaps verifies.        *)
(***************************************************************************)
EXTENDS AuditCheckpoint, SequenceTheorems, FiniteSetTheorems,
        WellFoundedInduction, TLAPS

-----------------------------------------------------------------------------
(* The inductive invariant.                                                *)

(* T has a row with the largest seq (every reachable table is finite).     *)
HasTop(T) == T # {} => \E x \in T : \A y \in T : y.seq <= x.seq

(* No two rows have one seq.                                               *)
Distinct(T) == \A x, y \in T : x.seq = y.seq => x = y

Ordered(T) == IsFiniteSet(T) /\ HasTop(T) /\ Distinct(T)

(* The hash that the next row of r's transaction names as its predecessor. *)
Base(r) == IF staged[r] = << >> THEN head[r] ELSE staged[r][1].prev_hash

Linked(s) ==
    /\ \A i \in 1 .. Len(s) :
           s[i].row_hash = compute_row_hash(s[i].prev_hash, s[i].rec)
    /\ \A i \in 1 .. Len(s) : i # 1 => s[i].prev_hash = s[i - 1].row_hash

SeqsBelow ==
    /\ \A x \in table : x.seq < nextSeq
    /\ \A r \in Req : \A x \in ins[r] : x.seq < nextSeq

(* The rows of an open transaction come after the committed ones and       *)
(* continue their head, and no other transaction has any.                  *)
WriterOK(r) ==
    ins[r] # {} =>
        /\ \A o \in Req \ {r} : ins[o] = {}
        /\ Ordered(table \cup ins[r])
        /\ \A x \in table, y \in ins[r] : x.seq < y.seq
        /\ \E y \in ins[r] : y.prev_hash = load_head(table)

Writing(r) ==
    \/ r \notin Durable /\ pc[r] \in {"open", "flushing"}
    \/ pc[r] = "loaded"

(* What the request is about to append to: the head, or a hash that a      *)
(* committed row has continued, so that the INSERT will be refused.        *)
BaseOK(r) ==
    Writing(r) => /\ ins[r] = {} => \/ Base(r) = load_head(table)
                                    \/ \E y \in table : y.prev_hash = Base(r)
                  /\ ins[r] # {} => Base(r) = load_head(table \cup ins[r])

PhaseOK(r) ==
    /\ staged[r] # << >> =>
          /\ r \notin Durable /\ pc[r] \in {"open", "flushing"}
          /\ head[r] = staged[r][Len(staged[r])].row_hash
          /\ Linked(staged[r])
    /\ pc[r] = "loaded" => r \in Durable /\ count[r] < MaxRecs
    /\ pc[r] = "flushing" => r \notin Durable
    /\ pc[r] \in {"idle", "done"} => ins[r] = {}
    /\ pc[r] = "open" /\ ins[r] # {} => r \in Durable

(* The writers' part, which does not depend on the log being a chain: it   *)
(* also holds of a log that was tampered with.                             *)
WInv ==
    /\ TypeOK
    /\ Ordered(table)
    /\ SeqsBelow
    /\ \A r \in Req : WriterOK(r) /\ BaseOK(r) /\ PhaseOK(r)

(* The chain's part.                                                       *)
Chained ==
    /\ verify_chain(table)
    /\ \A r \in Req : ins[r] # {} => verify_chain(table \cup ins[r])

IInv == WInv /\ Chained

-----------------------------------------------------------------------------
(* Facts about logs.                                                       *)

(* LastRow really is the row with the largest seq, and its hash is the     *)
(* head that load_head (audit_store.py) returns.                           *)
LEMMA TopRow ==
    ASSUME NEW T \in SUBSET Row, HasTop(T), T # {}
    PROVE  /\ LastRow(T) \in T
           /\ \A y \in T : y.seq <= LastRow(T).seq
  BY DEF HasTop, LastRow

(* load_head returns a hash.                                               *)
LEMMA HeadKnown ==
    ASSUME NEW T \in SUBSET Row, HasTop(T)
    PROVE  load_head(T) \in Hash
<1>1. CASE T = {}
  BY <1>1 DEF load_head, GENESIS_HASH, Hash
<1>2. CASE T # {}
  <2>1. LastRow(T) \in T
    BY <1>2, TopRow
  <2>2. LastRow(T).row_hash \in Hash
    BY <2>1 DEF Row
  <2> QED
    BY <1>2, <2>1, <2>2 DEF load_head
<1> QED
  BY <1>1, <1>2

(* A row with the next seq becomes the head.                               *)
LEMMA Extend ==
    ASSUME NEW T \in SUBSET Row, Ordered(T), NEW z \in Row,
           \A x \in T : x.seq < z.seq
    PROVE  Ordered(T \cup {z}) /\ load_head(T \cup {z}) = z.row_hash
<1> DEFINE U == T \cup {z}
<1>0. U \in SUBSET Row /\ U # {} /\ z \in U
  OBVIOUS
<1>1. \A x \in U : x.seq \in Nat
  BY <1>0 DEF Row
<1>2. \A y \in U : y.seq <= z.seq
  BY <1>1
<1>3. HasTop(U)
  BY <1>0, <1>2 DEF HasTop
<1>4. LastRow(U) = z
  <2>1. LastRow(U) \in U /\ \A y \in U : y.seq <= LastRow(U).seq
    BY <1>0, <1>3, TopRow
  <2>2. ASSUME LastRow(U) \in T PROVE FALSE
    <3>1. LastRow(U).seq < z.seq /\ z.seq <= LastRow(U).seq
      BY <2>1, <2>2, <1>0
    <3>2. LastRow(U).seq \in Nat /\ z.seq \in Nat
      BY <2>1, <1>0, <1>1
    <3> QED
      BY <3>1, <3>2
  <2> QED
    BY <2>1, <2>2
<1>5. load_head(U) = z.row_hash
  BY <1>0, <1>4 DEF load_head
<1>6. IsFiniteSet(U)
  BY FS_AddElement DEF Ordered
<1>7. Distinct(U)
  BY <1>1 DEF Ordered, Distinct
<1> QED
  BY <1>3, <1>5, <1>6, <1>7 DEF Ordered

(* If it names the head as its predecessor, the chain goes on              *)
(* (AuditChain.append, AuditChain.splice).                                 *)
LEMMA ExtendChain ==
    ASSUME NEW T \in SUBSET Row, verify_chain(T), NEW z \in Row,
           \A x \in T : x.seq < z.seq,
           z.prev_hash = load_head(T),
           z.row_hash = compute_row_hash(z.prev_hash, z.rec)
    PROVE  verify_chain(T \cup {z})
<1> DEFINE U == T \cup {z}
<1>1. \A x \in U : x.seq \in Nat
  BY DEF Row
<1> SUFFICES ASSUME NEW x \in U
             PROVE  /\ x.prev_hash = load_head(Preceding(U, x))
                    /\ x.row_hash = compute_row_hash(x.prev_hash, x.rec)
  BY DEF verify_chain
<1>2. CASE x = z
  <2>1. Preceding(U, x) = T
    BY <1>2, <1>1 DEF Preceding
  <2> QED
    BY <1>2, <2>1
<1>3. CASE x \in T
  <2>1. Preceding(U, x) = Preceding(T, x)
    BY <1>3, <1>1 DEF Preceding
  <2> QED
    BY <1>3, <2>1 DEF verify_chain
<1> QED
  BY <1>2, <1>3

-----------------------------------------------------------------------------
(* An INSERT that the UNIQUE constraints let through continues the log.    *)

(* Whoever inserts does so at the head, and nobody else has an uncommitted *)
(* row: a rival's row would have the same prev_hash.                       *)
LEMMA InsertAtHead ==
    ASSUME WInv, NEW r \in Req, NEW row \in Staged, Writing(r),
           row.prev_hash = Base(r), Inserted(r, row)
    PROVE  /\ row.prev_hash = load_head(table \cup ins[r])
           /\ \A o \in Req \ {r} : ins[o] = {}
<1>1. BaseOK(r) /\ WriterOK(r) /\ Ordered(table)
  BY DEF WInv
<1>2. \A y \in table : y.prev_hash # row.prev_hash
  BY DEF Inserted, Refused, Collides
<1>3. CASE ins[r] # {}
  BY <1>1, <1>3 DEF BaseOK, WriterOK
<1>4. CASE ins[r] = {}
  <2>2. row.prev_hash = load_head(table)
    BY <1>1, <1>2, <1>4 DEF BaseOK
  <2>3. ASSUME NEW o \in Req \ {r}, ins[o] # {}
        PROVE  FALSE
    <3>1. PICK y \in ins[o] : y.prev_hash = load_head(table)
      BY <2>3 DEF WInv, WriterOK
    <3>2. y \in InsertedBefore(r)
      BY <3>1, <2>3 DEF InsertedBefore
    <3> QED
      BY <3>1, <3>2, <2>2 DEF Inserted, Collides
  <2>4. table \cup ins[r] = table
    BY <1>4
  <2> QED
    BY <2>2, <2>3, <2>4
<1> QED
  BY <1>3, <1>4

(* What an INSERT of the next row of r's transaction leaves behind.        *)
LEMMA InsertKeeps ==
    ASSUME WInv, NEW r \in Req, NEW row \in Staged, Writing(r),
           row.prev_hash = Base(r),
           row.row_hash = compute_row_hash(row.prev_hash, row.rec),
           Inserted(r, row), table' = table
    PROVE  /\ ins' \in [Req -> SUBSET Row] /\ nextSeq' \in Nat \ {0}
           /\ SeqsBelow'
           /\ \A o \in Req : WriterOK(o)'
           /\ ins'[r] # {} /\ \A o \in Req \ {r} : ins'[o] = {} /\ ins[o] = {}
           /\ load_head((table \cup ins[r])') = row.row_hash
           /\ Chained => Chained'
<1> DEFINE z == [seq |-> nextSeq, rec |-> row.rec,
                 prev_hash |-> row.prev_hash, row_hash |-> row.row_hash]
           T == table \cup ins[r]
<1>1. TypeOK /\ SeqsBelow /\ Ordered(table) /\ WriterOK(r)
  BY DEF WInv
<1>2. z \in Row
  BY <1>1 DEF TypeOK, Row, Staged
<1>3. T \in SUBSET Row /\ \A x \in T : x.seq < nextSeq
  BY <1>1 DEF TypeOK, SeqsBelow
<1>4. Ordered(T)
  <2>1. CASE ins[r] = {}
    <3>1. T = table
      BY <2>1
    <3> QED
      BY <3>1, <1>1
  <2>2. CASE ins[r] # {}
    BY <2>2, <1>1 DEF WriterOK
  <2> QED
    BY <2>1, <2>2
<1>5. row.prev_hash = load_head(T) /\ \A o \in Req \ {r} : ins[o] = {}
  BY InsertAtHead
<1>6. Ordered(T \cup {z}) /\ load_head(T \cup {z}) = row.row_hash
  <2> HIDE DEF T
  <2>1. \A x \in T : x.seq < z.seq
    BY <1>3
  <2>2. z.row_hash = row.row_hash
    OBVIOUS
  <2> HIDE DEF z
  <2> QED
    BY <1>2, <1>3, <1>4, <2>1, <2>2, Extend
<1>7. ins' = [ins EXCEPT ![r] = @ \cup {z}] /\ nextSeq' = nextSeq + 1
  BY DEF Inserted
<1>8. ins'[r] = ins[r] \cup {z} /\ \A o \in Req \ {r} : ins'[o] = {}
  BY <1>1, <1>5, <1>7 DEF TypeOK
<1>9. ins' \in [Req -> SUBSET Row] /\ nextSeq' \in Nat \ {0}
  BY <1>1, <1>2, <1>7 DEF TypeOK
<1>10. table' \cup ins'[r] = T \cup {z}
  BY <1>8
<1>11. SeqsBelow'
  <2>1. \A x \in T \cup {z} : x.seq < nextSeq + 1
    BY <1>1, <1>2, <1>3 DEF TypeOK, Row
  <2> QED
    BY <2>1, <1>7, <1>8, <1>10 DEF SeqsBelow
<1>12. WriterOK(r)'
  <2>1. \A x \in table', y \in ins'[r] : x.seq < y.seq
    BY <1>1, <1>3, <1>8 DEF WriterOK
  <2>2. \E y \in ins'[r] : y.prev_hash = load_head(table')
    <3>1. CASE ins[r] = {}
      <4>1. load_head(T) = load_head(table')
        BY <3>1
      <4>2. z.prev_hash = load_head(table')
        BY <1>5, <4>1
      <4>3. z \in ins'[r]
        BY <1>8
      <4> QED
        BY <4>2, <4>3
    <3>2. CASE ins[r] # {}
      BY <3>2, <1>1, <1>8 DEF WriterOK
    <3> QED
      BY <3>1, <3>2
  <2>3. Ordered(table' \cup ins'[r])
    BY <1>6, <1>10
  <2> QED
    BY <1>8, <2>1, <2>2, <2>3 DEF WriterOK
<1>13. \A o \in Req : WriterOK(o)'
  BY <1>8, <1>12 DEF WriterOK
<1>14. ASSUME Chained PROVE Chained'
  <2>1. verify_chain(T)
    <3>1. CASE ins[r] = {}
      <4>1. T = table
        BY <3>1
      <4> QED
        BY <4>1, <1>14 DEF Chained
    <3>2. CASE ins[r] # {}
      BY <3>2, <1>14 DEF Chained
    <3> QED
      BY <3>1, <3>2
  <2>2. z.prev_hash = load_head(T) /\ z.row_hash = compute_row_hash(z.prev_hash, z.rec)
    BY <1>5
  <2>3. \A x \in T : x.seq < z.seq
    BY <1>3
  <2>4. verify_chain(T \cup {z})
    <3> HIDE DEF T, z
    <3> QED
      BY <2>1, <2>2, <2>3, <1>2, <1>3, ExtendChain
  <2> QED
    BY <2>4, <1>8, <1>10, <1>14 DEF Chained
<1> QED
  BY <1>5, <1>6, <1>8, <1>9, <1>10, <1>11, <1>13, <1>14

-----------------------------------------------------------------------------
(* The invariant is inductive.                                             *)

(* A table without rows is in order and a chain.                           *)
LEMMA EmptyLog == Ordered({}) /\ verify_chain({})
  BY FS_EmptySet DEF Ordered, HasTop, Distinct, verify_chain

(* An empty audit table and requests that have not started satisfy the     *)
(* invariant.                                                              *)
LEMMA InitIInv == Init => IInv
<1> SUFFICES ASSUME Init PROVE IInv
  OBVIOUS
<1> USE AuditConstants
<1>1. TypeOK
  BY DEF Init, TypeOK, GENESIS_HASH, Hash
<1>2. Ordered(table) /\ SeqsBelow /\ Chained
  BY EmptyLog DEF Init, SeqsBelow, Chained
<1>3. ASSUME NEW r \in Req PROVE WriterOK(r) /\ BaseOK(r) /\ PhaseOK(r)
  BY DEF Init, WriterOK, BaseOK, Writing, PhaseOK
<1> QED
  BY <1>1, <1>2, <1>3 DEF IInv, WInv

(* A step that touches neither the table nor anyone's inserted rows.       *)
LEMMA LogUntouched ==
    ASSUME WInv, UNCHANGED <<table, ins>>, nextSeq' \in Nat, nextSeq' >= nextSeq
    PROVE  Ordered(table)' /\ SeqsBelow' /\ \A o \in Req : WriterOK(o)'
<1>1. SeqsBelow'
  BY DEF WInv, SeqsBelow, TypeOK, Row
<1>2. Ordered(table)' /\ \A o \in Req : WriterOK(o)'
  BY DEF WInv, WriterOK
<1> QED
  BY <1>1, <1>2

(* build_persistent_chain (audit_store.py) resumes from the committed      *)
(* head, so the request starts from a known hash.                          *)
LEMMA BeginKeeps ==
    ASSUME WInv, NEW r \in Req, Begin(r) PROVE WInv'
<1>1. TypeOK /\ Ordered(table)
  BY DEF WInv
<1>2. load_head(table) \in Hash
  BY <1>1, HeadKnown DEF TypeOK, Ordered
<1>3. TypeOK'
  BY <1>1, <1>2 DEF Begin, TypeOK
<1>4. Ordered(table)' /\ SeqsBelow' /\ \A o \in Req : WriterOK(o)'
  BY LogUntouched, <1>1 DEF Begin, TypeOK
<1>5. ASSUME NEW o \in Req PROVE BaseOK(o)' /\ PhaseOK(o)'
  <2>1. BaseOK(o) /\ PhaseOK(o)
    BY DEF WInv
  <2>2. CASE o # r
    BY <2>1, <2>2, <1>1 DEF Begin, TypeOK, BaseOK, Writing, Base, PhaseOK
  <2>3. CASE o = r
    <3>1. staged[r] = << >> /\ ins[r] = {} /\ pc'[r] = "open" /\ head'[r] = load_head(table)
      BY <2>1, <2>3, <1>1 DEF Begin, TypeOK, PhaseOK
    <3> QED
      BY <2>3, <3>1 DEF Begin, BaseOK, Base, PhaseOK
  <2> QED
    BY <2>2, <2>3
<1> QED
  BY <1>3, <1>4, <1>5 DEF WInv

(* Staging one more row (session.add) keeps the staged rows linked.        *)
LEMMA LinkedAppend ==
    ASSUME NEW s \in Seq(Staged), NEW e \in Staged,
           e.row_hash = compute_row_hash(e.prev_hash, e.rec),
           s # << >> => Linked(s) /\ e.prev_hash = s[Len(s)].row_hash
    PROVE  /\ Linked(Append(s, e))
           /\ Append(s, e) # << >>
           /\ Append(s, e)[Len(Append(s, e))] = e
           /\ Append(s, e)[1] = IF s = << >> THEN e ELSE s[1]
<1> DEFINE t == Append(s, e)
<1>1. /\ Len(s) \in Nat /\ Len(t) = Len(s) + 1 /\ t[Len(s) + 1] = e
      /\ \A i \in 1 .. Len(s) : t[i] = s[i]
      /\ s = << >> => Len(s) = 0
      /\ s # << >> => Len(s) # 0
      /\ t # << >>
  OBVIOUS
<1> HIDE DEF t
<1>2. ASSUME NEW i \in 1 .. Len(t)
      PROVE  /\ t[i].row_hash = compute_row_hash(t[i].prev_hash, t[i].rec)
             /\ i # 1 => t[i].prev_hash = t[i - 1].row_hash
  <2>1. CASE i = Len(s) + 1
    <3>1. i # 1 => s # << >> /\ i - 1 = Len(s) /\ t[i - 1] = s[Len(s)]
      BY <2>1, <1>1
    <3> QED
      BY <2>1, <3>1, <1>1
  <2>2. CASE i \in 1 .. Len(s)
    <3>1. s # << >> /\ t[i] = s[i]
      BY <2>2, <1>1
    <3>2. i # 1 => i - 1 \in 1 .. Len(s) /\ t[i - 1] = s[i - 1]
      BY <2>2, <1>1
    <3> QED
      BY <2>2, <3>1, <3>2 DEF Linked
  <2> QED
    BY <2>1, <2>2, <1>1
<1>3. Linked(t)
  BY <1>2 DEF Linked
<1>4. t[1] = IF s = << >> THEN e ELSE s[1]
  BY <1>1
<1> QED
  BY <1>1, <1>3, <1>4 DEF t

(* Taking the first row off for its INSERT keeps the others linked, and    *)
(* the next row names the one just taken.                                  *)
LEMMA LinkedTail ==
    ASSUME NEW s \in Seq(Staged), s # << >>, Linked(s)
    PROVE  /\ Head(s) = s[1] /\ s[1] \in Staged /\ Tail(s) \in Seq(Staged)
           /\ s[1].row_hash = compute_row_hash(s[1].prev_hash, s[1].rec)
           /\ Tail(s) = << >> => s[Len(s)] = s[1]
           /\ Tail(s) # << >> =>
                 /\ Linked(Tail(s))
                 /\ Tail(s)[1].prev_hash = s[1].row_hash
                 /\ Tail(s)[Len(Tail(s))] = s[Len(s)]
<1> DEFINE t == Tail(s)
<1>1. /\ Head(s) = s[1] /\ s[1] \in Staged /\ t \in Seq(Staged)
      /\ Len(s) \in Nat /\ Len(s) > 0 /\ Len(t) = Len(s) - 1
      /\ \A i \in 1 .. Len(t) : t[i] = s[i + 1]
      /\ t = << >> => Len(s) = 1
      /\ t # << >> => Len(s) > 1
  <2>1. Len(s) \in Nat /\ Len(s) > 0 /\ Head(s) = s[1] /\ s[1] \in Staged
    OBVIOUS
  <2>2. t \in Seq(Staged)
    OBVIOUS
  <2>3. Len(t) = Len(s) - 1 /\ \A i \in 1 .. Len(t) : t[i] = s[i + 1]
    OBVIOUS
  <2>4. t = << >> <=> Len(t) = 0
    BY <2>2, EmptySeq
  <2> QED
    BY <2>1, <2>2, <2>3, <2>4
<1> HIDE DEF t
<1>2. s[1].row_hash = compute_row_hash(s[1].prev_hash, s[1].rec)
  BY <1>1 DEF Linked
<1>3. ASSUME NEW i \in 1 .. Len(t)
      PROVE  /\ t[i] = s[i + 1]
             /\ t[i].row_hash = compute_row_hash(t[i].prev_hash, t[i].rec)
             /\ t[i].prev_hash = s[i].row_hash
  <2>1. i + 1 \in 1 .. Len(s) /\ i + 1 # 1 /\ (i + 1) - 1 = i /\ t[i] = s[i + 1]
    BY <1>1
  <2> QED
    BY <2>1 DEF Linked
<1>4. ASSUME NEW i \in 1 .. Len(t), i # 1
      PROVE  t[i].prev_hash = t[i - 1].row_hash
  <2>1. i - 1 \in 1 .. Len(t) /\ (i - 1) + 1 = i
    BY <1>1, <1>4
  <2>2. t[i - 1] = s[i]
    BY <2>1, <1>3
  <2> QED
    BY <2>2, <1>3
<1>5. ASSUME t # << >>
      PROVE  1 \in 1 .. Len(t) /\ Len(t) \in 1 .. Len(t) /\ t[Len(t)] = s[Len(s)]
  BY <1>1, <1>5
<1> QED
  BY <1>1, <1>2, <1>3, <1>4, <1>5 DEF t, Linked

(* The row AuditChain.append adds is linked to the rows staged before it.  *)
LEMMA AppendRecordKeeps ==
    ASSUME WInv, NEW r \in Req, AppendRecord(r) PROVE WInv'
<1> DEFINE rec == <<r, count[r] + 1>>
           h == compute_row_hash(head[r], rec)
           e == [rec |-> rec, prev_hash |-> head[r], row_hash |-> h]
<1>1. TypeOK /\ BaseOK(r) /\ PhaseOK(r) /\ r \notin Durable /\ pc[r] = "open"
  BY DEF WInv, AppendRecord
<1>2. rec \in Record /\ count[r] + 1 \in 0 .. MaxRecs
  BY <1>1, AuditConstants DEF TypeOK, AppendRecord, Record
<1>3. head[r] \in Hash /\ h \in Hash
  BY <1>1, <1>2 DEF TypeOK, Hash, compute_row_hash
<1>4. e \in Staged
  BY <1>2, <1>3 DEF Staged
<1>5. /\ staged' = [staged EXCEPT ![r] = Append(@, e)]
      /\ head' = [head EXCEPT ![r] = h]
      /\ count' = [count EXCEPT ![r] = @ + 1]
      /\ UNCHANGED <<table, nextSeq, pc, ins, tries, acted, outcome>>
  BY DEF AppendRecord
<1>6. e.prev_hash = head[r] /\ e.row_hash = h /\ e.rec = rec
  OBVIOUS
<1>7. staged[r] \in Seq(Staged) /\ staged'[r] = Append(staged[r], e) /\ head'[r] = h
  BY <1>1, <1>5 DEF TypeOK
<1> HIDE DEF e
<1>8. TypeOK'
  BY <1>1, <1>2, <1>3, <1>4, <1>5 DEF TypeOK
<1>9. Ordered(table)' /\ SeqsBelow' /\ \A o \in Req : WriterOK(o)'
  BY LogUntouched, <1>1, <1>5 DEF TypeOK
<1>10. /\ Linked(staged'[r]) /\ staged'[r] # << >>
       /\ staged'[r][Len(staged'[r])] = e
       /\ staged'[r][1] = IF staged[r] = << >> THEN e ELSE staged[r][1]
  <2>1. e.row_hash = compute_row_hash(e.prev_hash, e.rec)
    BY <1>6
  <2>2. staged[r] # << >> =>
            Linked(staged[r]) /\ e.prev_hash = staged[r][Len(staged[r])].row_hash
    BY <1>1, <1>6 DEF PhaseOK
  <2> QED
    BY <2>1, <2>2, <1>4, <1>7, LinkedAppend
<1>11. ASSUME NEW o \in Req PROVE BaseOK(o)' /\ PhaseOK(o)'
  <2>1. BaseOK(o) /\ PhaseOK(o)
    BY DEF WInv
  <2>2. CASE o # r
    BY <2>1, <2>2, <1>1, <1>5 DEF TypeOK, BaseOK, Writing, Base, PhaseOK
  <2>3. CASE o = r
    <3>1. Base(r)' = Base(r)
      BY <1>6, <1>10 DEF Base
    <3>2. BaseOK(r)'
      BY <3>1, <1>1, <1>5 DEF BaseOK, Writing
    <3>3. staged'[r] # << >> /\ staged'[r][Len(staged'[r])].row_hash = head'[r]
      BY <1>6, <1>7, <1>10
    <3>4. PhaseOK(r)'
      BY <3>3, <1>1, <1>5, <1>10 DEF PhaseOK
    <3> QED
      BY <2>3, <3>2, <3>4
  <2> QED
    BY <2>2, <2>3
<1> QED
  BY <1>8, <1>9, <1>11 DEF WInv

(* Carrying out the audited action leaves the log and the transactions     *)
(* alone.                                                                  *)
LEMMA ActKeeps ==
    ASSUME WInv, NEW r \in Req, Act(r) PROVE WInv'
<1>1. TypeOK'
  BY DEF WInv, Act, TypeOK
<1>2. Ordered(table)' /\ SeqsBelow' /\ \A o \in Req : WriterOK(o)'
  BY LogUntouched DEF Act, WInv, TypeOK
<1>3. \A o \in Req : BaseOK(o)' /\ PhaseOK(o)'
  BY DEF WInv, Act, BaseOK, Writing, Base, PhaseOK
<1> QED
  BY <1>1, <1>2, <1>3 DEF WInv

(* The session starts flushing the rows it has; none of them changes.      *)
LEMMA StartFlushKeeps ==
    ASSUME WInv, NEW r \in Req, StartFlush(r) PROVE WInv'
<1>1. TypeOK'
  BY DEF WInv, StartFlush, TypeOK
<1>2. Ordered(table)' /\ SeqsBelow' /\ \A o \in Req : WriterOK(o)'
  BY LogUntouched DEF StartFlush, WInv, TypeOK
<1>3. ASSUME NEW o \in Req PROVE BaseOK(o)' /\ PhaseOK(o)'
  <2>1. BaseOK(o) /\ PhaseOK(o) /\ TypeOK
    BY DEF WInv
  <2> QED
    BY <2>1 DEF StartFlush, TypeOK, BaseOK, Writing, Base, PhaseOK
<1> QED
  BY <1>1, <1>2, <1>3 DEF WInv

(* SAVEPOINT rolled back: only a sequence value may be lost.               *)
LEMMA DurableRetryKeeps ==
    ASSUME WInv, NEW r \in Req, DurableRetry(r) PROVE WInv'
<1>1. TypeOK /\ tries[r] + 1 \in 0 .. MaxRetries - 1
  BY AuditConstants DEF WInv, DurableRetry, TypeOK
<1>2. nextSeq' \in Nat \ {0} /\ nextSeq' >= nextSeq
  BY <1>1 DEF DurableRetry, TypeOK
<1>3. TypeOK'
  BY <1>1, <1>2 DEF DurableRetry, TypeOK
<1>4. Ordered(table)' /\ SeqsBelow' /\ \A o \in Req : WriterOK(o)'
  BY LogUntouched, <1>2 DEF DurableRetry
<1>5. ASSUME NEW o \in Req PROVE BaseOK(o)' /\ PhaseOK(o)'
  <2>1. BaseOK(o) /\ PhaseOK(o) /\ TypeOK
    BY DEF WInv
  <2> QED
    BY <2>1 DEF DurableRetry, TypeOK, BaseOK, Writing, Base, PhaseOK
<1> QED
  BY <1>3, <1>4, <1>5 DEF WInv

(* The flush inserts the oldest staged row; the next one continues it.     *)
LEMMA FlushRowKeeps ==
    ASSUME WInv, NEW r \in Req, FlushRow(r) PROVE WInv'
<1> DEFINE s == staged[r]
           row == s[1]
<1>1. /\ TypeOK /\ PhaseOK(r) /\ s # << >> /\ s \in Seq(Staged)
      /\ pc[r] = "flushing" /\ r \notin Durable
  BY DEF WInv, FlushRow, PhaseOK, TypeOK
<1>2. Linked(s) /\ head[r] = s[Len(s)].row_hash
  BY <1>1 DEF PhaseOK
<1>3. /\ Head(s) = row /\ row \in Staged /\ Tail(s) \in Seq(Staged)
      /\ row.row_hash = compute_row_hash(row.prev_hash, row.rec)
      /\ Tail(s) = << >> => s[Len(s)] = row
      /\ Tail(s) # << >> =>
            /\ Linked(Tail(s))
            /\ Tail(s)[1].prev_hash = row.row_hash
            /\ Tail(s)[Len(Tail(s))] = s[Len(s)]
  BY <1>1, <1>2, LinkedTail
<1>4. Writing(r) /\ row.prev_hash = Base(r)
  BY <1>1 DEF Writing, Base
<1>5. /\ Inserted(r, row)
      /\ staged' = [staged EXCEPT ![r] = Tail(s)]
      /\ UNCHANGED <<table, pc, head, count, tries, acted, outcome>>
  BY <1>3 DEF FlushRow
<1> HIDE DEF row
<1>6. /\ ins' \in [Req -> SUBSET Row] /\ nextSeq' \in Nat \ {0}
      /\ SeqsBelow'
      /\ \A o \in Req : WriterOK(o)'
      /\ ins'[r] # {} /\ \A o \in Req \ {r} : ins'[o] = {} /\ ins[o] = {}
      /\ load_head((table \cup ins[r])') = row.row_hash
  BY <1>3, <1>4, <1>5, InsertKeeps
<1>7. TypeOK'
  BY <1>1, <1>3, <1>5, <1>6 DEF TypeOK
<1>8. Ordered(table)'
  BY <1>5 DEF WInv
<1>9. staged'[r] = Tail(s) /\ head'[r] = head[r] /\ pc'[r] = "flushing"
  BY <1>1, <1>5 DEF TypeOK
<1>10. Base(r)' = row.row_hash
  BY <1>2, <1>3, <1>9 DEF Base
<1>11. BaseOK(r)'
  BY <1>6, <1>10 DEF BaseOK
<1>12. PhaseOK(r)'
  BY <1>1, <1>2, <1>3, <1>9 DEF PhaseOK
<1>13. ASSUME NEW o \in Req, o # r PROVE BaseOK(o)' /\ PhaseOK(o)'
  <2>1. BaseOK(o) /\ PhaseOK(o) /\ ins'[o] = ins[o]
    BY <1>6, <1>13 DEF WInv
  <2> QED
    BY <2>1, <1>1, <1>5, <1>13 DEF TypeOK, BaseOK, Writing, Base, PhaseOK
<1> QED
  BY <1>6, <1>7, <1>8, <1>11, <1>12, <1>13 DEF WInv

(* append_durable's INSERT, in its SAVEPOINT.                              *)
LEMMA DurableInsertKeeps ==
    ASSUME WInv, NEW r \in Req, DurableInsert(r) PROVE WInv'
<1> DEFINE row == DurableRow(r)
<1>1. TypeOK /\ PhaseOK(r) /\ pc[r] = "loaded"
  BY DEF WInv, DurableInsert
<1>2. r \in Durable /\ count[r] < MaxRecs /\ staged[r] = << >>
  BY <1>1 DEF PhaseOK
<1>3. count[r] + 1 \in 1 .. MaxRecs /\ head[r] \in Hash
  BY <1>1, <1>2, AuditConstants DEF TypeOK
<1>4. /\ row \in Staged /\ row.prev_hash = head[r]
      /\ row.row_hash = compute_row_hash(row.prev_hash, row.rec)
  BY <1>3 DEF DurableRow, Staged, Record, Hash, compute_row_hash
<1>5. Writing(r) /\ row.prev_hash = Base(r)
  BY <1>1, <1>2, <1>4 DEF Writing, Base
<1>6. /\ Inserted(r, row)
      /\ pc' = [pc EXCEPT ![r] = "open"]
      /\ count' = [count EXCEPT ![r] = @ + 1]
      /\ tries' = [tries EXCEPT ![r] = 0]
      /\ UNCHANGED <<table, head, staged, acted, outcome>>
  BY DEF DurableInsert
<1> HIDE DEF row
<1>7. /\ ins' \in [Req -> SUBSET Row] /\ nextSeq' \in Nat \ {0}
      /\ SeqsBelow'
      /\ \A o \in Req : WriterOK(o)'
      /\ \A o \in Req \ {r} : ins'[o] = {} /\ ins[o] = {}
  BY <1>4, <1>5, <1>6, InsertKeeps
<1>8. TypeOK'
  <2>1. count[r] + 1 \in 0 .. MaxRecs /\ 0 \in 0 .. MaxRetries - 1
    BY <1>3, AuditConstants
  <2>2. count' \in [Req -> 0 .. MaxRecs] /\ tries' \in [Req -> 0 .. MaxRetries - 1]
    BY <2>1, <1>1, <1>6 DEF TypeOK
  <2> QED
    BY <2>2, <1>1, <1>6, <1>7 DEF TypeOK
<1>9. Ordered(table)'
  BY <1>6 DEF WInv
<1>10. ASSUME NEW o \in Req PROVE BaseOK(o)' /\ PhaseOK(o)'
  <2>1. BaseOK(o) /\ PhaseOK(o)
    BY DEF WInv
  <2>2. CASE o = r
    <3>1. pc'[r] = "open" /\ staged'[r] = << >>
      BY <1>1, <1>2, <1>6 DEF TypeOK
    <3> QED
      BY <2>2, <3>1, <1>2 DEF BaseOK, Writing, PhaseOK
  <2>3. CASE o # r
    BY <2>1, <2>3, <1>1, <1>6, <1>7 DEF TypeOK, BaseOK, Writing, Base, PhaseOK
  <2> QED
    BY <2>2, <2>3
<1> QED
  BY <1>7, <1>8, <1>9, <1>10 DEF WInv

(* append_durable reads the head its own transaction sees.                 *)
LEMMA DurableLoadKeeps ==
    ASSUME WInv, NEW r \in Req, DurableLoad(r) PROVE WInv'
<1> DEFINE T == table \cup ins[r]
<1>1. TypeOK /\ Ordered(table) /\ WriterOK(r) /\ PhaseOK(r)
  BY DEF WInv
<1>2. T \in SUBSET Row
  BY <1>1 DEF TypeOK
<1>4. HasTop(T) /\ (ins[r] = {} => T = table)
  <2>1. CASE ins[r] = {}
    <3>1. T = table
      BY <2>1
    <3> QED
      BY <3>1, <1>1 DEF Ordered
  <2>2. CASE ins[r] # {}
    BY <2>2, <1>1 DEF WriterOK, Ordered
  <2> QED
    BY <2>1, <2>2
<1>5. load_head(T) \in Hash
  BY <1>2, <1>4, HeadKnown
<1>6. TypeOK'
  BY <1>1, <1>5 DEF DurableLoad, TypeOK
<1>7. Ordered(table)' /\ SeqsBelow' /\ \A o \in Req : WriterOK(o)'
  BY LogUntouched, <1>1 DEF DurableLoad, TypeOK
<1>8. ASSUME NEW o \in Req PROVE BaseOK(o)' /\ PhaseOK(o)'
  <2>1. BaseOK(o) /\ PhaseOK(o)
    BY DEF WInv
  <2>2. CASE o = r
    <3>1. /\ head'[r] = load_head(T) /\ pc'[r] = "loaded" /\ staged[r] = << >>
          /\ r \in Durable /\ count[r] < MaxRecs
          /\ UNCHANGED <<table, ins, staged, count>>
      BY <1>1 DEF DurableLoad, TypeOK, PhaseOK
    <3>2. BaseOK(r)'
      BY <3>1, <1>4 DEF BaseOK, Base
    <3>3. PhaseOK(r)'
      BY <3>1 DEF PhaseOK
    <3> QED
      BY <2>2, <3>2, <3>3
  <2>3. CASE o # r
    BY <2>1, <2>3, <1>1 DEF DurableLoad, TypeOK, BaseOK, Writing, Base, PhaseOK
  <2> QED
    BY <2>2, <2>3
<1> QED
  BY <1>6, <1>7, <1>8 DEF WInv

(* A transaction that ends without committing takes its rows with it.      *)
LEMMA AbortKeeps ==
    ASSUME WInv, NEW r \in Req, NEW used \in Nat,
           NEW how \in {"forked", "failed"}, Abort(r, how, used)
    PROVE  WInv'
<1>1. TypeOK /\ SeqsBelow /\ Ordered(table) /\ WriterOK(r)
  BY DEF WInv
<1>2. /\ pc' = [pc EXCEPT ![r] = "done"]
      /\ outcome' = [outcome EXCEPT ![r] = how]
      /\ staged' = [staged EXCEPT ![r] = << >>]
      /\ ins' = [ins EXCEPT ![r] = {}]
      /\ nextSeq' = SeqAfterRollback(r, used)
      /\ UNCHANGED <<table, head, count, tries, acted>>
  BY DEF Abort, End
<1>3. \A o \in Req : ins'[o] = IF o = r THEN {} ELSE ins[o]
  BY <1>1, <1>2 DEF TypeOK
<1>4. nextSeq' \in Nat \ {0} /\ SeqsBelow'
  <2>1. CASE SeqBurns \/ ins[r] = {}
    <3>1. nextSeq' \in Nat \ {0} /\ nextSeq' >= nextSeq
      BY <2>1, <1>1, <1>2 DEF SeqAfterRollback, TypeOK
    <3>2. \A x \in Row : x.seq < nextSeq => x.seq < nextSeq'
      BY <3>1, <1>1 DEF TypeOK, Row
    <3> QED
      BY <3>1, <3>2, <1>1, <1>2, <1>3 DEF SeqsBelow, TypeOK
  <2>2. CASE ~SeqBurns /\ ins[r] # {}
    <3>1. \A o \in Req : ins'[o] = {}
      BY <2>2, <1>1, <1>3 DEF WriterOK
    <3>2. CASE table = {}
      BY <2>2, <3>1, <3>2, <1>2 DEF SeqAfterRollback, SeqsBelow
    <3>3. CASE table # {}
      <4>1. LastRow(table) \in table /\ \A y \in table : y.seq <= LastRow(table).seq
        BY <3>3, <1>1, TopRow DEF Ordered, TypeOK
      <4>2. nextSeq' = LastRow(table).seq + 1
        BY <2>2, <3>3, <1>2 DEF SeqAfterRollback
      <4>3. \A y \in table : y.seq \in Nat \ {0}
        BY <1>1 DEF TypeOK, Row
      <4>4. nextSeq' \in Nat \ {0} /\ \A y \in table : y.seq < nextSeq'
        BY <4>1, <4>2, <4>3
      <4> QED
        BY <4>4, <3>1, <1>2 DEF SeqsBelow
    <3> QED
      BY <3>2, <3>3
  <2> QED
    BY <2>1, <2>2
<1>5. TypeOK'
  <2>1. << >> \in Seq(Staged)
    BY EmptySeq
  <2> QED
    BY <2>1, <1>1, <1>2, <1>4 DEF TypeOK
<1>6. Ordered(table)'
  BY <1>1, <1>2
<1>7. ASSUME NEW o \in Req PROVE WriterOK(o)' /\ BaseOK(o)' /\ PhaseOK(o)'
  <2>1. WriterOK(o) /\ BaseOK(o) /\ PhaseOK(o)
    BY DEF WInv
  <2>2. CASE o = r
    <3>1. ins'[r] = {} /\ pc'[r] = "done" /\ staged'[r] = << >>
      BY <1>1, <1>2 DEF TypeOK
    <3> QED
      BY <2>2, <3>1 DEF WriterOK, BaseOK, Writing, PhaseOK
  <2>3. CASE o # r
    <3>1. WriterOK(o)'
      BY <2>1, <2>3, <1>2, <1>3 DEF WriterOK
    <3>2. BaseOK(o)' /\ PhaseOK(o)'
      BY <2>1, <2>3, <1>1, <1>2, <1>3 DEF TypeOK, BaseOK, Writing, Base, PhaseOK
    <3> QED
      BY <3>1, <3>2
  <2> QED
    BY <2>2, <2>3
<1> QED
  BY <1>4, <1>5, <1>6, <1>7 DEF WInv

(* A commit publishes the one transaction that may have rows.              *)
LEMMA CommitKeeps ==
    ASSUME WInv, NEW r \in Req, Commit(r) PROVE WInv'
<1>1. TypeOK /\ SeqsBelow /\ Ordered(table) /\ WriterOK(r)
  BY DEF WInv
<1>2. /\ pc' = [pc EXCEPT ![r] = "done"]
      /\ outcome' = [outcome EXCEPT ![r] = "committed"]
      /\ staged' = [staged EXCEPT ![r] = << >>]
      /\ ins' = [ins EXCEPT ![r] = {}]
      /\ table' = table \cup ins[r]
      /\ UNCHANGED <<nextSeq, head, count, tries, acted>>
  BY DEF Commit, End
<1>3. \A o \in Req : ins'[o] = IF o = r THEN {} ELSE ins[o]
  BY <1>1, <1>2 DEF TypeOK
<1>4. TypeOK'
  <2>1. << >> \in Seq(Staged) /\ table' \subseteq Row
    BY EmptySeq, <1>1, <1>2 DEF TypeOK
  <2> QED
    BY <2>1, <1>1, <1>2 DEF TypeOK
<1>5. SeqsBelow'
  BY <1>1, <1>2, <1>3 DEF SeqsBelow
<1>6. ins[r] = {} => table' = table
  BY <1>2
<1>7. Ordered(table')
  BY <1>1, <1>2, <1>6 DEF WriterOK
<1>8. ins[r] # {} => \E y \in table' : y.prev_hash = load_head(table)
  BY <1>1, <1>2 DEF WriterOK
<1>9. ASSUME NEW o \in Req PROVE WriterOK(o)' /\ BaseOK(o)' /\ PhaseOK(o)'
  <2>1. WriterOK(o) /\ BaseOK(o) /\ PhaseOK(o)
    BY DEF WInv
  <2>2. CASE o = r
    <3>1. ins'[r] = {} /\ pc'[r] = "done" /\ staged'[r] = << >>
      BY <1>1, <1>2 DEF TypeOK
    <3> QED
      BY <2>2, <3>1 DEF WriterOK, BaseOK, Writing, PhaseOK
  <2>3. CASE o # r
    <3>1. ins[o] # {} => table' = table
      BY <2>3, <1>1, <1>6 DEF WriterOK
    <3>2. WriterOK(o)'
      BY <2>1, <2>3, <3>1, <1>3 DEF WriterOK
    <3>3. Base(o)' = Base(o) /\ Writing(o)' = Writing(o) /\ ins'[o] = ins[o]
      BY <2>3, <1>1, <1>2, <1>3 DEF TypeOK, Base, Writing
    <3>4. BaseOK(o)'
      BY <2>1, <3>1, <3>3, <1>2, <1>6, <1>8 DEF BaseOK
    <3>5. PhaseOK(o)'
      BY <2>1, <2>3, <3>3, <1>1, <1>2 DEF TypeOK, PhaseOK
    <3> QED
      BY <3>2, <3>4, <3>5
  <2> QED
    BY <2>2, <2>3
<1> QED
  BY <1>4, <1>5, <1>7, <1>9 DEF WInv

-----------------------------------------------------------------------------

(* Every step of every request keeps the writers' part.                    *)
LEMMA NextKeepsW == WInv /\ [Next]_vars => WInv'
<1> SUFFICES ASSUME WInv, [Next]_vars PROVE WInv'
  OBVIOUS
<1>1. CASE UNCHANGED vars
  BY <1>1 DEF vars, WInv, TypeOK, SeqsBelow, WriterOK, BaseOK, Writing, Base, PhaseOK
<1>2. ASSUME NEW r \in Req, Begin(r) PROVE WInv'
  BY <1>2, BeginKeeps
<1>3. ASSUME NEW r \in Req, Rollback(r) PROVE WInv'
  BY <1>3, AbortKeeps DEF Rollback
<1>4. ASSUME NEW r \in Req, Step(r) PROVE WInv'
  <2>1. CASE AppendRecord(r)
    BY <2>1, AppendRecordKeeps
  <2>2. CASE Act(r)
    BY <2>2, ActKeeps
  <2>3. CASE StartFlush(r)
    BY <2>3, StartFlushKeeps
  <2>4. CASE FlushRow(r)
    BY <2>4, FlushRowKeeps
  <2>5. CASE FlushConflict(r)
    BY <2>5, AbortKeeps DEF FlushConflict
  <2>6. CASE Commit(r)
    BY <2>6, CommitKeeps
  <2>7. CASE DurableLoad(r)
    BY <2>7, DurableLoadKeeps
  <2>8. CASE DurableInsert(r)
    BY <2>8, DurableInsertKeeps
  <2>9. CASE DurableRetry(r)
    BY <2>9, DurableRetryKeeps
  <2>10. CASE DurableGiveUp(r)
    BY <2>10, AbortKeeps DEF DurableGiveUp
  <2> QED
    BY <1>4, <2>1, <2>2, <2>3, <2>4, <2>5, <2>6, <2>7, <2>8, <2>9, <2>10 DEF Step
<1> QED
  BY <1>1, <1>2, <1>3, <1>4 DEF Next, Terminated

(* No step breaks the chain: an INSERT continues the head, a commit        *)
(* publishes what was inserted, and a rollback drops it.                   *)
LEMMA ChainKeeps == IInv /\ [Next]_vars => Chained'
<1> SUFFICES ASSUME IInv, [Next]_vars PROVE Chained'
  OBVIOUS
<1>1. WInv /\ Chained /\ TypeOK
  BY DEF IInv, WInv
<1>2. CASE UNCHANGED <<table, ins>>
  BY <1>1, <1>2 DEF Chained
<1>3. ASSUME NEW r \in Req, FlushRow(r) PROVE Chained'
  <2> DEFINE row == staged[r][1]
  <2>1. /\ staged[r] # << >> /\ staged[r] \in Seq(Staged) /\ PhaseOK(r) /\ table' = table
        /\ Inserted(r, Head(staged[r])) /\ pc[r] = "flushing" /\ r \notin Durable
    BY <1>1, <1>3 DEF FlushRow, WInv, TypeOK, PhaseOK
  <2>2. /\ Head(staged[r]) = row /\ row \in Staged
        /\ row.row_hash = compute_row_hash(row.prev_hash, row.rec)
    BY <2>1, LinkedTail DEF PhaseOK
  <2>3. Writing(r) /\ row.prev_hash = Base(r) /\ Inserted(r, row)
    BY <2>1, <2>2 DEF Writing, Base
  <2> HIDE DEF row
  <2> QED
    BY <1>1, <2>1, <2>2, <2>3, InsertKeeps
<1>4. ASSUME NEW r \in Req, DurableInsert(r) PROVE Chained'
  <2> DEFINE row == DurableRow(r)
  <2>1. PhaseOK(r) /\ pc[r] = "loaded" /\ table' = table /\ Inserted(r, row)
    BY <1>1, <1>4 DEF WInv, DurableInsert
  <2>2. r \in Durable /\ count[r] < MaxRecs /\ staged[r] = << >>
    BY <2>1 DEF PhaseOK
  <2>3. count[r] + 1 \in 1 .. MaxRecs /\ head[r] \in Hash
    BY <1>1, <2>2, AuditConstants DEF TypeOK
  <2>4. /\ row \in Staged /\ row.prev_hash = head[r]
        /\ row.row_hash = compute_row_hash(row.prev_hash, row.rec)
    BY <2>3 DEF DurableRow, Staged, Record, Hash, compute_row_hash
  <2>5. Writing(r) /\ row.prev_hash = Base(r)
    BY <2>1, <2>2, <2>4 DEF Writing, Base
  <2> HIDE DEF row
  <2> QED
    BY <1>1, <2>1, <2>4, <2>5, InsertKeeps
<1>5. ASSUME NEW r \in Req, Commit(r) PROVE Chained'
  <2>1. /\ table' = table \cup ins[r]
        /\ \A o \in Req : ins'[o] = IF o = r THEN {} ELSE ins[o]
    BY <1>1, <1>5 DEF Commit, End, TypeOK
  <2>2. CASE ins[r] = {}
    <3>1. table' = table
      BY <2>1, <2>2
    <3> QED
      BY <1>1, <2>1, <3>1 DEF Chained
  <2>3. CASE ins[r] # {}
    <3>1. \A o \in Req : ins'[o] = {}
      BY <1>1, <2>1, <2>3 DEF WInv, WriterOK
    <3>2. verify_chain(table')
      BY <1>1, <2>1, <2>3 DEF Chained
    <3> QED
      BY <3>1, <3>2 DEF Chained
  <2> QED
    BY <2>2, <2>3
<1>6. ASSUME NEW r \in Req, Rollback(r) \/ FlushConflict(r) \/ DurableGiveUp(r) PROVE Chained'
  <2>1. table' = table /\ \A o \in Req : ins'[o] = IF o = r THEN {} ELSE ins[o]
    BY <1>1, <1>6 DEF Rollback, FlushConflict, DurableGiveUp, Abort, End, TypeOK
  <2> QED
    BY <1>1, <2>1 DEF Chained
<1> QED
  BY <1>2, <1>3, <1>4, <1>5, <1>6
     DEF Next, Terminated, vars, Step, Begin, AppendRecord, Act, StartFlush, DurableLoad,
         DurableRetry

(* Every step of every request keeps the invariant.                        *)
LEMMA NextKeeps == IInv /\ [Next]_vars => IInv'
  BY NextKeepsW, ChainKeeps DEF IInv

(* The invariant holds in every reachable state.                           *)
LEMMA Invariance == Spec => []IInv
  BY InitIInv, NextKeeps, PTL DEF Spec

(* Every variable keeps its type: the head that load_head returns is a     *)
(* hash even though the table is only known to be some set of rows.        *)
THEOREM TypeCorrect == Spec => []TypeOK
<1>1. IInv => TypeOK
  BY DEF IInv, WInv
<1> QED
  BY <1>1, Invariance, PTL

(* The persisted audit log (remediation_audit) is one unbroken hash chain  *)
(* for any number of concurrent requests of both kinds, any interleaving   *)
(* of reads, inserts, commits and rollbacks, and both databases.           *)
THEOREM ChainIsUnbroken == Spec => []ChainUnbroken
<1>1. IInv => ChainUnbroken
  BY DEF IInv, Chained, ChainUnbroken
<1> QED
  BY <1>1, Invariance, PTL

(* The UNIQUE constraints admit one uncommitted writer at a time, and it   *)
(* continues the committed head.                                           *)
THEOREM OneWriter == Spec => []OneWriterAtTheHead
<1>1. IInv => OneWriterAtTheHead
  BY DEF IInv, WInv, Chained, WriterOK, OneWriterAtTheHead
<1> QED
  BY <1>1, Invariance, PTL

(* A persisted row is never changed or removed, and the seq order is the   *)
(* commit order: verify_chain may read the rows by seq.                    *)
THEOREM LogIsAppendOnly == Spec => AppendOnly
<1> DEFINE A == /\ table \subseteq table'
                /\ \A x \in table' \ table : \A y \in table : y.seq < x.seq
<1>1. IInv /\ [Next]_vars => [A]_table
  <2> SUFFICES ASSUME IInv, [Next]_vars, table' # table PROVE A
    OBVIOUS
  <2>1. PICK r \in Req : Commit(r)
    BY DEF Next, vars, Terminated, Step, Begin, Rollback, AppendRecord, Act,
           StartFlush, FlushRow, FlushConflict, DurableLoad, DurableInsert,
           DurableRetry, DurableGiveUp, Abort
  <2>2. table' = table \cup ins[r]
    BY <2>1 DEF Commit
  <2> QED
    BY <2>2 DEF IInv, WInv, WriterOK
<1> QED
  BY <1>1, Invariance, PTL DEF Spec, AppendOnly

-----------------------------------------------------------------------------
(* The detailed store implements AuditLog.                                 *)

(* How many of its records a request's transaction has inserted.           *)
Written(r) == count[r] - Len(staged[r])

(* What a request that has not ended has inserted is the beginning of its  *)
(* records, in order and right after the committed log; the session holds  *)
(* the rest.                                                               *)
OwnRecords(r) ==
    pc[r] # "done" =>
        /\ Written(r) >= 0
        /\ \A i \in 1 .. Len(staged[r]) :
               staged[r][i].rec = <<r, Written(r) + i>>
        /\ ins[r] = {} <=> Written(r) = 0
        /\ ins[r] # {} =>
               load_head(table \cup ins[r])
                   = load_head(table) \o Readers!Batch(r, Written(r))
        /\ pc[r] = "flushing" => count[r] > 0
        /\ outcome[r] # "committed"

RInv == \A r \in Req : OwnRecords(r)

(* A batch is a sequence of records, and one more record is what the next  *)
(* hash commits to (compute_row_hash).                                     *)
LEMMA BatchGrows ==
    ASSUME NEW h \in Hash, NEW r \in Req, NEW n \in Nat, n + 1 \in 1 .. MaxRecs
    PROVE  /\ h \o Readers!Batch(r, 0) = h
           /\ compute_row_hash(h \o Readers!Batch(r, n), <<r, n + 1>>)
                  = h \o Readers!Batch(r, n + 1)
<1> DEFINE a == Readers!Batch(r, n)
           b == Readers!Batch(r, n + 1)
           e == <<r, n + 1>>
<1> USE AuditConstants
<1>1. e \in Record
  BY DEF Record
<1>2. a \in Seq(Record) /\ Len(a) = n /\ \A i \in 1 .. n : a[i] = <<r, i>>
  <2>1. \A i \in 1 .. n : <<r, i>> \in Record
    BY DEF Record
  <2> QED
    BY <2>1 DEF Readers!Batch
<1>3. b \in Seq(Record) /\ Len(b) = n + 1 /\ \A i \in 1 .. n + 1 : b[i] = <<r, i>>
  <2>1. \A i \in 1 .. n + 1 : <<r, i>> \in Record
    BY DEF Record
  <2> QED
    BY <2>1 DEF Readers!Batch
<1>4. Readers!Batch(r, 0) = << >>
  BY DEF Readers!Batch
<1>5. h \o Readers!Batch(r, 0) = h
  BY <1>4, ConcatEmptySeq DEF Hash
<1> HIDE DEF a, b, e
<1>6. b = Append(a, e)
  <2>1. /\ Append(a, e) \in Seq(Record) /\ Len(Append(a, e)) = n + 1
        /\ \A i \in 1 .. n : Append(a, e)[i] = a[i]
        /\ Append(a, e)[n + 1] = e
    BY <1>1, <1>2, AppendProperties
  <2>2. ASSUME NEW i \in 1 .. n + 1 PROVE b[i] = Append(a, e)[i]
    <3>1. i = n + 1 \/ i \in 1 .. n
      OBVIOUS
    <3>2. b[i] = <<r, i>>
      BY <1>3
    <3>3. CASE i = n + 1
      BY <3>2, <3>3, <2>1 DEF e
    <3>4. CASE i \in 1 .. n
      BY <3>2, <3>4, <2>1, <1>2
    <3> QED
      BY <3>1, <3>3, <3>4
  <2> QED
    BY <2>1, <2>2, <1>3, SeqEqual
<1>7. Append(h \o a, e) = h \o Append(a, e)
  <2>1. h \in Seq(Record) /\ h \o a \in Seq(Record) /\ <<e>> \in Seq(Record)
    BY <1>1, <1>2, ConcatProperties DEF Hash
  <2>2. Append(h \o a, e) = (h \o a) \o <<e>>
    BY <2>1, <1>1, AppendIsConcat
  <2>3. Append(a, e) = a \o <<e>>
    BY <1>1, <1>2, AppendIsConcat
  <2>4. (h \o a) \o <<e>> = h \o (a \o <<e>>)
    BY <2>1, <1>2, ConcatAssociative
  <2> QED
    BY <2>2, <2>3, <2>4
<1> QED
  BY <1>5, <1>6, <1>7 DEF a, b, e, compute_row_hash

(* An INSERT of a request's next record makes the log its transaction sees *)
(* one record longer.                                                      *)
LEMMA InsertExtends ==
    ASSUME IInv, NEW r \in Req, OwnRecords(r), NEW row \in Staged, Writing(r),
           row.prev_hash = Base(r),
           row.row_hash = compute_row_hash(row.prev_hash, row.rec),
           Written(r) + 1 \in 1 .. MaxRecs, Written(r) \in Nat,
           row.rec = <<r, Written(r) + 1>>,
           Inserted(r, row), table' = table
    PROVE  /\ ins'[r] # {}
           /\ load_head((table \cup ins[r])')
                  = load_head(table) \o Readers!Batch(r, Written(r) + 1)
           /\ \A o \in Req \ {r} : ins'[o] = ins[o]
<1>1. /\ load_head((table \cup ins[r])') = row.row_hash /\ ins'[r] # {}
      /\ \A o \in Req \ {r} : ins'[o] = ins[o]
  BY InsertKeeps DEF IInv
<1>2. row.prev_hash = load_head(table \cup ins[r])
  BY InsertAtHead DEF IInv
<1>3. load_head(table) \in Hash
  BY HeadKnown DEF IInv, WInv, TypeOK, Ordered
<1>4. pc[r] # "done"
  BY DEF Writing
<1>5. /\ load_head(table) \o Readers!Batch(r, 0) = load_head(table)
      /\ compute_row_hash(load_head(table) \o Readers!Batch(r, Written(r)),
                          <<r, Written(r) + 1>>)
             = load_head(table) \o Readers!Batch(r, Written(r) + 1)
  BY <1>3, BatchGrows
<1>6. row.prev_hash = load_head(table) \o Readers!Batch(r, Written(r))
  <2>1. CASE ins[r] = {}
    <3>1. table \cup ins[r] = table /\ Written(r) = 0
      BY <2>1, <1>4 DEF OwnRecords
    <3> QED
      BY <3>1, <1>2, <1>5
  <2>2. CASE ins[r] # {}
    BY <2>2, <1>2, <1>4 DEF OwnRecords
  <2> QED
    BY <2>1, <2>2
<1> QED
  BY <1>1, <1>5, <1>6

(* Starting, acting, retrying and handing rows to the flush leave what a   *)
(* transaction has inserted alone.                                         *)
LEMMA QuietSteps ==
    ASSUME IInv, RInv, NEW r \in Req,
           Begin(r) \/ Act(r) \/ StartFlush(r) \/ DurableLoad(r) \/ DurableRetry(r)
    PROVE  RInv' /\ UNCHANGED <<table, outcome>>
<1> SUFFICES ASSUME NEW o \in Req PROVE OwnRecords(o)' /\ UNCHANGED <<table, outcome>>
  BY DEF RInv
<1>1. UNCHANGED <<table, ins, staged, count, outcome>>
  BY DEF Begin, Act, StartFlush, DurableLoad, DurableRetry
<1>2. TypeOK /\ OwnRecords(o)
  BY DEF IInv, WInv, RInv
<1>3. pc'[o] # "done" => pc[o] # "done"
  BY <1>2 DEF Begin, Act, StartFlush, DurableLoad, DurableRetry, TypeOK
<1>4. Written(o)' = Written(o)
  BY <1>1 DEF Written
<1>5. pc'[o] = "flushing" => count[o] > 0
  <2>1. CASE o = r /\ StartFlush(r)
    <3>1. staged[o] # << >> /\ staged[o] \in Seq(Staged) /\ count[o] \in Nat /\ pc[o] # "done"
      BY <2>1, <1>2, AuditConstants DEF StartFlush, TypeOK
    <3>2. Len(staged[o]) \in Nat \ {0} /\ Written(o) >= 0
      BY <3>1, <1>2, EmptySeq DEF OwnRecords
    <3> QED
      BY <3>1, <3>2 DEF Written
  <2>2. CASE ~(o = r /\ StartFlush(r))
    <3>1. pc'[o] = "flushing" => pc[o] = "flushing"
      BY <2>2, <1>2 DEF Begin, Act, StartFlush, DurableLoad, DurableRetry, TypeOK
    <3> QED
      BY <3>1, <1>2 DEF OwnRecords
  <2> QED
    BY <2>1, <2>2
<1> QED
  BY <1>1, <1>2, <1>3, <1>4, <1>5 DEF OwnRecords

(* AuditChain.append numbers the records of a request in the order they    *)
(* are added to the session.                                               *)
LEMMA AppendRecordOwn ==
    ASSUME IInv, RInv, NEW r \in Req, AppendRecord(r)
    PROVE  RInv' /\ UNCHANGED <<table, outcome>>
<1> DEFINE rec == <<r, count[r] + 1>>
           e == [rec |-> rec, prev_hash |-> head[r],
                 row_hash |-> compute_row_hash(head[r], rec)]
           s == staged[r]
<1>1. /\ staged' = [staged EXCEPT ![r] = Append(@, e)]
      /\ count' = [count EXCEPT ![r] = @ + 1]
      /\ pc[r] = "open"
      /\ UNCHANGED <<table, pc, ins, outcome>>
  BY DEF AppendRecord
<1>2. TypeOK /\ \A o \in Req : OwnRecords(o)
  BY DEF IInv, WInv, RInv
<1>3. s \in Seq(Staged) /\ count[r] \in Nat /\ count[r] + 1 \in 1 .. MaxRecs /\ head[r] \in Hash
  BY <1>2, AuditConstants DEF TypeOK, AppendRecord
<1>4. e \in Staged /\ e.rec = rec
  <2>1. rec \in Record
    BY <1>3 DEF Record
  <2> QED
    BY <2>1, <1>3 DEF Staged, Hash, compute_row_hash
<1>5. staged'[r] = Append(s, e) /\ count'[r] = count[r] + 1
  BY <1>1, <1>2 DEF TypeOK
<1> HIDE DEF e
<1>6. /\ Len(s) \in Nat /\ Len(staged'[r]) = Len(s) + 1
      /\ \A i \in 1 .. Len(s) : staged'[r][i] = s[i]
      /\ staged'[r][Len(s) + 1] = e
  BY <1>3, <1>4, <1>5, AppendProperties, LenProperties
<1>7. Written(r)' = Written(r) /\ Written(r) + (Len(s) + 1) = count[r] + 1
  BY <1>3, <1>5, <1>6 DEF Written
<1>8. OwnRecords(r)'
  <2>1. ASSUME NEW i \in 1 .. Len(staged'[r])
        PROVE  staged'[r][i].rec = <<r, Written(r) + i>>
    <3>1. CASE i = Len(s) + 1
      BY <3>1, <1>4, <1>6, <1>7
    <3>2. CASE i \in 1 .. Len(s)
      BY <3>2, <1>1, <1>2, <1>6 DEF OwnRecords
    <3> QED
      BY <3>1, <3>2, <1>6
  <2>2. OwnRecords(r) /\ pc[r] # "done" /\ pc'[r] = "open"
    BY <1>1, <1>2
  <2> QED
    BY <2>1, <2>2, <1>1, <1>7 DEF OwnRecords
<1>9. ASSUME NEW o \in Req, o # r PROVE OwnRecords(o)'
  <2>1. staged'[o] = staged[o] /\ count'[o] = count[o]
    BY <1>1, <1>2, <1>9 DEF TypeOK
  <2>2. Written(o)' = Written(o)
    BY <2>1 DEF Written
  <2> QED
    BY <2>1, <2>2, <1>1, <1>2 DEF OwnRecords
<1> QED
  BY <1>1, <1>8, <1>9 DEF RInv

(* The flush inserts the next record of the request.                       *)
LEMMA FlushRowOwn ==
    ASSUME IInv, RInv, NEW r \in Req, FlushRow(r)
    PROVE  RInv' /\ UNCHANGED <<table, outcome>>
<1> DEFINE s == staged[r]
           row == s[1]
<1>1. /\ TypeOK /\ PhaseOK(r) /\ \A o \in Req : OwnRecords(o)
      /\ s # << >> /\ s \in Seq(Staged) /\ pc[r] = "flushing" /\ r \notin Durable
  BY DEF IInv, WInv, RInv, FlushRow, PhaseOK, TypeOK
<1>2. /\ Head(s) = row /\ row \in Staged
      /\ row.row_hash = compute_row_hash(row.prev_hash, row.rec)
  BY <1>1, LinkedTail DEF PhaseOK
<1>3. /\ Inserted(r, row)
      /\ staged' = [staged EXCEPT ![r] = Tail(s)]
      /\ UNCHANGED <<table, pc, count, outcome>>
  BY <1>2 DEF FlushRow
<1>4. staged'[r] = Tail(s) /\ \A o \in Req \ {r} : staged'[o] = staged[o]
  BY <1>1, <1>3 DEF TypeOK
<1>5. /\ Len(s) \in Nat \ {0} /\ Len(Tail(s)) = Len(s) - 1
      /\ \A i \in 1 .. Len(Tail(s)) : Tail(s)[i] = s[i + 1]
  BY <1>1, EmptySeq, HeadTailProperties
<1>6. count[r] \in 0 .. MaxRecs /\ Written(r) >= 0
  BY <1>1 DEF TypeOK, OwnRecords
<1>7. /\ Written(r) \in Nat /\ Written(r) + 1 \in 1 .. MaxRecs
      /\ Written(r)' = Written(r) + 1
  <2>1. Written(r)' = count[r] - (Len(s) - 1)
    BY <1>3, <1>4, <1>5 DEF Written
  <2>2. Written(r) = count[r] - Len(s)
    BY DEF Written
  <2> QED
    BY <2>1, <2>2, <1>5, <1>6, AuditConstants
<1>8. row.rec = <<r, Written(r) + 1>>
  <2>1. 1 \in 1 .. Len(s) /\ pc[r] # "done"
    BY <1>1, <1>5
  <2> QED
    BY <2>1, <1>1 DEF OwnRecords
<1>9. Writing(r) /\ row.prev_hash = Base(r)
  BY <1>1 DEF Writing, Base
<1>10. /\ ins'[r] # {}
       /\ load_head((table \cup ins[r])')
              = load_head(table) \o Readers!Batch(r, Written(r) + 1)
       /\ \A o \in Req \ {r} : ins'[o] = ins[o]
  <2> HIDE DEF row
  <2> QED
    BY <1>1, <1>2, <1>3, <1>7, <1>8, <1>9, InsertExtends
<1>11. OwnRecords(r)'
  <2>1. ASSUME NEW i \in 1 .. Len(Tail(s))
        PROVE  Tail(s)[i].rec = <<r, (Written(r) + 1) + i>>
    <3>1. i + 1 \in 1 .. Len(s) /\ Written(r) + (i + 1) = (Written(r) + 1) + i
      BY <1>5, <1>7
    <3> QED
      BY <3>1, <1>1, <1>5 DEF OwnRecords
  <2>2. count'[r] > 0 /\ outcome'[r] # "committed" /\ table' = table
    BY <1>1, <1>3 DEF OwnRecords
  <2>3. Written(r)' >= 0 /\ Written(r)' # 0
    BY <1>7
  <2> QED
    BY <2>1, <2>2, <2>3, <1>4, <1>7, <1>10 DEF OwnRecords
<1>12. ASSUME NEW o \in Req, o # r PROVE OwnRecords(o)'
  <2>1. Written(o)' = Written(o) /\ ins'[o] = ins[o] /\ staged'[o] = staged[o]
    BY <1>3, <1>4, <1>10, <1>12 DEF Written
  <2> QED
    BY <2>1, <1>1, <1>3 DEF OwnRecords
<1> QED
  BY <1>3, <1>11, <1>12 DEF RInv

(* append_durable inserts the next record of the request.                  *)
LEMMA DurableInsertOwn ==
    ASSUME IInv, RInv, NEW r \in Req, DurableInsert(r)
    PROVE  RInv' /\ UNCHANGED <<table, outcome>>
<1> DEFINE row == DurableRow(r)
<1>1. TypeOK /\ PhaseOK(r) /\ pc[r] = "loaded" /\ \A o \in Req : OwnRecords(o)
  BY DEF IInv, WInv, RInv, DurableInsert
<1>2. count[r] < MaxRecs /\ staged[r] = << >> /\ count[r] \in Nat /\ head[r] \in Hash
  BY <1>1, AuditConstants DEF PhaseOK, TypeOK
<1>3. Len(staged[r]) = 0 /\ Written(r) = count[r] /\ Written(r) + 1 \in 1 .. MaxRecs
  BY <1>2, AuditConstants, EmptySeq DEF Written
<1>4. /\ row \in Staged /\ row.prev_hash = head[r]
      /\ row.row_hash = compute_row_hash(row.prev_hash, row.rec)
      /\ row.rec = <<r, Written(r) + 1>>
  BY <1>2, <1>3 DEF DurableRow, Staged, Record, Hash, compute_row_hash
<1>5. Writing(r) /\ row.prev_hash = Base(r)
  BY <1>1, <1>2, <1>4 DEF Writing, Base
<1>6. /\ Inserted(r, row)
      /\ pc' = [pc EXCEPT ![r] = "open"]
      /\ count' = [count EXCEPT ![r] = @ + 1]
      /\ UNCHANGED <<table, staged, outcome>>
  BY DEF DurableInsert
<1>7. /\ ins'[r] # {}
      /\ load_head((table \cup ins[r])')
             = load_head(table) \o Readers!Batch(r, Written(r) + 1)
      /\ \A o \in Req \ {r} : ins'[o] = ins[o]
  <2> HIDE DEF row
  <2> QED
    BY <1>1, <1>2, <1>3, <1>4, <1>5, <1>6, InsertExtends
<1>8. pc'[r] = "open" /\ count'[r] = count[r] + 1
  BY <1>1, <1>6 DEF TypeOK
<1>9. Written(r)' = Written(r) + 1 /\ Written(r)' >= 0 /\ Written(r)' # 0
  BY <1>2, <1>3, <1>6, <1>8 DEF Written
<1>10. OwnRecords(r)'
  <2>1. Len(staged'[r]) = 0 /\ table' = table
    BY <1>3, <1>6
  <2>2. outcome'[r] # "committed"
    BY <1>1, <1>6 DEF OwnRecords
  <2>3. 1 .. Len(staged'[r]) = {}
    BY <2>1
  <2> QED
    BY <2>1, <2>2, <2>3, <1>7, <1>8, <1>9 DEF OwnRecords
<1>11. ASSUME NEW o \in Req, o # r PROVE OwnRecords(o)'
  <2>1. pc'[o] = pc[o] /\ count'[o] = count[o] /\ ins'[o] = ins[o]
    BY <1>1, <1>6, <1>7, <1>11 DEF TypeOK
  <2>2. Written(o)' = Written(o)
    BY <2>1, <1>6 DEF Written
  <2> QED
    BY <2>1, <2>2, <1>1, <1>6 DEF OwnRecords
<1> QED
  BY <1>6, <1>10, <1>11 DEF RInv

(* A transaction that ends takes nothing from the others.                  *)
LEMMA EndOwn ==
    ASSUME IInv, RInv, NEW r \in Req, NEW how, End(r, how), count' = count,
           \A o \in Req \ {r} : ins[o] # {} => table' = table
    PROVE  RInv'
<1> SUFFICES ASSUME NEW o \in Req PROVE OwnRecords(o)'
  BY DEF RInv
<1>1. TypeOK /\ OwnRecords(o)
  BY DEF IInv, WInv, RInv
<1>2. CASE o = r
  <2>1. pc'[r] = "done"
    BY <1>1 DEF End, TypeOK
  <2> QED
    BY <1>2, <2>1 DEF OwnRecords
<1>3. CASE o # r
  <2>1. /\ pc'[o] = pc[o] /\ staged'[o] = staged[o] /\ ins'[o] = ins[o]
        /\ outcome'[o] = outcome[o] /\ count'[o] = count[o]
        /\ ins[o] # {} => table' = table
    BY <1>1, <1>3 DEF End, TypeOK
  <2>2. Written(o)' = Written(o)
    BY <2>1 DEF Written
  <2> QED
    BY <2>1, <2>2, <1>1 DEF OwnRecords
<1> QED
  BY <1>2, <1>3

(* Only a commit publishes, and it publishes all the records of its        *)
(* request (db_session, session_scope).                                    *)
LEMMA CommitPublishes ==
    ASSUME IInv, RInv, NEW r \in Req, Commit(r)
    PROVE  RInv' /\ Readers!Publish(r)
<1>1. TypeOK /\ WriterOK(r) /\ PhaseOK(r) /\ OwnRecords(r)
  BY DEF IInv, WInv, RInv
<1>2. End(r, "committed") /\ count' = count /\ table' = table \cup ins[r]
  BY DEF Commit
<1>3. pc[r] # "done" /\ staged[r] = << >> /\ count[r] > 0
  BY <1>1 DEF Commit, PhaseOK, OwnRecords
<1>4. Written(r) = count[r] /\ count[r] \in 1 .. MaxRecs
  BY <1>1, <1>3, AuditConstants, EmptySeq DEF Written, TypeOK
<1>5. ins[r] # {}
  BY <1>1, <1>3, <1>4 DEF OwnRecords
<1>6. RInv'
  BY <1>1, <1>2, <1>5, EndOwn DEF WriterOK
<1>7. load_head(table') = load_head(table) \o Readers!Batch(r, count[r])
  BY <1>1, <1>2, <1>3, <1>4, <1>5 DEF OwnRecords
<1>8. outcome[r] # "committed" /\ outcome' = [outcome EXCEPT ![r] = "committed"]
  BY <1>1, <1>2, <1>3 DEF OwnRecords, End
<1>9. {o \in Req : outcome'[o] = "committed"}
          = {o \in Req : outcome[o] = "committed"} \cup {r}
  BY <1>1, <1>8 DEF TypeOK
<1> QED
  BY <1>4, <1>6, <1>7, <1>8, <1>9 DEF Readers!Publish

(* A rollback, a conflict and a durable append that gives up publish       *)
(* nothing.                                                                *)
LEMMA AbortHides ==
    ASSUME IInv, RInv, NEW r \in Req, NEW used \in Nat, pc[r] # "done",
           NEW how \in {"forked", "failed"}, Abort(r, how, used)
    PROVE  /\ RInv' /\ table' = table
           /\ {o \in Req : outcome'[o] = "committed"}
                  = {o \in Req : outcome[o] = "committed"}
<1>1. TypeOK /\ OwnRecords(r)
  BY DEF IInv, WInv, RInv
<1>2. End(r, how) /\ count' = count /\ table' = table
  BY DEF Abort
<1>3. RInv'
  BY <1>2, EndOwn
<1>4. outcome[r] # "committed" /\ outcome' = [outcome EXCEPT ![r] = how]
  BY <1>1, <1>2 DEF OwnRecords, End
<1> QED
  BY <1>1, <1>2, <1>3, <1>4 DEF TypeOK

(* Every step of the store is a step of AuditLog or leaves it unchanged,   *)
(* and keeps RInv.                                                         *)
LEMMA StepRefines ==
    IInv /\ RInv /\ [Next]_vars =>
        /\ RInv'
        /\ [Readers!Next]_<<load_head(table), {r \in Req : outcome[r] = "committed"}>>
<1> DEFINE Same == UNCHANGED <<load_head(table), {r \in Req : outcome[r] = "committed"}>>
<1> SUFFICES ASSUME IInv, RInv, [Next]_vars
             PROVE  RInv' /\ (Readers!Next \/ Same)
  OBVIOUS
<1>1. CASE UNCHANGED vars
  BY <1>1 DEF vars, RInv, OwnRecords, Written
<1>2. ASSUME NEW r \in Req, Begin(r) \/ Step(r) \/ Rollback(r)
      PROVE  RInv' /\ (Readers!Next \/ Same)
  <2>1. CASE Begin(r) \/ Act(r) \/ StartFlush(r) \/ DurableLoad(r) \/ DurableRetry(r)
    BY <2>1, QuietSteps
  <2>2. CASE AppendRecord(r)
    BY <2>2, AppendRecordOwn
  <2>3. CASE FlushRow(r)
    BY <2>3, FlushRowOwn
  <2>4. CASE DurableInsert(r)
    BY <2>4, DurableInsertOwn
  <2>5. CASE Commit(r)
    BY <2>5, CommitPublishes DEF Readers!Next
  <2>6. CASE FlushConflict(r)
    BY <2>6, AbortHides DEF FlushConflict
  <2>7. CASE DurableGiveUp(r)
    BY <2>7, AbortHides DEF DurableGiveUp
  <2>8. CASE Rollback(r)
    BY <2>8, AbortHides DEF Rollback
  <2> QED
    BY <1>2, <2>1, <2>2, <2>3, <2>4, <2>5, <2>6, <2>7, <2>8 DEF Step
<1> QED
  BY <1>1, <1>2 DEF Next, Terminated

(* At the start nobody has inserted anything and the log is empty.         *)
LEMMA InitRefines == Init => RInv /\ Readers!Init
<1> SUFFICES ASSUME Init PROVE RInv /\ Readers!Init
  OBVIOUS
<1>1. ASSUME NEW r \in Req PROVE OwnRecords(r)
  <2>1. staged[r] = << >> /\ count[r] = 0 /\ ins[r] = {} /\ pc[r] = "idle" /\ outcome[r] = "none"
    BY DEF Init
  <2>2. Len(staged[r]) = 0
    BY <2>1, EmptySeq
  <2>3. count[r] = 0
    BY <2>1
  <2>4. Written(r) = 0
    BY <2>2, <2>3 DEF Written
  <2>5. 1 .. Len(staged[r]) = {}
    BY <2>2
  <2> QED
    BY <2>1, <2>4, <2>5 DEF OwnRecords
<1>2. Readers!Init
  BY DEF Init, Readers!Init, load_head, GENESIS_HASH
<1> QED
  BY <1>1, <1>2 DEF RInv

(* The store implements the abstract log: however many requests stage,     *)
(* retry, collide, roll back and commit at once, a reader of               *)
(* remediation_audit sees the records of a request all together, complete  *)
(* and in order, once, or not at all.                                      *)
THEOREM RequestsAreAllOrNothing == Spec => AllOrNothing
<1>1. Spec => [](IInv /\ RInv)
  BY InitIInv, InitRefines, NextKeeps, StepRefines, PTL DEF Spec
<1> QED
  BY <1>1, InitRefines, StepRefines, PTL DEF Spec, AllOrNothing, Readers!Spec

-----------------------------------------------------------------------------
(* Checkpoints.                                                            *)

(* A set of naturals has a least element.                                  *)
LEMMA LeastOf ==
    ASSUME NEW T, T \subseteq Nat, T # {}
    PROVE  \E x \in T : \A y \in T : x <= y
<1>1. PICK x \in T : \A y \in T : ~ (<<y, x>> \in OpToRel(<, Nat))
  BY WFMin, NatLessThanWellFounded, Zenon
<1>2. \A y \in T : ~(y < x)
  BY <1>1 DEF OpToRel
<1> QED
  BY <1>2

(* A finite set of rows has a last one (an induction over its size, as a   *)
(* least counterexample).                                                  *)
LEMMA FiniteHasTop ==
    ASSUME NEW S \in SUBSET Row, IsFiniteSet(S)
    PROVE  HasTop(S)
<1> DEFINE NoTop(U) == U # {} /\ \A x \in U : \E y \in U : ~(y.seq <= x.seq)
           B == {n \in Nat : \E U \in SUBSET S : Cardinality(U) = n /\ NoTop(U)}
<1>0. \A x \in S : x.seq \in Nat
  BY DEF Row
<1>1. SUFFICES ASSUME NoTop(S) PROVE FALSE
  BY DEF HasTop
<1>2. Cardinality(S) \in B
  BY <1>1, FS_CardinalityType
<1>3. PICK n \in B : \A m \in B : n <= m
  BY <1>2, LeastOf
<1>4. PICK U \in SUBSET S : Cardinality(U) = n /\ NoTop(U)
  BY <1>3
<1>5. PICK z \in U : TRUE
  BY <1>4
<1>6. IsFiniteSet(U)
  BY FS_Subset
<1>7. IsFiniteSet(U \ {z}) /\ Cardinality(U \ {z}) = n - 1 /\ Cardinality(U \ {z}) \in Nat
  BY <1>6, <1>4, <1>5, FS_RemoveElement, FS_CardinalityType
<1>8. PICK w \in U : ~(w.seq <= z.seq)
  BY <1>4, <1>5
<1>9. ASSUME NEW x \in U \ {z} PROVE \E y \in U \ {z} : ~(y.seq <= x.seq)
  <2>1. PICK y \in U : ~(y.seq <= x.seq)
    BY <1>4
  <2>2. CASE y = z
    BY <2>1, <2>2, <1>0, <1>8
  <2> QED
    BY <2>1, <2>2
<1>10. NoTop(U \ {z})
  BY <1>8, <1>9, <1>0
<1>11. n - 1 \in B
  BY <1>7, <1>10
<1> QED
  BY <1>3, <1>11

(* Removing rows keeps the order of the others.                            *)
LEMMA SubsetOrdered ==
    ASSUME NEW T \in SUBSET Row, Ordered(T), NEW U \in SUBSET T
    PROVE  Ordered(U) /\ U \in SUBSET Row
<1>1. IsFiniteSet(U)
  BY FS_Subset DEF Ordered
<1>2. HasTop(U)
  BY <1>1, FiniteHasTop
<1> QED
  BY <1>1, <1>2 DEF Ordered, Distinct

(* The position of a row is its place in the order of seq.                 *)
LEMMA PositionOrder ==
    ASSUME NEW T \in SUBSET Row, Ordered(T), NEW x \in T
    PROVE  /\ Position(T, x) \in Nat \ {0} /\ Position(T, x) <= Cardinality(T)
           /\ IsFiniteSet(Preceding(T, x)) /\ Preceding(T, x) \in SUBSET T
           /\ \A y \in T : Position(T, y) <= Position(T, x) <=> y.seq <= x.seq
<1> DEFINE P(y) == Preceding(T, y)
<1>0. \A y \in T : y.seq \in Nat
  BY DEF Row
<1>1. \A y \in T : IsFiniteSet(P(y)) /\ P(y) \in SUBSET T /\ Cardinality(P(y)) \in Nat
  BY FS_Subset, FS_CardinalityType DEF Ordered, Preceding
<1>2. ASSUME NEW y \in T, NEW z \in T, y.seq < z.seq
      PROVE  Cardinality(P(y)) + 1 <= Cardinality(P(z))
  <2>1. P(y) \cup {y} \in SUBSET P(z) /\ y \notin P(y)
    BY <1>0, <1>2 DEF Preceding
  <2>2. Cardinality(P(y) \cup {y}) = Cardinality(P(y)) + 1
    BY <2>1, <1>1, FS_AddElement
  <2>3. Cardinality(P(y) \cup {y}) <= Cardinality(P(z))
    BY <2>1, <1>1, FS_Subset
  <2> QED
    BY <2>2, <2>3
<1>3. ASSUME NEW y \in T
      PROVE  Position(T, y) <= Position(T, x) <=> y.seq <= x.seq
  <2>1. CASE y.seq < x.seq
    BY <2>1, <1>0, <1>1, <1>2 DEF Position
  <2>2. CASE x.seq < y.seq
    BY <2>2, <1>0, <1>1, <1>2 DEF Position
  <2>3. CASE x.seq = y.seq
    <3>1. x = y
      BY <2>3 DEF Ordered, Distinct
    <3> QED
      BY <3>1, <1>0, <1>1 DEF Position
  <2> QED
    BY <2>1, <2>2, <2>3, <1>0
<1>4. Position(T, x) <= Cardinality(T)
  <2>1. P(x) \cup {x} \in SUBSET T /\ x \notin P(x)
    BY <1>0 DEF Preceding
  <2>2. Cardinality(P(x) \cup {x}) = Cardinality(P(x)) + 1
    BY <2>1, <1>1, FS_AddElement
  <2>3. Cardinality(P(x) \cup {x}) <= Cardinality(T)
    BY <2>1, FS_Subset DEF Ordered
  <2> QED
    BY <2>2, <2>3 DEF Position
<1> QED
  BY <1>1, <1>3, <1>4 DEF Position

(* The first Position(T, x) rows are those up to x.                        *)
LEMMA FirstRowsAre ==
    ASSUME NEW T \in SUBSET Row, Ordered(T), NEW x \in T
    PROVE  FirstRows(T, Position(T, x)) = Preceding(T, x) \cup {x}
<1>0. \A y \in T : y.seq \in Nat
  BY DEF Row
<1>1. \A y \in T : Position(T, y) <= Position(T, x) <=> y.seq <= x.seq
  BY PositionOrder
<1>2. \A y \in T : y.seq <= x.seq <=> y.seq < x.seq \/ y = x
  BY <1>0 DEF Ordered, Distinct
<1> QED
  BY <1>1, <1>2 DEF FirstRows, Preceding

(* Every position up to the number of rows is taken.                       *)
LEMMA PositionTaken ==
    ASSUME NEW T \in SUBSET Row, Ordered(T), NEW k \in Nat \ {0}, k <= Cardinality(T)
    PROVE  \E x \in T : Position(T, x) = k
<1> DEFINE Free(m) == m # 0 /\ m <= Cardinality(T) /\ ~ \E x \in T : Position(T, x) = m
           B == {m \in Nat : Free(m)}
<1>0. (\A y \in T : y.seq \in Nat) /\ Cardinality(T) \in Nat
  BY FS_CardinalityType DEF Row, Ordered
<1>1. SUFFICES ASSUME k \in B PROVE FALSE
  OBVIOUS
<1>2. PICK m \in B : \A l \in B : m <= l
  BY <1>1, LeastOf
<1>3. m \in Nat /\ m # 0 /\ m <= Cardinality(T) /\ ~ \E x \in T : Position(T, x) = m
  BY <1>2
<1>4. ASSUME NEW A \in SUBSET T, A # {}
      PROVE  \E z \in A : \A y \in A : z.seq <= y.seq
  <2> DEFINE N == {y.seq : y \in A}
  <2>1. N \subseteq Nat /\ N # {}
    BY <1>0, <1>4
  <2>2. PICK n \in N : \A l \in N : n <= l
    BY <2>1, LeastOf
  <2> QED
    BY <2>2
<1>5. CASE m = 1
  <2>1. T # {}
    BY <1>0, <1>3, <1>5, FS_EmptySet
  <2>2. PICK z \in T : \A y \in T : z.seq <= y.seq
    BY <2>1, <1>4
  <2>3. Preceding(T, z) = {}
    BY <1>0, <2>2 DEF Preceding
  <2> QED
    BY <2>3, <1>3, <1>5, FS_EmptySet DEF Position
<1>6. CASE m # 1
  <2>1. m - 1 \in Nat /\ m - 1 # 0 /\ m - 1 <= Cardinality(T) /\ m - 1 < m
    BY <1>0, <1>3, <1>6
  <2>2. m - 1 \notin B
    BY <1>2, <1>3, <2>1
  <2>3. PICK y \in T : Position(T, y) = m - 1
    BY <2>1, <2>2
  <2> DEFINE U == Preceding(T, y) \cup {y}
  <2>4. IsFiniteSet(Preceding(T, y)) /\ Preceding(T, y) \in SUBSET T /\ y \notin Preceding(T, y)
    BY <1>0, PositionOrder DEF Preceding
  <2>5. Cardinality(U) = m - 1
    BY <2>3, <2>4, FS_AddElement DEF Position
  <2>6. U # T
    BY <2>5, <1>0, <1>3
  <2>7. T \ U # {} /\ T \ U \in SUBSET T
    BY <2>4, <2>6
  <2>8. PICK z \in T \ U : \A l \in T \ U : z.seq <= l.seq
    BY <2>7, <1>4
  <2>9. Preceding(T, z) = U
    <3>1. \A l \in T : l \in U <=> l.seq <= y.seq
      BY <1>0 DEF Preceding, Ordered, Distinct
    <3>2. y.seq < z.seq
      BY <1>0, <2>8, <3>1
    <3>3. \A l \in T : l.seq < z.seq <=> l \in U
      BY <1>0, <2>8, <3>1, <3>2
    <3> QED
      BY <3>3, <2>4 DEF Preceding
  <2>10. Position(T, z) = m
    BY <2>5, <2>9, <1>3 DEF Position
  <2> QED
    BY <2>8, <2>10, <1>3
<1> QED
  BY <1>5, <1>6

(* A chain up to one of its rows is a chain, and that row is its head.     *)
LEMMA PrefixChain ==
    ASSUME NEW T \in SUBSET Row, Ordered(T), verify_chain(T), NEW x \in T
    PROVE  /\ verify_chain(Preceding(T, x)) /\ verify_chain(Preceding(T, x) \cup {x})
<1>0. \A y \in T : y.seq \in Nat
  BY DEF Row
<1>1. \A y \in Preceding(T, x) \cup {x} :
         /\ y \in T
         /\ Preceding(Preceding(T, x) \cup {x}, y) = Preceding(T, y)
  BY <1>0 DEF Preceding
<1>2. \A y \in Preceding(T, x) :
         /\ y \in T
         /\ Preceding(Preceding(T, x), y) = Preceding(T, y)
  BY <1>0 DEF Preceding
<1> QED
  BY <1>1, <1>2 DEF verify_chain

(* A hash commits to the whole chain before it: two chains with one head   *)
(* have the same records and hashes.  (An induction over the length of the *)
(* hash, as a least counterexample.)                                       *)
LEMMA SameHead ==
    ASSUME NEW S0 \in SUBSET Row, Ordered(S0), verify_chain(S0),
           NEW T0 \in SUBSET Row, Ordered(T0), verify_chain(T0),
           load_head(S0) = load_head(T0)
    PROVE  Contents(S0) = Contents(T0)
<1> DEFINE Chain(S) == S \in SUBSET Row /\ Ordered(S) /\ verify_chain(S)
           Differ(S, T) == /\ Chain(S) /\ Chain(T) /\ load_head(S) = load_head(T)
                           /\ Contents(S) # Contents(T)
           B == {n \in Nat : \E S, T : Differ(S, T) /\ Len(load_head(S)) = n}
<1>1. ASSUME NEW S, Chain(S), S # {}
      PROVE  LET x == LastRow(S) IN
             /\ x \in S /\ x \in Row /\ load_head(S) = Append(x.prev_hash, x.rec)
             /\ S = Preceding(S, x) \cup {x}
             /\ Chain(Preceding(S, x)) /\ x.prev_hash = load_head(Preceding(S, x))
             /\ x.row_hash = load_head(S)
  <2> DEFINE x == LastRow(S)
  <2>1. x \in S /\ \A y \in S : y.seq <= x.seq
    BY <1>1, TopRow DEF Ordered
  <2>2. \A y \in S : y.seq \in Nat
    BY <1>1 DEF Row
  <2>3. load_head(S) = x.row_hash
    BY <1>1 DEF load_head
  <2> HIDE DEF x
  <2>4. x.prev_hash = load_head(Preceding(S, x)) /\ x.row_hash = Append(x.prev_hash, x.rec)
    BY <1>1, <2>1 DEF verify_chain, compute_row_hash
  <2>5. S = Preceding(S, x) \cup {x}
    BY <1>1, <2>1, <2>2 DEF Preceding, Ordered, Distinct
  <2>6. Preceding(S, x) \in SUBSET S
    BY DEF Preceding
  <2>7. Chain(Preceding(S, x))
    BY <1>1, <2>1, <2>6, SubsetOrdered, PrefixChain
  <2> QED
    BY <1>1, <2>1, <2>3, <2>4, <2>5, <2>7 DEF x
<1>2. ASSUME NEW S, Chain(S) PROVE load_head(S) \in Seq(Record)
  BY <1>2, HeadKnown DEF Hash, Ordered
<1>3. SUFFICES ASSUME Differ(S0, T0) PROVE FALSE
  OBVIOUS
<1> HIDE DEF Chain
<1>4. Len(load_head(S0)) \in B
  BY <1>2, <1>3
<1>5. PICK n \in B : \A m \in B : n <= m
  BY <1>4, LeastOf
<1>6. PICK S, T : Differ(S, T) /\ Len(load_head(S)) = n
  BY <1>5
<1>7. CASE S = {} \/ T = {}
  <2>1. ASSUME NEW U, Chain(U), U # {} PROVE load_head(U) # << >>
    <3>1. PICK x \in Row : load_head(U) = Append(x.prev_hash, x.rec)
      BY <1>1, <2>1
    <3>2. x.prev_hash \in Seq(Record) /\ x.rec \in Record
      BY DEF Row, Hash
    <3> QED
      BY <3>1, <3>2
  <2>2. load_head({}) = << >>
    BY DEF load_head, GENESIS_HASH
  <2>3. S = {} /\ T = {}
    BY <1>6, <1>7, <2>1, <2>2
  <2> QED
    BY <1>6, <2>3
<1>8. CASE S # {} /\ T # {}
  <2> DEFINE x == LastRow(S)
             y == LastRow(T)
             P == Preceding(S, x)
             Q == Preceding(T, y)
  <2>1. /\ x \in Row /\ load_head(S) = Append(x.prev_hash, x.rec)
        /\ S = P \cup {x} /\ Chain(P) /\ x.prev_hash = load_head(P) /\ x.row_hash = load_head(S)
    BY <1>1, <1>6, <1>8
  <2>2. /\ y \in Row /\ load_head(T) = Append(y.prev_hash, y.rec)
        /\ T = Q \cup {y} /\ Chain(Q) /\ y.prev_hash = load_head(Q) /\ y.row_hash = load_head(T)
    BY <1>1, <1>6, <1>8
  <2>3. /\ x.prev_hash \in Seq(Record) /\ x.rec \in Record
        /\ y.prev_hash \in Seq(Record) /\ y.rec \in Record
    BY <2>1, <2>2 DEF Row, Hash
  <2> HIDE DEF x, y, P, Q
  <2>4. x.prev_hash = y.prev_hash /\ x.rec = y.rec /\ Len(x.prev_hash) = n - 1
    <3>1. Append(x.prev_hash, x.rec) = Append(y.prev_hash, y.rec)
      BY <1>6, <2>1, <2>2
    <3>2. Len(Append(x.prev_hash, x.rec)) = n
      BY <1>6, <2>1
    <3> QED
      BY <3>1, <3>2, <2>3
  <2>5. Len(x.prev_hash) \in Nat
    BY <2>3
  <2>6. Contents(P) = Contents(Q)
    <3>1. SUFFICES ASSUME Contents(P) # Contents(Q) PROVE FALSE
      OBVIOUS
    <3>2. Differ(P, Q) /\ Len(load_head(P)) = n - 1
      BY <3>1, <2>1, <2>2, <2>4
    <3>3. n - 1 \in B
      BY <3>2, <2>4, <2>5
    <3> QED
      BY <3>3, <1>5
  <2>7. Contents(S) = Contents(P) \cup {<<x.rec, x.prev_hash, x.row_hash>>}
    BY <2>1 DEF Contents
  <2>8. Contents(T) = Contents(Q) \cup {<<y.rec, y.prev_hash, y.row_hash>>}
    BY <2>2 DEF Contents
  <2>9. x.row_hash = y.row_hash
    BY <1>6, <2>1, <2>2
  <2> QED
    BY <1>6, <2>4, <2>6, <2>7, <2>8, <2>9
<1> QED
  BY <1>7, <1>8

-----------------------------------------------------------------------------

(* A checkpoint whose signature holds names the head of the anchored rows. *)
Anchor ==
    /\ anchored \in SUBSET Row /\ Ordered(anchored)
    /\ cp # NoCheckpoint => cp.seq \in Nat \ {0}
    /\ cp # NoCheckpoint /\ cp.signed => cp.row_hash = load_head(anchored)

(* On SQLite the rows have all the seq values that were given out.         *)
Dense ==
    ~SeqBurns => \A k \in 1 .. nextSeq - 1 :
        \/ \E x \in table : x.seq = k
        \/ \E r \in Req : \E x \in ins[r] : x.seq = k

(* A checkpoint that nobody touched names a row that is still there.       *)
AnchorInTable ==
    cp # NoCheckpoint => \E x \in table :
        cp = [seq |-> x.seq, row_hash |-> x.row_hash, signed |-> TRUE]

Untouched == tampered \in Nat /\ (tampered = 0 => Chained /\ Dense /\ AnchorInTable)

CInv == WInv /\ Anchor /\ Untouched

(* Whatever is done to the rows between requests, the writers' part of the *)
(* invariant holds of what is left.                                        *)
LEMMA TamperKeeps ==
    ASSUME WInv, Quiet, NEW T \in SUBSET Row, Ordered(T),
           {x.seq : x \in T} \subseteq {y.seq : y \in table}, Tampered(T)
    PROVE  WInv'
<1>1. TypeOK /\ SeqsBelow /\ \A r \in Req : PhaseOK(r)
  BY DEF WInv
<1>2. ASSUME NEW r \in Req PROVE pc[r] \in {"idle", "done"} /\ ins[r] = {}
  <2>1. pc[r] \in {"idle", "done"}
    BY Zenon DEF Quiet
  <2>2. PhaseOK(r)
    BY <1>1
  <2> QED
    BY <2>1, <2>2 DEF PhaseOK
<1>3. /\ table' = T
      /\ nextSeq' = IF SeqBurns THEN nextSeq ELSE IF T = {} THEN 1 ELSE LastRow(T).seq + 1
      /\ UNCHANGED <<pc, head, staged, ins, count, tries, acted, outcome>>
  BY DEF Tampered
<1>4. nextSeq' \in Nat \ {0} /\ \A x \in T : x.seq < nextSeq'
  <2>1. CASE SeqBurns
    <3>1. nextSeq' = nextSeq /\ nextSeq \in Nat \ {0}
      BY <2>1, <1>1, <1>3 DEF TypeOK
    <3>2. ASSUME NEW x \in T PROVE x.seq < nextSeq
      <4>1. PICK y \in table : y.seq = x.seq
        OBVIOUS
      <4> QED
        BY <4>1, <1>1 DEF SeqsBelow
    <3> QED
      BY <3>1, <3>2
  <2>2. CASE ~SeqBurns /\ T = {}
    BY <2>2, <1>3
  <2>3. CASE ~SeqBurns /\ T # {}
    <3>1. LastRow(T) \in T /\ \A y \in T : y.seq <= LastRow(T).seq
      BY <2>3, TopRow DEF Ordered
    <3>2. \A y \in T : y.seq \in Nat \ {0}
      BY DEF Row
    <3> QED
      BY <2>3, <3>1, <3>2, <1>3
  <2> QED
    BY <2>1, <2>2, <2>3
<1>5. TypeOK'
  BY <1>1, <1>3, <1>4 DEF TypeOK
<1>6. SeqsBelow'
  BY <1>2, <1>3, <1>4 DEF SeqsBelow
<1>7. ASSUME NEW r \in Req PROVE WriterOK(r)' /\ BaseOK(r)' /\ PhaseOK(r)'
  <2>1. ins'[r] = {} /\ pc'[r] \in {"idle", "done"}
    BY <1>2, <1>3
  <2>2. PhaseOK(r)'
    BY <1>1, <1>3 DEF PhaseOK
  <2> QED
    BY <2>1, <2>2 DEF WriterOK, BaseOK, Writing
<1> QED
  BY <1>3, <1>5, <1>6, <1>7 DEF WInv

(* A removed row.                                                          *)
LEMMA DropKeeps ==
    ASSUME CInv, NEW x \in table, DropRow(x)
    PROVE  CInv'
<1> DEFINE T == table \ {x}
<1>1. WInv /\ table \in SUBSET Row /\ Ordered(table) /\ Anchor /\ tampered \in Nat
  BY DEF CInv, Untouched, WInv, TypeOK
<1>2. Quiet /\ Tampered(T) /\ UNCHANGED <<cp, anchored>> /\ tampered' = tampered + 1
  BY DEF DropRow, Tampered
<1>3. Ordered(T) /\ T \in SUBSET Row
  BY <1>1, SubsetOrdered
<1>4. WInv'
  <2>1. {y.seq : y \in T} \subseteq {y.seq : y \in table}
    OBVIOUS
  <2> HIDE DEF T
  <2> QED
    BY <1>1, <1>2, <1>3, <2>1, TamperKeeps
<1> QED
  BY <1>1, <1>2, <1>4 DEF CInv, Anchor, Untouched

(* A rewritten row, its hash recomputed or not.                            *)
LEMMA RewriteKeeps ==
    ASSUME CInv, NEW x \in table, NEW rec \in Record, NEW h \in Rewritten(x, rec),
           RewriteRow(x, rec, h)
    PROVE  CInv'
<1> DEFINE z == [x EXCEPT !.rec = rec, !.row_hash = h]
           T == (table \ {x}) \cup {z}
<1>1. WInv /\ table \in SUBSET Row /\ Ordered(table) /\ Anchor /\ tampered \in Nat
  BY DEF CInv, Untouched, WInv, TypeOK
<1>2. Quiet /\ Tampered(T) /\ UNCHANGED <<cp, anchored>> /\ tampered' = tampered + 1
  BY DEF RewriteRow, Tampered
<1>3. h \in Hash
  <2>1. x.row_hash \in Hash /\ x.prev_hash \in Hash
    BY <1>1 DEF Row
  <2>2. Append(x.prev_hash, rec) \in Hash
    BY <2>1 DEF Hash
  <2> QED
    BY <2>1, <2>2 DEF Rewritten, compute_row_hash
<1>4. z \in Row /\ z.seq = x.seq
  BY <1>1, <1>3 DEF Row
<1> HIDE DEF z
<1>5. Ordered(T) /\ T \in SUBSET Row
  <2>1. Ordered(table \ {x}) /\ table \ {x} \in SUBSET Row
    BY <1>1, SubsetOrdered
  <2>2. T \in SUBSET Row
    BY <1>4, <2>1
  <2>3. IsFiniteSet(T)
    BY <2>1, FS_AddElement DEF Ordered
  <2>4. HasTop(T)
    BY <2>2, <2>3, FiniteHasTop
  <2>5. Distinct(T)
    BY <1>1, <1>4 DEF Ordered, Distinct
  <2> QED
    BY <2>2, <2>3, <2>4, <2>5 DEF Ordered
<1>6. {y.seq : y \in T} \subseteq {y.seq : y \in table}
  BY <1>4
<1>7. WInv'
  <2> HIDE DEF T
  <2> QED
    BY <1>1, <1>2, <1>5, <1>6, TamperKeeps
<1> QED
  BY <1>1, <1>2, <1>7 DEF CInv, Anchor, Untouched

(* The steps of the requests: seq values are given out in turn, and SQLite *)
(* takes back those of a rollback.                                         *)
LEMMA DenseKeeps == IInv /\ Dense /\ [Next]_vars => Dense'
<1> SUFFICES ASSUME IInv, Dense, [Next]_vars, ~SeqBurns PROVE Dense'
  BY DEF Dense
<1>1. TypeOK /\ Ordered(table) /\ SeqsBelow /\ \A r \in Req : WriterOK(r)
  BY DEF IInv, WInv
<1>2. CASE UNCHANGED <<table, ins, nextSeq>>
  BY <1>2 DEF Dense
<1>3. ASSUME NEW r \in Req, NEW row, Inserted(r, row), table' = table PROVE Dense'
  <2>1. nextSeq \in Nat \ {0} /\ nextSeq' = nextSeq + 1
    BY <1>1, <1>3 DEF Inserted, TypeOK
  <2>2. \A o \in Req : ins[o] \subseteq ins'[o]
    BY <1>1, <1>3 DEF Inserted, TypeOK
  <2> DEFINE z == [seq |-> nextSeq, rec |-> row.rec, prev_hash |-> row.prev_hash,
                   row_hash |-> row.row_hash]
  <2>3. z \in ins'[r] /\ z.seq = nextSeq
    BY <1>1, <1>3 DEF Inserted, TypeOK
  <2> HIDE DEF z
  <2>4. \A k \in 1 .. nextSeq' - 1 : k \in 1 .. nextSeq - 1 \/ k = nextSeq
    BY <2>1
  <2> QED
    BY <2>2, <2>3, <2>4, <1>3 DEF Dense
<1>4. ASSUME NEW r \in Req, Commit(r) PROVE Dense'
  <2>1. /\ table' = table \cup ins[r] /\ nextSeq' = nextSeq
        /\ \A o \in Req : ins'[o] = IF o = r THEN {} ELSE ins[o]
    BY <1>1, <1>4 DEF Commit, End, TypeOK
  <2> QED
    BY <2>1 DEF Dense
<1>5. ASSUME NEW r \in Req, NEW how, NEW used, Abort(r, how, used) PROVE Dense'
  <2>1. /\ table' = table /\ nextSeq' = SeqAfterRollback(r, used)
        /\ \A o \in Req : ins'[o] = IF o = r THEN {} ELSE ins[o]
    BY <1>1, <1>5 DEF Abort, End, TypeOK
  <2>2. CASE ins[r] = {}
    <3>1. nextSeq' = nextSeq
      BY <2>1, <2>2 DEF SeqAfterRollback
    <3> QED
      BY <2>1, <2>2, <3>1 DEF Dense
  <2>3. CASE ins[r] # {} /\ table = {}
    <3>1. nextSeq' = 1
      BY <2>1, <2>3 DEF SeqAfterRollback
    <3> QED
      BY <3>1 DEF Dense
  <2>4. CASE ins[r] # {} /\ table # {}
    <3> DEFINE n == LastRow(table).seq
    <3>1. nextSeq' = n + 1
      BY <2>1, <2>4 DEF SeqAfterRollback
    <3>2. LastRow(table) \in table
      BY <1>1, <2>4, TopRow DEF Ordered, TypeOK
    <3>3. n \in Nat /\ n < nextSeq /\ nextSeq \in Nat
      BY <1>1, <3>2 DEF SeqsBelow, TypeOK, Row
    <3>4. \A o \in Req : \A y \in ins[o] : n < y.seq
      BY <1>1, <2>4, <3>2 DEF WriterOK
    <3>5. \A o \in Req : \A y \in ins[o] : y.seq \in Nat
      BY <1>1 DEF TypeOK, Row
    <3> HIDE DEF n
    <3>6. ASSUME NEW k \in 1 .. nextSeq' - 1 PROVE \E x \in table : x.seq = k
      <4>1. k \in 1 .. nextSeq - 1 /\ k <= n
        BY <3>1, <3>3
      <4>2. \A o \in Req : \A y \in ins[o] : y.seq # k
        BY <4>1, <3>3, <3>4, <3>5
      <4> QED
        BY <4>1, <4>2 DEF Dense
    <3> QED
      BY <2>1, <3>6 DEF Dense
  <2> QED
    BY <2>2, <2>3, <2>4
<1>6. \/ UNCHANGED <<table, ins, nextSeq>>
      \/ \E r \in Req : \E row : Inserted(r, row) /\ table' = table
      \/ \E r \in Req : Commit(r)
      \/ \E r \in Req : \E how, used : Abort(r, how, used)
  BY DEF Next, Terminated, vars, Step, Begin, AppendRecord, Act, StartFlush, DurableLoad,
         DurableRetry, FlushRow, DurableInsert, Rollback, FlushConflict, DurableGiveUp
<1> QED
  BY <1>2, <1>3, <1>4, <1>5, <1>6

(* No request changes or removes a row.                                    *)
LEMMA TableGrows == [Next]_vars => table \subseteq table'
  BY DEF Next, vars, Terminated, Step, Begin, Rollback, AppendRecord, Act,
         StartFlush, FlushRow, FlushConflict, DurableLoad, DurableInsert,
         DurableRetry, DurableGiveUp, Abort, Commit

(* Every step keeps the invariant: of the requests, of write_checkpoint,   *)
(* and of somebody who changes the tables.                                 *)
LEMMA CheckpointKeeps == CInv /\ [CheckpointNext]_cvars => CInv'
<1> SUFFICES ASSUME CInv, [CheckpointNext]_cvars PROVE CInv'
  OBVIOUS
<1>0. WInv /\ TypeOK /\ Ordered(table) /\ Anchor /\ Untouched
  BY DEF CInv, WInv
<1>1. CASE [Next]_vars /\ UNCHANGED <<cp, anchored, tampered>>
  <2>1. WInv'
    BY <1>0, <1>1, NextKeepsW
  <2>2. tampered = 0 => Chained' /\ Dense'
    BY <1>0, <1>1, ChainKeeps, DenseKeeps DEF IInv, Untouched
  <2>3. tampered = 0 => AnchorInTable'
    BY <1>0, <1>1, TableGrows DEF AnchorInTable, Untouched
  <2> QED
    BY <1>0, <1>1, <2>1, <2>2, <2>3 DEF CInv, Anchor, Untouched
<1>2. CASE WriteCheckpoint
  <2> DEFINE x == LastRow(table)
  <2>1. /\ table # {} /\ cp' = [seq |-> x.seq, row_hash |-> x.row_hash, signed |-> TRUE]
        /\ anchored' = table /\ UNCHANGED <<vars, tampered>>
    BY <1>2 DEF WriteCheckpoint
  <2>2. x \in table /\ x.seq \in Nat \ {0} /\ x.row_hash = load_head(table)
    <3>1. table \in SUBSET Row /\ HasTop(table)
      BY <1>0 DEF TypeOK, Ordered
    <3>2. x \in table
      BY <2>1, <3>1, TopRow
    <3>3. load_head(table) = x.row_hash
      BY <2>1 DEF load_head
    <3> HIDE DEF x
    <3> QED
      BY <3>1, <3>2, <3>3 DEF Row
  <2> HIDE DEF x
  <2>3. WInv'
    BY <1>0, <2>1, NextKeepsW
  <2>4. Anchor'
    BY <1>0, <2>1, <2>2 DEF Anchor, TypeOK
  <2>5. Untouched'
    BY <1>0, <2>1, <2>2 DEF Untouched, Chained, Dense, AnchorInTable, vars
  <2> QED
    BY <2>3, <2>4, <2>5 DEF CInv
<1>3. ASSUME NEW x \in table, DropRow(x) PROVE CInv'
  BY <1>3, DropKeeps
<1>4. ASSUME NEW x \in table, NEW rec \in Record, NEW h \in Rewritten(x, rec),
             RewriteRow(x, rec, h)
      PROVE  CInv'
  BY <1>4, RewriteKeeps
<1>5. ASSUME NEW x \in table, RewriteCheckpoint(x) PROVE CInv'
  <2>1. /\ cp' = [seq |-> x.seq, row_hash |-> x.row_hash, signed |-> FALSE]
        /\ tampered' = tampered + 1 /\ UNCHANGED <<vars, anchored>>
    BY <1>5 DEF RewriteCheckpoint
  <2>2. x.seq \in Nat \ {0}
    BY <1>0 DEF TypeOK, Row
  <2>3. WInv'
    BY <1>0, <2>1, NextKeepsW
  <2>4. Anchor' /\ Untouched'
    BY <1>0, <2>1, <2>2 DEF Anchor, Untouched
  <2> QED
    BY <2>3, <2>4 DEF CInv
<1> QED
  BY <1>1, <1>2, <1>3, <1>4, <1>5 DEF CheckpointNext, cvars

(* The invariant holds in every reachable state.                           *)
LEMMA CheckpointInvariance == CheckpointSpec => []CInv
<1>1. CheckpointInit => CInv
  <2> SUFFICES ASSUME CheckpointInit PROVE CInv
    OBVIOUS
  <2>1. WInv /\ Chained
    BY InitIInv DEF CheckpointInit, IInv
  <2>2. Dense
    BY DEF CheckpointInit, Init, Dense
  <2>3. Anchor
    BY EmptyLog DEF CheckpointInit, Anchor
  <2> QED
    BY <2>1, <2>2, <2>3 DEF CheckpointInit, CInv, Untouched, AnchorInTable
<1> QED
  BY <1>1, CheckpointKeeps, PTL DEF CheckpointSpec

(* Once an intact log is anchored, no sequence of changes to the rows or   *)
(* to the checkpoint, of any length and with requests writing in between,  *)
(* alters what is anchored unnoticed: if verify_latest_checkpoint accepts, *)
(* the rows up to the anchor have the records and hashes they had.         *)
THEOREM TamperingIsCaught == CheckpointSpec => []HarmIsCaught
<1>1. CInv => HarmIsCaught
  <2> SUFFICES ASSUME CInv, cp # NoCheckpoint, verify_chain(anchored), verify_latest_checkpoint
               PROVE  Contents(FirstRows(table, cp.seq)) = Contents(anchored)
    BY DEF HarmIsCaught
  <2>1. table \in SUBSET Row /\ Ordered(table) /\ Anchor
    BY DEF CInv, WInv, TypeOK
  <2>2. /\ cp.signed /\ Cardinality(table) >= cp.seq
        /\ \A x \in table : Position(table, x) = cp.seq => x.row_hash = cp.row_hash
        /\ verify_chain(FirstRows(table, cp.seq))
    BY DEF verify_latest_checkpoint
  <2>3. /\ anchored \in SUBSET Row /\ Ordered(anchored) /\ cp.seq \in Nat \ {0}
        /\ cp.row_hash = load_head(anchored)
    BY <2>1, <2>2 DEF Anchor
  <2>4. Cardinality(table) \in Nat
    BY <2>1, FS_CardinalityType DEF Ordered
  <2>5. PICK x \in table : Position(table, x) = cp.seq
    BY <2>1, <2>2, <2>3, <2>4, PositionTaken
  <2> DEFINE F == FirstRows(table, cp.seq)
             P == Preceding(table, x)
  <2>6. F = P \cup {x}
    BY <2>1, <2>5, FirstRowsAre
  <2>7. P \in SUBSET table /\ \A y \in P : y.seq < x.seq
    BY DEF Preceding
  <2> HIDE DEF F, P
  <2>8. Ordered(P) /\ P \in SUBSET Row
    BY <2>1, <2>7, SubsetOrdered
  <2>9. Ordered(F) /\ load_head(F) = x.row_hash
    BY <2>1, <2>6, <2>7, <2>8, Extend
  <2>10. F \in SUBSET Row /\ load_head(F) = load_head(anchored)
    BY <2>1, <2>2, <2>3, <2>5, <2>6, <2>8, <2>9
  <2>11. verify_chain(F)
    BY <2>2 DEF F
  <2>12. Contents(F) = Contents(anchored)
    BY <2>3, <2>9, <2>10, <2>11, SameHead
  <2> QED
    BY <2>12 DEF F
<1> QED
  BY <1>1, CheckpointInvariance, PTL

(* On SQLite, where seq has no holes, verify_latest_checkpoint never       *)
(* reports a log that nobody touched, whatever requests were rolled back,  *)
(* refused or retried before and after the checkpoint.                     *)
THEOREM CleanLogsVerify == ~SeqBurns => (CheckpointSpec => []CleanLogVerifies)
<1> SUFFICES ASSUME ~SeqBurns PROVE CheckpointSpec => []CleanLogVerifies
  OBVIOUS
<1>1. CInv => CleanLogVerifies
  <2> SUFFICES ASSUME CInv, tampered = 0, cp # NoCheckpoint
               PROVE  /\ cp.signed
                      /\ Cardinality(table) >= cp.seq
                      /\ \A x \in table : Position(table, x) = cp.seq => x.row_hash = cp.row_hash
                      /\ verify_chain(FirstRows(table, cp.seq))
    BY DEF CleanLogVerifies, verify_latest_checkpoint
  <2>1. /\ table \in SUBSET Row /\ Ordered(table) /\ verify_chain(table) /\ SeqsBelow
        /\ \A r \in Req : WriterOK(r)
        /\ nextSeq \in Nat /\ ins \in [Req -> SUBSET Row]
    BY DEF CInv, Untouched, Chained, WInv, TypeOK
  <2>2. PICK a \in table : cp = [seq |-> a.seq, row_hash |-> a.row_hash, signed |-> TRUE]
    BY DEF CInv, Untouched, AnchorInTable
  <2>3. ASSUME NEW x \in table PROVE Position(table, x) = x.seq
    <3> DEFINE P == Preceding(table, x)
               f == [y \in P |-> y.seq]
    <3>1. (\A y \in table : y.seq \in Nat \ {0}) /\ x.seq < nextSeq
      BY <2>1 DEF Row, SeqsBelow
    <3>2. ASSUME NEW k \in 1 .. x.seq - 1 PROVE \E y \in P : y.seq = k
      <4>1. k \in 1 .. nextSeq - 1 /\ k < x.seq
        BY <2>1, <3>1
      <4>2. \A r \in Req : \A y \in ins[r] : x.seq < y.seq /\ y.seq \in Nat
        <5> TAKE r \in Req
        <5> TAKE y \in ins[r]
        <5>1. ins[r] # {} /\ y \in Row
          BY <2>1
        <5>2. x.seq < y.seq
          BY <2>1, <5>1 DEF WriterOK
        <5> QED
          BY <5>1, <5>2 DEF Row
      <4>3. \A r \in Req : \A y \in ins[r] : y.seq # k
        BY <4>1, <4>2, <3>1
      <4>4. \E y \in table : y.seq = k
        BY <4>1, <4>3 DEF CInv, Untouched, Dense
      <4> QED
        BY <4>1, <4>4 DEF Preceding
    <3>3. \A y \in P : y \in table /\ y.seq \in 1 .. x.seq - 1
      BY <3>1 DEF Preceding
    <3>4. \A y, z \in P : y.seq = z.seq => y = z
      BY <2>1, <3>3 DEF Ordered, Distinct
    <3> HIDE DEF P
    <3>5. f \in Bijection(P, 1 .. x.seq - 1)
      <4>1. f \in Injection(P, 1 .. x.seq - 1)
        BY <3>3, <3>4 DEF Injection, IsInjective
      <4>2. f \in Surjection(P, 1 .. x.seq - 1)
        BY <3>2, <3>3 DEF Surjection
      <4> QED
        BY <4>1, <4>2 DEF Bijection
    <3>6. IsFiniteSet(P)
      BY <2>1, PositionOrder DEF P
    <3>7. Cardinality(1 .. x.seq - 1) = Cardinality(P)
      BY <3>5, <3>6, FS_Bijection DEF ExistsBijection
    <3>8. Cardinality(1 .. x.seq - 1) = x.seq - 1
      <4> DEFINE b == x.seq - 1
      <4>1. b \in Int /\ 1 \in Int /\ (1 > b => b = 0)
        BY <3>1
      <4> HIDE DEF b
      <4>2. Cardinality(1 .. b) = IF 1 > b THEN 0 ELSE b - 1 + 1
        BY <4>1, FS_Interval
      <4>3. Cardinality(1 .. b) = b
        BY <4>1, <4>2
      <4> QED
        BY <4>3 DEF b
    <3> QED
      BY <3>1, <3>7, <3>8 DEF Position, P
  <2>4. Position(table, a) = cp.seq /\ cp.signed /\ cp.row_hash = a.row_hash /\ cp.seq = a.seq
    BY <2>2, <2>3
  <2>5. Position(table, a) <= Cardinality(table) /\ Position(table, a) \in Nat
    BY <2>1, PositionOrder
  <2>6. Cardinality(table) \in Nat
    BY <2>1, FS_CardinalityType DEF Ordered
  <2>7. \A x \in table : Position(table, x) = cp.seq => x.row_hash = cp.row_hash
    BY <2>1, <2>3, <2>4 DEF Ordered, Distinct
  <2>8. FirstRows(table, cp.seq) = Preceding(table, a) \cup {a}
    BY <2>1, <2>4, FirstRowsAre
  <2>9. verify_chain(FirstRows(table, cp.seq))
    BY <2>1, <2>8, PrefixChain
  <2> QED
    BY <2>4, <2>5, <2>6, <2>7, <2>9
<1> QED
  BY <1>1, CheckpointInvariance, PTL

=============================================================================
