------------------------ MODULE AccessControl_proofs -------------------------
(* Proofs about AccessControl, for any processes, requests, accounts, grants  *)
(* and bounds, and with no assumption on them: a second factor that is        *)
(* enrolled has its secret unless an administrator named it, whatever         *)
(* enrollments and settings requests run at once or fail half way.            *)
EXTENDS AccessControl, TLAPS

ReqFields == {"st", "kind", "p", "user", "sess", "insert", "key", "value", "old", "id",
              "confirmed", "prior", "gone", "head"}
TxnFields == {"put", "del", "bumped", "known", "knownVersion"}

(* The request has inserted its enrollment and not committed it.              *)
Inserting(r) == req[r].kind = "enroll" /\ req[r].st \in {"unchained", "chained"}

(* The id was given out, and to no request that may still commit it.          *)
Used(i) == i \in Nat /\ i < nextId /\ \A r \in Req : Inserting(r) => req[r].id # i

(* The key is that of the secret of a second factor.                          *)
IsRef(key) == key = Ref(key[2])

-----------------------------------------------------------------------------
(* The inductive invariant.                                                   *)

Shapes ==
    /\ DOMAIN req = Req /\ DOMAIN txn = Req
    /\ \A r \in Req : DOMAIN req[r] = ReqFields /\ DOMAIN txn[r] = TxnFields
    /\ nextId \in Nat
    /\ \A i \in DOMAIN enrolled :
          enrolled[i] = [user |-> enrolled[i].user, confirmed |-> enrolled[i].confirmed]

(* An enrollment goes through its phases; a request that was not opened has   *)
(* no kind.                                                                   *)
Phases ==
    \A r \in Req :
        /\ req[r].kind = "enroll" =>
              req[r].st \in {"open", "clearing", "deleted", "unchained", "chained"}
        /\ req[r].st \in {"clearing", "deleted"} => req[r].kind = "enroll"
        /\ req[r].kind \in {"set", "clear"} => req[r].st # "idle"

(* An id belongs to one row, committed or about to be.                        *)
IdsAreUnique ==
    /\ \A i \in DOMAIN enrolled : i \in Nat /\ i < nextId
    /\ \A r \in Req : Inserting(r) =>
          req[r].id \in Nat /\ req[r].id < nextId /\ req[r].id \notin DOMAIN enrolled
    /\ \A r, q \in Req : Inserting(r) /\ Inserting(q) /\ r # q => req[r].id # req[q].id

(* A transaction that inserts an enrollment writes the secret of that one and *)
(* of no other; no other transaction writes any but the one it was asked for. *)
PutsOwnSecret ==
    \A r \in Req :
        /\ Inserting(r) => Ref(req[r].id) \in DOMAIN txn[r].put
        /\ \A k \in DOMAIN txn[r].put : IsRef(k) =>
              \/ /\ Inserting(r) /\ k = Ref(req[r].id)
                 /\ txn[r].put[k].value = SecretOf[req[r].id]
              \/ req[r].kind = "set" /\ k = req[r].key

(* The rows an enrollment is going to replace are its user's and are old.     *)
PriorsAreOwn ==
    \A r \in Req : req[r].kind = "enroll" /\ req[r].st = "open" =>
        \A i \in req[r].prior :
            Used(i) /\ (i \in DOMAIN enrolled => enrolled[i].user = req[r].user)

(* An enrollment that deletes the secret of a row that is still enrolled      *)
(* deletes that row too, or is about to; others delete what they were asked.  *)
DeletesWithRow(r, i) ==
    \/ req[r].st = "clearing" /\ i \in req[r].prior
    \/ req[r].st \in {"deleted", "unchained", "chained"} /\ i \in req[r].gone

DeletesOwnSecrets ==
    \A r \in Req : \A k \in txn[r].del : IsRef(k) =>
        \/ req[r].kind = "clear" /\ k = req[r].key
        \/ /\ req[r].kind = "enroll" /\ req[r].st # "open"
           /\ Used(k[2])
           /\ k[2] \in DOMAIN enrolled => DeletesWithRow(r, k[2])

IInv ==
    /\ Shapes /\ Phases /\ IdsAreUnique /\ PutsOwnSecret /\ PriorsAreOwn
    /\ DeletesOwnSecrets /\ EnrollmentHasSecret
-----------------------------------------------------------------------------
(* What the steps of a request do.                                            *)

(* The transactions write no more than before.                                *)
NothingWritten ==
    /\ DOMAIN txn' = Req
    /\ \A q \in Req : /\ DOMAIN txn'[q] = TxnFields
                      /\ txn'[q].put = txn[q].put /\ txn'[q].del = txn[q].del

OthersStay(r) == DOMAIN req' = Req /\ \A q \in Req : q # r => req'[q] = req[q]

(* A request other than an enrollment is opened.                              *)
OpenMove(r) ==
    /\ req[r].st = "idle"
    /\ OthersStay(r) /\ DOMAIN req'[r] = ReqFields
    /\ req'[r].kind # "enroll" /\ req'[r].st \notin {"idle", "clearing", "deleted"}
    /\ NothingWritten
    /\ UNCHANGED <<rows, enrolled, nextId, named>>

(* Look leaves the writes alone.                                              *)
LEMMA LookKeeps ==
    ASSUME Shapes, NEW r \in Req, Look(r) \/ UNCHANGED txn
    PROVE  NothingWritten
<1>1. CASE UNCHANGED txn
  BY <1>1 DEF Shapes, NothingWritten
<1>2. CASE Look(r)
  <2>1. txn' = [txn EXCEPT ![r] = [txn[r] EXCEPT !.known = DOMAIN rows, !.knownVersion = version]]
    BY <1>2 DEF Look, Shapes
  <2>2. DOMAIN txn[r] = TxnFields
    BY DEF Shapes
  <2>3. /\ DOMAIN txn'[r] = TxnFields
        /\ txn'[r].put = txn[r].put /\ txn'[r].del = txn[r].del
    BY <2>1, <2>2 DEF TxnFields, Shapes
  <2> QED
    BY <2>1, <2>3 DEF Shapes, NothingWritten
<1> QED
  BY <1>1, <1>2

(* The record of a request that was just opened.                              *)
LEMMA OpenedFields ==
    ASSUME NEW kind, NEW p, NEW pr
    PROVE  /\ DOMAIN Opened(kind, p, pr) = ReqFields
           /\ Opened(kind, p, pr).st = "open" /\ Opened(kind, p, pr).kind = kind
  BY DEF Opened, NotOpen, ReqFields

(* Opens writes the record of r and leaves the tables alone.                  *)
LEMMA OpensRecord ==
    ASSUME Shapes, NEW r \in Req, NEW rec, Opens(r, rec), Look(r) \/ UNCHANGED txn
    PROVE  /\ req'[r] = rec /\ OthersStay(r) /\ NothingWritten
           /\ UNCHANGED <<rows, enrolled, nextId, named>>
<1>1. NothingWritten
  BY LookKeeps
<1> QED
  BY <1>1 DEF Opens, Shapes, OthersStay, authRest

(* The requests that are no enrollments.                                      *)
OpenOther(r) ==
    \/ OpenSet(r) \/ OpenClear(r) \/ OpenVerify(r) \/ OpenLogin(r) \/ OpenDenied(r)
    \/ OpenLogout(r) \/ OpenCreateUser(r) \/ OpenGrant(r) \/ OpenRevoke(r)

(* One record for one request, of a kind other than enroll.                   *)
LEMMA OpenOtherMoves ==
    ASSUME Shapes, NEW r \in Req, OpenOther(r)
    PROVE  OpenMove(r)
<1> DEFINE Fine(rec) == /\ DOMAIN rec = ReqFields
                        /\ rec.kind # "enroll"
                        /\ rec.st \notin {"idle", "clearing", "deleted"}
<1>1. ASSUME NEW rec, Opens(r, rec), Look(r) \/ UNCHANGED txn, Fine(rec), req[r].st = "idle"
      PROVE  OpenMove(r)
  BY <1>1, OpensRecord DEF OpenMove
<1>2. CASE OpenSet(r)
  <2>1. PICK p \in Route[r], pr \in Principals, key \in Editable \cup NamedSecrets :
            \E value \in Values(key) :
                Opens(r, [Opened("set", p, pr) EXCEPT
                            !.key = key, !.value = value,
                            !.old = Effective(p, Plain("inference_provider"))])
    BY <1>2 DEF OpenSet
  <2>2. PICK value \in Values(key) :
            Opens(r, [Opened("set", p, pr) EXCEPT
                        !.key = key, !.value = value,
                        !.old = Effective(p, Plain("inference_provider"))])
    BY <2>1
  <2> DEFINE rec == [Opened("set", p, pr) EXCEPT
                        !.key = key, !.value = value,
                        !.old = Effective(p, Plain("inference_provider"))]
  <2>4. Fine(rec)
    BY OpenedFields DEF ReqFields
  <2> QED
    BY <1>1, <1>2, <2>2, <2>4 DEF OpenSet, Starts
<1>3. CASE OpenClear(r)
  <2>1. PICK p \in Route[r], pr \in Principals, key \in Editable \cup NamedSecrets :
            Opens(r, [Opened("clear", p, pr) EXCEPT !.key = key])
    BY <1>3 DEF OpenClear
  <2>3. Fine([Opened("clear", p, pr) EXCEPT !.key = key])
    BY OpenedFields DEF ReqFields
  <2> QED
    BY <1>1, <1>3, <2>1, <2>3 DEF OpenClear, Starts
<1>4. CASE OpenVerify(r)
  <2>1. PICK p \in Route[r], pr \in Principals, code \in {SecretOf[i] : i \in 1..(nextId - 1)} :
          \E id \in RowsOf(pr.user) :
            LET secret == ResolveSecret(p, Ref(id))
                rec == [Opened("verify", p, pr) EXCEPT
                            !.id = id, !.sess = pr.sess, !.confirmed = enrolled[id].confirmed]
            IN  Opens(r, IF secret = Unresolved THEN [rec EXCEPT !.st = "refused"]
                         ELSE IF secret = code THEN [rec EXCEPT !.st = "unchained"]
                         ELSE [rec EXCEPT !.st = "unchained", !.kind = "denied"])
    BY <1>4 DEF OpenVerify
  <2>2. PICK id \in RowsOf(pr.user) :
            LET secret == ResolveSecret(p, Ref(id))
                rec == [Opened("verify", p, pr) EXCEPT
                            !.id = id, !.sess = pr.sess, !.confirmed = enrolled[id].confirmed]
            IN  Opens(r, IF secret = Unresolved THEN [rec EXCEPT !.st = "refused"]
                         ELSE IF secret = code THEN [rec EXCEPT !.st = "unchained"]
                         ELSE [rec EXCEPT !.st = "unchained", !.kind = "denied"])
    BY <2>1
  <2> DEFINE rec == [Opened("verify", p, pr) EXCEPT
                        !.id = id, !.sess = pr.sess, !.confirmed = enrolled[id].confirmed]
  <2>3. DOMAIN rec = ReqFields /\ rec.kind = "verify"
    BY OpenedFields DEF ReqFields
  <2> HIDE DEF rec
  <2>4. /\ Fine([rec EXCEPT !.st = "refused"]) /\ Fine([rec EXCEPT !.st = "unchained"])
        /\ Fine([rec EXCEPT !.st = "unchained", !.kind = "denied"])
    BY <2>3 DEF ReqFields
  <2>5. \/ Opens(r, [rec EXCEPT !.st = "refused"]) \/ Opens(r, [rec EXCEPT !.st = "unchained"])
        \/ Opens(r, [rec EXCEPT !.st = "unchained", !.kind = "denied"])
    BY <2>2 DEF rec
  <2>6. UNCHANGED txn /\ req[r].st = "idle"
    BY <1>4 DEF OpenVerify, Starts
  <2> HIDE DEF Fine
  <2> QED
    BY <1>1, <2>4, <2>5, <2>6
<1>5. CASE OpenLogin(r)
  <2>1. PICK p \in Route[r], u \in users \ Forwarded, s \in Session :
            Opens(r, [NotOpen EXCEPT !.st = "unchained", !.kind = "login", !.p = p,
                                     !.user = u, !.sess = s])
    BY <1>5 DEF OpenLogin
  <2>2. Fine([NotOpen EXCEPT !.st = "unchained", !.kind = "login", !.p = p,
                             !.user = u, !.sess = s])
    BY DEF ReqFields, NotOpen
  <2> QED
    BY <1>1, <1>5, <2>1, <2>2 DEF OpenLogin, Starts
<1>6. CASE OpenDenied(r)
  <2>1. PICK p \in Route[r] :
            Opens(r, [NotOpen EXCEPT !.st = "unchained", !.kind = "denied", !.p = p])
    BY <1>6 DEF OpenDenied
  <2>2. Fine([NotOpen EXCEPT !.st = "unchained", !.kind = "denied", !.p = p])
    BY DEF ReqFields, NotOpen
  <2> QED
    BY <1>1, <1>6, <2>1, <2>2 DEF OpenDenied, Starts
<1>7. CASE OpenLogout(r)
  <2>1. PICK p \in Route[r], pr \in Principals :
            Opens(r, [Opened("logout", p, pr) EXCEPT !.st = "unchained", !.sess = pr.sess])
    BY <1>7 DEF OpenLogout
  <2>2. Fine([Opened("logout", p, pr) EXCEPT !.st = "unchained", !.sess = pr.sess])
    BY OpenedFields DEF ReqFields
  <2> QED
    BY <1>1, <1>7, <2>1, <2>2 DEF OpenLogout, Starts
<1>8. CASE OpenCreateUser(r)
  <2>1. PICK p \in Route[r], pr \in Principals, u \in Others \ users :
            Opens(r, [Opened("create", p, pr) EXCEPT !.st = "unchained", !.insert = @ \cup {u}])
    BY <1>8 DEF OpenCreateUser
  <2>2. Fine([Opened("create", p, pr) EXCEPT !.st = "unchained", !.insert = @ \cup {u}])
    BY OpenedFields DEF ReqFields
  <2> QED
    BY <1>1, <1>8, <2>1, <2>2 DEF OpenCreateUser, Starts
<1>9. CASE OpenGrant(r)
  <2>1. PICK p \in Route[r], pr \in Principals, i \in DOMAIN NewGrants :
            Opens(r, [Opened("grant", p, pr) EXCEPT !.st = "unchained", !.id = i])
    BY <1>9 DEF OpenGrant
  <2>2. Fine([Opened("grant", p, pr) EXCEPT !.st = "unchained", !.id = i])
    BY OpenedFields DEF ReqFields
  <2> QED
    BY <1>1, <1>9, <2>1, <2>2 DEF OpenGrant, Starts
<1>10. CASE OpenRevoke(r)
  <2>1. PICK p \in Route[r], pr \in Principals, id \in DOMAIN asgs :
            Opens(r, [Opened("revoke", p, pr) EXCEPT !.st = "unchained", !.id = id])
    BY <1>10 DEF OpenRevoke
  <2>2. Fine([Opened("revoke", p, pr) EXCEPT !.st = "unchained", !.id = id])
    BY OpenedFields DEF ReqFields
  <2> QED
    BY <1>1, <1>10, <2>1, <2>2 DEF OpenRevoke, Starts
<1> QED
  BY <1>2, <1>3, <1>4, <1>5, <1>6, <1>7, <1>8, <1>9, <1>10 DEF OpenOther

(* An enrollment is opened.                                                   *)
EnrollMove(r) ==
    /\ req[r].st = "idle"
    /\ OthersStay(r) /\ DOMAIN req'[r] = ReqFields
    /\ req'[r].kind = "enroll" /\ req'[r].st = "open"
    /\ req'[r].prior \subseteq RowsOf(req'[r].user)
    /\ NothingWritten
    /\ UNCHANGED <<rows, enrolled, nextId, named>>

(* It is going to replace rows of its user.                                   *)
LEMMA OpenEnrollMoves ==
    ASSUME Shapes, NEW r \in Req, OpenEnroll(r)
    PROVE  EnrollMove(r)
<1>1. PICK p \in Route[r], pr \in Principals :
          Opens(r, [Opened("enroll", p, pr) EXCEPT !.user = pr.user,
                !.prior = {i \in RowsOf(pr.user) : ResolveSecret(p, Ref(i)) # Unresolved}])
  BY DEF OpenEnroll
<1> DEFINE known == {i \in RowsOf(pr.user) : ResolveSecret(p, Ref(i)) # Unresolved}
           rec == [Opened("enroll", p, pr) EXCEPT !.user = pr.user, !.prior = known]
<1>2. Opens(r, rec) /\ Look(r) /\ req[r].st = "idle"
  BY <1>1 DEF OpenEnroll, Starts
<1>3. known \subseteq RowsOf(pr.user)
  OBVIOUS
<1> HIDE DEF known
<1>4. /\ DOMAIN rec = ReqFields /\ rec.kind = "enroll" /\ rec.st = "open"
      /\ rec.user = pr.user /\ rec.prior = known
  BY OpenedFields DEF ReqFields
<1> HIDE DEF rec
<1> QED
  BY <1>2, <1>3, <1>4, OpensRecord DEF EnrollMove

(* Write changes the transaction of r only.                                   *)
WriteMove(r, put, del) ==
    /\ DOMAIN txn' = Req /\ DOMAIN txn'[r] = TxnFields
    /\ txn'[r].put = [k \in (DOMAIN txn[r].put \ del) \cup DOMAIN put |->
                         IF k \in DOMAIN put THEN put[k] ELSE txn[r].put[k]]
    /\ txn'[r].del = (txn[r].del \ DOMAIN put) \cup del
    /\ \A q \in Req : q # r => txn'[q] = txn[q]

(* The rows put and deleted are added to those of the transaction.            *)
LEMMA WriteMoves ==
    ASSUME Shapes, NEW r \in Req, NEW p, NEW put, NEW del, NEW n, Write(r, p, put, del, n)
    PROVE  WriteMove(r, put, del)
<1> DEFINE np == [k \in (DOMAIN txn[r].put \ del) \cup DOMAIN put |->
                     IF k \in DOMAIN put THEN put[k] ELSE txn[r].put[k]]
           nd == (txn[r].del \ DOMAIN put) \cup del
           nb == txn[r].bumped + n
<1>1. txn' = [txn EXCEPT ![r] = [txn[r] EXCEPT !.put = np, !.del = nd, !.bumped = nb]]
  BY DEF Write
<1>2. DOMAIN txn = Req /\ DOMAIN txn[r] = TxnFields
  BY DEF Shapes
<1> HIDE DEF np, nd, nb
<1>3. /\ DOMAIN txn'[r] = TxnFields /\ txn'[r].put = np /\ txn'[r].del = nd
      /\ DOMAIN txn' = Req /\ \A q \in Req : q # r => txn'[q] = txn[q]
  BY <1>1, <1>2 DEF TxnFields
<1> QED
  BY <1>3 DEF WriteMove, np, nd

(* A request that is no enrollment moves on; of the secrets of second factors *)
(* it touches the one it was asked for.                                       *)
OtherMove(r) ==
    /\ req[r].kind # "enroll"
    /\ OthersStay(r) /\ DOMAIN req'[r] = ReqFields
    /\ req'[r].kind # "enroll" /\ req'[r].st \notin {"idle", "clearing", "deleted"}
    /\ DOMAIN txn' = Req /\ DOMAIN txn'[r] = TxnFields
    /\ \A q \in Req : /\ DOMAIN txn'[q] = TxnFields
                      /\ q # r => txn'[q].put = txn[q].put /\ txn'[q].del = txn[q].del
    /\ \A k \in DOMAIN txn'[r].put : IsRef(k) => req'[r].kind = "set" /\ k = req'[r].key
    /\ \A k \in txn'[r].del : IsRef(k) => req'[r].kind = "clear" /\ k = req'[r].key
    /\ UNCHANGED <<rows, enrolled, nextId, named>>

(* The transaction of such a request holds no second factor but that one.     *)
LEMMA OnlyTheNamed ==
    ASSUME IInv, NEW r \in Req, req[r].kind # "enroll"
    PROVE  /\ \A k \in DOMAIN txn[r].put : IsRef(k) => req[r].kind = "set" /\ k = req[r].key
           /\ \A k \in txn[r].del : IsRef(k) => req[r].kind = "clear" /\ k = req[r].key
  BY DEF IInv, PutsOwnSecret, DeletesOwnSecrets, Inserting

(* A request that was not opened has written none.                            *)
LEMMA NoRefsThere ==
    ASSUME IInv, NEW r \in Req, req[r].st = "idle"
    PROVE  /\ req[r].kind # "enroll"
           /\ \A k \in DOMAIN txn[r].put : ~IsRef(k)
           /\ \A k \in txn[r].del : ~IsRef(k)
<1>1. req[r].kind \notin {"enroll", "set", "clear"}
  BY DEF IInv, Phases
<1> QED
  BY <1>1, OnlyTheNamed

(* Opening it.                                                                *)
LEMMA OpenOtherIsOther ==
    ASSUME IInv, NEW r \in Req, OpenOther(r)
    PROVE  OtherMove(r)
<1>1. OpenMove(r)
  BY OpenOtherMoves DEF IInv
<1>2. req[r].st = "idle"
  BY <1>1 DEF OpenMove
<1> QED
  BY <1>1, <1>2, NoRefsThere DEF OpenMove, OtherMove, NothingWritten

(* A setting or named secret is written.                                      *)
LEMMA ApplySetIsOther ==
    ASSUME IInv, NEW r \in Req, ApplySet(r)
    PROVE  OtherMove(r)
<1>1. /\ req[r].kind = "set" /\ Write(r, req[r].p, Puts(r), {}, 1)
      /\ req' = [req EXCEPT ![r] = [req[r] EXCEPT !.st = "ready"]]
      /\ UNCHANGED <<rows, enrolled, nextId, named>>
  BY DEF ApplySet, Advances, authRest
<1>2. DOMAIN req = Req /\ DOMAIN req[r] = ReqFields
  BY <1>1 DEF IInv, Shapes
<1>3. /\ OthersStay(r) /\ DOMAIN req'[r] = ReqFields
      /\ req'[r].st = "ready" /\ req'[r].kind = "set" /\ req'[r].key = req[r].key
  BY <1>1, <1>2 DEF OthersStay, ReqFields
<1>4. DOMAIN Puts(r) \subseteq {req[r].key, Plain("inference_model")}
  BY <1>1 DEF Puts, OverridePut, SecretPut
<1>5. ~IsRef(Plain("inference_model"))
  BY DEF IsRef, Ref, Plain
<1>6. WriteMove(r, Puts(r), {})
  BY <1>1, WriteMoves DEF IInv
<1>7. \A q \in Req : DOMAIN txn[q] = TxnFields
  BY DEF IInv, Shapes
<1>8. \A k \in DOMAIN Puts(r) : IsRef(k) => k = req[r].key
  BY <1>4, <1>5
<1>9. /\ \A k \in DOMAIN txn[r].put : IsRef(k) => k = req[r].key
      /\ \A k \in txn[r].del : ~IsRef(k)
  BY <1>1, OnlyTheNamed
<1> QED
  BY <1>1, <1>2, <1>3, <1>6, <1>7, <1>8, <1>9 DEF WriteMove, OtherMove

(* A setting or named secret is cleared.                                      *)
LEMMA ApplyClearIsOther ==
    ASSUME IInv, NEW r \in Req, ApplyClear(r)
    PROVE  OtherMove(r)
<1> DEFINE hit == {req[r].key} \cap txn[r].known \cap DOMAIN rows
           st == IF hit = {} THEN "refused" ELSE "ready"
<1>1. /\ req[r].kind = "clear" /\ Write(r, req[r].p, <<>>, hit, 1)
      /\ req' = [req EXCEPT ![r] = [req[r] EXCEPT !.st = st]]
      /\ UNCHANGED <<rows, enrolled, nextId, named>>
  BY DEF ApplyClear, Advances, authRest
<1>2. DOMAIN req = Req /\ DOMAIN req[r] = ReqFields
  BY <1>1 DEF IInv, Shapes
<1>3. st \in {"refused", "ready"} /\ \A k \in hit : k = req[r].key
  OBVIOUS
<1> HIDE DEF hit, st
<1>4. /\ OthersStay(r) /\ DOMAIN req'[r] = ReqFields
      /\ req'[r].st = st /\ req'[r].kind = "clear" /\ req'[r].key = req[r].key
  BY <1>1, <1>2 DEF OthersStay, ReqFields
<1>5. WriteMove(r, <<>>, hit)
  BY <1>1, WriteMoves DEF IInv
<1>6. \A q \in Req : DOMAIN txn[q] = TxnFields
  BY DEF IInv, Shapes
<1>7. /\ \A k \in DOMAIN txn[r].put : ~IsRef(k)
      /\ \A k \in txn[r].del : IsRef(k) => k = req[r].key
  BY <1>1, OnlyTheNamed
<1>8. DOMAIN <<>> = {}
  OBVIOUS
<1>9. DOMAIN txn'[r].put \subseteq DOMAIN txn[r].put /\ txn'[r].del \subseteq txn[r].del \cup hit
  BY <1>5, <1>8 DEF WriteMove
<1> QED
  BY <1>1, <1>2, <1>3, <1>4, <1>5, <1>6, <1>7, <1>9 DEF WriteMove, OtherMove

-----------------------------------------------------------------------------
(* Every step keeps the invariant.                                            *)

(* A request that is no enrollment.                                           *)
LEMMA OtherStep ==
    ASSUME IInv, NEW r \in Req, OtherMove(r)
    PROVE  IInv'
<1> USE DEF OtherMove
<1>1. \A q \in Req : Inserting(q)' <=> Inserting(q)
  BY DEF Inserting, OthersStay
<1>2. \A q \in Req : Inserting(q) => q # r /\ req'[q] = req[q]
  BY DEF Inserting, OthersStay
<1>3. \A i : Used(i)' <=> Used(i)
  BY <1>1, <1>2 DEF Used
<1>4. Shapes'
  BY DEF IInv, Shapes, OthersStay
<1>5. Phases'
  BY DEF IInv, Phases, OthersStay
<1>6. IdsAreUnique'
  BY <1>1, <1>2 DEF IInv, IdsAreUnique
<1>7. PutsOwnSecret'
  BY <1>1, <1>2 DEF IInv, PutsOwnSecret, OthersStay
<1>8. PriorsAreOwn'
  BY <1>3 DEF IInv, PriorsAreOwn, OthersStay
<1>9. DeletesOwnSecrets'
  BY <1>3 DEF IInv, DeletesOwnSecrets, DeletesWithRow, OthersStay
<1>10. EnrollmentHasSecret'
  BY DEF IInv, EnrollmentHasSecret
<1> QED
  BY <1>4, <1>5, <1>6, <1>7, <1>8, <1>9, <1>10 DEF IInv

(* An id that is enrolled was given out.                                      *)
LEMMA EnrolledIsUsed ==
    ASSUME IInv, NEW i \in DOMAIN enrolled
    PROVE  Used(i)
  BY DEF IInv, IdsAreUnique, Used

(* Opening an enrollment.                                                     *)
LEMMA OpenEnrollStep ==
    ASSUME IInv, NEW r \in Req, OpenEnroll(r)
    PROVE  IInv'
<1>1. EnrollMove(r)
  BY OpenEnrollMoves DEF IInv
<1> USE <1>1 DEF EnrollMove
<1>2. req[r].kind # "enroll"
  BY NoRefsThere
<1>3. \A q \in Req : Inserting(q)' <=> Inserting(q)
  BY <1>2 DEF Inserting, OthersStay
<1>4. \A q \in Req : Inserting(q) => q # r /\ req'[q] = req[q]
  BY <1>2 DEF Inserting, OthersStay
<1>5. \A i : Used(i)' <=> Used(i)
  BY <1>3, <1>4 DEF Used
<1>6. /\ \A k \in DOMAIN txn[r].put : ~IsRef(k)
      /\ \A k \in txn[r].del : ~IsRef(k)
  BY NoRefsThere
<1>7. Shapes'
  BY DEF IInv, Shapes, OthersStay, NothingWritten
<1>8. Phases'
  BY DEF IInv, Phases, OthersStay
<1>9. IdsAreUnique'
  BY <1>3, <1>4 DEF IInv, IdsAreUnique
<1>10. PutsOwnSecret'
  BY <1>3, <1>4, <1>6 DEF IInv, PutsOwnSecret, NothingWritten, OthersStay
<1>11. PriorsAreOwn'
  <2>1. \A i \in req'[r].prior : Used(i) /\ enrolled[i].user = req'[r].user
    BY EnrolledIsUsed DEF RowsOf
  <2> QED
    BY <1>5, <2>1 DEF IInv, PriorsAreOwn, OthersStay
<1>12. DeletesOwnSecrets'
  BY <1>5, <1>6 DEF IInv, DeletesOwnSecrets, DeletesWithRow, OthersStay, NothingWritten
<1>13. EnrollmentHasSecret'
  BY DEF IInv, EnrollmentHasSecret
<1> QED
  BY <1>7, <1>8, <1>9, <1>10, <1>11, <1>12, <1>13 DEF IInv

(* The secrets that go are those of old rows of the user, and all the user's  *)
(* rows that are still there go with them.                                    *)
LEMMA ClearPriorStep ==
    ASSUME IInv, NEW r \in Req, ClearPrior(r)
    PROVE  IInv'
<1> DEFINE refs == {Ref(i) : i \in req[r].prior} \cap DOMAIN rows
           own == RowsOf(req[r].user)
<1>1. /\ req[r].st = "open" /\ req[r].kind = "enroll"
      /\ req' = [req EXCEPT ![r] = [req[r] EXCEPT !.st = "clearing", !.prior = own]]
      /\ UNCHANGED <<rows, enrolled, nextId, named>>
  BY DEF ClearPrior, Advances, authRest
<1>2. DOMAIN req = Req /\ DOMAIN req[r] = ReqFields
  BY DEF IInv, Shapes
<1>3. \A k \in refs : \E i \in req[r].prior : k = Ref(i)
  OBVIOUS
<1>4. /\ \A k \in DOMAIN txn[r].put : ~IsRef(k)
      /\ \A k \in txn[r].del : ~IsRef(k)
  BY <1>1 DEF IInv, PutsOwnSecret, DeletesOwnSecrets, Inserting
<1>5. /\ DOMAIN txn' = Req /\ \A q \in Req : DOMAIN txn'[q] = TxnFields
      /\ \A q \in Req : q # r => txn'[q] = txn[q]
      /\ \A k \in DOMAIN txn'[r].put : ~IsRef(k)
      /\ \A k \in txn'[r].del : ~IsRef(k) \/ k \in refs
  <2>1. CASE UNCHANGED txn
    BY <2>1, <1>4 DEF IInv, Shapes
  <2>2. CASE Write(r, req[r].p, <<>>, refs, Cardinality(req[r].prior))
    <3> HIDE DEF refs
    <3>1. WriteMove(r, <<>>, refs)
      BY <2>2, WriteMoves DEF IInv
    <3>2. DOMAIN <<>> = {}
      OBVIOUS
    <3> QED
      BY <3>1, <3>2, <1>4 DEF WriteMove, IInv, Shapes
  <2> QED
    BY <2>1, <2>2 DEF ClearPrior
<1> HIDE DEF refs
<1>6. /\ OthersStay(r) /\ DOMAIN req'[r] = ReqFields
      /\ req'[r].st = "clearing" /\ req'[r].kind = "enroll" /\ req'[r].prior = own
  BY <1>1, <1>2 DEF OthersStay, ReqFields
<1>7. \A q \in Req : Inserting(q)' <=> Inserting(q)
  BY <1>1, <1>6 DEF Inserting, OthersStay
<1>8. \A q \in Req : Inserting(q) => q # r /\ req'[q] = req[q]
  BY <1>1, <1>6 DEF Inserting, OthersStay
<1>9. \A i : Used(i)' <=> Used(i)
  BY <1>1, <1>7, <1>8 DEF Used
<1>10. Shapes'
  BY <1>1, <1>5, <1>6 DEF IInv, Shapes, OthersStay
<1>11. Phases'
  BY <1>6 DEF IInv, Phases, OthersStay
<1>12. IdsAreUnique'
  BY <1>1, <1>7, <1>8 DEF IInv, IdsAreUnique
<1>13. PutsOwnSecret'
  BY <1>1, <1>5, <1>6, <1>7, <1>8 DEF IInv, PutsOwnSecret, OthersStay
<1>14. PriorsAreOwn'
  BY <1>1, <1>6, <1>9 DEF IInv, PriorsAreOwn, OthersStay
<1>15. DeletesOwnSecrets'
  <2>1. ASSUME NEW k \in txn'[r].del, IsRef(k)
        PROVE  /\ Used(k[2])
               /\ k[2] \in DOMAIN enrolled => k[2] \in own
    <3>1. PICK i \in req[r].prior : k = Ref(i)
      BY <2>1, <1>3, <1>5
    <3>2. k[2] = i
      BY <3>1 DEF Ref
    <3>3. Used(i) /\ (i \in DOMAIN enrolled => enrolled[i].user = req[r].user)
      BY <3>1, <1>1 DEF IInv, PriorsAreOwn
    <3> QED
      BY <3>1, <3>2, <3>3 DEF RowsOf
  <2> HIDE DEF own
  <2> QED
    BY <2>1, <1>1, <1>5, <1>6, <1>9 DEF IInv, DeletesOwnSecrets, DeletesWithRow, OthersStay
<1>16. EnrollmentHasSecret'
  BY <1>1 DEF IInv, EnrollmentHasSecret
<1> QED
  BY <1>10, <1>11, <1>12, <1>13, <1>14, <1>15, <1>16 DEF IInv

(* The rows are deleted that are still there.                                 *)
LEMMA DeletePriorStep ==
    ASSUME IInv, NEW r \in Req, DeletePrior(r)
    PROVE  IInv'
<1> DEFINE rest == req[r].prior \cap DOMAIN enrolled
<1>1. /\ req[r].st = "clearing" /\ req[r].kind = "enroll"
      /\ req' = [req EXCEPT ![r] =
                    [req[r] EXCEPT !.st = "deleted", !.gone = rest, !.prior = {}]]
      /\ UNCHANGED <<rows, enrolled, nextId, named>>
  BY DEF DeletePrior, Advances, authRest, IInv, Phases
<1>2. DOMAIN req = Req /\ DOMAIN req[r] = ReqFields
  BY DEF IInv, Shapes
<1>3. NothingWritten
  BY LookKeeps DEF DeletePrior, IInv
<1>4. /\ OthersStay(r) /\ DOMAIN req'[r] = ReqFields
      /\ req'[r].st = "deleted" /\ req'[r].kind = "enroll" /\ req'[r].gone = rest
  BY <1>1, <1>2 DEF OthersStay, ReqFields
<1>5. \A q \in Req : Inserting(q)' <=> Inserting(q)
  BY <1>1, <1>4 DEF Inserting, OthersStay
<1>6. \A q \in Req : Inserting(q) => q # r /\ req'[q] = req[q]
  BY <1>1, <1>4 DEF Inserting, OthersStay
<1>7. \A i : Used(i)' <=> Used(i)
  BY <1>1, <1>5, <1>6 DEF Used
<1>8. Shapes'
  BY <1>1, <1>3, <1>4 DEF IInv, Shapes, OthersStay, NothingWritten
<1>9. Phases'
  BY <1>4 DEF IInv, Phases, OthersStay
<1>10. IdsAreUnique'
  BY <1>1, <1>5, <1>6 DEF IInv, IdsAreUnique
<1>11. PutsOwnSecret'
  BY <1>1, <1>3, <1>4, <1>5, <1>6 DEF IInv, PutsOwnSecret, NothingWritten, OthersStay
<1>12. PriorsAreOwn'
  BY <1>1, <1>4, <1>7 DEF IInv, PriorsAreOwn, OthersStay
<1>13. DeletesOwnSecrets'
  BY <1>1, <1>3, <1>4, <1>7
  DEF IInv, DeletesOwnSecrets, DeletesWithRow, OthersStay, NothingWritten
<1>14. EnrollmentHasSecret'
  BY <1>1 DEF IInv, EnrollmentHasSecret
<1> QED
  BY <1>8, <1>9, <1>10, <1>11, <1>12, <1>13, <1>14 DEF IInv

(* The new row takes a new id, and its secret that name.                      *)
LEMMA InsertStep ==
    ASSUME IInv, NEW r \in Req, InsertEnrollment(r)
    PROVE  IInv'
<1> DEFINE put == SecretPut(req[r].p, Ref(nextId), SecretOf[nextId])
<1>1. /\ req[r].st = "deleted" /\ req[r].kind = "enroll"
      /\ Write(r, req[r].p, put, {}, 1)
      /\ req' = [req EXCEPT ![r] = [req[r] EXCEPT !.st = "unchained", !.id = nextId]]
      /\ nextId' = nextId + 1
      /\ UNCHANGED <<rows, enrolled, named>>
  BY DEF InsertEnrollment, Advances, IInv, Phases
<1>2. DOMAIN req = Req /\ DOMAIN req[r] = ReqFields /\ nextId \in Nat
  BY DEF IInv, Shapes
<1>3. DOMAIN put = {Ref(nextId)} /\ put[Ref(nextId)].value = SecretOf[nextId]
  BY DEF SecretPut, Row
<1> HIDE DEF put
<1>4. WriteMove(r, put, {})
  BY <1>1, WriteMoves DEF IInv
<1>5. \A k \in DOMAIN txn[r].put : ~IsRef(k)
  BY <1>1 DEF IInv, PutsOwnSecret, Inserting
<1>6. /\ Ref(nextId) \in DOMAIN txn'[r].put
      /\ \A k \in DOMAIN txn'[r].put : IsRef(k) =>
            k = Ref(nextId) /\ txn'[r].put[k].value = SecretOf[nextId]
      /\ txn'[r].del \subseteq txn[r].del
  BY <1>3, <1>4, <1>5 DEF WriteMove
<1>7. /\ OthersStay(r) /\ DOMAIN req'[r] = ReqFields
      /\ req'[r].st = "unchained" /\ req'[r].kind = "enroll" /\ req'[r].id = nextId
      /\ req'[r].gone = req[r].gone
  BY <1>1, <1>2 DEF OthersStay, ReqFields
<1>8. \A q \in Req : q # r => (Inserting(q)' <=> Inserting(q)) /\ req'[q] = req[q]
  BY <1>7 DEF Inserting, OthersStay
<1>9. Inserting(r)' /\ ~Inserting(r)
  BY <1>1, <1>7 DEF Inserting
<1>10. \A i : Used(i) => Used(i)'
  BY <1>1, <1>2, <1>7, <1>8, <1>9 DEF Used
<1>11. Shapes'
  BY <1>1, <1>2, <1>4, <1>7 DEF IInv, Shapes, OthersStay, WriteMove
<1>12. Phases'
  BY <1>7 DEF IInv, Phases, OthersStay
<1>13. IdsAreUnique'
  BY <1>1, <1>2, <1>7, <1>8, <1>9 DEF IInv, IdsAreUnique
<1>14. PutsOwnSecret'
  <2> DEFINE Own(q) == /\ Inserting(q) => Ref(req[q].id) \in DOMAIN txn[q].put
                       /\ \A k \in DOMAIN txn[q].put : IsRef(k) =>
                             \/ /\ Inserting(q) /\ k = Ref(req[q].id)
                                /\ txn[q].put[k].value = SecretOf[req[q].id]
                             \/ req[q].kind = "set" /\ k = req[q].key
  <2>1. \A q \in Req : q # r => txn'[q] = txn[q]
    BY <1>4 DEF WriteMove
  <2>2. \A q \in Req : q # r => Own(q)'
    BY <2>1, <1>8 DEF IInv, PutsOwnSecret
  <2>3. Own(r)'
    BY <1>6, <1>7, <1>9
  <2> QED
    BY <2>2, <2>3 DEF PutsOwnSecret
<1>15. PriorsAreOwn'
  BY <1>1, <1>7, <1>10 DEF IInv, PriorsAreOwn, OthersStay
<1>16. DeletesOwnSecrets'
  BY <1>1, <1>4, <1>6, <1>7, <1>10
  DEF IInv, DeletesOwnSecrets, DeletesWithRow, OthersStay, WriteMove
<1>17. EnrollmentHasSecret'
  BY <1>1 DEF IInv, EnrollmentHasSecret
<1> QED
  BY <1>11, <1>12, <1>13, <1>14, <1>15, <1>16, <1>17 DEF IInv

(* The audit head is read.                                                    *)
LEMMA ChainStep ==
    ASSUME IInv, NEW r \in Req, Chain(r)
    PROVE  IInv'
<1>1. /\ req[r].st = "unchained"
      /\ req' = [req EXCEPT ![r] = [req[r] EXCEPT !.st = "chained", !.head = head]]
      /\ UNCHANGED <<rows, txn, enrolled, nextId, named>>
  BY DEF Chain, settingsVars, authRest, IInv, Shapes
<1>2. DOMAIN req = Req /\ DOMAIN req[r] = ReqFields
  BY DEF IInv, Shapes
<1>3. /\ OthersStay(r) /\ DOMAIN req'[r] = ReqFields
      /\ req'[r].st = "chained" /\ req'[r].kind = req[r].kind /\ req'[r].id = req[r].id
      /\ req'[r].key = req[r].key /\ req'[r].gone = req[r].gone
  BY <1>1, <1>2 DEF OthersStay, ReqFields
<1>4. \A q \in Req : (Inserting(q)' <=> Inserting(q)) /\ req'[q].id = req[q].id
  BY <1>1, <1>3 DEF Inserting, OthersStay
<1>5. \A i : Used(i)' <=> Used(i)
  BY <1>1, <1>4 DEF Used
<1>6. Shapes'
  BY <1>1, <1>3 DEF IInv, Shapes, OthersStay
<1>7. Phases'
  BY <1>1, <1>3 DEF IInv, Phases, OthersStay
<1>8. IdsAreUnique'
  BY <1>1, <1>4 DEF IInv, IdsAreUnique
<1>9. PutsOwnSecret'
  BY <1>1, <1>4 DEF IInv, PutsOwnSecret
<1>10. PriorsAreOwn'
  BY <1>1, <1>3, <1>5 DEF IInv, PriorsAreOwn, OthersStay
<1>11. DeletesOwnSecrets'
  BY <1>1, <1>3, <1>5 DEF IInv, DeletesOwnSecrets, DeletesWithRow, OthersStay
<1>12. EnrollmentHasSecret'
  BY <1>1 DEF IInv, EnrollmentHasSecret
<1> QED
  BY <1>6, <1>7, <1>8, <1>9, <1>10, <1>11, <1>12 DEF IInv

(* The request is over and its transaction is empty.                          *)
EndMove(r) ==
    /\ OthersStay(r) /\ DOMAIN req'[r] = ReqFields
    /\ req'[r].st = "done" /\ req'[r].kind = "none"
    /\ DOMAIN txn' = Req /\ txn'[r].put = <<>> /\ txn'[r].del = {}
    /\ \A q \in Req : DOMAIN txn'[q] = TxnFields /\ (q # r => txn'[q] = txn[q])

(* Release and Ended.                                                         *)
LEMMA EndMoves ==
    ASSUME Shapes, NEW r \in Req, Release(r), Ended(r)
    PROVE  EndMove(r)
<1>1. /\ req' = [req EXCEPT ![r] = [NotOpen EXCEPT !.st = "done"]]
      /\ txn' = [txn EXCEPT ![r] = NoTxn]
  BY DEF Release, Ended
<1>2. DOMAIN req = Req /\ DOMAIN txn = Req /\ \A q \in Req : DOMAIN txn[q] = TxnFields
  BY DEF Shapes
<1>3. DOMAIN NoTxn = TxnFields /\ NoTxn.put = <<>> /\ NoTxn.del = {}
  BY DEF NoTxn, TxnFields
<1> DEFINE last == [NotOpen EXCEPT !.st = "done"]
<1>4. DOMAIN last = ReqFields /\ last.st = "done" /\ last.kind = "none"
  BY DEF NotOpen, ReqFields
<1>5. req'[r] = last /\ DOMAIN req' = Req /\ \A q \in Req : q # r => req'[q] = req[q]
  BY <1>1, <1>2
<1>6. txn'[r] = NoTxn /\ DOMAIN txn' = Req /\ \A q \in Req : q # r => txn'[q] = txn[q]
  BY <1>1, <1>2
<1> HIDE DEF last
<1> QED
  BY <1>2, <1>3, <1>4, <1>5, <1>6 DEF EndMove, OthersStay

(* What holds of the requests once r is over, whatever it committed: the rows *)
(* of enrolled are the old ones, or the one r inserted.                       *)
LEMMA EndStep ==
    ASSUME IInv, NEW r \in Req, EndMove(r), nextId' = nextId,
           \A i \in DOMAIN enrolled' :
              /\ enrolled'[i] = [user |-> enrolled'[i].user, confirmed |-> enrolled'[i].confirmed]
              /\ \/ i \in DOMAIN enrolled /\ enrolled'[i].user = enrolled[i].user
                 \/ Inserting(r) /\ i = req[r].id,
           EnrollmentHasSecret'
    PROVE  IInv'
<1> USE DEF EndMove
<1>1. \A q \in Req : Inserting(q)' <=> Inserting(q) /\ q # r
  BY DEF Inserting, OthersStay
<1>2. \A q \in Req : q # r => req'[q] = req[q]
  BY DEF OthersStay
<1>3. \A i : Used(i) => Used(i)'
  BY <1>1, <1>2 DEF Used
<1>4. \A i : Used(i) /\ i \in DOMAIN enrolled' =>
          i \in DOMAIN enrolled /\ enrolled'[i].user = enrolled[i].user
  BY DEF Used
<1>5. Shapes'
  BY DEF IInv, Shapes, OthersStay
<1>6. Phases'
  BY DEF IInv, Phases, OthersStay
<1>7. IdsAreUnique'
  BY <1>1, <1>2 DEF IInv, IdsAreUnique
<1>8. DOMAIN txn'[r].put = {}
  <2>1. DOMAIN <<>> = {}
    OBVIOUS
  <2> QED
    BY <2>1
<1>9. PutsOwnSecret'
  BY <1>1, <1>2, <1>8 DEF IInv, PutsOwnSecret
<1>10. PriorsAreOwn'
  BY <1>2, <1>3, <1>4 DEF IInv, PriorsAreOwn
<1>11. DeletesOwnSecrets'
  BY <1>2, <1>3, <1>4 DEF IInv, DeletesOwnSecrets, DeletesWithRow
<1> QED
  BY <1>5, <1>6, <1>7, <1>9, <1>10, <1>11 DEF IInv

(* A rollback.                                                                *)
LEMMA RollbackStep ==
    ASSUME IInv, NEW r \in Req, Rollback(r)
    PROVE  IInv'
<1>1. EndMove(r)
  BY EndMoves DEF Rollback, RollbackRows, IInv
<1>2. UNCHANGED <<rows, enrolled, nextId, named>>
  BY DEF Rollback, RollbackRows, authRest
<1>3. EnrollmentHasSecret'
  BY <1>2 DEF IInv, EnrollmentHasSecret
<1>4. \A i \in DOMAIN enrolled :
          enrolled[i] = [user |-> enrolled[i].user, confirmed |-> enrolled[i].confirmed]
  BY DEF IInv, Shapes
<1> QED
  BY <1>1, <1>2, <1>3, <1>4, EndStep

(* A commit: the rows that stay enrolled keep their secret, and the new one   *)
(* brings its own.                                                            *)
LEMMA CommitStep ==
    ASSUME IInv, NEW r \in Req, Commit(r)
    PROVE  IInv'
<1>1. EndMove(r)
  BY EndMoves DEF Commit, CommitRows, IInv
<1>2. /\ req[r].st \in {"ready", "chained"} /\ nextId' = nextId
      /\ rows' = Overlay(rows, txn[r]) /\ CommitEnrollment(r) /\ RecordNamed(r)
  BY DEF Commit, CommitRows
<1>3. DOMAIN rows' = (DOMAIN rows \ txn[r].del) \cup DOMAIN txn[r].put
  BY <1>2 DEF Overlay
<1>4. \A k \in DOMAIN rows' : rows'[k] = IF k \in DOMAIN txn[r].put THEN txn[r].put[k] ELSE rows[k]
  BY <1>2 DEF Overlay
<1>5. \A i : IsRef(Ref(i)) /\ Ref(i)[2] = i
  BY DEF IsRef, Ref
<1>6. \A i, j : Ref(i) = Ref(j) => i = j
  BY <1>5
<1>7. CASE req[r].kind = "enroll"
  <2>1. Inserting(r)
    BY <1>2, <1>7 DEF Inserting, IInv, Phases
  <2>2. enrolled' = [i \in (DOMAIN enrolled \ req[r].gone) \cup {req[r].id} |->
                        IF i = req[r].id THEN [user |-> req[r].user, confirmed |-> FALSE]
                        ELSE enrolled[i]]
    BY <1>2, <1>7 DEF CommitEnrollment
  <2>3. \A i \in DOMAIN enrolled' :
           /\ enrolled'[i] = [user |-> enrolled'[i].user, confirmed |-> enrolled'[i].confirmed]
           /\ \/ i \in DOMAIN enrolled /\ enrolled'[i].user = enrolled[i].user
              \/ Inserting(r) /\ i = req[r].id
    BY <2>1, <2>2 DEF IInv, Shapes
  <2>4. /\ Ref(req[r].id) \in DOMAIN txn[r].put
        /\ txn[r].put[Ref(req[r].id)].value = SecretOf[req[r].id]
    BY <2>1, <1>5 DEF IInv, PutsOwnSecret, Inserting
  <2>5. ASSUME NEW i \in DOMAIN enrolled, i \notin req[r].gone, Ref(i) \notin named
        PROVE  Ref(i) \in DOMAIN rows' /\ rows'[Ref(i)] = rows[Ref(i)]
    <3>1. Ref(i) \in DOMAIN rows
      BY <2>5 DEF IInv, EnrollmentHasSecret
    <3>2. Ref(i) \notin txn[r].del
      BY <2>1, <2>5, <1>5 DEF IInv, DeletesOwnSecrets, DeletesWithRow, Inserting
    <3>3. Ref(i) \notin DOMAIN txn[r].put
      BY <2>1, <1>5, <1>6 DEF IInv, PutsOwnSecret, IdsAreUnique, Inserting
    <3> QED
      BY <3>1, <3>2, <3>3, <1>3, <1>4
  <2>6. EnrollmentHasSecret'
    <3>1. \A i \in DOMAIN enrolled' :
             i = req[r].id \/ (i \in DOMAIN enrolled /\ i \notin req[r].gone)
      BY <2>2
    <3>2. Ref(req[r].id) \in DOMAIN rows' /\ rows'[Ref(req[r].id)].value = SecretOf[req[r].id]
      BY <2>4, <1>3, <1>4
    <3>3. named' = named \ {Ref(req[r].id)}
      BY <1>2, <1>7 DEF RecordNamed
    <3>4. \A i : Ref(i) \notin named' => i = req[r].id \/ Ref(i) \notin named
      BY <3>3, <1>6
    <3> QED
      BY <3>1, <3>2, <3>4, <2>5 DEF IInv, EnrollmentHasSecret
  <2> QED
    BY <1>1, <1>2, <2>3, <2>6, EndStep
<1>8. CASE req[r].kind # "enroll"
  <2>1. /\ DOMAIN enrolled' = DOMAIN enrolled
        /\ \A i \in DOMAIN enrolled :
              /\ enrolled'[i] =
                    [user |-> enrolled'[i].user, confirmed |-> enrolled'[i].confirmed]
              /\ enrolled'[i].user = enrolled[i].user
    <3>1. \A i \in DOMAIN enrolled :
             enrolled[i] = [user |-> enrolled[i].user, confirmed |-> enrolled[i].confirmed]
      BY DEF IInv, Shapes
    <3>2. \/ enrolled' = enrolled
          \/ enrolled' = [enrolled EXCEPT ![req[r].id].confirmed = TRUE]
      BY <1>2, <1>8 DEF CommitEnrollment
    <3> QED
      BY <3>1, <3>2
  <2>2. ASSUME NEW i, Ref(i) \notin named'
        PROVE  Ref(i) \notin named /\ Ref(i) \notin DOMAIN txn[r].put \cup txn[r].del
    <3>1. Ref(i) \notin Fields
      BY DEF Ref, Fields, Plain
    <3>2. \/ req[r].kind \in {"set", "clear"} /\ named' = named \cup ({req[r].key} \ Fields)
          \/ req[r].kind \notin {"set", "clear"} /\ named' = named
      BY <1>2, <1>8 DEF RecordNamed
    <3>3. Ref(i) \notin named /\ (req[r].kind \in {"set", "clear"} => Ref(i) # req[r].key)
      BY <2>2, <3>1, <3>2
    <3> QED
      BY <3>3, <1>5, <1>8, OnlyTheNamed
  <2>3. \A i : Ref(i) \notin named' /\ Ref(i) \in DOMAIN rows =>
            Ref(i) \in DOMAIN rows' /\ rows'[Ref(i)] = rows[Ref(i)]
    BY <2>2, <1>3, <1>4
  <2>4. EnrollmentHasSecret'
    BY <2>1, <2>2, <2>3 DEF IInv, EnrollmentHasSecret
  <2> QED
    BY <1>1, <1>2, <2>1, <2>4, EndStep
<1> QED
  BY <1>7, <1>8

(* The refresh worker, and a step that changes nothing.                       *)
LEMMA TickStep ==
    ASSUME IInv, UNCHANGED <<rows, txn, authVars>>
    PROVE  IInv'
<1> USE DEF authVars
<1>1. Shapes' /\ Phases' /\ EnrollmentHasSecret'
  BY DEF IInv, Shapes, Phases, EnrollmentHasSecret
<1>2. IdsAreUnique' /\ PutsOwnSecret'
  BY DEF IInv, IdsAreUnique, PutsOwnSecret, Inserting
<1>3. PriorsAreOwn' /\ DeletesOwnSecrets'
  BY DEF IInv, PriorsAreOwn, DeletesOwnSecrets, DeletesWithRow, Used, Inserting
<1> QED
  BY <1>1, <1>2, <1>3 DEF IInv

(* The first enrollment has its secret.                                       *)
LEMMA InitIInv == Init => IInv
<1> SUFFICES ASSUME Init PROVE IInv
  OBVIOUS
<1>1. /\ req = [r \in Req |-> NotOpen] /\ txn = [r \in Req |-> NoTxn] /\ nextId = 2
      /\ rows = [k \in {Ref(1)} |-> Row(SecretOf[1], TRUE, CHOOSE p \in Proc : TRUE)]
      /\ enrolled = [i \in {1} |-> [user |-> CHOOSE a \in Admins : TRUE, confirmed |-> TRUE]]
  BY DEF Init, StoreInit
<1>2. DOMAIN NotOpen = ReqFields /\ NotOpen.st = "idle" /\ NotOpen.kind = "none"
  BY DEF NotOpen, ReqFields
<1>3. DOMAIN NoTxn = TxnFields /\ DOMAIN NoTxn.put = {} /\ NoTxn.del = {}
  BY DEF NoTxn, TxnFields
<1>4. /\ DOMAIN req = Req /\ DOMAIN txn = Req
      /\ \A r \in Req : req[r] = NotOpen /\ txn[r] = NoTxn
  BY <1>1
<1>5. \A r \in Req : ~Inserting(r)
  BY <1>2, <1>4 DEF Inserting
<1>6. Shapes
  BY <1>1, <1>2, <1>3, <1>4 DEF Shapes
<1>7. Phases /\ PriorsAreOwn
  BY <1>2, <1>4 DEF Phases, PriorsAreOwn
<1>8. IdsAreUnique
  BY <1>1, <1>5 DEF IdsAreUnique
<1>9. PutsOwnSecret /\ DeletesOwnSecrets
  BY <1>3, <1>4, <1>5 DEF PutsOwnSecret, DeletesOwnSecrets
<1>10. EnrollmentHasSecret
  BY <1>1 DEF EnrollmentHasSecret, Row
<1> QED
  BY <1>6, <1>7, <1>8, <1>9, <1>10 DEF IInv

(* The invariant holds in every reachable state.                              *)
LEMMA Invariance == Spec => []IInv
<1>1. IInv /\ [Next]_vars => IInv'
  <2> SUFFICES ASSUME IInv, [Next]_vars PROVE IInv'
    OBVIOUS
  <2>1. CASE UNCHANGED vars
    BY <2>1, TickStep DEF vars, settingsVars
  <2>2. ASSUME NEW p \in Proc, Tick(p), UNCHANGED authVars PROVE IInv'
    BY <2>2, TickStep DEF Tick, TickRead, TickApply, TickError
  <2>3. ASSUME NEW r \in Req, Open(r) PROVE IInv'
    BY <2>3, OpenOtherIsOther, OtherStep, OpenEnrollStep DEF Open, OpenOther
  <2>4. ASSUME NEW r \in Req, ApplySet(r) \/ ApplyClear(r) PROVE IInv'
    BY <2>4, ApplySetIsOther, ApplyClearIsOther, OtherStep
  <2>5. ASSUME NEW r \in Req, ClearPrior(r) \/ DeletePrior(r) \/ InsertEnrollment(r) PROVE IInv'
    BY <2>5, ClearPriorStep, DeletePriorStep, InsertStep
  <2>6. ASSUME NEW r \in Req, Chain(r) \/ Commit(r) PROVE IInv'
    BY <2>6, ChainStep, CommitStep
  <2>7. ASSUME NEW r \in Req, Fail(r) \/ Abort(r) PROVE IInv'
    BY <2>7, RollbackStep DEF Fail, Abort
  <2> QED
    BY <2>1, <2>2, <2>3, <2>4, <2>5, <2>6, <2>7 DEF Next, Step
<1> QED
  BY <1>1, InitIInv, PTL DEF Spec

(* POST /mfa/enroll commits a row together with its secret and removes the    *)
(* secret of a row only with the row: every committed second factor can be    *)
(* checked, whatever enrollments of the same user run at once in several      *)
(* processes, block each other, are rolled back or are cut off, unless an     *)
(* administrator set or cleared that very secret by its name afterwards.      *)
THEOREM SecretsFollowRows == Spec => []EnrollmentHasSecret
<1>1. IInv => EnrollmentHasSecret
  BY DEF IInv
<1> QED
  BY <1>1, Invariance, PTL
=============================================================================
