--------------------------- MODULE SettingsStore ---------------------------
(* The runtime settings store: the overrides and named secrets of the        *)
(* catalogue, the copy every API process keeps in memory, and the periodic   *)
(* worker that reloads that copy.  A request writes inside its transaction   *)
(* and publishes what it wrote to the memory of its process before the       *)
(* transaction commits; the requests themselves are in AccessControl.        *)
(*                                                                           *)
(* The database is PostgreSQL at READ COMMITTED: the first bump of the       *)
(* version row locks it until the transaction ends.                          *)
EXTENDS Naturals, FiniteSets, Sequences

CONSTANTS
    Proc,        \* API processes, each with a store of its own
    Req,         \* requests, each with a database transaction of its own
    NoReq,       \* nobody
    FernetKey,   \* FernetKey[p]: the key process p encrypts secrets with
    MaxFaults    \* bound on database errors and crashes

VARIABLES
    rows,      \* settings_override: key -> row, committed
    version,   \* settings_version, committed; 0 while the row is absent
    store,     \* store[p]: the overrides and the version process p holds
    reload,    \* reload[p]: the rows p's worker has read and not yet applied
    txn,       \* txn[r]: what r has written and not committed
    holder,    \* the request that holds the lock on the version row
    faults     \* faults so far

settingsVars == <<rows, version, store, reload, txn, holder, faults>>

-----------------------------------------------------------------------------
(* Keys and values.  A key is a pair <<name, id>>; only the secrets of       *)
(* second factors use the id.                                                *)
Plain(name) == <<name, 0>>

(* The settings this model tells apart: the chat provider, the model that    *)
(* follows it, and one setting that says where a credential is sent.         *)
Fields == {Plain("inference_provider"), Plain("inference_model"),
           Plain("inference_allow_egress")}

(* set_override takes the keys with an editable policy; anything else is     *)
(* set in the environment only.                                              *)
Editable == Fields

Providers == {"ollama", "anthropic"}

DefaultModel(provider) ==
    IF provider = "ollama" THEN "llama3.2:3b" ELSE "claude-haiku-4-5"

(* The values a request offers for a field.                                  *)
Values(key) ==
    CASE key = Plain("inference_provider") -> Providers \ {"ollama"}
      [] key = Plain("inference_model") -> {}      \* written by a switch only
      [] OTHER -> {"true"}

(* The environment's values, under the overrides.                            *)
Base(key) == IF key = Plain("inference_provider") THEN "ollama" ELSE "unset"

(* A row: a secret is ciphertext under the key of the process that wrote it, *)
(* any other value is plain JSON.                                            *)
Row(value, secret, p) ==
    [value |-> value, secret |-> secret,
     under |-> IF secret THEN FernetKey[p] ELSE "plain"]

-----------------------------------------------------------------------------
(* What a process makes of the rows: one it cannot decrypt is skipped.       *)
Decodes(p, row) == ~row.secret \/ row.under = FernetKey[p]

Decoded(p, rs) ==
    [k \in {k \in DOMAIN rs : Decodes(p, rs[k])} |->
        [value |-> rs[k].value, secret |-> rs[k].secret]]

(* refresh(): the process's copy becomes what was read.                      *)
Loaded(p, rs, v) == [overrides |-> Decoded(p, rs), version |-> v]

Effective(p, key) ==
    IF key \in DOMAIN store[p].overrides
    THEN store[p].overrides[key].value ELSE Base(key)

Unresolved == "none"

(* resolve_secret(): in-app secrets only; others go to the environment.      *)
ResolveSecret(p, ref) ==
    IF ref \in DOMAIN store[p].overrides /\ store[p].overrides[ref].secret
    THEN store[p].overrides[ref].value ELSE Unresolved

-----------------------------------------------------------------------------
(* Transactions.  put and del are the writes so far, bumped the increments   *)
(* of the version, known the rows and knownVersion the version that the      *)
(* decision between INSERT and UPDATE was made on.                           *)
NoTxn == [put |-> <<>>, del |-> {}, bumped |-> 0, known |-> {}, knownVersion |-> 0]

Overlay(rs, t) ==
    [k \in (DOMAIN rs \ t.del) \cup DOMAIN t.put |->
        IF k \in DOMAIN t.put THEN t.put[k] ELSE rs[k]]

(* session.get() on the rows to be written and on the version row.           *)
Look(r) ==
    txn' = [txn EXCEPT ![r].known = DOMAIN rows, ![r].knownVersion = version]

(* The statement chosen when r looked fails now: an INSERT of a row that     *)
(* another request has committed, an UPDATE of one that it has deleted.      *)
Conflict(r, keys) ==
    \/ \E k \in keys : (k \in txn[r].known) # (k \in DOMAIN rows)
    \/ txn[r].knownVersion = 0 /\ version > 0

(* _upsert or DELETE, _bump_version and refresh, n times in r's transaction: *)
(* the process's memory shows the writes at once.                            *)
Write(r, p, put, del, n) ==
    LET t == [txn[r] EXCEPT !.put = [k \in (DOMAIN @ \ del) \cup DOMAIN put |->
                                        IF k \in DOMAIN put THEN put[k] ELSE @[k]],
                            !.del = (@ \ DOMAIN put) \cup del,
                            !.bumped = @ + n]
    IN  /\ holder \in {r, NoReq}
        /\ ~Conflict(r, DOMAIN put)
        /\ holder' = r
        /\ txn' = [txn EXCEPT ![r] = t]
        /\ store' = [store EXCEPT ![p] =
                        Loaded(p, Overlay(rows, t), version + t.bumped)]

(* set_override: switching the provider resets the model.  Whether it is a   *)
(* switch is judged by what the process's memory showed.                     *)
OverridePut(p, key, value, oldProvider) ==
    LET switch == key = Plain("inference_provider") /\ value # oldProvider
        keys == {key} \cup (IF switch THEN {Plain("inference_model")} ELSE {})
    IN  [k \in keys |-> Row(IF k = key THEN value ELSE DefaultModel(value), FALSE, p)]

SecretPut(p, ref, value) == [k \in {ref} |-> Row(value, TRUE, p)]

(* UPDATE ... SET version = version + 1: the database adds, under the lock.  *)
CommittedVersion(r) == version + txn[r].bumped

(* The end of r's transaction, on the rows and on the lock.                  *)
Release(r) ==
    /\ holder' = IF holder = r THEN NoReq ELSE holder
    /\ txn' = [txn EXCEPT ![r] = NoTxn]

CommitRows(r) ==
    /\ rows' = Overlay(rows, txn[r])
    /\ version' = CommittedVersion(r)
    /\ Release(r)

(* A rollback undoes the rows and leaves the memory as it is.                *)
RollbackRows(r) ==
    /\ Release(r)
    /\ UNCHANGED <<rows, version>>

-----------------------------------------------------------------------------
(* The refresh worker of process p: it reads the rows, then the version, and *)
(* installs both.  Requests of the process run in between.                   *)
NotReading == [reading |-> FALSE, seen |-> <<>>]

TickRead(p) ==
    /\ ~reload[p].reading
    /\ reload' = [reload EXCEPT ![p] = [reading |-> TRUE, seen |-> rows]]
    /\ UNCHANGED <<rows, version, store, txn, holder, faults>>

(* Mutant of TickApply: a version that is not newer is not installed.        *)
ApplyIfNewer(p) ==
    /\ reload[p].reading
    /\ store' = IF version > store[p].version
                THEN [store EXCEPT ![p] = Loaded(p, reload[p].seen, version)] ELSE store
    /\ reload' = [reload EXCEPT ![p] = NotReading]
    /\ UNCHANGED <<rows, version, txn, holder, faults>>

TickApply(p) ==
    /\ reload[p].reading
    /\ store' = [store EXCEPT ![p] = Loaded(p, reload[p].seen, version)]
    /\ reload' = [reload EXCEPT ![p] = NotReading]
    /\ UNCHANGED <<rows, version, txn, holder, faults>>

(* A database error in refresh(): the overrides are dropped, the base stays. *)
TickError(p) ==
    /\ faults < MaxFaults
    /\ store' = [store EXCEPT ![p] = [overrides |-> <<>>, version |-> 0]]
    /\ reload' = [reload EXCEPT ![p] = NotReading]
    /\ faults' = faults + 1
    /\ UNCHANGED <<rows, version, txn, holder>>

(* Start of the process: the store is loaded before requests are taken.      *)
StoreInit(initial) ==
    /\ rows = initial
    /\ version = IF initial = <<>> THEN 0 ELSE 1
    /\ store = [p \in Proc |-> Loaded(p, initial, version)]
    /\ reload = [p \in Proc |-> NotReading]
    /\ txn = [r \in Req |-> NoTxn]
    /\ holder = NoReq
    /\ faults = 0

Tick(p) == TickRead(p) \/ TickApply(p) \/ TickError(p)
=============================================================================
