--------------------------- MODULE AccessControl ---------------------------
(* Accounts, role assignments, sessions and second factors, and the requests *)
(* of the web API that change them or the runtime settings.  A request       *)
(* resolves its principal, reads, writes and ends in a commit or a rollback, *)
(* as separate steps, so requests of several processes interleave.  A        *)
(* request that answers 401, 403, 404, 409 or 422 before it writes changes   *)
(* nothing and is left out; a denied login or code is a request, because it  *)
(* is recorded.                                                              *)
EXTENDS SettingsStore

CONSTANTS
    Admins,       \* accounts that hold a global admin assignment at the start
    Members,      \* the other accounts of the start
    Others,       \* local accounts that may be created
    Forwarded,    \* accounts the proxy vouches for
    GroupRole,    \* the role their group is bound to
    Session,      \* session rows
    NoSession,
    FirstSession, \* FirstSession[a]: the session administrator a starts with
    FirstGrants,  \* scoped assignments of the start, a sequence
    NewGrants,    \* assignments a request may create
    Kinds,        \* Kinds[r]: the kinds of request r may be
    Route,        \* Route[r]: the processes r may be sent to
    SecretRefs,   \* names that requests for named secrets give
    MaxEnroll     \* bound on the enrollments

VARIABLES
    users,      \* committed accounts
    asgs,       \* committed role assignments: id -> assignment
    sessions,   \* committed sessions
    enrolled,   \* committed second factors: id -> owner and confirmation
    nextId,     \* the sequence of enrollment ids; a rollback does not undo it
    head,       \* the number of committed audit rows: the audit head
    named,      \* history: secrets that an administrator last set or cleared by name
    req         \* req[r]: where request r stands

authVars == <<users, asgs, sessions, enrolled, nextId, head, named, req>>
vars == <<settingsVars, authVars>>

-----------------------------------------------------------------------------
(* Roles, capabilities and scopes.                                           *)
ViewerCaps == {"view_metadata"}
RemediatorCaps == ViewerCaps \cup {"execute_remediation"}
AuditorCaps == ViewerCaps \cup {"read_audit"}
AdminCaps == RemediatorCaps \cup AuditorCaps \cup {"manage_users", "manage_settings"}

RoleCaps ==
    [viewer |-> ViewerCaps, remediator |-> RemediatorCaps,
     auditor |-> AuditorCaps, admin |-> AdminCaps]

RoleHas(role, cap) == cap \in RoleCaps[role]

NoId == 0

(* A stored assignment of a role or scope that is not known is ignored.      *)
WellFormed(g) == g.role \in DOMAIN RoleCaps /\ g.scope \in {"global", "host", "volume"}

(* What create_assignment accepts: a scope comes with its id.                *)
Validated(g) == WellFormed(g) /\ (g.scope # "global" => g.id # NoId)

GrantsOf(user) ==
    {[role |-> asgs[i].role, scope |-> asgs[i].scope, id |-> asgs[i].id] :
        i \in {i \in DOMAIN asgs : asgs[i].user = user /\ WellFormed(asgs[i])}}

(* The proxy's groups are bound to roles, for the whole estate.              *)
RolesForGroups(user) == {[role |-> GroupRole, scope |-> "global", id |-> NoId]}

(* ScopeFilter.from_grants: the union over the grants that confer cap; a     *)
(* scope without its id adds nothing.                                        *)
FromGrants(grants, cap) ==
    LET relevant == {g \in grants : RoleHas(g.role, cap)}
    IN  [all     |-> \E g \in relevant : g.scope = "global",
         hosts   |-> {g.id : g \in {g \in relevant : g.scope = "host"}} \ {NoId},
         volumes |-> {g.id : g \in {g \in relevant : g.scope = "volume"}} \ {NoId}]

IsEmpty(f) == ~f.all /\ f.hosts = {} /\ f.volumes = {}

-----------------------------------------------------------------------------
(* Principals: the bearer of a live session of an account, or an account     *)
(* the trusted proxy names.  Time is not modelled: a session that has run    *)
(* out, or a step-up that has lapsed, is a request that is not made.         *)
Live(s) == sessions[s].st = "live"

SessionPrincipals ==
    {[user |-> sessions[s].user, sess |-> s, fresh |-> sessions[s].mfa = "fresh",
      grants |-> GrantsOf(sessions[s].user)] :
        s \in {s \in Session : Live(s) /\ sessions[s].user \in users}}

ForwardPrincipals ==
    {[user |-> u, sess |-> NoSession, fresh |-> FALSE, grants |-> RolesForGroups(u)] :
        u \in Forwarded}

Principals == SessionPrincipals \cup ForwardPrincipals

(* require(capability).                                                      *)
Allowed(pr, cap) ==
    /\ \E g \in pr.grants : RoleHas(g.role, cap)
    /\ ~IsEmpty(FromGrants(pr.grants, cap))

StepUpFor(key) == key \notin Fields \/ key = Plain("inference_allow_egress")

-----------------------------------------------------------------------------
(* Requests.                                                                 *)
NotOpen == [st |-> "idle", kind |-> "none", p |-> "none", user |-> "none",
            sess |-> NoSession, insert |-> {}, key |-> Plain("none"),
            value |-> "none", old |-> "none", id |-> 0, confirmed |-> FALSE,
            prior |-> {}, gone |-> {}, head |-> 0]

(* The request is under way in p for principal pr; a forwarded account that  *)
(* has no row yet is inserted by the transaction.                            *)
Opened(kind, p, pr) ==
    [NotOpen EXCEPT !.st = "open", !.kind = kind, !.p = p, !.insert = {pr.user} \ users]

Starts(r, kind) == req[r].st = "idle" /\ kind \in Kinds[r]

authRest == <<users, asgs, sessions, enrolled, nextId, head, named>>

(* The first step of a request changes its own record, and its transaction   *)
(* where it looked at the rows it is going to write.                         *)
Opens(r, rec) ==
    /\ req' = [req EXCEPT ![r] = rec]
    /\ UNCHANGED <<authRest, rows, version, store, reload, holder, faults>>

(* A step that only writes to the settings tables in r's transaction.        *)
Advances(r, rec) ==
    /\ req' = [req EXCEPT ![r] = rec]
    /\ UNCHANGED <<rows, version, reload, faults>>

(* A named secret may have any name but that of a setting, that of a second  *)
(* factor's secret included.                                                 *)
NamedSecrets == SecretRefs \ Fields

(* PUT of a setting or of a named secret.                                    *)
OpenSet(r) ==
    /\ Starts(r, "set")
    /\ \E p \in Route[r], pr \in Principals, key \in Editable \cup NamedSecrets :
        \E value \in Values(key) :
            /\ Allowed(pr, "manage_settings")
            /\ StepUpFor(key) => pr.fresh
            /\ Opens(r, [Opened("set", p, pr) EXCEPT
                            !.key = key, !.value = value,
                            !.old = Effective(p, Plain("inference_provider"))])
    /\ Look(r)

(* DELETE of an override or of a named secret.                               *)
OpenClear(r) ==
    /\ Starts(r, "clear")
    /\ \E p \in Route[r], pr \in Principals, key \in Editable \cup NamedSecrets :
        /\ Allowed(pr, "manage_settings")
        /\ key \notin Fields => pr.fresh
        /\ Opens(r, [Opened("clear", p, pr) EXCEPT !.key = key])
    /\ Look(r)

Puts(r) ==
    IF req[r].kind # "set" THEN <<>>
    ELSE IF req[r].key \in Fields
         THEN OverridePut(req[r].p, req[r].key, req[r].value, req[r].old)
         ELSE SecretPut(req[r].p, req[r].key, req[r].value)

ApplySet(r) ==
    /\ req[r].st = "open" /\ req[r].kind = "set"
    /\ Write(r, req[r].p, Puts(r), {}, 1)
    /\ Advances(r, [req[r] EXCEPT !.st = "ready"])
    /\ UNCHANGED authRest

(* A clear that deletes nothing answers 404 after it has bumped the version  *)
(* and refreshed the store, and is rolled back.                              *)
ApplyClear(r) ==
    /\ req[r].st = "open" /\ req[r].kind = "clear"
    /\ LET hit == {req[r].key} \cap txn[r].known \cap DOMAIN rows
       IN  /\ Write(r, req[r].p, <<>>, hit, 1)
           /\ Advances(r, [req[r] EXCEPT !.st = IF hit = {} THEN "refused" ELSE "ready"])
    /\ UNCHANGED authRest

-----------------------------------------------------------------------------
(* Second factors.  The secret of an enrollment is a row of the settings     *)
(* store, named after the enrollment's id.                                   *)
SecretOf == <<"s1", "s2", "s3", "s4">>
Ref(id) == <<"mfa", id>>
RowsOf(user) == {i \in DOMAIN enrolled : enrolled[i].user = user}

(* Enrollment rows that q has written and not committed.                     *)
RowLocks(q) ==
    req[q].gone \cup
    (IF req[q].kind = "verify" /\ req[q].st = "chained" /\ ~req[q].confirmed
     THEN {req[q].id} ELSE {})

Locked(r, ids) == \E q \in Req \ {r} : ids \cap RowLocks(q) # {}

(* POST /mfa/enroll selects the rows it is going to replace, and of those    *)
(* the ones whose secret its process knows.                                  *)
OpenEnroll(r) ==
    /\ Starts(r, "enroll")
    /\ nextId <= MaxEnroll
    /\ \E p \in Route[r], pr \in Principals :
        Opens(r, [Opened("enroll", p, pr) EXCEPT !.user = pr.user,
                    !.prior = {i \in RowsOf(pr.user) : ResolveSecret(p, Ref(i)) # Unresolved}])
    /\ Look(r)

(* Mutant of ClearPrior: the secrets are cleared in a transaction of their   *)
(* own.                                                                      *)
ClearAtOnce(r) ==
    LET left == [k \in DOMAIN rows \ {Ref(i) : i \in req[r].prior} |-> rows[k]]
        n == Cardinality(req[r].prior)
    IN  /\ req[r].st = "open" /\ req[r].kind = "enroll"
        /\ holder = NoReq
        /\ rows' = left /\ version' = version + n
        /\ store' = [store EXCEPT ![req[r].p] = Loaded(req[r].p, left, version + n)]
        /\ req' = [req EXCEPT ![r].st = "clearing", ![r].prior = RowsOf(req[r].user)]
        /\ UNCHANGED <<reload, faults, txn, holder, authRest>>

(* clear_override of the prior secrets, in the request's transaction; the    *)
(* DELETE of the rows that follows sees what is committed now.               *)
ClearPrior(r) ==
    /\ req[r].st = "open" /\ req[r].kind = "enroll"
    /\ IF req[r].prior = {} THEN UNCHANGED <<txn, store, holder>>
       ELSE Write(r, req[r].p, <<>>,
                  {Ref(i) : i \in req[r].prior} \cap DOMAIN rows, Cardinality(req[r].prior))
    /\ Advances(r, [req[r] EXCEPT !.st = "clearing", !.prior = RowsOf(req[r].user)])
    /\ UNCHANGED authRest

(* The DELETE waits for the rows it saw; those that are gone by then are     *)
(* skipped, those that were inserted meanwhile are not seen.                 *)
DeletePrior(r) ==
    /\ req[r].st = "clearing"
    /\ ~Locked(r, req[r].prior)
    /\ Look(r)
    /\ Advances(r, [req[r] EXCEPT !.st = "deleted",
                        !.gone = req[r].prior \cap DOMAIN enrolled, !.prior = {}])
    /\ UNCHANGED <<authRest, store, holder>>

(* INSERT of the enrollment, and set_secret under its id.                    *)
InsertEnrollment(r) ==
    /\ req[r].st = "deleted"
    /\ nextId <= MaxEnroll
    /\ Write(r, req[r].p, SecretPut(req[r].p, Ref(nextId), SecretOf[nextId]), {}, 1)
    /\ Advances(r, [req[r] EXCEPT !.st = "unchained", !.id = nextId])
    /\ nextId' = nextId + 1
    /\ UNCHANGED <<users, asgs, sessions, enrolled, head, named>>

(* POST /mfa/verify, with a code of one of the secrets ever shown: the first *)
(* row of the user decides.  A reference that the process cannot resolve is  *)
(* taken for a secret and is none: the request fails.                        *)
OpenVerify(r) ==
    /\ Starts(r, "verify")
    /\ \E p \in Route[r], pr \in Principals, code \in {SecretOf[i] : i \in 1..(nextId - 1)} :
        \E id \in RowsOf(pr.user) :
            LET secret == ResolveSecret(p, Ref(id))
                rec == [Opened("verify", p, pr) EXCEPT
                            !.id = id, !.sess = pr.sess, !.confirmed = enrolled[id].confirmed]
            IN  Opens(r, IF secret = Unresolved THEN [rec EXCEPT !.st = "refused"]
                         ELSE IF secret = code THEN [rec EXCEPT !.st = "unchained"]
                         ELSE [rec EXCEPT !.st = "unchained", !.kind = "denied"])
    /\ UNCHANGED txn

-----------------------------------------------------------------------------
(* Accounts, sessions and assignments.                                       *)
OpenLogin(r) ==
    /\ Starts(r, "login")
    /\ \E p \in Route[r], u \in users \ Forwarded, s \in Session :
        /\ sessions[s].st = "none"
        /\ \A q \in Req : req[q].kind = "login" => req[q].sess # s
        /\ Opens(r, [NotOpen EXCEPT !.st = "unchained", !.kind = "login", !.p = p,
                                    !.user = u, !.sess = s])
    /\ UNCHANGED txn

OpenDenied(r) ==
    /\ Starts(r, "denied")
    /\ \E p \in Route[r] : Opens(r, [NotOpen EXCEPT !.st = "unchained", !.kind = "denied", !.p = p])
    /\ UNCHANGED txn

OpenLogout(r) ==
    /\ Starts(r, "logout")
    /\ \E p \in Route[r], pr \in Principals :
        Opens(r, [Opened("logout", p, pr) EXCEPT !.st = "unchained", !.sess = pr.sess])
    /\ UNCHANGED txn

OpenCreateUser(r) ==
    /\ Starts(r, "create")
    /\ \E p \in Route[r], pr \in Principals, u \in Others \ users :
        /\ Allowed(pr, "manage_users")
        /\ Opens(r, [Opened("create", p, pr) EXCEPT !.st = "unchained", !.insert = @ \cup {u}])
    /\ UNCHANGED txn

OpenGrant(r) ==
    /\ Starts(r, "grant")
    /\ \E p \in Route[r], pr \in Principals, i \in DOMAIN NewGrants :
        /\ Allowed(pr, "manage_users")
        /\ Validated(NewGrants[i]) /\ NewGrants[i].user \in users
        /\ Len(FirstGrants) + i \notin DOMAIN asgs      \* each is granted once
        /\ \A q \in Req : req[q].kind = "grant" => req[q].id # i
        /\ Opens(r, [Opened("grant", p, pr) EXCEPT !.st = "unchained", !.id = i])
    /\ UNCHANGED txn

GlobalAdmins == {i \in DOMAIN asgs : asgs[i].role = "admin" /\ asgs[i].scope = "global"}

(* The lockout guard counts the other global administrators.                 *)
MayRevoke(id) == id \in GlobalAdmins => GlobalAdmins \ {id} # {}

OpenRevoke(r) ==
    /\ Starts(r, "revoke")
    /\ \E p \in Route[r], pr \in Principals, id \in DOMAIN asgs :
        /\ Allowed(pr, "manage_users")
        /\ MayRevoke(id)
        /\ Opens(r, [Opened("revoke", p, pr) EXCEPT !.st = "unchained", !.id = id])
    /\ UNCHANGED txn

-----------------------------------------------------------------------------
(* The end of a request.  An audited one reads the audit head and commits    *)
(* its row with the rest; a row on a head that has moved on is rejected by   *)
(* the UNIQUE prev_hash, and with it the whole request.                      *)
Chain(r) ==
    /\ req[r].st = "unchained"
    /\ req[r].kind = "verify" /\ ~req[r].confirmed => ~Locked(r, {req[r].id})
    /\ req' = [req EXCEPT ![r].st = "chained", ![r].head = head]
    /\ UNCHANGED <<settingsVars, authRest>>

Audited(r) == req[r].st = "chained"

(* What makes the commit fail: the audit head, a second row for an account,  *)
(* the confirmation of an enrollment that was replaced meanwhile.            *)
Rejected(r) ==
    \/ Audited(r) /\ req[r].head # head
    \/ req[r].insert \cap users # {}
    \/ req[r].kind = "verify" /\ ~req[r].confirmed /\ req[r].id \notin DOMAIN enrolled

Without(f, ids) == [i \in DOMAIN f \ ids |-> f[i]]

CommitUsers(r) == users' = users \cup req[r].insert

CommitAssignments(r) ==
    asgs' = CASE req[r].kind = "grant" ->
                    [i \in DOMAIN asgs \cup {Len(FirstGrants) + req[r].id} |->
                        IF i \in DOMAIN asgs THEN asgs[i] ELSE NewGrants[req[r].id]]
              [] req[r].kind = "revoke" -> Without(asgs, {req[r].id})
              [] OTHER -> asgs

CommitSessions(r) ==
    LET s == req[r].sess
    IN  sessions' =
          CASE s = NoSession -> sessions
            [] req[r].kind = "login" ->
                  [sessions EXCEPT ![s] = [user |-> req[r].user, st |-> "live", mfa |-> "never"]]
            [] req[r].kind = "logout" -> [sessions EXCEPT ![s].st = "dead"]
            [] req[r].kind = "verify" -> [sessions EXCEPT ![s].mfa = "fresh"]
            [] OTHER -> sessions

CommitEnrollment(r) ==
    enrolled' =
      CASE req[r].kind = "enroll" ->
              [i \in (DOMAIN enrolled \ req[r].gone) \cup {req[r].id} |->
                  IF i = req[r].id THEN [user |-> req[r].user, confirmed |-> FALSE]
                  ELSE enrolled[i]]
        [] req[r].kind = "verify" /\ ~req[r].confirmed ->
              [enrolled EXCEPT ![req[r].id].confirmed = TRUE]
        [] OTHER -> enrolled

(* The names an administrator has used; an enrollment writes its own anew.   *)
RecordNamed(r) ==
    named' = CASE req[r].kind \in {"set", "clear"} -> named \cup ({req[r].key} \ Fields)
               [] req[r].kind = "enroll" -> named \ {Ref(req[r].id)}
               [] OTHER -> named

Ended(r) == req' = [req EXCEPT ![r] = [NotOpen EXCEPT !.st = "done"]]

Commit(r) ==
    /\ req[r].st \in {"ready", "chained"}
    /\ ~Rejected(r)
    /\ CommitRows(r)
    /\ CommitUsers(r)
    /\ CommitAssignments(r)
    /\ CommitSessions(r)
    /\ CommitEnrollment(r)
    /\ RecordNamed(r)
    /\ head' = IF Audited(r) THEN head + 1 ELSE head
    /\ Ended(r)
    /\ UNCHANGED <<store, reload, faults, nextId>>

Rollback(r) ==
    /\ RollbackRows(r)
    /\ Ended(r)
    /\ UNCHANGED <<store, reload, authRest>>

(* r waits for the version row, its holder for enrollment rows r deleted:    *)
(* the database picks a victim.                                              *)
Deadlocked(r, q) ==
    /\ req[r].st = "deleted" /\ holder = q /\ q # r
    /\ req[q].st = "clearing" /\ req[q].prior \cap RowLocks(r) # {}

(* The request ends in an error of its own making.                           *)
Fail(r) ==
    /\ \/ req[r].st = "refused"
       \/ req[r].st \in {"ready", "chained"} /\ Rejected(r)
       \/ /\ req[r].st = "open" /\ req[r].kind \in {"set", "clear"}
          /\ holder = NoReq
          /\ Conflict(r, DOMAIN Puts(r))
       \/ /\ req[r].st = "deleted"
          /\ holder = NoReq
          /\ Conflict(r, {}) \/ nextId > MaxEnroll
       \/ \E q \in Req : Deadlocked(r, q) \/ Deadlocked(q, r)
    /\ Rollback(r)
    /\ UNCHANGED faults

(* The database fails the transaction, or the process dies: the reload that  *)
(* follows a restart is a tick.                                              *)
Abort(r) ==
    /\ req[r].st \notin {"idle", "done"}
    /\ faults < MaxFaults
    /\ faults' = faults + 1
    /\ Rollback(r)

-----------------------------------------------------------------------------
(* The start: the administrators are there, the first of them by the         *)
(* bootstrap, and one of them has a confirmed second factor.                 *)
Init ==
    /\ StoreInit([k \in {Ref(1)} |-> Row(SecretOf[1], TRUE, CHOOSE p \in Proc : TRUE)])
    /\ users = Admins \cup Members
    /\ asgs = FirstGrants
    /\ sessions = [s \in Session |->
          IF \E a \in Admins : FirstSession[a] = s
          THEN [user |-> CHOOSE a \in Admins : FirstSession[a] = s, st |-> "live", mfa |-> "fresh"]
          ELSE [user |-> "none", st |-> "none", mfa |-> "never"]]
    /\ enrolled = [i \in {1} |-> [user |-> CHOOSE a \in Admins : TRUE, confirmed |-> TRUE]]
    /\ nextId = 2
    /\ head = 0 /\ named = {}
    /\ req = [r \in Req |-> NotOpen]

Open(r) ==
    \/ OpenSet(r) \/ OpenClear(r) \/ OpenEnroll(r) \/ OpenVerify(r)
    \/ OpenLogin(r) \/ OpenDenied(r) \/ OpenLogout(r)
    \/ OpenCreateUser(r) \/ OpenGrant(r) \/ OpenRevoke(r)

Step(r) ==
    \/ ApplySet(r) \/ ApplyClear(r) \/ ClearPrior(r) \/ DeletePrior(r)
    \/ InsertEnrollment(r) \/ Chain(r) \/ Commit(r) \/ Fail(r)

Next ==
    \/ \E r \in Req : Open(r) \/ Step(r) \/ Abort(r)
    \/ \E p \in Proc : Tick(p) /\ UNCHANGED authVars

Spec == Init /\ [][Next]_vars

(* Every process runs its refresh worker for as long as it lives, and the    *)
(* event loop runs the handler of an open request to its end.                *)
FairSpec ==
    /\ Spec
    /\ \A p \in Proc : WF_vars((TickRead(p) \/ TickApply(p)) /\ UNCHANGED authVars)
    /\ \A r \in Req : WF_vars(Step(r))

-----------------------------------------------------------------------------
(* Properties.                                                               *)

(* Once requests stop, every process holds the committed overrides, secrets  *)
(* and version, whatever a rolled-back request had published, an old read    *)
(* had put back or a database error had dropped: the refresh worker brings   *)
(* every store to the committed rows.                                        *)
Converges == <>[](\A p \in Proc : store[p] = Loaded(p, rows, version))
(* Every enrolled second factor has its own secret in the settings store, so *)
(* its owner's codes can be checked: re-enrolling, at once in two processes  *)
(* or with failures half way, never commits a row without the secret, and no *)
(* other request takes it away than one in which an administrator names it.  *)
EnrollmentHasSecret ==
    \A i \in DOMAIN enrolled : Ref(i) \notin named =>
        Ref(i) \in DOMAIN rows /\ rows[Ref(i)].value = SecretOf[i]
=============================================================================
