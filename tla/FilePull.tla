------------------------------ MODULE FilePull ------------------------------
(* The core asks agents for file bytes (previews) and directory listings     *)
(* (live browse).  An agent has no inbound port: the core signs a short-lived *)
(* grant, queues it for the host and waits; the agent polls, verifies, reads  *)
(* and posts.  Previews are rendered under a concurrency gate and kept in a   *)
(* bounded cache that is keyed by the content hash of the catalogue.          *)
EXTENDS Integers, FiniteSets, Sequences, SequencesExt

CONSTANTS
    Preview, Browse,    \* requests of operators; each mints at most one grant
    Host, Entry,        \* a browse request names an entry's host
    target,             \* [Preview \cup Browse -> Entry]
    host_of,            \* [Entry -> Host]
    stored,             \* [Entry -> Content], as last scanned
    Content, Big,       \* file contents; those over preview_max_input_bytes
    MaxConcurrent,      \* slots of the PreviewQueue
    MaxEntries,         \* of the EncryptedLruCache
    Made,               \* the sets of requests that are made in one behaviour
    MaxEvents           \* writes, scans, crashes and replays together

Req == Preview \cup Browse
Kind == {"preview", "browse"}
None == "none"          \* no hash, no file, no bytes
Fail == "error"         \* an error answer

ASSUME PullConstants ==
    /\ Preview \cap Browse = {} /\ IsFiniteSet(Preview)
    /\ target \in [Req -> Entry] /\ host_of \in [Entry -> Host]
    /\ stored \in [Entry -> Content]
    /\ Big \subseteq Content /\ {None, Fail} \cap Content = {}
    /\ {MaxConcurrent, MaxEntries} \subseteq Nat \ {0}
    /\ Made \subseteq SUBSET Req /\ MaxEvents \in Nat

VARIABLES
    disk,       \* [Entry -> [inode, data]], what is at the entry's path
    cat,        \* [Entry -> [inode, hash]], its fs_entry row
    local,      \* preview_local_fetch: the core reads its own disk
    pc,         \* [Req -> step of the route]
    entry,      \* [Preview -> ResolvedEntry], as the route resolved it
    got,        \* [Preview -> bytes, then the artifact derived from them]
    saw,        \* previews that found their preview_cache_meta row
    permits,    \* free slots of the PreviewQueue
    cache,      \* EncryptedLruCache._store, least recently used first
    meta,       \* keys with a preview_cache_meta row
    audited,    \* requests whose audit record is committed
    queue,      \* [Kind -> [Host -> Seq(Req)]], the signed grants waiting
    future,     \* [Req -> None while pending, or the answer]
    awaiting,   \* requests that _results and _grant_host know
    expired,    \* grants whose expires_at has passed
    ledger,     \* nonces consumed by agents (durable)
    agent,      \* [Kind -> [Host -> state of the serve loop]]
    wire,       \* posts on their way to the core
    seen,       \* grants that were on the wire once
    events      \* disturbances so far

core    == <<entry, got, saw, permits, cache, meta, audited>>
rendezvous == <<queue, future, awaiting>>
remote  == <<ledger, agent, wire, seen>>
world   == <<disk, cat, local>>
vars == <<core, rendezvous, remote, world, events, pc, expired>>

Idle == [step |-> "idle"]
kind(r) == IF r \in Preview THEN "preview" ELSE "browse"
host(r) == host_of[target[r]]

Init ==
    /\ disk = [e \in Entry |-> [inode |-> 1, data |-> stored[e]]]
    /\ cat = [e \in Entry |-> [inode |-> 1, hash |-> stored[e]]]
    /\ local \in BOOLEAN
    /\ \E made \in Made : pc = [r \in Req |-> IF r \in made THEN "new" ELSE "failed"]
    /\ entry = [r \in Preview |-> [inode |-> 0, hash |-> None]]
    /\ got = [r \in Preview |-> None]
    /\ saw = {} /\ permits = MaxConcurrent /\ cache = <<>> /\ meta = {} /\ audited = {}
    /\ queue = [k \in Kind |-> [h \in Host |-> <<>>]]
    /\ future = [r \in Req |-> None]
    /\ awaiting = {} /\ expired = {} /\ ledger = {}
    /\ agent = [k \in Kind |-> [h \in Host |-> Idle]]
    /\ wire = {} /\ seen = {}
    /\ events = 0

-----------------------------------------------------------------------------
(* The rendezvous: PreviewPullQueue and BrowsePullQueue have the same shape.  *)

EnqueueFor(r) ==
    /\ queue' = [queue EXCEPT ![kind(r)][host(r)] = Append(@, r)]
    /\ awaiting' = awaiting \cup {r}
    /\ UNCHANGED future

(* The finally clause of enqueue_and_wait.                                    *)
Forget(r) ==
    /\ awaiting' = awaiting \ {r}
    /\ future' = [future EXCEPT ![r] = None]
    /\ UNCHANGED queue

(* PreviewPullQueue._resolve: correlated, from the right host, still pending. *)
Accepts(r, h) == r \in awaiting /\ h = host(r) /\ future[r] = None

(* deliver and fail                                                           *)
Resolve(r, h, answer) ==
    IF Accepts(r, h)
    THEN future' = [future EXCEPT ![r] = answer]
    ELSE UNCHANGED future

(* poll, of an idle serve loop: the next grant that has not expired.          *)
Poll(k, h) ==
    /\ agent[k][h] = Idle /\ queue[k][h] # <<>>
    /\ LET r == Head(queue[k][h])
       IN /\ r \notin expired
          /\ agent' = [agent EXCEPT ![k][h] = [step |-> "claimed", req |-> r]]
          /\ seen' = seen \cup {r}
    /\ queue' = [queue EXCEPT ![k][h] = Tail(@)]
    /\ UNCHANGED <<core, future, awaiting, ledger, wire, world, events, pc, expired>>

(* poll drops an expired grant and fails its waiter.                          *)
PollDropsExpired(k, h) ==
    /\ agent[k][h] = Idle /\ queue[k][h] # <<>>
    /\ LET r == Head(queue[k][h])
       IN /\ r \in expired
          /\ future' = IF r \in awaiting /\ future[r] = None
                       THEN [future EXCEPT ![r] = Fail] ELSE future
    /\ queue' = [queue EXCEPT ![k][h] = Tail(@)]
    /\ UNCHANGED <<core, awaiting, remote, world, events, pc, expired>>

-----------------------------------------------------------------------------
(* The preview route, PreviewQueue and PreviewService.                        *)

(* The step at which a request ends; the slot of a preview is released by the *)
(* finally clause of PreviewQueue.submit.                                     *)
Release == permits' = permits + 1

(* _require_enabled, get_preview_runtime, capability and scope refuse.        *)
Refuse(r) ==
    /\ pc[r] = "new"
    /\ pc' = [pc EXCEPT ![r] = "failed"]
    /\ UNCHANGED <<core, rendezvous, remote, world, events, expired>>

(* _resolve_entry: identity and hash come from the catalogue, now.            *)
ResolveEntry(r) ==
    /\ r \in Preview /\ pc[r] = "new"
    /\ entry' = [entry EXCEPT ![r] = cat[target[r]]]
    /\ pc' = [pc EXCEPT ![r] = "slot"]
    /\ UNCHANGED <<got, saw, permits, cache, meta, audited, rendezvous, remote, world,
                   events, expired>>

(* PreviewQueue.submit: a slot, or 503 once acquire_timeout has passed.       *)
Submit(r) ==
    /\ r \in Preview /\ pc[r] = "slot"
    /\ IF permits > 0
       THEN permits' = permits - 1 /\ pc' = [pc EXCEPT ![r] = "lookup"]
       ELSE pc' = [pc EXCEPT ![r] = "failed"] /\ UNCHANGED permits
    /\ UNCHANGED <<entry, got, saw, cache, meta, audited, rendezvous, remote, world,
                   events, expired>>

(* del self._store[key]: a key has at most one place in the OrderedDict.      *)
Without(key) ==
    LET at == {n \in DOMAIN cache : cache[n].key = key}
    IN IF at = {} THEN cache ELSE RemoveAt(cache, CHOOSE n \in at : TRUE)

Cached(key) == {x \in ToSet(cache) : x.key = key}

(* EncryptedLruCache.get: a live artifact becomes the most recently used and  *)
(* the hit returns through the finally clause.                                *)
CacheHit(r) ==
    /\ r \in Preview /\ pc[r] = "lookup"
    /\ \E x \in Cached(entry[r].hash) :
        /\ cache' = Append(Without(x.key), x)
        /\ got' = [got EXCEPT ![r] = x.art]
    /\ Release
    /\ pc' = [pc EXCEPT ![r] = "record"]
    /\ UNCHANGED <<entry, saw, meta, audited, rendezvous, remote, world, events, expired>>

(* A miss, as the key is absent or its artifact has expired and is evicted:   *)
(* GrantPullFetcher.fetch signs a grant and waits, LocalFileFetcher reads.    *)
CacheMiss(r) ==
    /\ r \in Preview /\ pc[r] = "lookup"
    /\ cache' = Without(entry[r].hash)
    /\ IF local THEN UNCHANGED rendezvous ELSE EnqueueFor(r)
    /\ pc' = [pc EXCEPT ![r] = IF local THEN "read" ELSE "await"]
    /\ UNCHANGED <<entry, got, saw, permits, meta, audited, remote, world, events, expired>>

(* Mutant: the inode is trusted, an in-place rewrite is not noticed.          *)
ReadByInode(e, want) == IF disk[e].inode # want.inode THEN Fail ELSE disk[e].data

(* LocalFileFetcher._read, on the agent or on the core: the inode must be the *)
(* catalogue's; unless the file is over the cap, so must the hash, if known.  *)
Read(e, want) ==
    LET f == disk[e]
    IN IF \/ f.inode # want.inode
          \/ f.data \notin Big /\ want.hash # None /\ f.data # want.hash
       THEN Fail ELSE f.data

(* What PreviewService.render does with the bytes: over the cap (413), an     *)
(* unsupported type (415), or on to the sandbox.                              *)
Take(r, bytes) ==
    IF bytes = Fail \/ bytes \in Big
    THEN pc' = [pc EXCEPT ![r] = "failed"] /\ Release /\ UNCHANGED got
    ELSE \/ pc' = [pc EXCEPT ![r] = "failed"] /\ Release /\ UNCHANGED got
         \/ pc' = [pc EXCEPT ![r] = "render"] /\ got' = [got EXCEPT ![r] = bytes]
            /\ UNCHANGED permits

ReadLocally(r) ==
    /\ r \in Preview /\ pc[r] = "read"
    /\ Take(r, Read(target[r], entry[r]))
    /\ UNCHANGED <<entry, saw, cache, meta, audited, rendezvous, remote, world, events, expired>>

FetchReturns(r) ==
    /\ r \in Preview /\ pc[r] = "await" /\ future[r] # None
    /\ Take(r, future[r])
    /\ Forget(r)
    /\ UNCHANGED <<entry, saw, cache, meta, audited, remote, world, events, expired>>

(* Mutant: the slot is not released on a timeout.                             *)
TimeoutKeepsSlot(r) ==
    /\ r \in Preview /\ pc[r] = "await" /\ future[r] = None /\ r \in expired
    /\ Forget(r)
    /\ pc' = [pc EXCEPT ![r] = "timeout"]
    /\ UNCHANGED <<core, remote, world, events, expired>>

(* Mutant: only a grant that is still in the queue times out.                 *)
TimeoutWhileQueued(r) ==
    /\ r \in Preview /\ pc[r] = "await" /\ future[r] = None /\ r \in expired
    /\ r \in ToSet(queue["preview"][host(r)])
    /\ Forget(r) /\ Release
    /\ pc' = [pc EXCEPT ![r] = "timeout"]
    /\ UNCHANGED <<entry, got, saw, cache, meta, audited, remote, world, events, expired>>

(* enqueue_and_wait times out; the window is the grant's lifetime.            *)
FetchTimesOut(r) ==
    /\ r \in Preview /\ pc[r] = "await" /\ future[r] = None /\ r \in expired
    /\ Forget(r) /\ Release
    /\ pc' = [pc EXCEPT ![r] = "timeout"]
    /\ UNCHANGED <<entry, got, saw, cache, meta, audited, remote, world, events, expired>>

(* The sandbox, local or remote, kills, refuses or crashes: PreviewError.     *)
RenderFails(r) ==
    /\ r \in Preview /\ pc[r] = "render"
    /\ Release
    /\ pc' = [pc EXCEPT ![r] = "failed"]
    /\ UNCHANGED <<entry, got, saw, cache, meta, audited, rendezvous, remote, world,
                   events, expired>>

(* EncryptedLruCache.put: newest last, oldest out.                            *)
Put(key, art) ==
    LET more == Append(Without(key), [key |-> key, art |-> art])
    IN IF Len(more) > MaxEntries THEN Tail(more) ELSE more

Render(r) ==
    /\ r \in Preview /\ pc[r] = "render"
    /\ cache' = IF entry[r].hash = None THEN cache ELSE Put(entry[r].hash, got[r])
    /\ Release
    /\ pc' = [pc EXCEPT ![r] = "record"]
    /\ UNCHANGED <<entry, got, saw, meta, audited, rendezvous, remote, world, events, expired>>

(* get_preview chains its audit record and looks for the meta row.            *)
RecordCacheMeta(r) ==
    /\ r \in Preview /\ pc[r] = "record"
    /\ saw' = IF entry[r].hash \in meta THEN saw \cup {r} ELSE saw
    /\ pc' = [pc EXCEPT ![r] = "flush"]
    /\ UNCHANGED <<entry, got, permits, cache, meta, audited, rendezvous, remote, world,
                   events, expired>>

(* flush and commit: the unique cache_key, or a rival's audit row, may refuse *)
(* it.  The artifact is only returned after that.                             *)
Serve(r) ==
    /\ r \in Preview /\ pc[r] = "flush"
    /\ \/ /\ r \in saw \/ entry[r].hash \notin meta
          /\ meta' = meta \cup ({entry[r].hash} \ {None})
          /\ audited' = audited \cup {r}
          /\ pc' = [pc EXCEPT ![r] = "served"]
       \/ /\ pc' = [pc EXCEPT ![r] = "failed"]
          /\ UNCHANGED <<meta, audited>>
    /\ UNCHANGED <<entry, got, saw, permits, cache, rendezvous, remote, world, events, expired>>

-----------------------------------------------------------------------------
(* browse_host_directory: the audit row is flushed, then the request waits;   *)
(* the transaction is committed when it returns and rolled back when it       *)
(* raises.                                                                    *)

BrowseDirectory(r) ==
    /\ r \in Browse /\ pc[r] = "new"
    /\ EnqueueFor(r)
    /\ pc' = [pc EXCEPT ![r] = "await"]
    /\ UNCHANGED <<core, remote, world, events, expired>>

BrowseReturns(r) ==
    /\ r \in Browse /\ pc[r] = "await" /\ future[r] \notin {None, Fail}
    /\ Forget(r)
    /\ audited' = audited \cup {r}
    /\ pc' = [pc EXCEPT ![r] = "served"]
    /\ UNCHANGED <<entry, got, saw, permits, cache, meta, remote, world, events, expired>>

(* BrowsePullError, from the timer or from a poll that dropped the request:   *)
(* 504, and the transaction is rolled back with its audit row.                *)
BrowseFails(r) ==
    /\ r \in Browse /\ pc[r] = "await"
    /\ future[r] = Fail \/ (future[r] = None /\ r \in expired)
    /\ Forget(r)
    /\ pc' = [pc EXCEPT ![r] = "timeout"]
    /\ UNCHANGED <<core, remote, world, events, expired>>

-----------------------------------------------------------------------------
(* The agents.                                                                *)

Answer(k, h, r, out) ==
    /\ wire' = wire \cup {[req |-> r, from |-> h, out |-> out]}
    /\ agent' = [agent EXCEPT ![k][h] = Idle]

(* Mutant: the time window is not checked.                                    *)
VerifiedAtAnyTime(r, h) == h = host(r) /\ r \notin ledger

(* FileGrant and BrowseRequest: what the core signs.  The request itself      *)
(* stands for the fresh nonce.                                                *)
FileGrant(r) ==
    [host_id |-> host(r), path |-> target[r], inode |-> entry[r].inode,
     content_hash |-> entry[r].hash, nonce |-> r]
BrowseRequest(r) == [host_id |-> host(r), nonce |-> r]

(* The window, the host, and last the nonce.                                  *)
verify_grant(r, h) ==
    r \notin expired /\ FileGrant(r).host_id = h /\ FileGrant(r).nonce \notin ledger
verify_browse_request(r, h) ==
    r \notin expired /\ BrowseRequest(r).host_id = h /\ BrowseRequest(r).nonce \notin ledger

Verify(k, h) ==
    /\ agent[k][h].step = "claimed"
    /\ LET r == agent[k][h].req
       IN IF IF k = "preview" THEN verify_grant(r, h) ELSE verify_browse_request(r, h)
          THEN /\ ledger' = ledger \cup {r}
               /\ agent' = [agent EXCEPT ![k][h].step = "verified"]
               /\ UNCHANGED wire
          ELSE (* a listing that says "request could not be served"           *)
               /\ Answer(k, h, r, IF k = "preview" THEN Fail ELSE "refused")
               /\ UNCHANGED ledger
    /\ UNCHANGED <<core, rendezvous, seen, world, events, pc, expired>>

(* PreviewGrantServer.serve reads the one file the grant names.               *)
ServeFile(h) ==
    /\ agent["preview"][h].step = "verified"
    /\ LET r == agent["preview"][h].req
           g == FileGrant(r)
       IN Answer("preview", h, r, Read(g.path, [inode |-> g.inode, hash |-> g.content_hash]))
    /\ UNCHANGED <<core, rendezvous, ledger, seen, world, events, pc, expired>>

(* list_directory never raises: an error is a listing too.                    *)
list_directory == "listing"

(* BrowseServer.serve                                                         *)
ListDirectory(h) ==
    /\ agent["browse"][h].step = "verified"
    /\ Answer("browse", h, agent["browse"][h].req, list_directory)
    /\ UNCHANGED <<core, rendezvous, ledger, seen, world, events, pc, expired>>

(* serve_preview_grant: a body over the cap is refused with 413 and resolves  *)
(* nothing.                                                                   *)
ServePost(m) ==
    /\ m \in wire /\ m.req \in Preview
    /\ IF m.out \in Big THEN UNCHANGED future ELSE Resolve(m.req, m.from, m.out)
    /\ wire' = wire \ {m}
    /\ UNCHANGED <<core, queue, awaiting, ledger, agent, seen, world, events, pc, expired>>

(* serve_browse_result                                                        *)
BrowsePost(m) ==
    /\ m \in wire /\ m.req \in Browse
    /\ Resolve(m.req, m.from, m.out)
    /\ wire' = wire \ {m}
    /\ UNCHANGED <<core, queue, awaiting, ledger, agent, seen, world, events, pc, expired>>

-----------------------------------------------------------------------------
(* Time, the network, crashes, and the users of the files.                    *)

Disturb == events < MaxEvents /\ events' = events + 1

Ended(r) == pc[r] \in {"served", "failed", "timeout"}

(* Nobody looks at files and hashes once every request is over.               *)
Busy == \E r \in Req : ~Ended(r)

Expire(r) ==
    /\ r \notin expired
    /\ r \in awaiting \/ \E h \in Host : agent[kind(r)][h] # Idle /\ agent[kind(r)][h].req = r
    /\ expired' = expired \cup {r}
    /\ UNCHANGED <<core, rendezvous, remote, world, events, pc>>

LosePost(m) ==
    /\ m \in wire
    /\ wire' = wire \ {m}
    /\ UNCHANGED <<core, rendezvous, ledger, agent, seen, world, events, pc, expired>>

(* A grant that was on the wire is put before an agent again.                 *)
Replay(r, h) ==
    /\ Disturb
    /\ r \in seen /\ agent[kind(r)][h] = Idle
    /\ agent' = [agent EXCEPT ![kind(r)][h] = [step |-> "claimed", req |-> r]]
    /\ UNCHANGED <<core, rendezvous, ledger, wire, seen, world, pc, expired>>

(* The agent dies, or the answer to its poll is lost: the claim is gone, the  *)
(* ledger is not.                                                             *)
AgentCrash(k, h) ==
    /\ Disturb
    /\ agent[k][h] # Idle
    /\ agent' = [agent EXCEPT ![k][h] = Idle]
    /\ UNCHANGED <<core, rendezvous, ledger, wire, seen, world, pc, expired>>

(* The core dies: queues, futures, the gate and the cache are in memory.      *)
CoreCrash ==
    /\ Busy /\ Disturb
    /\ pc' = [r \in Req |-> IF pc[r] \in {"new", "served", "timeout"} THEN pc[r] ELSE "failed"]
    /\ permits' = MaxConcurrent /\ cache' = <<>>
    /\ queue' = [k \in Kind |-> [h \in Host |-> <<>>]]
    /\ awaiting' = {} /\ future' = [r \in Req |-> None]
    /\ UNCHANGED <<entry, got, saw, meta, audited, remote, world, expired>>

(* Users rewrite a file in place or put another one (to the fetcher the same  *)
(* as none) in its place.                                                     *)
Write(e) ==
    /\ Busy /\ Disturb
    /\ \E c \in Content, i \in {disk[e].inode, disk[e].inode + 1} :
        /\ [inode |-> i, data |-> c] # disk[e]
        /\ disk' = [disk EXCEPT ![e] = [inode |-> i, data |-> c]]
    /\ UNCHANGED <<core, rendezvous, remote, cat, local, pc, expired>>

(* A scan is ingested; the hash may be missing or, in place, the old one.     *)
Rescan(e) ==
    /\ Busy /\ Disturb
    /\ \E known \in {disk[e].data, None}
                    \cup {cat[e].hash : i \in {disk[e].inode} \cap {cat[e].inode}} :
        /\ [inode |-> disk[e].inode, hash |-> known] # cat[e]
        /\ cat' = [cat EXCEPT ![e] = [inode |-> disk[e].inode, hash |-> known]]
    /\ UNCHANGED <<core, rendezvous, remote, disk, local, pc, expired>>

-----------------------------------------------------------------------------
CoreStep(r) ==
    \/ Submit(r) \/ CacheHit(r) \/ CacheMiss(r) \/ ReadLocally(r) \/ FetchReturns(r)
    \/ FetchTimesOut(r) \/ RenderFails(r) \/ Render(r) \/ RecordCacheMeta(r) \/ Serve(r)
    \/ BrowseReturns(r) \/ BrowseFails(r)

(* One serve loop per kind, each over its own connection.                     *)
ServeLoop(k, h) == Poll(k, h) \/ PollDropsExpired(k, h) \/ Verify(k, h)
run_preview_serve(h) == ServeLoop("preview", h) \/ ServeFile(h)
run_browse_serve(h) == ServeLoop("browse", h) \/ ListDirectory(h)

Environment ==
    \/ \E m \in wire : ServePost(m) \/ BrowsePost(m) \/ LosePost(m)
    \/ \E r \in Req, h \in Host : Replay(r, h)
    \/ \E k \in Kind, h \in Host : AgentCrash(k, h)
    \/ \E e \in Entry : Write(e) \/ Rescan(e)
    \/ CoreCrash

(* The work is done: nothing waits any more.                                  *)
Finished == ~Busy /\ UNCHANGED vars

Next ==
    \/ \E r \in Req : Refuse(r) \/ ResolveEntry(r) \/ BrowseDirectory(r)
                      \/ CoreStep(r) \/ Expire(r)
    \/ \E h \in Host : run_preview_serve(h) \/ run_browse_serve(h)
    \/ Environment
    \/ Finished

Spec == Init /\ [][Next]_vars

(* The event loop of the core runs what is ready, and time passes.  No agent  *)
(* need ever poll and no post need arrive.                                    *)
FairSpec ==
    /\ Spec
    /\ \A r \in Req : WF_vars(CoreStep(r)) /\ WF_vars(Expire(r))

-----------------------------------------------------------------------------
(* Properties.                                                                *)

(* What the cache holds under a hash, and what a preview of a file with a     *)
(* known hash shows, was derived from exactly that content, whatever happens  *)
(* to the file between the scan, the grant, the read and the render           *)
(* (LocalFileFetcher._read checks the bytes it read, derive_cache_key keys by *)
(* content, two entries with one hash share a rendering).                     *)
PreviewShowsItsHash ==
    /\ \A x \in ToSet(cache) : x.art = x.key
    /\ \A r \in Preview : pc[r] = "served" /\ entry[r].hash # None => got[r] = entry[r].hash

(* A slot of the PreviewQueue is taken by exactly the renders in progress:    *)
(* errors, timeouts and cache hits all give it back.                          *)
Holding == {r \in Preview : pc[r] \in {"lookup", "read", "await", "render"}}
SlotsAreReturned == permits + Cardinality(Holding) = MaxConcurrent

(* An agent starts on a grant once, only if it is for its host, and never     *)
(* after the request gave up on it: the wait and the grant expire together.   *)
NoReadAfterGiveUp ==
    [][\A k \in Kind, h \in Host :
        agent'[k][h].step = "verified" /\ agent[k][h].step # "verified" =>
            LET r == agent[k][h].req
            IN r \notin ledger /\ host(r) = h /\ pc[r] # "timeout"]_vars

(* Every preview and browse that was let in comes to an end, with agents      *)
(* offline, posts lost and grants dropped from the queue.                     *)
PullEnds == <>[](\A r \in Req : pc[r] = "new" \/ Ended(r))
=============================================================================
