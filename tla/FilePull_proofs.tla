--------------------------- MODULE FilePull_proofs ---------------------------
(* Proofs about FilePull, for any requests, hosts, files and contents: slots  *)
(* of the preview gate are returned, a preview shows what its hash names, and *)
(* no agent starts to read for a request that gave up.                        *)
EXTENDS FilePull, SequenceTheorems, FiniteSetTheorems, TLAPS

Step == {"new", "failed", "slot", "lookup", "read", "await", "render", "record", "flush",
         "served", "timeout"}
OfKind(k) == IF k = "preview" THEN Preview ELSE Browse
Row == [inode : Nat, hash : Content \cup {None}]
Loop(k) == {Idle} \cup [step : {"claimed", "verified"}, req : OfKind(k)]

(* Cache entries whose artifact was derived from the content they are for.    *)
Faithful == {[key |-> c, art |-> c] : c \in Content}

Types ==
    /\ disk \in [Entry -> [inode : Nat, data : Content]] /\ cat \in [Entry -> Row]
    /\ pc \in [Req -> Step] /\ entry \in [Preview -> Row]
    /\ got = [r \in Preview |-> got[r]] /\ future = [r \in Req |-> future[r]]
    /\ permits \in Nat /\ expired \subseteq Req

(* The two kinds of request never mix in a queue or in a serve loop.          *)
Kinds ==
    /\ queue = [k \in Kind |-> [h \in Host |-> queue[k][h]]]
    /\ agent = [k \in Kind |-> [h \in Host |-> agent[k][h]]]
    /\ \A k \in Kind, h \in Host : queue[k][h] \in Seq(OfKind(k)) /\ agent[k][h] \in Loop(k)
    /\ seen \subseteq Req /\ \A m \in wire : m.req \in Req

(* The cache is keyed by content hashes.                                      *)
CacheIsFaithful == cache \in Seq(Faithful)

(* Whatever is on its way belongs to a request that resolved its entry.       *)
Started ==
    /\ \A k \in Kind, h \in Host : \A n \in 1..Len(queue[k][h]) : pc[queue[k][h][n]] # "new"
    /\ \A k \in Kind, h \in Host : agent[k][h] # Idle => pc[agent[k][h].req] # "new"
    /\ \A m \in wire : pc[m.req] # "new"
    /\ \A r \in seen : pc[r] # "new"
    /\ \A r \in Req : future[r] # None => pc[r] # "new"

(* Bytes that LocalFileFetcher._read let through for a request.               *)
Checked(r, bytes) ==
    bytes = Fail \/ bytes \in Big \/ entry[r].hash = None \/ bytes = entry[r].hash

BytesAreChecked ==
    /\ \A m \in wire : m.req \in Preview => Checked(m.req, m.out)
    /\ \A r \in Preview : future[r] # None => Checked(r, future[r])

(* From the render on a preview has the bytes that its hash names.            *)
ShowsItsHash ==
    \A r \in Preview : /\ pc[r] \in {"render", "record", "flush", "served"}
                       /\ entry[r].hash # None
                       => got[r] = entry[r].hash

(* Only an expired request gives up; a browse fails for no other reason.      *)
GaveUp ==
    /\ \A r \in Req : pc[r] = "timeout" => r \in expired
    /\ \A m \in wire : m.req \in Browse => m.out # Fail
    /\ \A r \in Browse : future[r] = Fail => r \in expired

(* The inductive invariant.                                                   *)
IInv ==
    /\ Types /\ Kinds /\ CacheIsFaithful /\ Started /\ BytesAreChecked /\ ShowsItsHash /\ GaveUp
    /\ SlotsAreReturned

-----------------------------------------------------------------------------
(* Kinds and hosts of a request.                                              *)
LEMMA KindOf ==
    ASSUME NEW r \in Req
    PROVE  kind(r) \in Kind /\ host(r) \in Host /\ r \in OfKind(kind(r))
  BY PullConstants DEF Req, kind, host, Kind, OfKind

(* No serve loop of one kind has a request of the other.                      *)
LEMMA KindsApart ==
    /\ OfKind("preview") = Preview /\ OfKind("browse") = Browse
    /\ \A k \in Kind : OfKind(k) \subseteq Req
  BY DEF OfKind, Kind, Req

(* Every step keeps the types.                                                *)
LEMMA TypesStep == Types /\ [Next]_vars => Types'
<1> SUFFICES ASSUME Types, [Next]_vars PROVE Types'
  OBVIOUS
<1>1. CASE UNCHANGED <<disk, cat, pc, entry, got, future, permits, expired>>
  BY <1>1 DEF Types
<1>2. ASSUME NEW r \in Req, Refuse(r) PROVE Types'
  <2>1. \E to \in {"failed"} : pc' = [pc EXCEPT ![r] = to]
    BY <1>2 DEF Refuse
  <2>2. UNCHANGED <<disk, cat, entry, got, future, permits, expired>>
    BY <1>2 DEF Refuse, core, rendezvous, remote, world
  <2> QED
    BY <2>1, <2>2 DEF Types, Step
<1>3. ASSUME NEW r \in Req, ResolveEntry(r) PROVE Types'
  <2>1. \E to \in {"slot"} : pc' = [pc EXCEPT ![r] = to]
    BY <1>3 DEF ResolveEntry
  <2>2. entry' \in [Preview -> Row]
    BY <1>3, PullConstants DEF ResolveEntry, Types, Req
  <2>3. UNCHANGED <<disk, cat, got, future, permits, expired>>
    BY <1>3 DEF ResolveEntry, core, rendezvous, remote, world
  <2> QED
    BY <2>1, <2>2, <2>3 DEF Types, Step
<1>4. ASSUME NEW r \in Req, BrowseDirectory(r) PROVE Types'
  <2>1. \E to \in {"await"} : pc' = [pc EXCEPT ![r] = to]
    BY <1>4 DEF BrowseDirectory
  <2>2. UNCHANGED <<disk, cat, entry, got, future, permits, expired>>
    BY <1>4 DEF BrowseDirectory, EnqueueFor, core, rendezvous, remote, world
  <2> QED
    BY <2>1, <2>2 DEF Types, Step
<1>5. ASSUME NEW r \in Req, Expire(r) PROVE Types'
  <2>1. expired' \subseteq Req
    BY <1>5 DEF Expire, Types
  <2>2. UNCHANGED <<disk, cat, pc, entry, got, future, permits>>
    BY <1>5 DEF Expire, core, rendezvous, remote, world
  <2> QED
    BY <2>1, <2>2 DEF Types, Step
<1>6. ASSUME NEW r \in Req, Submit(r) PROVE Types'
  <2>1. \E to \in {"lookup", "failed"} : pc' = [pc EXCEPT ![r] = to]
    BY <1>6 DEF Submit
  <2>2. permits' \in Nat
    BY <1>6, PullConstants DEF Submit, Release, Types
  <2>3. UNCHANGED <<disk, cat, entry, got, future, expired>>
    BY <1>6 DEF Submit, core, rendezvous, remote, world
  <2> QED
    BY <2>1, <2>2, <2>3 DEF Types, Step
<1>7. ASSUME NEW r \in Req, CacheHit(r) PROVE Types'
  <2>1. \E to \in {"record"} : pc' = [pc EXCEPT ![r] = to]
    BY <1>7 DEF CacheHit
  <2>2. permits' \in Nat
    BY <1>7, PullConstants DEF CacheHit, Release, Types
  <2>3. got' = [u \in Preview |-> got'[u]]
    BY <1>7 DEF CacheHit, Types
  <2>4. UNCHANGED <<disk, cat, entry, future, expired>>
    BY <1>7 DEF CacheHit, core, rendezvous, remote, world
  <2> QED
    BY <2>1, <2>2, <2>3, <2>4 DEF Types, Step
<1>8. ASSUME NEW r \in Req, CacheMiss(r) PROVE Types'
  <2>1. \E to \in {"read", "await"} : pc' = [pc EXCEPT ![r] = to]
    BY <1>8 DEF CacheMiss
  <2>2. UNCHANGED <<disk, cat, entry, got, future, permits, expired>>
    BY <1>8 DEF CacheMiss, EnqueueFor, core, rendezvous, remote, world
  <2> QED
    BY <2>1, <2>2 DEF Types, Step
<1>9. ASSUME NEW r \in Req, ReadLocally(r) PROVE Types'
  <2>1. \E to \in {"failed", "render"} : pc' = [pc EXCEPT ![r] = to]
    BY <1>9 DEF ReadLocally, Take
  <2>2. permits' \in Nat
    BY <1>9, PullConstants DEF ReadLocally, Release, Types, Take
  <2>3. got' = [u \in Preview |-> got'[u]]
    BY <1>9 DEF ReadLocally, Types, Take
  <2>4. UNCHANGED <<disk, cat, entry, future, expired>>
    BY <1>9 DEF ReadLocally, core, rendezvous, remote, world
  <2> QED
    BY <2>1, <2>2, <2>3, <2>4 DEF Types, Step
<1>10. ASSUME NEW r \in Req, FetchReturns(r) PROVE Types'
  <2>1. \E to \in {"failed", "render"} : pc' = [pc EXCEPT ![r] = to]
    BY <1>10 DEF FetchReturns, Take
  <2>2. permits' \in Nat
    BY <1>10, PullConstants DEF FetchReturns, Release, Types, Take
  <2>3. got' = [u \in Preview |-> got'[u]]
    BY <1>10 DEF FetchReturns, Types, Take
  <2>4. future' = [u \in Req |-> future'[u]]
    BY <1>10 DEF FetchReturns, Forget, Types
  <2>5. UNCHANGED <<disk, cat, entry, expired>>
    BY <1>10 DEF FetchReturns, core, rendezvous, remote, world
  <2> QED
    BY <2>1, <2>2, <2>3, <2>4, <2>5 DEF Types, Step
<1>11. ASSUME NEW r \in Req, FetchTimesOut(r) PROVE Types'
  <2>1. \E to \in {"timeout"} : pc' = [pc EXCEPT ![r] = to]
    BY <1>11 DEF FetchTimesOut
  <2>2. permits' \in Nat
    BY <1>11, PullConstants DEF FetchTimesOut, Release, Types
  <2>3. future' = [u \in Req |-> future'[u]]
    BY <1>11 DEF FetchTimesOut, Forget, Types
  <2>4. UNCHANGED <<disk, cat, entry, got, expired>>
    BY <1>11 DEF FetchTimesOut, core, rendezvous, remote, world
  <2> QED
    BY <2>1, <2>2, <2>3, <2>4 DEF Types, Step
<1>12. ASSUME NEW r \in Req, RenderFails(r) PROVE Types'
  <2>1. \E to \in {"failed"} : pc' = [pc EXCEPT ![r] = to]
    BY <1>12 DEF RenderFails
  <2>2. permits' \in Nat
    BY <1>12, PullConstants DEF RenderFails, Release, Types
  <2>3. UNCHANGED <<disk, cat, entry, got, future, expired>>
    BY <1>12 DEF RenderFails, core, rendezvous, remote, world
  <2> QED
    BY <2>1, <2>2, <2>3 DEF Types, Step
<1>13. ASSUME NEW r \in Req, Render(r) PROVE Types'
  <2>1. \E to \in {"record"} : pc' = [pc EXCEPT ![r] = to]
    BY <1>13 DEF Render
  <2>2. permits' \in Nat
    BY <1>13, PullConstants DEF Render, Release, Types
  <2>3. UNCHANGED <<disk, cat, entry, got, future, expired>>
    BY <1>13 DEF Render, core, rendezvous, remote, world
  <2> QED
    BY <2>1, <2>2, <2>3 DEF Types, Step
<1>14. ASSUME NEW r \in Req, RecordCacheMeta(r) PROVE Types'
  <2>1. \E to \in {"flush"} : pc' = [pc EXCEPT ![r] = to]
    BY <1>14 DEF RecordCacheMeta
  <2>2. UNCHANGED <<disk, cat, entry, got, future, permits, expired>>
    BY <1>14 DEF RecordCacheMeta, core, rendezvous, remote, world
  <2> QED
    BY <2>1, <2>2 DEF Types, Step
<1>15. ASSUME NEW r \in Req, Serve(r) PROVE Types'
  <2>1. \E to \in {"served", "failed"} : pc' = [pc EXCEPT ![r] = to]
    BY <1>15 DEF Serve
  <2>2. UNCHANGED <<disk, cat, entry, got, future, permits, expired>>
    BY <1>15 DEF Serve, core, rendezvous, remote, world
  <2> QED
    BY <2>1, <2>2 DEF Types, Step
<1>16. ASSUME NEW r \in Req, BrowseReturns(r) PROVE Types'
  <2>1. \E to \in {"served"} : pc' = [pc EXCEPT ![r] = to]
    BY <1>16 DEF BrowseReturns
  <2>2. future' = [u \in Req |-> future'[u]]
    BY <1>16 DEF BrowseReturns, Forget, Types
  <2>3. UNCHANGED <<disk, cat, entry, got, permits, expired>>
    BY <1>16 DEF BrowseReturns, core, rendezvous, remote, world
  <2> QED
    BY <2>1, <2>2, <2>3 DEF Types, Step
<1>17. ASSUME NEW r \in Req, BrowseFails(r) PROVE Types'
  <2>1. \E to \in {"timeout"} : pc' = [pc EXCEPT ![r] = to]
    BY <1>17 DEF BrowseFails
  <2>2. future' = [u \in Req |-> future'[u]]
    BY <1>17 DEF BrowseFails, Forget, Types
  <2>3. UNCHANGED <<disk, cat, entry, got, permits, expired>>
    BY <1>17 DEF BrowseFails, core, rendezvous, remote, world
  <2> QED
    BY <2>1, <2>2, <2>3 DEF Types, Step
<1>18. ASSUME NEW k \in Kind, NEW h \in Host, PollDropsExpired(k, h) PROVE Types'
  <2>1. future' = [u \in Req |-> future'[u]]
    BY <1>18 DEF PollDropsExpired, Types
  <2>2. UNCHANGED <<disk, cat, pc, entry, got, permits, expired>>
    BY <1>18 DEF PollDropsExpired, core, rendezvous, remote, world
  <2> QED
    BY <2>1, <2>2 DEF Types, Step
<1>19. ASSUME NEW m \in wire, ServePost(m) PROVE Types'
  <2>1. future' = [u \in Req |-> future'[u]]
    BY <1>19 DEF ServePost, Resolve, Types
  <2>2. UNCHANGED <<disk, cat, pc, entry, got, permits, expired>>
    BY <1>19 DEF ServePost, core, rendezvous, remote, world
  <2> QED
    BY <2>1, <2>2 DEF Types, Step
<1>20. ASSUME NEW m \in wire, BrowsePost(m) PROVE Types'
  <2>1. future' = [u \in Req |-> future'[u]]
    BY <1>20 DEF BrowsePost, Resolve, Types
  <2>2. UNCHANGED <<disk, cat, pc, entry, got, permits, expired>>
    BY <1>20 DEF BrowsePost, core, rendezvous, remote, world
  <2> QED
    BY <2>1, <2>2 DEF Types, Step
<1>21. ASSUME NEW e \in Entry, Write(e) PROVE Types'
  <2>1. disk' \in [Entry -> [inode : Nat, data : Content]]
    BY <1>21 DEF Write, Types
  <2>2. UNCHANGED <<cat, pc, entry, got, future, permits, expired>>
    BY <1>21 DEF Write, core, rendezvous, remote, world
  <2> QED
    BY <2>1, <2>2 DEF Types, Step
<1>22. ASSUME NEW e \in Entry, Rescan(e) PROVE Types'
  <2>1. cat' \in [Entry -> Row]
    BY <1>22 DEF Rescan, Types, Row
  <2>2. UNCHANGED <<disk, pc, entry, got, future, permits, expired>>
    BY <1>22 DEF Rescan, core, rendezvous, remote, world
  <2> QED
    BY <2>1, <2>2 DEF Types, Step
<1>23. ASSUME CoreCrash PROVE Types'
  <2>1. pc' \in [Req -> Step]
    BY <1>23 DEF CoreCrash, Types, Step
  <2>2. permits' \in Nat /\ future' = [u \in Req |-> None]
    BY <1>23, PullConstants DEF CoreCrash
  <2>3. UNCHANGED <<disk, cat, entry, got, expired>>
    BY <1>23 DEF CoreCrash, core, rendezvous, remote, world
  <2> QED
    BY <2>1, <2>2, <2>3 DEF Types, Step
<1>24. \/ UNCHANGED <<disk, cat, pc, entry, got, future, permits, expired>>
       \/ \E r \in Req : Refuse(r) \/ ResolveEntry(r) \/ BrowseDirectory(r) \/ Expire(r)
                         \/ Submit(r) \/ CacheHit(r) \/ CacheMiss(r) \/ ReadLocally(r)
                         \/ FetchReturns(r) \/ FetchTimesOut(r) \/ RenderFails(r)
                         \/ Render(r) \/ RecordCacheMeta(r) \/ Serve(r) \/ BrowseReturns(r)
                         \/ BrowseFails(r)
       \/ \E k \in Kind, h \in Host : PollDropsExpired(k, h)
       \/ \E m \in wire : ServePost(m) \/ BrowsePost(m)
       \/ \E e \in Entry : Write(e) \/ Rescan(e)
       \/ CoreCrash
  BY DEF Next, CoreStep, run_preview_serve, run_browse_serve, ServeLoop, Environment, Poll,
      Verify, ServeFile, ListDirectory, LosePost, Replay, AgentCrash, Finished, vars, core,
      rendezvous, remote, world, Kind
<1> QED
  BY <1>1, <1>2, <1>3, <1>4, <1>5, <1>6, <1>7, <1>8, <1>9, <1>10, <1>11, <1>12, <1>13, <1>14,
      <1>15, <1>16, <1>17, <1>18, <1>19, <1>20, <1>21, <1>22, <1>23, <1>24

(* No request starts again, and one gives up only when it has expired or its  *)
(* browse was failed.                                                          *)
GoesOn(u) ==
    /\ pc'[u] = "new" => pc[u] = "new"
    /\ pc'[u] = "timeout" => \/ pc[u] = "timeout" \/ u \in expired
                             \/ u \in Browse /\ future[u] = Fail

(* Steps of the routes.                                                       *)
LEMMA RequestsGoOn == Types /\ [Next]_vars => \A u \in Req : GoesOn(u)
<1> SUFFICES ASSUME Types, [Next]_vars PROVE \A u \in Req : GoesOn(u)
  OBVIOUS
<1>1. CASE UNCHANGED <<pc>>
  BY <1>1 DEF GoesOn
<1>2. ASSUME NEW r \in Req, Refuse(r) PROVE \A u \in Req : GoesOn(u)
  <2>1. \E to \in {"failed"} : pc' = [pc EXCEPT ![r] = to]
    BY <1>2 DEF Refuse
  <2> QED
    BY <2>1 DEF Types, GoesOn
<1>3. ASSUME NEW r \in Req, ResolveEntry(r) PROVE \A u \in Req : GoesOn(u)
  <2>1. \E to \in {"slot"} : pc' = [pc EXCEPT ![r] = to]
    BY <1>3 DEF ResolveEntry
  <2> QED
    BY <2>1 DEF Types, GoesOn
<1>4. ASSUME NEW r \in Req, BrowseDirectory(r) PROVE \A u \in Req : GoesOn(u)
  <2>1. \E to \in {"await"} : pc' = [pc EXCEPT ![r] = to]
    BY <1>4 DEF BrowseDirectory
  <2> QED
    BY <2>1 DEF Types, GoesOn
<1>5. ASSUME NEW r \in Req, Submit(r) PROVE \A u \in Req : GoesOn(u)
  <2>1. \E to \in {"lookup", "failed"} : pc' = [pc EXCEPT ![r] = to]
    BY <1>5 DEF Submit
  <2> QED
    BY <2>1 DEF Types, GoesOn
<1>6. ASSUME NEW r \in Req, CacheHit(r) PROVE \A u \in Req : GoesOn(u)
  <2>1. \E to \in {"record"} : pc' = [pc EXCEPT ![r] = to]
    BY <1>6 DEF CacheHit
  <2> QED
    BY <2>1 DEF Types, GoesOn
<1>7. ASSUME NEW r \in Req, CacheMiss(r) PROVE \A u \in Req : GoesOn(u)
  <2>1. \E to \in {"read", "await"} : pc' = [pc EXCEPT ![r] = to]
    BY <1>7 DEF CacheMiss
  <2> QED
    BY <2>1 DEF Types, GoesOn
<1>8. ASSUME NEW r \in Req, ReadLocally(r) PROVE \A u \in Req : GoesOn(u)
  <2>1. \E to \in {"failed", "render"} : pc' = [pc EXCEPT ![r] = to]
    BY <1>8 DEF ReadLocally, Take
  <2> QED
    BY <2>1 DEF Types, GoesOn
<1>9. ASSUME NEW r \in Req, FetchReturns(r) PROVE \A u \in Req : GoesOn(u)
  <2>1. \E to \in {"failed", "render"} : pc' = [pc EXCEPT ![r] = to]
    BY <1>9 DEF FetchReturns, Take
  <2> QED
    BY <2>1 DEF Types, GoesOn
<1>10. ASSUME NEW r \in Req, FetchTimesOut(r) PROVE \A u \in Req : GoesOn(u)
  <2>1. \E to \in {"timeout"} : pc' = [pc EXCEPT ![r] = to]
    BY <1>10 DEF FetchTimesOut
  <2>2. r \in expired
    BY <1>10 DEF FetchTimesOut
  <2> QED
    BY <2>1, <2>2 DEF Types, GoesOn
<1>11. ASSUME NEW r \in Req, RenderFails(r) PROVE \A u \in Req : GoesOn(u)
  <2>1. \E to \in {"failed"} : pc' = [pc EXCEPT ![r] = to]
    BY <1>11 DEF RenderFails
  <2> QED
    BY <2>1 DEF Types, GoesOn
<1>12. ASSUME NEW r \in Req, Render(r) PROVE \A u \in Req : GoesOn(u)
  <2>1. \E to \in {"record"} : pc' = [pc EXCEPT ![r] = to]
    BY <1>12 DEF Render
  <2> QED
    BY <2>1 DEF Types, GoesOn
<1>13. ASSUME NEW r \in Req, RecordCacheMeta(r) PROVE \A u \in Req : GoesOn(u)
  <2>1. \E to \in {"flush"} : pc' = [pc EXCEPT ![r] = to]
    BY <1>13 DEF RecordCacheMeta
  <2> QED
    BY <2>1 DEF Types, GoesOn
<1>14. ASSUME NEW r \in Req, Serve(r) PROVE \A u \in Req : GoesOn(u)
  <2>1. \E to \in {"served", "failed"} : pc' = [pc EXCEPT ![r] = to]
    BY <1>14 DEF Serve
  <2> QED
    BY <2>1 DEF Types, GoesOn
<1>15. ASSUME NEW r \in Req, BrowseReturns(r) PROVE \A u \in Req : GoesOn(u)
  <2>1. \E to \in {"served"} : pc' = [pc EXCEPT ![r] = to]
    BY <1>15 DEF BrowseReturns
  <2> QED
    BY <2>1 DEF Types, GoesOn
<1>16. ASSUME NEW r \in Req, BrowseFails(r) PROVE \A u \in Req : GoesOn(u)
  <2>1. \E to \in {"timeout"} : pc' = [pc EXCEPT ![r] = to]
    BY <1>16 DEF BrowseFails
  <2>2. r \in expired \/ (r \in Browse /\ future[r] = Fail)
    BY <1>16 DEF BrowseFails
  <2> QED
    BY <2>1, <2>2 DEF Types, GoesOn
<1>17. ASSUME CoreCrash PROVE \A u \in Req : GoesOn(u)
  BY <1>17 DEF CoreCrash, GoesOn
<1>18. \/ UNCHANGED <<pc>>
       \/ \E r \in Req : Refuse(r) \/ ResolveEntry(r) \/ BrowseDirectory(r) \/ Submit(r)
                         \/ CacheHit(r) \/ CacheMiss(r) \/ ReadLocally(r) \/ FetchReturns(r)
                         \/ FetchTimesOut(r) \/ RenderFails(r) \/ Render(r)
                         \/ RecordCacheMeta(r) \/ Serve(r) \/ BrowseReturns(r) \/ BrowseFails(r)
       \/ CoreCrash
  BY DEF Next, CoreStep, run_preview_serve, run_browse_serve, ServeLoop, Environment, Expire,
      Poll, PollDropsExpired, Verify, ServeFile, ListDirectory, ServePost, BrowsePost,
      LosePost, Replay, AgentCrash, Write, Rescan, Finished, vars, core, rendezvous,
      remote, world
<1> QED
  BY <1>1, <1>2, <1>3, <1>4, <1>5, <1>6, <1>7, <1>8, <1>9, <1>10, <1>11, <1>12, <1>13, <1>14,
      <1>15, <1>16, <1>17, <1>18

(* An entry is resolved once, before anything is asked for it.                *)
LEMMA EntriesAreFixed ==
    Types /\ [Next]_vars => (\A u \in Preview : entry'[u] = entry[u] \/ pc[u] = "new")
<1> SUFFICES ASSUME Types, [Next]_vars
             PROVE  (\A u \in Preview : entry'[u] = entry[u] \/ pc[u] = "new")
  OBVIOUS
<1>1. CASE UNCHANGED <<entry>>
  BY <1>1 DEF vars
<1>2. ASSUME NEW r \in Req, ResolveEntry(r)
      PROVE  (\A u \in Preview : entry'[u] = entry[u] \/ pc[u] = "new")
  <2>1. pc[r] = "new" /\ entry' = [entry EXCEPT ![r] = cat[target[r]]]
    BY <1>2 DEF ResolveEntry
  <2> QED
    BY <2>1 DEF Types
<1>3. \/ UNCHANGED <<entry>>
      \/ \E r \in Req : ResolveEntry(r)
  BY DEF Next, CoreStep, run_preview_serve, run_browse_serve, ServeLoop, Environment, Refuse,
      BrowseDirectory, Expire, Submit, CacheHit, CacheMiss, ReadLocally, FetchReturns,
      FetchTimesOut, RenderFails, Render, RecordCacheMeta, Serve, BrowseReturns,
      BrowseFails, Poll, PollDropsExpired, Verify, ServeFile, ListDirectory,
      ServePost, BrowsePost, LosePost, Replay, AgentCrash, Write, Rescan,
      CoreCrash, Finished, vars, core, rendezvous, remote, world
<1> QED
  BY <1>1, <1>2, <1>3

(* A queue is left alone, served or emptied, or gets a request that waits.     *)
QueueMove(u, v) ==
    \/ queue'[u][v] = queue[u][v]
    \/ queue[u][v] # <<>> /\ queue'[u][v] = Tail(queue[u][v])
    \/ queue'[u][v] = <<>>
    \/ \E r \in OfKind(u) : pc'[r] # "new" /\ queue'[u][v] = Append(queue[u][v], r)
QueuesMove ==
    /\ queue' = [u \in Kind |-> [v \in Host |-> queue'[u][v]]]
    /\ \A u \in Kind, v \in Host : QueueMove(u, v)

(* Steps of the pull queues.                                                  *)
LEMMA QueueMoves == Types /\ Kinds /\ [Next]_vars => QueuesMove
<1> SUFFICES ASSUME Types, Kinds, [Next]_vars PROVE QueuesMove
  OBVIOUS
<1>1. CASE UNCHANGED <<queue>>
  BY <1>1 DEF QueueMove, QueuesMove, Kinds
<1>2. ASSUME NEW r \in Req, BrowseDirectory(r) PROVE QueuesMove
  <2>1. kind(r) \in Kind /\ host(r) \in Host /\ r \in OfKind(kind(r))
    BY KindOf
  <2>2. \E to \in {"await"} : pc' = [pc EXCEPT ![r] = to]
    BY <1>2 DEF BrowseDirectory
  <2>3. pc'[r] # "new"
    BY <2>2 DEF Types
  <2>4. queue' = [queue EXCEPT ![kind(r)][host(r)] = Append(queue[kind(r)][host(r)], r)]
    BY <1>2 DEF BrowseDirectory, EnqueueFor, rendezvous
  <2>5. queue = [u \in Kind |-> [v \in Host |-> queue[u][v]]]
    BY DEF Kinds
  <2>6. CASE queue' = queue
    BY <2>5, <2>6 DEF QueueMove, QueuesMove
  <2>7. CASE queue' = [queue EXCEPT ![kind(r)][host(r)] = Append(queue[kind(r)][host(r)], r)]
    <3>1. /\ queue' = [u \in Kind |-> [v \in Host |-> queue'[u][v]]]
          /\ queue'[kind(r)][host(r)] = Append(queue[kind(r)][host(r)], r)
          /\ \A u \in Kind,
                 v \in Host : u # kind(r) \/ v # host(r) => queue'[u][v] = queue[u][v]
      BY <2>1, <2>5, <2>7
    <3>2. QueuesMove
      BY <2>1, <2>3, <3>1 DEF QueueMove, QueuesMove
    <3> QED
      BY <3>1, <3>2
  <2> QED
    BY <2>4, <2>6, <2>7
<1>3. ASSUME NEW r \in Req, CacheMiss(r) PROVE QueuesMove
  <2>1. kind(r) \in Kind /\ host(r) \in Host /\ r \in OfKind(kind(r))
    BY KindOf
  <2>2. \E to \in {"read", "await"} : pc' = [pc EXCEPT ![r] = to]
    BY <1>3 DEF CacheMiss
  <2>3. pc'[r] # "new"
    BY <2>2 DEF Types
  <2>4. queue' = queue
            \/ queue' = [queue EXCEPT ![kind(r)][host(r)] = Append(queue[kind(r)][host(r)], r)]
    BY <1>3 DEF CacheMiss, EnqueueFor, rendezvous
  <2>5. queue = [u \in Kind |-> [v \in Host |-> queue[u][v]]]
    BY DEF Kinds
  <2>6. CASE queue' = queue
    BY <2>5, <2>6 DEF QueueMove, QueuesMove
  <2>7. CASE queue' = [queue EXCEPT ![kind(r)][host(r)] = Append(queue[kind(r)][host(r)], r)]
    <3>1. /\ queue' = [u \in Kind |-> [v \in Host |-> queue'[u][v]]]
          /\ queue'[kind(r)][host(r)] = Append(queue[kind(r)][host(r)], r)
          /\ \A u \in Kind,
                 v \in Host : u # kind(r) \/ v # host(r) => queue'[u][v] = queue[u][v]
      BY <2>1, <2>5, <2>7
    <3>2. QueuesMove
      BY <2>1, <2>3, <3>1 DEF QueueMove, QueuesMove
    <3> QED
      BY <3>1, <3>2
  <2> QED
    BY <2>4, <2>6, <2>7
<1>4. ASSUME NEW k \in Kind, NEW h \in Host, Poll(k, h) PROVE QueuesMove
  <2>1. queue[k][h] # <<>> /\ queue' = [queue EXCEPT ![k][h] = Tail(queue[k][h])]
    BY <1>4 DEF Poll
  <2>2. queue = [u \in Kind |-> [v \in Host |-> queue[u][v]]]
    BY DEF Kinds
  <2>3. /\ queue' = [u \in Kind |-> [v \in Host |-> queue'[u][v]]]
        /\ queue'[k][h] = Tail(queue[k][h])
        /\ \A u \in Kind, v \in Host : u # k \/ v # h => queue'[u][v] = queue[u][v]
    BY <2>1, <2>2
  <2> QED
    BY <2>1, <2>3 DEF QueueMove, QueuesMove
<1>5. ASSUME NEW k \in Kind, NEW h \in Host, PollDropsExpired(k, h) PROVE QueuesMove
  <2>1. queue[k][h] # <<>> /\ queue' = [queue EXCEPT ![k][h] = Tail(queue[k][h])]
    BY <1>5 DEF PollDropsExpired
  <2>2. queue = [u \in Kind |-> [v \in Host |-> queue[u][v]]]
    BY DEF Kinds
  <2>3. /\ queue' = [u \in Kind |-> [v \in Host |-> queue'[u][v]]]
        /\ queue'[k][h] = Tail(queue[k][h])
        /\ \A u \in Kind, v \in Host : u # k \/ v # h => queue'[u][v] = queue[u][v]
    BY <2>1, <2>2
  <2> QED
    BY <2>1, <2>3 DEF QueueMove, QueuesMove
<1>6. ASSUME CoreCrash PROVE QueuesMove
  BY <1>6 DEF CoreCrash, QueueMove, QueuesMove
<1>7. \/ UNCHANGED <<queue>>
      \/ \E r \in Req : BrowseDirectory(r) \/ CacheMiss(r)
      \/ \E k \in Kind, h \in Host : Poll(k, h) \/ PollDropsExpired(k, h)
      \/ CoreCrash
  BY DEF Next, CoreStep, run_preview_serve, run_browse_serve, ServeLoop, Environment, Refuse,
      ResolveEntry, Expire, Submit, CacheHit, ReadLocally, FetchReturns, FetchTimesOut,
      RenderFails, Render, RecordCacheMeta, Serve, BrowseReturns, BrowseFails, Verify,
      ServeFile, ListDirectory, ServePost, BrowsePost, LosePost, Replay, AgentCrash,
      Write, Rescan, Finished, vars, core, rendezvous, remote, world, Kind, Forget
<1> QED
  BY <1>1, <1>2, <1>3, <1>4, <1>5, <1>6, <1>7

(* A serve loop is left alone or ends, claims a request, or verified the one  *)
(* it has.                                                                     *)
Claims(u, v) ==
    \E r \in OfKind(u) : /\ agent'[u][v] = [step |-> "claimed", req |-> r]
                         /\ r \in seen'
                             /\ (r \in seen \/ (queue[u][v] # <<>> /\ r = Head(queue[u][v])))
Verifies(u, v) ==
    /\ agent[u][v] # Idle /\ agent[u][v].step = "claimed"
    /\ agent'[u][v] = [step |-> "verified", req |-> agent[u][v].req]
    /\ LET r == agent[u][v].req IN r \notin expired /\ host(r) = v /\ r \notin ledger
LoopMove(u, v) ==
    agent'[u][v] \in {agent[u][v], Idle} \/ Claims(u, v) \/ Verifies(u, v)
LoopsMove ==
    /\ agent' = [u \in Kind |-> [v \in Host |-> agent'[u][v]]]
    /\ \A u \in Kind, v \in Host : LoopMove(u, v)

(* Steps of the serve loops.                                                  *)
LEMMA LoopMoves == Kinds /\ [Next]_vars => LoopsMove
<1> SUFFICES ASSUME Kinds, [Next]_vars PROVE LoopsMove
  OBVIOUS
<1>1. CASE UNCHANGED <<agent, seen>>
  BY <1>1 DEF LoopMove, LoopsMove, Kinds
<1>2. ASSUME NEW k \in Kind, NEW h \in Host, Poll(k, h) PROVE LoopsMove
  <2>1. agent = [u \in Kind |-> [v \in Host |-> agent[u][v]]]
    BY DEF Kinds
  <2>2. /\ queue[k][h] # <<>> /\ seen' = seen \cup {Head(queue[k][h])}
        /\ agent' = [agent EXCEPT ![k][h] = [step |-> "claimed", req |-> Head(queue[k][h])]]
    BY <1>2 DEF Poll
  <2>3. Head(queue[k][h]) \in OfKind(k)
    BY <2>2, HeadTailProperties DEF Kinds
  <2>4. /\ agent' = [u \in Kind |-> [v \in Host |-> agent'[u][v]]]
        /\ agent'[k][h] = [step |-> "claimed", req |-> Head(queue[k][h])]
        /\ \A u \in Kind, v \in Host : u # k \/ v # h => agent'[u][v] = agent[u][v]
    BY <2>1, <2>2
  <2>5. Claims(k, h)
    BY <2>2, <2>3, <2>4 DEF Claims
  <2> QED
    BY <2>4, <2>5 DEF LoopMove, LoopsMove
<1>3. ASSUME NEW k \in Kind, NEW h \in Host, Verify(k, h) PROVE LoopsMove
  <2>1. agent = [u \in Kind |-> [v \in Host |-> agent[u][v]]]
    BY DEF Kinds
  <2>2. agent[k][h] # Idle /\ agent[k][h].step = "claimed"
            /\ agent[k][h] \in [step : {"claimed", "verified"}, req : OfKind(k)]
    <3>1. agent[k][h].step = "claimed"
      BY <1>3 DEF Verify
    <3>2. agent[k][h] # Idle
      BY <3>1 DEF Idle
    <3>3. agent[k][h] \in Loop(k)
      BY DEF Kinds
    <3>4. agent[k][h] \in [step : {"claimed", "verified"}, req : OfKind(k)]
      BY <3>2, <3>3 DEF Loop
    <3> QED
      BY <3>1, <3>2, <3>3, <3>4
  <2>3. \/ agent' = [agent EXCEPT ![k][h] = Idle]
        \/ /\ agent' = [agent EXCEPT ![k][h].step = "verified"]
           /\ LET r == agent[k][h].req IN r \notin expired /\ host(r) = h /\ r \notin ledger
    BY <1>3 DEF Verify, Answer, verify_grant, verify_browse_request, FileGrant, BrowseRequest
  <2>4. CASE agent' = [agent EXCEPT ![k][h] = Idle]
    <3>1. /\ agent' = [u \in Kind |-> [v \in Host |-> agent'[u][v]]]
          /\ agent'[k][h] = Idle
          /\ \A u \in Kind, v \in Host : u # k \/ v # h => agent'[u][v] = agent[u][v]
      BY <2>1, <2>4
    <3>2. LoopsMove
      BY <3>1 DEF LoopMove, LoopsMove
    <3> QED
      BY <3>1, <3>2
  <2>5. CASE /\ agent' = [agent EXCEPT ![k][h].step = "verified"]
             /\ LET r == agent[k][h].req IN r \notin expired /\ host(r) = h /\ r \notin ledger
    <3>1. /\ agent' = [u \in Kind |-> [v \in Host |-> agent'[u][v]]]
          /\ agent'[k][h] = [agent[k][h] EXCEPT !.step = "verified"]
          /\ \A u \in Kind, v \in Host : u # k \/ v # h => agent'[u][v] = agent[u][v]
      BY <2>1, <2>5
    <3>2. [agent[k][h] EXCEPT !.step = "verified"] = [step |-> "verified",
        req |-> agent[k][h].req]
      BY <2>2
    <3>3. Verifies(k, h)
      BY <2>2, <2>5, <3>1, <3>2 DEF Verifies
    <3>4. LoopsMove
      BY <3>1, <3>3 DEF LoopMove, LoopsMove
    <3> QED
      BY <3>1, <3>2, <3>3, <3>4
  <2> QED
    BY <2>3, <2>4, <2>5
<1>4. ASSUME NEW h \in Host, ServeFile(h) PROVE LoopsMove
  <2>1. agent = [u \in Kind |-> [v \in Host |-> agent[u][v]]]
    BY DEF Kinds
  <2>2. "preview" \in Kind
    BY DEF Kind
  <2>3. agent' = [agent EXCEPT !["preview"][h] = Idle]
    BY <1>4 DEF ServeFile, Answer
  <2>4. /\ agent' = [u \in Kind |-> [v \in Host |-> agent'[u][v]]]
        /\ agent'["preview"][h] = Idle
        /\ \A u \in Kind, v \in Host : u # "preview" \/ v # h => agent'[u][v] = agent[u][v]
    BY <2>1, <2>2, <2>3
  <2> QED
    BY <2>4 DEF LoopMove, LoopsMove
<1>5. ASSUME NEW h \in Host, ListDirectory(h) PROVE LoopsMove
  <2>1. agent = [u \in Kind |-> [v \in Host |-> agent[u][v]]]
    BY DEF Kinds
  <2>2. "browse" \in Kind
    BY DEF Kind
  <2>3. agent' = [agent EXCEPT !["browse"][h] = Idle]
    BY <1>5 DEF ListDirectory, Answer
  <2>4. /\ agent' = [u \in Kind |-> [v \in Host |-> agent'[u][v]]]
        /\ agent'["browse"][h] = Idle
        /\ \A u \in Kind, v \in Host : u # "browse" \/ v # h => agent'[u][v] = agent[u][v]
    BY <2>1, <2>2, <2>3
  <2> QED
    BY <2>4 DEF LoopMove, LoopsMove
<1>6. ASSUME NEW r \in Req, NEW h \in Host, Replay(r, h) PROVE LoopsMove
  <2>1. agent = [u \in Kind |-> [v \in Host |-> agent[u][v]]]
    BY DEF Kinds
  <2>2. kind(r) \in Kind /\ r \in OfKind(kind(r))
    BY KindOf
  <2>3. /\ r \in seen /\ seen' = seen
        /\ agent' = [agent EXCEPT ![kind(r)][h] = [step |-> "claimed", req |-> r]]
    BY <1>6 DEF Replay
  <2>4. /\ agent' = [u \in Kind |-> [v \in Host |-> agent'[u][v]]]
        /\ agent'[kind(r)][h] = [step |-> "claimed", req |-> r]
        /\ \A u \in Kind, v \in Host : u # kind(r) \/ v # h => agent'[u][v] = agent[u][v]
    BY <2>1, <2>2, <2>3
  <2>5. Claims(kind(r), h)
    BY <2>2, <2>3, <2>4 DEF Claims
  <2> QED
    BY <2>4, <2>5 DEF LoopMove, LoopsMove
<1>7. ASSUME NEW k \in Kind, NEW h \in Host, AgentCrash(k, h) PROVE LoopsMove
  <2>1. agent = [u \in Kind |-> [v \in Host |-> agent[u][v]]]
    BY DEF Kinds
  <2>2. agent' = [agent EXCEPT ![k][h] = Idle]
    BY <1>7 DEF AgentCrash
  <2>3. /\ agent' = [u \in Kind |-> [v \in Host |-> agent'[u][v]]]
        /\ agent'[k][h] = Idle
        /\ \A u \in Kind, v \in Host : u # k \/ v # h => agent'[u][v] = agent[u][v]
    BY <2>1, <2>2
  <2> QED
    BY <2>3 DEF LoopMove, LoopsMove
<1>8. \/ UNCHANGED <<agent, seen>>
      \/ \E k \in Kind, h \in Host : Poll(k, h) \/ Verify(k, h) \/ AgentCrash(k, h)
      \/ \E h \in Host : ServeFile(h) \/ ListDirectory(h)
      \/ \E r \in Req, h \in Host : Replay(r, h)
  BY DEF Next, CoreStep, run_preview_serve, run_browse_serve, ServeLoop, Environment, Refuse,
      ResolveEntry, BrowseDirectory, Expire, Submit, CacheHit, CacheMiss, ReadLocally,
      FetchReturns, FetchTimesOut, RenderFails, Render, RecordCacheMeta, Serve,
      BrowseReturns, BrowseFails, PollDropsExpired, ServePost, BrowsePost, LosePost,
      Write, Rescan, CoreCrash, Finished, vars, core, rendezvous, remote, world,
      Kind
<1> QED
  BY <1>1, <1>2, <1>3, <1>4, <1>5, <1>6, <1>7, <1>8

(* A post comes from the serve loop that has the request, with bytes that      *)
(* were checked against the grant or with a listing.                           *)
Posts(m) ==
    \E k \in Kind, h \in Host :
        /\ agent[k][h] # Idle /\ m.req = agent[k][h].req
        /\ k = "preview" => Checked(m.req, m.out)
        /\ k = "browse" => m.out # Fail

(* What LocalFileFetcher._read returns matches the hash it was asked for.      *)
LEMMA ReadIsChecked ==
    ASSUME NEW r, NEW w, w.hash = entry[r].hash
    PROVE  Checked(r, Read(target[r], w))
  BY DEF Read, Checked

(* Steps that post.                                                           *)
LEMMA WirePosts == Kinds /\ [Next]_vars => (\A z \in wire' : z \in wire \/ Posts(z))
<1> SUFFICES ASSUME Kinds, [Next]_vars PROVE (\A z \in wire' : z \in wire \/ Posts(z))
  OBVIOUS
<1>1. CASE UNCHANGED <<wire>>
  BY <1>1 DEF Kinds
<1>2. ASSUME NEW k \in Kind, NEW h \in Host, Verify(k, h)
      PROVE  (\A z \in wire' : z \in wire \/ Posts(z))
  <2>1. agent[k][h] # Idle
    BY <1>2 DEF Verify, Idle
  <2>2. \/ wire' = wire
        \/ wire' = wire \cup {[req |-> agent[k][h].req, from |-> h,
               out |-> IF k = "preview" THEN Fail ELSE "refused"]}
    BY <1>2 DEF Verify, Answer
  <2>3. Posts([req |-> agent[k][h].req, from |-> h,
      out |-> IF k = "preview" THEN Fail ELSE "refused"])
    BY <2>1 DEF Posts, Checked, Fail
  <2> QED
    BY <2>2, <2>3
<1>3. ASSUME NEW h \in Host, ServeFile(h) PROVE (\A z \in wire' : z \in wire \/ Posts(z))
  <2> DEFINE r == agent["preview"][h].req
  <2> DEFINE want == [inode |-> entry[r].inode, hash |-> entry[r].hash]
  <2> DEFINE z == [req |-> r, from |-> h, out |-> Read(target[r], want)]
  <2>1. agent["preview"][h] # Idle
    BY <1>3 DEF ServeFile, Idle
  <2>2. wire' = wire \cup {z}
    BY <1>3 DEF ServeFile, Answer, FileGrant
  <2>3. Checked(r, Read(target[r], want))
    BY ReadIsChecked
  <2>4. "preview" \in Kind
    BY DEF Kind
  <2>5. Posts(z)
    BY <2>1, <2>3, <2>4 DEF Posts
  <2> QED
    BY <2>2, <2>5
<1>4. ASSUME NEW h \in Host, ListDirectory(h) PROVE (\A z \in wire' : z \in wire \/ Posts(z))
  <2> DEFINE z == [req |-> agent["browse"][h].req, from |-> h, out |-> "listing"]
  <2>1. agent["browse"][h] # Idle
    BY <1>4 DEF ListDirectory, Idle
  <2>2. wire' = wire \cup {z}
    BY <1>4 DEF ListDirectory, Answer, list_directory
  <2>3. "browse" \in Kind
    BY DEF Kind
  <2>4. Posts(z)
    BY <2>1, <2>3 DEF Posts, Fail
  <2> QED
    BY <2>2, <2>4
<1>5. ASSUME NEW m \in wire, ServePost(m) PROVE (\A z \in wire' : z \in wire \/ Posts(z))
  BY <1>5 DEF ServePost
<1>6. ASSUME NEW m \in wire, BrowsePost(m) PROVE (\A z \in wire' : z \in wire \/ Posts(z))
  BY <1>6 DEF BrowsePost
<1>7. ASSUME NEW m \in wire, LosePost(m) PROVE (\A z \in wire' : z \in wire \/ Posts(z))
  BY <1>7 DEF LosePost
<1>8. \/ UNCHANGED <<wire>>
      \/ \E k \in Kind, h \in Host : Verify(k, h)
      \/ \E h \in Host : ServeFile(h) \/ ListDirectory(h)
      \/ \E m \in wire : ServePost(m) \/ BrowsePost(m) \/ LosePost(m)
  BY DEF Next, CoreStep, run_preview_serve, run_browse_serve, ServeLoop, Environment, Refuse,
      ResolveEntry, BrowseDirectory, Expire, Submit, CacheHit, CacheMiss, ReadLocally,
      FetchReturns, FetchTimesOut, RenderFails, Render, RecordCacheMeta, Serve,
      BrowseReturns, BrowseFails, Poll, PollDropsExpired, Replay, AgentCrash, Write,
      Rescan, CoreCrash, Finished, vars, core, rendezvous, remote, world, Kind
<1> QED
  BY <1>1, <1>2, <1>3, <1>4, <1>5, <1>6, <1>7, <1>8

(* A future is resolved by a post, failed by a poll that dropped the expired   *)
(* request, or forgotten.                                                      *)
FutureMove(u) ==
    \/ future'[u] \in {future[u], None}
    \/ /\ future'[u] = Fail /\ u \in expired
       /\ \E k \in Kind, h \in Host : queue[k][h] # <<>> /\ u = Head(queue[k][h])
    \/ \E m \in wire : m.req = u /\ future'[u] = m.out

(* Steps that resolve or forget a wait.                                       *)
LEMMA FutureMoves == Types /\ [Next]_vars => (\A u \in Req : FutureMove(u))
<1> SUFFICES ASSUME Types, [Next]_vars PROVE (\A u \in Req : FutureMove(u))
  OBVIOUS
<1>1. CASE UNCHANGED <<future>>
  BY <1>1 DEF FutureMove
<1>2. ASSUME NEW r \in Req, FetchReturns(r) PROVE (\A u \in Req : FutureMove(u))
  <2>1. future' = [future EXCEPT ![r] = None]
    BY <1>2 DEF FetchReturns, Forget
  <2> QED
    BY <2>1 DEF Types, FutureMove
<1>3. ASSUME NEW r \in Req, FetchTimesOut(r) PROVE (\A u \in Req : FutureMove(u))
  <2>1. future' = [future EXCEPT ![r] = None]
    BY <1>3 DEF FetchTimesOut, Forget
  <2> QED
    BY <2>1 DEF Types, FutureMove
<1>4. ASSUME NEW r \in Req, BrowseReturns(r) PROVE (\A u \in Req : FutureMove(u))
  <2>1. future' = [future EXCEPT ![r] = None]
    BY <1>4 DEF BrowseReturns, Forget
  <2> QED
    BY <2>1 DEF Types, FutureMove
<1>5. ASSUME NEW r \in Req, BrowseFails(r) PROVE (\A u \in Req : FutureMove(u))
  <2>1. future' = [future EXCEPT ![r] = None]
    BY <1>5 DEF BrowseFails, Forget
  <2> QED
    BY <2>1 DEF Types, FutureMove
<1>6. ASSUME NEW k \in Kind, NEW h \in Host, PollDropsExpired(k, h)
      PROVE  (\A u \in Req : FutureMove(u))
  <2>1. /\ queue[k][h] # <<>> /\ Head(queue[k][h]) \in expired
        /\ future' = future \/ future' = [future EXCEPT ![Head(queue[k][h])] = Fail]
    BY <1>6 DEF PollDropsExpired
  <2> QED
    BY <2>1 DEF Types, FutureMove
<1>7. ASSUME NEW m \in wire, ServePost(m) PROVE (\A u \in Req : FutureMove(u))
  <2>1. future' = future \/ future' = [future EXCEPT ![m.req] = m.out]
    BY <1>7 DEF ServePost, Resolve
  <2> QED
    BY <2>1 DEF Types, FutureMove
<1>8. ASSUME NEW m \in wire, BrowsePost(m) PROVE (\A u \in Req : FutureMove(u))
  <2>1. future' = future \/ future' = [future EXCEPT ![m.req] = m.out]
    BY <1>8 DEF BrowsePost, Resolve
  <2> QED
    BY <2>1 DEF Types, FutureMove
<1>9. ASSUME CoreCrash PROVE (\A u \in Req : FutureMove(u))
  BY <1>9 DEF CoreCrash, FutureMove
<1>10. \/ UNCHANGED <<future>>
       \/ \E r \in Req : FetchReturns(r) \/ FetchTimesOut(r) \/ BrowseReturns(r)
                         \/ BrowseFails(r)
       \/ \E k \in Kind, h \in Host : PollDropsExpired(k, h)
       \/ \E m \in wire : ServePost(m) \/ BrowsePost(m)
       \/ CoreCrash
  BY DEF Next, CoreStep, run_preview_serve, run_browse_serve, ServeLoop, Environment, Refuse,
      ResolveEntry, BrowseDirectory, Expire, Submit, CacheHit, CacheMiss, ReadLocally,
      RenderFails, Render, RecordCacheMeta, Serve, Poll, Verify, ServeFile,
      ListDirectory, LosePost, Replay, AgentCrash, Write, Rescan, Finished, vars,
      core, rendezvous, remote, world, Kind, EnqueueFor
<1> QED
  BY <1>1, <1>2, <1>3, <1>4, <1>5, <1>6, <1>7, <1>8, <1>9, <1>10

(* What was on the wire was at the head of a queue.                           *)
LEMMA SeenMoves == [Next]_vars => (\A z \in seen' : z \in seen \/ \E u \in Kind,
    v \in Host : queue[u][v] # <<>> /\ z = Head(queue[u][v]))
<1> SUFFICES ASSUME [Next]_vars PROVE (\A z \in seen' : z \in seen \/ \E u \in Kind,
    v \in Host : queue[u][v] # <<>> /\ z = Head(queue[u][v]))
  OBVIOUS
<1>1. CASE UNCHANGED <<seen>>
  BY <1>1 DEF vars
<1>2. ASSUME NEW k \in Kind, NEW h \in Host, Poll(k, h)
      PROVE  (\A z \in seen' : z \in seen \/ \E u \in Kind,
        v \in Host : queue[u][v] # <<>> /\ z = Head(queue[u][v]))
  <2>1. queue[k][h] # <<>> /\ seen' = seen \cup {Head(queue[k][h])}
    BY <1>2 DEF Poll
  <2> QED
    BY <2>1
<1>3. \/ UNCHANGED <<seen>>
      \/ \E k \in Kind, h \in Host : Poll(k, h)
  BY DEF Next, CoreStep, run_preview_serve, run_browse_serve, ServeLoop, Environment, Refuse,
      ResolveEntry, BrowseDirectory, Expire, Submit, CacheHit, CacheMiss, ReadLocally,
      FetchReturns, FetchTimesOut, RenderFails, Render, RecordCacheMeta, Serve,
      BrowseReturns, BrowseFails, PollDropsExpired, Verify, ServeFile, ListDirectory,
      ServePost, BrowsePost, LosePost, Replay, AgentCrash, Write, Rescan,
      CoreCrash, Finished, vars, core, rendezvous, remote, world, Kind
<1> QED
  BY <1>1, <1>2, <1>3

-----------------------------------------------------------------------------
(* The next grant of a queue is of its kind and was enqueued by its request.   *)
LEMMA HeadIsStarted ==
    ASSUME Kinds, Started, NEW k \in Kind, NEW h \in Host, queue[k][h] # <<>>
    PROVE  Head(queue[k][h]) \in OfKind(k) /\ pc[Head(queue[k][h])] # "new"
<1>1. queue[k][h] \in Seq(OfKind(k))
  BY DEF Kinds
<1>2. PICK q \in Seq(OfKind(k)) : q = queue[k][h] /\ q # <<>>
  BY <1>1
<1>3. Head(q) = q[1] /\ 1 \in 1..Len(q) /\ Head(q) \in OfKind(k)
  BY <1>2
<1>4. pc[q[1]] # "new"
  BY <1>2, <1>3 DEF Started
<1> QED
  BY <1>2, <1>3, <1>4

(* A post belongs to a started request of its kind.                            *)
LEMMA PostIsStarted ==
    ASSUME Kinds, Started, NEW m, Posts(m)
    PROVE  /\ m.req \in Req /\ pc[m.req] # "new"
           /\ m.req \in Preview => Checked(m.req, m.out)
           /\ m.req \in Browse => m.out # Fail
<1>1. PICK k \in Kind, h \in Host :
        /\ agent[k][h] # Idle /\ m.req = agent[k][h].req
        /\ k = "preview" => Checked(m.req, m.out)
        /\ k = "browse" => m.out # Fail
  BY DEF Posts
<1>2. agent[k][h] \in Loop(k)
  BY DEF Kinds
<1>3. m.req \in OfKind(k)
  BY <1>1, <1>2 DEF Loop
<1>4. pc[m.req] # "new"
  BY <1>1 DEF Started
<1> QED
  BY <1>1, <1>3, <1>4, PullConstants DEF OfKind, Kind, Req

(* Only a started request has an answer.                                       *)
LEMMA FutureIsStarted ==
    ASSUME Types, Kinds, Started, [Next]_vars, NEW u \in Req, future'[u] # None
    PROVE  pc[u] # "new"
<1>1. FutureMove(u)
  BY FutureMoves
<1>2. CASE future'[u] = future[u]
  BY <1>2 DEF Started
<1>3. ASSUME NEW k \in Kind, NEW h \in Host, queue[k][h] # <<>>, u = Head(queue[k][h])
      PROVE  pc[u] # "new"
  BY <1>3, HeadIsStarted
<1>4. ASSUME NEW m \in wire, m.req = u PROVE pc[u] # "new"
  BY <1>4 DEF Started
<1> QED
  BY <1>1, <1>2, <1>3, <1>4 DEF FutureMove

(* Requests of one kind stay in the queues and loops of that kind.             *)
LEMMA KindsStep == Types /\ Kinds /\ Started /\ [Next]_vars => Kinds'
<1> SUFFICES ASSUME Types, Kinds, Started, [Next]_vars PROVE Kinds'
  OBVIOUS
<1>1. ASSUME NEW u \in Kind, NEW v \in Host PROVE queue'[u][v] \in Seq(OfKind(u))
  <2>1. QueueMove(u, v)
    BY QueueMoves DEF QueuesMove
  <2>2. PICK q \in Seq(OfKind(u)) : q = queue[u][v]
    BY DEF Kinds
  <2>3. q # <<>> => Tail(q) \in Seq(OfKind(u))
    BY HeadTailProperties
  <2>4. <<>> \in Seq(OfKind(u)) /\ \A r \in OfKind(u) : Append(q, r) \in Seq(OfKind(u))
    OBVIOUS
  <2> QED
    BY <2>1, <2>2, <2>3, <2>4 DEF QueueMove
<1>2. ASSUME NEW u \in Kind, NEW v \in Host PROVE agent'[u][v] \in Loop(u)
  <2>1. LoopMove(u, v) /\ agent[u][v] \in Loop(u)
    BY LoopMoves DEF Kinds, LoopsMove
  <2>2. CASE Claims(u, v)
    BY <2>2 DEF Claims, Loop
  <2>3. CASE Verifies(u, v)
    <3>1. agent[u][v].req \in OfKind(u)
      BY <2>1, <2>3 DEF Loop, Verifies
    <3> QED
      BY <2>3, <3>1 DEF Verifies, Loop
  <2> QED
    BY <2>1, <2>2, <2>3 DEF LoopMove, Loop
<1>3. ASSUME NEW z \in seen' PROVE z \in Req
  <2>1. CASE z \in seen
    BY <2>1 DEF Kinds
  <2>2. ASSUME NEW u \in Kind, NEW v \in Host, queue[u][v] # <<>>, z = Head(queue[u][v])
        PROVE  z \in Req
    BY <2>2, HeadIsStarted, KindsApart
  <2> QED
    BY <2>1, <2>2, SeenMoves
<1>4. \A m \in wire' : m.req \in Req
  BY WirePosts, PostIsStarted DEF Kinds
<1>5. /\ queue' = [u \in Kind |-> [v \in Host |-> queue'[u][v]]]
      /\ agent' = [u \in Kind |-> [v \in Host |-> agent'[u][v]]]
  BY QueueMoves, LoopMoves DEF QueuesMove, LoopsMove
<1> QED
  BY <1>1, <1>2, <1>3, <1>4, <1>5 DEF Kinds

(* A request resolves its entry before anything is sent for it.                *)
LEMMA StartedStep == Types /\ Kinds /\ Started /\ [Next]_vars => Started'
<1> SUFFICES ASSUME Types, Kinds, Started, [Next]_vars PROVE Started'
  OBVIOUS
<1>1. \A u \in Req : pc[u] # "new" => pc'[u] # "new"
  BY RequestsGoOn DEF GoesOn
<1>2. ASSUME NEW u \in Kind, NEW v \in Host, NEW n \in 1..Len(queue'[u][v])
      PROVE  pc'[queue'[u][v][n]] # "new"
  <2>1. QueueMove(u, v)
    BY QueueMoves DEF QueuesMove
  <2>2. PICK q \in Seq(OfKind(u)) : q = queue[u][v]
    BY DEF Kinds
  <2>3. \A i \in 1..Len(q) : q[i] \in Req /\ pc[q[i]] # "new"
    BY <2>2, KindsApart DEF Started
  <2>4. CASE queue'[u][v] = q
    BY <1>1, <2>3, <2>4
  <2>5. CASE q # <<>> /\ queue'[u][v] = Tail(q)
    <3>1. n + 1 \in 1..Len(q) /\ Tail(q)[n] = q[n + 1]
      BY <2>2, <2>5
    <3> QED
      BY <1>1, <2>3, <2>5, <3>1
  <2>6. CASE queue'[u][v] = <<>>
    BY <2>6
  <2>7. ASSUME NEW r \in OfKind(u), pc'[r] # "new", queue'[u][v] = Append(q, r)
        PROVE  pc'[queue'[u][v][n]] # "new"
    <3>1. Append(q, r)[n] = r \/ (n \in 1..Len(q) /\ Append(q, r)[n] = q[n])
      BY <2>2, <2>7
    <3> QED
      BY <1>1, <2>3, <2>7, <3>1
  <2> QED
    BY <2>1, <2>2, <2>4, <2>5, <2>6, <2>7 DEF QueueMove
<1>3. ASSUME NEW z \in seen' PROVE z \in Req /\ pc'[z] # "new"
  <2>1. CASE z \in seen
    BY <1>1, <2>1 DEF Kinds, Started
  <2>2. ASSUME NEW u \in Kind, NEW v \in Host, queue[u][v] # <<>>, z = Head(queue[u][v])
        PROVE  z \in Req /\ pc'[z] # "new"
    BY <1>1, <2>2, HeadIsStarted, KindsApart
  <2> QED
    BY <2>1, <2>2, SeenMoves
<1>4. ASSUME NEW u \in Kind, NEW v \in Host, agent'[u][v] # Idle
      PROVE  pc'[agent'[u][v].req] # "new"
  <2>1. LoopMove(u, v) /\ agent[u][v] \in Loop(u)
    BY LoopMoves DEF Kinds, LoopsMove
  <2>2. agent[u][v] # Idle => agent[u][v].req \in Req /\ pc[agent[u][v].req] # "new"
    BY <2>1, KindsApart DEF Loop, Started
  <2>3. CASE Claims(u, v)
    BY <1>3, <2>3 DEF Claims
  <2>4. CASE Verifies(u, v)
    BY <1>1, <2>2, <2>4 DEF Verifies
  <2>5. CASE agent'[u][v] = agent[u][v]
    BY <1>1, <1>4, <2>2, <2>5
  <2> QED
    BY <1>4, <2>1, <2>3, <2>4, <2>5 DEF LoopMove
<1>5. \A m \in wire' : pc'[m.req] # "new"
  BY <1>1, WirePosts, PostIsStarted DEF Kinds, Started
<1>6. ASSUME NEW u \in Req, future'[u] # None PROVE pc'[u] # "new"
  BY <1>1, <1>6, FutureIsStarted
<1> QED
  BY <1>2, <1>3, <1>4, <1>5, <1>6 DEF Started

(* Bytes that reach the core were checked against the hash it resolved.        *)
LEMMA BytesAreCheckedStep ==
    Types /\ Kinds /\ Started /\ BytesAreChecked /\ [Next]_vars => BytesAreChecked'
<1> SUFFICES ASSUME Types, Kinds, Started, BytesAreChecked, [Next]_vars PROVE BytesAreChecked'
  OBVIOUS
<1>1. ASSUME NEW u \in Preview, pc[u] # "new", NEW b, Checked(u, b) PROVE Checked(u, b)'
  BY <1>1, EntriesAreFixed DEF Checked
<1>2. ASSUME NEW m \in wire', m.req \in Preview PROVE Checked(m.req, m.out)'
  <2>1. Checked(m.req, m.out) /\ pc[m.req] # "new"
    BY <1>2, WirePosts, PostIsStarted DEF BytesAreChecked, Started
  <2> QED
    BY <1>2, <2>1, <1>1
<1>3. ASSUME NEW u \in Preview, future'[u] # None PROVE Checked(u, future'[u])
  <2>1. FutureMove(u)
    BY FutureMoves DEF Req
  <2> QED
    BY <1>3, <2>1 DEF FutureMove, BytesAreChecked, Checked
<1>4. ASSUME NEW u \in Preview, future'[u] # None PROVE pc[u] # "new"
  BY <1>4, FutureIsStarted DEF Req
<1>5. ASSUME NEW u \in Preview, future'[u] # None PROVE Checked(u, future[u])'
  <2>1. entry'[u] = entry[u]
    BY <1>4, <1>5, EntriesAreFixed
  <2> QED
    BY <1>3, <1>5, <2>1 DEF Checked
<1> QED
  BY <1>2, <1>5 DEF BytesAreChecked

(* The wait and the grant expire together.                                     *)
LEMMA GaveUpStep == Types /\ Kinds /\ Started /\ GaveUp /\ [Next]_vars => GaveUp'
<1> SUFFICES ASSUME Types, Kinds, Started, GaveUp, [Next]_vars PROVE GaveUp'
  OBVIOUS
<1>1. expired \subseteq expired'
  <2>1. UNCHANGED expired \/ \E r \in Req : Expire(r)
    BY DEF Next, CoreStep, run_preview_serve, run_browse_serve, ServeLoop, Environment, Refuse,
           ResolveEntry, BrowseDirectory, Submit, CacheHit, CacheMiss, ReadLocally,
           FetchReturns, FetchTimesOut, RenderFails, Render, RecordCacheMeta, Serve,
           BrowseReturns, BrowseFails, Poll, PollDropsExpired, Verify, ServeFile,
           ListDirectory, ServePost, BrowsePost, LosePost, Replay, AgentCrash, Write, Rescan,
           CoreCrash, Finished, vars
  <2> QED
    BY <2>1 DEF Expire
<1>2. \A r \in Req : pc'[r] = "timeout" => r \in expired'
  BY <1>1, RequestsGoOn DEF GoesOn, GaveUp
<1>3. \A m \in wire' : m.req \in Browse => m.out # Fail
  BY WirePosts, PostIsStarted DEF GaveUp
<1>4. ASSUME NEW r \in Browse, future'[r] = Fail PROVE r \in expired'
  <2>1. FutureMove(r)
    BY FutureMoves DEF Req
  <2> QED
    BY <1>1, <1>4, <2>1 DEF FutureMove, GaveUp, Fail, None
<1> QED
  BY <1>2, <1>3, <1>4 DEF GaveUp

-----------------------------------------------------------------------------
(* Taking an entry out of the cache leaves the others.                         *)
LEMMA WithoutIsFaithful ==
    ASSUME CacheIsFaithful, NEW key PROVE Without(key) \in Seq(Faithful)
<1> DEFINE at == {n \in DOMAIN cache : cache[n].key = key}
<1>1. CASE at = {}
  BY <1>1 DEF Without, CacheIsFaithful
<1>2. CASE at # {}
  <2>1. PICK n : n = CHOOSE i \in at : TRUE
    OBVIOUS
  <2>2. n \in 1..Len(cache)
    BY <1>2, <2>1 DEF CacheIsFaithful
  <2>3. Without(key) = SubSeq(cache, 1, n - 1) \o SubSeq(cache, n + 1, Len(cache))
    BY <1>2, <2>1 DEF Without, RemoveAt
  <2>4. \A i \in 1..Len(cache) : cache[i] \in Faithful
    BY DEF CacheIsFaithful
  <2>5. Len(cache) \in Nat
    BY DEF CacheIsFaithful
  <2>6. SubSeq(cache, 1, n - 1) \in Seq(Faithful)
    BY <2>2, <2>4, <2>5, SubSeqProperties
  <2>7. SubSeq(cache, n + 1, Len(cache)) \in Seq(Faithful)
    BY <2>2, <2>4, <2>5, SubSeqProperties
  <2> QED
    BY <2>3, <2>6, <2>7, ConcatProperties
<1> QED
  BY <1>1, <1>2

(* A hit is an artifact of the content that was asked for.                     *)
LEMMA HitIsFaithful ==
    ASSUME CacheIsFaithful, NEW key, NEW x \in Cached(key)
    PROVE  x \in Faithful /\ x.art = key
<1>1. x \in ToSet(cache) /\ x.key = key
  BY DEF Cached
<1>2. x \in Faithful
  BY <1>1 DEF ToSet, CacheIsFaithful
<1> QED
  BY <1>1, <1>2 DEF Faithful

(* The cache keeps a rendering only under the hash of what was rendered.      *)
LEMMA CacheIsFaithfulStep ==
    Types /\ ShowsItsHash /\ CacheIsFaithful /\ [Next]_vars => CacheIsFaithful'
<1> SUFFICES ASSUME Types, ShowsItsHash, CacheIsFaithful, [Next]_vars PROVE CacheIsFaithful'
  OBVIOUS
<1>1. CASE UNCHANGED <<cache>>
  BY <1>1 DEF CacheIsFaithful
<1>2. ASSUME NEW r \in Req, CacheHit(r) PROVE CacheIsFaithful'
  <2>1. PICK x \in Cached(entry[r].hash) : cache' = Append(Without(x.key), x)
    BY <1>2 DEF CacheHit
  <2>2. x \in Faithful /\ Without(x.key) \in Seq(Faithful)
    BY HitIsFaithful, WithoutIsFaithful
  <2> QED
    BY <2>1, <2>2 DEF CacheIsFaithful
<1>3. ASSUME NEW r \in Req, CacheMiss(r) PROVE CacheIsFaithful'
  <2>1. cache' = Without(entry[r].hash)
    BY <1>3 DEF CacheMiss
  <2> QED
    BY <2>1, WithoutIsFaithful DEF CacheIsFaithful
<1>4. ASSUME NEW r \in Req, Render(r) PROVE CacheIsFaithful'
  <2>1. r \in Preview /\ pc[r] = "render"
    BY <1>4 DEF Render
  <2>2. cache' = cache \/ (entry[r].hash # None /\ cache' = Put(entry[r].hash, got[r]))
    BY <1>4 DEF Render
  <2>3. CASE entry[r].hash # None /\ cache' = Put(entry[r].hash, got[r])
    <3>1. entry[r].hash \in Content /\ got[r] = entry[r].hash
      BY <2>1, <2>3 DEF Types, Row, ShowsItsHash
    <3>2. PICK x \in Faithful : x = [key |-> entry[r].hash, art |-> got[r]]
      BY <3>1 DEF Faithful
    <3>3. PICK w \in Seq(Faithful) : w = Without(entry[r].hash)
      BY WithoutIsFaithful
    <3>4. PICK more \in Seq(Faithful) : more = Append(w, x) /\ more # <<>>
      BY AppendProperties
    <3>5. cache' \in {more, Tail(more)}
      BY <2>3, <3>2, <3>3, <3>4 DEF Put
    <3>6. Tail(more) \in Seq(Faithful)
      BY <3>4, HeadTailProperties
    <3>7. CacheIsFaithful'
      BY <3>5, <3>6 DEF CacheIsFaithful
    <3> QED
      BY <3>1, <3>2, <3>3, <3>4, <3>5, <3>6, <3>7
  <2> QED
    BY <2>2, <2>3 DEF CacheIsFaithful
<1>5. ASSUME CoreCrash PROVE CacheIsFaithful'
  <2>1. cache' = <<>>
    BY <1>5 DEF CoreCrash
  <2> QED
    BY <2>1 DEF CacheIsFaithful
<1>6. \/ UNCHANGED <<cache>>
      \/ \E r \in Req : CacheHit(r) \/ CacheMiss(r) \/ Render(r)
      \/ CoreCrash
  BY DEF Next, CoreStep, run_preview_serve, run_browse_serve, ServeLoop, Environment, Refuse,
      ResolveEntry, BrowseDirectory, Expire, Submit, ReadLocally, FetchReturns,
      FetchTimesOut, RenderFails, RecordCacheMeta, Serve, BrowseReturns, BrowseFails,
      Poll, PollDropsExpired, Verify, ServeFile, ListDirectory, ServePost,
      BrowsePost, LosePost, Replay, AgentCrash, Write, Rescan, Finished, vars,
      core, rendezvous, remote, world, Kind
<1> QED
  BY <1>1, <1>2, <1>3, <1>4, <1>5, <1>6

(* Bytes that PreviewService.render takes are the content that was asked for.  *)
LEMMA TakenIsChecked ==
    ASSUME Types, ShowsItsHash, NEW r \in Preview, NEW bytes, Checked(r, bytes), Take(r, bytes),
           UNCHANGED entry
    PROVE  ShowsItsHash'
<1>1. \/ pc' = [pc EXCEPT ![r] = "failed"] /\ got' = got
      \/ /\ pc' = [pc EXCEPT ![r] = "render"] /\ got' = [got EXCEPT ![r] = bytes]
         /\ entry[r].hash = None \/ bytes = entry[r].hash
  BY DEF Take, Checked
<1>2. \A u \in Preview \ {r} : pc'[u] = pc[u] /\ got'[u] = got[u]
  BY <1>1 DEF Types, Req
<1>3. pc'[r] = "failed" \/ entry[r].hash = None \/ got'[r] = entry[r].hash
  BY <1>1 DEF Types, Req
<1> QED
  BY <1>2, <1>3 DEF ShowsItsHash

(* From the read to the answer a preview keeps the bytes that were checked.   *)
LEMMA ShowsItsHashStep == Types /\ CacheIsFaithful /\ BytesAreChecked /\ ShowsItsHash
    /\ [Next]_vars => ShowsItsHash'
<1> SUFFICES ASSUME Types, CacheIsFaithful, BytesAreChecked, ShowsItsHash, [Next]_vars
             PROVE  ShowsItsHash'
  OBVIOUS
<1>1. CASE UNCHANGED <<pc, entry, got>>
  BY <1>1 DEF ShowsItsHash
<1>2. ASSUME NEW r \in Req, Refuse(r) PROVE ShowsItsHash'
  <2>1. \E to \in {"failed"} : pc' = [pc EXCEPT ![r] = to]
    BY <1>2 DEF Refuse
  <2>2. UNCHANGED <<entry, got>>
    BY <1>2 DEF Refuse, core, rendezvous, remote, world
  <2> QED
    BY <2>1, <2>2 DEF Types, Req, ShowsItsHash
<1>3. ASSUME NEW r \in Req, ResolveEntry(r) PROVE ShowsItsHash'
  <2>1. \E to \in {"slot"} : pc' = [pc EXCEPT ![r] = to]
    BY <1>3 DEF ResolveEntry
  <2>2. UNCHANGED <<got>>
    BY <1>3 DEF ResolveEntry, core, rendezvous, remote, world
  <2>3. \A u \in Preview \ {r} : entry'[u] = entry[u]
    BY <1>3 DEF ResolveEntry, Types
  <2> QED
    BY <2>1, <2>2, <2>3 DEF Types, Req, ShowsItsHash
<1>4. ASSUME NEW r \in Req, BrowseDirectory(r) PROVE ShowsItsHash'
  <2>1. \E to \in {"await"} : pc' = [pc EXCEPT ![r] = to]
    BY <1>4 DEF BrowseDirectory
  <2>2. UNCHANGED <<entry, got>>
    BY <1>4 DEF BrowseDirectory, core, rendezvous, remote, world
  <2> QED
    BY <2>1, <2>2 DEF Types, Req, ShowsItsHash
<1>5. ASSUME NEW r \in Req, Submit(r) PROVE ShowsItsHash'
  <2>1. \E to \in {"lookup", "failed"} : pc' = [pc EXCEPT ![r] = to]
    BY <1>5 DEF Submit
  <2>2. UNCHANGED <<entry, got>>
    BY <1>5 DEF Submit, core, rendezvous, remote, world
  <2> QED
    BY <2>1, <2>2 DEF Types, Req, ShowsItsHash
<1>6. ASSUME NEW r \in Req, CacheHit(r) PROVE ShowsItsHash'
  <2>1. r \in Preview /\ UNCHANGED entry
    BY <1>6 DEF CacheHit
  <2>2. PICK x \in Cached(entry[r].hash) : got' = [got EXCEPT ![r] = x.art]
    BY <1>6 DEF CacheHit
  <2>3. x.art = entry[r].hash
    BY HitIsFaithful
  <2>4. got'[r] = entry[r].hash /\ \A u \in Preview \ {r} : got'[u] = got[u]
    BY <2>1, <2>2, <2>3 DEF Types
  <2>5. \E to \in {"record"} : pc' = [pc EXCEPT ![r] = to]
    BY <1>6 DEF CacheHit
  <2>6. \A u \in Preview \ {r} : pc'[u] = pc[u]
    BY <2>5 DEF Types, Req
  <2> QED
    BY <2>1, <2>4, <2>6 DEF ShowsItsHash
<1>7. ASSUME NEW r \in Req, CacheMiss(r) PROVE ShowsItsHash'
  <2>1. \E to \in {"read", "await"} : pc' = [pc EXCEPT ![r] = to]
    BY <1>7 DEF CacheMiss
  <2>2. UNCHANGED <<entry, got>>
    BY <1>7 DEF CacheMiss, EnqueueFor, core, rendezvous, remote, world
  <2> QED
    BY <2>1, <2>2 DEF Types, Req, ShowsItsHash
<1>8. ASSUME NEW r \in Req, ReadLocally(r) PROVE ShowsItsHash'
  <2>1. r \in Preview /\ UNCHANGED entry /\ Take(r, Read(target[r], entry[r]))
    BY <1>8 DEF ReadLocally
  <2>2. Checked(r, Read(target[r], entry[r]))
    BY ReadIsChecked
  <2> QED
    BY <2>1, <2>2, TakenIsChecked
<1>9. ASSUME NEW r \in Req, FetchReturns(r) PROVE ShowsItsHash'
  <2>1. r \in Preview /\ UNCHANGED entry /\ future[r] # None /\ Take(r, future[r])
    BY <1>9 DEF FetchReturns
  <2>2. Checked(r, future[r])
    BY <2>1 DEF BytesAreChecked
  <2> QED
    BY <2>1, <2>2, TakenIsChecked
<1>10. ASSUME NEW r \in Req, FetchTimesOut(r) PROVE ShowsItsHash'
  <2>1. \E to \in {"timeout"} : pc' = [pc EXCEPT ![r] = to]
    BY <1>10 DEF FetchTimesOut
  <2>2. UNCHANGED <<entry, got>>
    BY <1>10 DEF FetchTimesOut, core, rendezvous, remote, world
  <2> QED
    BY <2>1, <2>2 DEF Types, Req, ShowsItsHash
<1>11. ASSUME NEW r \in Req, RenderFails(r) PROVE ShowsItsHash'
  <2>1. \E to \in {"failed"} : pc' = [pc EXCEPT ![r] = to]
    BY <1>11 DEF RenderFails
  <2>2. UNCHANGED <<entry, got>>
    BY <1>11 DEF RenderFails, core, rendezvous, remote, world
  <2> QED
    BY <2>1, <2>2 DEF Types, Req, ShowsItsHash
<1>12. ASSUME NEW r \in Req, Render(r) PROVE ShowsItsHash'
  <2>1. \E to \in {"record"} : pc' = [pc EXCEPT ![r] = to]
    BY <1>12 DEF Render
  <2>2. UNCHANGED <<entry, got>>
    BY <1>12 DEF Render, core, rendezvous, remote, world
  <2>3. pc[r] \in {"render", "record", "flush"}
    BY <1>12 DEF Render
  <2> QED
    BY <2>1, <2>2, <2>3 DEF Types, Req, ShowsItsHash
<1>13. ASSUME NEW r \in Req, RecordCacheMeta(r) PROVE ShowsItsHash'
  <2>1. \E to \in {"flush"} : pc' = [pc EXCEPT ![r] = to]
    BY <1>13 DEF RecordCacheMeta
  <2>2. UNCHANGED <<entry, got>>
    BY <1>13 DEF RecordCacheMeta, core, rendezvous, remote, world
  <2>3. pc[r] \in {"render", "record", "flush"}
    BY <1>13 DEF RecordCacheMeta
  <2> QED
    BY <2>1, <2>2, <2>3 DEF Types, Req, ShowsItsHash
<1>14. ASSUME NEW r \in Req, Serve(r) PROVE ShowsItsHash'
  <2>1. \E to \in {"served", "failed"} : pc' = [pc EXCEPT ![r] = to]
    BY <1>14 DEF Serve
  <2>2. UNCHANGED <<entry, got>>
    BY <1>14 DEF Serve, core, rendezvous, remote, world
  <2>3. pc[r] \in {"render", "record", "flush"}
    BY <1>14 DEF Serve
  <2> QED
    BY <2>1, <2>2, <2>3 DEF Types, Req, ShowsItsHash
<1>15. ASSUME NEW r \in Req, BrowseReturns(r) PROVE ShowsItsHash'
  <2>1. \E to \in {"served"} : pc' = [pc EXCEPT ![r] = to]
    BY <1>15 DEF BrowseReturns
  <2>2. UNCHANGED <<entry, got>>
    BY <1>15 DEF BrowseReturns, core, rendezvous, remote, world
  <2>3. r \notin Preview
    BY <1>15, PullConstants DEF BrowseReturns
  <2> QED
    BY <2>1, <2>2, <2>3 DEF Types, Req, ShowsItsHash
<1>16. ASSUME NEW r \in Req, BrowseFails(r) PROVE ShowsItsHash'
  <2>1. \E to \in {"timeout"} : pc' = [pc EXCEPT ![r] = to]
    BY <1>16 DEF BrowseFails
  <2>2. UNCHANGED <<entry, got>>
    BY <1>16 DEF BrowseFails, core, rendezvous, remote, world
  <2> QED
    BY <2>1, <2>2 DEF Types, Req, ShowsItsHash
<1>17. ASSUME CoreCrash PROVE ShowsItsHash'
  <2>1. UNCHANGED <<entry, got>>
    BY <1>17 DEF CoreCrash, core, rendezvous, remote, world
  <2>2. \A u \in Req : pc'[u] = pc[u] \/ pc'[u] = "failed"
    BY <1>17 DEF CoreCrash
  <2> QED
    BY <2>1, <2>2 DEF Req, ShowsItsHash
<1>18. \/ UNCHANGED <<pc, entry, got>>
       \/ \E r \in Req : Refuse(r) \/ ResolveEntry(r) \/ BrowseDirectory(r) \/ Submit(r)
                         \/ CacheHit(r) \/ CacheMiss(r) \/ ReadLocally(r) \/ FetchReturns(r)
                         \/ FetchTimesOut(r) \/ RenderFails(r) \/ Render(r)
                         \/ RecordCacheMeta(r) \/ Serve(r) \/ BrowseReturns(r) \/ BrowseFails(r)
       \/ CoreCrash
  BY DEF Next, CoreStep, run_preview_serve, run_browse_serve, ServeLoop, Environment, Expire,
      Poll, PollDropsExpired, Verify, ServeFile, ListDirectory, ServePost, BrowsePost,
      LosePost, Replay, AgentCrash, Write, Rescan, Finished, vars, core, rendezvous,
      remote, world, Kind
<1> QED
  BY <1>1, <1>2, <1>3, <1>4, <1>5, <1>6, <1>7, <1>8, <1>9, <1>10, <1>11, <1>12, <1>13, <1>14,
      <1>15, <1>16, <1>17, <1>18

-----------------------------------------------------------------------------
(* The gate counts the renders in progress.                                    *)
LEMMA HoldingIsFinite ==
    ASSUME NEW S \in SUBSET Preview PROVE IsFiniteSet(S) /\ Cardinality(S) \in Nat
  BY PullConstants, FS_Subset, FS_CardinalityType

Held == {"lookup", "read", "await", "render"}

(* A request that holds no slot before and after a step, or holds one both     *)
(* times.                                                                      *)
LEMMA Stays ==
    ASSUME Types, SlotsAreReturned, NEW r \in Req, NEW to, pc' = [pc EXCEPT ![r] = to],
           permits' = permits, r \notin Preview \/ (pc[r] \in Held <=> to \in Held)
    PROVE  SlotsAreReturned'
<1>1. \A u \in Preview : pc'[u] \in Held <=> pc[u] \in Held
  BY DEF Types, Req
<1>2. Holding' = Holding
  BY <1>1 DEF Holding, Held
<1> QED
  BY <1>2 DEF SlotsAreReturned

(* A request takes a slot.                                                     *)
LEMMA Enters ==
    ASSUME Types, SlotsAreReturned, NEW r \in Preview, NEW to \in Held, pc[r] \notin Held,
           pc' = [pc EXCEPT ![r] = to], permits' = permits - 1
    PROVE  SlotsAreReturned'
<1>1. pc'[r] = to /\ \A u \in Preview \ {r} : pc'[u] = pc[u]
  BY DEF Types, Req
<1>2. Holding' = Holding \cup {r} /\ r \notin Holding
  BY <1>1 DEF Holding, Held
<1>3. IsFiniteSet(Holding) /\ Cardinality(Holding) \in Nat
  BY HoldingIsFinite DEF Holding
<1>4. Cardinality(Holding') = Cardinality(Holding) + 1
  BY <1>2, <1>3, FS_AddElement
<1> QED
  BY <1>3, <1>4 DEF SlotsAreReturned, Types

(* A request gives its slot back.                                              *)
LEMMA Leaves ==
    ASSUME Types, SlotsAreReturned, NEW r \in Preview, NEW to, to \notin Held, pc[r] \in Held,
           pc' = [pc EXCEPT ![r] = to], permits' = permits + 1
    PROVE  SlotsAreReturned'
<1>1. pc'[r] = to /\ \A u \in Preview \ {r} : pc'[u] = pc[u]
  BY DEF Types, Req
<1>2. Holding' = Holding \ {r} /\ r \in Holding
  BY <1>1 DEF Holding, Held
<1>3. IsFiniteSet(Holding) /\ Cardinality(Holding) \in Nat
  BY HoldingIsFinite DEF Holding
<1>4. Cardinality(Holding') = Cardinality(Holding) - 1
  BY <1>2, <1>3, FS_RemoveElement
<1> QED
  BY <1>3, <1>4 DEF SlotsAreReturned, Types

(* The finally clause of PreviewQueue.submit on each way out of a fetch.       *)
LEMMA TakeReturns ==
    ASSUME Types, SlotsAreReturned, NEW r \in Preview, pc[r] \in {"read", "await"}, NEW bytes,
           Take(r, bytes)
    PROVE  SlotsAreReturned'
<1>1. \/ pc' = [pc EXCEPT ![r] = "failed"] /\ permits' = permits + 1
      \/ pc' = [pc EXCEPT ![r] = "render"] /\ permits' = permits
  BY DEF Take, Release
<1>2. r \in Req /\ pc[r] \in Held /\ "render" \in Held /\ "failed" \notin Held
  BY DEF Held, Req
<1>3. CASE pc' = [pc EXCEPT ![r] = "failed"] /\ permits' = permits + 1
  BY <1>2, <1>3, Leaves
<1>4. CASE pc' = [pc EXCEPT ![r] = "render"] /\ permits' = permits
  BY <1>2, <1>4, Stays
<1> QED
  BY <1>1, <1>3, <1>4

(* Errors, timeouts, hits and renders give the slot back; a crash frees all.  *)
LEMMA SlotsAreReturnedStep == Types /\ SlotsAreReturned /\ [Next]_vars => SlotsAreReturned'
<1> SUFFICES ASSUME Types, SlotsAreReturned, [Next]_vars PROVE SlotsAreReturned'
  OBVIOUS
<1>1. CASE UNCHANGED <<pc, permits>>
  BY <1>1 DEF SlotsAreReturned, Holding
<1>2. ASSUME NEW r \in Req, Refuse(r) PROVE SlotsAreReturned'
  <2>1. pc[r] = "new" /\ pc' = [pc EXCEPT ![r] = "failed"] /\ permits' = permits
    BY <1>2 DEF Refuse, core
  <2> QED
    BY <2>1, Stays DEF Held
<1>3. ASSUME NEW r \in Req, ResolveEntry(r) PROVE SlotsAreReturned'
  <2>1. pc[r] = "new" /\ pc' = [pc EXCEPT ![r] = "slot"] /\ permits' = permits
    BY <1>3 DEF ResolveEntry
  <2> QED
    BY <2>1, Stays DEF Held
<1>4. ASSUME NEW r \in Req, BrowseDirectory(r) PROVE SlotsAreReturned'
  <2>1. \E to \in {"await"} : pc' = [pc EXCEPT ![r] = to]
    BY <1>4 DEF BrowseDirectory
  <2>2. r \notin Preview /\ permits' = permits
    BY <1>4, PullConstants DEF BrowseDirectory, core
  <2> QED
    BY <2>1, <2>2, Stays
<1>5. ASSUME NEW r \in Req, Submit(r) PROVE SlotsAreReturned'
  <2>1. r \in Preview /\ pc[r] = "slot"
    BY <1>5 DEF Submit
  <2>2. \/ pc' = [pc EXCEPT ![r] = "lookup"] /\ permits' = permits - 1
        \/ pc' = [pc EXCEPT ![r] = "failed"] /\ permits' = permits
    BY <1>5 DEF Submit
  <2>3. CASE pc' = [pc EXCEPT ![r] = "lookup"] /\ permits' = permits - 1
    BY <2>1, <2>3, Enters DEF Held
  <2>4. CASE pc' = [pc EXCEPT ![r] = "failed"] /\ permits' = permits
    BY <2>1, <2>4, Stays DEF Held
  <2> QED
    BY <2>2, <2>3, <2>4
<1>6. ASSUME NEW r \in Req, CacheHit(r) PROVE SlotsAreReturned'
  <2>1. r \in Preview /\ pc[r] = "lookup" /\ pc' = [pc EXCEPT ![r] = "record"]
            /\ permits' = permits + 1
    BY <1>6 DEF CacheHit, Release
  <2> QED
    BY <2>1, Leaves DEF Held
<1>7. ASSUME NEW r \in Req, CacheMiss(r) PROVE SlotsAreReturned'
  <2>1. \E to \in {"read", "await"} : pc' = [pc EXCEPT ![r] = to]
    BY <1>7 DEF CacheMiss
  <2>2. pc[r] = "lookup" /\ permits' = permits
    BY <1>7 DEF CacheMiss
  <2> QED
    BY <2>1, <2>2, Stays DEF Held
<1>8. ASSUME NEW r \in Req, ReadLocally(r) PROVE SlotsAreReturned'
  <2>1. r \in Preview /\ pc[r] = "read" /\ Take(r, Read(target[r], entry[r]))
    BY <1>8 DEF ReadLocally
  <2> QED
    BY <2>1, TakeReturns
<1>9. ASSUME NEW r \in Req, FetchReturns(r) PROVE SlotsAreReturned'
  <2>1. r \in Preview /\ pc[r] = "await" /\ Take(r, future[r])
    BY <1>9 DEF FetchReturns
  <2> QED
    BY <2>1, TakeReturns
<1>10. ASSUME NEW r \in Req, FetchTimesOut(r) PROVE SlotsAreReturned'
  <2>1. r \in Preview /\ pc[r] = "await" /\ pc' = [pc EXCEPT ![r] = "timeout"]
            /\ permits' = permits + 1
    BY <1>10 DEF FetchTimesOut, Release
  <2> QED
    BY <2>1, Leaves DEF Held
<1>11. ASSUME NEW r \in Req, RenderFails(r) PROVE SlotsAreReturned'
  <2>1. r \in Preview /\ pc[r] = "render" /\ pc' = [pc EXCEPT ![r] = "failed"]
            /\ permits' = permits + 1
    BY <1>11 DEF RenderFails, Release
  <2> QED
    BY <2>1, Leaves DEF Held
<1>12. ASSUME NEW r \in Req, Render(r) PROVE SlotsAreReturned'
  <2>1. r \in Preview /\ pc[r] = "render" /\ pc' = [pc EXCEPT ![r] = "record"]
            /\ permits' = permits + 1
    BY <1>12 DEF Render, Release
  <2> QED
    BY <2>1, Leaves DEF Held
<1>13. ASSUME NEW r \in Req, RecordCacheMeta(r) PROVE SlotsAreReturned'
  <2>1. pc[r] = "record" /\ pc' = [pc EXCEPT ![r] = "flush"] /\ permits' = permits
    BY <1>13 DEF RecordCacheMeta
  <2> QED
    BY <2>1, Stays DEF Held
<1>14. ASSUME NEW r \in Req, Serve(r) PROVE SlotsAreReturned'
  <2>1. \E to \in {"served", "failed"} : pc' = [pc EXCEPT ![r] = to]
    BY <1>14 DEF Serve
  <2>2. pc[r] = "flush" /\ permits' = permits
    BY <1>14 DEF Serve
  <2> QED
    BY <2>1, <2>2, Stays DEF Held
<1>15. ASSUME NEW r \in Req, BrowseReturns(r) PROVE SlotsAreReturned'
  <2>1. \E to \in {"served"} : pc' = [pc EXCEPT ![r] = to]
    BY <1>15 DEF BrowseReturns
  <2>2. r \notin Preview /\ permits' = permits
    BY <1>15, PullConstants DEF BrowseReturns, core
  <2> QED
    BY <2>1, <2>2, Stays
<1>16. ASSUME NEW r \in Req, BrowseFails(r) PROVE SlotsAreReturned'
  <2>1. \E to \in {"timeout"} : pc' = [pc EXCEPT ![r] = to]
    BY <1>16 DEF BrowseFails
  <2>2. r \notin Preview /\ permits' = permits
    BY <1>16, PullConstants DEF BrowseFails, core
  <2> QED
    BY <2>1, <2>2, Stays
<1>17. ASSUME CoreCrash PROVE SlotsAreReturned'
  <2>1. permits' = MaxConcurrent
    BY <1>17 DEF CoreCrash
  <2>2. \A u \in Preview : pc'[u] \notin Held
    BY <1>17 DEF CoreCrash, Req, Held
  <2>3. Holding' = {}
    BY <2>2 DEF Holding, Held
  <2>4. Cardinality({}) = 0
    BY FS_EmptySet
  <2> QED
    BY <2>1, <2>3, <2>4, PullConstants DEF SlotsAreReturned
<1>18. \/ UNCHANGED <<pc, permits>>
       \/ \E r \in Req : Refuse(r) \/ ResolveEntry(r) \/ BrowseDirectory(r) \/ Submit(r)
                         \/ CacheHit(r) \/ CacheMiss(r) \/ ReadLocally(r) \/ FetchReturns(r)
                         \/ FetchTimesOut(r) \/ RenderFails(r) \/ Render(r)
                         \/ RecordCacheMeta(r) \/ Serve(r) \/ BrowseReturns(r) \/ BrowseFails(r)
       \/ CoreCrash
  BY DEF Next, CoreStep, run_preview_serve, run_browse_serve, ServeLoop, Environment, Expire,
      Poll, PollDropsExpired, Verify, ServeFile, ListDirectory, ServePost, BrowsePost,
      LosePost, Replay, AgentCrash, Write, Rescan, Finished, vars, core, rendezvous,
      remote, world, Kind
<1> QED
  BY <1>1, <1>2, <1>3, <1>4, <1>5, <1>6, <1>7, <1>8, <1>9, <1>10, <1>11, <1>12, <1>13, <1>14,
      <1>15, <1>16, <1>17, <1>18
-----------------------------------------------------------------------------
(* At first nothing is queued, cached, rendered or on its way.                 *)
LEMMA InitIInv == Init => IInv
<1> SUFFICES ASSUME Init PROVE IInv
  OBVIOUS
<1>1. /\ disk = [e \in Entry |-> [inode |-> 1, data |-> stored[e]]]
      /\ cat = [e \in Entry |-> [inode |-> 1, hash |-> stored[e]]]
      /\ entry = [r \in Preview |-> [inode |-> 0, hash |-> None]]
      /\ got = [r \in Preview |-> None] /\ future = [r \in Req |-> None]
      /\ permits = MaxConcurrent /\ expired = {} /\ cache = <<>> /\ wire = {} /\ seen = {}
  BY DEF Init
<1>2. PICK made \in Made : pc = [r \in Req |-> IF r \in made THEN "new" ELSE "failed"]
  BY DEF Init
<1>3. /\ queue = [k \in Kind |-> [h \in Host |-> <<>>]]
      /\ agent = [k \in Kind |-> [h \in Host |-> Idle]]
  BY DEF Init
<1>4. Types
  BY <1>1, <1>2, PullConstants DEF Types, Row, Step
<1>5. Kinds
  BY <1>1, <1>3 DEF Kinds, Loop
<1>6. Started
  BY <1>1, <1>3 DEF Started
<1>7. \A r \in Req : pc[r] \in {"new", "failed"}
  BY <1>2
<1>8. CacheIsFaithful /\ BytesAreChecked
  BY <1>1 DEF CacheIsFaithful, BytesAreChecked, Req
<1>9. ShowsItsHash /\ GaveUp
  BY <1>1, <1>7 DEF ShowsItsHash, GaveUp, Req, None, Fail
<1>10. SlotsAreReturned
  <2>1. Holding = {}
    BY <1>7 DEF Holding, Req
  <2>2. Cardinality({}) = 0
    BY FS_EmptySet
  <2> QED
    BY <1>1, <2>1, <2>2, PullConstants DEF SlotsAreReturned
<1> QED
  BY <1>4, <1>5, <1>6, <1>8, <1>9, <1>10 DEF IInv

(* The invariant is inductive.                                                 *)
LEMMA Invariance == Spec => []IInv
<1>1. IInv /\ [Next]_vars => IInv'
  BY TypesStep, KindsStep, StartedStep, CacheIsFaithfulStep, BytesAreCheckedStep,
     ShowsItsHashStep, GaveUpStep, SlotsAreReturnedStep DEF IInv
<1> QED
  BY InitIInv, <1>1, PTL DEF Spec

(* What a preview of a file with a known hash shows, and what the cache shares *)
(* between files of one hash, was derived from exactly that content, however   *)
(* the file changes between the scan, the grant, the read and the render.      *)
THEOREM PreviewsShowTheirHash == Spec => []PreviewShowsItsHash
<1>1. IInv => PreviewShowsItsHash
  <2> SUFFICES ASSUME IInv PROVE PreviewShowsItsHash
    OBVIOUS
  <2>1. \A x \in ToSet(cache) : x \in Faithful
    BY DEF IInv, CacheIsFaithful, ToSet
  <2>2. \A x \in Faithful : x.art = x.key
    BY DEF Faithful
  <2> QED
    BY <2>1, <2>2 DEF IInv, ShowsItsHash, PreviewShowsItsHash
<1> QED
  BY <1>1, Invariance, PTL

(* The free slots of the PreviewQueue and the renders in progress add up:      *)
(* every way out of submit releases, for any number of previews and slots.     *)
THEOREM SlotsAddUp == Spec => []SlotsAreReturned
<1>1. IInv => SlotsAreReturned
  BY DEF IInv
<1> QED
  BY <1>1, Invariance, PTL

(* An agent starts on a grant once, for its own host, and never after the      *)
(* route gave up on it.                                                        *)
THEOREM NoLateReads == Spec => NoReadAfterGiveUp
<1> DEFINE Starts(k, h) ==
        agent'[k][h].step = "verified" /\ agent[k][h].step # "verified" =>
            LET r == agent[k][h].req
            IN r \notin ledger /\ host(r) = h /\ pc[r] # "timeout"
<1>1. IInv /\ [Next]_vars => [\A k \in Kind, h \in Host : Starts(k, h)]_vars
  <2> SUFFICES ASSUME IInv, [Next]_vars, NEW k \in Kind, NEW h \in Host,
                      agent'[k][h].step = "verified", agent[k][h].step # "verified"
               PROVE  LET r == agent[k][h].req
                      IN r \notin ledger /\ host(r) = h /\ pc[r] # "timeout"
    OBVIOUS
  <2>1. LoopMove(k, h) /\ agent[k][h] \in Loop(k)
    BY LoopMoves DEF IInv, Kinds, LoopsMove
  <2>2. Verifies(k, h)
    <3>1. Idle.step = "idle"
      BY DEF Idle
    <3>2. Claims(k, h) => agent'[k][h].step = "claimed"
      BY DEF Claims
    <3> QED
      BY <2>1, <3>1, <3>2 DEF LoopMove
  <2>3. agent[k][h].req \in Req
    BY <2>1, <2>2, KindsApart DEF Loop, Verifies
  <2> QED
    BY <2>2, <2>3 DEF Verifies, IInv, GaveUp
<1> QED
  BY <1>1, Invariance, PTL DEF Spec, NoReadAfterGiveUp

==============================================================================
