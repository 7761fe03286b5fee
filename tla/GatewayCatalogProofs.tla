------------------------- MODULE GatewayCatalogProofs -------------------------
(***************************************************************************)
(* What the cache promises for any calls, scopes, files and clock.         *)
(*                                                                         *)
(* That scopes are kept apart needs to know that a request is joined only  *)
(* within its scope (SharedInv, RequestsInv); that ages are honest, that   *)
(* whoever fetched an entry has made its request for good (EntriesInv);    *)
(* that late answers are dropped, that both barriers are at least as young *)
(* as every request a call has awaited (RequestsInv). CallFetches is split *)
(* into its two cases, to join a request and to start one.                 *)
(***************************************************************************)
EXTENDS GatewayCatalog, TLAPS

\* What a call sees as its list is the entry in memory or the file of its scope.
LEMMA LatestIsAnEntry ==
  ASSUME TypeOK, NEW s \in Scopes, NEW p \in Paths, SelectLatest(s, p) # None
  PROVE  /\ SelectLatest(s, p) \in Entry
         /\ \/ SelectLatest(s, p) = memory[<<s, p>>]
            \/ SelectLatest(s, p) = disk[p] /\ disk[p].scope = s
  BY DEF TypeOK, SelectLatest, DiskEntry, Keys

\* It is a list of the scope it is read for.
LEMMA LatestIsOfItsScope ==
  ASSUME TypeOK, ScopesAreIsolated, NEW s \in Scopes, NEW p \in Paths, SelectLatest(s, p) # None
  PROVE  SelectLatest(s, p).scope = s
  <1>1. <<s, p>> \in Keys /\ <<s, p>>[1] = s
    BY DEF Keys
  <1>2. CASE SelectLatest(s, p) = memory[<<s, p>>]
    BY <1>1, <1>2 DEF ScopesAreIsolated
  <1>3. CASE SelectLatest(s, p) = disk[p] /\ disk[p].scope = s
    BY <1>3
  <1> QED BY <1>2, <1>3, LatestIsAnEntry

\* A call that goes on after its await has a request that was made.
LEMMA AwaitedRequest ==
  ASSUME TypeOK, RequestsInv, NEW c \in Calls, Resumes(c)
  PROVE  /\ args[c] \in Args /\ Key(c) \in Keys /\ Path(c) \in Paths /\ Scope(c) \in Scopes
         /\ request[c] \in Calls /\ request[c] # None
         /\ EntryOf(c) \in Entry
         /\ EntryOf(c).scope = Scope(c) /\ EntryOf(c).by = request[c] /\ EntryOf(c).at = req[request[c]].at
  <1>1. st[c] # "new" /\ request[c] # None
    BY DEF Resumes, RequestsInv, RequestOK
  <1>2. args[c] \in Args /\ request[c] \in Calls
    BY <1>1 DEF RequestsInv, RequestOK, TypeOK
  <1>3. Key(c) \in Keys /\ Path(c) \in Paths /\ Scope(c) \in Scopes
    BY <1>2 DEF Args, Key, KeyOf, Path, Scope, Keys
  <1>4. req[request[c]].at \in Time /\ req[request[c]].rev \in Nat
    BY <1>2 DEF TypeOK
  <1> QED BY <1>1, <1>2, <1>3, <1>4 DEF EntryOf, Entry

\* What a call joins is a request of its scope that nobody can cancel.
LEMMA Joined ==
  ASSUME TypeOK, RequestsInv, SharedInv, NEW a \in Args, CanJoin(a), NEW q, q = inFlight[ShareKey(a)]
  PROVE  /\ q \in Calls /\ q # None /\ request[q] = q /\ st[q] # "new" /\ args[q] \in Args
         /\ args[q].scope = a.scope /\ ~args[q].signal
         /\ req[q].rev \in Nat /\ req[q].rev <= revision /\ req[q].result # "none"
         /\ ~a.signal
  <1> DEFINE s == a.scope
             f == a.force
  <1>1. s \in Scopes /\ f \in BOOLEAN
    BY CacheAssumption DEF Args
  <1>2. q = inFlight[<<s, f>>] /\ q # None /\ ~a.signal
    BY DEF CanJoin, ShareKey, Share
  <1>3. q \in Calls
    BY <1>1, <1>2 DEF TypeOK
  <1>4. request[q] = q /\ Scope(q) = s /\ ~args[q].signal
    BY <1>1, <1>2 DEF SharedInv
  <1>5. RequestOK(q)
    BY <1>3 DEF RequestsInv
  <1>6. st[q] # "new" /\ args[q] \in Args /\ req[q].rev <= revision /\ req[q].result # "none"
    BY <1>2, <1>4, <1>5 DEF RequestOK
  <1>7. req[q].rev \in Nat
    BY <1>3 DEF TypeOK
  <1> QED BY <1>2, <1>3, <1>4, <1>6, <1>7 DEF Scope

\* The barriers rise to the request that is registered and never fall.
LEMMA Registered ==
  ASSUME TypeOK, NEW a \in Args, NEW n \in Nat, n <= revision', revision' \in Nat, revision <= revision',
         Register(a, n)
  PROVE  /\ latestRequests' \in [Keys -> 0..revision'] /\ latestDisk' \in [Paths -> 0..revision']
         /\ \A k \in Keys : latestRequests[k] <= latestRequests'[k]
         /\ \A p \in Paths : latestDisk[p] <= latestDisk'[p]
         /\ n <= latestRequests'[KeyOf(a)] /\ n <= latestDisk'[a.path]
  <1>1. KeyOf(a) \in Keys /\ a.path \in Paths
    BY DEF Args, KeyOf, Keys
  <1>2. latestRequests' = [latestRequests EXCEPT ![KeyOf(a)] = Larger(latestRequests[KeyOf(a)], n)]
    BY DEF Register
  <1>3. latestDisk' = [latestDisk EXCEPT ![a.path] = Larger(latestDisk[a.path], n)]
    BY DEF Register
  <1>4. latestRequests \in [Keys -> Nat] /\ latestDisk \in [Paths -> Nat]
        /\ (\A k \in Keys : latestRequests[k] <= revision) /\ (\A p \in Paths : latestDisk[p] <= revision)
    BY DEF TypeOK
  <1>5. revision \in Nat
    BY DEF TypeOK
  <1>6. latestRequests' \in [Keys -> 0..revision'] /\ (\A k \in Keys : latestRequests[k] <= latestRequests'[k])
        /\ n <= latestRequests'[KeyOf(a)]
    BY <1>1, <1>2, <1>4, <1>5 DEF Larger
  <1>7. latestDisk' \in [Paths -> 0..revision'] /\ (\A p \in Paths : latestDisk[p] <= latestDisk'[p])
        /\ n <= latestDisk'[a.path]
    BY <1>1, <1>3, <1>4, <1>5 DEF Larger
  <1> QED BY <1>6, <1>7

\* A call with arguments has keys.
LEMMA KeysOfCall ==
  ASSUME NEW c, args[c] \in Args
  PROVE  Key(c) \in Keys /\ Path(c) \in Paths /\ Scope(c) \in Scopes /\ args[c].force \in BOOLEAN
  BY CacheAssumption DEF Args, Key, KeyOf, Path, Scope, Keys

\* A new call does not disturb what the others know of their requests.
LEMMA KeepsRequest ==
  ASSUME TypeOK, RequestsInv, NEW c \in Calls, st[c] = "new", NEW d \in Calls, d # c,
         \A e \in Calls : e # c =>
           /\ args'[e] = args[e] /\ st'[e] = st[e] /\ request'[e] = request[e]
           /\ req'[e] = req[e] /\ answer'[e] = answer[e],
         revision' \in Nat, revision <= revision',
         \A k \in Keys : latestRequests[k] <= latestRequests'[k],
         \A p \in Paths : latestDisk[p] <= latestDisk'[p],
         latestRequests' \in [Keys -> 0..revision'], latestDisk' \in [Paths -> 0..revision']
  PROVE  RequestOK(d)'
  <1>1. RequestOK(d) /\ RequestOK(c)
    BY DEF RequestsInv
  <1>2. /\ st[d] = "new" => request[d] = None /\ req[d] = NoRequest /\ answer[d] = None
        /\ st[d] # "new" => args[d] \in Args
        /\ st[d] = "waiting" => request[d] # None
        /\ req[d].rev <= revision'
    <2>1. req[d].rev \in Nat /\ revision \in Nat
      BY DEF TypeOK
    <2> QED BY <1>1, <2>1 DEF RequestOK
  <1>3. ASSUME request[d] # None
        PROVE  /\ request'[request[d]] = request[d] /\ Scope(request[d])' = Scope(d)
               /\ req'[request[d]].result # "none"
               /\ req'[request[d]].rev <= latestRequests'[Key(d)] /\ req'[request[d]].rev <= latestDisk'[Path(d)]
    <2> DEFINE q == request[d]
    <2>1. q \in Calls /\ request[q] = q /\ Scope(q) = Scope(d) /\ req[q].result # "none"
          /\ req[q].rev <= latestRequests[Key(d)] /\ req[q].rev <= latestDisk[Path(d)]
      BY <1>1, <1>3 DEF RequestOK, TypeOK
    <2>2. q # c
      BY <1>1, <1>3, <2>1 DEF RequestOK
    <2>3. args[d] \in Args
      BY <1>1, <1>3 DEF RequestOK
    <2>4. Key(d) \in Keys /\ Path(d) \in Paths
      BY <2>3, KeysOfCall
    <2>5. req[q].rev \in Nat /\ latestRequests[Key(d)] \in Nat /\ latestDisk[Path(d)] \in Nat
          /\ latestRequests'[Key(d)] \in Nat /\ latestDisk'[Path(d)] \in Nat
      BY <2>1, <2>4 DEF TypeOK
    <2>6. req[q].rev <= latestRequests'[Key(d)] /\ req[q].rev <= latestDisk'[Path(d)]
      BY <2>1, <2>4, <2>5
    <2> QED BY <2>1, <2>2, <2>6 DEF Scope
  <1>4. Key(d)' = Key(d) /\ Path(d)' = Path(d) /\ Scope(d)' = Scope(d)
    BY DEF Key, KeyOf, Path, Scope
  <1> QED BY <1>2, <1>3, <1>4 DEF RequestOK

\* Every variable keeps its type.
LEMMA TypeStep ==
  ASSUME TypeOK, RequestsInv, SharedInv, [Next]_vars
  PROVE  TypeOK'
<1> USE CacheAssumption DEF TypeOK
<1>1. ASSUME NEW c \in Calls, NEW a \in Args,
              CallAborted(c, a)
       PROVE  TypeOK'
  BY <1>1 DEF CallAborted, Return
<1>2. ASSUME NEW c \in Calls, NEW a \in Args,
              CallHits(c, a)
       PROVE  TypeOK'
  BY <1>2, LatestIsAnEntry DEF CallHits, Return, CacheAnswers, KeyOf, Args, Keys
<1>3. ASSUME NEW c \in Calls, NEW a \in Args,
              CallFetches(c, a), CanJoin(a)
       PROVE  TypeOK'
  <2> DEFINE q == inFlight[ShareKey(a)]
  <2>1. q \in Calls /\ req[q].rev \in Nat /\ req[q].rev <= revision /\ request' = [request EXCEPT ![c] = q]
        /\ Register(a, req[q].rev) /\ revision' = revision
    BY <1>3, Joined DEF CallFetches, JoinRequest
  <2>2. latestRequests' \in [Keys -> 0..revision'] /\ latestDisk' \in [Paths -> 0..revision']
    BY <2>1, Registered
  <2> HIDE DEF q
  <2> QED BY <2>1, <2>2, <1>3 DEF CallFetches, JoinRequest
<1>4. ASSUME NEW c \in Calls, NEW a \in Args,
              CallFetches(c, a), ~CanJoin(a)
       PROVE  TypeOK'
  <2>1. Register(a, revision + 1) /\ revision' = revision + 1
    BY <1>4 DEF CallFetches, StartRequest
  <2>2. latestRequests' \in [Keys -> 0..revision'] /\ latestDisk' \in [Paths -> 0..revision']
    BY <2>1, Registered
  <2>3. inFlight' \in [Scopes \X BOOLEAN -> Calls \cup {None}]
    <3>1. ShareKey(a) \in Scopes \X BOOLEAN
      BY DEF ShareKey, Args
    <3>2. inFlight' = inFlight \/ inFlight' = [inFlight EXCEPT ![ShareKey(a)] = c]
      BY <1>4 DEF CallFetches, StartRequest
    <3> QED BY <3>1, <3>2
  <2>4. req' \in [Calls -> [rev : Nat, at : Time, result : {"none", "pending", "ok", "failed"}]]
    BY <2>1, <1>4 DEF CallFetches, StartRequest
  <2>5. args' \in [Calls -> Args \cup {None}] /\ request' \in [Calls -> Calls \cup {None}]
    BY <1>4 DEF CallFetches, StartRequest
  <2>6. st' \in [Calls -> {"new", "waiting", "hit", "fetched", "stale", "failed", "aborted"}]
    BY <1>4 DEF CallFetches
  <2>7. revision' \in Nat /\ UNCHANGED <<now, disk, memory, aborted, answer>>
    BY <2>1, <1>4 DEF CallFetches
  <2> QED BY <2>2, <2>3, <2>4, <2>5, <2>6, <2>7
<1>5. ASSUME NEW c \in Calls, NEW result \in {"ok", "failed"},
              FetchSettles(c, result)
       PROVE  TypeOK'
  BY <1>5 DEF FetchSettles
<1>6. ASSUME NEW c \in Calls,
              SignalAborts(c)
       PROVE  TypeOK'
  BY <1>6 DEF SignalAborts
<1>7. ASSUME NEW c \in Calls,
              ResumeAborted(c)
       PROVE  TypeOK'
  BY <1>7, AwaitedRequest DEF ResumeAborted, Resumes, Return, StopSharing
<1>8. ASSUME NEW c \in Calls,
              ResumeFetched(c)
       PROVE  TypeOK'
  BY <1>8, AwaitedRequest DEF ResumeFetched, Resumes, Return, SaveDisk, StopSharing
<1>9. ASSUME NEW c \in Calls,
              ResumeFailed(c)
       PROVE  TypeOK'
  BY <1>9, AwaitedRequest, LatestIsAnEntry DEF ResumeFailed, Resumes, Return, StopSharing
<1>10. ASSUME NEW s \in Scopes, NEW p \in Paths,
              ReadLocal(s, p)
       PROVE  TypeOK'
  BY <1>10, LatestIsAnEntry DEF ReadLocal, Keys
<1>11. CASE Tick
  BY <1>11 DEF Tick, Time
<1>12. ASSUME NEW s \in Scopes, NEW p \in Paths, NEW t \in Time,
              OtherProcessSaves(s, p, t)
       PROVE  TypeOK'
  BY <1>12 DEF OtherProcessSaves, Entry
<1>13. ASSUME NEW p \in Paths,
              FileLost(p)
       PROVE  TypeOK'
  BY <1>13 DEF FileLost
<1>14. CASE UNCHANGED vars
  BY <1>14 DEF vars
<1> HIDE DEF TypeOK
<1> QED
  BY <1>1, <1>2, <1>3, <1>4, <1>5, <1>6, <1>7, <1>8, <1>9, <1>10, <1>11, <1>12, <1>13, <1>14 DEF Next, Resume

\* Lists stay with their scope.
LEMMA ScopeStep ==
  ASSUME TypeOK, RequestsInv, ScopesAreIsolated, [Next]_vars
  PROVE  ScopesAreIsolated'
<1> USE CacheAssumption DEF TypeOK, ScopesAreIsolated, Keys, Scope
<1>1. ASSUME NEW c \in Calls, NEW a \in Args,
              CallAborted(c, a)
       PROVE  ScopesAreIsolated'
  BY <1>1 DEF CallAborted, Return
<1>2. ASSUME NEW c \in Calls, NEW a \in Args,
              CallHits(c, a)
       PROVE  ScopesAreIsolated'
  <2>1. SelectLatest(a.scope, a.path).scope = a.scope
    BY <1>2, LatestIsOfItsScope DEF CallHits, CacheAnswers, Args
  <2>2. \A k \in Keys : memory'[k] = memory[k] \/ (k = KeyOf(a) /\ memory'[k] = SelectLatest(a.scope, a.path))
    BY <1>2 DEF CallHits
  <2>3. KeyOf(a)[1] = a.scope
    BY DEF KeyOf
  <2>4. \A k \in Keys : memory'[k] # None => memory'[k].scope = k[1]
    BY <2>1, <2>2, <2>3
  <2>5. \A d \in Calls : answer'[d] # None => answer'[d].scope = Scope(d)'
    BY <2>1, <1>2 DEF CallHits, Return
  <2> QED BY <2>4, <2>5
<1>3. ASSUME NEW c \in Calls, NEW a \in Args,
              CallFetches(c, a), CanJoin(a)
       PROVE  ScopesAreIsolated'
  BY <1>3 DEF CallFetches, JoinRequest, Register, CanJoin, Share, RequestsInv, RequestOK
<1>4. ASSUME NEW c \in Calls, NEW a \in Args,
              CallFetches(c, a), ~CanJoin(a)
       PROVE  ScopesAreIsolated'
  BY <1>4 DEF CallFetches, StartRequest, Register, Share, RequestsInv, RequestOK
<1>5. ASSUME NEW c \in Calls, NEW result \in {"ok", "failed"},
              FetchSettles(c, result)
       PROVE  ScopesAreIsolated'
  BY <1>5 DEF FetchSettles
<1>6. ASSUME NEW c \in Calls,
              SignalAborts(c)
       PROVE  ScopesAreIsolated'
  BY <1>6 DEF SignalAborts
<1>7. ASSUME NEW c \in Calls,
              ResumeAborted(c)
       PROVE  ScopesAreIsolated'
  BY <1>7 DEF ResumeAborted, Resumes, Return
<1>8. ASSUME NEW c \in Calls,
              ResumeFetched(c)
       PROVE  ScopesAreIsolated'
  <2>1. EntryOf(c).scope = Scope(c) /\ Key(c)[1] = Scope(c)
    BY <1>8, AwaitedRequest DEF ResumeFetched, Key, KeyOf
  <2>2. \A k \in Keys : memory'[k] = memory[k] \/ (k = Key(c) /\ memory'[k] = EntryOf(c))
    BY <1>8 DEF ResumeFetched
  <2>3. \A k \in Keys : memory'[k] # None => memory'[k].scope = k[1]
    BY <2>1, <2>2
  <2>4. answer' = [answer EXCEPT ![c] = EntryOf(c)] /\ args' = args
    BY <1>8 DEF ResumeFetched, Return
  <2>5. \A d \in Calls : answer'[d] # None => answer'[d].scope = Scope(d)'
    BY <2>1, <2>4
  <2> QED BY <2>3, <2>5
<1>9. ASSUME NEW c \in Calls,
              ResumeFailed(c)
       PROVE  ScopesAreIsolated'
  <2>1. SelectLatest(Scope(c), Path(c)) # None => SelectLatest(Scope(c), Path(c)).scope = Scope(c)
    <3>1. Scope(c) \in Scopes /\ Path(c) \in Paths
      BY <1>9, AwaitedRequest DEF ResumeFailed
    <3> HIDE DEF TypeOK, ScopesAreIsolated, Keys, Scope
    <3> QED BY <3>1, LatestIsOfItsScope
  <2>2. answer' = [answer EXCEPT ![c] = SelectLatest(Scope(c), Path(c))] /\ UNCHANGED <<args, memory>>
    BY <1>9 DEF ResumeFailed, Return
  <2> QED BY <2>1, <2>2
<1>10. ASSUME NEW s \in Scopes, NEW p \in Paths,
              ReadLocal(s, p)
       PROVE  ScopesAreIsolated'
  <2>1. SelectLatest(s, p).scope = s
    BY <1>10, LatestIsOfItsScope DEF ReadLocal
  <2>2. \A k \in Keys : memory'[k] = memory[k] \/ (k = <<s, p>> /\ memory'[k] = SelectLatest(s, p))
    BY <1>10 DEF ReadLocal
  <2>3. \A k \in Keys : memory'[k] # None => memory'[k].scope = k[1]
    BY <2>1, <2>2
  <2> QED BY <2>3, <1>10 DEF ReadLocal
<1>11. CASE Tick
  BY <1>11 DEF Tick
<1>12. ASSUME NEW s \in Scopes, NEW p \in Paths, NEW t \in Time,
              OtherProcessSaves(s, p, t)
       PROVE  ScopesAreIsolated'
  BY <1>12 DEF OtherProcessSaves
<1>13. ASSUME NEW p \in Paths,
              FileLost(p)
       PROVE  ScopesAreIsolated'
  BY <1>13 DEF FileLost
<1>14. CASE UNCHANGED vars
  BY <1>14 DEF vars
<1> HIDE DEF TypeOK, ScopesAreIsolated, Keys, Scope
<1> QED
  BY <1>1, <1>2, <1>3, <1>4, <1>5, <1>6, <1>7, <1>8, <1>9, <1>10, <1>11, <1>12, <1>13, <1>14 DEF Next, Resume

\* Whoever can be cancelled has a request of their own.
LEMMA PrivacyStep ==
  ASSUME TypeOK, RequestsInv, SharedInv, CancellationIsPrivate, [Next]_vars
  PROVE  CancellationIsPrivate'
<1> USE CacheAssumption DEF TypeOK, CancellationIsPrivate
<1>1. ASSUME NEW c \in Calls, NEW a \in Args,
              CallAborted(c, a)
       PROVE  CancellationIsPrivate'
  BY <1>1 DEF CallAborted, Return, RequestsInv, RequestOK
<1>2. ASSUME NEW c \in Calls, NEW a \in Args,
              CallHits(c, a)
       PROVE  CancellationIsPrivate'
  BY <1>2 DEF CallHits, Return, CacheAnswers, RequestsInv, RequestOK
<1>3. ASSUME NEW c \in Calls, NEW a \in Args,
              CallFetches(c, a), CanJoin(a)
       PROVE  CancellationIsPrivate'
  BY <1>3 DEF CallFetches, JoinRequest, Register, CanJoin, Share, SharedInv, ShareKey, Args
<1>4. ASSUME NEW c \in Calls, NEW a \in Args,
              CallFetches(c, a), ~CanJoin(a)
       PROVE  CancellationIsPrivate'
  <2>1. /\ st[c] = "new" /\ args' = [args EXCEPT ![c] = a] /\ request' = [request EXCEPT ![c] = c]
    BY <1>4 DEF CallFetches, StartRequest
  <2>2. request[c] = None
    BY <2>1 DEF RequestsInv, RequestOK
  <2>3. \A d \in Calls : request[d] # c
    BY <2>2 DEF RequestsInv, RequestOK
  <2> QED BY <2>1, <2>3
<1>5. ASSUME NEW c \in Calls, NEW result \in {"ok", "failed"},
              FetchSettles(c, result)
       PROVE  CancellationIsPrivate'
  BY <1>5 DEF FetchSettles
<1>6. ASSUME NEW c \in Calls,
              SignalAborts(c)
       PROVE  CancellationIsPrivate'
  BY <1>6 DEF SignalAborts
<1>7. ASSUME NEW c \in Calls,
              ResumeAborted(c)
       PROVE  CancellationIsPrivate'
  BY <1>7 DEF ResumeAborted, Resumes, Return
<1>8. ASSUME NEW c \in Calls,
              ResumeFetched(c)
       PROVE  CancellationIsPrivate'
  BY <1>8 DEF ResumeFetched, Resumes, Return, SaveDisk
<1>9. ASSUME NEW c \in Calls,
              ResumeFailed(c)
       PROVE  CancellationIsPrivate'
  BY <1>9 DEF ResumeFailed, Resumes, Return
<1>10. ASSUME NEW s \in Scopes, NEW p \in Paths,
              ReadLocal(s, p)
       PROVE  CancellationIsPrivate'
  BY <1>10 DEF ReadLocal
<1>11. CASE Tick
  BY <1>11 DEF Tick
<1>12. ASSUME NEW s \in Scopes, NEW p \in Paths, NEW t \in Time,
              OtherProcessSaves(s, p, t)
       PROVE  CancellationIsPrivate'
  BY <1>12 DEF OtherProcessSaves
<1>13. ASSUME NEW p \in Paths,
              FileLost(p)
       PROVE  CancellationIsPrivate'
  BY <1>13 DEF FileLost
<1>14. CASE UNCHANGED vars
  BY <1>14 DEF vars
<1> HIDE DEF TypeOK, CancellationIsPrivate
<1> QED
  BY <1>1, <1>2, <1>3, <1>4, <1>5, <1>6, <1>7, <1>8, <1>9, <1>10, <1>11, <1>12, <1>13, <1>14 DEF Next, Resume

\* Every call knows its request, and the barriers are at least as young.
LEMMA RequestsStep ==
  ASSUME TypeOK, RequestsInv, SharedInv, [Next]_vars
  PROVE  RequestsInv'
<1> USE CacheAssumption DEF TypeOK, RequestsInv, RequestOK, Keys, Key, KeyOf, Path, Scope
<1>1. ASSUME NEW c \in Calls, NEW a \in Args,
              CallAborted(c, a)
       PROVE  RequestsInv'
  <2>1. ASSUME NEW d \in Calls PROVE RequestOK(d)'
    <3>1. CASE d = c
      BY <3>1, <1>1 DEF CallAborted, Return
    <3>2. CASE d # c
      <4>1. \A e \in Calls : e # c =>
              /\ args'[e] = args[e] /\ st'[e] = st[e] /\ request'[e] = request[e]
              /\ req'[e] = req[e] /\ answer'[e] = answer[e]
        BY <1>1 DEF CallAborted, Return
      <4>2. st[c] = "new" /\ UNCHANGED <<revision, latestRequests, latestDisk>>
        BY <1>1 DEF CallAborted
      <4>3. /\ revision' \in Nat /\ revision <= revision'
            /\ latestRequests' \in [Keys -> 0..revision'] /\ latestDisk' \in [Paths -> 0..revision']
            /\ \A k \in Keys : latestRequests[k] <= latestRequests'[k]
            /\ \A p \in Paths : latestDisk[p] <= latestDisk'[p]
        BY <4>2
      <4> HIDE DEF TypeOK, RequestsInv, RequestOK, Keys, Key, KeyOf, Path, Scope
      <4> QED BY <3>2, <4>1, <4>2, <4>3, KeepsRequest
    <3> QED BY <3>1, <3>2
  <2> QED BY <2>1
<1>2. ASSUME NEW c \in Calls, NEW a \in Args,
              CallHits(c, a)
       PROVE  RequestsInv'
  <2>1. ASSUME NEW d \in Calls PROVE RequestOK(d)'
    <3>1. CASE d = c
      BY <3>1, <1>2 DEF CallHits, Return
    <3>2. CASE d # c
      <4>1. \A e \in Calls : e # c =>
              /\ args'[e] = args[e] /\ st'[e] = st[e] /\ request'[e] = request[e]
              /\ req'[e] = req[e] /\ answer'[e] = answer[e]
        BY <1>2 DEF CallHits, Return
      <4>2. st[c] = "new" /\ UNCHANGED <<revision, latestRequests, latestDisk>>
        BY <1>2 DEF CallHits
      <4>3. /\ revision' \in Nat /\ revision <= revision'
            /\ latestRequests' \in [Keys -> 0..revision'] /\ latestDisk' \in [Paths -> 0..revision']
            /\ \A k \in Keys : latestRequests[k] <= latestRequests'[k]
            /\ \A p \in Paths : latestDisk[p] <= latestDisk'[p]
        BY <4>2
      <4> HIDE DEF TypeOK, RequestsInv, RequestOK, Keys, Key, KeyOf, Path, Scope
      <4> QED BY <3>2, <4>1, <4>2, <4>3, KeepsRequest
    <3> QED BY <3>1, <3>2
  <2> QED BY <2>1
<1>3. ASSUME NEW c \in Calls, NEW a \in Args,
              CallFetches(c, a), CanJoin(a)
       PROVE  RequestsInv'
  <2> DEFINE q == inFlight[ShareKey(a)]
  <2>1. /\ q \in Calls /\ q # None /\ request[q] = q /\ st[q] # "new" /\ args[q].scope = a.scope
        /\ req[q].rev \in Nat /\ req[q].rev <= revision /\ req[q].result # "none"
    BY <1>3, Joined
  <2>2. /\ st[c] = "new" /\ args' = [args EXCEPT ![c] = a] /\ st' = [st EXCEPT ![c] = "waiting"]
        /\ request' = [request EXCEPT ![c] = q] /\ Register(a, req[q].rev)
        /\ UNCHANGED <<revision, req, answer>>
    BY <1>3 DEF CallFetches, JoinRequest
  <2>3. /\ \A k \in Keys : latestRequests[k] <= latestRequests'[k]
        /\ \A p \in Paths : latestDisk[p] <= latestDisk'[p]
        /\ req[q].rev <= latestRequests'[KeyOf(a)] /\ req[q].rev <= latestDisk'[a.path]
        /\ latestRequests' \in [Keys -> 0..revision'] /\ latestDisk' \in [Paths -> 0..revision']
    BY <2>1, <2>2, Registered
  <2> HIDE DEF q
  <2>4. RequestOK(c)'
    BY <2>1, <2>2, <2>3 DEF KeyOf
  <2>5. ASSUME NEW d \in Calls, d # c PROVE RequestOK(d)'
    <3>1. \A e \in Calls : e # c =>
            /\ args'[e] = args[e] /\ st'[e] = st[e] /\ request'[e] = request[e]
            /\ req'[e] = req[e] /\ answer'[e] = answer[e]
      BY <2>2
    <3>2. revision \in Nat /\ revision' = revision
      BY <2>2
    <3> HIDE DEF TypeOK, RequestsInv, RequestOK, Keys, Key, KeyOf, Path, Scope
    <3> QED BY <2>2, <2>3, <2>5, <3>1, <3>2, KeepsRequest
  <2> QED BY <2>4, <2>5 DEF RequestsInv
<1>4. ASSUME NEW c \in Calls, NEW a \in Args,
              CallFetches(c, a), ~CanJoin(a)
       PROVE  RequestsInv'
  <2>1. /\ st[c] = "new" /\ args' = [args EXCEPT ![c] = a] /\ st' = [st EXCEPT ![c] = "waiting"]
        /\ request' = [request EXCEPT ![c] = c] /\ Register(a, revision + 1) /\ revision' = revision + 1
        /\ req' = [req EXCEPT ![c] = [rev |-> revision + 1, at |-> now, result |-> "pending"]]
        /\ UNCHANGED answer
    BY <1>4 DEF CallFetches, StartRequest
  <2>2. /\ \A k \in Keys : latestRequests[k] <= latestRequests'[k]
        /\ \A p \in Paths : latestDisk[p] <= latestDisk'[p]
        /\ revision + 1 <= latestRequests'[KeyOf(a)] /\ revision + 1 <= latestDisk'[a.path]
        /\ latestRequests' \in [Keys -> 0..revision'] /\ latestDisk' \in [Paths -> 0..revision']
    BY <2>1, Registered
  <2>3. RequestOK(c)'
    BY <2>1, <2>2 DEF KeyOf
  <2>4. ASSUME NEW d \in Calls, d # c PROVE RequestOK(d)'
    <3>1. \A e \in Calls : e # c =>
            /\ args'[e] = args[e] /\ st'[e] = st[e] /\ request'[e] = request[e]
            /\ req'[e] = req[e] /\ answer'[e] = answer[e]
      BY <2>1
    <3>2. revision \in Nat /\ revision' = revision + 1
      BY <2>1
    <3> HIDE DEF TypeOK, RequestsInv, RequestOK, Keys, Key, KeyOf, Path, Scope
    <3> QED BY <2>1, <2>2, <2>4, <3>1, <3>2, KeepsRequest
  <2> QED BY <2>3, <2>4 DEF RequestsInv
<1>5. ASSUME NEW c \in Calls, NEW result \in {"ok", "failed"},
              FetchSettles(c, result)
       PROVE  RequestsInv'
  <2>1. ASSUME NEW d \in Calls PROVE RequestOK(d)'
    <3>1. \A e \in Calls :
            /\ req'[e].rev = req[e].rev
            /\ req[e].result # "none" => req'[e].result # "none"
            /\ req[e] = NoRequest => req'[e] = NoRequest
      BY <1>5 DEF FetchSettles, NoRequest
    <3>2. RequestOK(d) /\ UNCHANGED <<revision, latestRequests, latestDisk, args, st, request, answer>>
      BY <1>5 DEF FetchSettles
    <3>3. request[d] # None => request[d] \in Calls
      OBVIOUS
    <3>4. Key(d)' = Key(d) /\ Path(d)' = Path(d) /\ \A e \in Calls : Scope(e)' = Scope(e)
      BY <3>2
    <3> HIDE DEF TypeOK, RequestsInv, Keys, NoRequest
    <3>5. /\ st[d] = "new" => request[d] = None /\ req'[d] = NoRequest /\ answer[d] = None
          /\ st[d] # "new" => args[d] \in Args
          /\ st[d] = "waiting" => request[d] # None
          /\ req'[d].rev <= revision
      <4>1. req'[d].rev = req[d].rev /\ (req[d] = NoRequest => req'[d] = NoRequest)
        BY <3>1
      <4>2. st[d] = "new" => request[d] = None /\ req[d] = NoRequest /\ answer[d] = None
        BY <3>2
      <4>3. st[d] # "new" => args[d] \in Args
        BY <3>2
      <4>4. st[d] = "waiting" => request[d] # None
        BY <3>2
      <4>5. req[d].rev <= revision
        BY <3>2
      <4> QED BY <4>1, <4>2, <4>3, <4>4, <4>5
    <3>6. ASSUME request[d] # None
          PROVE  /\ request[request[d]] = request[d] /\ args[request[d]].scope = args[d].scope
                 /\ req'[request[d]].result # "none"
                 /\ req'[request[d]].rev <= latestRequests[Key(d)] /\ req'[request[d]].rev <= latestDisk[Path(d)]
      BY <3>1, <3>2, <3>3, <3>6
    <3> QED BY <3>2, <3>5, <3>6
  <2> QED BY <2>1
<1>6. ASSUME NEW c \in Calls,
              SignalAborts(c)
       PROVE  RequestsInv'
  BY <1>6 DEF SignalAborts
<1>7. ASSUME NEW c \in Calls,
              ResumeAborted(c)
       PROVE  RequestsInv'
  BY <1>7 DEF ResumeAborted, Resumes, Return
<1>8. ASSUME NEW c \in Calls,
              ResumeFetched(c)
       PROVE  RequestsInv'
  BY <1>8 DEF ResumeFetched, Resumes, Return, SaveDisk
<1>9. ASSUME NEW c \in Calls,
              ResumeFailed(c)
       PROVE  RequestsInv'
  BY <1>9 DEF ResumeFailed, Resumes, Return
<1>10. ASSUME NEW s \in Scopes, NEW p \in Paths,
              ReadLocal(s, p)
       PROVE  RequestsInv'
  BY <1>10 DEF ReadLocal
<1>11. CASE Tick
  BY <1>11 DEF Tick
<1>12. ASSUME NEW s \in Scopes, NEW p \in Paths, NEW t \in Time,
              OtherProcessSaves(s, p, t)
       PROVE  RequestsInv'
  BY <1>12 DEF OtherProcessSaves
<1>13. ASSUME NEW p \in Paths,
              FileLost(p)
       PROVE  RequestsInv'
  BY <1>13 DEF FileLost
<1>14. CASE UNCHANGED vars
  BY <1>14 DEF vars
<1> HIDE DEF TypeOK, RequestsInv, RequestOK, Keys, Key, KeyOf, Path, Scope
<1> QED
  BY <1>1, <1>2, <1>3, <1>4, <1>5, <1>6, <1>7, <1>8, <1>9, <1>10, <1>11, <1>12, <1>13, <1>14 DEF Next, Resume

\* What is shared cannot be cancelled, and is shared within its scope.
LEMMA SharedStep ==
  ASSUME TypeOK, RequestsInv, SharedInv, [Next]_vars
  PROVE  SharedInv'
<1> USE CacheAssumption DEF TypeOK, RequestsInv, RequestOK, SharedInv, ShareKey, Scope
<1>1. ASSUME NEW c \in Calls, NEW a \in Args,
              CallAborted(c, a)
       PROVE  SharedInv'
  BY <1>1 DEF CallAborted, Return
<1>2. ASSUME NEW c \in Calls, NEW a \in Args,
              CallHits(c, a)
       PROVE  SharedInv'
  BY <1>2 DEF CallHits, Return, CacheAnswers
<1>3. ASSUME NEW c \in Calls, NEW a \in Args,
              CallFetches(c, a), CanJoin(a)
       PROVE  SharedInv'
  BY <1>3 DEF CallFetches, JoinRequest, Register, CanJoin, Share, Args
<1>4. ASSUME NEW c \in Calls, NEW a \in Args,
              CallFetches(c, a), ~CanJoin(a)
       PROVE  SharedInv'
  <2>1. /\ st[c] = "new" /\ args' = [args EXCEPT ![c] = a] /\ request' = [request EXCEPT ![c] = c]
        /\ inFlight' = IF Share(a) THEN [inFlight EXCEPT ![ShareKey(a)] = c] ELSE inFlight
    BY <1>4 DEF CallFetches, StartRequest
  <2>2. request[c] = None
    BY <2>1
  <2>3. ASSUME NEW s \in Scopes, NEW force \in BOOLEAN, inFlight'[<<s, force>>] # None
        PROVE  LET q == inFlight'[<<s, force>>] IN request'[q] = q /\ args'[q].scope = s /\ ~args'[q].signal
    <3>1. CASE inFlight'[<<s, force>>] = inFlight[<<s, force>>]
      <4>1. inFlight[<<s, force>>] # c
        BY <2>2, <2>3, <3>1
      <4> QED BY <2>1, <2>3, <3>1, <4>1
    <3>2. CASE inFlight'[<<s, force>>] # inFlight[<<s, force>>]
      <4>1. Share(a) /\ <<s, force>> = <<a.scope, a.force>> /\ inFlight'[<<s, force>>] = c
        BY <2>1, <3>2
      <4> QED BY <2>1, <4>1 DEF Share
    <3> QED BY <3>1, <3>2
  <2> QED BY <2>3
<1>5. ASSUME NEW c \in Calls, NEW result \in {"ok", "failed"},
              FetchSettles(c, result)
       PROVE  SharedInv'
  BY <1>5 DEF FetchSettles
<1>6. ASSUME NEW c \in Calls,
              SignalAborts(c)
       PROVE  SharedInv'
  BY <1>6 DEF SignalAborts
<1>7. ASSUME NEW c \in Calls,
              ResumeAborted(c)
       PROVE  SharedInv'
  BY <1>7 DEF ResumeAborted, Resumes, Return, StopSharing
<1>8. ASSUME NEW c \in Calls,
              ResumeFetched(c)
       PROVE  SharedInv'
  BY <1>8 DEF ResumeFetched, Resumes, Return, SaveDisk, StopSharing
<1>9. ASSUME NEW c \in Calls,
              ResumeFailed(c)
       PROVE  SharedInv'
  BY <1>9 DEF ResumeFailed, Resumes, Return, StopSharing
<1>10. ASSUME NEW s \in Scopes, NEW p \in Paths,
              ReadLocal(s, p)
       PROVE  SharedInv'
  BY <1>10 DEF ReadLocal
<1>11. CASE Tick
  BY <1>11 DEF Tick
<1>12. ASSUME NEW s \in Scopes, NEW p \in Paths, NEW t \in Time,
              OtherProcessSaves(s, p, t)
       PROVE  SharedInv'
  BY <1>12 DEF OtherProcessSaves
<1>13. ASSUME NEW p \in Paths,
              FileLost(p)
       PROVE  SharedInv'
  BY <1>13 DEF FileLost
<1>14. CASE UNCHANGED vars
  BY <1>14 DEF vars
<1> HIDE DEF TypeOK, RequestsInv, RequestOK, SharedInv, ShareKey, Scope
<1> QED
  BY <1>1, <1>2, <1>3, <1>4, <1>5, <1>6, <1>7, <1>8, <1>9, <1>10, <1>11, <1>12, <1>13, <1>14 DEF Next, Resume

\* Entries keep the time of their request.
LEMMA EntryStep ==
  ASSUME TypeOK, RequestsInv, AgeIsHonest, EntriesInv, [Next]_vars
  PROVE  (AgeIsHonest /\ EntriesInv)'
<1> USE CacheAssumption DEF TypeOK, AgeIsHonest, EntriesInv, Keys
<1>1. ASSUME NEW c \in Calls, NEW a \in Args,
              CallAborted(c, a)
       PROVE  (AgeIsHonest /\ EntriesInv)'
  BY <1>1 DEF CallAborted, Return
<1>2. ASSUME NEW c \in Calls, NEW a \in Args,
              CallHits(c, a)
       PROVE  (AgeIsHonest /\ EntriesInv)'
  BY <1>2, LatestIsAnEntry DEF CallHits, Return, CacheAnswers, KeyOf, Args
<1>3. ASSUME NEW c \in Calls, NEW a \in Args,
              CallFetches(c, a), CanJoin(a)
       PROVE  (AgeIsHonest /\ EntriesInv)'
  BY <1>3 DEF CallFetches, JoinRequest, Register, CanJoin, Share
<1>4. ASSUME NEW c \in Calls, NEW a \in Args,
              CallFetches(c, a), ~CanJoin(a)
       PROVE  (AgeIsHonest /\ EntriesInv)'
  <2>1. req' = [req EXCEPT ![c] = [rev |-> revision + 1, at |-> now, result |-> "pending"]] /\ UNCHANGED <<memory, disk>>
    BY <1>4 DEF CallFetches, StartRequest
  <2>2. req[c].result = "none"
    BY <1>4 DEF CallFetches, RequestsInv, RequestOK, NoRequest
  <2>3. \A e \in Calls : req[e].result # "none" => req'[e] = req[e]
    BY <2>1, <2>2
  <2>4. \A k \in Keys : memory[k] # None /\ memory[k].by # None => memory[k].by \in Calls
    BY DEF Entry
  <2>5. \A p \in Paths : disk[p] # None /\ disk[p].by # None => disk[p].by \in Calls
    BY DEF Entry
  <2> QED BY <2>1, <2>3, <2>4, <2>5
<1>5. ASSUME NEW c \in Calls, NEW result \in {"ok", "failed"},
              FetchSettles(c, result)
       PROVE  (AgeIsHonest /\ EntriesInv)'
  BY <1>5 DEF FetchSettles
<1>6. ASSUME NEW c \in Calls,
              SignalAborts(c)
       PROVE  (AgeIsHonest /\ EntriesInv)'
  BY <1>6 DEF SignalAborts
<1>7. ASSUME NEW c \in Calls,
              ResumeAborted(c)
       PROVE  (AgeIsHonest /\ EntriesInv)'
  BY <1>7 DEF ResumeAborted, Resumes, Return
<1>8. ASSUME NEW c \in Calls,
              ResumeFetched(c)
       PROVE  (AgeIsHonest /\ EntriesInv)'
  <2>1. /\ EntryOf(c).by = request[c] /\ EntryOf(c).at = req[request[c]].at /\ req[request[c]].result # "none"
    BY <1>8, AwaitedRequest DEF ResumeFetched
  <2>2. \A k \in Keys : memory'[k] = memory[k] \/ memory'[k] = EntryOf(c)
    BY <1>8 DEF ResumeFetched
  <2>3. \A p \in Paths : disk'[p] = disk[p] \/ disk'[p] = EntryOf(c)
    BY <1>8 DEF ResumeFetched, SaveDisk
  <2>4. req' = req
    BY <1>8 DEF ResumeFetched
  <2> HIDE DEF Keys
  <2> QED BY <2>1, <2>2, <2>3, <2>4
<1>9. ASSUME NEW c \in Calls,
              ResumeFailed(c)
       PROVE  (AgeIsHonest /\ EntriesInv)'
  BY <1>9 DEF ResumeFailed, Resumes, Return
<1>10. ASSUME NEW s \in Scopes, NEW p \in Paths,
              ReadLocal(s, p)
       PROVE  (AgeIsHonest /\ EntriesInv)'
  BY <1>10, LatestIsAnEntry DEF ReadLocal
<1>11. CASE Tick
  BY <1>11 DEF Tick
<1>12. ASSUME NEW s \in Scopes, NEW p \in Paths, NEW t \in Time,
              OtherProcessSaves(s, p, t)
       PROVE  (AgeIsHonest /\ EntriesInv)'
  BY <1>12 DEF OtherProcessSaves
<1>13. ASSUME NEW p \in Paths,
              FileLost(p)
       PROVE  (AgeIsHonest /\ EntriesInv)'
  BY <1>13 DEF FileLost
<1>14. CASE UNCHANGED vars
  BY <1>14 DEF vars
<1> HIDE DEF TypeOK, AgeIsHonest, EntriesInv, Keys
<1> QED
  BY <1>1, <1>2, <1>3, <1>4, <1>5, <1>6, <1>7, <1>8, <1>9, <1>10, <1>11, <1>12, <1>13, <1>14 DEF Next, Resume

\* Whoever saves an answer knows of no younger request.
LEMMA NewestStep ==
  ASSUME TypeOK, RequestsInv, [Next]_vars
  PROVE  NewestWritten
<1> USE CacheAssumption DEF NewestWritten
<1>1. ASSUME NEW c \in Calls, NEW a \in Args,
              CallAborted(c, a)
       PROVE  NewestWritten
  BY <1>1 DEF CallAborted, Return, TypeOK, Resumes, Return
<1>2. ASSUME NEW c \in Calls, NEW a \in Args,
              CallHits(c, a)
       PROVE  NewestWritten
  BY <1>2 DEF CallHits, Return, CacheAnswers, TypeOK, Resumes, Return
<1>3. ASSUME NEW c \in Calls, NEW a \in Args,
              CallFetches(c, a), CanJoin(a)
       PROVE  NewestWritten
  BY <1>3 DEF CallFetches, JoinRequest, Register, CanJoin, Share, TypeOK, Resumes
<1>4. ASSUME NEW c \in Calls, NEW a \in Args,
              CallFetches(c, a), ~CanJoin(a)
       PROVE  NewestWritten
  BY <1>4 DEF CallFetches, StartRequest, Register, Share, TypeOK, Resumes
<1>5. ASSUME NEW c \in Calls, NEW result \in {"ok", "failed"},
              FetchSettles(c, result)
       PROVE  NewestWritten
  BY <1>5 DEF FetchSettles, TypeOK, Resumes
<1>6. ASSUME NEW c \in Calls,
              SignalAborts(c)
       PROVE  NewestWritten
  BY <1>6 DEF SignalAborts, TypeOK, Resumes
<1>7. ASSUME NEW c \in Calls,
              ResumeAborted(c)
       PROVE  NewestWritten
  BY <1>7 DEF ResumeAborted, Resumes, Return, TypeOK, Resumes, Return
<1>8. ASSUME NEW c \in Calls,
              ResumeFetched(c)
       PROVE  NewestWritten
  <2>1. ASSUME NEW d \in Calls, request[d] # None
        PROVE  /\ req[request[d]].rev \in Nat
               /\ req[request[d]].rev <= latestRequests[Key(d)] /\ req[request[d]].rev <= latestDisk[Path(d)]
    BY <2>1 DEF TypeOK, RequestsInv, RequestOK
  <2>2. ASSUME NEW d \in Calls, request[d] # None, req[request[d]].rev > req[request[c]].rev, Key(d) = Key(c)
        PROVE  memory' = memory
    <3>1. ~MayWrite(c)
      <4>1. req[request[d]].rev <= latestRequests[Key(c)]
        BY <2>1, <2>2
      <4>2. request[c] \in Calls /\ req[request[c]].rev \in Nat /\ req[request[d]].rev \in Nat
        BY <2>1, <2>2, <1>8, AwaitedRequest DEF ResumeFetched, TypeOK
      <4>3. Key(c) \in Keys /\ latestRequests[Key(c)] \in Nat
        BY <1>8, AwaitedRequest DEF ResumeFetched, TypeOK
      <4> QED BY <2>2, <4>1, <4>2, <4>3 DEF MayWrite
    <3> QED BY <3>1, <1>8 DEF ResumeFetched
  <2>3. ASSUME NEW d \in Calls, request[d] # None, req[request[d]].rev > req[request[c]].rev, Path(d) = Path(c)
        PROVE  disk' = disk
    <3>1. ~MayWriteDisk(c)
      <4>1. req[request[d]].rev <= latestDisk[Path(c)]
        BY <2>1, <2>3
      <4>2. request[c] \in Calls /\ req[request[c]].rev \in Nat /\ req[request[d]].rev \in Nat
        BY <2>1, <2>3, <1>8, AwaitedRequest DEF ResumeFetched, TypeOK
      <4>3. Path(c) \in Paths /\ latestDisk[Path(c)] \in Nat
        BY <1>8, AwaitedRequest DEF ResumeFetched, TypeOK
      <4> QED BY <2>3, <4>1, <4>2, <4>3 DEF MayWriteDisk
    <3> QED BY <3>1, <1>8 DEF ResumeFetched
  <2>4. \A d \in Calls : d # c => st'[d] = st[d]
    BY <1>8 DEF ResumeFetched, Return, TypeOK
  <2>5. ASSUME NEW b \in Calls, Resumes(b), st'[b] = "fetched" PROVE b = c
    BY <2>4, <2>5 DEF Resumes
  <2> QED BY <2>2, <2>3, <2>5 DEF NewestWritten
<1>9. ASSUME NEW c \in Calls,
              ResumeFailed(c)
       PROVE  NewestWritten
  BY <1>9 DEF ResumeFailed, Resumes, Return, TypeOK, Resumes, Return
<1>10. ASSUME NEW s \in Scopes, NEW p \in Paths,
              ReadLocal(s, p)
       PROVE  NewestWritten
  BY <1>10 DEF ReadLocal, TypeOK, Resumes
<1>11. CASE Tick
  BY <1>11 DEF Tick, TypeOK, Resumes
<1>12. ASSUME NEW s \in Scopes, NEW p \in Paths, NEW t \in Time,
              OtherProcessSaves(s, p, t)
       PROVE  NewestWritten
  BY <1>12 DEF OtherProcessSaves, TypeOK, Resumes
<1>13. ASSUME NEW p \in Paths,
              FileLost(p)
       PROVE  NewestWritten
  BY <1>13 DEF FileLost, TypeOK, Resumes
<1>14. CASE UNCHANGED vars
  BY <1>14 DEF vars
<1> HIDE DEF NewestWritten
<1> QED
  BY <1>1, <1>2, <1>3, <1>4, <1>5, <1>6, <1>7, <1>8, <1>9, <1>10, <1>11, <1>12, <1>13, <1>14 DEF Next, Resume

\* The process starts with what old runs left in the files.
LEMMA InitCatalog == Init => CatalogInv
<1> SUFFICES ASSUME Init PROVE CatalogInv
  OBVIOUS
<1> USE CacheAssumption DEF Init
<1>1. \A p \in Paths : disk[p] = None \/ (disk[p] \in Entry /\ disk[p].by = None)
  BY DEF OldEntries, Entry, Time
<1>2. disk \in [Paths -> Entry \cup {None}]
  BY <1>1
<1>3. TypeOK
  BY <1>2 DEF TypeOK, NoRequest, Time
<1>4. ScopesAreIsolated
  BY DEF ScopesAreIsolated
<1>5. AgeIsHonest /\ EntriesInv
  BY <1>1 DEF AgeIsHonest, EntriesInv
<1>6. CancellationIsPrivate
  BY DEF CancellationIsPrivate
<1>7. RequestsInv
  BY DEF RequestsInv, RequestOK, NoRequest
<1>8. SharedInv
  BY DEF SharedInv
<1> QED BY <1>3, <1>4, <1>5, <1>6, <1>7, <1>8 DEF CatalogInv, CacheInv

-----------------------------------------------------------------------------
\* The inductive invariant.
THEOREM CatalogInvariant == Spec => []CatalogInv
<1>1. CatalogInv /\ [Next]_vars => CatalogInv'
  BY TypeStep, ScopeStep, PrivacyStep, RequestsStep, SharedStep, EntryStep DEF CatalogInv, CacheInv
<1> QED BY InitCatalog, <1>1, PTL DEF Spec

\* No call gets a list of another scope, a list that looks younger than it is, or shares a
\* request that can be cancelled (gateway-catalog.ts:366-486).
THEOREM CacheIsSound == Spec => []CacheInv
<1>1. CatalogInv => CacheInv
  BY DEF CatalogInv
<1> QED BY CatalogInvariant, <1>1, PTL

\* Late answers are dropped: only the newest request of an entry or a file writes it.
THEOREM LateAnswersAreDropped == Spec => OnlyTheNewestIsWritten
<1>1. CatalogInv /\ [Next]_vars => [NewestWritten]_vars
  BY NewestStep DEF CatalogInv, CacheInv
<1> QED BY CatalogInvariant, <1>1, PTL DEF Spec, OnlyTheNewestIsWritten
=============================================================================
