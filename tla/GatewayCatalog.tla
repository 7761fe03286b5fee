---------------------------- MODULE GatewayCatalog ----------------------------
(***************************************************************************)
(* The model-list cache of one process (models/gateway-catalog.ts):        *)
(* getGatewayModelIds and getCachedGatewayModelIds over a memory cache per *)
(* (scope, path) and one disk slot per path.  Concurrent calls overlap at  *)
(* the await of the network request; a revision counter decides whose      *)
(* answer may be written.  The disk file is shared with other processes.   *)
(*                                                                         *)
(* A list of model ids is known by the call that fetched it.               *)
(***************************************************************************)
EXTENDS Integers, FiniteSets

CONSTANTS
  Calls,           \* the calls of getGatewayModelIds, each made once
  Scopes,          \* gatewayModelCacheScope: one per (base URL, key)
  Paths,           \* cache files
  Forces, Signals, \* what calls pass as force, and whether they pass a signal
  TTL,             \* DEFAULT_GATEWAY_MODEL_CACHE_TTL_MS, in ticks
  MaxTime,         \* bound on the clock
  Outsiders,       \* do another process or the user touch the files?
  None

ASSUME CacheAssumption ==
  /\ None \notin Calls
  /\ Forces \subseteq BOOLEAN /\ Signals \subseteq BOOLEAN
  /\ TTL \in Nat \ {0} /\ MaxTime \in Nat /\ Outsiders \in BOOLEAN

VARIABLES
  now,             \* Date.now()
  disk,            \* path |-> the file's entry, None if absent or unreadable
  memory,          \* <<scope, path>> |-> the entry in memory
  revision,        \* requests numbered so far
  latestRequests,  \* <<scope, path>> |-> the newest request registered
  latestDisk,      \* path |-> the newest request registered
  inFlight,        \* <<scope, force>> |-> the request signal-less calls share
  args,            \* call |-> its scope, path, force and whether it has a signal;
                   \* None until it is made
  st,              \* call |-> "new", "waiting" or how it returned
  aborted,         \* calls whose signal was aborted
  request,         \* call |-> the call whose network request it awaits
  req,             \* call |-> the request it started
  answer           \* call |-> the entry it returned

vars == <<now, disk, memory, revision, latestRequests, latestDisk, inFlight,
          args, st, aborted, request, req, answer>>

Keys  == Scopes \X Paths
Time  == 0..MaxTime
\* by: the call that fetched the list, None for another process or an old run.
Entry == [scope : Scopes, at : Time, rev : Nat, by : Calls \cup {None}]
Args  == [scope : Scopes, path : Paths, force : Forces, signal : Signals]
NoRequest == [rev |-> 0, at |-> 0, result |-> "none"]

\* What a previous run of the program may have left in a file.
OldEntries == [scope : Scopes, at : {0}, rev : {0}, by : {None}]

Init ==
  /\ now = 0
  /\ disk \in [Paths -> OldEntries \cup {None}]
  /\ memory = [k \in Keys |-> None]
  /\ revision = 0
  /\ latestRequests = [k \in Keys |-> 0]
  /\ latestDisk = [p \in Paths |-> 0]
  /\ inFlight = [k \in Scopes \X BOOLEAN |-> None]
  /\ args = [c \in Calls |-> None]
  /\ st = [c \in Calls |-> "new"]
  /\ aborted = {}
  /\ request = [c \in Calls |-> None]
  /\ req = [c \in Calls |-> NoRequest]
  /\ answer = [c \in Calls |-> None]

KeyOf(a)    == <<a.scope, a.path>>
Share(a)    == ~a.signal
ShareKey(a) == <<a.scope, a.force>>
Scope(c)    == args[c].scope
Path(c)     == args[c].path
Key(c)      == KeyOf(args[c])
Larger(a, b) == IF a >= b THEN a ELSE b

Fresh(e) == now - e.at < TTL

\* readGatewayModelCacheEntry: the file, if it is this scope's.
DiskEntry(s, p) == IF disk[p] # None /\ disk[p].scope = s THEN disk[p] ELSE None

SelectLatest_Bug(s, p) ==
  IF memory[<<s, p>>] # None THEN memory[<<s, p>>] ELSE disk[p]

\* selectLatestGatewayModelCacheEntry: the newer of memory and disk.
SelectLatest(s, p) ==
  LET m == memory[<<s, p>>]
      d == DiskEntry(s, p)
  IN IF m # None /\ (d = None \/ m.at >= d.at) THEN m ELSE d

Return(c, how, entry) ==
  /\ st' = [st EXCEPT ![c] = how]
  /\ answer' = [answer EXCEPT ![c] = entry]

-----------------------------------------------------------------------------
(* getGatewayModelIds up to its await *)

\* Call c is made with arguments a; its signal may be aborted already.
CallAborted(c, a) ==
  /\ st[c] = "new" /\ a.signal
  /\ args' = [args EXCEPT ![c] = a]
  /\ aborted' = aborted \cup {c}
  /\ Return(c, "aborted", None)
  /\ UNCHANGED <<now, disk, memory, revision, latestRequests, latestDisk,
                 inFlight, request, req>>

CacheAnswers(a) ==
  LET e == SelectLatest(a.scope, a.path) IN ~a.force /\ e # None /\ Fresh(e)

CallHits(c, a) ==
  LET e == SelectLatest(a.scope, a.path) IN
  /\ st[c] = "new" /\ CacheAnswers(a)
  /\ args' = [args EXCEPT ![c] = a]
  /\ memory' = [memory EXCEPT ![KeyOf(a)] = e]
  /\ Return(c, "hit", e)
  /\ UNCHANGED <<now, disk, revision, latestRequests, latestDisk, inFlight,
                 aborted, request, req>>

\* Both barriers only ever rise, also when an older request is joined.
Register(a, rev) ==
  /\ latestRequests' = [latestRequests EXCEPT ![KeyOf(a)] = Larger(@, rev)]
  /\ latestDisk' = [latestDisk EXCEPT ![a.path] = Larger(@, rev)]

CanJoin_Bug(a) == inFlight[ShareKey(a)] # None

CanJoin(a) == Share(a) /\ inFlight[ShareKey(a)] # None

StartRequest(c, a) ==
  /\ revision' = revision + 1
  /\ req' = [req EXCEPT ![c] = [rev |-> revision + 1, at |-> now, result |-> "pending"]]
  /\ request' = [request EXCEPT ![c] = c]
  /\ inFlight' = IF Share(a) THEN [inFlight EXCEPT ![ShareKey(a)] = c] ELSE inFlight
  /\ Register(a, revision + 1)

JoinRequest(c, a) ==
  LET q == inFlight[ShareKey(a)] IN
  /\ request' = [request EXCEPT ![c] = q]
  /\ Register(a, req[q].rev)
  /\ UNCHANGED <<revision, req, inFlight>>

CallFetches(c, a) ==
  /\ st[c] = "new" /\ ~CacheAnswers(a)
  /\ args' = [args EXCEPT ![c] = a]
  /\ IF CanJoin(a) THEN JoinRequest(c, a) ELSE StartRequest(c, a)
  /\ st' = [st EXCEPT ![c] = "waiting"]
  /\ UNCHANGED <<now, disk, memory, aborted, answer>>

-----------------------------------------------------------------------------
(* fetchGatewayModelIds: the network answers, fails or times out *)

FetchSettles(c, result) ==
  /\ req[c].result = "pending"
  /\ req' = [req EXCEPT ![c].result = result]
  /\ UNCHANGED <<now, disk, memory, revision, latestRequests, latestDisk,
                 inFlight, args, st, aborted, request, answer>>

SignalAborts(c) ==
  /\ st[c] = "waiting" /\ args[c].signal /\ c \notin aborted
  /\ aborted' = aborted \cup {c}
  /\ UNCHANGED <<now, disk, memory, revision, latestRequests, latestDisk,
                 inFlight, args, st, request, req, answer>>

-----------------------------------------------------------------------------
(* getGatewayModelIds after its await *)

Resumes_Bug(c) == st[c] = "waiting" /\ req[request[c]].result = "ok"

Resumes(c) == st[c] = "waiting" /\ req[request[c]].result # "pending"

\* The finally block: the first of the sharing calls to resume ends the sharing.
StopSharing(c) ==
  LET k == ShareKey(args[c])
  IN inFlight' = IF Share(args[c]) /\ inFlight[k] = request[c]
                 THEN [inFlight EXCEPT ![k] = None] ELSE inFlight

EntryOf(c) ==
  [scope |-> Scope(c), at |-> req[request[c]].at, rev |-> req[request[c]].rev,
   by |-> request[c]]

\* saveGatewayModelCache: written and renamed in one step, or failed silently.
SaveDisk(c) ==
  \/ disk' = [disk EXCEPT ![Path(c)] = EntryOf(c)]
  \/ UNCHANGED disk

MayWrite_Bug(c) == TRUE

MayWrite(c) == latestRequests[Key(c)] = req[request[c]].rev

MayWriteDisk(c) == latestDisk[Path(c)] = req[request[c]].rev

ResumeAborted(c) ==
  /\ Resumes(c) /\ c \in aborted
  /\ Return(c, "aborted", None)
  /\ StopSharing(c)
  /\ UNCHANGED <<now, disk, memory, revision, latestRequests, latestDisk, args,
                 aborted, request, req>>

ResumeFetched(c) ==
  /\ Resumes(c) /\ c \notin aborted /\ req[request[c]].result = "ok"
  /\ IF MayWrite(c)
     THEN /\ memory' = [memory EXCEPT ![Key(c)] = EntryOf(c)]
          /\ IF MayWriteDisk(c) THEN SaveDisk(c) ELSE UNCHANGED disk
     ELSE UNCHANGED <<memory, disk>>
  /\ Return(c, "fetched", EntryOf(c))
  /\ StopSharing(c)
  /\ UNCHANGED <<now, revision, latestRequests, latestDisk, args, aborted,
                 request, req>>

ResumeFailed(c) ==
  LET e == SelectLatest(Scope(c), Path(c)) IN
  /\ Resumes(c) /\ c \notin aborted /\ req[request[c]].result = "failed"
  /\ Return(c, IF e = None THEN "failed" ELSE "stale", e)
  /\ StopSharing(c)
  /\ UNCHANGED <<now, disk, memory, revision, latestRequests, latestDisk, args,
                 aborted, request, req>>

-----------------------------------------------------------------------------
(* getCachedGatewayModelIds: a local read that warms the memory *)

ReadLocal(s, p) ==
  LET e == SelectLatest(s, p)
      m == memory[<<s, p>>]
  IN /\ e # None /\ ~(m # None /\ m.at >= e.at)
     /\ memory' = [memory EXCEPT ![<<s, p>>] = e]
     /\ UNCHANGED <<now, disk, revision, latestRequests, latestDisk, inFlight,
                    args, st, aborted, request, req, answer>>

-----------------------------------------------------------------------------
(* The surroundings *)

Tick ==
  /\ now < MaxTime
  /\ now' = now + 1
  /\ UNCHANGED <<disk, memory, revision, latestRequests, latestDisk, inFlight,
                 args, st, aborted, request, req, answer>>

\* Another process saves a list it asked for at time t.
OtherProcessSaves(s, p, t) ==
  /\ Outsiders /\ t <= now
  /\ disk' = [disk EXCEPT ![p] = [scope |-> s, at |-> t, rev |-> 0, by |-> None]]
  /\ UNCHANGED <<now, memory, revision, latestRequests, latestDisk, inFlight,
                 args, st, aborted, request, req, answer>>

\* The file is deleted or damaged.
FileLost(p) ==
  /\ Outsiders /\ disk[p] # None
  /\ disk' = [disk EXCEPT ![p] = None]
  /\ UNCHANGED <<now, memory, revision, latestRequests, latestDisk, inFlight,
                 args, st, aborted, request, req, answer>>

Resume(c) == ResumeAborted(c) \/ ResumeFetched(c) \/ ResumeFailed(c)

Next ==
  \/ \E c \in Calls :
       \/ \E a \in Args : CallAborted(c, a) \/ CallHits(c, a) \/ CallFetches(c, a)
       \/ \E result \in {"ok", "failed"} : FetchSettles(c, result)
       \/ SignalAborts(c)
       \/ Resume(c)
  \/ \E s \in Scopes, p \in Paths : ReadLocal(s, p)
  \/ Tick
  \/ \E s \in Scopes, p \in Paths, t \in Time : OtherProcessSaves(s, p, t)
  \/ \E p \in Paths : FileLost(p)

\* A request ends (it has a timeout) and an awaiting call then continues.
Fairness ==
  \A c \in Calls : /\ WF_vars(\E result \in {"ok", "failed"} : FetchSettles(c, result))
                   /\ WF_vars(Resume(c))

Spec     == Init /\ [][Next]_vars
FairSpec == Spec /\ Fairness

-----------------------------------------------------------------------------
(* Properties *)

\* Every variable stays in its type.
TypeOK ==
  /\ now \in Time
  /\ disk \in [Paths -> Entry \cup {None}]
  /\ memory \in [Keys -> Entry \cup {None}]
  /\ revision \in Nat
  /\ latestRequests \in [Keys -> 0..revision] /\ latestDisk \in [Paths -> 0..revision]
  /\ inFlight \in [Scopes \X BOOLEAN -> Calls \cup {None}]
  /\ args \in [Calls -> Args \cup {None}]
  /\ st \in [Calls -> {"new", "waiting", "hit", "fetched", "stale", "failed", "aborted"}]
  /\ aborted \in SUBSET Calls
  /\ request \in [Calls -> Calls \cup {None}]
  /\ req \in [Calls -> [rev : Nat, at : Time, result : {"none", "pending", "ok", "failed"}]]
  /\ answer \in [Calls -> Entry \cup {None}]

\* Nobody is ever given a list fetched with another base URL or key, although
\* a path has a single disk slot that the scopes overwrite in turn.
ScopesAreIsolated ==
  /\ \A k \in Keys : memory[k] # None => memory[k].scope = k[1]
  /\ \A c \in Calls : answer[c] # None => answer[c].scope = Scope(c)

\* A call whose answer is saved has no younger one beside it, for that file or entry.
NewestWritten ==
  \A c \in Calls :
    LET younger(d) == request[d] # None /\ req[request[d]].rev > req[request[c]].rev
    IN (Resumes(c) /\ st'[c] = "fetched") =>
         /\ (\E d \in Calls : younger(d) /\ Key(d) = Key(c)) => memory' = memory
         /\ (\E d \in Calls : younger(d) /\ Path(d) = Path(c)) => disk' = disk

\* A saved answer is the newest anybody asked for: no call on the same file,
\* and for memory the same scope, awaits or awaited a younger request.
OnlyTheNewestIsWritten == [][NewestWritten]_vars

\* An entry is never made to look younger than its request: what is returned
\* as a fresh hit was asked for less than a TTL ago.
AgeIsHonest ==
  LET honest(e) == e # None => (e.by # None => e.at = req[e.by].at)
  IN (\A k \in Keys : honest(memory[k])) /\ (\A p \in Paths : honest(disk[p]))

\* A cancelled call changes no cache, and a call that can be cancelled never
\* shares its request: cancelling it cancels nobody else's.
CancellationIsPrivate ==
  \A c \in Calls : request[c] # None =>
    ((args[c].signal \/ args[request[c]].signal) => request[c] = c)

\* Together: no call gets, keeps or loses a list because of another scope, an
\* older request or somebody else's cancellation (gateway-catalog.ts:366-486).
CacheInv == TypeOK /\ ScopesAreIsolated /\ AgeIsHonest /\ CancellationIsPrivate

\* What a call that fetches knows of its request: it is the call's own or one it shares,
\* of its scope, and no younger than the barriers the call has raised.
RequestOK(c) ==
  /\ st[c] = "new" => request[c] = None /\ req[c] = NoRequest /\ answer[c] = None
  /\ st[c] # "new" => args[c] \in Args
  /\ st[c] = "waiting" => request[c] # None
  /\ req[c].rev <= revision
  /\ request[c] # None =>
       /\ request[request[c]] = request[c] /\ Scope(request[c]) = Scope(c)
       /\ req[request[c]].result # "none"
       /\ req[request[c]].rev <= latestRequests[Key(c)] /\ req[request[c]].rev <= latestDisk[Path(c)]

RequestsInv == \A c \in Calls : RequestOK(c)

\* Only requests that nobody can cancel are shared, within their scope.
SharedInv ==
  \A s \in Scopes, force \in BOOLEAN :
    LET q == inFlight[<<s, force>>] IN
    q # None => request[q] = q /\ Scope(q) = s /\ ~args[q].signal

\* Whoever fetched an entry has made its request.
EntriesInv ==
  LET made(e) == e # None /\ e.by # None => req[e.by].result # "none"
  IN (\A k \in Keys : made(memory[k])) /\ (\A p \in Paths : made(disk[p]))

\* The inductive invariant.
CatalogInv == CacheInv /\ RequestsInv /\ SharedInv /\ EntriesInv

\* Every call returns, as its request has a timeout (gateway-catalog.ts:443-486).
EveryCallReturns == \A c \in Calls : st[c] = "waiting" ~> st[c] # "waiting"
=============================================================================
