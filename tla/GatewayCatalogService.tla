------------------------ MODULE GatewayCatalogService ------------------------
(***************************************************************************)
(* The catalog service all extension instances of a process share          *)
(* (models/gateway-catalog-service.ts): for one cache file a current slot,  *)
(* replaced and invalidated when the key changes; in a slot at most one     *)
(* fetch task, which requests of any instance join and leave one by one.   *)
(*                                                                         *)
(* A task is known by the request that created it, a list of models by its *)
(* storedAt, 0 being no list.  The local copies GatewayCatalog keeps in     *)
(* memory and on disk are the one number cache[k].  The recovery round      *)
(* appears as recovering, what recovery.hasParticipants() answers.         *)
(***************************************************************************)
EXTENDS Integers

CONSTANTS
  Requests,        \* the requests, each made once
  Keys,            \* (base URL, key) pairs
  Modes,           \* what requests ask for: "local", "normal", "force"
  MaxServices,     \* bound on the services created for the file
  MaxSaves,        \* bound on the lists another process saves
  Cancelled, None  \* no outcome: rejected; nothing

Services == 1..MaxServices

\* What a request can be answered with.
Outcomes == [attempted : BOOLEAN, succeeded : BOOLEAN, failed : BOOLEAN, list : Nat]

ASSUME ServiceAssumption ==
  /\ {None, Cancelled} \cap Requests = {} /\ None # Cancelled
  /\ None \notin Outcomes /\ Cancelled \notin Outcomes
  /\ Modes \subseteq {"local", "normal", "force"}
  /\ MaxServices \in Nat \ {0} /\ MaxSaves \in Nat

VARIABLES
  cur,             \* the slot's service, 0 before the first
  scope,           \* service |-> its key
  snapshot,        \* service |-> its list
  task,            \* service |-> its current task
  recovering,      \* service |-> has its recovery round participants?
  tk,              \* task |-> its record
  st,              \* request |-> "new" .. "resolved" or "rejected"
  svc,             \* request |-> the service it was made to, 0 before
  mode,            \* request |-> what it asks for
  job,             \* request |-> the task it waits for
  aborted,         \* requests whose signal was aborted
  outcome,         \* request |-> what it resolved with
  cache,           \* key |-> the newest local copy
  stamp,           \* Date.now(): the last storedAt given out
  saves            \* lists other processes saved

slot    == <<cur, scope, snapshot, task, recovering>>
callers == <<st, svc, mode, job, aborted, outcome>>
local   == <<cache, stamp, saves>>
vars    == <<slot, tk, callers, local>>

Outcome(attempted, succeeded, failed, list) ==
  [attempted |-> attempted, succeeded |-> succeeded, failed |-> failed, list |-> list]

NoTask ==
  [phase |-> "none", force |-> FALSE, cached |-> FALSE, aborted |-> FALSE,
   at |-> 0, ok |-> FALSE, result |-> None, race |-> None, settled |-> FALSE]

Init ==
  /\ cur = 0
  /\ scope = [v \in Services |-> None]
  /\ snapshot = [v \in Services |-> 0]
  /\ task = [v \in Services |-> None]
  /\ recovering = [v \in Services |-> FALSE]
  /\ tk = [r \in Requests |-> NoTask]
  /\ st = [r \in Requests |-> "new"]
  /\ svc = [r \in Requests |-> 0]
  /\ mode = [r \in Requests |-> None]
  /\ job = [r \in Requests |-> None]
  /\ aborted = {}
  /\ outcome = [r \in Requests |-> None]
  /\ cache \in [Keys -> {0, 1}]
  /\ stamp = 1
  /\ saves = 0

Larger(a, b) == IF a >= b THEN a ELSE b

\* A service is invalidated when, and only when, the slot gets another one.
Valid(v)   == v = cur
Waiters(t) == {r \in Requests : st[r] = "waiting" /\ job[r] = t}

\* read(): the snapshot after a look at the local copies.
ReadList(v) == Larger(snapshot[v], cache[scope[v]])

\* Of execute and the abort of the controller the first settles the race.
Won(t, result) == IF tk[t].race = None THEN result ELSE tk[t].race

Aborting(t) == [tk[t] EXCEPT !.aborted = TRUE, !.race = Won(t, Cancelled)]

Settle(r, how, result) ==
  /\ st' = [st EXCEPT ![r] = how]
  /\ outcome' = [outcome EXCEPT ![r] = result]

Reject(r) == Settle(r, "rejected", None)

-----------------------------------------------------------------------------
(* getGatewayCatalogService: the slot of the file *)

Invalidated_Bug(t) == [tk[t] EXCEPT !.force = tk[t].force]

Invalidated(t) == Aborting(t)

\* A key the slot is not for: the old service is invalidated and replaced.
SwitchKey(k) ==
  /\ cur < MaxServices
  /\ cur \notin {v \in Services : scope[v] = k}
  /\ cur' = cur + 1
  /\ scope' = [scope EXCEPT ![cur + 1] = k]
  /\ snapshot' = [v \in Services |-> IF v = cur THEN 0 ELSE snapshot[v]]
  /\ task' = [v \in Services |-> IF v = cur THEN None ELSE task[v]]
  /\ recovering' = [v \in Services |-> v # cur /\ recovering[v]]
  /\ tk' = [t \in Requests |->
              IF cur # 0 /\ t = task[cur] THEN Invalidated(t) ELSE tk[t]]
  /\ UNCHANGED <<callers, local>>

-----------------------------------------------------------------------------
(* request() *)

LiveTask(v) == task[v] # None /\ ~tk[task[v]].aborted

\* A force does not join a task that has already decided for the cache.
MustDefer_Bug(v, m) == FALSE

MustDefer(v, m) == LiveTask(v) /\ m = "force" /\ tk[task[v]].cached

ReadLocally(r, v) ==
  /\ snapshot' = [snapshot EXCEPT ![v] = ReadList(v)]
  /\ Settle(r, "resolved", Outcome(FALSE, FALSE, FALSE, ReadList(v)))
  /\ UNCHANGED <<task, tk, job>>

Defer(r, v) ==
  /\ st' = [st EXCEPT ![r] = "deferred"]
  /\ job' = [job EXCEPT ![r] = task[v]]
  /\ UNCHANGED <<snapshot, task, tk, outcome>>

Joined(t, m) == [tk[t] EXCEPT !.force = @ \/ m = "force"]

JoinTask(r, v, m) ==
  /\ tk' = [tk EXCEPT ![task[v]] = Joined(task[v], m)]
  /\ job' = [job EXCEPT ![r] = task[v]]
  /\ st' = [st EXCEPT ![r] = "waiting"]
  /\ UNCHANGED <<snapshot, task, outcome>>

CreateTask(r, v, m) ==
  /\ task' = [task EXCEPT ![v] = r]
  /\ tk' = [tk EXCEPT ![r] = [NoTask EXCEPT !.phase = "queued", !.force = (m = "force")]]
  /\ job' = [job EXCEPT ![r] = r]
  /\ st' = [st EXCEPT ![r] = "waiting"]
  /\ UNCHANGED <<snapshot, outcome>>

\* The part of request() after the checks of the signal and of the service.
Submit(r, v, m) ==
  \/ m = "local" /\ ReadLocally(r, v)
  \/ m # "local" /\ MustDefer(v, m) /\ Defer(r, v)
  \/ m # "local" /\ ~MustDefer(v, m) /\ LiveTask(v) /\ JoinTask(r, v, m)
  \/ m # "local" /\ ~LiveTask(v) /\ CreateTask(r, v, m)

\* An instance asks the current service, which is for its key.
Request(r, m) ==
  /\ cur # 0 /\ st[r] = "new"
  /\ svc' = [svc EXCEPT ![r] = cur]
  /\ mode' = [mode EXCEPT ![r] = m]
  /\ Submit(r, cur, m)
  /\ UNCHANGED <<cur, scope, recovering, aborted, local>>

RequestAborted(r, m) ==
  /\ cur # 0 /\ st[r] = "new"
  /\ svc' = [svc EXCEPT ![r] = cur]
  /\ mode' = [mode EXCEPT ![r] = m]
  /\ aborted' = aborted \cup {r}
  /\ Reject(r)
  /\ UNCHANGED <<slot, tk, job, local>>

\* A deferred force asks again once the cache task has been delivered.
AskAgain(r) ==
  /\ st[r] = "deferred" /\ tk[job[r]].settled
  /\ IF tk[job[r]].race = Cancelled \/ r \in aborted \/ ~Valid(svc[r])
     THEN Reject(r) /\ UNCHANGED <<snapshot, task, tk, job>>
     ELSE Submit(r, svc[r], mode[r])
  /\ UNCHANGED <<cur, scope, recovering, svc, mode, aborted, local>>

-----------------------------------------------------------------------------
(* waitForTask: each request leaves by itself *)

\* Nobody is left who would want the answer; a decided cache task goes on.
NotKept(v, others) == others = {} /\ ~recovering[v]

Abandons_Bug(t, v, others) == NotKept(v, others)

Abandons(t, v, others) == ~tk[t].cached /\ NotKept(v, others)

SignalAborts(r) ==
  LET t == job[r] IN
  /\ st[r] \in {"waiting", "deferred"} /\ r \notin aborted
  /\ aborted' = aborted \cup {r}
  /\ IF st[r] = "waiting"
     THEN /\ Reject(r)
          /\ tk' = IF Abandons(t, svc[r], Waiters(t) \ {r})
                   THEN [tk EXCEPT ![t] = Aborting(t)] ELSE tk
     ELSE UNCHANGED <<st, outcome, tk>>
  /\ UNCHANGED <<slot, svc, mode, job, local>>

\* A result that was committed before the service was replaced is withheld.
Delivers(r) == ~tk[job[r]].aborted /\ Valid(svc[r])

WaiterSettles(r) ==
  LET result == tk[job[r]].race IN
  /\ st[r] = "waiting" /\ tk[job[r]].settled
  /\ IF result # Cancelled /\ Delivers(r) THEN Settle(r, "resolved", result) ELSE Reject(r)
  /\ UNCHANGED <<slot, tk, svc, mode, job, aborted, local>>

-----------------------------------------------------------------------------
(* The task: the microtask that decides, the fetch, its end *)

ServiceOf(t) == svc[t]
Returned(t, result) == [tk[t] EXCEPT !.phase = "returned", !.result = result]

\* throwIfAborted, or the check in read.
ExecuteCancelled(t) ==
  /\ tk[t].phase = "queued"
  /\ tk[t].aborted \/ ~Valid(ServiceOf(t))
  /\ tk' = [tk EXCEPT ![t] = Returned(t, Cancelled)]
  /\ UNCHANGED <<slot, callers, local>>

\* A list of some age: fresh or not.
ExecuteFromCache(t) ==
  LET v == ServiceOf(t) IN
  /\ tk[t].phase = "queued" /\ ~tk[t].aborted /\ Valid(v)
  /\ ~tk[t].force /\ ReadList(v) # 0
  /\ snapshot' = [snapshot EXCEPT ![v] = ReadList(v)]
  /\ tk' = [tk EXCEPT ![t] = [Returned(t, Outcome(FALSE, FALSE, FALSE, ReadList(v)))
                                EXCEPT !.cached = TRUE]]
  /\ UNCHANGED <<cur, scope, task, recovering, callers, local>>

ExecuteFetch(t) ==
  LET v == ServiceOf(t) IN
  /\ tk[t].phase = "queued" /\ ~tk[t].aborted /\ Valid(v)
  /\ snapshot' = [snapshot EXCEPT ![v] = ReadList(v)]
  /\ stamp' = stamp + 1
  /\ tk' = [tk EXCEPT ![t].phase = "fetching", ![t].at = stamp + 1]
  /\ UNCHANGED <<cur, scope, task, recovering, callers, cache, saves>>

\* getGatewayModelIds returns; a success that was not cancelled is cached,
\* possibly only in memory next to a newer file of another process.
FetchReturns(t, ok) ==
  LET k == scope[ServiceOf(t)] IN
  /\ tk[t].phase = "fetching"
  /\ tk' = [tk EXCEPT ![t].phase = "fetched", ![t].ok = ok]
  /\ IF ok /\ ~tk[t].aborted
     THEN \E list \in {tk[t].at, Larger(tk[t].at, cache[k])} : cache' = [cache EXCEPT ![k] = list]
     ELSE UNCHANGED cache
  /\ UNCHANGED <<slot, callers, stamp, saves>>

Current(t) == Valid(ServiceOf(t)) /\ task[ServiceOf(t)] = t /\ ~tk[t].aborted

NewList_Bug(t, v) == IF tk[t].ok THEN tk[t].at ELSE ReadList(v)

NewList(t, v) == IF tk[t].ok THEN Larger(snapshot[v], tk[t].at) ELSE ReadList(v)

ExecuteContinues(t) ==
  LET v == ServiceOf(t)
      list == NewList(t, v)
  IN /\ tk[t].phase = "fetched"
     /\ IF Current(t)
        THEN /\ snapshot' = [snapshot EXCEPT ![v] = list]
             /\ tk' = [tk EXCEPT ![t] = Returned(t, Outcome(TRUE, tk[t].ok, ~tk[t].ok, list))]
        ELSE /\ tk' = [tk EXCEPT ![t] = Returned(t, Cancelled)]
             /\ UNCHANGED snapshot
     /\ UNCHANGED <<cur, scope, task, recovering, callers, local>>

\* The promise of an async callback settles microtasks after its return: an
\* abort in between wins the race.
ExecuteSettles(t) ==
  /\ tk[t].phase = "returned"
  /\ tk' = [tk EXCEPT ![t].phase = "done", ![t].race = Won(t, tk[t].result)]
  /\ UNCHANGED <<slot, callers, local>>

Released(t) == [v \in Services |-> IF task[v] = t THEN None ELSE task[v]]

\* The finally of the race frees the slot before the waiters are told.
TaskSettles(t) ==
  /\ tk[t].race # None /\ ~tk[t].settled
  /\ tk' = [tk EXCEPT ![t].settled = TRUE]
  /\ task' = Released(t)
  /\ UNCHANGED <<cur, scope, snapshot, recovering, callers, local>>

-----------------------------------------------------------------------------
(* The recovery round of the service, and the world *)

RecoveryJoined(v) ==
  /\ v # 0 /\ Valid(v) /\ ~recovering[v]
  /\ recovering' = [recovering EXCEPT ![v] = TRUE]
  /\ UNCHANGED <<cur, scope, snapshot, task, tk, callers, local>>

OnIdle_Bug(v) == tk

OnIdle(v) ==
  IF task[v] # None /\ Waiters(task[v]) = {} /\ ~tk[task[v]].cached
  THEN [tk EXCEPT ![task[v]] = Aborting(task[v])] ELSE tk

RecoveryIdles(v) ==
  /\ recovering[v]
  /\ recovering' = [recovering EXCEPT ![v] = FALSE]
  /\ tk' = OnIdle(v)
  /\ UNCHANGED <<cur, scope, snapshot, task, callers, local>>

\* Another process saves a newer list.
OtherProcessSaves(k) ==
  /\ saves < MaxSaves
  /\ saves' = saves + 1 /\ stamp' = stamp + 1
  /\ cache' = [cache EXCEPT ![k] = stamp + 1]
  /\ UNCHANGED <<slot, tk, callers>>

Execute(t) == ExecuteCancelled(t) \/ ExecuteFromCache(t) \/ ExecuteFetch(t)

Next ==
  \/ \E k \in Keys : SwitchKey(k) \/ OtherProcessSaves(k)
  \/ \E r \in Requests :
       \/ \E m \in Modes : Request(r, m) \/ RequestAborted(r, m)
       \/ SignalAborts(r) \/ AskAgain(r) \/ WaiterSettles(r)
  \/ \E t \in Requests :
       \/ Execute(t)
       \/ \E ok \in BOOLEAN : FetchReturns(t, ok)
       \/ ExecuteContinues(t) \/ ExecuteSettles(t) \/ TaskSettles(t)
  \/ \E v \in Services : RecoveryJoined(v) \/ RecoveryIdles(v)

\* Safety only: nothing is assumed of microtasks, fetches or callers.
Spec == Init /\ [][Next]_vars

-----------------------------------------------------------------------------
(* Properties *)

Tasks ==
  [phase : {"none", "queued", "fetching", "fetched", "returned", "done"}, force : BOOLEAN,
   cached : BOOLEAN, aborted : BOOLEAN, at : Nat, ok : BOOLEAN,
   result : Outcomes \cup {None, Cancelled},
   race : Outcomes \cup {None, Cancelled}, settled : BOOLEAN]

\* A service's task is one that runs.
TaskRuns ==
  \A v \in Services : task[v] # None =>
    svc[task[v]] = v /\ tk[task[v]].phase # "none" /\ ~tk[task[v]].settled

\* Every variable stays in its type.
TypeOK ==
  /\ cur \in 0..MaxServices
  /\ scope \in [Services -> Keys \cup {None}]
  /\ snapshot \in [Services -> Nat]
  /\ task \in [Services -> Requests \cup {None}]
  /\ recovering \in [Services -> BOOLEAN]
  /\ tk \in [Requests -> Tasks]
  /\ st \in [Requests -> {"new", "waiting", "deferred", "resolved", "rejected"}]
  /\ svc \in [Requests -> 0..MaxServices] /\ mode \in [Requests -> Modes \cup {None}]
  /\ job \in [Requests -> Requests \cup {None}]
  /\ aborted \in SUBSET Requests
  /\ outcome \in [Requests -> Outcomes \cup {None}]
  /\ cache \in [Keys -> Nat] /\ stamp \in Nat /\ saves \in 0..MaxSaves
  /\ TaskRuns

\* A force that is answered was answered by the network, whatever it joined
\* and whichever cache decision was under way.
ForceGoesToTheNetwork ==
  \A r \in Requests : (st[r] = "resolved" /\ mode[r] = "force") => outcome[r].attempted

\* A request is rejected for two reasons: its own signal was aborted, or the
\* service was replaced.  What other requests do never rejects it.
RejectedOnlyForCause ==
  \A r \in Requests : st[r] = "rejected" => (r \in aborted \/ ~Valid(svc[r]))

\* At most one GET that is not cancelled runs for the cache file, also while
\* keys are switched and cancelled fetches linger.
OneLiveFetch ==
  \A t, u \in Requests :
    (/\ tk[t].phase = "fetching" /\ ~tk[t].aborted
     /\ tk[u].phase = "fetching" /\ ~tk[u].aborted) => t = u

\* No undecided task runs on when every request left and no recovery round
\* is there to want its answer.
NoOrphanFetch ==
  \A v \in Services :
    (LiveTask(v) /\ ~tk[task[v]].cached /\ tk[task[v]].race = None)
      => (Waiters(task[v]) # {} \/ recovering[v])

\* Only the current service reads, and it never goes back.
ReadsForward ==
  \A v \in Services : IF v = cur' THEN snapshot'[v] >= snapshot[v] ELSE v < cur' => snapshot'[v] = 0

\* The list of the current service never gets older, and a replaced service,
\* whose fetch may still be under way, holds none again.
ListsOnlyGetNewer == [][ReadsForward]_vars

\* A slot runs one live fetch at most, for somebody, over requests that leave,
\* keys that are switched and recovery rounds that idle
\* (gateway-catalog-service.ts:46-70, 79-81, 110-116, 177-186).
TaskInv == TypeOK /\ OneLiveFetch /\ NoOrphanFetch

\* What a request is promised does not depend on the others it shares a task
\* with (gateway-catalog-service.ts:133-187).
RequestInv == ForceGoesToTheNetwork /\ RejectedOnlyForCause

\* A task runs as the task of the current service until it is aborted or settled, its
\* result is committed once, and it is aborted only if it is wanted no more.
TaskOK(t) ==
  /\ tk[t].phase = "none" <=> job[t] # t
  /\ tk[t].phase = "none" => tk[t] = NoTask
  /\ tk[t].phase # "none" => svc[t] \in 1..cur
  /\ tk[t].phase # "none" /\ ~tk[t].aborted /\ ~tk[t].settled => Valid(svc[t]) /\ task[svc[t]] = t
  /\ tk[t].settled \/ tk[t].aborted => tk[t].race # None
  /\ tk[t].race # None /\ ~tk[t].aborted => tk[t].phase = "done"
  /\ tk[t].race \notin {None, Cancelled} => tk[t].race = tk[t].result
  /\ tk[t].phase \in {"returned", "done"} <=> tk[t].result # None
  /\ tk[t].cached => tk[t].result # None
  /\ tk[t].result \notin {None, Cancelled} /\ ~tk[t].cached => tk[t].result.attempted
  /\ Cancelled \in {tk[t].result, tk[t].race} => tk[t].aborted \/ ~Valid(svc[t])
  /\ tk[t].aborted /\ Valid(svc[t]) => ~tk[t].cached /\ Waiters(t) = {}

\* A request knows a task of its service; a force waits only for one that fetches, and is
\* deferred only by one that does not.
RequestOK(r) ==
  /\ st[r] = "new" => job[r] = None
  /\ st[r] # "new" => svc[r] \in 1..cur
  /\ st[r] \in {"waiting", "deferred"} =>
       job[r] \in Requests /\ tk[job[r]].phase # "none" /\ svc[job[r]] = svc[r]
  /\ st[r] = "waiting" /\ mode[r] = "force" => tk[job[r]].force /\ ~tk[job[r]].cached
  /\ st[r] = "deferred" => job[r] # r /\ tk[job[r]].cached

\* Only the current service has a task and a list, and a service has its key.
ServiceOK(v) ==
  /\ v # cur => task[v] = None /\ snapshot[v] = 0
  /\ v <= cur => scope[v] \in Keys

\* The inductive invariant.
ServiceInv ==
  /\ TaskInv /\ RequestInv
  /\ \A t \in Requests : TaskOK(t)
  /\ \A r \in Requests : RequestOK(r)
  /\ \A v \in Services : ServiceOK(v)
=============================================================================
