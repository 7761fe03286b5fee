-------------------------- MODULE CatalogCoordinator --------------------------
(***************************************************************************)
(* The refresh coordinator of one extension instance                       *)
(* (provider/catalog-coordinator.ts) wired as provider/index.ts wires it.  *)
(*                                                                         *)
(* Callers ask for a catalog refresh; the coordinator merges the calls     *)
(* into jobs, runs one job at a time and keeps at most one queued network  *)
(* job and one queued local job.  The host runs a job, calls the provider  *)
(* back zero or more times, and settles the job's promise.                 *)
(*                                                                         *)
(* A job is named by the request that created it.  JavaScript runs each    *)
(* handler to completion, so a handler is one action; the awaits of the    *)
(* code are the places where actions interleave.                           *)
(*                                                                         *)
(* A definition whose name ends in _Bug is not part of the specification:  *)
(* it is the definition after it with a mistake a programmer could make,   *)
(* and README.md says which property notices the mistake.                  *)
(***************************************************************************)
EXTENDS Naturals

CONSTANTS
  Requests,        \* the calls of request(), each made at most once
  Signals,         \* AbortSignals the host passes to provider callbacks
  NoJob,           \* an empty slot
  NoSignal,        \* a callback of a host that passes no signal
  Ext,             \* this instance's fetches that belong to no job
  Other,           \* fetches of another instance on the shared service
  SharedService,   \* is there another instance in the process?
  ForeignCallbacks,\* do callbacks arrive that no job of ours caused?
  MaxStops         \* bound on the number of session stops

ASSUME NamesAssumption ==
  /\ NoJob \notin Requests /\ NoSignal \notin Signals
  /\ Ext \notin Requests /\ Other \notin Requests /\ Ext # Other
ASSUME SwitchesAssumption ==
  /\ SharedService \in BOOLEAN /\ ForeignCallbacks \in BOOLEAN
  /\ MaxStops \in Nat

VARIABLES
  \* the callers
  want,            \* request |-> the kind it asked for
  st,              \* request |-> the state of the promise it was given
  \* the jobs
  kind,            \* job |-> its kind, which an upgrade may change
  runKind,         \* job |-> the kind its run closure was built for
  waiters,         \* job |-> the requests waiting for it
  final,           \* job |-> has it been finalized?
  gen,             \* job |-> the generation it was created in
  runner,          \* job |-> the state of the promise of its run
  \* the coordinator
  running, pendingNetwork, pendingRestore, generation,
  \* provider bookkeeping of the running job
  seen, first, observed, preempted,
  phase,           \* what its last network callback was answered from
  \* the host, the directory (catalog-state.ts) and the shared service
  abortedSignals,
  getters,         \* who waits for the GET in flight on the service
  attempted, succeeded

callerVars   == <<want, st>>
jobVars      == <<kind, runKind, waiters, final, gen>>
slotVars     == <<running, pendingNetwork, pendingRestore>>
providerVars == <<seen, first, observed, preempted, phase>>
counterVars  == <<attempted, succeeded>>
vars == <<callerVars, jobVars, runner, slotVars, generation, providerVars,
          abortedSignals, getters, counterVars>>

Kinds    == {"restore", "normal", "force"}
Results  == {"ok", "errors", "aborted", "throw"}
Outcomes == {"aborted", "errors", "net", "local"}

Fetching == getters # {}
Slots    == {running, pendingNetwork, pendingRestore} \ {NoJob}

Init ==
  /\ want    = [r \in Requests |-> "normal"]
  /\ st      = [r \in Requests |-> "new"]
  /\ kind    = [j \in Requests |-> "normal"]
  /\ runKind = [j \in Requests |-> "normal"]
  /\ waiters = [j \in Requests |-> {}]
  /\ final   = [j \in Requests |-> FALSE]
  /\ gen     = [j \in Requests |-> 0]
  /\ runner  = [j \in Requests |-> "idle"]
  /\ running = NoJob /\ pendingNetwork = NoJob /\ pendingRestore = NoJob
  /\ generation = 0
  /\ seen = FALSE /\ first = NoSignal /\ observed = {}
  /\ preempted = FALSE /\ phase = "none"
  /\ abortedSignals = {}
  /\ getters = {}
  /\ attempted = FALSE /\ succeeded = FALSE

-----------------------------------------------------------------------------
(* pump and startJob *)

Startable(j) ==
  j # NoJob /\ ~final'[j] /\ waiters'[j] # {} /\ gen'[j] = generation'

NextJob_Bug(pn, pr) == IF Startable(pn) THEN pn ELSE NoJob

\* The job pump() takes when the slot of the running job is free.
NextJob(pn, pr) == IF Startable(pn) THEN pn ELSE IF Startable(pr) THEN pr ELSE NoJob

\* A new job, or none, has the bookkeeping of a job no callback has reached.
FreshProvider ==
  /\ seen' = FALSE /\ first' = NoSignal /\ observed' = {}
  /\ preempted' = FALSE /\ phase' = "none"

\* startJob: begin() resets the directory's counters and the run is called.
Start(j, rs) ==
  /\ runner' = [rs EXCEPT ![j] = "active"]
  /\ attempted' = Fetching' /\ succeeded' = FALSE

Pump_Bug(rn, pn, pr, rs) ==
  /\ running' = rn /\ pendingNetwork' = pn /\ pendingRestore' = pr
  /\ runner' = rs
  /\ UNCHANGED <<providerVars, counterVars>>

\* pump() with rn running, pn and pr queued and the runs rs.
Pump(rn, pn, pr, rs) ==
  LET next == NextJob(pn, pr) IN
  \/ /\ rn # NoJob
     /\ running' = rn /\ pendingNetwork' = pn /\ pendingRestore' = pr
     /\ runner' = rs
     /\ UNCHANGED <<providerVars, counterVars>>
  \/ /\ rn = NoJob /\ next = NoJob
     /\ running' = NoJob /\ pendingNetwork' = NoJob /\ pendingRestore' = NoJob
     /\ runner' = rs
     /\ FreshProvider
     /\ UNCHANGED counterVars
  \/ /\ rn = NoJob /\ next # NoJob
     /\ running' = next
     /\ pendingNetwork' = NoJob
     /\ pendingRestore' = IF next = pn THEN pr ELSE NoJob
     /\ Start(next, rs)
     /\ FreshProvider

Without(slot, j) == IF slot = j THEN NoJob ELSE slot

-----------------------------------------------------------------------------
(* request *)

Live(j) == j # NoJob /\ ~final[j]

\* A force may ride on a running normal job once a GET is in flight.
Upgrades(k) ==
  k = "force" /\ Live(running) /\ kind[running] = "normal" /\ Fetching

NetworkTarget(k) ==
  IF \/ Live(running) /\ kind[running] = "force"
     \/ Live(running) /\ kind[running] = "normal" /\ k = "normal"
     \/ Upgrades(k)
  THEN running
  ELSE IF Live(pendingNetwork) THEN pendingNetwork ELSE NoJob

RestoreTarget ==
  IF Live(running) /\ kind[running] = "restore" THEN running
  ELSE IF Live(pendingRestore) THEN pendingRestore ELSE NoJob

TargetFor(k) == IF k = "restore" THEN RestoreTarget ELSE NetworkTarget(k)

\* The caller's signal was aborted already: nothing is queued.
RequestCancelled(r, k) ==
  /\ st[r] = "new"
  /\ want' = [want EXCEPT ![r] = k]
  /\ st'   = [st EXCEPT ![r] = "rejected"]
  /\ UNCHANGED <<jobVars, runner, slotVars, generation, providerVars,
                 abortedSignals, getters, counterVars>>

JoinJob(r, k, j) ==
  /\ waiters' = [waiters EXCEPT ![j] = @ \cup {r}]
  /\ kind' = IF k = "force" THEN [kind EXCEPT ![j] = "force"] ELSE kind
  /\ runKind' = IF k = "force" /\ j = pendingNetwork /\ kind[j] = "normal"
                THEN [runKind EXCEPT ![j] = "force"] ELSE runKind
  /\ UNCHANGED <<final, gen, runner, slotVars, providerVars, counterVars>>

NewJob(r, k) ==
  /\ waiters' = [waiters EXCEPT ![r] = {r}]
  /\ kind'    = [kind EXCEPT ![r] = k]
  /\ runKind' = [runKind EXCEPT ![r] = k]
  /\ gen'     = [gen EXCEPT ![r] = generation]
  /\ UNCHANGED final
  /\ Pump(running, IF k = "restore" THEN pendingNetwork ELSE r,
          IF k = "restore" THEN r ELSE pendingRestore, runner)

Request(r, k) ==
  /\ st[r] = "new"
  /\ want' = [want EXCEPT ![r] = k]
  /\ st'   = [st EXCEPT ![r] = "waiting"]
  /\ UNCHANGED <<generation, abortedSignals, getters>>
  /\ \/ TargetFor(k) # NoJob /\ JoinJob(r, k, TargetFor(k))
     \/ TargetFor(k) = NoJob /\ NewJob(r, k)

-----------------------------------------------------------------------------
(* The caller's signal aborts; the last waiter takes the job with it. *)

Leave(r, j) ==
  /\ r \in waiters[j]
  /\ waiters' = [waiters EXCEPT ![j] = @ \ {r}]
  /\ st' = [st EXCEPT ![r] = "rejected"]
  /\ UNCHANGED <<want, kind, runKind, gen, generation, abortedSignals>>

WaiterAborts(r, j) ==
  /\ Leave(r, j)
  /\ waiters[j] # {r}
  /\ UNCHANGED <<final, runner, slotVars, providerVars, getters, counterVars>>

\* abortJob
LastWaiterAborts(r, j) ==
  /\ Leave(r, j)
  /\ waiters[j] = {r}
  /\ IF final[j]
     THEN UNCHANGED <<final, runner, slotVars, providerVars, getters, counterVars>>
     ELSE /\ final' = [final EXCEPT ![j] = TRUE]
          /\ getters' = getters \ {j}
          /\ Pump(Without(running, j), Without(pendingNetwork, j),
                  Without(pendingRestore, j), runner)

-----------------------------------------------------------------------------
(* The host settles the promise of a run; execute() continues later. *)

\* A host awaits its provider, unless the refresh was cancelled under it; it
\* may then still report success.
RunSettles(j, res) ==
  /\ runner[j] = "active"
  /\ j \in getters => res = "aborted" \/ observed \cap abortedSignals # {}
  /\ final[j] => res = "ok"     \* what nobody waits for is not told apart
  /\ runner' = [runner EXCEPT ![j] = res]
  /\ UNCHANGED <<callerVars, jobVars, slotVars, generation, providerVars,
                 abortedSignals, getters, counterVars>>

Stale(j) == final[j] \/ gen[j] # generation
Settled(j) == runner[j] \in Results
RunDone(j) == [runner EXCEPT ![j] = "done"]

SettleAll(S, o) == st' = [r \in Requests |-> IF r \in S THEN o ELSE st[r]]

\* The completion of a job that was aborted or stopped is dropped.
DropLateResult(j) ==
  /\ Settled(j) /\ Stale(j)
  /\ runner' = RunDone(j)
  /\ UNCHANGED <<callerVars, jobVars, slotVars, generation, providerVars,
                 abortedSignals, getters, counterVars>>

FailJob(j) ==
  /\ runner[j] = "throw" /\ ~Stale(j)
  /\ final' = [final EXCEPT ![j] = TRUE]
  /\ SettleAll(waiters[j], "rejected")
  /\ waiters' = [waiters EXCEPT ![j] = {}]
  /\ UNCHANGED <<want, kind, runKind, gen, generation, abortedSignals, getters>>
  /\ Pump(Without(running, j), Without(pendingNetwork, j),
          Without(pendingRestore, j), RunDone(j))

RunAborted_Bug(j) == runner[j] = "aborted" \/ preempted

RunAborted(j) ==
  runner[j] = "aborted" \/ observed \cap abortedSignals # {} \/ preempted

OutcomeOf(j) ==
  IF RunAborted(j) THEN "aborted"
  ELSE IF runner[j] = "errors" THEN "errors"
  ELSE IF succeeded THEN "net" ELSE "local"

Absorbs_Bug(j) ==
  /\ attempted /\ ~RunAborted(j)
  /\ pendingNetwork # NoJob
  /\ kind[pendingNetwork] = "force"

\* Does the round that ends with job j answer the queued force as well?
Absorbs(j) ==
  /\ kind[j] # "restore"
  /\ OutcomeOf(j) = "net" \/ (attempted /\ ~RunAborted(j))
  /\ pendingNetwork # NoJob
  /\ kind[pendingNetwork] = "force"

FinishJob(j) ==
  /\ runner[j] \in {"ok", "errors", "aborted"} /\ ~Stale(j) /\ running = j
  /\ UNCHANGED <<want, kind, runKind, gen, generation, abortedSignals, getters>>
  /\ LET done == IF Absorbs(j) THEN {j, pendingNetwork} ELSE {j} IN
     /\ final' = [i \in Requests |-> final[i] \/ i \in done]
     /\ SettleAll(UNION {waiters[i] : i \in done}, OutcomeOf(j))
     /\ waiters' = [i \in Requests |-> IF i \in done THEN {} ELSE waiters[i]]
     /\ Pump(NoJob, IF Absorbs(j) THEN NoJob ELSE pendingNetwork,
             pendingRestore, RunDone(j))

-----------------------------------------------------------------------------
(* The provider callback: coordinator.provider and directory.refresh *)

\* directory.refresh: a local read, the GET in flight, the cache or a new GET.
Execute(who, allow, force) ==
  \/ /\ ~allow
     /\ UNCHANGED <<getters, phase, counterVars>>
  \/ /\ allow
     /\ getters' = getters \cup {who}
     /\ phase' = IF who = Ext THEN phase ELSE "get"
     /\ UNCHANGED counterVars
  \/ /\ allow /\ ~force /\ ~Fetching
     /\ phase' = IF who = Ext THEN phase ELSE "cache"
     /\ attempted' = FALSE /\ succeeded' = FALSE
     /\ UNCHANGED getters

\* The callbacks of a run carry what its closure was built for and one signal;
\* a callback somebody else caused carries anything.
HostCalls(own, sig, allow, force) ==
  IF own
  THEN /\ running # NoJob /\ runner[running] = "active"
       /\ allow => runKind[running] # "restore"
       /\ force = (runKind[running] = "force")
       /\ seen => sig = first \/ ForeignCallbacks
  ELSE ForeignCallbacks

CallbackCancelled(sig) ==
  /\ sig \in abortedSignals
  /\ Live(running) /\ (~seen \/ sig = first)
  /\ observed' = observed \cup {sig}
  /\ UNCHANGED <<seen, first, preempted, phase, getters, counterVars>>

CallbackWithoutJob(sig, allow, force) ==
  /\ sig \notin abortedSignals /\ ~Live(running)
  /\ UNCHANGED <<seen, first, observed, preempted>>
  /\ Execute(Ext, allow, force)

Foreign(sig) == seen /\ sig # NoSignal /\ sig # first

CallbackPreempts(sig, allow, force) ==
  /\ sig \notin abortedSignals /\ Live(running) /\ Foreign(sig)
  /\ preempted' = (preempted \/ first \in abortedSignals)
  /\ UNCHANGED <<seen, first, observed>>
  /\ Execute(Ext, allow, force)

ForceWanted ==
  \/ kind[running] = "force"
  \/ pendingNetwork # NoJob /\ kind[pendingNetwork] = "force"

CallbackOfJob(sig, allow, force) ==
  /\ sig \notin abortedSignals /\ Live(running) /\ ~Foreign(sig)
  /\ seen' = TRUE
  /\ first' = IF seen THEN first ELSE sig
  /\ observed' = observed \cup ({sig} \ {NoSignal})
  /\ UNCHANGED preempted
  /\ Execute(running, allow, force \/ ForceWanted)

Provider(own, sig, allow, force) ==
  /\ HostCalls(own, sig, allow, force)
  /\ UNCHANGED <<callerVars, jobVars, runner, slotVars, generation, abortedSignals>>
  /\ \/ CallbackCancelled(sig)
     \/ CallbackWithoutJob(sig, allow, force)
     \/ CallbackPreempts(sig, allow, force)
     \/ CallbackOfJob(sig, allow, force)

-----------------------------------------------------------------------------
(* The host's signals, the GET of the shared service, the session's end *)

HostAborts(sig) ==
  /\ sig \notin abortedSignals
  /\ abortedSignals' = abortedSignals \cup {sig}
  /\ UNCHANGED <<callerVars, jobVars, runner, slotVars, generation,
                 providerVars, getters, counterVars>>

OtherInstanceFetches ==
  /\ SharedService /\ Other \notin getters
  /\ getters' = getters \cup {Other}
  /\ UNCHANGED <<callerVars, jobVars, runner, slotVars, generation,
                 providerVars, abortedSignals, counterVars>>

\* Every waiter of the GET gets its result; ours store it in the directory.
GetSettles(ok) ==
  /\ Fetching
  /\ getters' = {}
  /\ IF getters = {Other} THEN UNCHANGED counterVars
     ELSE attempted' = TRUE /\ succeeded' = ok
  /\ UNCHANGED <<callerVars, jobVars, runner, slotVars, generation,
                 providerVars, abortedSignals>>

\* stopRefreshes: coordinator.stop() and directory.invalidate().
Stop ==
  /\ generation < MaxStops
  /\ generation' = generation + 1
  /\ final' = [j \in Requests |-> final[j] \/ j \in Slots]
  /\ SettleAll(UNION {waiters[j] : j \in Slots}, "rejected")
  /\ waiters' = [j \in Requests |-> IF j \in Slots THEN {} ELSE waiters[j]]
  /\ running' = NoJob /\ pendingNetwork' = NoJob /\ pendingRestore' = NoJob
  /\ getters' = getters \cap {Other}
  /\ attempted' = FALSE /\ succeeded' = FALSE
  /\ FreshProvider
  /\ UNCHANGED <<want, kind, runKind, gen, runner, abortedSignals>>

-----------------------------------------------------------------------------
Caller ==
  \/ \E r \in Requests, k \in Kinds : Request(r, k) \/ RequestCancelled(r, k)
  \/ \E r, j \in Requests : WaiterAborts(r, j) \/ LastWaiterAborts(r, j)

Continue(j) == DropLateResult(j) \/ FailJob(j) \/ FinishJob(j)

Host ==
  \/ \E j \in Requests, res \in Results : RunSettles(j, res)
  \/ \E own, allow, force \in BOOLEAN, sig \in Signals \cup {NoSignal} :
       Provider(own, sig, allow, force)
  \/ \E sig \in Signals : HostAborts(sig)
  \/ OtherInstanceFetches
  \/ \E ok \in BOOLEAN : GetSettles(ok)

Next == Caller \/ Host \/ (\E j \in Requests : Continue(j)) \/ Stop

Spec == Init /\ [][Next]_vars

-----------------------------------------------------------------------------
(* Properties *)

\* Every variable stays in its type.
TypeOK ==
  /\ want \in [Requests -> Kinds]
  /\ st \in [Requests -> {"new", "waiting", "rejected"} \cup Outcomes]
  /\ kind \in [Requests -> Kinds] /\ runKind \in [Requests -> Kinds]
  /\ waiters \in [Requests -> SUBSET Requests]
  /\ final \in [Requests -> BOOLEAN]
  /\ gen \in [Requests -> Nat] /\ generation \in Nat
  /\ runner \in [Requests -> {"idle", "active", "done"} \cup Results]
  /\ running \in Requests \cup {NoJob}
  /\ pendingNetwork \in Requests \cup {NoJob}
  /\ pendingRestore \in Requests \cup {NoJob}
  /\ seen \in BOOLEAN /\ first \in Signals \cup {NoSignal}
  /\ observed \in SUBSET Signals /\ preempted \in BOOLEAN
  /\ phase \in {"none", "cache", "get"}
  /\ abortedSignals \in SUBSET Signals
  /\ getters \in SUBSET (Requests \cup {Ext, Other})
  /\ attempted \in BOOLEAN /\ succeeded \in BOOLEAN

\* No caller is forgotten or served twice: a request waits exactly when one
\* of the three slots holds a job it waits for, and it waits for no other
\* job.  Merging, upgrading, absorbing and aborting all move waiters about.
NoLostWaiter ==
  \A r \in Requests :
    /\ st[r] = "waiting" <=> \E j \in Slots : r \in waiters[j]
    /\ \A i, j \in Requests : r \in waiters[i] \cap waiters[j] => i = j

\* No lost wake-up: whatever path freed the running slot (abort, failure,
\* completion, stop), nothing stays queued while nothing runs.
NothingQueuedWhileIdle ==
  running = NoJob => pendingNetwork = NoJob /\ pendingRestore = NoJob

\* Requests are only merged with requests their job can answer: a restore with
\* restores, a force only with a job that ends up forced.
MergedByKind ==
  \A j \in Slots : \A r \in waiters[j] :
    /\ want[r] = "restore" <=> kind[j] = "restore"
    /\ want[r] = "force" => kind[j] = "force"

\* The strengthening the proofs use: what the slots hold is live and current,
\* what they do not hold has no waiters, and only the running job has run.
SlotsDistinct ==
  /\ running # NoJob => running \notin {pendingNetwork, pendingRestore}
  /\ pendingNetwork # NoJob => pendingNetwork # pendingRestore
SlotsLive ==
  /\ \A j \in Slots : /\ ~final[j] /\ gen[j] = generation
                     /\ waiters[j] # {} /\ st[j] # "new"
  /\ \A j \in Requests \ Slots : waiters[j] = {}
SlotsByKind ==
  /\ pendingNetwork # NoJob => kind[pendingNetwork] # "restore"
  /\ pendingRestore # NoJob => kind[pendingRestore] = "restore"
OnlyRunningHasRun ==
  \A j \in Requests : /\ runner[j] # "idle" /\ ~final[j] => j = running
                      /\ st[j] = "new" => ~final[j]
SlotInv == SlotsDistinct /\ SlotsLive /\ SlotsByKind /\ OnlyRunningHasRun
\* The signal a job belongs to is one of those whose abort ends it.
FirstIsObserved == first # NoSignal => first \in observed
IInv == TypeOK /\ NoLostWaiter /\ NothingQueuedWhileIdle /\ MergedByKind /\ SlotInv

\* A promise is settled at most once, also when the run, the caller's abort,
\* the absorption into another job and a stop race.
SettledOnce == [][\A r \in Requests : st[r] \notin {"new", "waiting"} => st'[r] = st[r]]_vars

\* A job the coordinator let go of (aborted, stopped) delivers nothing, however
\* late its run completes: only the running job of this generation resolves.
OnlyTheRunningJobDelivers ==
  [][\A r \in Requests :
       st[r] = "waiting" /\ st'[r] \in Outcomes =>
         /\ Live(running) /\ Settled(running) /\ gen[running] = generation
         /\ \/ r \in waiters[running]
            \/ /\ pendingNetwork # NoJob /\ r \in waiters[pendingNetwork]
               /\ kind[pendingNetwork] = "force" /\ kind[running] # "restore"]_vars

\* A refresh the host cancelled is never reported as done, even when the host
\* claims success and even when another callback took over before.
NoSuccessAfterPreemption ==
  [][\A r \in Requests :
       st[r] = "waiting" /\ st'[r] \in {"net", "local"} => first \notin abortedSignals]_vars

\* A forced refresh is never answered by a round that took the cache.
ForceNotAnsweredFromCache ==
  [][\A r \in Requests :
       st[r] = "waiting" /\ st'[r] = "local" /\ want[r] = "force" => phase # "cache"]_vars

Promises == INSTANCE CatalogPromises
\* The coordinator implements the promises of CatalogPromises.
ImplementsPromises == Promises!PromisesSpec
=============================================================================
