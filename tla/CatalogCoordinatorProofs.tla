----------------------- MODULE CatalogCoordinatorProofs -----------------------
(***************************************************************************)
(* Proofs about CatalogCoordinator: its inductive invariant, for any set   *)
(* of requests and signals and with or without other instances.            *)
(***************************************************************************)
EXTENDS CatalogCoordinator, TLAPS

USE NamesAssumption, SwitchesAssumption

SlotType(x) == x \in Requests \cup {NoJob}

-----------------------------------------------------------------------------
(* pump() *)

\* Pumping three slots whose jobs are all startable loses none of them, starts
\* a job if there is one, and starts it in the running slot only.
LEMMA PumpKeepsJobs ==
  ASSUME NEW rn, NEW pn, NEW pr, NEW rs,
         SlotType(rn), SlotType(pn), SlotType(pr),
         rs \in [Requests -> {"idle", "active", "done"} \cup Results],
         rn # NoJob => rn \notin {pn, pr},
         pn # NoJob => pn # pr,
         pn # NoJob => Startable(pn),
         pr # NoJob => Startable(pr),
         Pump(rn, pn, pr, rs)
  PROVE  /\ Slots' = {rn, pn, pr} \ {NoJob}
         /\ SlotType(running') /\ SlotType(pendingNetwork') /\ SlotType(pendingRestore')
         /\ SlotsDistinct'
         /\ NothingQueuedWhileIdle'
         /\ pendingNetwork' \in {pn, NoJob} /\ pendingRestore' \in {pr, NoJob}
         /\ rn # NoJob => running' = rn
         /\ runner' \in [Requests -> {"idle", "active", "done"} \cup Results]
         /\ \A j \in Requests : j # running' \/ rn # NoJob => runner'[j] = rs[j]
  <1>1. CASE rn # NoJob
    BY <1>1 DEF Pump, Slots, SlotType, SlotsDistinct, NothingQueuedWhileIdle
  <1>2. CASE rn = NoJob /\ NextJob(pn, pr) = NoJob
    <2>1. pn = NoJob /\ pr = NoJob
      BY <1>2 DEF NextJob, Startable
    <2> QED
      BY <1>2, <2>1 DEF Pump, Slots, SlotType, SlotsDistinct, NothingQueuedWhileIdle
  <1>3. CASE rn = NoJob /\ NextJob(pn, pr) # NoJob
    <2>1. CASE pn # NoJob
      <3>1. NextJob(pn, pr) = pn
        BY <2>1 DEF NextJob, Startable
      <3>2. /\ running' = pn /\ pendingNetwork' = NoJob /\ pendingRestore' = pr
            /\ runner' = [rs EXCEPT ![pn] = "active"]
        BY <1>3, <3>1, <2>1 DEF Pump, Start
      <3> QED
        BY <1>3, <2>1, <3>2 DEF Slots, SlotType, SlotsDistinct, NothingQueuedWhileIdle
    <2>2. CASE pn = NoJob
      <3>1. NextJob(pn, pr) = pr /\ pr # NoJob
        BY <1>3, <2>2 DEF NextJob, Startable
      <3>2. /\ running' = pr /\ pendingNetwork' = NoJob /\ pendingRestore' = NoJob
            /\ runner' = [rs EXCEPT ![pr] = "active"]
        BY <1>3, <3>1, <2>2 DEF Pump, Start
      <3> QED
        BY <1>3, <2>2, <3>1, <3>2 DEF Slots, SlotType, SlotsDistinct, NothingQueuedWhileIdle
    <2> QED
      BY <2>1, <2>2
  <1> QED
    BY <1>1, <1>2, <1>3

\* The part of the type invariant a pump can disturb besides the slots.
ProviderType ==
  /\ seen \in BOOLEAN /\ first \in Signals \cup {NoSignal}
  /\ observed \in SUBSET Signals /\ preempted \in BOOLEAN
  /\ phase \in {"none", "cache", "get"}
  /\ attempted \in BOOLEAN /\ succeeded \in BOOLEAN

LEMMA PumpKeepsProviderType ==
  ASSUME NEW rn, NEW pn, NEW pr, NEW rs, Pump(rn, pn, pr, rs), ProviderType
  PROVE  ProviderType'
  BY DEF Pump, Start, FreshProvider, ProviderType, providerVars, counterVars, Fetching


-----------------------------------------------------------------------------
(* The steps that move no waiter and change no slot *)

Safe == NoLostWaiter /\ NothingQueuedWhileIdle /\ MergedByKind /\ SlotInv

\* Only runs and the host's bookkeeping change.
LEMMA UntouchedJobs ==
  ASSUME TypeOK, Safe, UNCHANGED <<callerVars, jobVars, slotVars, generation>>,
         \A j \in Requests : runner'[j] # "idle" => runner[j] # "idle"
  PROVE  Safe'
  BY DEF Safe, NoLostWaiter, NothingQueuedWhileIdle, MergedByKind, SlotInv,
         SlotsDistinct, SlotsLive, SlotsByKind, OnlyRunningHasRun, Slots,
         callerVars, jobVars, slotVars

LEMMA RunSettlesStep ==
  ASSUME IInv, NEW j \in Requests, NEW res \in Results, RunSettles(j, res)
  PROVE  IInv'
  <1>1. TypeOK'
    BY DEF IInv, TypeOK, RunSettles, Results, callerVars, jobVars, slotVars,
           providerVars, counterVars
  <1>2. \A i \in Requests : runner'[i] # "idle" => runner[i] # "idle"
    BY DEF IInv, TypeOK, RunSettles
  <1> QED
    BY <1>1, <1>2, UntouchedJobs DEF IInv, Safe, RunSettles

LEMMA DropLateResultStep ==
  ASSUME IInv, NEW j \in Requests, DropLateResult(j)
  PROVE  IInv'
  <1>1. TypeOK'
    BY DEF IInv, TypeOK, DropLateResult, RunDone, callerVars, jobVars, slotVars,
           providerVars, counterVars
  <1>2. \A i \in Requests : runner'[i] # "idle" => runner[i] # "idle"
    BY DEF IInv, TypeOK, DropLateResult, RunDone, Settled, Results
  <1> QED
    BY <1>1, <1>2, UntouchedJobs DEF IInv, Safe, DropLateResult

LEMMA ExecuteType ==
  ASSUME TypeOK, NEW who \in Requests \cup {Ext}, NEW allow \in BOOLEAN,
         NEW force \in BOOLEAN, Execute(who, allow, force)
  PROVE  /\ getters' \in SUBSET (Requests \cup {Ext, Other})
         /\ phase' \in {"none", "cache", "get"}
         /\ attempted' \in BOOLEAN /\ succeeded' \in BOOLEAN
  BY DEF Execute, TypeOK, counterVars

LEMMA ProviderStep ==
  ASSUME IInv, NEW own \in BOOLEAN, NEW allow \in BOOLEAN, NEW force \in BOOLEAN,
         NEW sig \in Signals \cup {NoSignal}, Provider(own, sig, allow, force)
  PROVE  IInv'
  <1> USE DEF IInv
  <1>1. UNCHANGED <<callerVars, jobVars, runner, slotVars, generation, abortedSignals>>
    BY DEF Provider
  <1>2. /\ seen' \in BOOLEAN /\ first' \in Signals \cup {NoSignal}
        /\ observed' \in SUBSET Signals /\ preempted' \in BOOLEAN
        /\ getters' \in SUBSET (Requests \cup {Ext, Other})
        /\ phase' \in {"none", "cache", "get"}
        /\ attempted' \in BOOLEAN /\ succeeded' \in BOOLEAN
    <2>1. CASE CallbackCancelled(sig)
      BY <2>1 DEF CallbackCancelled, TypeOK, counterVars
    <2>2. CASE CallbackWithoutJob(sig, allow, force)
      BY <2>2, ExecuteType DEF CallbackWithoutJob, TypeOK
    <2>3. CASE CallbackPreempts(sig, allow, force)
      BY <2>3, ExecuteType DEF CallbackPreempts, TypeOK
    <2>4. CASE CallbackOfJob(sig, allow, force)
      <3>1. running \in Requests
        BY <2>4 DEF CallbackOfJob, Live, TypeOK
      <3>2. (force \/ ForceWanted) \in BOOLEAN
        BY DEF ForceWanted
      <3>3. Execute(running, allow, force \/ ForceWanted)
        BY <2>4 DEF CallbackOfJob
      <3>4. /\ getters' \in SUBSET (Requests \cup {Ext, Other})
            /\ phase' \in {"none", "cache", "get"}
            /\ attempted' \in BOOLEAN /\ succeeded' \in BOOLEAN
        BY <3>1, <3>2, <3>3, ExecuteType
      <3> QED
        BY <2>4, <3>4 DEF CallbackOfJob, TypeOK
    <2> QED
      BY <2>1, <2>2, <2>3, <2>4 DEF Provider
  <1>3. TypeOK'
    BY <1>1, <1>2 DEF TypeOK, callerVars, jobVars, slotVars
  <1>4. Safe'
    BY <1>1, UntouchedJobs DEF Safe
  <1> QED
    BY <1>3, <1>4 DEF Safe

LEMMA EnvironmentStep ==
  ASSUME IInv,
         \/ \E sig \in Signals : HostAborts(sig)
         \/ OtherInstanceFetches
         \/ \E ok \in BOOLEAN : GetSettles(ok)
  PROVE  IInv'
  <1>1. UNCHANGED <<callerVars, jobVars, runner, slotVars, generation, providerVars>>
    BY DEF HostAborts, OtherInstanceFetches, GetSettles
  <1>2. /\ abortedSignals' \in SUBSET Signals
        /\ getters' \in SUBSET (Requests \cup {Ext, Other})
        /\ attempted' \in BOOLEAN /\ succeeded' \in BOOLEAN
    <2>1. CASE \E sig \in Signals : HostAborts(sig)
      BY <2>1 DEF IInv, TypeOK, HostAborts, counterVars
    <2>2. CASE OtherInstanceFetches
      BY <2>2 DEF IInv, TypeOK, OtherInstanceFetches, counterVars
    <2>3. CASE \E ok \in BOOLEAN : GetSettles(ok)
      BY <2>3 DEF IInv, TypeOK, GetSettles, counterVars
    <2> QED
      BY <2>1, <2>2, <2>3
  <1>3. TypeOK'
    BY <1>1, <1>2 DEF IInv, TypeOK, callerVars, jobVars, slotVars, providerVars
  <1> QED
    BY <1>1, <1>3, UntouchedJobs DEF IInv, Safe

\* A call refused at once was in no job.
LEMMA RequestCancelledStep ==
  ASSUME IInv, NEW r \in Requests, NEW k \in Kinds, RequestCancelled(r, k)
  PROVE  IInv'
  <1> USE DEF IInv
  <1>1. \A j \in Slots : r \notin waiters[j]
    BY DEF RequestCancelled, NoLostWaiter
  <1>2. TypeOK'
    BY DEF RequestCancelled, TypeOK, jobVars, slotVars, providerVars, counterVars
  <1>3. UNCHANGED <<jobVars, runner, slotVars, generation>> /\ Slots' = Slots
    BY DEF RequestCancelled, slotVars, Slots
  <1>4. NoLostWaiter' /\ NothingQueuedWhileIdle'
    BY <1>1, <1>3 DEF RequestCancelled, TypeOK, NoLostWaiter, NothingQueuedWhileIdle,
       jobVars, slotVars
  <1>5. Slots \subseteq Requests
    BY DEF Slots, TypeOK
  <1>6. MergedByKind'
    BY <1>1, <1>3, <1>5 DEF RequestCancelled, TypeOK, MergedByKind, jobVars
  <1>7. SlotInv'
    BY <1>1, <1>3, <1>5 DEF RequestCancelled, TypeOK, SlotInv, SlotsDistinct, SlotsLive,
       SlotsByKind, OnlyRunningHasRun, jobVars, slotVars
  <1> QED
    BY <1>2, <1>4, <1>6, <1>7

-----------------------------------------------------------------------------
(* request *)

\* What a request may join: a live job of the same sort.
LEMMA TargetIsLive ==
  ASSUME IInv, NEW k \in Kinds, TargetFor(k) # NoJob
  PROVE  /\ TargetFor(k) \in Slots
         /\ kind[TargetFor(k)] = "restore" <=> k = "restore"
         /\ TargetFor(k) = pendingRestore => k = "restore"
         /\ k = "normal" => kind[TargetFor(k)] \in {"normal", "force"}
  BY DEF IInv, SlotInv, SlotsByKind, SlotsLive, SlotsDistinct, TargetFor, RestoreTarget,
         NetworkTarget, Upgrades, Live, Slots, TypeOK, Kinds

\* No target: the slot the new job goes to is free.
LEMMA NoTargetIsFree ==
  ASSUME IInv, NEW k \in Kinds, TargetFor(k) = NoJob
  PROVE  /\ k = "restore" => pendingRestore = NoJob
         /\ k # "restore" => pendingNetwork = NoJob
  <1>1. pendingRestore # NoJob => Live(pendingRestore)
    BY DEF IInv, SlotInv, SlotsLive, Live, Slots
  <1>2. pendingNetwork # NoJob => Live(pendingNetwork)
    BY DEF IInv, SlotInv, SlotsLive, Live, Slots
  <1>3. CASE k = "restore"
    BY <1>1, <1>3 DEF TargetFor, RestoreTarget, Live
  <1>4. CASE k # "restore"
    BY <1>2, <1>4 DEF TargetFor, NetworkTarget, Upgrades, Live
  <1> QED
    BY <1>3, <1>4

LEMMA JoinStep ==
  ASSUME IInv, NEW r \in Requests, NEW k \in Kinds, Request(r, k),
         TargetFor(k) # NoJob, JoinJob(r, k, TargetFor(k))
  PROVE  IInv'
  <1> DEFINE j == TargetFor(k)
  <1> USE DEF IInv
  <1>1. /\ j \in Slots /\ j \in Requests
        /\ kind[j] = "restore" <=> k = "restore"
        /\ j = pendingRestore => k = "restore"
    BY TargetIsLive DEF Slots, TypeOK
  <1> HIDE DEF j
  <1>2. /\ waiters' = [waiters EXCEPT ![j] = @ \cup {r}]
        /\ kind' = IF k = "force" THEN [kind EXCEPT ![j] = "force"] ELSE kind
        /\ st[r] = "new" /\ st' = [st EXCEPT ![r] = "waiting"]
        /\ want' = [want EXCEPT ![r] = k]
        /\ UNCHANGED <<final, gen, runner, slotVars, generation>>
        /\ runKind' \in [Requests -> Kinds]
        /\ UNCHANGED <<providerVars, counterVars, abortedSignals, getters>>
    BY DEF JoinJob, Request, j, TypeOK, Kinds
  <1>3. \A i \in Requests : r \notin waiters[i]
    BY <1>2 DEF NoLostWaiter, SlotInv, SlotsLive, TypeOK
  <1>4. Slots' = Slots /\ Slots \subseteq Requests
    BY <1>2 DEF Slots, slotVars, TypeOK
  <1>5. TypeOK'
    BY <1>1, <1>2 DEF TypeOK, slotVars, providerVars, counterVars, Kinds
  <1>6. NoLostWaiter' /\ NothingQueuedWhileIdle'
    BY <1>1, <1>2, <1>3, <1>4 DEF TypeOK, NoLostWaiter, NothingQueuedWhileIdle, slotVars
  <1>7. MergedByKind'
    BY <1>1, <1>2, <1>3, <1>4 DEF TypeOK, MergedByKind, Kinds
  <1>8. SlotInv'
    BY <1>1, <1>2, <1>3, <1>4 DEF TypeOK, SlotInv, SlotsDistinct, SlotsLive, SlotsByKind,
       OnlyRunningHasRun, slotVars
  <1> QED
    BY <1>5, <1>6, <1>7, <1>8

LEMMA NewJobStep ==
  ASSUME IInv, NEW r \in Requests, NEW k \in Kinds, Request(r, k),
         TargetFor(k) = NoJob, NewJob(r, k)
  PROVE  IInv'
  <1> DEFINE pn == IF k = "restore" THEN pendingNetwork ELSE r
             pr == IF k = "restore" THEN r ELSE pendingRestore
  <1> USE DEF IInv
  <1>1. /\ waiters' = [waiters EXCEPT ![r] = {r}]
        /\ kind' = [kind EXCEPT ![r] = k] /\ runKind' = [runKind EXCEPT ![r] = k]
        /\ gen' = [gen EXCEPT ![r] = generation] /\ final' = final
        /\ st[r] = "new" /\ st' = [st EXCEPT ![r] = "waiting"]
        /\ want' = [want EXCEPT ![r] = k]
        /\ UNCHANGED <<generation, abortedSignals, getters>>
        /\ Pump(running, pn, pr, runner)
    BY DEF NewJob, Request
  <1>2. r \notin Slots /\ ~final[r]
    BY <1>1 DEF SlotInv, SlotsLive, OnlyRunningHasRun
  <1>3. /\ {running, pn, pr} \ {NoJob} = Slots \cup {r}
        /\ SlotType(running) /\ SlotType(pn) /\ SlotType(pr)
        /\ running # NoJob => running \notin {pn, pr}
        /\ pn # NoJob => pn # pr
    BY <1>2, NoTargetIsFree DEF Slots, SlotType, TypeOK, SlotInv, SlotsDistinct
  <1>4. \A j \in Slots \cup {r} : Startable(j)
    <2>1. Startable(r)
      BY <1>1, <1>2 DEF Startable, TypeOK
    <2>2. ASSUME NEW j \in Slots PROVE Startable(j)
      <3>1. j \in Requests /\ j # r /\ j # NoJob
        BY <1>2 DEF Slots, TypeOK
      <3>2. ~final[j] /\ waiters[j] # {} /\ gen[j] = generation
        BY DEF SlotInv, SlotsLive
      <3> QED
        BY <1>1, <3>1, <3>2 DEF Startable, TypeOK
    <2> QED
      BY <2>1, <2>2
  <1>5. runner \in [Requests -> {"idle", "active", "done"} \cup Results]
    BY DEF TypeOK
  <1>6. pn = NoJob \/ pn \in Slots \cup {r}
    BY <1>3
  <1>7. pr = NoJob \/ pr \in Slots \cup {r}
    BY <1>3
  <1> HIDE DEF pn, pr
  <1>8. /\ Slots' = Slots \cup {r}
        /\ SlotType(running') /\ SlotType(pendingNetwork') /\ SlotType(pendingRestore')
        /\ SlotsDistinct' /\ NothingQueuedWhileIdle'
        /\ pendingNetwork' \in {pn, NoJob} /\ pendingRestore' \in {pr, NoJob}
        /\ running # NoJob => running' = running
        /\ runner' \in [Requests -> {"idle", "active", "done"} \cup Results]
        /\ \A j \in Requests : j # running' \/ running # NoJob => runner'[j] = runner[j]
    BY <1>1, <1>3, <1>4, <1>5, <1>6, <1>7, PumpKeepsJobs
  <1>9. TypeOK'
    <2>1. ProviderType'
      BY <1>1, PumpKeepsProviderType DEF TypeOK, ProviderType
    <2> QED
      BY <1>1, <1>8, <2>1 DEF TypeOK, ProviderType, SlotType
  <1>10. \A i \in Requests : r \notin waiters[i]
    BY <1>1 DEF NoLostWaiter, SlotInv, SlotsLive, TypeOK
  <1>11. Slots \subseteq Requests
    BY DEF Slots, TypeOK
  <1>12. NoLostWaiter'
    BY <1>1, <1>2, <1>8, <1>10, <1>11 DEF TypeOK, NoLostWaiter, SlotInv, SlotsLive
  <1>13. MergedByKind'
    BY <1>1, <1>2, <1>8, <1>10, <1>11 DEF TypeOK, MergedByKind
  <1>14. SlotInv'
    <2>1. SlotsLive'
      BY <1>1, <1>2, <1>8, <1>10, <1>11 DEF TypeOK, SlotInv, SlotsLive
    <2>2. SlotsByKind'
      BY <1>1, <1>2, <1>8, <1>11 DEF TypeOK, SlotInv, SlotsByKind, pn, pr, Slots
    <2>3. OnlyRunningHasRun'
      BY <1>1, <1>8 DEF TypeOK, SlotInv, OnlyRunningHasRun
    <2> QED
      BY <1>8, <2>1, <2>2, <2>3 DEF SlotInv
  <1> QED
    BY <1>8, <1>9, <1>12, <1>13, <1>14

-----------------------------------------------------------------------------
(* The steps that retire jobs *)

WaitersOf(D) == UNION {waiters[i] : i \in D}

\* Retiring jobs together with everybody who waits for them loses no waiter.
LEMMA RetireJobs ==
  ASSUME IInv, NEW D \in SUBSET Slots, TypeOK',
         Slots' = Slots \ D, SlotsDistinct', NothingQueuedWhileIdle', OnlyRunningHasRun',
         pendingNetwork' \in {pendingNetwork, NoJob},
         pendingRestore' \in {pendingRestore, NoJob},
         UNCHANGED <<want, kind, gen>>,
         generation' = generation \/ D = Slots,
         \A i \in Requests : final'[i] <=> final[i] \/ i \in D,
         \A i \in Requests : waiters'[i] = IF i \in D THEN {} ELSE waiters[i],
         \A r \in WaitersOf(D) : st'[r] \notin {"new", "waiting"},
         \A r \in Requests \ WaitersOf(D) : st'[r] = st[r]
  PROVE  IInv'
  <1> USE DEF IInv
  <1>1. Slots \subseteq Requests /\ WaitersOf(D) \subseteq Requests
    BY DEF Slots, TypeOK, WaitersOf
  <1>2. NoLostWaiter'
    <2>1. ASSUME NEW r \in Requests
          PROVE  st'[r] = "waiting" <=> \E j \in Slots' : r \in waiters'[j]
      <3>1. CASE r \in WaitersOf(D)
        BY <1>1, <3>1 DEF NoLostWaiter, WaitersOf
      <3>2. CASE r \notin WaitersOf(D)
        BY <1>1, <3>2 DEF NoLostWaiter, WaitersOf
      <3> QED
        BY <3>1, <3>2
    <2>2. \A r, i, j \in Requests : r \in waiters'[i] \cap waiters'[j] => i = j
      BY DEF NoLostWaiter
    <2> QED
      BY <2>1, <2>2 DEF NoLostWaiter
  <1>3. MergedByKind'
    BY <1>1 DEF MergedByKind
  <1>4. SlotsLive'
    <2>1. ASSUME NEW j \in Slots'
          PROVE  /\ ~final'[j] /\ gen'[j] = generation'
                 /\ waiters'[j] # {} /\ st'[j] # "new"
      <3>1. j \in Slots /\ j \notin D /\ j \in Requests
        BY <1>1
      <3>2. ~final[j] /\ gen[j] = generation /\ waiters[j] # {} /\ st[j] # "new"
        BY <3>1 DEF SlotInv, SlotsLive
      <3>3. st'[j] # "new"
        BY <3>1, <3>2
      <3> QED
        BY <3>1, <3>2, <3>3
    <2>2. \A j \in Requests \ Slots' : waiters'[j] = {}
      BY <1>1 DEF SlotInv, SlotsLive
    <2> QED
      BY <2>1, <2>2 DEF SlotsLive
  <1>5. SlotsByKind'
    BY DEF SlotInv, SlotsByKind
  <1> QED
    BY <1>2, <1>3, <1>4, <1>5 DEF SlotInv

\* Pumping what is left of the slots when the jobs D are retired.
LEMMA PumpRest ==
  ASSUME IInv, NEW D \in SUBSET Slots, NEW rn, NEW pn, NEW pr, NEW rs,
         Pump(rn, pn, pr, rs),
         rn = IF running \in D THEN NoJob ELSE running,
         pn = IF pendingNetwork \in D THEN NoJob ELSE pendingNetwork,
         pr = IF pendingRestore \in D THEN NoJob ELSE pendingRestore,
         UNCHANGED <<gen, generation>>,
         \A i \in Requests : final'[i] <=> final[i] \/ i \in D,
         \A i \in Requests : waiters'[i] = IF i \in D THEN {} ELSE waiters[i],
         \A r \in Requests : st'[r] = "new" => st[r] = "new",
         rs \in [Requests -> {"idle", "active", "done"} \cup Results],
         \A i \in Requests : rs[i] = "idle" \/ runner[i] # "idle"
  PROVE  /\ Slots' = Slots \ D /\ SlotsDistinct' /\ NothingQueuedWhileIdle'
         /\ SlotType(running') /\ SlotType(pendingNetwork') /\ SlotType(pendingRestore')
         /\ pendingNetwork' \in {pendingNetwork, NoJob}
         /\ pendingRestore' \in {pendingRestore, NoJob}
         /\ runner' \in [Requests -> {"idle", "active", "done"} \cup Results]
         /\ OnlyRunningHasRun'
         /\ ProviderType'
  <1> USE DEF IInv
  <1>1. /\ {rn, pn, pr} \ {NoJob} = Slots \ D
        /\ SlotType(rn) /\ SlotType(pn) /\ SlotType(pr)
        /\ rn # NoJob => rn \notin {pn, pr}
        /\ pn # NoJob => pn # pr
    BY DEF Slots, SlotType, TypeOK, SlotInv, SlotsDistinct
  <1>2. ASSUME NEW j \in Slots \ D PROVE Startable(j)
    <2>1. ~final[j] /\ gen[j] = generation /\ waiters[j] # {} /\ j \in Requests /\ j # NoJob
      BY DEF SlotInv, SlotsLive, Slots, TypeOK
    <2> QED
      BY <2>1 DEF Startable
  <1>3. /\ pn # NoJob => Startable(pn)
        /\ pr # NoJob => Startable(pr)
    BY <1>1, <1>2
  <1>4. /\ Slots' = {rn, pn, pr} \ {NoJob}
        /\ SlotType(running') /\ SlotType(pendingNetwork') /\ SlotType(pendingRestore')
        /\ SlotsDistinct' /\ NothingQueuedWhileIdle'
        /\ pendingNetwork' \in {pn, NoJob} /\ pendingRestore' \in {pr, NoJob}
        /\ rn # NoJob => running' = rn
        /\ runner' \in [Requests -> {"idle", "active", "done"} \cup Results]
        /\ \A j \in Requests : j # running' \/ rn # NoJob => runner'[j] = rs[j]
    BY <1>1, <1>3, PumpKeepsJobs
  <1>5. ASSUME NEW i \in Requests
        PROVE  /\ runner'[i] # "idle" /\ ~final'[i] => i = running'
               /\ st'[i] = "new" => ~final'[i]
    <2>1. st'[i] = "new" => ~final'[i]
      BY DEF SlotInv, OnlyRunningHasRun, SlotsLive
    <2>2. ASSUME runner'[i] # "idle", ~final'[i], i # running' PROVE FALSE
      <3>1. runner[i] # "idle" /\ ~final[i] /\ i \notin D
        BY <1>4, <2>2
      <3> HIDE DEF IInv
      <3>2. OnlyRunningHasRun
        BY DEF IInv, SlotInv
      <3>3. i = running
        BY <3>1, <3>2 DEF OnlyRunningHasRun
      <3> QED
        BY <1>4, <2>2, <3>1, <3>3 DEF SlotType, IInv, TypeOK
    <2> QED
      BY <2>1, <2>2
  <1>6. OnlyRunningHasRun'
    BY <1>5 DEF OnlyRunningHasRun
  <1>7. ProviderType'
    BY PumpKeepsProviderType DEF TypeOK, ProviderType
  <1> QED
    BY <1>1, <1>4, <1>6, <1>7

\* A waiter that leaves others behind takes nothing along.
LEMMA WaiterAbortsStep ==
  ASSUME IInv, NEW r \in Requests, NEW j \in Requests, WaiterAborts(r, j)
  PROVE  IInv'
  <1> USE DEF IInv
  <1>1. /\ r \in waiters[j] /\ waiters[j] # {r}
        /\ waiters' = [waiters EXCEPT ![j] = @ \ {r}]
        /\ st' = [st EXCEPT ![r] = "rejected"]
        /\ UNCHANGED <<want, kind, runKind, gen, generation, final, runner, slotVars>>
        /\ UNCHANGED <<providerVars, counterVars, abortedSignals, getters>>
    BY DEF WaiterAborts, Leave
  <1>2. Slots' = Slots /\ Slots \subseteq Requests /\ j \in Slots
    BY <1>1 DEF Slots, slotVars, TypeOK, SlotInv, SlotsLive
  <1>3. TypeOK'
    BY <1>1 DEF TypeOK, slotVars, providerVars, counterVars
  <1>4. NoLostWaiter'
    <2>1. ASSUME NEW q \in Requests
          PROVE  st'[q] = "waiting" <=> \E i \in Slots' : q \in waiters'[i]
      <3>1. CASE q = r
        <4>1. \A i \in Slots : r \in waiters[i] => i = j
          BY <1>1, <1>2 DEF NoLostWaiter
        <4> QED
          BY <1>1, <1>2, <3>1, <4>1 DEF TypeOK
      <3>2. CASE q # r
        BY <1>1, <1>2, <3>2 DEF NoLostWaiter, TypeOK
      <3> QED
        BY <3>1, <3>2
    <2>2. \A q, i, l \in Requests : q \in waiters'[i] \cap waiters'[l] => i = l
      BY <1>1 DEF NoLostWaiter, TypeOK
    <2> QED
      BY <2>1, <2>2 DEF NoLostWaiter
  <1>5. MergedByKind' /\ NothingQueuedWhileIdle'
    BY <1>1, <1>2 DEF MergedByKind, NothingQueuedWhileIdle, slotVars, TypeOK
  <1>6. SlotInv'
    BY <1>1, <1>2 DEF SlotInv, SlotsDistinct, SlotsLive, SlotsByKind, OnlyRunningHasRun,
       slotVars, TypeOK
  <1> QED
    BY <1>3, <1>4, <1>5, <1>6

LEMMA LastWaiterAbortsStep ==
  ASSUME IInv, NEW r \in Requests, NEW j \in Requests, LastWaiterAborts(r, j)
  PROVE  IInv'
  <1> USE DEF IInv
  <1>1. /\ waiters[j] = {r}
        /\ waiters' = [waiters EXCEPT ![j] = @ \ {r}]
        /\ st' = [st EXCEPT ![r] = "rejected"]
        /\ UNCHANGED <<want, kind, runKind, gen, generation, abortedSignals>>
    BY DEF LastWaiterAborts, Leave
  <1>2. j \in Slots /\ ~final[j]
    BY <1>1 DEF SlotInv, SlotsLive
  <1>3. /\ final' = [final EXCEPT ![j] = TRUE]
        /\ getters' = getters \ {j}
        /\ Pump(Without(running, j), Without(pendingNetwork, j),
                Without(pendingRestore, j), runner)
    BY <1>2 DEF LastWaiterAborts
  <1>4. /\ \A i \in Requests : final'[i] <=> final[i] \/ i \in {j}
        /\ \A i \in Requests : waiters'[i] = IF i \in {j} THEN {} ELSE waiters[i]
        /\ \A q \in Requests : st'[q] = "new" => st[q] = "new"
        /\ WaitersOf({j}) = {r}
    <2>1. \A i \in Requests : final'[i] <=> final[i] \/ i \in {j}
      BY <1>3 DEF TypeOK
    <2>2. \A i \in Requests : waiters'[i] = IF i \in {j} THEN {} ELSE waiters[i]
      BY <1>1 DEF TypeOK
    <2>3. \A q \in Requests : st'[q] = "new" => st[q] = "new"
      BY <1>1 DEF TypeOK
    <2>4. WaitersOf({j}) = {r}
      BY <1>1 DEF WaitersOf
    <2> QED
      BY <2>1, <2>2, <2>3, <2>4
  <1>5. /\ Slots' = Slots \ {j} /\ SlotsDistinct' /\ NothingQueuedWhileIdle'
        /\ SlotType(running') /\ SlotType(pendingNetwork') /\ SlotType(pendingRestore')
        /\ pendingNetwork' \in {pendingNetwork, NoJob}
        /\ pendingRestore' \in {pendingRestore, NoJob}
        /\ runner' \in [Requests -> {"idle", "active", "done"} \cup Results]
        /\ OnlyRunningHasRun' /\ ProviderType'
    <2>1. runner \in [Requests -> {"idle", "active", "done"} \cup Results]
      BY DEF TypeOK
    <2>2. \A i \in Requests : runner[i] = "idle" \/ runner[i] # "idle"
      OBVIOUS
    <2>3. /\ Without(running, j) = IF running \in {j} THEN NoJob ELSE running
          /\ Without(pendingNetwork, j)
               = IF pendingNetwork \in {j} THEN NoJob ELSE pendingNetwork
          /\ Without(pendingRestore, j)
               = IF pendingRestore \in {j} THEN NoJob ELSE pendingRestore
      BY DEF Without
    <2>4. {j} \in SUBSET Slots /\ UNCHANGED <<gen, generation>>
      BY <1>1, <1>2
    <2> HIDE DEF IInv
    <2> QED
      BY <1>3, <1>4, <2>1, <2>2, <2>3, <2>4, PumpRest
  <1>6. TypeOK'
    BY <1>1, <1>3, <1>5 DEF TypeOK, ProviderType, SlotType
  <1>7. /\ \A q \in WaitersOf({j}) : st'[q] \notin {"new", "waiting"}
        /\ \A q \in Requests \ WaitersOf({j}) : st'[q] = st[q]
    BY <1>1, <1>4 DEF TypeOK
  <1>8. {j} \in SUBSET Slots /\ UNCHANGED <<want, kind, gen>> /\ generation' = generation
    BY <1>1, <1>2
  <1> HIDE DEF IInv
  <1> QED
    BY <1>4, <1>5, <1>6, <1>7, <1>8, RetireJobs

\* A job whose run threw was the running one.
LEMMA FailJobStep ==
  ASSUME IInv, NEW j \in Requests, FailJob(j)
  PROVE  IInv'
  <1> USE DEF IInv
  <1>1. /\ runner[j] = "throw" /\ ~final[j]
        /\ final' = [final EXCEPT ![j] = TRUE]
        /\ st' = [r \in Requests |-> IF r \in waiters[j] THEN "rejected" ELSE st[r]]
        /\ waiters' = [waiters EXCEPT ![j] = {}]
        /\ UNCHANGED <<want, kind, runKind, gen, generation, abortedSignals, getters>>
        /\ Pump(Without(running, j), Without(pendingNetwork, j),
                Without(pendingRestore, j), [runner EXCEPT ![j] = "done"])
    BY DEF FailJob, SettleAll, RunDone, Stale
  <1>2. j \in Slots
    BY <1>1 DEF SlotInv, OnlyRunningHasRun, Slots
  <1>3. /\ \A i \in Requests : final'[i] <=> final[i] \/ i \in {j}
        /\ \A i \in Requests : waiters'[i] = IF i \in {j} THEN {} ELSE waiters[i]
        /\ \A q \in Requests : st'[q] = "new" => st[q] = "new"
        /\ WaitersOf({j}) = waiters[j]
    <2>1. \A i \in Requests : final'[i] <=> final[i] \/ i \in {j}
      BY <1>1 DEF TypeOK
    <2>2. \A i \in Requests : waiters'[i] = IF i \in {j} THEN {} ELSE waiters[i]
      BY <1>1 DEF TypeOK
    <2>3. \A q \in Requests : st'[q] = "new" => st[q] = "new"
      BY <1>1 DEF TypeOK
    <2>4. WaitersOf({j}) = waiters[j]
      BY DEF WaitersOf
    <2> QED
      BY <2>1, <2>2, <2>3, <2>4
  <1>4. /\ Slots' = Slots \ {j} /\ SlotsDistinct' /\ NothingQueuedWhileIdle'
        /\ SlotType(running') /\ SlotType(pendingNetwork') /\ SlotType(pendingRestore')
        /\ pendingNetwork' \in {pendingNetwork, NoJob}
        /\ pendingRestore' \in {pendingRestore, NoJob}
        /\ runner' \in [Requests -> {"idle", "active", "done"} \cup Results]
        /\ OnlyRunningHasRun' /\ ProviderType'
    <2> DEFINE rs == [runner EXCEPT ![j] = "done"]
    <2>1. rs \in [Requests -> {"idle", "active", "done"} \cup Results]
      BY DEF TypeOK
    <2>2. \A i \in Requests : rs[i] = "idle" \/ runner[i] # "idle"
      BY <1>1 DEF TypeOK
    <2>3. /\ Without(running, j) = IF running \in {j} THEN NoJob ELSE running
          /\ Without(pendingNetwork, j)
               = IF pendingNetwork \in {j} THEN NoJob ELSE pendingNetwork
          /\ Without(pendingRestore, j)
               = IF pendingRestore \in {j} THEN NoJob ELSE pendingRestore
      BY DEF Without
    <2>4. {j} \in SUBSET Slots /\ UNCHANGED <<gen, generation>>
      BY <1>1, <1>2
    <2>5. Pump(Without(running, j), Without(pendingNetwork, j),
               Without(pendingRestore, j), rs)
      BY <1>1
    <2> HIDE DEF IInv, rs
    <2> QED
      BY <1>3, <2>1, <2>2, <2>3, <2>4, <2>5, PumpRest
  <1>5. TypeOK'
    BY <1>1, <1>4 DEF TypeOK, ProviderType, SlotType
  <1>6. /\ \A q \in WaitersOf({j}) : st'[q] \notin {"new", "waiting"}
        /\ \A q \in Requests \ WaitersOf({j}) : st'[q] = st[q]
    <2>1. waiters[j] \subseteq Requests
      BY DEF TypeOK
    <2> QED
      BY <1>1, <1>3, <2>1
  <1> HIDE DEF IInv
  <1>7. {j} \in SUBSET Slots /\ UNCHANGED <<want, kind, gen>> /\ generation' = generation
    BY <1>1, <1>2
  <1> QED
    BY <1>3, <1>4, <1>5, <1>6, <1>7, RetireJobs

\* The jobs a completed round answers: its own and perhaps a queued force.
Answered(j) == IF Absorbs(j) THEN {j, pendingNetwork} ELSE {j}

LEMMA FinishedJobRuns ==
  ASSUME IInv, NEW j \in Requests, FinishJob(j)
  PROVE  /\ j = running /\ Answered(j) \in SUBSET Slots
         /\ OutcomeOf(j) \in Outcomes
         /\ pendingRestore \notin Answered(j) \/ pendingRestore = NoJob
  BY DEF IInv, FinishJob, Answered, Absorbs, Slots, OutcomeOf, Outcomes, SlotInv, SlotsDistinct

LEMMA FinishJobStep ==
  ASSUME IInv, NEW j \in Requests, FinishJob(j)
  PROVE  IInv'
  <1> DEFINE D == Answered(j)
             rs == [runner EXCEPT ![j] = "done"]
             pn == IF Absorbs(j) THEN NoJob ELSE pendingNetwork
  <1> USE DEF IInv
  <1>1. /\ j = running /\ D \in SUBSET Slots /\ OutcomeOf(j) \in Outcomes
        /\ pendingRestore \notin D \/ pendingRestore = NoJob
    BY FinishedJobRuns
  <1>2. /\ runner[j] # "idle"
        /\ UNCHANGED <<want, kind, runKind, gen, generation, abortedSignals, getters>>
        /\ final' = [i \in Requests |-> final[i] \/ i \in D]
        /\ st' = [r \in Requests |-> IF r \in WaitersOf(D) THEN OutcomeOf(j) ELSE st[r]]
        /\ waiters' = [i \in Requests |-> IF i \in D THEN {} ELSE waiters[i]]
        /\ Pump(NoJob, pn, pendingRestore, rs)
    BY DEF FinishJob, SettleAll, RunDone, Answered, WaitersOf
  <1>3. /\ \A i \in Requests : final'[i] <=> final[i] \/ i \in D
        /\ \A i \in Requests : waiters'[i] = IF i \in D THEN {} ELSE waiters[i]
        /\ \A q \in Requests : st'[q] = "new" => st[q] = "new"
    BY <1>1, <1>2 DEF Outcomes
  <1>4. Slots \subseteq Requests /\ WaitersOf(D) \subseteq Requests
    BY <1>1 DEF Slots, TypeOK, WaitersOf
  <1>5. /\ Slots' = Slots \ D /\ SlotsDistinct' /\ NothingQueuedWhileIdle'
        /\ SlotType(running') /\ SlotType(pendingNetwork') /\ SlotType(pendingRestore')
        /\ pendingNetwork' \in {pendingNetwork, NoJob}
        /\ pendingRestore' \in {pendingRestore, NoJob}
        /\ runner' \in [Requests -> {"idle", "active", "done"} \cup Results]
        /\ OnlyRunningHasRun' /\ ProviderType'
    <2>1. rs \in [Requests -> {"idle", "active", "done"} \cup Results]
      BY DEF TypeOK
    <2>2. \A i \in Requests : rs[i] = "idle" \/ runner[i] # "idle"
      BY <1>2 DEF TypeOK
    <2>3. /\ NoJob = IF running \in D THEN NoJob ELSE running
          /\ pn = IF pendingNetwork \in D THEN NoJob ELSE pendingNetwork
          /\ pendingRestore = IF pendingRestore \in D THEN NoJob ELSE pendingRestore
      BY <1>1 DEF Answered, Absorbs, SlotInv, SlotsDistinct
    <2>4. UNCHANGED <<gen, generation>>
      BY <1>2
    <2>5. Pump(NoJob, pn, pendingRestore, rs)
      BY <1>2
    <2> HIDE DEF IInv, rs, pn, D
    <2> QED
      BY <1>1, <1>3, <2>1, <2>2, <2>3, <2>4, <2>5, PumpRest
  <1>6. TypeOK'
    <2> HIDE DEF D
    <2>1. st' \in [Requests -> {"new", "waiting", "rejected"} \cup Outcomes]
      BY <1>1, <1>2 DEF TypeOK
    <2>2. final' \in [Requests -> BOOLEAN] /\ waiters' \in [Requests -> SUBSET Requests]
      BY <1>2 DEF TypeOK
    <2> QED
      BY <1>2, <1>5, <2>1, <2>2 DEF TypeOK, ProviderType, SlotType
  <1>7. /\ \A q \in WaitersOf(D) : st'[q] \notin {"new", "waiting"}
        /\ \A q \in Requests \ WaitersOf(D) : st'[q] = st[q]
    BY <1>1, <1>2, <1>4 DEF Outcomes
  <1>8. UNCHANGED <<want, kind, gen>> /\ generation' = generation
    BY <1>2
  <1> HIDE DEF IInv, D
  <1> QED
    BY <1>1, <1>3, <1>5, <1>6, <1>7, <1>8, RetireJobs

LEMMA StopStep ==
  ASSUME IInv, Stop
  PROVE  IInv'
  <1> USE DEF IInv
  <1>1. /\ generation' = generation + 1
        /\ final' = [j \in Requests |-> final[j] \/ j \in Slots]
        /\ st' = [r \in Requests |-> IF r \in WaitersOf(Slots) THEN "rejected" ELSE st[r]]
        /\ waiters' = [j \in Requests |-> IF j \in Slots THEN {} ELSE waiters[j]]
        /\ running' = NoJob /\ pendingNetwork' = NoJob /\ pendingRestore' = NoJob
        /\ getters' = getters \cap {Other}
        /\ attempted' = FALSE /\ succeeded' = FALSE /\ FreshProvider
        /\ UNCHANGED <<want, kind, runKind, gen, runner, abortedSignals>>
    BY DEF Stop, SettleAll, WaitersOf
  <1>2. Slots' = {} /\ SlotsDistinct' /\ NothingQueuedWhileIdle'
    BY <1>1 DEF Slots, SlotsDistinct, NothingQueuedWhileIdle
  <1>3. TypeOK'
    <2>1. st' \in [Requests -> {"new", "waiting", "rejected"} \cup Outcomes]
      BY <1>1 DEF TypeOK
    <2>2. final' \in [Requests -> BOOLEAN] /\ waiters' \in [Requests -> SUBSET Requests]
      BY <1>1 DEF TypeOK
    <2>3. generation' \in Nat /\ getters' \in SUBSET (Requests \cup {Ext, Other})
      BY <1>1 DEF TypeOK
    <2>4. ProviderType'
      BY <1>1 DEF FreshProvider, ProviderType
    <2> QED
      BY <1>1, <2>1, <2>2, <2>3, <2>4 DEF TypeOK, ProviderType
  <1>4. Slots \subseteq Requests /\ WaitersOf(Slots) \subseteq Requests
    BY DEF Slots, TypeOK, WaitersOf
  <1>5. OnlyRunningHasRun'
    <2>1. \A j \in Requests : runner[j] # "idle" => final'[j]
      BY <1>1 DEF SlotInv, OnlyRunningHasRun, Slots
    <2>2. \A j \in Requests : st'[j] = "new" => ~final'[j]
      BY <1>1, <1>4 DEF SlotInv, OnlyRunningHasRun, SlotsLive
    <2> QED
      BY <1>1, <2>1, <2>2 DEF OnlyRunningHasRun
  <1>6. /\ \A i \in Requests : final'[i] <=> final[i] \/ i \in Slots
        /\ \A i \in Requests : waiters'[i] = IF i \in Slots THEN {} ELSE waiters[i]
        /\ \A r \in WaitersOf(Slots) : st'[r] \notin {"new", "waiting"}
        /\ \A r \in Requests \ WaitersOf(Slots) : st'[r] = st[r]
    BY <1>1, <1>4
  <1>7. Slots' = Slots \ Slots /\ Slots \in SUBSET Slots /\ UNCHANGED <<want, kind, gen>>
        /\ pendingNetwork' \in {pendingNetwork, NoJob}
        /\ pendingRestore' \in {pendingRestore, NoJob}
    BY <1>1, <1>2
  <1> HIDE DEF IInv
  <1> QED
    BY <1>2, <1>3, <1>5, <1>6, <1>7, RetireJobs

-----------------------------------------------------------------------------
(* The theorems *)

LEMMA InitIInv == Init => IInv
  <1> SUFFICES ASSUME Init PROVE IInv
    OBVIOUS
  <1>1. TypeOK
    BY DEF Init, TypeOK, Kinds
  <1>2. Slots = {}
    BY DEF Init, Slots
  <1>3. NoLostWaiter /\ NothingQueuedWhileIdle /\ MergedByKind
    BY <1>2 DEF Init, NoLostWaiter, NothingQueuedWhileIdle, MergedByKind
  <1>4. SlotInv
    BY <1>2 DEF Init, SlotInv, SlotsDistinct, SlotsLive, SlotsByKind, OnlyRunningHasRun
  <1> QED
    BY <1>1, <1>3, <1>4 DEF IInv

LEMMA NextIInv == IInv /\ [Next]_vars => IInv'
  <1> SUFFICES ASSUME IInv, [Next]_vars PROVE IInv'
    OBVIOUS
  <1>1. ASSUME NEW r \in Requests, NEW k \in Kinds, Request(r, k) PROVE IInv'
    <2>1. CASE TargetFor(k) # NoJob
      BY <1>1, <2>1, JoinStep DEF Request
    <2>2. CASE TargetFor(k) = NoJob
      BY <1>1, <2>2, NewJobStep DEF Request
    <2> QED
      BY <2>1, <2>2
  <1>2. CASE Caller
    BY <1>1, <1>2, RequestCancelledStep, WaiterAbortsStep, LastWaiterAbortsStep DEF Caller
  <1>3. CASE Host
    BY <1>3, RunSettlesStep, ProviderStep, EnvironmentStep DEF Host
  <1>4. CASE \E j \in Requests : Continue(j)
    BY <1>4, DropLateResultStep, FailJobStep, FinishJobStep DEF Continue
  <1>5. CASE Stop
    BY <1>5, StopStep
  <1>6. CASE UNCHANGED vars
    <2>1. TypeOK'
      BY <1>6 DEF vars, callerVars, jobVars, slotVars, providerVars, counterVars, IInv, TypeOK
    <2> QED
      BY <1>6, <2>1, UntouchedJobs DEF vars, IInv, Safe
  <1> QED
    BY <1>2, <1>3, <1>4, <1>5, <1>6 DEF Next

\* The strengthened invariant: slots, jobs and waiters agree in every state.
THEOREM Invariant == Spec => []IInv
  BY InitIInv, NextIInv, PTL DEF Spec

\* Every variable of the coordinator keeps its type.
THEOREM TypeCorrect == Spec => []TypeOK
  BY Invariant, PTL DEF IInv

\* A waiting request is in exactly one queued or running job.
THEOREM NoWaiterIsLost == Spec => []NoLostWaiter
  BY Invariant, PTL DEF IInv

\* However the running slot was freed, a queued job has taken it.
THEOREM QueueIsPumped == Spec => []NothingQueuedWhileIdle
  BY Invariant, PTL DEF IInv

\* Restores wait with restores and forces in forced jobs.
THEOREM MergingRespectsKinds == Spec => []MergedByKind
  BY Invariant, PTL DEF IInv

-----------------------------------------------------------------------------
(* The coordinator implements its promises *)

PromiseStep == Promises!PromisesNext \/ UNCHANGED <<want, st>>

\* Settling waiting requests that no action below resolves is a rejection.
LEMMA RejectsWaiters ==
  ASSUME IInv, NEW S \in SUBSET Requests, \A r \in S : st[r] = "waiting",
         st' = [r \in Requests |-> IF r \in S THEN "rejected" ELSE st[r]],
         UNCHANGED want
  PROVE  PromiseStep
  <1>1. Promises!Reject(S)
    BY DEF Promises!Reject, Promises!Settle, Promises!Waiting
  <1> QED
    BY <1>1 DEF PromiseStep, Promises!PromisesNext

LEMMA WaitersWait ==
  ASSUME IInv, NEW D \in SUBSET Slots
  PROVE  WaitersOf(D) \subseteq Requests /\ \A r \in WaitersOf(D) : st[r] = "waiting"
  BY DEF IInv, TypeOK, NoLostWaiter, WaitersOf, Slots

LEMMA LeavingRejects ==
  ASSUME IInv, NEW r \in Requests, NEW j \in Requests, Leave(r, j)
  PROVE  PromiseStep
  <1>1. j \in Slots
    BY DEF IInv, SlotInv, SlotsLive, Leave
  <1>2. st[r] = "waiting"
    BY <1>1 DEF IInv, NoLostWaiter, Leave
  <1>3. st' = [q \in Requests |-> IF q \in {r} THEN "rejected" ELSE st[q]] /\ UNCHANGED want
    BY DEF IInv, TypeOK, Leave
  <1>4. {r} \in SUBSET Requests /\ \A q \in {r} : st[q] = "waiting"
    BY <1>2
  <1> QED
    BY <1>3, <1>4, RejectsWaiters

\* One round answers either restores only or no restore at all.
LEMMA FinishingResolves ==
  ASSUME IInv, NEW j \in Requests, FinishJob(j)
  PROVE  PromiseStep
  <1> DEFINE S == WaitersOf(Answered(j))
  <1>1. /\ j = running /\ Answered(j) \in SUBSET Slots /\ OutcomeOf(j) \in Outcomes
    BY FinishedJobRuns
  <1>2. S \subseteq Requests /\ \A r \in S : st[r] = "waiting"
    BY <1>1, WaitersWait
  <1>3. st' = [r \in Requests |-> IF r \in S THEN OutcomeOf(j) ELSE st[r]] /\ UNCHANGED want
    BY DEF FinishJob, SettleAll, Answered, WaitersOf
  <1>4. \A i \in Answered(j) : kind[i] = "restore" <=> kind[j] = "restore"
    BY DEF Answered, Absorbs
  <1>5. \A r, q \in S : want[r] = "restore" => want[q] = "restore"
    BY <1>1, <1>4 DEF WaitersOf, IInv, MergedByKind
  <1> HIDE DEF S
  <1>6. Promises!Resolve(S, OutcomeOf(j))
    BY <1>2, <1>3, <1>5 DEF Promises!Resolve, Promises!Settle, Promises!Waiting
  <1>7. S \in SUBSET Requests /\ OutcomeOf(j) \in Promises!Outcomes
    BY <1>1, <1>2 DEF Outcomes, Promises!Outcomes
  <1> QED
    BY <1>6, <1>7 DEF PromiseStep, Promises!PromisesNext

LEMMA EveryStepIsAPromiseStep == IInv /\ [Next]_vars => PromiseStep
  <1> SUFFICES ASSUME IInv, [Next]_vars PROVE PromiseStep
    OBVIOUS
  <1>1. ASSUME NEW r \in Requests, NEW k \in Kinds, Request(r, k) \/ RequestCancelled(r, k)
        PROVE  PromiseStep
    <2>1. Promises!Ask(r, k) \/ Promises!Refuse(r, k)
      BY <1>1 DEF Request, RequestCancelled, Promises!Ask, Promises!Refuse
    <2>2. k \in Promises!Kinds
      BY DEF Kinds, Promises!Kinds
    <2> QED
      BY <2>1, <2>2 DEF PromiseStep, Promises!PromisesNext
  <1>2. CASE Caller
    BY <1>1, <1>2, LeavingRejects DEF Caller, WaiterAborts, LastWaiterAborts
  <1>3. CASE Host
    BY <1>3 DEF Host, RunSettles, Provider, HostAborts, OtherInstanceFetches, GetSettles,
       callerVars, PromiseStep
  <1>4. ASSUME NEW j \in Requests, Continue(j) PROVE PromiseStep
    <2>1. CASE DropLateResult(j)
      BY <2>1 DEF DropLateResult, callerVars, PromiseStep
    <2>2. CASE FailJob(j)
      <3>1. j \in Slots
        BY <2>2 DEF FailJob, Stale, IInv, SlotInv, OnlyRunningHasRun, Slots
      <3>2. waiters[j] \in SUBSET Requests /\ \A r \in waiters[j] : st[r] = "waiting"
        BY <3>1 DEF IInv, TypeOK, NoLostWaiter
      <3> QED
        BY <2>2, <3>2, RejectsWaiters DEF FailJob, SettleAll
    <2>3. CASE FinishJob(j)
      BY <2>3, FinishingResolves
    <2> QED
      BY <1>4, <2>1, <2>2, <2>3 DEF Continue
  <1>5. CASE Stop
    <2>1. WaitersOf(Slots) \subseteq Requests /\ \A r \in WaitersOf(Slots) : st[r] = "waiting"
      BY WaitersWait
    <2>2. /\ st' = [r \in Requests |-> IF r \in WaitersOf(Slots) THEN "rejected" ELSE st[r]]
          /\ UNCHANGED want
      BY <1>5 DEF Stop, SettleAll, WaitersOf
    <2> QED
      BY <2>1, <2>2, RejectsWaiters
  <1>6. CASE UNCHANGED vars
    BY <1>6 DEF vars, callerVars, PromiseStep
  <1> QED
    BY <1>2, <1>3, <1>4, <1>5, <1>6 DEF Next

\* Every behaviour of the coordinator is one of the promises it makes.
THEOREM CoordinatorImplementsPromises == Spec => ImplementsPromises
  <1>1. Init => Promises!PromisesInit
    BY DEF Init, Promises!PromisesInit
  <1>2. IInv /\ [Next]_vars => [Promises!PromisesNext]_<<want, st>>
    BY EveryStepIsAPromiseStep DEF PromiseStep
  <1> QED
    BY <1>1, <1>2, Invariant, PTL DEF Spec, ImplementsPromises, Promises!PromisesSpec

\* No promise is settled twice.
THEOREM SettlesOnce == Spec => SettledOnce
  <1>1. ASSUME TypeOK, PromiseStep, NEW r \in Requests, st[r] \notin {"new", "waiting"}
        PROVE  st'[r] = st[r]
    <2>1. ASSUME NEW q \in Requests, NEW k \in Promises!Kinds,
                 Promises!Ask(q, k) \/ Promises!Refuse(q, k)
          PROVE  st'[r] = st[r]
      BY <1>1, <2>1 DEF TypeOK, Promises!Ask, Promises!Refuse
    <2>2. ASSUME NEW S \in SUBSET Requests, NEW o, Promises!Settle(S, o)
          PROVE  st'[r] = st[r]
      BY <1>1, <2>2 DEF Promises!Settle, Promises!Waiting
    <2> QED
      BY <1>1, <2>1, <2>2 DEF PromiseStep, Promises!PromisesNext, Promises!Reject,
         Promises!Resolve
  <1>2. IInv /\ [Next]_vars =>
          [\A r \in Requests : st[r] \notin {"new", "waiting"} => st'[r] = st[r]]_vars
    BY <1>1, EveryStepIsAPromiseStep DEF IInv
  <1> QED
    BY <1>2, Invariant, PTL DEF Spec, SettledOnce

-----------------------------------------------------------------------------
(* Who answers, and what *)

\* An answer is given by the end of the running job, to those it answers for.
LEMMA OnlyFinishingAnswers ==
  ASSUME IInv, [Next]_vars, NEW r \in Requests, st[r] = "waiting", st'[r] \in Outcomes
  PROVE  /\ running \in Requests /\ FinishJob(running)
         /\ r \in WaitersOf(Answered(running)) /\ st'[r] = OutcomeOf(running)
  <1>0. st \in [Requests -> {"new", "waiting", "rejected"} \cup Outcomes]
    BY DEF IInv, TypeOK
  <1>1. st'[r] \notin {"new", "waiting", "rejected"}
    BY DEF Outcomes
  <1>2. ~Caller
    <2>1. ASSUME NEW q \in Requests, NEW k \in Kinds, Request(q, k) \/ RequestCancelled(q, k)
          PROVE  FALSE
      BY <1>0, <1>1, <2>1 DEF Request, RequestCancelled
    <2>2. ASSUME NEW q \in Requests, NEW j \in Requests, Leave(q, j) PROVE FALSE
      BY <1>0, <1>1, <2>2 DEF Leave
    <2> QED
      BY <2>1, <2>2 DEF Caller, WaiterAborts, LastWaiterAborts
  <1>3. ~Host
    BY <1>1 DEF Host, RunSettles, Provider, HostAborts, OtherInstanceFetches, GetSettles,
       callerVars
  <1>4. ~Stop
    BY <1>1 DEF Stop, SettleAll
  <1>5. st' # st
    BY <1>1
  <1>6. PICK j \in Requests : Continue(j)
    BY <1>2, <1>3, <1>4, <1>5 DEF Next, vars, callerVars
  <1>7. FinishJob(j)
    <2>1. ~DropLateResult(j)
      BY <1>5 DEF DropLateResult, callerVars
    <2>2. ~FailJob(j)
      BY <1>1 DEF FailJob, SettleAll
    <2> QED
      BY <1>6, <2>1, <2>2 DEF Continue
  <1>8. st' = [q \in Requests |-> IF q \in WaitersOf(Answered(j)) THEN OutcomeOf(j) ELSE st[q]]
    BY <1>7 DEF FinishJob, SettleAll, Answered, WaitersOf
  <1>9. r \in WaitersOf(Answered(j)) /\ st'[r] = OutcomeOf(j)
    BY <1>1, <1>8
  <1> QED
    BY <1>6, <1>7, <1>9, FinishedJobRuns

\* A job that was let go of delivers nothing, however late its run completes.
THEOREM OnlyRunningDelivers == Spec => OnlyTheRunningJobDelivers
  <1>1. ASSUME IInv, [Next]_vars, NEW r \in Requests, st[r] = "waiting", st'[r] \in Outcomes
        PROVE  /\ Live(running) /\ Settled(running) /\ gen[running] = generation
               /\ \/ r \in waiters[running]
                  \/ /\ pendingNetwork # NoJob /\ r \in waiters[pendingNetwork]
                     /\ kind[pendingNetwork] = "force" /\ kind[running] # "restore"
    <2>1. /\ running \in Requests /\ FinishJob(running)
          /\ r \in WaitersOf(Answered(running))
      BY <1>1, OnlyFinishingAnswers
    <2>2. Live(running) /\ Settled(running) /\ gen[running] = generation
      BY <2>1, NamesAssumption DEF FinishJob, Stale, Live, Settled, Results
    <2> QED
      BY <2>1, <2>2 DEF Answered, Absorbs, WaitersOf
  <1>2. IInv /\ [Next]_vars =>
          [\A r \in Requests :
             st[r] = "waiting" /\ st'[r] \in Outcomes =>
               /\ Live(running) /\ Settled(running) /\ gen[running] = generation
               /\ \/ r \in waiters[running]
                  \/ /\ pendingNetwork # NoJob /\ r \in waiters[pendingNetwork]
                     /\ kind[pendingNetwork] = "force" /\ kind[running] # "restore"]_vars
    BY <1>1
  <1> QED
    BY <1>2, Invariant, PTL DEF Spec, OnlyTheRunningJobDelivers

\* Only callbacks touch the provider's bookkeeping; pump and stop begin it anew.
LEMMA BookkeepingKept ==
  ASSUME [Next]_vars
  PROVE  \/ UNCHANGED <<first, observed>> \/ FreshProvider
         \/ \E sig \in Signals \cup {NoSignal} :
              \/ first' = first /\ observed' = observed \cup {sig}
              \/ /\ first' = (IF seen THEN first ELSE sig)
                 /\ observed' = observed \cup ({sig} \ {NoSignal})
  <1> DEFINE Kept == UNCHANGED <<first, observed>> \/ FreshProvider
  <1>1. ASSUME NEW rn, NEW pn, NEW pr, NEW rs, Pump(rn, pn, pr, rs) PROVE Kept
    BY <1>1 DEF Pump, providerVars
  <1> HIDE DEF Kept
  <1>2. ASSUME NEW r \in Requests, NEW k \in Kinds, Request(r, k) \/ RequestCancelled(r, k)
        PROVE  Kept
    BY <1>1, <1>2 DEF Request, RequestCancelled, JoinJob, NewJob, providerVars, Kept
  <1>3. ASSUME NEW r \in Requests, NEW j \in Requests,
               WaiterAborts(r, j) \/ LastWaiterAborts(r, j)
        PROVE  Kept
    BY <1>1, <1>3 DEF WaiterAborts, LastWaiterAborts, providerVars, Kept
  <1>4. ASSUME NEW j \in Requests, Continue(j) PROVE Kept
    BY <1>1, <1>4 DEF Continue, DropLateResult, FailJob, FinishJob, providerVars, Kept
  <1>5. CASE Stop
    BY <1>5 DEF Stop
  <1>6. CASE Host
    <2>1. ASSUME NEW own \in BOOLEAN, NEW allow \in BOOLEAN, NEW force \in BOOLEAN,
                 NEW sig \in Signals \cup {NoSignal}, Provider(own, sig, allow, force)
          PROVE  \/ UNCHANGED <<first, observed>>
                 \/ first' = first /\ observed' = observed \cup {sig}
                 \/ /\ first' = (IF seen THEN first ELSE sig)
                    /\ observed' = observed \cup ({sig} \ {NoSignal})
      BY <2>1 DEF Provider, CallbackCancelled, CallbackWithoutJob, CallbackPreempts,
         CallbackOfJob
    <2> QED
      BY <1>6, <2>1 DEF Host, RunSettles, HostAborts, OtherInstanceFetches, GetSettles,
         providerVars
  <1>7. CASE UNCHANGED vars
    BY <1>7 DEF vars, providerVars
  <1> QED
    BY <1>2, <1>3, <1>4, <1>5, <1>6, <1>7 DEF Next, Caller, Kept

LEMMA FirstStaysObserved == FirstIsObserved /\ [Next]_vars => FirstIsObserved'
  <1> SUFFICES ASSUME FirstIsObserved, [Next]_vars PROVE FirstIsObserved'
    OBVIOUS
  <1>1. CASE UNCHANGED <<first, observed>> \/ FreshProvider
    BY <1>1 DEF FirstIsObserved, FreshProvider
  <1>2. ASSUME NEW sig \in Signals \cup {NoSignal},
               \/ first' = first /\ observed' = observed \cup {sig}
               \/ /\ first' = (IF seen THEN first ELSE sig)
                  /\ observed' = observed \cup ({sig} \ {NoSignal})
        PROVE  FirstIsObserved'
    BY <1>2 DEF FirstIsObserved
  <1> QED
    BY <1>1, <1>2, BookkeepingKept

\* A refresh the host cancelled is never reported as done: the abort of the
\* signal its job belongs to is seen when the job ends.
THEOREM PreemptionIsSeen == Spec => NoSuccessAfterPreemption
  <1>1. Init => FirstIsObserved
    BY DEF Init, FirstIsObserved
  <1>2. ASSUME IInv, FirstIsObserved, [Next]_vars,
               NEW r \in Requests, st[r] = "waiting", st'[r] \in {"net", "local"}
        PROVE  first \notin abortedSignals
    <2>1. FinishJob(running) /\ st'[r] = OutcomeOf(running)
      BY <1>2, OnlyFinishingAnswers DEF Outcomes
    <2>2. observed \cap abortedSignals = {}
      BY <1>2, <2>1 DEF OutcomeOf, RunAborted
    <2>3. NoSignal \notin abortedSignals
      BY <1>2, NamesAssumption DEF IInv, TypeOK
    <2> QED
      BY <1>2, <2>2, <2>3 DEF FirstIsObserved
  <1>3. IInv /\ FirstIsObserved /\ [Next]_vars =>
          [\A r \in Requests :
             st[r] = "waiting" /\ st'[r] \in {"net", "local"} => first \notin abortedSignals]_vars
    BY <1>2
  <1> QED
    BY <1>1, <1>3, FirstStaysObserved, Invariant, PTL DEF Spec, NoSuccessAfterPreemption
=============================================================================
