---------------------- MODULE GatewayCatalogServiceProofs --------------------
(***************************************************************************)
(* What the shared service promises for any requests, keys, replacements   *)
(* and saves of other processes.                                           *)
(*                                                                         *)
(* Neither TaskInv nor RequestInv is inductive: that a live fetch is the   *)
(* slot's needs to know in which phases a task may still be live (TaskOK), *)
(* that a force is answered by the network what the task it waits for has  *)
(* decided (RequestOK), and both that a replaced service keeps nothing     *)
(* (ServiceOK).                                                            *)
(*                                                                         *)
(* The lemmas ...Effect say field by field what a step does to a task, the *)
(* lemmas Task... what that leaves of TaskOK. Step puts the two ways to    *)
(* ask together; then each part of ServiceInv has a lemma, with one step   *)
(* per action.                                                             *)
(***************************************************************************)
EXTENDS GatewayCatalogService, TLAPS

\* What one microtask, one abort or one join does to a task, field by field.
Kept(t) == tk'[t] = tk[t]
SameBut(t, phase, force, cached, abort, at, ok, result, race, settled) ==
  /\ tk'[t].phase = phase /\ tk'[t].force = force /\ tk'[t].cached = cached
  /\ tk'[t].aborted = abort /\ tk'[t].at = at /\ tk'[t].ok = ok
  /\ tk'[t].result = result /\ tk'[t].race = race /\ tk'[t].settled = settled

IsAborted(t) ==
  SameBut(t, tk[t].phase, tk[t].force, tk[t].cached, TRUE, tk[t].at, tk[t].ok,
          tk[t].result, Won(t, Cancelled), tk[t].settled)

\* Aborting a task decides its race for the cancellation, unless it is decided (gateway-
\* catalog-service.ts:79-81).
LEMMA AbortingFields ==
  ASSUME TypeOK, NEW t \in Requests
  PROVE  /\ Aborting(t) \in Tasks
         /\ tk'[t] = Aborting(t) => IsAborted(t)
<1>1. tk[t] \in Tasks /\ Won(t, Cancelled) \in Outcomes \cup {None, Cancelled}
  BY DEF TypeOK, Won, Tasks
<1>2. Aborting(t) \in Tasks
  BY <1>1 DEF Aborting, Tasks
<1>3. ASSUME tk'[t] = Aborting(t)
      PROVE  IsAborted(t)
  <2> DEFINE x == tk[t]
             y == tk'[t]
             w == Won(t, Cancelled)
  <2>1. x \in Tasks /\ w \in Outcomes \cup {None, Cancelled}
          /\ y = [x EXCEPT !.aborted = TRUE, !.race = w]
    BY <1>1, <1>3 DEF Aborting
  <2>2. SameBut(t, x.phase, x.force, x.cached, TRUE, x.at, x.ok, x.result, w, x.settled)
    <3> HIDE DEF x, w, y
    <3>1. /\ y.phase = x.phase /\ y.force = x.force /\ y.cached = x.cached /\ y.aborted = TRUE
          /\ y.at = x.at /\ y.ok = x.ok /\ y.result = x.result /\ y.race = w
          /\ y.settled = x.settled
      BY <2>1 DEF Tasks
    <3> QED BY <3>1, Zenon DEF y, SameBut
  <2> QED BY <2>2 DEF IsAborted
<1> QED BY <1>2, <1>3

\* A key switch aborts the task of the service it replaces, and no other.
LEMMA SwitchEffect ==
  ASSUME TypeOK, NEW k \in Keys, SwitchKey(k)
  PROVE  /\ tk' \in [Requests -> Tasks]
         /\ \A u \in Requests : IF cur # 0 /\ u = task[cur] THEN IsAborted(u) ELSE Kept(u)
<1>1. tk' = [t \in Requests |-> IF cur # 0 /\ t = task[cur] THEN Aborting(t) ELSE tk[t]]
  BY DEF SwitchKey, Invalidated
<1>2. \A t \in Requests : Aborting(t) \in Tasks /\ (tk'[t] = Aborting(t) => IsAborted(t))
        /\ tk[t] \in Tasks
  BY AbortingFields DEF TypeOK
<1> QED BY <1>1, <1>2 DEF Kept

\* A signal aborts the task of its request if nobody else wants it.
LEMMA SignalEffect ==
  ASSUME TypeOK, NEW r \in Requests, job[r] \in Requests, SignalAborts(r)
  PROVE  /\ tk' \in [Requests -> Tasks]
         /\ \A u \in Requests :
              IF st[r] = "waiting" /\ u = job[r] /\ Abandons(u, svc[r], Waiters(u) \ {r})
                THEN IsAborted(u) ELSE Kept(u)
<1> DEFINE t == job[r]
           Left == st[r] = "waiting" /\ Abandons(t, svc[r], Waiters(t) \ {r})
<1>1. tk' = IF Left THEN [tk EXCEPT ![t] = Aborting(t)] ELSE tk
  BY DEF SignalAborts
<1>2. \A u \in Requests : Aborting(u) \in Tasks /\ (tk'[u] = Aborting(u) => IsAborted(u))
        /\ tk[u] \in Tasks
  BY AbortingFields DEF TypeOK
<1>3. tk \in [Requests -> Tasks]
  BY DEF TypeOK
<1>4. CASE Left
  <2>1. tk' = [tk EXCEPT ![t] = Aborting(t)]
    BY <1>1, <1>4
  <2> QED BY <1>2, <1>3, <2>1, <1>4 DEF Kept
<1>5. CASE ~Left
  BY <1>1, <1>3, <1>5 DEF Kept
<1> QED BY <1>4, <1>5

\* The end of recovery aborts the service's task if nobody waits for it and it fetches.
LEMMA IdlesEffect ==
  ASSUME TypeOK, NEW v \in Services, RecoveryIdles(v)
  PROVE  /\ tk' \in [Requests -> Tasks]
         /\ \A u \in Requests :
              IF u = task[v] /\ Waiters(u) = {} /\ ~tk[u].cached THEN IsAborted(u) ELSE Kept(u)
<1> DEFINE t == task[v]
           Idle == t # None /\ Waiters(t) = {} /\ ~tk[t].cached
<1>1. tk' = IF Idle THEN [tk EXCEPT ![t] = Aborting(t)] ELSE tk
  BY DEF RecoveryIdles, OnIdle
<1>2. \A u \in Requests : Aborting(u) \in Tasks /\ (tk'[u] = Aborting(u) => IsAborted(u))
        /\ tk[u] \in Tasks
  BY AbortingFields DEF TypeOK
<1>3. tk \in [Requests -> Tasks] /\ t \in Requests \cup {None}
  BY DEF TypeOK
<1>6. None \notin Requests
  BY ServiceAssumption
<1>4. CASE Idle
  <2>1. tk' = [tk EXCEPT ![t] = Aborting(t)] /\ t \in Requests
    BY <1>1, <1>4, <1>3
  <2> QED BY <1>2, <1>3, <2>1, <1>4 DEF Kept
<1>5. CASE ~Idle
  BY <1>1, <1>3, <1>5, <1>6 DEF Kept
<1> QED BY <1>4, <1>5

\* Joining a task changes nothing but that it must fetch if a force joins.
LEMMA JoinEffect ==
  ASSUME TypeOK, NEW v \in Services, NEW m \in Modes \cup {None}, NEW r \in Requests, LiveTask(v),
         JoinTask(r, v, m)
  PROVE  /\ tk' \in [Requests -> Tasks]
         /\ \A u \in Requests : u # task[v] => Kept(u)
         /\ SameBut(task[v], tk[task[v]].phase, (tk[task[v]].force \/ m = "force"),
                    tk[task[v]].cached, tk[task[v]].aborted, tk[task[v]].at,
                    tk[task[v]].ok, tk[task[v]].result, tk[task[v]].race, tk[task[v]].settled)
<1> DEFINE x == tk[task[v]]
           y == [x EXCEPT !.force = @ \/ m = "force"]
<1>1. x \in Tasks /\ tk \in [Requests -> Tasks] /\ task[v] \in Requests
        /\ tk' = [tk EXCEPT ![task[v]] = y]
  BY ServiceAssumption DEF TypeOK, LiveTask, JoinTask, Joined
<1>2. y \in Tasks
  BY <1>1 DEF Tasks
<1>3. /\ y.phase = x.phase /\ y.force = (x.force \/ m = "force") /\ y.cached = x.cached
      /\ y.aborted = x.aborted /\ y.at = x.at
      /\ y.ok = x.ok /\ y.result = x.result /\ y.race = x.race /\ y.settled = x.settled
  BY <1>1 DEF Tasks
<1> HIDE DEF x, y
<1>4. \A u \in Requests : u # task[v] => Kept(u)
  BY <1>1 DEF Kept
<1>5. tk' \in [Requests -> Tasks] /\ tk'[task[v]] = y
  BY <1>1, <1>2
<1>6. /\ tk'[task[v]].phase = x.phase /\ tk'[task[v]].force = (x.force \/ m = "force")
      /\ tk'[task[v]].cached = x.cached /\ tk'[task[v]].aborted = x.aborted
      /\ tk'[task[v]].at = x.at
      /\ tk'[task[v]].ok = x.ok /\ tk'[task[v]].result = x.result /\ tk'[task[v]].race = x.race
      /\ tk'[task[v]].settled = x.settled
  BY <1>3, <1>5, Zenon
<1> QED BY <1>4, <1>5, <1>6, Zenon DEF x, SameBut

\* A new task is queued, and is a force if its request is one.
LEMMA CreateEffect ==
  ASSUME TypeOK, NEW v \in Services, NEW m \in Modes \cup {None}, NEW t \in Requests,
         CreateTask(t, v, m)
  PROVE  /\ tk' \in [Requests -> Tasks]
         /\ \A u \in Requests : u # t => Kept(u)
         /\ tk'[t].phase = "queued" /\ (m = "force" => tk'[t].force)
         /\ ~tk'[t].cached /\ ~tk'[t].settled
<1> DEFINE x == tk[t]
           y == [NoTask EXCEPT !.phase = "queued", !.force = (m = "force")]
<1>1. x \in Tasks /\ tk \in [Requests -> Tasks] /\ tk' = [tk EXCEPT ![t] = y]
  BY DEF TypeOK, CreateTask
<1>2. y \in Tasks
  BY <1>1 DEF Tasks, NoTask
<1>3. /\ y.phase = "queued" /\ y.force = (m = "force") /\ y.cached = FALSE /\ y.aborted = FALSE
      /\ y.at = 0
      /\ y.ok = FALSE /\ y.result = None /\ y.race = None /\ y.settled = FALSE
  BY <1>1 DEF Tasks, NoTask
<1> HIDE DEF x, y
<1>4. \A u \in Requests : u # t => Kept(u)
  BY <1>1 DEF Kept
<1>5. tk' \in [Requests -> Tasks] /\ tk'[t] = y
  BY <1>1, <1>2
<1>6. /\ tk'[t].phase = "queued" /\ tk'[t].force = (m = "force") /\ tk'[t].cached = FALSE
      /\ tk'[t].aborted = FALSE /\ tk'[t].at = 0
      /\ tk'[t].ok = FALSE /\ tk'[t].result = None /\ tk'[t].race = None /\ tk'[t].settled = FALSE
  BY <1>3, <1>5, Zenon
<1> QED BY <1>4, <1>5, <1>6

\* The execution of a task returns a result, and nothing else.
LEMMA ReturnEffect ==
  ASSUME TypeOK, NEW t \in Requests, NEW z \in Outcomes \cup {Cancelled},
         tk' = [tk EXCEPT ![t] = Returned(t, z)]
  PROVE  /\ tk' \in [Requests -> Tasks]
         /\ \A u \in Requests : u # t => Kept(u)
         /\ SameBut(t, "returned", tk[t].force, tk[t].cached, tk[t].aborted, tk[t].at,
                    tk[t].ok, z, tk[t].race, tk[t].settled)
<1> DEFINE x == tk[t]
           y == [x EXCEPT !.phase = "returned", !.result = z]
<1>1. x \in Tasks /\ tk \in [Requests -> Tasks] /\ tk' = [tk EXCEPT ![t] = y]
  BY DEF TypeOK, Returned
<1>2. y \in Tasks
  BY <1>1 DEF Tasks
<1>3. /\ y.phase = "returned" /\ y.force = x.force /\ y.cached = x.cached /\ y.aborted = x.aborted
      /\ y.at = x.at
      /\ y.ok = x.ok /\ y.result = z /\ y.race = x.race /\ y.settled = x.settled
  BY <1>1 DEF Tasks
<1> HIDE DEF x, y
<1>4. \A u \in Requests : u # t => Kept(u)
  BY <1>1 DEF Kept
<1>5. tk' \in [Requests -> Tasks] /\ tk'[t] = y
  BY <1>1, <1>2
<1>6. /\ tk'[t].phase = "returned" /\ tk'[t].force = x.force /\ tk'[t].cached = x.cached
      /\ tk'[t].aborted = x.aborted /\ tk'[t].at = x.at
      /\ tk'[t].ok = x.ok /\ tk'[t].result = z /\ tk'[t].race = x.race /\ tk'[t].settled = x.settled
  BY <1>3, <1>5, Zenon
<1> QED BY <1>4, <1>5, <1>6, Zenon DEF x, SameBut

\* A task that decides for the cache returns the list it reads.
LEMMA CacheEffect ==
  ASSUME TypeOK, NEW t \in Requests, ExecuteFromCache(t), ReadList(svc[t]) \in Nat
  PROVE  /\ tk' \in [Requests -> Tasks]
         /\ \A u \in Requests : u # t => Kept(u)
         /\ SameBut(t, "returned", tk[t].force, TRUE, tk[t].aborted, tk[t].at,
                    tk[t].ok, Outcome(FALSE, FALSE, FALSE, ReadList(svc[t])), tk[t].race,
                        tk[t].settled)
<1> DEFINE x == tk[t]
           y == [x EXCEPT !.phase = "returned",
               !.result = Outcome(FALSE, FALSE, FALSE, ReadList(svc[t])), !.cached = TRUE]
<1>1. x \in Tasks /\ tk \in [Requests -> Tasks] /\ tk' = [tk EXCEPT ![t] = y]
  BY DEF TypeOK, ExecuteFromCache, Returned, ServiceOf
<1>2. y \in Tasks
  BY <1>1 DEF Tasks, Outcomes, Outcome
<1>3. /\ y.phase = "returned" /\ y.force = x.force /\ y.cached = TRUE /\ y.aborted = x.aborted
      /\ y.at = x.at
      /\ y.ok = x.ok /\ y.result = Outcome(FALSE, FALSE, FALSE, ReadList(svc[t]))
      /\ y.race = x.race /\ y.settled = x.settled
  BY <1>1 DEF Tasks, Outcomes, Outcome
<1> HIDE DEF x, y
<1>4. \A u \in Requests : u # t => Kept(u)
  BY <1>1 DEF Kept
<1>5. tk' \in [Requests -> Tasks] /\ tk'[t] = y
  BY <1>1, <1>2
<1>6. /\ tk'[t].phase = "returned" /\ tk'[t].force = x.force /\ tk'[t].cached = TRUE
      /\ tk'[t].aborted = x.aborted /\ tk'[t].at = x.at
      /\ tk'[t].ok = x.ok /\ tk'[t].result = Outcome(FALSE, FALSE, FALSE, ReadList(svc[t]))
      /\ tk'[t].race = x.race /\ tk'[t].settled = x.settled
  BY <1>3, <1>5, Zenon
<1> QED BY <1>4, <1>5, <1>6, Zenon DEF x, SameBut

\* A task that decides for the network begins a fetch at the present time.
LEMMA FetchEffect ==
  ASSUME TypeOK, NEW t \in Requests, ExecuteFetch(t), stamp + 1 \in Nat
  PROVE  /\ tk' \in [Requests -> Tasks]
         /\ \A u \in Requests : u # t => Kept(u)
         /\ SameBut(t, "fetching", tk[t].force, tk[t].cached, tk[t].aborted, stamp + 1,
                    tk[t].ok, tk[t].result, tk[t].race, tk[t].settled)
<1> DEFINE x == tk[t]
           y == [x EXCEPT !.phase = "fetching", !.at = stamp + 1]
<1>1. x \in Tasks /\ tk \in [Requests -> Tasks] /\ tk' = [tk EXCEPT ![t] = y]
  BY DEF TypeOK, ExecuteFetch
<1>2. y \in Tasks
  BY <1>1 DEF Tasks
<1>3. /\ y.phase = "fetching" /\ y.force = x.force /\ y.cached = x.cached /\ y.aborted = x.aborted
      /\ y.at = stamp + 1
      /\ y.ok = x.ok /\ y.result = x.result /\ y.race = x.race /\ y.settled = x.settled
  BY <1>1 DEF Tasks
<1> HIDE DEF x, y
<1>4. \A u \in Requests : u # t => Kept(u)
  BY <1>1 DEF Kept
<1>5. tk' \in [Requests -> Tasks] /\ tk'[t] = y
  BY <1>1, <1>2
<1>6. /\ tk'[t].phase = "fetching" /\ tk'[t].force = x.force /\ tk'[t].cached = x.cached
      /\ tk'[t].aborted = x.aborted /\ tk'[t].at = stamp + 1
      /\ tk'[t].ok = x.ok /\ tk'[t].result = x.result /\ tk'[t].race = x.race
      /\ tk'[t].settled = x.settled
  BY <1>3, <1>5, Zenon
<1> QED BY <1>4, <1>5, <1>6, Zenon DEF x, SameBut

\* The answer of a fetch is kept until the execution goes on.
LEMMA AnswerEffect ==
  ASSUME TypeOK, NEW t \in Requests, NEW ok \in BOOLEAN, FetchReturns(t, ok)
  PROVE  /\ tk' \in [Requests -> Tasks]
         /\ \A u \in Requests : u # t => Kept(u)
         /\ SameBut(t, "fetched", tk[t].force, tk[t].cached, tk[t].aborted, tk[t].at,
                    ok, tk[t].result, tk[t].race, tk[t].settled)
<1> DEFINE x == tk[t]
           y == [x EXCEPT !.phase = "fetched", !.ok = ok]
<1>1. x \in Tasks /\ tk \in [Requests -> Tasks] /\ tk' = [tk EXCEPT ![t] = y]
  BY DEF TypeOK, FetchReturns
<1>2. y \in Tasks
  BY <1>1 DEF Tasks
<1>3. /\ y.phase = "fetched" /\ y.force = x.force /\ y.cached = x.cached /\ y.aborted = x.aborted
      /\ y.at = x.at
      /\ y.ok = ok /\ y.result = x.result /\ y.race = x.race /\ y.settled = x.settled
  BY <1>1 DEF Tasks
<1> HIDE DEF x, y
<1>4. \A u \in Requests : u # t => Kept(u)
  BY <1>1 DEF Kept
<1>5. tk' \in [Requests -> Tasks] /\ tk'[t] = y
  BY <1>1, <1>2
<1>6. /\ tk'[t].phase = "fetched" /\ tk'[t].force = x.force /\ tk'[t].cached = x.cached
      /\ tk'[t].aborted = x.aborted /\ tk'[t].at = x.at
      /\ tk'[t].ok = ok /\ tk'[t].result = x.result /\ tk'[t].race = x.race
      /\ tk'[t].settled = x.settled
  BY <1>3, <1>5, Zenon
<1> QED BY <1>4, <1>5, <1>6, Zenon DEF x, SameBut

\* An execution that is over decides the race, unless it is decided.
LEMMA SettleEffect ==
  ASSUME TypeOK, NEW t \in Requests, ExecuteSettles(t)
  PROVE  /\ tk' \in [Requests -> Tasks]
         /\ \A u \in Requests : u # t => Kept(u)
         /\ SameBut(t, "done", tk[t].force, tk[t].cached, tk[t].aborted, tk[t].at,
                    tk[t].ok, tk[t].result, Won(t, tk[t].result), tk[t].settled)
<1> DEFINE x == tk[t]
           y == [x EXCEPT !.phase = "done", !.race = Won(t, x.result)]
<1>1. x \in Tasks /\ tk \in [Requests -> Tasks] /\ tk' = [tk EXCEPT ![t] = y]
  BY DEF TypeOK, ExecuteSettles
<1>2. y \in Tasks
  BY <1>1 DEF Tasks, Won
<1>3. /\ y.phase = "done" /\ y.force = x.force /\ y.cached = x.cached /\ y.aborted = x.aborted
      /\ y.at = x.at
      /\ y.ok = x.ok /\ y.result = x.result /\ y.race = Won(t, x.result) /\ y.settled = x.settled
  BY <1>1 DEF Tasks, Won
<1> HIDE DEF x, y
<1>4. \A u \in Requests : u # t => Kept(u)
  BY <1>1 DEF Kept
<1>5. tk' \in [Requests -> Tasks] /\ tk'[t] = y
  BY <1>1, <1>2
<1>6. /\ tk'[t].phase = "done" /\ tk'[t].force = x.force /\ tk'[t].cached = x.cached
      /\ tk'[t].aborted = x.aborted /\ tk'[t].at = x.at
      /\ tk'[t].ok = x.ok /\ tk'[t].result = x.result /\ tk'[t].race = Won(t, x.result)
      /\ tk'[t].settled = x.settled
  BY <1>3, <1>5, Zenon
<1> QED BY <1>4, <1>5, <1>6, Zenon DEF x, SameBut

\* The finally of a task marks it settled.
LEMMA EndEffect ==
  ASSUME TypeOK, NEW t \in Requests, TaskSettles(t)
  PROVE  /\ tk' \in [Requests -> Tasks]
         /\ \A u \in Requests : u # t => Kept(u)
         /\ SameBut(t, tk[t].phase, tk[t].force, tk[t].cached, tk[t].aborted, tk[t].at,
                    tk[t].ok, tk[t].result, tk[t].race, TRUE)
<1> DEFINE x == tk[t]
           y == [x EXCEPT !.settled = TRUE]
<1>1. x \in Tasks /\ tk \in [Requests -> Tasks] /\ tk' = [tk EXCEPT ![t] = y]
  BY DEF TypeOK, TaskSettles
<1>2. y \in Tasks
  BY <1>1 DEF Tasks
<1>3. /\ y.phase = x.phase /\ y.force = x.force /\ y.cached = x.cached /\ y.aborted = x.aborted
      /\ y.at = x.at
      /\ y.ok = x.ok /\ y.result = x.result /\ y.race = x.race /\ y.settled = TRUE
  BY <1>1 DEF Tasks
<1> HIDE DEF x, y
<1>4. \A u \in Requests : u # t => Kept(u)
  BY <1>1 DEF Kept
<1>5. tk' \in [Requests -> Tasks] /\ tk'[t] = y
  BY <1>1, <1>2
<1>6. /\ tk'[t].phase = x.phase /\ tk'[t].force = x.force /\ tk'[t].cached = x.cached
      /\ tk'[t].aborted = x.aborted /\ tk'[t].at = x.at
      /\ tk'[t].ok = x.ok /\ tk'[t].result = x.result /\ tk'[t].race = x.race
      /\ tk'[t].settled = TRUE
  BY <1>3, <1>5, Zenon
<1> QED BY <1>4, <1>5, <1>6, Zenon DEF x, SameBut

\* What a service reads is a list or none, and always comparable.
LEMMA ReadListNat ==
  ASSUME TypeOK, \A v \in Services : ServiceOK(v), NEW v \in Services, v <= cur
  PROVE  ReadList(v) \in Nat
BY DEF TypeOK, ServiceOK, ReadList, Larger

\* A fetch goes on with a list only in a task that is the current one, and else with a
\* cancellation.
LEMMA ContinueEffect ==
  ASSUME TypeOK, \A v \in Services : ServiceOK(v), NEW t \in Requests, svc[t] \in 1..cur,
         ExecuteContinues(t)
  PROVE  /\ tk' \in [Requests -> Tasks]
         /\ \A w \in Requests : w # t => Kept(w)
         /\ NewList(t, svc[t]) \in Nat
         /\ SameBut(t, "returned", tk[t].force, tk[t].cached, tk[t].aborted, tk[t].at, tk[t].ok,
                    IF Current(t) THEN Outcome(TRUE, tk[t].ok, ~tk[t].ok, NewList(t, svc[t]))
                        ELSE Cancelled,
                    tk[t].race, tk[t].settled)
<1> DEFINE z == IF Current(t) THEN Outcome(TRUE, tk[t].ok, ~tk[t].ok, NewList(t, svc[t]))
        ELSE Cancelled
<1>1. svc[t] \in Services /\ svc[t] <= cur
  BY ServiceAssumption DEF TypeOK, Services
<1>2. ReadList(svc[t]) \in Nat
  BY <1>1, ReadListNat
<1>3. /\ snapshot[svc[t]] \in Nat
      /\ tk[t].at \in Nat
      /\ tk[t].ok \in BOOLEAN
  BY <1>1 DEF TypeOK, Tasks
<1>4. NewList(t, svc[t]) \in Nat
  BY <1>2, <1>3 DEF NewList, Larger
<1>5. z \in Outcomes \cup {Cancelled}
  BY <1>3, <1>4 DEF Outcome, Outcomes
<1>6. tk' = [tk EXCEPT ![t] = Returned(t, z)]
  BY DEF ExecuteContinues, ServiceOf
<1> HIDE DEF z
<1>7. /\ tk' \in [Requests -> Tasks]
      /\ \A w \in Requests : w # t => Kept(w)
      /\ SameBut(t, "returned", tk[t].force, tk[t].cached, tk[t].aborted, tk[t].at, tk[t].ok, z,
                 tk[t].race, tk[t].settled)
  BY <1>5, <1>6, ReturnEffect
<1> QED BY <1>4, <1>7 DEF z

-----------------------------------------------------------------------------
(* What a step leaves of TaskOK *)

\* A task that is left alone stays in order if its slot does and nobody new waits for it
\* once it is aborted.
LEMMA TaskKept ==
  ASSUME NEW u \in Requests, TaskOK(u), Kept(u), cur' = cur, svc'[u] = svc[u],
         job'[u] = u <=> job[u] = u,
         tk[u].phase # "none" /\ ~tk[u].aborted /\ ~tk[u].settled /\ Valid(svc[u])
           => task'[svc[u]] = u,
         tk[u].aborted => Waiters(u)' \subseteq Waiters(u)
  PROVE  TaskOK(u)'
BY DEF TaskOK, Kept, Valid

\* A task stays in order when its service is replaced.
LEMMA TaskSwitched ==
  ASSUME NEW u \in Requests, TaskOK(u), cur \in Nat, cur' = cur + 1, UNCHANGED <<svc, job>>,
         IF cur # 0 /\ u = task[cur] THEN IsAborted(u) ELSE Kept(u),
         cur # 0 /\ u = task[cur] => tk[u].phase # "none"
  PROVE  TaskOK(u)'
<1> USE ServiceAssumption DEF TaskOK, Valid
<1>1. CASE cur # 0 /\ u = task[cur]
  <2>1. tk[u].phase # "none" /\ svc[u] \in 1..cur' /\ svc[u] # cur'
    BY <1>1
  <2>2. IsAborted(u)
    BY <1>1
  <2>3. svc'[u] = svc[u] /\ job'[u] = job[u]
    OBVIOUS
  <2> QED BY <2>1, <2>2, <2>3 DEF IsAborted, SameBut, Won
<1>2. CASE ~(cur # 0 /\ u = task[cur])
  <2>1. Kept(u)
    BY <1>2
  <2>2. tk[u].phase # "none" => svc[u] \in 1..cur' /\ svc[u] # cur'
          /\ (tk[u].aborted \/ tk[u].settled \/ svc[u] # cur)
    BY <1>2
  <2>3. Cancelled \in {tk[u].result, tk[u].race} => tk[u].phase # "none"
    BY DEF NoTask
  <2> QED BY <2>1, <2>2, <2>3 DEF Kept
<1> QED BY <1>1, <1>2

\* A task that nobody waits for may be aborted unless it has decided for the cache.
LEMMA TaskAborted ==
  ASSUME NEW u \in Requests, TaskOK(u), IsAborted(u), tk[u].phase # "none", ~tk[u].cached,
         UNCHANGED <<cur, svc, job>>, Waiters(u)' = {}
  PROVE  TaskOK(u)'
BY ServiceAssumption DEF TaskOK, Valid, IsAborted, SameBut, Won

\* A task that is not aborted may be joined.
LEMMA TaskJoined ==
  ASSUME NEW u \in Requests, TaskOK(u), NEW f, ~tk[u].aborted, tk[u].phase # "none",
         SameBut(u, tk[u].phase, f, tk[u].cached, tk[u].aborted, tk[u].at, tk[u].ok,
                 tk[u].result, tk[u].race, tk[u].settled),
         cur' = cur, task' = task, svc'[u] = svc[u], job'[u] = u <=> job[u] = u
  PROVE  TaskOK(u)'
BY ServiceAssumption DEF TaskOK, Valid, SameBut

\* A task may return what it has attempted, or a cancellation if it is no longer wanted.
LEMMA TaskReturns ==
  ASSUME NEW u \in Requests, TaskOK(u), tk[u].phase \in {"queued", "fetched"}, NEW z,
         NEW c \in BOOLEAN,
         SameBut(u, "returned", tk[u].force, c, tk[u].aborted, tk[u].at, tk[u].ok,
                 z, tk[u].race, tk[u].settled),
         z # None, z = Cancelled => tk[u].aborted \/ ~Valid(svc[u]),
         z # Cancelled /\ ~c => z.attempted,
         c => ~tk[u].aborted,
         UNCHANGED <<cur, task, st, svc, job>>
  PROVE  TaskOK(u)'
<1>1. tk[u].result = None /\ (tk[u].race # None => tk[u].aborted)
        /\ (tk[u].race \in {None, Cancelled}) /\ ~tk[u].cached
  BY DEF TaskOK
<1> QED BY <1>1, ServiceAssumption DEF TaskOK, Valid, SameBut, Waiters

\* A task may begin its fetch and get the answer.
LEMMA TaskFetches ==
  ASSUME NEW u \in Requests, TaskOK(u), NEW p \in {"fetching", "fetched"}, NEW a, NEW ok,
         tk[u].phase \in {"queued", "fetching"},
         SameBut(u, p, tk[u].force, tk[u].cached, tk[u].aborted, a, ok,
                 tk[u].result, tk[u].race, tk[u].settled),
         UNCHANGED <<cur, task, st, svc, job>>
  PROVE  TaskOK(u)'
BY ServiceAssumption DEF TaskOK, Valid, SameBut, Waiters

\* A task whose execution is over may decide its race.
LEMMA TaskIsDone ==
  ASSUME NEW u \in Requests, TaskOK(u), tk[u].phase = "returned",
         SameBut(u, "done", tk[u].force, tk[u].cached, tk[u].aborted, tk[u].at, tk[u].ok,
                 tk[u].result, Won(u, tk[u].result), tk[u].settled),
         UNCHANGED <<cur, task, st, svc, job>>
  PROVE  TaskOK(u)'
BY ServiceAssumption DEF TaskOK, Valid, SameBut, Waiters, Won

\* A task whose race is decided may end.
LEMMA TaskEnds ==
  ASSUME NEW u \in Requests, TaskOK(u), tk[u].race # None,
         SameBut(u, tk[u].phase, tk[u].force, tk[u].cached, tk[u].aborted, tk[u].at, tk[u].ok,
                 tk[u].result, tk[u].race, TRUE),
         UNCHANGED <<cur, st, svc, job>>
  PROVE  TaskOK(u)'
BY ServiceAssumption DEF TaskOK, Valid, SameBut, Waiters, NoTask

-----------------------------------------------------------------------------
(* What a step leaves of RequestOK *)

\* Tasks keep their service, what they decided and the forces they serve.
TasksGoOn ==
  \A t \in Requests : tk[t].phase # "none" =>
    /\ tk'[t].phase # "none" /\ svc'[t] = svc[t] /\ tk'[t].cached = tk[t].cached
    /\ tk[t].force => tk'[t].force

\* A request stays in order when no task is forgotten, changes its service or its decision.
LEMMA RequestKept ==
  ASSUME NEW q \in Requests, RequestOK(q), cur \in Nat, cur' \in Nat, cur' >= cur,
         svc'[q] = svc[q], mode'[q] = mode[q], job'[q] = job[q],
         st'[q] = st[q] \/ (st[q] # "new" /\ st'[q] \in {"resolved", "rejected"}),
         TasksGoOn
  PROVE  RequestOK(q)'
<1>1. CASE st[q] = "new" /\ st'[q] = "new"
  BY <1>1 DEF RequestOK
<1>2. CASE st[q] # "new"
  <2>1. svc'[q] \in 1..cur'
    BY <1>2 DEF RequestOK
  <2>2. CASE st'[q] \in {"waiting", "deferred"}
    <3>1. /\ job[q] \in Requests /\ tk[job[q]].phase # "none" /\ svc[job[q]] = svc[q]
          /\ st'[q] = st[q]
      BY <1>2, <2>2 DEF RequestOK
    <3>2. /\ tk'[job[q]].phase # "none" /\ svc'[job[q]] = svc[job[q]]
          /\ tk'[job[q]].cached = tk[job[q]].cached /\ (tk[job[q]].force => tk'[job[q]].force)
      BY <3>1 DEF TasksGoOn
    <3> QED BY <1>2, <2>1, <3>1, <3>2 DEF RequestOK
  <2>3. CASE st'[q] \notin {"waiting", "deferred"}
    BY <1>2, <2>1, <2>3 DEF RequestOK
  <2> QED BY <2>2, <2>3
<1> QED BY <1>1, <1>2

\* The types of the variables but that of the tasks.
VarsOK ==
  /\ cur \in 0..MaxServices
  /\ scope \in [Services -> Keys \cup {None}]
  /\ snapshot \in [Services -> Nat]
  /\ task \in [Services -> Requests \cup {None}]
  /\ recovering \in [Services -> BOOLEAN]
  /\ st \in [Requests -> {"new", "waiting", "deferred", "resolved", "rejected"}]
  /\ svc \in [Requests -> 0..MaxServices] /\ mode \in [Requests -> Modes \cup {None}]
  /\ job \in [Requests -> Requests \cup {None}]
  /\ aborted \in SUBSET Requests
  /\ outcome \in [Requests -> Outcomes \cup {None}]
  /\ cache \in [Keys -> Nat] /\ stamp \in Nat /\ saves \in 0..MaxSaves

-----------------------------------------------------------------------------
(* The steps *)

\* A request that asks the current service, for the first time or again.
Asks(r, m) ==
  /\ cur \in Services /\ st[r] \in {"new", "deferred"}
  /\ st[r] = "deferred" => tk[job[r]].race # None
  /\ svc' = [svc EXCEPT ![r] = cur] /\ mode' = [mode EXCEPT ![r] = m]
  /\ UNCHANGED <<cur, scope, recovering, aborted, local>>

AsksLocally(r, m) == Asks(r, m) /\ m = "local" /\ ReadLocally(r, cur)
AsksLater(r, m)   == Asks(r, m) /\ MustDefer(cur, m) /\ Defer(r, cur)
AsksToJoin(r, m)  == Asks(r, m) /\ ~MustDefer(cur, m) /\ LiveTask(cur) /\ JoinTask(r, cur, m)
AsksAnew(r, m)    == Asks(r, m) /\ ~LiveTask(cur) /\ CreateTask(r, cur, m)

\* A deferred force that is not asked again.
AskRejected(r) ==
  /\ st[r] = "deferred" /\ tk[job[r]].settled
  /\ tk[job[r]].race = Cancelled \/ r \in aborted \/ ~Valid(svc[r])
  /\ Reject(r)
  /\ UNCHANGED <<cur, scope, recovering, svc, mode, aborted, local, snapshot, task, tk, job>>

\* The steps, with the two ways to ask put together.
Step ==
  \/ \E k \in Keys : SwitchKey(k) \/ OtherProcessSaves(k)
  \/ \E r \in Requests, m \in Modes \cup {None} :
       AsksLocally(r, m) \/ AsksLater(r, m) \/ AsksToJoin(r, m) \/ AsksAnew(r, m)
  \/ \E r \in Requests :
       \/ \E m \in Modes : RequestAborted(r, m)
       \/ AskRejected(r) \/ SignalAborts(r) \/ WaiterSettles(r)
  \/ \E t \in Requests :
       \/ ExecuteCancelled(t) \/ ExecuteFromCache(t) \/ ExecuteFetch(t)
       \/ \E ok \in BOOLEAN : FetchReturns(t, ok)
       \/ ExecuteContinues(t) \/ ExecuteSettles(t) \/ TaskSettles(t)
  \/ \E v \in Services : RecoveryJoined(v) \/ RecoveryIdles(v)
  \/ UNCHANGED vars

\* Every step is one of those of Step, where the two ways to ask are one.
LEMMA NextIsStep ==
  ASSUME TypeOK, \A t \in Requests : TaskOK(t), \A r \in Requests : RequestOK(r), [Next]_vars
  PROVE  Step
<1> USE ServiceAssumption
<1>1. ASSUME NEW r \in Requests, NEW m \in Modes, Request(r, m) PROVE Step
  <2>1. Asks(r, m)
    BY <1>1 DEF Request, Asks, TypeOK, Services
  <2> QED BY <1>1, <2>1 DEF Request, Submit, Step, AsksLocally, AsksLater, AsksToJoin, AsksAnew
<1>2. ASSUME NEW r \in Requests, AskAgain(r) PROVE Step
  <2>1. CASE tk[job[r]].race = Cancelled \/ r \in aborted \/ ~Valid(svc[r])
    BY <1>2, <2>1 DEF AskAgain, AskRejected, Step
  <2>2. CASE ~(tk[job[r]].race = Cancelled \/ r \in aborted \/ ~Valid(svc[r]))
    <3>1. Submit(r, svc[r], mode[r]) /\ svc[r] = cur /\ st[r] = "deferred" /\ tk[job[r]].settled
          /\ UNCHANGED <<cur, scope, recovering, svc, mode, aborted, local>>
      BY <1>2, <2>2 DEF AskAgain, Valid
    <3>2. mode[r] \in Modes \cup {None} /\ svc' = [svc EXCEPT ![r] = cur]
            /\ mode' = [mode EXCEPT ![r] = mode[r]]
      BY <3>1 DEF TypeOK
    <3>3. cur \in Services /\ job[r] \in Requests
      BY <3>1 DEF RequestOK, TypeOK, Services
    <3>4. tk[job[r]].race # None
      BY <3>1, <3>3 DEF TaskOK
    <3>5. Asks(r, mode[r])
      BY <3>1, <3>2, <3>3, <3>4 DEF Asks
    <3> QED BY <3>1, <3>2, <3>5 DEF Submit, Step, AsksLocally, AsksLater, AsksToJoin, AsksAnew
  <2> QED BY <2>1, <2>2
<1> QED BY <1>1, <1>2 DEF Next, Execute, Step

\* A request is rejected for cause.
LEMMA CauseStep ==
  ASSUME TypeOK, TaskRuns, \A t \in Requests : TaskOK(t), \A r \in Requests : RequestOK(r),
         \A v \in Services : ServiceOK(v),
         RejectedOnlyForCause, Step
  PROVE  RejectedOnlyForCause'
<1> USE ServiceAssumption
<1>1. ASSUME NEW k \in Keys, SwitchKey(k)
       PROVE  RejectedOnlyForCause'
  <2>1. cur' = cur + 1 /\ UNCHANGED <<st, aborted, svc>>
    BY <1>1 DEF SwitchKey, callers
  <2>2. \A r \in Requests : st[r] = "rejected" /\ r \notin aborted
            => svc[r] \in 1..cur /\ svc[r] # cur
    BY DEF RejectedOnlyForCause, Valid, RequestOK
  <2>3. cur \in Nat
    BY DEF TypeOK
  <2>4. \A r \in Requests : st[r] = "rejected" /\ r \notin aborted => svc[r] # cur + 1
    BY <2>2, <2>3
  <2> QED
    BY <2>1, <2>4 DEF RejectedOnlyForCause, Valid
<1>2. ASSUME NEW k \in Keys, OtherProcessSaves(k)
       PROVE  RejectedOnlyForCause'
  BY <1>2 DEF Valid, RejectedOnlyForCause, slot, callers, OtherProcessSaves
<1>3. ASSUME NEW r \in Requests, NEW m \in Modes \cup {None}, AsksLocally(r, m)
       PROVE  RejectedOnlyForCause'
  BY <1>3 DEF Valid, RejectedOnlyForCause, AsksLocally, Asks, ReadLocally, Settle
<1>4. ASSUME NEW r \in Requests, NEW m \in Modes \cup {None}, AsksLater(r, m)
       PROVE  RejectedOnlyForCause'
  BY <1>4 DEF Valid, RejectedOnlyForCause, AsksLater, Asks, Defer
<1>5. ASSUME NEW r \in Requests, NEW m \in Modes \cup {None}, AsksToJoin(r, m)
       PROVE  RejectedOnlyForCause'
  BY <1>5 DEF Valid, RejectedOnlyForCause, AsksToJoin, Asks, JoinTask, Joined
<1>6. ASSUME NEW r \in Requests, NEW m \in Modes \cup {None}, AsksAnew(r, m)
       PROVE  RejectedOnlyForCause'
  BY <1>6 DEF Valid, RejectedOnlyForCause, AsksAnew, Asks, CreateTask
<1>7. ASSUME NEW r \in Requests, NEW m \in Modes, RequestAborted(r, m)
       PROVE  RejectedOnlyForCause'
  BY <1>7 DEF Valid, RejectedOnlyForCause, slot, RequestAborted, Reject, Settle
<1>8. ASSUME NEW r \in Requests, AskRejected(r)
       PROVE  RejectedOnlyForCause'
  <2>1. /\ st[r] = "deferred" /\ (tk[job[r]].race = Cancelled \/ r \in aborted \/ ~Valid(svc[r]))
        /\ st' = [st EXCEPT ![r] = "rejected"] /\ UNCHANGED <<cur, svc, aborted>>
    BY <1>8 DEF AskRejected, Reject, Settle
  <2>2. job[r] \in Requests /\ tk[job[r]].cached /\ svc[job[r]] = svc[r]
    BY <2>1 DEF RequestOK
  <2>3. tk[job[r]].race = Cancelled => ~Valid(svc[r])
    BY <2>2 DEF TaskOK
  <2> QED
    BY <2>1, <2>3 DEF RejectedOnlyForCause, Valid, TypeOK
<1>9. ASSUME NEW r \in Requests, SignalAborts(r)
       PROVE  RejectedOnlyForCause'
  BY <1>9 DEF TypeOK, Valid, RejectedOnlyForCause, slot, SignalAborts, Reject, Settle, Abandons,
     NotKept
<1>10. ASSUME NEW r \in Requests, WaiterSettles(r)
       PROVE  RejectedOnlyForCause'
  <2>1. /\ st[r] = "waiting" /\ UNCHANGED <<cur, svc, aborted>>
        /\ st' = [st EXCEPT ![r] = "resolved"] \/
           /\ tk[job[r]].race = Cancelled \/ tk[job[r]].aborted \/ ~Valid(svc[r])
           /\ st' = [st EXCEPT ![r] = "rejected"]
    BY <1>10 DEF WaiterSettles, Reject, Settle, Delivers, slot
  <2>2. job[r] \in Requests /\ svc[job[r]] = svc[r] /\ Waiters(job[r]) # {}
    BY <2>1 DEF RequestOK, Waiters
  <2>3. tk[job[r]].race = Cancelled \/ tk[job[r]].aborted => ~Valid(svc[r])
    BY <2>2 DEF TaskOK
  <2> QED
    BY <2>1, <2>3 DEF RejectedOnlyForCause, Valid, TypeOK
<1>11. ASSUME NEW t \in Requests, ExecuteCancelled(t)
       PROVE  RejectedOnlyForCause'
  BY <1>11 DEF Valid, RejectedOnlyForCause, slot, callers, ExecuteCancelled, Returned
<1>12. ASSUME NEW t \in Requests, ExecuteFromCache(t)
       PROVE  RejectedOnlyForCause'
  BY <1>12 DEF Valid, RejectedOnlyForCause, callers, ExecuteFromCache, Returned
<1>13. ASSUME NEW t \in Requests, ExecuteFetch(t)
       PROVE  RejectedOnlyForCause'
  BY <1>13 DEF Valid, RejectedOnlyForCause, callers, ExecuteFetch
<1>14. ASSUME NEW t \in Requests, NEW ok \in BOOLEAN, FetchReturns(t, ok)
       PROVE  RejectedOnlyForCause'
  BY <1>14 DEF Valid, RejectedOnlyForCause, slot, callers, FetchReturns
<1>15. ASSUME NEW t \in Requests, ExecuteContinues(t)
       PROVE  RejectedOnlyForCause'
  BY <1>15 DEF Valid, RejectedOnlyForCause, callers, ExecuteContinues, Returned
<1>16. ASSUME NEW t \in Requests, ExecuteSettles(t)
       PROVE  RejectedOnlyForCause'
  BY <1>16 DEF Valid, RejectedOnlyForCause, slot, callers, ExecuteSettles
<1>17. ASSUME NEW t \in Requests, TaskSettles(t)
       PROVE  RejectedOnlyForCause'
  BY <1>17 DEF Valid, RejectedOnlyForCause, callers, TaskSettles
<1>18. ASSUME NEW v \in Services, RecoveryJoined(v)
       PROVE  RejectedOnlyForCause'
  BY <1>18 DEF Valid, RejectedOnlyForCause, callers, RecoveryJoined
<1>19. ASSUME NEW v \in Services, RecoveryIdles(v)
       PROVE  RejectedOnlyForCause'
  BY <1>19 DEF Valid, RejectedOnlyForCause, callers, RecoveryIdles, OnIdle
<1>20. CASE UNCHANGED vars
  BY <1>20 DEF Valid, RejectedOnlyForCause, slot, callers, vars
<1> QED
  BY <1>1, <1>2, <1>3, <1>4, <1>5, <1>6, <1>7, <1>8, <1>9, <1>10, <1>11, <1>12, <1>13, <1>14,
     <1>15, <1>16, <1>17, <1>18, <1>19, <1>20 DEF Step

\* A force is answered by the network.
LEMMA ForceStep ==
  ASSUME TypeOK, TaskRuns, \A t \in Requests : TaskOK(t), \A r \in Requests : RequestOK(r),
         \A v \in Services : ServiceOK(v),
         ForceGoesToTheNetwork, Step
  PROVE  ForceGoesToTheNetwork'
<1> USE ServiceAssumption
<1>1. ASSUME NEW k \in Keys, SwitchKey(k)
       PROVE  ForceGoesToTheNetwork'
  BY <1>1 DEF ForceGoesToTheNetwork, callers, SwitchKey, Invalidated
<1>2. ASSUME NEW k \in Keys, OtherProcessSaves(k)
       PROVE  ForceGoesToTheNetwork'
  BY <1>2 DEF ForceGoesToTheNetwork, callers, OtherProcessSaves
<1>3. ASSUME NEW r \in Requests, NEW m \in Modes \cup {None}, AsksLocally(r, m)
       PROVE  ForceGoesToTheNetwork'
  BY <1>3 DEF TypeOK, ForceGoesToTheNetwork, AsksLocally, Asks, ReadLocally, Settle
<1>4. ASSUME NEW r \in Requests, NEW m \in Modes \cup {None}, AsksLater(r, m)
       PROVE  ForceGoesToTheNetwork'
  BY <1>4 DEF ForceGoesToTheNetwork, AsksLater, Asks, Defer
<1>5. ASSUME NEW r \in Requests, NEW m \in Modes \cup {None}, AsksToJoin(r, m)
       PROVE  ForceGoesToTheNetwork'
  BY <1>5 DEF ForceGoesToTheNetwork, AsksToJoin, Asks, JoinTask, Joined
<1>6. ASSUME NEW r \in Requests, NEW m \in Modes \cup {None}, AsksAnew(r, m)
       PROVE  ForceGoesToTheNetwork'
  BY <1>6 DEF ForceGoesToTheNetwork, AsksAnew, Asks, CreateTask
<1>7. ASSUME NEW r \in Requests, NEW m \in Modes, RequestAborted(r, m)
       PROVE  ForceGoesToTheNetwork'
  BY <1>7 DEF ForceGoesToTheNetwork, RequestAborted, Reject, Settle
<1>8. ASSUME NEW r \in Requests, AskRejected(r)
       PROVE  ForceGoesToTheNetwork'
  BY <1>8 DEF ForceGoesToTheNetwork, AskRejected, Reject, Settle
<1>9. ASSUME NEW r \in Requests, SignalAborts(r)
       PROVE  ForceGoesToTheNetwork'
  <2>1. /\ mode' = mode
        /\ \/ st' = [st EXCEPT ![r] = "rejected"] /\ outcome' = [outcome EXCEPT ![r] = None]
           \/ UNCHANGED <<st, outcome>>
    BY <1>9 DEF SignalAborts, Reject, Settle
  <2> QED
    BY <2>1 DEF ForceGoesToTheNetwork, TypeOK
<1>10. ASSUME NEW r \in Requests, WaiterSettles(r)
       PROVE  ForceGoesToTheNetwork'
  <2>1. /\ st[r] = "waiting" /\ tk[job[r]].settled /\ mode' = mode
        /\ \/ /\ tk[job[r]].race # Cancelled
              /\ st' = [st EXCEPT ![r] = "resolved"]
              /\ outcome' = [outcome EXCEPT ![r] = tk[job[r]].race]
           \/ /\ st' = [st EXCEPT ![r] = "rejected"] /\ outcome' = [outcome EXCEPT ![r] = None]
    BY <1>10 DEF WaiterSettles, Reject, Settle
  <2>2. job[r] \in Requests /\ (mode[r] = "force" => ~tk[job[r]].cached)
    BY <2>1 DEF RequestOK
  <2>3. mode[r] = "force" /\ tk[job[r]].race # Cancelled => tk[job[r]].race.attempted
    BY <2>1, <2>2 DEF TaskOK
  <2> QED
    BY <2>1, <2>3 DEF ForceGoesToTheNetwork, TypeOK
<1>11. ASSUME NEW t \in Requests, ExecuteCancelled(t)
       PROVE  ForceGoesToTheNetwork'
  BY <1>11 DEF ForceGoesToTheNetwork, callers, ExecuteCancelled, Returned
<1>12. ASSUME NEW t \in Requests, ExecuteFromCache(t)
       PROVE  ForceGoesToTheNetwork'
  BY <1>12 DEF ForceGoesToTheNetwork, callers, ExecuteFromCache, Returned
<1>13. ASSUME NEW t \in Requests, ExecuteFetch(t)
       PROVE  ForceGoesToTheNetwork'
  BY <1>13 DEF ForceGoesToTheNetwork, callers, ExecuteFetch
<1>14. ASSUME NEW t \in Requests, NEW ok \in BOOLEAN, FetchReturns(t, ok)
       PROVE  ForceGoesToTheNetwork'
  BY <1>14 DEF ForceGoesToTheNetwork, callers, FetchReturns
<1>15. ASSUME NEW t \in Requests, ExecuteContinues(t)
       PROVE  ForceGoesToTheNetwork'
  BY <1>15 DEF ForceGoesToTheNetwork, callers, ExecuteContinues, Returned
<1>16. ASSUME NEW t \in Requests, ExecuteSettles(t)
       PROVE  ForceGoesToTheNetwork'
  BY <1>16 DEF ForceGoesToTheNetwork, callers, ExecuteSettles
<1>17. ASSUME NEW t \in Requests, TaskSettles(t)
       PROVE  ForceGoesToTheNetwork'
  BY <1>17 DEF ForceGoesToTheNetwork, callers, TaskSettles
<1>18. ASSUME NEW v \in Services, RecoveryJoined(v)
       PROVE  ForceGoesToTheNetwork'
  BY <1>18 DEF ForceGoesToTheNetwork, callers, RecoveryJoined
<1>19. ASSUME NEW v \in Services, RecoveryIdles(v)
       PROVE  ForceGoesToTheNetwork'
  BY <1>19 DEF ForceGoesToTheNetwork, callers, RecoveryIdles, OnIdle
<1>20. CASE UNCHANGED vars
  BY <1>20 DEF ForceGoesToTheNetwork, callers, vars
<1> QED
  BY <1>1, <1>2, <1>3, <1>4, <1>5, <1>6, <1>7, <1>8, <1>9, <1>10, <1>11, <1>12, <1>13, <1>14,
     <1>15, <1>16, <1>17, <1>18, <1>19, <1>20 DEF Step

\* Lists only get newer.
LEMMA ForwardStep ==
  ASSUME TypeOK, TaskRuns, \A t \in Requests : TaskOK(t), \A r \in Requests : RequestOK(r),
         \A v \in Services : ServiceOK(v), Step
  PROVE  ReadsForward
<1> USE ServiceAssumption
<1>1. ASSUME NEW k \in Keys, SwitchKey(k)
       PROVE  ReadsForward
  <2>1. cur' = cur + 1 /\ snapshot' = [v \in Services |-> IF v = cur THEN 0 ELSE snapshot[v]]
    BY <1>1 DEF SwitchKey
  <2>2. cur \in Nat /\ \A v \in Services : v \in Nat /\ snapshot[v] \in Nat
    BY DEF TypeOK, Services
  <2>3. \A v \in Services : v # cur => snapshot[v] = 0
    BY DEF ServiceOK
  <2> QED
    BY <2>1, <2>2, <2>3 DEF ReadsForward
<1>2. ASSUME NEW k \in Keys, OtherProcessSaves(k)
       PROVE  ReadsForward
  BY <1>2 DEF TypeOK, ServiceOK, ReadsForward, slot, OtherProcessSaves
<1>3. ASSUME NEW r \in Requests, NEW m \in Modes \cup {None}, AsksLocally(r, m)
       PROVE  ReadsForward
  BY <1>3 DEF TypeOK, ServiceOK, ReadsForward, AsksLocally, Asks, ReadLocally, ReadList, Larger
<1>4. ASSUME NEW r \in Requests, NEW m \in Modes \cup {None}, AsksLater(r, m)
       PROVE  ReadsForward
  BY <1>4 DEF TypeOK, ServiceOK, ReadsForward, AsksLater, Asks, Defer
<1>5. ASSUME NEW r \in Requests, NEW m \in Modes \cup {None}, AsksToJoin(r, m)
       PROVE  ReadsForward
  BY <1>5 DEF TypeOK, ServiceOK, ReadsForward, AsksToJoin, Asks, JoinTask, Joined
<1>6. ASSUME NEW r \in Requests, NEW m \in Modes \cup {None}, AsksAnew(r, m)
       PROVE  ReadsForward
  BY <1>6 DEF TypeOK, ServiceOK, ReadsForward, AsksAnew, Asks, CreateTask
<1>7. ASSUME NEW r \in Requests, NEW m \in Modes, RequestAborted(r, m)
       PROVE  ReadsForward
  BY <1>7 DEF TypeOK, ServiceOK, ReadsForward, slot, RequestAborted
<1>8. ASSUME NEW r \in Requests, AskRejected(r)
       PROVE  ReadsForward
  BY <1>8 DEF TypeOK, ServiceOK, ReadsForward, AskRejected
<1>9. ASSUME NEW r \in Requests, SignalAborts(r)
       PROVE  ReadsForward
  BY <1>9 DEF TypeOK, ServiceOK, ReadsForward, slot, SignalAborts, Abandons, NotKept
<1>10. ASSUME NEW r \in Requests, WaiterSettles(r)
       PROVE  ReadsForward
  BY <1>10 DEF TypeOK, ServiceOK, ReadsForward, slot, WaiterSettles, Delivers
<1>11. ASSUME NEW t \in Requests, ExecuteCancelled(t)
       PROVE  ReadsForward
  BY <1>11 DEF TypeOK, ServiceOK, ReadsForward, slot, ExecuteCancelled, Returned
<1>12. ASSUME NEW t \in Requests, ExecuteFromCache(t)
       PROVE  ReadsForward
  BY <1>12 DEF TypeOK, ServiceOK, Valid, ReadsForward, ExecuteFromCache, Returned, ReadList, Larger
<1>13. ASSUME NEW t \in Requests, ExecuteFetch(t)
       PROVE  ReadsForward
  BY <1>13 DEF TypeOK, ServiceOK, Valid, ReadsForward, ExecuteFetch, ReadList, Larger
<1>14. ASSUME NEW t \in Requests, NEW ok \in BOOLEAN, FetchReturns(t, ok)
       PROVE  ReadsForward
  BY <1>14 DEF TypeOK, ServiceOK, ReadsForward, slot, FetchReturns
<1>15. ASSUME NEW t \in Requests, ExecuteContinues(t)
       PROVE  ReadsForward
  <2>a. svc[t] \in 1..cur
    BY <1>15 DEF TypeOK, TaskOK, RequestOK, Services, ExecuteContinues
  <2>1. /\ \A w \in Requests : w # t => Kept(w)
        /\ NewList(t, svc[t]) \in Nat
        /\ SameBut(t, "returned", tk[t].force, tk[t].cached, tk[t].aborted, tk[t].at, tk[t].ok,
                   IF Current(t) THEN Outcome(TRUE, tk[t].ok, ~tk[t].ok, NewList(t, svc[t]))
                       ELSE Cancelled, tk[t].race, tk[t].settled)
    BY <1>15, <2>a, ContinueEffect
  <2>2. /\ tk[t].phase = "fetched"
        /\ snapshot' = IF Current(t) THEN [snapshot EXCEPT ![svc[t]] = NewList(t, svc[t])]
              ELSE snapshot
        /\ UNCHANGED <<cur, scope, task, recovering, callers, local>>
    BY <1>15 DEF ExecuteContinues, ServiceOf
  <2>3. svc[t] \in Services /\ \A v \in Services : snapshot[v] \in Nat
    BY <2>a DEF TypeOK, Services
  <2>4. Current(t) => NewList(t, svc[t]) >= snapshot[svc[t]]
    <3>1. tk[t].at \in Nat /\ cache[scope[svc[t]]] \in Nat
      BY <2>3, <2>a DEF TypeOK, Tasks, ServiceOK
    <3> QED BY <3>1, <2>3 DEF NewList, ReadList, Larger
  <2>5. \A v \in Services : snapshot'[v] >= snapshot[v]
          /\ (v # svc[t] \/ ~Current(t) => snapshot'[v] = snapshot[v])
    <3>1. CASE Current(t)
      BY <2>2, <2>3, <2>4, <2>1, <3>1 DEF TypeOK
    <3>2. CASE ~Current(t)
      BY <2>2, <2>3, <3>2
    <3> QED BY <3>1, <3>2
  <2>6. Current(t) => svc[t] = cur
    BY DEF Current, ServiceOf, Valid
  <2> QED
    BY <2>2, <2>5, <2>6 DEF ReadsForward, ServiceOK, TypeOK
<1>16. ASSUME NEW t \in Requests, ExecuteSettles(t)
       PROVE  ReadsForward
  BY <1>16 DEF TypeOK, ServiceOK, ReadsForward, slot, ExecuteSettles
<1>17. ASSUME NEW t \in Requests, TaskSettles(t)
       PROVE  ReadsForward
  BY <1>17 DEF TypeOK, ServiceOK, ReadsForward, TaskSettles
<1>18. ASSUME NEW v \in Services, RecoveryJoined(v)
       PROVE  ReadsForward
  BY <1>18 DEF TypeOK, ServiceOK, ReadsForward, RecoveryJoined
<1>19. ASSUME NEW v \in Services, RecoveryIdles(v)
       PROVE  ReadsForward
  BY <1>19 DEF TypeOK, ServiceOK, ReadsForward, RecoveryIdles, OnIdle
<1>20. CASE UNCHANGED vars
  BY <1>20 DEF TypeOK, ServiceOK, ReadsForward, slot, vars
<1> QED
  BY <1>1, <1>2, <1>3, <1>4, <1>5, <1>6, <1>7, <1>8, <1>9, <1>10, <1>11, <1>12, <1>13, <1>14,
     <1>15, <1>16, <1>17, <1>18, <1>19, <1>20 DEF Step

\* Only the current service has a task and a list.
LEMMA ServiceStep ==
  ASSUME TypeOK, TaskRuns, \A t \in Requests : TaskOK(t), \A r \in Requests : RequestOK(r),
         \A v \in Services : ServiceOK(v), NEW w \in Services, Step
  PROVE  ServiceOK(w)'
<1> USE ServiceAssumption
<1>1. ASSUME NEW k \in Keys, SwitchKey(k)
       PROVE  ServiceOK(w)'
  <2>1. /\ cur' = cur + 1 /\ scope' = [scope EXCEPT ![cur + 1] = k]
        /\ snapshot' = [v \in Services |-> IF v = cur THEN 0 ELSE snapshot[v]]
        /\ task' = [v \in Services |-> IF v = cur THEN None ELSE task[v]]
    BY <1>1 DEF SwitchKey
  <2>2. cur \in Nat /\ w \in Nat /\ scope \in [Services -> Keys \cup {None}]
    BY DEF TypeOK, Services
  <2>3. ServiceOK(w)
    OBVIOUS
  <2>4. w # cur' => task'[w] = None /\ snapshot'[w] = 0
    BY <2>1, <2>2, <2>3 DEF ServiceOK
  <2>5. w <= cur' => scope'[w] \in Keys
    BY <2>1, <2>2, <2>3 DEF ServiceOK
  <2> QED
    BY <2>4, <2>5 DEF ServiceOK
<1>2. ASSUME NEW k \in Keys, OtherProcessSaves(k)
       PROVE  ServiceOK(w)'
  BY <1>2 DEF ServiceOK, slot, OtherProcessSaves
<1>3. ASSUME NEW r \in Requests, NEW m \in Modes \cup {None}, AsksLocally(r, m)
       PROVE  ServiceOK(w)'
  BY <1>3 DEF ServiceOK, AsksLocally, Asks, ReadLocally
<1>4. ASSUME NEW r \in Requests, NEW m \in Modes \cup {None}, AsksLater(r, m)
       PROVE  ServiceOK(w)'
  BY <1>4 DEF ServiceOK, AsksLater, Asks, Defer
<1>5. ASSUME NEW r \in Requests, NEW m \in Modes \cup {None}, AsksToJoin(r, m)
       PROVE  ServiceOK(w)'
  BY <1>5 DEF ServiceOK, AsksToJoin, Asks, JoinTask, Joined
<1>6. ASSUME NEW r \in Requests, NEW m \in Modes \cup {None}, AsksAnew(r, m)
       PROVE  ServiceOK(w)'
  BY <1>6 DEF ServiceOK, AsksAnew, Asks, CreateTask
<1>7. ASSUME NEW r \in Requests, NEW m \in Modes, RequestAborted(r, m)
       PROVE  ServiceOK(w)'
  BY <1>7 DEF ServiceOK, slot, RequestAborted
<1>8. ASSUME NEW r \in Requests, AskRejected(r)
       PROVE  ServiceOK(w)'
  BY <1>8 DEF ServiceOK, AskRejected
<1>9. ASSUME NEW r \in Requests, SignalAborts(r)
       PROVE  ServiceOK(w)'
  BY <1>9 DEF ServiceOK, slot, SignalAborts, Abandons, NotKept
<1>10. ASSUME NEW r \in Requests, WaiterSettles(r)
       PROVE  ServiceOK(w)'
  BY <1>10 DEF ServiceOK, slot, WaiterSettles, Delivers
<1>11. ASSUME NEW t \in Requests, ExecuteCancelled(t)
       PROVE  ServiceOK(w)'
  BY <1>11 DEF ServiceOK, slot, ExecuteCancelled, Returned
<1>12. ASSUME NEW t \in Requests, ExecuteFromCache(t)
       PROVE  ServiceOK(w)'
  BY <1>12 DEF ServiceOK, Valid, ExecuteFromCache, Returned
<1>13. ASSUME NEW t \in Requests, ExecuteFetch(t)
       PROVE  ServiceOK(w)'
  BY <1>13 DEF ServiceOK, Valid, ExecuteFetch
<1>14. ASSUME NEW t \in Requests, NEW ok \in BOOLEAN, FetchReturns(t, ok)
       PROVE  ServiceOK(w)'
  BY <1>14 DEF ServiceOK, slot, FetchReturns
<1>15. ASSUME NEW t \in Requests, ExecuteContinues(t)
       PROVE  ServiceOK(w)'
  BY <1>15 DEF TypeOK, ServiceOK, ExecuteContinues, Returned, Current, NewList, ReadList
<1>16. ASSUME NEW t \in Requests, ExecuteSettles(t)
       PROVE  ServiceOK(w)'
  BY <1>16 DEF ServiceOK, slot, ExecuteSettles
<1>17. ASSUME NEW t \in Requests, TaskSettles(t)
       PROVE  ServiceOK(w)'
  BY <1>17 DEF ServiceOK, TaskSettles, Released
<1>18. ASSUME NEW v \in Services, RecoveryJoined(v)
       PROVE  ServiceOK(w)'
  BY <1>18 DEF ServiceOK, RecoveryJoined
<1>19. ASSUME NEW v \in Services, RecoveryIdles(v)
       PROVE  ServiceOK(w)'
  BY <1>19 DEF ServiceOK, RecoveryIdles, OnIdle
<1>20. CASE UNCHANGED vars
  BY <1>20 DEF ServiceOK, slot, vars
<1> QED
  BY <1>1, <1>2, <1>3, <1>4, <1>5, <1>6, <1>7, <1>8, <1>9, <1>10, <1>11, <1>12, <1>13, <1>14,
     <1>15, <1>16, <1>17, <1>18, <1>19, <1>20 DEF Step

\* A service's task runs.
LEMMA RunsStep ==
  ASSUME TypeOK, TaskRuns, \A t \in Requests : TaskOK(t), \A r \in Requests : RequestOK(r),
         \A v \in Services : ServiceOK(v), Step
  PROVE  TaskRuns'
<1> USE ServiceAssumption
<1>1. ASSUME NEW k \in Keys, SwitchKey(k)
       PROVE  TaskRuns'
  BY <1>1 DEF TaskRuns, ServiceOK, SwitchKey, Invalidated
<1>2. ASSUME NEW k \in Keys, OtherProcessSaves(k)
       PROVE  TaskRuns'
  BY <1>2 DEF TaskRuns, slot, callers, OtherProcessSaves
<1>3. ASSUME NEW r \in Requests, NEW m \in Modes \cup {None}, AsksLocally(r, m)
       PROVE  TaskRuns'
  BY <1>3 DEF TaskRuns, TaskOK, RequestOK, AsksLocally, Asks, ReadLocally
<1>4. ASSUME NEW r \in Requests, NEW m \in Modes \cup {None}, AsksLater(r, m)
       PROVE  TaskRuns'
  BY <1>4 DEF TaskRuns, TaskOK, RequestOK, AsksLater, Asks, Defer
<1>5. ASSUME NEW r \in Requests, NEW m \in Modes \cup {None}, AsksToJoin(r, m)
       PROVE  TaskRuns'
  BY <1>5 DEF TaskRuns, TaskOK, RequestOK, AsksToJoin, Asks, JoinTask, Joined
<1>6. ASSUME NEW r \in Requests, NEW m \in Modes \cup {None}, AsksAnew(r, m)
       PROVE  TaskRuns'
  <2>a. cur \in Services /\ CreateTask(r, cur, m)
    BY <1>6 DEF Services, AsksAnew, Asks
  <2>1. /\ \A w \in Requests : w # r => Kept(w)
        /\ tk'[r].phase = "queued" /\ (m = "force" => tk'[r].force)
        /\ ~tk'[r].cached /\ ~tk'[r].settled
    BY <1>6, <2>a, CreateEffect
  <2>2. /\ Asks(r, m) /\ ~LiveTask(cur)
        /\ task' = [task EXCEPT ![cur] = r] /\ job' = [job EXCEPT ![r] = r]
        /\ st' = [st EXCEPT ![r] = "waiting"]
        /\ UNCHANGED <<snapshot, outcome>>
    BY <1>6 DEF AsksAnew, CreateTask
  <2>3. task' = [task EXCEPT ![cur] = r] /\ task \in [Services -> Requests \cup {None}]
          /\ svc \in [Requests -> 0..MaxServices]
        /\ svc' = [svc EXCEPT ![r] = cur] /\ cur \in Services
    BY <2>2, <2>a DEF TypeOK, Asks
  <2>4. ASSUME NEW v \in Services, task'[v] # None
        PROVE  svc'[task'[v]] = v /\ tk'[task'[v]].phase # "none" /\ ~tk'[task'[v]].settled
    <3>1. v = cur
      BY <2>3, <2>4 DEF ServiceOK
    <3>2. task'[v] = r /\ svc'[r] = v
      BY <2>3, <3>1
    <3> QED BY <2>1, <3>2
  <2> QED
    BY <2>4 DEF TaskRuns
<1>7. ASSUME NEW r \in Requests, NEW m \in Modes, RequestAborted(r, m)
       PROVE  TaskRuns'
  BY <1>7 DEF TaskRuns, TaskOK, RequestOK, slot, RequestAborted
<1>8. ASSUME NEW r \in Requests, AskRejected(r)
       PROVE  TaskRuns'
  BY <1>8 DEF TaskRuns, AskRejected
<1>9. ASSUME NEW r \in Requests, SignalAborts(r)
       PROVE  TaskRuns'
  <2>a. job[r] \in Requests
    BY <1>9 DEF TypeOK, TaskOK, RequestOK, Services, SignalAborts
  <2>1. \A w \in Requests :
          IF st[r] = "waiting" /\ w = job[r] /\ Abandons(w, svc[r], Waiters(w) \ {r})
            THEN IsAborted(w) ELSE Kept(w)
    BY <1>9, <2>a, SignalEffect
  <2>2. /\ st[r] \in {"waiting", "deferred"} /\ r \notin aborted /\ aborted' = aborted \cup {r}
        /\ IF st[r] = "waiting" THEN Reject(r) ELSE UNCHANGED <<st, outcome>>
        /\ UNCHANGED <<slot, svc, mode, job, local>>
    BY <1>9 DEF SignalAborts
  <2>3. \A w \in Requests : tk'[w].phase = tk[w].phase /\ tk'[w].settled = tk[w].settled
    BY <2>1 DEF Kept, IsAborted, SameBut
  <2> QED
    BY <2>2, <2>3 DEF TaskRuns, TypeOK, slot
<1>10. ASSUME NEW r \in Requests, WaiterSettles(r)
       PROVE  TaskRuns'
  BY <1>10 DEF TaskRuns, slot, WaiterSettles, Delivers
<1>11. ASSUME NEW t \in Requests, ExecuteCancelled(t)
       PROVE  TaskRuns'
  BY <1>11 DEF TaskRuns, slot, callers, ExecuteCancelled, Returned
<1>12. ASSUME NEW t \in Requests, ExecuteFromCache(t)
       PROVE  TaskRuns'
  BY <1>12 DEF TaskRuns, callers, ExecuteFromCache, Returned
<1>13. ASSUME NEW t \in Requests, ExecuteFetch(t)
       PROVE  TaskRuns'
  BY <1>13 DEF TypeOK, TaskRuns, callers, ExecuteFetch
<1>14. ASSUME NEW t \in Requests, NEW ok \in BOOLEAN, FetchReturns(t, ok)
       PROVE  TaskRuns'
  BY <1>14 DEF TypeOK, TaskRuns, slot, callers, FetchReturns
<1>15. ASSUME NEW t \in Requests, ExecuteContinues(t)
       PROVE  TaskRuns'
  <2>a. svc[t] \in 1..cur
    BY <1>15 DEF TypeOK, TaskOK, RequestOK, Services, ExecuteContinues
  <2>1. /\ \A w \in Requests : w # t => Kept(w)
        /\ NewList(t, svc[t]) \in Nat
        /\ SameBut(t, "returned", tk[t].force, tk[t].cached, tk[t].aborted, tk[t].at, tk[t].ok,
                   IF Current(t) THEN Outcome(TRUE, tk[t].ok, ~tk[t].ok, NewList(t, svc[t]))
                       ELSE Cancelled, tk[t].race, tk[t].settled)
    BY <1>15, <2>a, ContinueEffect
  <2>2. /\ tk[t].phase = "fetched"
        /\ snapshot' = IF Current(t) THEN [snapshot EXCEPT ![svc[t]] = NewList(t, svc[t])]
              ELSE snapshot
        /\ UNCHANGED <<cur, scope, task, recovering, callers, local>>
    BY <1>15 DEF ExecuteContinues, ServiceOf
  <2>3. \A w \in Requests : (tk[w].phase # "none" => tk'[w].phase # "none")
          /\ tk'[w].settled = tk[w].settled
    BY <2>1 DEF Kept, SameBut
  <2> QED
    BY <2>2, <2>3 DEF TaskRuns, TypeOK, callers
<1>16. ASSUME NEW t \in Requests, ExecuteSettles(t)
       PROVE  TaskRuns'
  BY <1>16 DEF TypeOK, TaskRuns, slot, callers, ExecuteSettles
<1>17. ASSUME NEW t \in Requests, TaskSettles(t)
       PROVE  TaskRuns'
  BY <1>17 DEF TaskRuns, callers, TaskSettles, Released
<1>18. ASSUME NEW v \in Services, RecoveryJoined(v)
       PROVE  TaskRuns'
  BY <1>18 DEF TaskRuns, callers, RecoveryJoined
<1>19. ASSUME NEW v \in Services, RecoveryIdles(v)
       PROVE  TaskRuns'
  BY <1>19 DEF TaskRuns, callers, RecoveryIdles, OnIdle, Aborting
<1>20. CASE UNCHANGED vars
  BY <1>20 DEF TaskRuns, slot, callers, vars
<1> QED
  BY <1>1, <1>2, <1>3, <1>4, <1>5, <1>6, <1>7, <1>8, <1>9, <1>10, <1>11, <1>12, <1>13, <1>14,
     <1>15, <1>16, <1>17, <1>18, <1>19, <1>20 DEF Step

\* No task runs for nobody.
LEMMA OrphanStep ==
  ASSUME TypeOK, TaskRuns, \A t \in Requests : TaskOK(t), \A r \in Requests : RequestOK(r),
         \A v \in Services : ServiceOK(v),
         NoOrphanFetch, Step
  PROVE  NoOrphanFetch'
<1> USE ServiceAssumption
<1>1. ASSUME NEW k \in Keys, SwitchKey(k)
       PROVE  NoOrphanFetch'
  BY <1>1 DEF ServiceOK, NoOrphanFetch, LiveTask, SwitchKey, Invalidated
<1>2. ASSUME NEW k \in Keys, OtherProcessSaves(k)
       PROVE  NoOrphanFetch'
  BY <1>2 DEF NoOrphanFetch, LiveTask, Waiters, slot, callers, OtherProcessSaves
<1>3. ASSUME NEW r \in Requests, NEW m \in Modes \cup {None}, AsksLocally(r, m)
       PROVE  NoOrphanFetch'
  BY <1>3 DEF NoOrphanFetch, LiveTask, Waiters, AsksLocally, Asks, ReadLocally, Settle
<1>4. ASSUME NEW r \in Requests, NEW m \in Modes \cup {None}, AsksLater(r, m)
       PROVE  NoOrphanFetch'
  BY <1>4 DEF NoOrphanFetch, LiveTask, Waiters, AsksLater, Asks, MustDefer, Defer
<1>5. ASSUME NEW r \in Requests, NEW m \in Modes \cup {None}, AsksToJoin(r, m)
       PROVE  NoOrphanFetch'
  BY <1>5 DEF NoOrphanFetch, LiveTask, Waiters, AsksToJoin, Asks, MustDefer, JoinTask, Joined
<1>6. ASSUME NEW r \in Requests, NEW m \in Modes \cup {None}, AsksAnew(r, m)
       PROVE  NoOrphanFetch'
  BY <1>6 DEF TypeOK, NoOrphanFetch, LiveTask, Waiters, AsksAnew, Asks, CreateTask
<1>7. ASSUME NEW r \in Requests, NEW m \in Modes, RequestAborted(r, m)
       PROVE  NoOrphanFetch'
  BY <1>7 DEF NoOrphanFetch, LiveTask, Waiters, slot, RequestAborted, Reject, Settle
<1>8. ASSUME NEW r \in Requests, AskRejected(r)
       PROVE  NoOrphanFetch'
  BY <1>8 DEF NoOrphanFetch, LiveTask, Waiters, AskRejected, Reject, Settle
<1>9. ASSUME NEW r \in Requests, SignalAborts(r)
       PROVE  NoOrphanFetch'
  <2>a. job[r] \in Requests
    BY <1>9 DEF TypeOK, TaskOK, RequestOK, Services, SignalAborts
  <2>1. \A w \in Requests :
          IF st[r] = "waiting" /\ w = job[r] /\ Abandons(w, svc[r], Waiters(w) \ {r})
            THEN IsAborted(w) ELSE Kept(w)
    BY <1>9, <2>a, SignalEffect
  <2>2. /\ st[r] \in {"waiting", "deferred"} /\ r \notin aborted /\ aborted' = aborted \cup {r}
        /\ IF st[r] = "waiting" THEN Reject(r) ELSE UNCHANGED <<st, outcome>>
        /\ UNCHANGED <<slot, svc, mode, job, local>>
    BY <1>9 DEF SignalAborts
  <2>3. ASSUME NEW v \in Services, LiveTask(v)', ~tk'[task'[v]].cached, tk'[task'[v]].race = None
        PROVE  Waiters(task[v])' # {} \/ recovering'[v]
    <3> DEFINE w == task[v]
    <3>1. task' = task /\ recovering' = recovering /\ w \in Requests /\ job' = job
      BY <2>2, <2>3 DEF LiveTask, TypeOK, slot
    <3>2. Kept(w)
      BY <2>1, <2>3, <3>1 DEF LiveTask, IsAborted, SameBut
    <3>3. LiveTask(v) /\ ~tk[w].cached /\ tk[w].race = None
      BY <2>3, <3>1, <3>2 DEF LiveTask, Kept
    <3>4. CASE st[r] = "waiting" /\ w = job[r]
      <4>1. ~Abandons(w, svc[r], Waiters(w) \ {r})
        <5> SUFFICES ASSUME Abandons(w, svc[r], Waiters(w) \ {r})
                     PROVE  FALSE
          OBVIOUS
        <5>1. IsAborted(w)
          BY <2>1, <3>1, <3>4
        <5> QED BY <5>1, <3>1, <2>3 DEF LiveTask, IsAborted, SameBut
      <4>2. svc[r] = v
        BY <3>1, <3>4, <2>a DEF TaskRuns, RequestOK
      <4>3. CASE recovering[v]
        BY <3>1, <4>3
      <4>4. CASE ~recovering[v]
        <5>1. PICK o \in Waiters(w) : o # r
          BY <4>1, <4>2, <4>4, <3>3 DEF Abandons, NotKept
        <5>2. st' = [st EXCEPT ![r] = "rejected"]
          BY <2>2, <3>4 DEF Reject, Settle
        <5>3. o \in Waiters(w)'
          BY <5>1, <5>2, <3>1 DEF Waiters, TypeOK
        <5> QED BY <5>3
      <4> QED BY <4>3, <4>4
    <3>5. CASE ~(st[r] = "waiting" /\ w = job[r])
      <4>1. Waiters(w) # {} \/ recovering[v]
        BY <3>3 DEF NoOrphanFetch
      <4>2. \A o \in Waiters(w) : o \in Waiters(w)'
        BY <3>5, <3>1, <2>2 DEF Waiters, Reject, Settle, TypeOK
      <4> QED BY <4>1, <4>2, <3>1
    <3> QED BY <3>4, <3>5
  <2> QED
    BY <2>2, <2>3 DEF NoOrphanFetch, slot
<1>10. ASSUME NEW r \in Requests, WaiterSettles(r)
       PROVE  NoOrphanFetch'
  BY <1>10 DEF TypeOK, TaskOK, NoOrphanFetch, LiveTask, Waiters, slot, WaiterSettles, Delivers,
     Reject, Settle
<1>11. ASSUME NEW t \in Requests, ExecuteCancelled(t)
       PROVE  NoOrphanFetch'
  BY <1>11 DEF NoOrphanFetch, LiveTask, Waiters, slot, callers, ExecuteCancelled, Returned
<1>12. ASSUME NEW t \in Requests, ExecuteFromCache(t)
       PROVE  NoOrphanFetch'
  BY <1>12 DEF NoOrphanFetch, LiveTask, Waiters, callers, ExecuteFromCache, Returned
<1>13. ASSUME NEW t \in Requests, ExecuteFetch(t)
       PROVE  NoOrphanFetch'
  BY <1>13 DEF TypeOK, NoOrphanFetch, LiveTask, Waiters, callers, ExecuteFetch
<1>14. ASSUME NEW t \in Requests, NEW ok \in BOOLEAN, FetchReturns(t, ok)
       PROVE  NoOrphanFetch'
  BY <1>14 DEF TypeOK, NoOrphanFetch, LiveTask, Waiters, slot, callers, FetchReturns
<1>15. ASSUME NEW t \in Requests, ExecuteContinues(t)
       PROVE  NoOrphanFetch'
  <2>a. svc[t] \in 1..cur
    BY <1>15 DEF TypeOK, TaskOK, RequestOK, Services, ExecuteContinues
  <2>1. /\ \A w \in Requests : w # t => Kept(w)
        /\ NewList(t, svc[t]) \in Nat
        /\ SameBut(t, "returned", tk[t].force, tk[t].cached, tk[t].aborted, tk[t].at, tk[t].ok,
                   IF Current(t) THEN Outcome(TRUE, tk[t].ok, ~tk[t].ok, NewList(t, svc[t]))
                       ELSE Cancelled, tk[t].race, tk[t].settled)
    BY <1>15, <2>a, ContinueEffect
  <2>2. /\ tk[t].phase = "fetched"
        /\ snapshot' = IF Current(t) THEN [snapshot EXCEPT ![svc[t]] = NewList(t, svc[t])]
              ELSE snapshot
        /\ UNCHANGED <<cur, scope, task, recovering, callers, local>>
    BY <1>15 DEF ExecuteContinues, ServiceOf
  <2>3. \A w \in Requests : tk'[w].aborted = tk[w].aborted /\ tk'[w].cached = tk[w].cached
          /\ tk'[w].race = tk[w].race
    BY <2>1 DEF Kept, SameBut
  <2>4. task \in [Services -> Requests \cup {None}] /\ UNCHANGED <<task, recovering, st, job>>
    BY <2>2 DEF TypeOK, callers
  <2> QED
    BY <2>3, <2>4 DEF NoOrphanFetch, LiveTask, Waiters
<1>16. ASSUME NEW t \in Requests, ExecuteSettles(t)
       PROVE  NoOrphanFetch'
  BY <1>16 DEF TypeOK, NoOrphanFetch, LiveTask, Waiters, slot, callers, ExecuteSettles, Won
<1>17. ASSUME NEW t \in Requests, TaskSettles(t)
       PROVE  NoOrphanFetch'
  BY <1>17 DEF NoOrphanFetch, LiveTask, Waiters, callers, TaskSettles, Released
<1>18. ASSUME NEW v \in Services, RecoveryJoined(v)
       PROVE  NoOrphanFetch'
  BY <1>18 DEF NoOrphanFetch, LiveTask, Waiters, callers, RecoveryJoined
<1>19. ASSUME NEW v \in Services, RecoveryIdles(v)
       PROVE  NoOrphanFetch'
  BY <1>19 DEF TypeOK, NoOrphanFetch, LiveTask, Waiters, callers, RecoveryIdles, OnIdle, Aborting,
     Won
<1>20. CASE UNCHANGED vars
  BY <1>20 DEF NoOrphanFetch, LiveTask, Waiters, slot, callers, vars
<1> QED
  BY <1>1, <1>2, <1>3, <1>4, <1>5, <1>6, <1>7, <1>8, <1>9, <1>10, <1>11, <1>12, <1>13, <1>14,
     <1>15, <1>16, <1>17, <1>18, <1>19, <1>20 DEF Step

\* A request knows its task.
LEMMA RequestStep ==
  ASSUME TypeOK, TaskRuns, \A t \in Requests : TaskOK(t), \A r \in Requests : RequestOK(r),
         \A v \in Services : ServiceOK(v), NEW q \in Requests, Step
  PROVE  RequestOK(q)'
<1> USE ServiceAssumption
<1>1. ASSUME NEW k \in Keys, SwitchKey(k)
       PROVE  RequestOK(q)'
  <2>1. \A w \in Requests : IF cur # 0 /\ w = task[cur] THEN IsAborted(w) ELSE Kept(w)
    BY <1>1, SwitchEffect
  <2>2. /\ cur < MaxServices /\ cur' = cur + 1 /\ scope' = [scope EXCEPT ![cur + 1] = k]
        /\ snapshot' = [v \in Services |-> IF v = cur THEN 0 ELSE snapshot[v]]
        /\ task' = [v \in Services |-> IF v = cur THEN None ELSE task[v]]
        /\ recovering' = [v \in Services |-> v # cur /\ recovering[v]]
        /\ UNCHANGED <<callers, local>>
    BY <1>1 DEF SwitchKey
  <2>9. cur \in Nat /\ cur' \in Nat /\ cur' >= cur
    BY <2>2 DEF TypeOK, slot
  <2>3. \A t \in Requests : tk'[t].phase = tk[t].phase /\ tk'[t].cached = tk[t].cached
          /\ tk'[t].force = tk[t].force
    BY <2>1 DEF Kept, IsAborted, SameBut
  <2>7. TasksGoOn
    BY <2>2, <2>3 DEF TasksGoOn, callers
  <2>8. svc'[q] = svc[q] /\ mode'[q] = mode[q] /\ job'[q] = job[q] /\ st'[q] = st[q]
    BY <2>2 DEF callers
  <2> QED
    BY <2>7, <2>8, <2>9, RequestKept
<1>2. ASSUME NEW k \in Keys, OtherProcessSaves(k)
       PROVE  RequestOK(q)'
  BY <1>2 DEF RequestOK, slot, callers, OtherProcessSaves
<1>3. ASSUME NEW r \in Requests, NEW m \in Modes \cup {None}, AsksLocally(r, m)
       PROVE  RequestOK(q)'
  BY <1>3 DEF TypeOK, TaskOK, RequestOK, Services, AsksLocally, Asks, ReadLocally, Settle
<1>4. ASSUME NEW r \in Requests, NEW m \in Modes \cup {None}, AsksLater(r, m)
       PROVE  RequestOK(q)'
  BY <1>4 DEF TypeOK, TaskRuns, TaskOK, RequestOK, AsksLater, Asks, MustDefer, LiveTask, Defer
<1>5. ASSUME NEW r \in Requests, NEW m \in Modes \cup {None}, AsksToJoin(r, m)
       PROVE  RequestOK(q)'
  <2>a. cur \in Services /\ LiveTask(cur) /\ JoinTask(r, cur, m)
    BY <1>5 DEF Services, AsksToJoin, Asks
  <2>1. /\ \A w \in Requests : w # task[cur] => Kept(w)
       
        /\ SameBut(task[cur], tk[task[cur]].phase, (tk[task[cur]].force \/ m = "force"),
                   tk[task[cur]].cached, tk[task[cur]].aborted, tk[task[cur]].at, tk[task[cur]].ok,
                       tk[task[cur]].result, tk[task[cur]].race, tk[task[cur]].settled)
    BY <1>5, <2>a, JoinEffect
  <2>2. /\ Asks(r, m) /\ ~MustDefer(cur, m) /\ LiveTask(cur)
        /\ job' = [job EXCEPT ![r] = task[cur]] /\ st' = [st EXCEPT ![r] = "waiting"]
        /\ UNCHANGED <<snapshot, task, outcome>>
    BY <1>5 DEF AsksToJoin, JoinTask
  <2>3. /\ cur' = cur /\ cur \in Services /\ task[cur] \in Requests
        /\ svc' = [svc EXCEPT ![r] = cur] /\ mode' = [mode EXCEPT ![r] = m]
        /\ st[r] \in {"new", "deferred"}
    BY <2>2, <2>a DEF Asks, LiveTask, TypeOK
  <2>4. tk[task[cur]].phase # "none" /\ svc[task[cur]] = cur
    BY <2>3, <2>2 DEF TaskRuns, LiveTask
  <2>5. TasksGoOn
    <3>1. \A t \in Requests : tk'[t].phase = tk[t].phase /\ tk'[t].cached = tk[t].cached
            /\ (tk[t].force => tk'[t].force)
      BY <2>1 DEF Kept, SameBut
    <3>2. tk[r].phase # "none" => job[r] = r
      BY DEF TaskOK
    <3>3. st[r] = "new" => job[r] # r
      BY DEF RequestOK
    <3>4. st[r] = "deferred" => job[r] # r
      BY DEF RequestOK
    <3>5. \A t \in Requests : t # r => svc'[t] = svc[t]
      BY <2>3 DEF TypeOK
    <3> QED BY <3>1, <3>2, <3>3, <3>4, <3>5, <2>3 DEF TasksGoOn
  <2>6. CASE q = r
    <3>1. /\ st'[r] = "waiting" /\ job'[r] = task[cur] /\ svc'[r] = cur /\ mode'[r] = m
      BY <2>2, <2>3 DEF TypeOK
    <3>2. tk'[task[cur]].phase # "none" /\ svc'[task[cur]] = cur
      BY <2>3, <2>4, <2>5 DEF TasksGoOn
    <3>3. m = "force" => tk'[task[cur]].force /\ ~tk'[task[cur]].cached
      BY <2>1, <2>2, <2>3 DEF SameBut, MustDefer
    <3>4. cur \in 1..cur'
      BY <2>3 DEF Services
    <3> QED BY <2>6, <2>3, <3>1, <3>2, <3>3, <3>4 DEF RequestOK
  <2>7. CASE q # r
    <3>1. st'[q] = st[q] /\ job'[q] = job[q] /\ svc'[q] = svc[q] /\ mode'[q] = mode[q]
      BY <2>2, <2>3, <2>7 DEF TypeOK
    <3>2. cur \in Nat
      BY DEF TypeOK
    <3>3. cur' \in Nat /\ cur' >= cur
      BY <2>3, <3>2
    <3> QED BY <2>5, <3>1, <3>2, <3>3, RequestKept
  <2> QED
    BY <2>6, <2>7
<1>6. ASSUME NEW r \in Requests, NEW m \in Modes \cup {None}, AsksAnew(r, m)
       PROVE  RequestOK(q)'
  <2>a. cur \in Services /\ CreateTask(r, cur, m)
    BY <1>6 DEF Services, AsksAnew, Asks
  <2>1. /\ \A w \in Requests : w # r => Kept(w)
        /\ tk'[r].phase = "queued" /\ (m = "force" => tk'[r].force)
        /\ ~tk'[r].cached /\ ~tk'[r].settled
    BY <1>6, <2>a, CreateEffect
  <2>2. /\ Asks(r, m) /\ ~LiveTask(cur)
        /\ task' = [task EXCEPT ![cur] = r] /\ job' = [job EXCEPT ![r] = r]
        /\ st' = [st EXCEPT ![r] = "waiting"]
        /\ UNCHANGED <<snapshot, outcome>>
    BY <1>6 DEF AsksAnew, CreateTask
  <2>3. /\ cur' = cur /\ cur \in Services
        /\ svc' = [svc EXCEPT ![r] = cur] /\ mode' = [mode EXCEPT ![r] = m]
        /\ st[r] \in {"new", "deferred"}
    BY <2>2, <2>a DEF Asks
  <2>4. tk[r].phase = "none"
    BY <2>3 DEF TaskOK, RequestOK
  <2>5. TasksGoOn
    BY <2>1, <2>3, <2>4 DEF TasksGoOn, Kept, TypeOK
  <2>6. CASE q = r
    <3>1. /\ st'[r] = "waiting" /\ job'[r] = r /\ svc'[r] = cur /\ mode'[r] = m
      BY <2>2, <2>3 DEF TypeOK
    <3>2. cur \in 1..cur'
      BY <2>3 DEF Services
    <3> QED BY <2>1, <2>3, <2>6, <3>1, <3>2 DEF RequestOK
  <2>7. CASE q # r
    <3>1. st'[q] = st[q] /\ job'[q] = job[q] /\ svc'[q] = svc[q] /\ mode'[q] = mode[q]
      BY <2>2, <2>3, <2>7 DEF TypeOK
    <3>2. cur \in Nat
      BY DEF TypeOK
    <3>3. cur' \in Nat /\ cur' >= cur
      BY <2>3, <3>2
    <3> QED BY <2>5, <3>1, <3>2, <3>3, RequestKept
  <2> QED
    BY <2>6, <2>7
<1>7. ASSUME NEW r \in Requests, NEW m \in Modes, RequestAborted(r, m)
       PROVE  RequestOK(q)'
  BY <1>7 DEF TypeOK, TaskOK, RequestOK, slot, RequestAborted, Reject, Settle
<1>8. ASSUME NEW r \in Requests, AskRejected(r)
       PROVE  RequestOK(q)'
  BY <1>8 DEF RequestOK, AskRejected, Reject, Settle
<1>9. ASSUME NEW r \in Requests, SignalAborts(r)
       PROVE  RequestOK(q)'
  <2>a. job[r] \in Requests
    BY <1>9 DEF TypeOK, TaskOK, RequestOK, Services, SignalAborts
  <2>1. \A w \in Requests :
          IF st[r] = "waiting" /\ w = job[r] /\ Abandons(w, svc[r], Waiters(w) \ {r})
            THEN IsAborted(w) ELSE Kept(w)
    BY <1>9, <2>a, SignalEffect
  <2>2. /\ st[r] \in {"waiting", "deferred"} /\ r \notin aborted /\ aborted' = aborted \cup {r}
        /\ IF st[r] = "waiting" THEN Reject(r) ELSE UNCHANGED <<st, outcome>>
        /\ UNCHANGED <<slot, svc, mode, job, local>>
    BY <1>9 DEF SignalAborts
  <2>9. cur \in Nat /\ cur' \in Nat /\ cur' >= cur
    BY <2>2 DEF TypeOK, slot
  <2>3. \A t \in Requests : tk'[t].phase = tk[t].phase /\ tk'[t].cached = tk[t].cached
          /\ tk'[t].force = tk[t].force
    BY <2>1 DEF Kept, IsAborted, SameBut
  <2>4. st'[q] = st[q] \/ (st[q] # "new" /\ st'[q] = "rejected")
    <3>1. st' = st \/ st' = [st EXCEPT ![r] = "rejected"]
      BY <2>2 DEF Reject, Settle
    <3> QED BY <2>2, <3>1 DEF TypeOK
  <2>7. TasksGoOn
    BY <2>2, <2>3 DEF TasksGoOn
  <2>8. svc'[q] = svc[q] /\ mode'[q] = mode[q] /\ job'[q] = job[q]
    BY <2>2
  <2> QED
    BY <2>4, <2>7, <2>8, <2>9, RequestKept
<1>10. ASSUME NEW r \in Requests, WaiterSettles(r)
       PROVE  RequestOK(q)'
  BY <1>10 DEF TypeOK, RequestOK, slot, WaiterSettles, Delivers, Reject, Settle
<1>11. ASSUME NEW t \in Requests, ExecuteCancelled(t)
       PROVE  RequestOK(q)'
  BY <1>11 DEF RequestOK, slot, callers, ExecuteCancelled, Returned
<1>12. ASSUME NEW t \in Requests, ExecuteFromCache(t)
       PROVE  RequestOK(q)'
  BY <1>12 DEF RequestOK, callers, ExecuteFromCache, Returned
<1>13. ASSUME NEW t \in Requests, ExecuteFetch(t)
       PROVE  RequestOK(q)'
  BY <1>13 DEF TypeOK, RequestOK, callers, ExecuteFetch
<1>14. ASSUME NEW t \in Requests, NEW ok \in BOOLEAN, FetchReturns(t, ok)
       PROVE  RequestOK(q)'
  BY <1>14 DEF TypeOK, RequestOK, slot, callers, FetchReturns
<1>15. ASSUME NEW t \in Requests, ExecuteContinues(t)
       PROVE  RequestOK(q)'
  <2>a. svc[t] \in 1..cur
    BY <1>15 DEF TypeOK, TaskOK, RequestOK, Services, ExecuteContinues
  <2>1. /\ \A w \in Requests : w # t => Kept(w)
        /\ NewList(t, svc[t]) \in Nat
        /\ SameBut(t, "returned", tk[t].force, tk[t].cached, tk[t].aborted, tk[t].at, tk[t].ok,
                   IF Current(t) THEN Outcome(TRUE, tk[t].ok, ~tk[t].ok, NewList(t, svc[t]))
                       ELSE Cancelled, tk[t].race, tk[t].settled)
    BY <1>15, <2>a, ContinueEffect
  <2>2. /\ tk[t].phase = "fetched"
        /\ snapshot' = IF Current(t) THEN [snapshot EXCEPT ![svc[t]] = NewList(t, svc[t])]
              ELSE snapshot
        /\ UNCHANGED <<cur, scope, task, recovering, callers, local>>
    BY <1>15 DEF ExecuteContinues, ServiceOf
  <2>9. cur \in Nat /\ cur' \in Nat /\ cur' >= cur
    BY <2>2 DEF TypeOK, slot
  <2>3. \A w \in Requests : (tk[w].phase # "none" => tk'[w].phase # "none")
          /\ tk'[w].cached = tk[w].cached /\ tk'[w].force = tk[w].force
    BY <2>1 DEF Kept, SameBut
  <2>7. TasksGoOn
    BY <2>2, <2>3 DEF TasksGoOn, callers
  <2>8. svc'[q] = svc[q] /\ mode'[q] = mode[q] /\ job'[q] = job[q] /\ st'[q] = st[q]
    BY <2>2 DEF callers
  <2> QED
    BY <2>7, <2>8, <2>9, RequestKept
<1>16. ASSUME NEW t \in Requests, ExecuteSettles(t)
       PROVE  RequestOK(q)'
  BY <1>16 DEF TypeOK, RequestOK, slot, callers, ExecuteSettles
<1>17. ASSUME NEW t \in Requests, TaskSettles(t)
       PROVE  RequestOK(q)'
  BY <1>17 DEF RequestOK, callers, TaskSettles
<1>18. ASSUME NEW v \in Services, RecoveryJoined(v)
       PROVE  RequestOK(q)'
  BY <1>18 DEF RequestOK, callers, RecoveryJoined
<1>19. ASSUME NEW v \in Services, RecoveryIdles(v)
       PROVE  RequestOK(q)'
  BY <1>19 DEF RequestOK, callers, RecoveryIdles, OnIdle, Aborting
<1>20. CASE UNCHANGED vars
  BY <1>20 DEF RequestOK, slot, callers, vars
<1> QED
  BY <1>1, <1>2, <1>3, <1>4, <1>5, <1>6, <1>7, <1>8, <1>9, <1>10, <1>11, <1>12, <1>13, <1>14,
     <1>15, <1>16, <1>17, <1>18, <1>19, <1>20 DEF Step

\* Tasks.
LEMMA TaskStep ==
  ASSUME TypeOK, TaskRuns, \A t \in Requests : TaskOK(t), \A r \in Requests : RequestOK(r),
         \A v \in Services : ServiceOK(v), NEW u \in Requests, Step
  PROVE  TaskOK(u)'
<1> USE ServiceAssumption
<1>1. ASSUME NEW k \in Keys, SwitchKey(k)
       PROVE  TaskOK(u)'
  <2>1. \A w \in Requests : IF cur # 0 /\ w = task[cur] THEN IsAborted(w) ELSE Kept(w)
    BY <1>1, SwitchEffect
  <2>2. /\ cur < MaxServices /\ cur' = cur + 1 /\ scope' = [scope EXCEPT ![cur + 1] = k]
        /\ snapshot' = [v \in Services |-> IF v = cur THEN 0 ELSE snapshot[v]]
        /\ task' = [v \in Services |-> IF v = cur THEN None ELSE task[v]]
        /\ recovering' = [v \in Services |-> v # cur /\ recovering[v]]
        /\ UNCHANGED <<callers, local>>
    BY <1>1 DEF SwitchKey
  <2>3. cur \in Nat /\ cur' = cur + 1 /\ UNCHANGED <<svc, job>>
    BY <2>2 DEF TypeOK, callers
  <2>4. cur # 0 /\ u = task[cur] => tk[u].phase # "none"
    <3>1. cur # 0 => cur \in Services
      BY DEF TypeOK, Services
    <3> QED BY <3>1 DEF TaskRuns
  <2> QED
    BY <2>1, <2>3, <2>4, TaskSwitched
<1>2. ASSUME NEW k \in Keys, OtherProcessSaves(k)
       PROVE  TaskOK(u)'
  BY <1>2 DEF TypeOK, TaskOK, Valid, Waiters, NoTask, slot, callers, OtherProcessSaves
<1>3. ASSUME NEW r \in Requests, NEW m \in Modes \cup {None}, AsksLocally(r, m)
       PROVE  TaskOK(u)'
  BY <1>3 DEF TypeOK, TaskOK, RequestOK, Valid, Waiters, NoTask, AsksLocally, Asks, ReadLocally,
     Settle
<1>4. ASSUME NEW r \in Requests, NEW m \in Modes \cup {None}, AsksLater(r, m)
       PROVE  TaskOK(u)'
  BY <1>4 DEF TypeOK, TaskOK, RequestOK, Valid, Waiters, NoTask, AsksLater, Asks, MustDefer,
     LiveTask, Defer
<1>5. ASSUME NEW r \in Requests, NEW m \in Modes \cup {None}, AsksToJoin(r, m)
       PROVE  TaskOK(u)'
  <2>a. cur \in Services /\ LiveTask(cur) /\ JoinTask(r, cur, m)
    BY <1>5 DEF Services, AsksToJoin, Asks
  <2>1. /\ \A w \in Requests : w # task[cur] => Kept(w)
       
        /\ SameBut(task[cur], tk[task[cur]].phase, (tk[task[cur]].force \/ m = "force"),
                   tk[task[cur]].cached, tk[task[cur]].aborted, tk[task[cur]].at, tk[task[cur]].ok,
                       tk[task[cur]].result, tk[task[cur]].race, tk[task[cur]].settled)
    BY <1>5, <2>a, JoinEffect
  <2>2. /\ Asks(r, m) /\ ~MustDefer(cur, m) /\ LiveTask(cur)
        /\ job' = [job EXCEPT ![r] = task[cur]] /\ st' = [st EXCEPT ![r] = "waiting"]
        /\ UNCHANGED <<snapshot, task, outcome>>
    BY <1>5 DEF AsksToJoin, JoinTask
  <2>3. /\ cur' = cur /\ task' = task /\ cur \in Services /\ task[cur] \in Requests
        /\ svc' = [svc EXCEPT ![r] = cur] /\ job' = [job EXCEPT ![r] = task[cur]]
        /\ st[r] \in {"new", "deferred"} /\ ~tk[task[cur]].aborted
    BY <2>2, <2>a DEF Asks, LiveTask, TypeOK
  <2>4. tk[task[cur]].phase # "none" /\ svc[task[cur]] = cur
    BY <2>3 DEF TaskRuns
  <2>5. tk[r].phase = "none" /\ job[r] # r
    BY <2>3 DEF TaskOK, RequestOK
  <2>6. CASE u = task[cur]
    <3>1. u # r /\ svc'[u] = svc[u] /\ job'[u] = job[u]
      BY <2>3, <2>4, <2>5, <2>6 DEF TypeOK
    <3> QED BY <2>1, <2>3, <2>4, <2>6, <3>1, TaskJoined
  <2>7. CASE u # task[cur] /\ u # r
    <3>1. Kept(u) /\ svc'[u] = svc[u] /\ job'[u] = job[u]
      BY <2>1, <2>3, <2>7 DEF TypeOK
    <3>2. Waiters(u)' \subseteq Waiters(u)
      BY <2>2, <2>3, <2>7 DEF Waiters, TypeOK
    <3>3. tk[u].phase # "none" /\ ~tk[u].aborted /\ ~tk[u].settled /\ Valid(svc[u])
              => task'[svc[u]] = u
      BY <2>3 DEF TaskOK
    <3> QED BY <2>3, <3>1, <3>2, <3>3, TaskKept
  <2>8. CASE u # task[cur] /\ u = r
    <3>1. Kept(u) /\ job'[u] # u
      BY <2>1, <2>3, <2>8 DEF TypeOK
    <3>2. TaskOK(u) /\ tk[u].phase = "none" /\ tk[u] = NoTask
      BY <2>5, <2>8 DEF TaskOK
    <3>3. tk'[u] = NoTask
      BY <3>1, <3>2 DEF Kept
    <3> QED BY <3>1, <3>3 DEF TaskOK, NoTask
  <2> QED
    BY <2>6, <2>7, <2>8
<1>6. ASSUME NEW r \in Requests, NEW m \in Modes \cup {None}, AsksAnew(r, m)
       PROVE  TaskOK(u)'
  BY <1>6 DEF TypeOK, TaskOK, Valid, Waiters, NoTask, Services, AsksAnew, Asks, LiveTask, CreateTask
<1>7. ASSUME NEW r \in Requests, NEW m \in Modes, RequestAborted(r, m)
       PROVE  TaskOK(u)'
  BY <1>7 DEF TypeOK, TaskOK, RequestOK, Valid, Waiters, NoTask, slot, RequestAborted, Reject,
     Settle
<1>8. ASSUME NEW r \in Requests, AskRejected(r)
       PROVE  TaskOK(u)'
  BY <1>8 DEF TypeOK, TaskOK, Valid, Waiters, NoTask, AskRejected, Reject, Settle
<1>9. ASSUME NEW r \in Requests, SignalAborts(r)
       PROVE  TaskOK(u)'
  <2>a. job[r] \in Requests
    BY <1>9 DEF TypeOK, TaskOK, RequestOK, Services, SignalAborts
  <2>1. \A w \in Requests :
          IF st[r] = "waiting" /\ w = job[r] /\ Abandons(w, svc[r], Waiters(w) \ {r})
            THEN IsAborted(w) ELSE Kept(w)
    BY <1>9, <2>a, SignalEffect
  <2>2. /\ st[r] \in {"waiting", "deferred"} /\ r \notin aborted /\ aborted' = aborted \cup {r}
        /\ IF st[r] = "waiting" THEN Reject(r) ELSE UNCHANGED <<st, outcome>>
        /\ UNCHANGED <<slot, svc, mode, job, local>>
    BY <1>9 DEF SignalAborts
  <2>3. UNCHANGED <<cur, svc, job, task>>
    BY <2>2 DEF slot
  <2>4. Waiters(u)' \subseteq Waiters(u)
    BY <2>2 DEF Waiters, Reject, Settle, TypeOK
  <2>5. CASE st[r] = "waiting" /\ u = job[r] /\ Abandons(u, svc[r], Waiters(u) \ {r})
    <3>1. tk[u].phase # "none" /\ ~tk[u].cached
      BY <2>5 DEF RequestOK, Abandons
    <3>2. r \notin Waiters(u)'
      BY <2>2, <2>5 DEF Waiters, Reject, Settle, TypeOK
    <3>3. Waiters(u)' = {}
      BY <2>4, <2>5, <3>2 DEF Abandons, NotKept
    <3> QED BY <2>1, <2>3, <2>5, <3>1, <3>3, TaskAborted
  <2>6. CASE ~(st[r] = "waiting" /\ u = job[r] /\ Abandons(u, svc[r], Waiters(u) \ {r}))
    <3>1. Kept(u)
      BY <2>1, <2>6
    <3>2. tk[u].phase # "none" /\ ~tk[u].aborted /\ ~tk[u].settled /\ Valid(svc[u])
              => task'[svc[u]] = u
      BY <2>3 DEF TaskOK
    <3> QED BY <2>3, <2>4, <3>1, <3>2, TaskKept
  <2> QED
    BY <2>5, <2>6
<1>10. ASSUME NEW r \in Requests, WaiterSettles(r)
       PROVE  TaskOK(u)'
  BY <1>10 DEF TypeOK, TaskOK, Valid, Waiters, NoTask, slot, WaiterSettles, Delivers, Reject, Settle
<1>11. ASSUME NEW t \in Requests, ExecuteCancelled(t)
       PROVE  TaskOK(u)'
  <2>a. tk' = [tk EXCEPT ![t] = Returned(t, Cancelled)]
    BY <1>11 DEF Services, ExecuteCancelled
  <2>1. /\ \A w \in Requests : w # t => Kept(w)
       
        /\ SameBut(t, "returned", tk[t].force, tk[t].cached, tk[t].aborted, tk[t].at, tk[t].ok,
                   Cancelled, tk[t].race, tk[t].settled)
    BY <1>11, <2>a, ReturnEffect
  <2>2. /\ tk[t].phase = "queued" /\ (tk[t].aborted \/ ~Valid(svc[t]))
        /\ UNCHANGED <<slot, callers, local>>
    BY <1>11 DEF ExecuteCancelled, ServiceOf
  <2>3. UNCHANGED <<cur, task, st, svc, job>>
    BY <2>2 DEF slot, callers
  <2>4. CASE u = t
    <3>1. tk[u].cached = FALSE
      BY <2>2, <2>4 DEF TaskOK, TypeOK, Tasks
    <3> QED BY <2>1, <2>2, <2>3, <2>4, <3>1, TaskReturns
  <2>5. CASE u # t
    <3>1. Kept(u) /\ Waiters(u)' = Waiters(u)
      BY <2>1, <2>3, <2>5 DEF Waiters
    <3>2. tk[u].phase # "none" /\ ~tk[u].aborted /\ ~tk[u].settled /\ Valid(svc[u])
              => task'[svc[u]] = u
      BY <2>3 DEF TaskOK
    <3> QED BY <2>3, <3>1, <3>2, TaskKept
  <2> QED
    BY <2>4, <2>5
<1>12. ASSUME NEW t \in Requests, ExecuteFromCache(t)
       PROVE  TaskOK(u)'
  <2>a. svc[t] \in Services /\ svc[t] <= cur
    BY <1>12 DEF TypeOK, TaskOK, RequestOK, Services, ExecuteFromCache
  <2>b. ReadList(svc[t]) \in Nat
    BY <2>a, ReadListNat
  <2>1. /\ \A w \in Requests : w # t => Kept(w)
       
        /\ SameBut(t, "returned", tk[t].force, TRUE, tk[t].aborted, tk[t].at, tk[t].ok,
                   Outcome(FALSE, FALSE, FALSE, ReadList(svc[t])), tk[t].race, tk[t].settled)
    BY <1>12, <2>a, <2>b, CacheEffect
  <2>2. /\ tk[t].phase = "queued" /\ ~tk[t].aborted /\ Valid(svc[t]) /\ ~tk[t].force
        /\ ReadList(svc[t]) # 0
        /\ snapshot' = [snapshot EXCEPT ![svc[t]] = ReadList(svc[t])]
        /\ UNCHANGED <<cur, scope, task, recovering, callers, local>>
    BY <1>12 DEF ExecuteFromCache, ServiceOf
  <2>3. UNCHANGED <<cur, task, st, svc, job>>
    BY <2>2 DEF slot, callers
  <2>4. CASE u = t
    <3> DEFINE z == Outcome(FALSE, FALSE, FALSE, ReadList(svc[t]))
    <3>1. z # None /\ z # Cancelled
      <4>1. z \in Outcomes
        BY <2>b DEF Outcome, Outcomes
      <4> HIDE DEF z
      <4> QED BY <4>1
    <3> HIDE DEF z
    <3>2. SameBut(t, "returned", tk[t].force, TRUE, tk[t].aborted, tk[t].at, tk[t].ok, z,
              tk[t].race, tk[t].settled)
      BY <2>1 DEF z
    <3> QED BY <2>2, <2>3, <2>4, <3>1, <3>2, TaskReturns
  <2>5. CASE u # t
    <3>1. Kept(u) /\ Waiters(u)' = Waiters(u)
      BY <2>1, <2>3, <2>5 DEF Waiters
    <3>2. tk[u].phase # "none" /\ ~tk[u].aborted /\ ~tk[u].settled /\ Valid(svc[u])
              => task'[svc[u]] = u
      BY <2>3 DEF TaskOK
    <3> QED BY <2>3, <3>1, <3>2, TaskKept
  <2> QED
    BY <2>4, <2>5
<1>13. ASSUME NEW t \in Requests, ExecuteFetch(t)
       PROVE  TaskOK(u)'
  <2>a. stamp + 1 \in Nat
    BY <1>13 DEF TypeOK, TaskOK, RequestOK, Services
  <2>1. /\ \A w \in Requests : w # t => Kept(w)
       
        /\ SameBut(t, "fetching", tk[t].force, tk[t].cached, tk[t].aborted, stamp + 1, tk[t].ok,
                   tk[t].result, tk[t].race, tk[t].settled)
    BY <1>13, <2>a, FetchEffect
  <2>2. /\ tk[t].phase = "queued" /\ ~tk[t].aborted /\ Valid(svc[t])
        /\ snapshot' = [snapshot EXCEPT ![svc[t]] = ReadList(svc[t])] /\ stamp' = stamp + 1
        /\ UNCHANGED <<cur, scope, task, recovering, callers, cache, saves>>
    BY <1>13 DEF ExecuteFetch, ServiceOf
  <2>3. UNCHANGED <<cur, task, st, svc, job>>
    BY <2>2 DEF slot, callers
  <2>4. CASE u = t
    BY <2>1, <2>2, <2>3, <2>4, TaskFetches
  <2>5. CASE u # t
    <3>1. Kept(u) /\ Waiters(u)' = Waiters(u)
      BY <2>1, <2>3, <2>5 DEF Waiters
    <3>2. tk[u].phase # "none" /\ ~tk[u].aborted /\ ~tk[u].settled /\ Valid(svc[u])
              => task'[svc[u]] = u
      BY <2>3 DEF TaskOK
    <3> QED BY <2>3, <3>1, <3>2, TaskKept
  <2> QED
    BY <2>4, <2>5
<1>14. ASSUME NEW t \in Requests, NEW ok \in BOOLEAN, FetchReturns(t, ok)
       PROVE  TaskOK(u)'
  <2>1. /\ \A w \in Requests : w # t => Kept(w)
       
        /\ SameBut(t, "fetched", tk[t].force, tk[t].cached, tk[t].aborted, tk[t].at, ok,
                   tk[t].result, tk[t].race, tk[t].settled)
    BY <1>14, AnswerEffect
  <2>2. /\ tk[t].phase = "fetching" /\ UNCHANGED <<slot, callers, stamp, saves>>
    BY <1>14 DEF FetchReturns
  <2>3. UNCHANGED <<cur, task, st, svc, job>>
    BY <2>2 DEF slot, callers
  <2>4. CASE u = t
    BY <2>1, <2>2, <2>3, <2>4, TaskFetches
  <2>5. CASE u # t
    <3>1. Kept(u) /\ Waiters(u)' = Waiters(u)
      BY <2>1, <2>3, <2>5 DEF Waiters
    <3>2. tk[u].phase # "none" /\ ~tk[u].aborted /\ ~tk[u].settled /\ Valid(svc[u])
              => task'[svc[u]] = u
      BY <2>3 DEF TaskOK
    <3> QED BY <2>3, <3>1, <3>2, TaskKept
  <2> QED
    BY <2>4, <2>5
<1>15. ASSUME NEW t \in Requests, ExecuteContinues(t)
       PROVE  TaskOK(u)'
  <2>a. svc[t] \in 1..cur
    BY <1>15 DEF TypeOK, TaskOK, RequestOK, Services, ExecuteContinues
  <2>1. /\ \A w \in Requests : w # t => Kept(w)
        /\ NewList(t, svc[t]) \in Nat
        /\ SameBut(t, "returned", tk[t].force, tk[t].cached, tk[t].aborted, tk[t].at, tk[t].ok,
                   IF Current(t) THEN Outcome(TRUE, tk[t].ok, ~tk[t].ok, NewList(t, svc[t]))
                       ELSE Cancelled, tk[t].race, tk[t].settled)
    BY <1>15, <2>a, ContinueEffect
  <2>2. /\ tk[t].phase = "fetched"
        /\ snapshot' = IF Current(t) THEN [snapshot EXCEPT ![svc[t]] = NewList(t, svc[t])]
              ELSE snapshot
        /\ UNCHANGED <<cur, scope, task, recovering, callers, local>>
    BY <1>15 DEF ExecuteContinues, ServiceOf
  <2>3. UNCHANGED <<cur, task, st, svc, job>>
    BY <2>2 DEF slot, callers
  <2>4. CASE u = t
    <3> DEFINE z == IF Current(t) THEN Outcome(TRUE, tk[t].ok, ~tk[t].ok, NewList(t, svc[t]))
            ELSE Cancelled
    <3>1. tk[u].cached = FALSE /\ tk[u].ok \in BOOLEAN
      BY <2>2, <2>4 DEF TaskOK, TypeOK, Tasks
    <3>2. Current(t) => z \in Outcomes /\ z.attempted = TRUE
      BY <2>1, <2>4, <3>1 DEF Outcome, Outcomes
    <3>3. ~Current(t) => z = Cancelled
      OBVIOUS
    <3>4. ~Current(t) => tk[t].aborted \/ ~Valid(svc[t])
      <4>1. tk[t].aborted \/ ~tk[t].settled
        BY <2>2 DEF TaskOK
      <4> QED BY <2>2, <4>1 DEF TaskOK, Current, ServiceOf
    <3> HIDE DEF z
    <3>5. SameBut(t, "returned", tk[t].force, tk[t].cached, tk[t].aborted, tk[t].at, tk[t].ok, z,
              tk[t].race, tk[t].settled)
      BY <2>1 DEF z
    <3>6. z # None /\ (z = Cancelled => tk[u].aborted \/ ~Valid(svc[u]))
            /\ (z # Cancelled => z.attempted)
      BY <2>4, <3>2, <3>3, <3>4
    <3> QED BY <2>2, <2>3, <2>4, <3>1, <3>5, <3>6, TaskReturns
  <2>5. CASE u # t
    <3>1. Kept(u) /\ Waiters(u)' = Waiters(u)
      BY <2>1, <2>3, <2>5 DEF Waiters
    <3>2. tk[u].phase # "none" /\ ~tk[u].aborted /\ ~tk[u].settled /\ Valid(svc[u])
              => task'[svc[u]] = u
      BY <2>3 DEF TaskOK
    <3> QED BY <2>3, <3>1, <3>2, TaskKept
  <2> QED
    BY <2>4, <2>5
<1>16. ASSUME NEW t \in Requests, ExecuteSettles(t)
       PROVE  TaskOK(u)'
  <2>1. /\ \A w \in Requests : w # t => Kept(w)
       
        /\ SameBut(t, "done", tk[t].force, tk[t].cached, tk[t].aborted, tk[t].at, tk[t].ok,
                   tk[t].result, Won(t, tk[t].result), tk[t].settled)
    BY <1>16, SettleEffect
  <2>2. /\ tk[t].phase = "returned" /\ UNCHANGED <<slot, callers, local>>
    BY <1>16 DEF ExecuteSettles
  <2>3. UNCHANGED <<cur, task, st, svc, job>>
    BY <2>2 DEF slot, callers
  <2>4. CASE u = t
    BY <2>1, <2>2, <2>3, <2>4, TaskIsDone
  <2>5. CASE u # t
    <3>1. Kept(u) /\ Waiters(u)' = Waiters(u)
      BY <2>1, <2>3, <2>5 DEF Waiters
    <3>2. tk[u].phase # "none" /\ ~tk[u].aborted /\ ~tk[u].settled /\ Valid(svc[u])
              => task'[svc[u]] = u
      BY <2>3 DEF TaskOK
    <3> QED BY <2>3, <3>1, <3>2, TaskKept
  <2> QED
    BY <2>4, <2>5
<1>17. ASSUME NEW t \in Requests, TaskSettles(t)
       PROVE  TaskOK(u)'
  <2>1. /\ \A w \in Requests : w # t => Kept(w)
       
        /\ SameBut(t, tk[t].phase, tk[t].force, tk[t].cached, tk[t].aborted, tk[t].at, tk[t].ok,
                   tk[t].result, tk[t].race, TRUE)
    BY <1>17, EndEffect
  <2>2. /\ tk[t].race # None /\ ~tk[t].settled
        /\ task' = [v \in Services |-> IF task[v] = t THEN None ELSE task[v]]
        /\ UNCHANGED <<cur, scope, snapshot, recovering, callers, local>>
    BY <1>17 DEF TaskSettles, Released
  <2>3. UNCHANGED <<cur, st, svc, job>>
    BY <2>2 DEF callers
  <2>4. CASE u = t
    BY <2>1, <2>2, <2>3, <2>4, TaskEnds
  <2>5. CASE u # t
    <3>1. Kept(u) /\ Waiters(u)' = Waiters(u)
      BY <2>1, <2>3, <2>5 DEF Waiters
    <3>2. tk[u].phase # "none" /\ ~tk[u].aborted /\ ~tk[u].settled /\ Valid(svc[u])
              => task'[svc[u]] = u
      <4>1. tk[u].phase # "none" /\ ~tk[u].aborted /\ ~tk[u].settled
                => task[svc[u]] = u /\ svc[u] \in 1..cur
        BY DEF TaskOK
      <4>2. \A n \in 1..cur : n \in Services
        BY DEF TypeOK, Services
      <4> QED BY <2>2, <2>5, <4>1, <4>2
    <3> QED BY <2>3, <3>1, <3>2, TaskKept
  <2> QED
    BY <2>4, <2>5
<1>18. ASSUME NEW v \in Services, RecoveryJoined(v)
       PROVE  TaskOK(u)'
  BY <1>18 DEF TypeOK, TaskOK, Valid, Waiters, NoTask, callers, RecoveryJoined
<1>19. ASSUME NEW v \in Services, RecoveryIdles(v)
       PROVE  TaskOK(u)'
  <2>1. \A w \in Requests : IF w = task[v] /\ Waiters(w) = {} /\ ~tk[w].cached THEN IsAborted(w)
            ELSE Kept(w)
    BY <1>19, IdlesEffect
  <2>2. /\ recovering[v] /\ recovering' = [recovering EXCEPT ![v] = FALSE]
        /\ UNCHANGED <<cur, scope, snapshot, task, callers, local>>
    BY <1>19 DEF RecoveryIdles
  <2>3. UNCHANGED <<cur, task, st, svc, job>>
    BY <2>2 DEF callers
  <2>4. Waiters(u)' = Waiters(u)
    BY <2>3 DEF Waiters
  <2>5. CASE u = task[v] /\ Waiters(u) = {} /\ ~tk[u].cached
    <3>1. tk[u].phase # "none"
      BY <2>5 DEF TaskRuns
    <3> QED BY <2>1, <2>3, <2>4, <2>5, <3>1, TaskAborted
  <2>6. CASE ~(u = task[v] /\ Waiters(u) = {} /\ ~tk[u].cached)
    <3>1. Kept(u)
      BY <2>1, <2>6
    <3>2. tk[u].phase # "none" /\ ~tk[u].aborted /\ ~tk[u].settled /\ Valid(svc[u])
              => task'[svc[u]] = u
      BY <2>3 DEF TaskOK
    <3> QED BY <2>3, <2>4, <3>1, <3>2, TaskKept
  <2> QED
    BY <2>5, <2>6
<1>20. CASE UNCHANGED vars
  BY <1>20 DEF TypeOK, TaskOK, Valid, Waiters, NoTask, slot, callers, vars
<1> QED
  BY <1>1, <1>2, <1>3, <1>4, <1>5, <1>6, <1>7, <1>8, <1>9, <1>10, <1>11, <1>12, <1>13, <1>14,
     <1>15, <1>16, <1>17, <1>18, <1>19, <1>20 DEF Step

\* Tasks keep their type.
LEMMA TasksStep ==
  ASSUME TypeOK, TaskRuns, \A t \in Requests : TaskOK(t), \A r \in Requests : RequestOK(r),
         \A v \in Services : ServiceOK(v), Step
  PROVE  tk' \in [Requests -> Tasks]
<1> USE ServiceAssumption
<1>1. ASSUME NEW k \in Keys, SwitchKey(k)
       PROVE  tk' \in [Requests -> Tasks]
  <2>1. tk' \in [Requests -> Tasks]
    BY <1>1, SwitchEffect
  <2> QED BY <2>1
<1>2. ASSUME NEW k \in Keys, OtherProcessSaves(k)
       PROVE  tk' \in [Requests -> Tasks]
  BY <1>2 DEF TypeOK, OtherProcessSaves
<1>3. ASSUME NEW r \in Requests, NEW m \in Modes \cup {None}, AsksLocally(r, m)
       PROVE  tk' \in [Requests -> Tasks]
  BY <1>3 DEF TypeOK, AsksLocally, Asks, ReadLocally
<1>4. ASSUME NEW r \in Requests, NEW m \in Modes \cup {None}, AsksLater(r, m)
       PROVE  tk' \in [Requests -> Tasks]
  BY <1>4 DEF TypeOK, AsksLater, Asks, Defer
<1>5. ASSUME NEW r \in Requests, NEW m \in Modes \cup {None}, AsksToJoin(r, m)
       PROVE  tk' \in [Requests -> Tasks]
  <2>a. cur \in Services /\ LiveTask(cur) /\ JoinTask(r, cur, m)
    BY <1>5 DEF Services, AsksToJoin, Asks
  <2>1. tk' \in [Requests -> Tasks]
    BY <1>5, <2>a, JoinEffect
  <2> QED BY <2>1
<1>6. ASSUME NEW r \in Requests, NEW m \in Modes \cup {None}, AsksAnew(r, m)
       PROVE  tk' \in [Requests -> Tasks]
  <2>a. cur \in Services /\ CreateTask(r, cur, m)
    BY <1>6 DEF Services, AsksAnew, Asks
  <2>1. tk' \in [Requests -> Tasks]
    BY <1>6, <2>a, CreateEffect
  <2> QED BY <2>1
<1>7. ASSUME NEW r \in Requests, NEW m \in Modes, RequestAborted(r, m)
       PROVE  tk' \in [Requests -> Tasks]
  BY <1>7 DEF TypeOK, RequestAborted
<1>8. ASSUME NEW r \in Requests, AskRejected(r)
       PROVE  tk' \in [Requests -> Tasks]
  BY <1>8 DEF TypeOK, AskRejected
<1>9. ASSUME NEW r \in Requests, SignalAborts(r)
       PROVE  tk' \in [Requests -> Tasks]
  <2>a. job[r] \in Requests
    BY <1>9 DEF TypeOK, TaskOK, RequestOK, Services, SignalAborts
  <2>1. tk' \in [Requests -> Tasks]
    BY <1>9, <2>a, SignalEffect
  <2> QED BY <2>1
<1>10. ASSUME NEW r \in Requests, WaiterSettles(r)
       PROVE  tk' \in [Requests -> Tasks]
  BY <1>10 DEF TypeOK, WaiterSettles, Delivers
<1>11. ASSUME NEW t \in Requests, ExecuteCancelled(t)
       PROVE  tk' \in [Requests -> Tasks]
  <2>a. tk' = [tk EXCEPT ![t] = Returned(t, Cancelled)]
    BY <1>11 DEF Services, ExecuteCancelled
  <2>1. tk' \in [Requests -> Tasks]
    BY <1>11, <2>a, ReturnEffect
  <2> QED BY <2>1
<1>12. ASSUME NEW t \in Requests, ExecuteFromCache(t)
       PROVE  tk' \in [Requests -> Tasks]
  <2>a. svc[t] \in Services /\ svc[t] <= cur
    BY <1>12 DEF TypeOK, TaskOK, RequestOK, Services, ExecuteFromCache
  <2>b. ReadList(svc[t]) \in Nat
    BY <2>a, ReadListNat
  <2>1. tk' \in [Requests -> Tasks]
    BY <1>12, <2>a, <2>b, CacheEffect
  <2> QED BY <2>1
<1>13. ASSUME NEW t \in Requests, ExecuteFetch(t)
       PROVE  tk' \in [Requests -> Tasks]
  <2>a. stamp + 1 \in Nat
    BY <1>13 DEF TypeOK, TaskOK, RequestOK, Services
  <2>1. tk' \in [Requests -> Tasks]
    BY <1>13, <2>a, FetchEffect
  <2> QED BY <2>1
<1>14. ASSUME NEW t \in Requests, NEW ok \in BOOLEAN, FetchReturns(t, ok)
       PROVE  tk' \in [Requests -> Tasks]
  <2>1. tk' \in [Requests -> Tasks]
    BY <1>14, AnswerEffect
  <2> QED BY <2>1
<1>15. ASSUME NEW t \in Requests, ExecuteContinues(t)
       PROVE  tk' \in [Requests -> Tasks]
  <2>a. svc[t] \in 1..cur
    BY <1>15 DEF TypeOK, TaskOK, RequestOK, Services, ExecuteContinues
  <2>1. tk' \in [Requests -> Tasks]
    BY <1>15, <2>a, ContinueEffect
  <2> QED BY <2>1
<1>16. ASSUME NEW t \in Requests, ExecuteSettles(t)
       PROVE  tk' \in [Requests -> Tasks]
  <2>1. tk' \in [Requests -> Tasks]
    BY <1>16, SettleEffect
  <2> QED BY <2>1
<1>17. ASSUME NEW t \in Requests, TaskSettles(t)
       PROVE  tk' \in [Requests -> Tasks]
  <2>1. tk' \in [Requests -> Tasks]
    BY <1>17, EndEffect
  <2> QED BY <2>1
<1>18. ASSUME NEW v \in Services, RecoveryJoined(v)
       PROVE  tk' \in [Requests -> Tasks]
  BY <1>18 DEF TypeOK, RecoveryJoined
<1>19. ASSUME NEW v \in Services, RecoveryIdles(v)
       PROVE  tk' \in [Requests -> Tasks]
  <2>1. tk' \in [Requests -> Tasks]
    BY <1>19, IdlesEffect
  <2> QED BY <2>1
<1>20. CASE UNCHANGED vars
  BY <1>20 DEF TypeOK, vars
<1> QED
  BY <1>1, <1>2, <1>3, <1>4, <1>5, <1>6, <1>7, <1>8, <1>9, <1>10, <1>11, <1>12, <1>13, <1>14,
     <1>15, <1>16, <1>17, <1>18, <1>19, <1>20 DEF Step

\* Variables keep their types.
LEMMA VarsStep ==
  ASSUME TypeOK, TaskRuns, \A t \in Requests : TaskOK(t), \A r \in Requests : RequestOK(r),
         \A v \in Services : ServiceOK(v), VarsOK, Step
  PROVE  VarsOK'
<1> USE ServiceAssumption
<1>1. ASSUME NEW k \in Keys, SwitchKey(k)
       PROVE  VarsOK'
  <2>2. /\ cur < MaxServices /\ cur' = cur + 1 /\ scope' = [scope EXCEPT ![cur + 1] = k]
        /\ snapshot' = [v \in Services |-> IF v = cur THEN 0 ELSE snapshot[v]]
        /\ task' = [v \in Services |-> IF v = cur THEN None ELSE task[v]]
        /\ recovering' = [v \in Services |-> v # cur /\ recovering[v]]
        /\ UNCHANGED <<callers, local>>
    BY <1>1 DEF SwitchKey
  <2>3. VarsOK /\ cur + 1 \in Services
    BY <2>2 DEF TypeOK, VarsOK, Services
  <2>4. recovering' \in [Services -> BOOLEAN]
    BY <2>2
  <2>5. cur' \in 0..MaxServices
    BY <2>2, <2>3 DEF Services
  <2>6. scope' \in [Services -> Keys \cup {None}] /\ task' \in [Services -> Requests \cup {None}]
    BY <2>2, <2>3 DEF VarsOK
  <2>7. snapshot' \in [Services -> Nat]
    BY <2>2, <2>3 DEF VarsOK
  <2> QED
    BY <2>2, <2>3, <2>4, <2>5, <2>6, <2>7 DEF VarsOK, callers, local
<1>2. ASSUME NEW k \in Keys, OtherProcessSaves(k)
       PROVE  VarsOK'
  BY <1>2 DEF VarsOK, slot, callers, OtherProcessSaves
<1>3. ASSUME NEW r \in Requests, NEW m \in Modes \cup {None}, AsksLocally(r, m)
       PROVE  VarsOK'
  BY <1>3 DEF VarsOK, ServiceOK, Outcomes, Outcome, local, AsksLocally, Asks, ReadLocally, Settle,
     ReadList, Larger
<1>4. ASSUME NEW r \in Requests, NEW m \in Modes \cup {None}, AsksLater(r, m)
       PROVE  VarsOK'
  BY <1>4 DEF VarsOK, local, AsksLater, Asks, Defer
<1>5. ASSUME NEW r \in Requests, NEW m \in Modes \cup {None}, AsksToJoin(r, m)
       PROVE  VarsOK'
  BY <1>5 DEF VarsOK, local, AsksToJoin, Asks, JoinTask, Joined
<1>6. ASSUME NEW r \in Requests, NEW m \in Modes \cup {None}, AsksAnew(r, m)
       PROVE  VarsOK'
  BY <1>6 DEF VarsOK, local, AsksAnew, Asks, CreateTask
<1>7. ASSUME NEW r \in Requests, NEW m \in Modes, RequestAborted(r, m)
       PROVE  VarsOK'
  BY <1>7 DEF VarsOK, slot, local, RequestAborted, Reject, Settle
<1>8. ASSUME NEW r \in Requests, AskRejected(r)
       PROVE  VarsOK'
  BY <1>8 DEF VarsOK, local, AskRejected, Reject, Settle
<1>9. ASSUME NEW r \in Requests, SignalAborts(r)
       PROVE  VarsOK'
  <2>2. /\ st[r] \in {"waiting", "deferred"} /\ r \notin aborted /\ aborted' = aborted \cup {r}
        /\ IF st[r] = "waiting" THEN Reject(r) ELSE UNCHANGED <<st, outcome>>
        /\ UNCHANGED <<slot, svc, mode, job, local>>
    BY <1>9 DEF SignalAborts
  <2>3. VarsOK
    OBVIOUS
  <2> QED
    BY <2>2, <2>3 DEF VarsOK, slot, local, Reject, Settle
<1>10. ASSUME NEW r \in Requests, WaiterSettles(r)
       PROVE  VarsOK'
  <2>1. job[r] \in Requests /\ tk[job[r]].race # None
    <3>1. st[r] = "waiting" /\ tk[job[r]].settled
      BY <1>10 DEF WaiterSettles
    <3>2. job[r] \in Requests
      BY <3>1 DEF RequestOK
    <3> QED BY <3>1, <3>2 DEF TaskOK
  <2>2. tk[job[r]].race # Cancelled => tk[job[r]].race \in Outcomes
    BY <2>1 DEF TypeOK, Tasks
  <2>3. VarsOK
    BY DEF TypeOK, VarsOK
  <2>4. /\ st' = [st EXCEPT ![r] = "rejected"] /\ outcome' = [outcome EXCEPT ![r] = None]
        \/ /\ tk[job[r]].race # Cancelled
           /\ st' = [st EXCEPT ![r] = "resolved"]
           /\ outcome' = [outcome EXCEPT ![r] = tk[job[r]].race]
    BY <1>10 DEF WaiterSettles, Reject, Settle
  <2>5. UNCHANGED <<slot, svc, mode, job, aborted, local>>
    BY <1>10 DEF WaiterSettles
  <2> QED
    BY <2>2, <2>3, <2>4, <2>5 DEF VarsOK, slot, local
<1>11. ASSUME NEW t \in Requests, ExecuteCancelled(t)
       PROVE  VarsOK'
  BY <1>11 DEF VarsOK, slot, callers, local, ExecuteCancelled, Returned
<1>12. ASSUME NEW t \in Requests, ExecuteFromCache(t)
       PROVE  VarsOK'
  BY <1>12 DEF VarsOK, TaskOK, ServiceOK, callers, local, Services, ExecuteFromCache, Returned,
     ServiceOf, ReadList, Larger
<1>13. ASSUME NEW t \in Requests, ExecuteFetch(t)
       PROVE  VarsOK'
  BY <1>13 DEF VarsOK, TaskOK, ServiceOK, callers, Services, ExecuteFetch, ServiceOf, ReadList,
     Larger
<1>14. ASSUME NEW t \in Requests, NEW ok \in BOOLEAN, FetchReturns(t, ok)
       PROVE  VarsOK'
  <2>1. svc[t] \in Services /\ svc[t] <= cur
    BY <1>14 DEF FetchReturns, TaskOK, TypeOK, Services
  <2>2. tk[t].at \in Nat /\ cache[scope[svc[t]]] \in Nat
    BY <2>1 DEF TypeOK, Tasks, ServiceOK
  <2>3. UNCHANGED <<slot, callers, stamp, saves>>
        /\ \/ UNCHANGED cache
           \/ \E list \in {tk[t].at, Larger(tk[t].at, cache[scope[svc[t]]])} :
                cache' = [cache EXCEPT ![scope[svc[t]]] = list]
    BY <1>14 DEF FetchReturns, ServiceOf
  <2>4. cache' \in [Keys -> Nat]
    BY <2>2, <2>3 DEF Larger, VarsOK
  <2> QED
    BY <2>3, <2>4 DEF VarsOK, slot, callers
<1>15. ASSUME NEW t \in Requests, ExecuteContinues(t)
       PROVE  VarsOK'
  <2>a. svc[t] \in 1..cur
    BY <1>15 DEF TypeOK, TaskOK, RequestOK, Services, ExecuteContinues
  <2>1. /\ \A w \in Requests : w # t => Kept(w)
        /\ NewList(t, svc[t]) \in Nat
        /\ SameBut(t, "returned", tk[t].force, tk[t].cached, tk[t].aborted, tk[t].at, tk[t].ok,
                   IF Current(t) THEN Outcome(TRUE, tk[t].ok, ~tk[t].ok, NewList(t, svc[t]))
                       ELSE Cancelled, tk[t].race, tk[t].settled)
    BY <1>15, <2>a, ContinueEffect
  <2>2. /\ tk[t].phase = "fetched"
        /\ snapshot' = IF Current(t) THEN [snapshot EXCEPT ![svc[t]] = NewList(t, svc[t])]
              ELSE snapshot
        /\ UNCHANGED <<cur, scope, task, recovering, callers, local>>
    BY <1>15 DEF ExecuteContinues, ServiceOf
  <2>3. snapshot' \in [Services -> Nat]
    BY <2>1, <2>2 DEF VarsOK
  <2> QED
    BY <2>2, <2>3 DEF VarsOK, callers, local
<1>16. ASSUME NEW t \in Requests, ExecuteSettles(t)
       PROVE  VarsOK'
  BY <1>16 DEF VarsOK, slot, callers, local, ExecuteSettles
<1>17. ASSUME NEW t \in Requests, TaskSettles(t)
       PROVE  VarsOK'
  BY <1>17 DEF VarsOK, callers, local, TaskSettles, Released
<1>18. ASSUME NEW v \in Services, RecoveryJoined(v)
       PROVE  VarsOK'
  BY <1>18 DEF VarsOK, callers, local, RecoveryJoined
<1>19. ASSUME NEW v \in Services, RecoveryIdles(v)
       PROVE  VarsOK'
  BY <1>19 DEF VarsOK, callers, local, RecoveryIdles, OnIdle
<1>20. CASE UNCHANGED vars
  BY <1>20 DEF VarsOK, slot, callers, local, vars
<1> QED
  BY <1>1, <1>2, <1>3, <1>4, <1>5, <1>6, <1>7, <1>8, <1>9, <1>10, <1>11, <1>12, <1>13, <1>14,
     <1>15, <1>16, <1>17, <1>18, <1>19, <1>20 DEF Step

-----------------------------------------------------------------------------
(* The theorems *)

\* Every step keeps the inductive invariant.
LEMMA StepKeeps ==
  ASSUME ServiceInv, [Next]_vars
  PROVE  ServiceInv'
<1>1. /\ TypeOK /\ TaskRuns /\ NoOrphanFetch /\ ForceGoesToTheNetwork /\ RejectedOnlyForCause
      /\ \A t \in Requests : TaskOK(t)
      /\ \A r \in Requests : RequestOK(r)
      /\ \A v \in Services : ServiceOK(v)
  BY DEF ServiceInv, TaskInv, RequestInv, TypeOK
<1>2. Step
  BY <1>1, NextIsStep
<1>3. TypeOK'
  <2>1. VarsOK'
    <3>1. VarsOK
      BY <1>1 DEF TypeOK, VarsOK
    <3> QED BY <1>1, <1>2, <3>1, VarsStep
  <2>2. tk' \in [Requests -> Tasks]
    BY <1>1, <1>2, TasksStep
  <2>3. TaskRuns'
    BY <1>1, <1>2, RunsStep
  <2> QED BY <2>1, <2>2, <2>3 DEF TypeOK, VarsOK
<1>4. /\ \A t \in Requests : TaskOK(t)'
      /\ \A r \in Requests : RequestOK(r)'
      /\ \A v \in Services : ServiceOK(v)'
  BY <1>1, <1>2, TaskStep, RequestStep, ServiceStep
<1>5. NoOrphanFetch' /\ ForceGoesToTheNetwork' /\ RejectedOnlyForCause'
  BY <1>1, <1>2, OrphanStep, ForceStep, CauseStep
<1>6. OneLiveFetch'
  <2>1. \A t \in Requests : tk'[t].phase = "fetching" /\ ~tk'[t].aborted =>
          svc'[t] = cur' /\ task'[svc'[t]] = t
    <3> SUFFICES ASSUME NEW t \in Requests, tk'[t].phase = "fetching", ~tk'[t].aborted
                 PROVE  svc'[t] = cur' /\ task'[svc'[t]] = t
      OBVIOUS
    <3>1. TaskOK(t)'
      BY <1>4
    <3> QED BY <3>1 DEF TaskOK, Valid
  <2> QED BY <2>1 DEF OneLiveFetch
<1> QED BY <1>3, <1>4, <1>5, <1>6 DEF ServiceInv, TaskInv, RequestInv

\* The inductive invariant holds in the beginning.
LEMMA InitInv == Init => ServiceInv
<1> SUFFICES ASSUME Init PROVE ServiceInv
  OBVIOUS
<1> USE ServiceAssumption
<1>1. TypeOK
  BY DEF Init, TypeOK, TaskRuns, Services, NoTask, Tasks
<1>2. NoOrphanFetch /\ ForceGoesToTheNetwork /\ RejectedOnlyForCause /\ OneLiveFetch
  BY DEF Init, NoOrphanFetch, LiveTask, ForceGoesToTheNetwork, RejectedOnlyForCause, OneLiveFetch,
     NoTask
<1>3. \A t \in Requests : TaskOK(t)
  BY DEF Init, TaskOK, NoTask
<1>4. \A r \in Requests : RequestOK(r)
  BY DEF Init, RequestOK
<1>5. \A v \in Services : ServiceOK(v)
  BY DEF Init, ServiceOK, Services
<1> QED BY <1>1, <1>2, <1>3, <1>4, <1>5 DEF ServiceInv, TaskInv, RequestInv

\* The inductive invariant: slots, tasks, requests and services agree in every reachable
\* state
\* (gateway-catalog-service.ts:35-187).
THEOREM ServiceInvariant == Spec => []ServiceInv
<1>1. ServiceInv /\ [Next]_vars => ServiceInv'
  BY StepKeeps
<1> QED BY InitInv, <1>1, PTL DEF Spec

\* Of the fetches for a cache file at most one is live, and it is wanted by a request or a
\* recovery round (TaskInv; gateway-catalog-service.ts:46-70, 110-116).
THEOREM TheSlotIsSound == Spec => []TaskInv
<1>1. ServiceInv => TaskInv
  BY DEF ServiceInv
<1> QED BY ServiceInvariant, <1>1, PTL

\* A force that is answered was answered by the network, and a request is rejected only for
\* a
\* cause of its own (RequestInv; gateway-catalog-service.ts:133-187).
THEOREM RequestsAreIndependent == Spec => []RequestInv
<1>1. ServiceInv => RequestInv
  BY DEF ServiceInv
<1> QED BY ServiceInvariant, <1>1, PTL

\* The list a service answers with never gets older, whoever saves in between
\* (gateway-catalog-service.ts:72-77, 118-131).
THEOREM ListsNeverGoBack == Spec => ListsOnlyGetNewer
<1>1. ServiceInv /\ [Next]_vars => [ReadsForward]_vars
  <2> SUFFICES ASSUME ServiceInv, [Next]_vars PROVE ReadsForward
    OBVIOUS
  <2>1. /\ TypeOK /\ TaskRuns
        /\ \A t \in Requests : TaskOK(t)
        /\ \A r \in Requests : RequestOK(r)
        /\ \A v \in Services : ServiceOK(v)
    BY DEF ServiceInv, TaskInv, TypeOK
  <2>2. Step
    BY <2>1, NextIsStep
  <2> QED BY <2>1, <2>2, ForwardStep
<1> QED BY ServiceInvariant, <1>1, PTL DEF Spec, ListsOnlyGetNewer
=============================================================================
