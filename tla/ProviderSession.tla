---------------------------- MODULE ProviderSession ----------------------------
(***************************************************************************)
(* One extension instance between the host and its sessions:               *)
(* provider/index.ts (lifecycle handlers, refreshModels, /tsgw-refresh,    *)
(* /tsgw), provider/catalog-state.ts (the instance's own list, its status  *)
(* and the callbacks waiting for the shared service) and                   *)
(* provider/catalog-recovery.ts (the background recovery of one session).  *)
(*                                                                         *)
(* The coordinator and the shared service have modules of their own        *)
(* (CatalogCoordinator, GatewayCatalogService, GatewayCatalogRecovery).    *)
(* Here a coordinator request is something a task or a command waits for   *)
(* and that settles with any result, and the host calls refreshModels      *)
(* whenever it likes: whatever holds here holds for every coordinator.     *)
(*                                                                         *)
(* A session is named by the value lifecycleRevision has while it runs.    *)
(* A definition whose name ends in _Bug is the definition after it with a  *)
(* mistake a programmer could make; README.md says which property notices. *)
(***************************************************************************)
EXTENDS Naturals

CONSTANTS
  None,            \* no key, no service
  Keys,            \* API keys: a shared service per key
  Calls,           \* the host's calls of refreshModels, each made at most once
  Cmds,            \* runs of /tsgw and /tsgw-refresh
  HasUI,           \* does the host have a UI (in every context alike)?
  MaxLifecycle,    \* bound on session_start and session_shutdown together
  MaxStored        \* bound on the times a list was fetched at (0: no list)

ASSUME BoundsAssumption ==
  None \notin Keys /\ HasUI \in BOOLEAN /\ MaxLifecycle \in Nat /\ MaxStored \in Nat

VARIABLES
  lifecycle,       \* lifecycleRevision
  open,            \* is a session on (ghost)?
  called,          \* commands whose copy of refreshRevision is out of date
  uiOf,            \* the session whose UI publishStatus and notify go to, or 0
  shown,           \* the status that was last published there
  dir,             \* the catalog state of the instance
  call,            \* call of refreshModels |-> its locals
  task,            \* session |-> where its recovery loop is
  active,          \* the session whose recovery is the active one, or 0
  endings,         \* session |-> how often its recovery ended (ghost)
  cmd              \* command |-> its locals

vars == <<lifecycle, open, called, uiOf, shown, dir, call, task, active, endings, cmd>>
sessionVars  == <<lifecycle, open>>
recoveryVars == <<task, active, endings>>

Sessions == 1..MaxLifecycle
Errors   == {"none", "failed", "cancelled"}
Label(d) == [have |-> d.snap # 0, loading |-> d.loading, err |-> d.err]
Unbound  == [have |-> FALSE, loading |-> FALSE, err |-> "none"]

\* Where a recovery waits: for a timer, or for a promise of the host.
Pauses   == {"delay", "restorePause", "refreshPause"}
Requests == {"restoring", "joined", "running", "applying"}

Unmade == [pc |-> "new", key |-> None, fetch |-> FALSE, current |-> TRUE, aborted |-> FALSE]
Over   == [Unmade EXCEPT !.pc = "done"]

Init ==
  /\ lifecycle = 0 /\ open = FALSE /\ called = {}
  /\ uiOf = 0
  /\ \E key \in Keys \union {None}, at \in 0..MaxStored :
       /\ key = None => at = 0
       /\ dir = [svc |-> key, snap |-> at, owner |-> IF at = 0 THEN None ELSE key,
                 loading |-> FALSE, err |-> "none", enabled |-> FALSE,
                 retryable |-> TRUE, waiting |-> {}]
  /\ shown = Unbound
  /\ call = [c \in Calls |-> Unmade]
  /\ task = [s \in Sessions |-> "off"] /\ active = 0
  /\ endings = [s \in Sessions |-> 0]
  /\ cmd = [m \in Cmds |-> [pc |-> "new", life |-> 0, told |-> 0]]

-----------------------------------------------------------------------------
(* catalog-state.ts *)

\* Without a list it is needed; the age of a list is the clock's to say.
NeedsRefresh(d) == IF d.snap = 0 THEN {TRUE} ELSE BOOLEAN

\* invalidate(): nobody is waited for any more.
Invalidated(d) == [d EXCEPT !.waiting = {}, !.retryable = TRUE, !.loading = FALSE]

\* fail(): the status says so, the list stays.
WithFailure(d) == [d EXCEPT !.loading = d.waiting # {}, !.err = "failed"]

\* apply(): a list replaces the one before it, status and all.
Applied(d, at, key) == [d EXCEPT !.snap = at, !.owner = key,
                                 !.loading = d.waiting # {}, !.err = "none"]

Switched_Bug(d, key) == IF d.svc = key THEN d ELSE [Invalidated(d) EXCEPT !.svc = key, !.err = "none"]

\* refresh() for another key than the last: nothing of the old key survives.
Switched(d, key) ==
  IF d.svc = key THEN d
  ELSE [Invalidated(d) EXCEPT !.svc = key, !.snap = 0, !.owner = None, !.err = "none"]

Outdated_Bug(cs) ==
  [c \in Calls |-> IF c \in dir.waiting THEN [cs[c] EXCEPT !.aborted = TRUE] ELSE cs[c]]

\* The rest of invalidate(): the revision moves on for every call under way, and the
\* controllers that were waiting are aborted.
Outdated(cs) ==
  [c \in Calls |-> IF cs[c].pc = "open"
                   THEN [cs[c] EXCEPT !.current = FALSE, !.aborted = @ \/ c \in dir.waiting]
                   ELSE cs[c]]

\* onChange: index.ts copies the status and publishes it where it can.
Change(d) == dir' = d /\ shown' = IF uiOf = 0 THEN shown ELSE Label(d)

-----------------------------------------------------------------------------
(* refreshModels and refresh() *)

\* A call without a key (the list as it is, or an error that no retry mends), or with a
\* signal that is aborted already.
RefreshWithoutKey(c) ==
  /\ call[c].pc = "new"
  /\ called' = {m \in Cmds : cmd[m].pc \in {"waiting", "asked"}}
  /\ call' = [call EXCEPT ![c] = Over]
  /\ \/ UNCHANGED dir
     \/ dir' = [dir EXCEPT !.retryable = FALSE]
  /\ UNCHANGED <<sessionVars, uiOf, shown, recoveryVars, cmd>>

CanFetch(allow, force) == allow /\ (dir.enabled \/ force)

\* The call is handed to the service of its key; the status says "loading".
Refresh(c, key, allow, force) ==
  LET moved == Switched(dir, key)
      fetch == CanFetch(allow, force)
      d     == IF fetch THEN [moved EXCEPT !.waiting = @ \union {c}, !.loading = TRUE] ELSE moved
  IN
  /\ call[c].pc = "new"
  /\ called' = {m \in Cmds : cmd[m].pc \in {"waiting", "asked"}}
  /\ call' = [(IF moved = dir THEN call ELSE Outdated(call)) EXCEPT ![c] =
                [pc |-> "open", key |-> key, fetch |-> fetch, current |-> TRUE, aborted |-> FALSE]]
  /\ Change(d)
  /\ UNCHANGED <<sessionVars, uiOf, recoveryVars, cmd>>

\* The signal the host passed is aborted.
CancelCall(c) ==
  /\ call[c].pc = "open" /\ ~call[c].aborted
  /\ call' = [call EXCEPT ![c].aborted = TRUE]
  /\ UNCHANGED <<sessionVars, called, uiOf, shown, dir, recoveryVars, cmd>>

UpToDate(c) == call[c].current /\ ~call[c].aborted

Accepted(c, at) ==
  IF at # 0 /\ at >= dir.snap THEN Applied(dir, at, call[c].key) ELSE dir

\* The finally of refresh().
Settled(d, c) ==
  IF call[c].current
  THEN LET left == d.waiting \ {c} IN [d EXCEPT !.waiting = left, !.loading = left # {}]
  ELSE d

\* The service answers with a list of time `at` (0: none).
Answer(c, at, failed, retryable) ==
  LET got == IF call[c].fetch THEN [Accepted(c, at) EXCEPT !.retryable = retryable]
                              ELSE Accepted(c, at)
  IN
  /\ call[c].pc = "open" /\ UpToDate(c)
  /\ ~failed => retryable
  /\ call' = [call EXCEPT ![c] = Over]
  /\ Change(Settled(IF failed THEN [got EXCEPT !.err = "failed"] ELSE got, c))
  /\ UNCHANGED <<sessionVars, called, uiOf, recoveryVars, cmd>>

\* The service rejects, or the answer is for a revision that has passed.
Dropped(c) ==
  LET err == IF ~call[c].aborted THEN "failed" ELSE IF dir.err = "none" THEN "cancelled" ELSE dir.err
      d   == IF call[c].current THEN [dir EXCEPT !.err = err] ELSE dir
  IN
  /\ call[c].pc = "open"
  /\ call' = [call EXCEPT ![c] = Over]
  /\ IF call[c].current THEN Change(Settled(d, c)) ELSE UNCHANGED <<dir, shown>>
  /\ UNCHANGED <<sessionVars, called, uiOf, recoveryVars, cmd>>

-----------------------------------------------------------------------------
(* catalog-recovery.ts *)

Halted(ts) == [s \in Sessions |-> IF s = active /\ ts[s] \in Pauses THEN "woken" ELSE ts[s]]

EndActive_Bug(ts) ==
  /\ endings' = [endings EXCEPT ![active] = @ + 1]
  /\ task' = ts
  /\ UNCHANGED active

\* The active loop is stopped; its last step is in ts.
EndActive(ts) ==
  /\ endings' = [endings EXCEPT ![active] = @ + 1]
  /\ task' = Halted(ts)
  /\ active' = 0

\* The loop of s ends with the catalogue d: fail() alerts once, through notify or
\* the console, and the status says "failed"; stop() is silent.
Alert(s, d) ==
  /\ EndActive([task EXCEPT ![s] = "ended"])
  /\ Change(WithFailure(d))

Quietly(s, d) ==
  /\ EndActive([task EXCEPT ![s] = "ended"])
  /\ dir' = d /\ UNCHANGED shown

Goto(s, pc) ==
  /\ task' = [task EXCEPT ![s] = pc]
  /\ UNCHANGED <<shown, active, endings>>

loopFrame == UNCHANGED <<sessionVars, called, uiOf, call, cmd>>

\* The minute is over, whatever the loop waits for.
Deadline ==
  /\ active # 0
  /\ EndActive(task)
  /\ Change(WithFailure(dir))
  /\ loopFrame

\* A loop that finds it is not the active one returns.
LoopReturns(s) ==
  /\ task[s] \in Requests \union {"woken"} /\ active # s
  /\ Goto(s, "ended") /\ UNCHANGED dir /\ loopFrame

WaitOver(s, pause) == task[s] = pause

\* The start of the loop, or the end of a pause of the restore phase.
Restore(s) ==
  /\ WaitOver(s, "delay") \/ WaitOver(s, "restorePause")
  /\ Goto(s, "restoring") /\ UNCHANGED dir /\ loopFrame

\* The restore was aborted or failed: again in five seconds.
RestoreFailed(s) ==
  /\ task[s] = "restoring" /\ active = s
  /\ Goto(s, "restorePause") /\ UNCHANGED dir /\ loopFrame

\* It went well: is there no credential, is the list recent, or is it too old?
Restored(s) ==
  /\ task[s] = "restoring" /\ active = s
  /\ \/ Alert(s, dir)
     \/ FALSE \in NeedsRefresh(dir) /\ Quietly(s, dir)
     \/ TRUE \in NeedsRefresh(dir) /\ Goto(s, "joined") /\ UNCHANGED dir
  /\ loopFrame

\* The pause between two rounds is over.
JoinAgain(s) ==
  /\ WaitOver(s, "refreshPause")
  /\ Goto(s, "joined") /\ UNCHANGED dir /\ loopFrame

\* The shared round asks this instance to fetch: a normal refresh of its own,
\* which settles and is reported to the round.
Fetches(s) ==
  /\ active = s
  /\ \/ task[s] = "joined" /\ Goto(s, "running")
     \/ task[s] = "running" /\ Goto(s, "joined")
  /\ UNCHANGED dir /\ loopFrame

\* The round has a list this instance has not: it is registered with the host.
Applies(s) ==
  /\ task[s] = "joined" /\ active = s
  /\ Goto(s, "applying") /\ UNCHANGED dir /\ loopFrame

\* After a failure: a pause, unless there is no credential or no use in retrying.
TryAgain(s, d) ==
  \/ Alert(s, d)
  \/ d.retryable /\ Goto(s, "refreshPause") /\ dir' = d

\* The round rejects, or its list could not be registered.
RoundThrows(s) ==
  /\ task[s] \in {"joined", "applying"} /\ active = s
  /\ TryAgain(s, dir)
  /\ loopFrame

\* finishRecovery(): a round that has failed has used up the retries.
Finished(failed, retryable) == [dir EXCEPT !.retryable = ~failed /\ retryable]

\* The outcome is taken over; a host that did not go to the network is not asked again.
RoundEnds(s, failed, attempted, retryable) ==
  LET d == Finished(failed, retryable) IN
  /\ task[s] = "joined" \/ (task[s] = "applying" /\ ~failed)
  /\ active = s
  /\ \/ failed /\ TryAgain(s, d)
     \/ ~failed /\ FALSE \in NeedsRefresh(d) /\ Quietly(s, d)
     \/ ~failed /\ TRUE \in NeedsRefresh(d) /\ ~attempted /\ Quietly(s, d)
     \/ ~failed /\ TRUE \in NeedsRefresh(d) /\ attempted /\ TryAgain(s, d)
  /\ loopFrame

-----------------------------------------------------------------------------
(* index.ts: the lifecycle handlers *)

\* bindStatus(ctx) for a context of session s, with the catalogue d.
Bind(s, d) ==
  /\ dir' = d
  /\ uiOf' = IF HasUI THEN s ELSE 0
  /\ shown' = IF HasUI THEN Label(d) ELSE Unbound

\* recovery.stop() and invalidate() as stopRefreshes() does them; coordinator.stop()
\* rejects what a stopped loop or a command of the session waits for.
StoppedDir == Invalidated(dir)
StoppedLoop == IF active = 0 THEN UNCHANGED endings
                    ELSE endings' = [endings EXCEPT ![active] = @ + 1]

SessionStart ==
  /\ lifecycle < MaxLifecycle
  /\ lifecycle' = lifecycle + 1 /\ open' = TRUE
  /\ StoppedLoop
  /\ active' = lifecycle'
  /\ task' = [Halted(task) EXCEPT ![lifecycle'] = "delay"]
  /\ call' = Outdated(call)
  /\ Bind(lifecycle', [StoppedDir EXCEPT !.enabled = TRUE])
  /\ UNCHANGED <<called, cmd>>

SessionShutdown_Bug ==
  /\ open
  /\ lifecycle' = lifecycle + 1 /\ open' = FALSE
  /\ StoppedLoop
  /\ active' = 0 /\ task' = Halted(task)
  /\ call' = Outdated(call)
  /\ dir' = [StoppedDir EXCEPT !.enabled = FALSE]
  /\ shown' = IF uiOf = 0 THEN shown ELSE Label(dir')
  /\ UNCHANGED <<uiOf, called, cmd>>

SessionShutdown ==
  /\ open
  /\ lifecycle' = lifecycle + 1 /\ open' = FALSE
  /\ StoppedLoop
  /\ active' = 0 /\ task' = Halted(task)
  /\ call' = Outdated(call)
  /\ dir' = [StoppedDir EXCEPT !.enabled = FALSE]
  /\ uiOf' = 0 /\ shown' = Unbound
  /\ UNCHANGED <<called, cmd>>

\* agent_start and model_select of the session bind the status line again.
Rebind ==
  /\ open
  /\ Bind(lifecycle, dir)
  /\ UNCHANGED <<sessionVars, called, call, recoveryVars, cmd>>

-----------------------------------------------------------------------------
(* index.ts: /tsgw-refresh, and /tsgw whose first choice leads to it *)

cmdFrame == UNCHANGED <<sessionVars, call, recoveryVars>>

Command(m, menu) ==
  /\ open /\ cmd[m].pc = "new" /\ (menu => HasUI)
  /\ cmd' = [cmd EXCEPT ![m].pc = IF menu THEN "menu" ELSE "waiting", ![m].life = lifecycle]
  /\ IF menu THEN Bind(lifecycle, dir) ELSE UNCHANGED <<uiOf, shown, dir>>
  /\ UNCHANGED called /\ cmdFrame

SameSession(m) == cmd[m].life = lifecycle

CommandReturns(m) ==
  /\ cmd[m].pc \in {"menu", "waiting", "asked"} /\ ~SameSession(m)
  /\ cmd' = [cmd EXCEPT ![m].pc = "done"]
  /\ UNCHANGED <<uiOf, shown, dir, called>> /\ cmdFrame

\* The user chose: refresh, look at the diagnostics, or nothing.
Chosen(m) ==
  /\ cmd[m].pc = "menu" /\ SameSession(m)
  /\ \/ /\ cmd' = [cmd EXCEPT ![m].pc = "waiting"]
        /\ UNCHANGED <<uiOf, shown, dir>>
     \/ /\ cmd' = [cmd EXCEPT ![m].pc = "done", ![m].told = lifecycle]
        /\ Bind(cmd[m].life, dir)
     \/ /\ cmd' = [cmd EXCEPT ![m].pc = "done"]
        /\ UNCHANGED <<uiOf, shown, dir>>
  /\ UNCHANGED called /\ cmdFrame

\* waitForIdle() returned: without a credential the command ends here.
HostIdle(m) ==
  /\ cmd[m].pc = "waiting" /\ SameSession(m)
  /\ \/ /\ cmd' = [cmd EXCEPT ![m].pc = "done", ![m].told = lifecycle]
        /\ Bind(cmd[m].life, WithFailure(dir))
        /\ UNCHANGED called
     \/ /\ cmd' = [cmd EXCEPT ![m].pc = "asked"]
        /\ called' = called \ {m}
        /\ Bind(cmd[m].life, dir)
  /\ cmdFrame

\* recordFailure(): the provider's own callbacks report for themselves.
Recorded(m, err) ==
  IF m \notin called /\ ~dir.loading THEN [dir EXCEPT !.err = err] ELSE dir

\* The forced refresh (or waitForIdle) settled; the command tells the user.
CommandEnds(m, err) ==
  /\ \/ cmd[m].pc = "asked"
     \/ cmd[m].pc = "waiting" /\ err = "failed"
  /\ SameSession(m)
  /\ cmd' = [cmd EXCEPT ![m].pc = "done", ![m].told = lifecycle]
  /\ IF err = "none" THEN UNCHANGED <<dir, shown>> ELSE Change(Recorded(m, err))
  /\ UNCHANGED <<uiOf, called>> /\ cmdFrame

-----------------------------------------------------------------------------
Next ==
  \/ \E c \in Calls : \/ RefreshWithoutKey(c)
                      \/ \E key \in Keys, allow, force \in BOOLEAN : Refresh(c, key, allow, force)
                      \/ CancelCall(c) \/ Dropped(c)
                      \/ \E at \in 0..MaxStored, failed, retryable \in BOOLEAN :
                           Answer(c, at, failed, retryable)
  \/ Deadline
  \/ \E s \in Sessions : \/ LoopReturns(s) \/ Restore(s) \/ RestoreFailed(s) \/ Restored(s)
                         \/ JoinAgain(s) \/ Fetches(s) \/ Applies(s) \/ RoundThrows(s)
                         \/ \E failed, attempted, retryable \in BOOLEAN :
                              RoundEnds(s, failed, attempted, retryable)
  \/ SessionStart \/ Rebind
  \/ SessionShutdown
  \/ \E m \in Cmds : \/ \E menu \in BOOLEAN : Command(m, menu)
                     \/ CommandReturns(m) \/ Chosen(m)
                     \/ HostIdle(m)
                     \/ \E err \in Errors : CommandEnds(m, err)

Spec == Init /\ [][Next]_vars

-----------------------------------------------------------------------------
(* Properties *)

\* Types; and the directory waits for calls under way only, and the active recovery is
\* one whose loop is running (catalog-state.ts:52, 142, 165; catalog-recovery.ts:18-44).
TypeOK ==
  /\ lifecycle \in 0..(MaxLifecycle + 1) /\ open \in BOOLEAN /\ called \subseteq Cmds
  /\ uiOf \in 0..MaxLifecycle /\ active \in 0..MaxLifecycle
  /\ dir.svc \in Keys \union {None} /\ dir.snap \in 0..MaxStored /\ dir.err \in Errors
  /\ dir.waiting \subseteq {c \in Calls : call[c].pc = "open"}
  /\ task \in [Sessions -> {"off", "woken", "ended"} \union Pauses \union Requests]
  /\ active # 0 => task[active] \in Pauses \union Requests
  /\ \A c \in Calls : call[c].pc \in {"new", "open", "done"} /\ call[c].key \in Keys \union {None}

\* The status the user sees says "loading" exactly while a network call of the
\* present session and key is under way, and it is never an old one
\* (catalog-state.ts:65-76, 141-169 and index.ts:149-153).
StatusIsTrue ==
  /\ dir.loading <=> \E c \in Calls : call[c].pc = "open" /\ call[c].fetch /\ call[c].current
  /\ uiOf # 0 => shown = Label(dir)

\* The models shown were listed for the key whose service is in use: no answer that
\* comes back after a key switch replaces them (catalog-state.ts:129-150).
ListOfThePresentKey == dir.snap # 0 => dir.owner = dir.svc

\* The directory's state is of its types and of one key.
DirectoryInv == TypeOK /\ ListOfThePresentKey

\* Nothing is bound to, or told through, the context of a session that is over, however
\* late a menu, waitForIdle or a refresh comes back (index.ts:228-289).
OnlyTheLiveContext ==
  /\ uiOf # 0 => open /\ uiOf = lifecycle
  /\ \A m \in Cmds : cmd[m].told \in {0, cmd[m].life}

\* A recovery ends once, in its own session: one alert at most, none after a success
\* or a shutdown, whatever the deadline races; and one that was stopped asks the host
\* for nothing more (catalog-recovery.ts:25-58, 68, 79, 83 and 86).
RecoveryEndsOnce ==
  [][\A s \in Sessions :
       /\ endings'[s] # endings[s] => endings[s] = 0 /\ open /\ lifecycle = s
       /\ task'[s] # task[s] /\ task'[s] \in Requests => active = s /\ lifecycle = s]_vars
=============================================================================
