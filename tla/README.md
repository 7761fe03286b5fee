# A verification project for the tsgw extension

The repository is an extension of a coding agent. It keeps a list of models of
a gateway up to date (a "catalogue"), chooses models for delegated work,
uploads files, handles mail and images, and installs its own agents. Nearly all
of it is asynchronous TypeScript in one Node process: handlers run to
completion, and what can go wrong happens at the awaits, in abort listeners and
timers, and between several processes that share a file. These modules model
those interleavings. All source paths below are relative to
`src/extensions/`.

How to run, in this directory:

    tlc -workers 2 -config <run>.cfg <MC module>    model-check a run
    tlapm <module>.tla                              check the proofs of a module

`PROJECT.json` names every run, the source lines each definition stands for,
the hazards and the theorems.

## 1. Inventory

### Catalogue: who talks to whom

    callers (restore, recovery, commands, host's model list)
          |  request(kind, signal)
    provider/catalog-coordinator.ts    one per extension instance
          |  run -> host.registry.refresh -> provider callback
    provider/catalog-state.ts          one per extension instance
          |  service.request(mode)            ^ recover(...)
    models/gateway-catalog-service.ts  one per cache file and process
          |                  \
          |                   models/gateway-catalog-recovery.ts  one per service
    models/gateway-catalog.ts          memory and disk copies, network

| component | state it keeps | operations | what is hard | what makes it correct |
|---|---|---|---|---|
| coordinator (`provider/catalog-coordinator.ts`) | one running job, one queued network job, one queued local job, waiters per job, a generation, bookkeeping of provider callbacks | request, provider, pump, startJob, finishJob, failJob, abortJob, stop | waiters move between jobs while jobs are cancelled, absorbed, stopped; the host may replace a refresh by another | nobody is lost or served twice, nothing waits while nothing runs, local and network requests are not mixed, a force reaches the network, a cancelled refresh is not a success |
| list cache (`models/gateway-catalog.ts`) | memory entry per (scope, path), one file per path, shared requests, two revision barriers | getGatewayModelIds, getCachedGatewayModelIds, save | answers overtake each other; joined, failed and cancelled requests; other keys and other processes use the same file | an older answer never replaces a newer one, keys do not see each other's list, age is that of the request, cancelling is private |
| shared service (`models/gateway-catalog-service.ts`) | a slot per cache file: service, key, list, current task | getGatewayCatalogService, request, invalidate, recover, read | requests leave a shared task one by one, a force meets a task that has just decided for the cache, the key changes under a task, a fetch ignores its abort | one live fetch, nobody else's abort cancels me, a force is answered by the network, nothing delivered by a replaced service |
| recovery round (`models/gateway-catalog-recovery.ts`) | participants in order, a controller, a deadline, the delay between attempts | join, run, stop, hasParticipants, onIdle | the participant whose request is used leaves; deadline, stop, success and retry coincide | one live round, nobody who left is asked, the end is announced, every join settles |
| directory of an instance (`provider/catalog-state.ts`) | applied list and its revision, the controllers that wait, attempted and succeeded flags | refresh, begin, inspect, invalidate, finishRecovery, projection | answers after invalidate, stop or a key switch | a late answer changes nothing, the list is of the present key, the status says what is going on |
| session recovery (`provider/catalog-recovery.ts`) | timers, restore and refresh loop, one alert | start, stop, refresh | a minute's deadline against restore, refresh and pause | it ends once: one alert at most and none after stop |
| provider wiring (`provider/index.ts`, `status.ts`, `config.ts`) | lifecycle revision, commands, the context the status is bound to | session_start, session_shutdown, agent_start, refreshModels, both commands | session events while a command awaits the user or the host | nothing is told through the context of a session that is over |

### Mail

| component | state | operations | what is hard | what makes it correct |
|---|---|---|---|---|
| sender (`email/smtp.ts`) | per outlet a chain of promises and a pool of the mail library; operations with streams | send, cancel, dispose | cancelling a queued, preparing, sending or just answered mail; the library may go on after close() | order, one mail at a time in a pool, "not sent" is true, no stream stays open, nothing hangs |
| IMAP sessions (`email/imap-session.ts`) | a queue and a connection per account, idle timer | run, abort, dispose | idle timer against reuse, failed connections, aborts | one user per connection, the queue survives every failure |
| mutations (`email/mutations.ts`) | none of its own | flag, move, delete with verification | a command whose effect is unknown after a lost connection | every item's status is true |
| cache (`email/cache.ts`) | entries in order of use, a byte count | get, set, delete, clear, sweep, dispose | budget, replacement and expiry | the count adds up, the budget holds, nothing stale is served |
| reading (`email/reader.ts`, `body.ts`) | the file an attachment goes to | read bodies version by version, save attachments, page a text | a version that cannot be read, a download that fails | "empty" is true, files are whole or gone, pages join |
| search, tools, configuration (`email/query.ts`, `message.ts`, `tools.ts`, `config.ts`, ...) | none | parsing and request shaping | formats | pure functions |

### The rest

| component | state and operations | what is hard |
|---|---|---|
| delegation (`delegation/*.ts`) | selection attempts per tool call; a race of answer, deadline, cancellation and session change; usage bookkeeping; static policy | results after the session changed, the catalogue changing during a selection, usage booked once |
| upload (`upload/*.ts`) | a lock per file, parts and workers, receipts, a PUT state machine | partial failure, a call that ends after it was given up, a file that changes, an early response |
| images (`images/*.ts`, `models/adapter/**`) | stable reading within a budget, saving several outputs, stream parsing | partial failure, cancellation |
| search (`search/*.ts`) | the mode of the session | a dialogue during which model or session change |
| agents (`agents/*.ts`) | files and settings written in sequence | a crash in between |
| model tables, vendor strategies, prompts, schemas | static data, pure functions | nothing that needs a state machine |

## 2. Plan

The catalogue is the heart of the extension and has most of the concurrency,
so it came first, from the coordinator down to the cache; then mail, delegation
and upload.

Done, in this order:

1. `CatalogPromises`, `CatalogCoordinator`, with proofs and the refinement.
2. `GatewayCatalog`, `GatewayCatalogService`, `GatewayCatalogRecovery`, with
   proofs of all their safety properties.
3. `EmailSender`, with proofs of all its safety properties.
4. `ProviderSession`: the instance between host, sessions and shared service,
   with proofs of all its safety properties.
5. `MailMutation`, `MailSession` and `BodyPage`, with proofs of all their safety
   properties.
6. `DelegationSelection`, with proofs of all its safety properties.
7. `UploadPromises`, `Uploader` with the refinement, and `UploadTransport`, with
   proofs of all their safety properties and of the refinement.
8. `SerialLine`, what a chain of promises is for, and the proofs that
   `MailSession` and `EmailSender` implement it.

Left, for whoever goes on:

- `ImageTool` (reading within a budget, saving several outputs),
  `SearchControl` (a dialogue during which the session changes) and
  `AgentInstall` (files and settings in sequence, with a crash in between).
- Service and recovery in one module: `recovering` of the first is
  `HasParticipants` of the second, and its action `RecoveryIdles` is the
  second's `onIdle`.
- The theorems those modules will need. Of what is modelled only liveness has no
  theorem (section 6).

## 3. Modules

A definition `X_Bug` is `X` with a mistake a programmer could make: a dropped
guard, a missing reset, a wrong order. It is no part of any specification; it
shows that the property it is paired with in `PROJECT.json` notices the mistake.

### CatalogCoordinator and CatalogPromises

One action per handler, because JavaScript runs handlers to completion; a job is
named by the request that created it.

| in the module | in the code |
|---|---|
| `running`, `pendingNetwork`, `pendingRestore` | the three slots |
| `Request`, `TargetFor`, `Upgrades` | `request`, `targetFor`: join, upgrade the running job, or a new job |
| `WaiterAborts`, `LastWaiterAborts` | the abort listener of a caller, `abortJob` |
| `Pump`, `Start`, `FreshProvider` | `pump`, `startJob`, reset of the provider bookkeeping |
| `RunSettles`, then `DropLateResult`, `FailJob`, `FinishJob` | the host settles the run; the continuation after the await |
| `Provider` with its four cases | `provider`: a cancelled callback, no job, another signal, the job's own |
| `Execute`, `GetSettles` | `CatalogState.refresh` and the GET of the shared service, as far as the coordinator sees them |
| `HostAborts`, `Stop` | the host's signal, `stopRefreshes` in `provider/index.ts` |

`inspect` and `stop` do not re-enter the coordinator, because the functions
`index.ts` passes in are synchronous and do not call back. Summaries, error
values and `retryable` are not modelled. `CatalogPromises` knows only requests
and promises; `CatalogCoordinator` implements it with the identity mapping of
`want` and `st`.

### GatewayCatalog

Calls overlap only at the await of the network, so `CallAborted`, `CallHits`
and `CallFetches` are the code before it and `ResumeAborted`, `ResumeFetched`
and `ResumeFailed` the code after it. An entry is (scope, time of its request,
revision, call that fetched it); the ids themselves are never looked at. `Scopes`
are hashes of base URL and key; the timeout in a shared request's key is the same
for all callers and left out. `OtherProcessSaves` and `FileLost` are other
processes and the user. A save is one step or fails without trace, as the code
writes a temporary file, renames it and ignores errors. The clock does not go back.

### GatewayCatalogService

Finer than handlers, because here microtasks race: `Execute` is the microtask
that decides between cache and fetch, `FetchReturns` the fetcher's promise,
`ExecuteContinues` the code after it, `ExecuteSettles` the promise of the async
callback, `TaskSettles` the `finally` of the race and `WaiterSettles` the
continuation of one waiter. A task is named by the request that created it.
`cache[k]` stands for both local copies that `GatewayCatalog` models in full: the
newest `storedAt` a read would find. `recovering` is `recovery.hasParticipants()`.
Not modelled: `retryable`, the summary, the checks around `recover`.

### GatewayCatalogRecovery

A round is named by the join that created it. Its participants are a set;
`turn` keeps the order in which they joined, which is the order of insertion of
the code's `Set`, and the request made is that of the first still there.
`Iterate`, `Answered` and `Wake` are the loop of `run`, `Deadline` the timer,
`RoundSettles` the `finally` of the race, `StopAborts` and `LastLeft` the two
ways to abort the controller. `stopped` and `idled` only observe. An answer is
success, final failure, failure worth a retry, or an exception.

### ProviderSession

One extension instance between the host and its sessions. A session is named by
the value `lifecycleRevision` has while it runs.

| in the module | in the code |
|---|---|
| `Refresh`, `RefreshWithoutKey`, `Answer`, `Dropped`, `CancelCall` | `refreshModels` and `CatalogState.refresh`: begin, key switch, the answer that counts and the one that comes too late |
| `dir` | the fields of `CatalogState`: service, list and its owner, loading, failure |
| `task[s]`, `Restore` ... `RoundEnds`, `Deadline`, `LoopReturns` | the recovery loop of session `s` in `catalog-recovery.ts`, its timers and its one alert |
| `SessionStart`, `Rebind`, `SessionShutdown` | the lifecycle handlers |
| `uiOf`, `shown` | the context that `publishStatus` is bound to, and what it last showed there |
| `Command`, `Chosen`, `HostIdle`, `CommandReturns`, `CommandEnds` | `/tsgw` and `/tsgw-refresh` with their awaits |

Coordinator and shared service are not repeated: a coordinator request is
something that settles with any result, and the host calls `refreshModels` when
it likes. What holds here holds for every coordinator, so also for the one of
`CatalogCoordinator`. `open`, `endings` and the sessions a command spoke to only
observe.

### EmailSender

`Begin` is `execute` up to its first await; `ThreadRead`, `FileOpened`,
`FileChecked` and `Answer` continue it after each. A mail without thread and
attachments goes from `Send` to the library in one step, as in the code.
`prev` and `resolved` are the chain of tails: `TailReady` is
`previous.then(() => done)`. A pool is named by the mail that created it;
`closed` are the pools after `close()`. The library and the server are
external: `Deliver` may happen until the library answers, also for a mail whose
caller has returned, and an answer does not lie (a rejection means it was not
accepted; a connection lost after DATA is "unknown"). Which error codes mean what
is `deliveryError`, a table, and left out. Line 169 (disposed between two
synchronous statements) cannot happen and is part of `MustGiveUp`.

### MailMutation

One call of `mutateEmail`. `plan` is what `planFor` made of it: which flags are
stored and whether the mails are then moved, purged, or neither; `phase` and
`index` are where the call is. `Send` begins a command, which includes that the
cache is cleared before the first one (`ClearOnce`), and each command has one action per way it can end: confirmed for a part of the mails,
refused, or its answer lost after it took effect on any of them. `Fetched`,
`Verified` and `Locate` are the FETCHes around them, `Return` the summary.
`LineDrops` is the network, `Cancels` the caller. `before` only observes.

### MailSession

`MailSession` is the read side of a runtime: per account a queue, a connection
and an idle timer (`imap-session.ts`), the cache they all share (`cache.ts`),
and body reads and attachments that go through both (`reader.ts`, `body.ts`).
`Continue(r)` is the next piece of the call `r`, up to its next await, and one of
the actions it lists; `Idle`, `Drop` and `Sweep` are timers and the network,
`Dispose` the end of the runtime. The cache is a function from keys to entries,
with its byte count as a field of its own; the order of use, which in the code is
the order of the `Map`, is in each entry the set `later` of the keys used after
it. A call that settles gives the line to the next of the queue, which is its
tail. A part is its size and whether its text is blank or empty; a file is
absent, partial, whole, somebody else's, or left behind because the file system
refused to remove it (`reader.ts:121` swallows that). Of `Parts`, the keys a call tries in order, is assumed what
`messageCacheKey` provides (`message.ts:16-18`): the parts of a mail have
different keys, and a key names its account.

A mutation is here in as many steps as the cache can tell apart. `Write` empties
the cache, once, and sends the first command; while the call is at `storing`,
commands take effect whenever the server likes (`Lands`, an external action); `Written` is the
last answer, or the knowledge that there will be none; `NotWritten` ends a call
that sent nothing. `epoch` counts what took effect on an account, and a read
remembers in `asked` what there was when it asked the server, so an entry that is
stored later is dated by its question and not by its arrival. Both only observe.
The server may answer with something newer than what it was asked about; the
date is then too old, which is the safe side. What the code cannot know, the
model does not count: a command that takes effect after its call gave up waiting
for the answer.

### SerialLine

Twice the code makes a queue of promises: the calls of an IMAP account wait for
`current.queue` (`imap-session.ts:32-74`), the mails of an outlet for the
predecessor's tail (`smtp.ts:105-119`). `SerialLine` says what both are for. A
user is new, waits, uses the resource or is gone, and `ahead` are those it still
waits for. Who joins waits for all who are there (`Join`), enters when nobody is
left before it (`Enter`), and may leave from anywhere, several at once
(`Leave`: `closePool` and `dispose` stop many mails in one step). Nobody in it
keeps a queue; that one at a time has the resource and nobody overtakes is its
invariant `InTurn`.

| in `SerialLine` | in `MailSession` | in `EmailSender` |
|---|---|---|
| users, resources | calls, accounts | mails, outlets |
| waiting | queued | its tail's predecessor has not resolved |
| using | connecting, reading, writing | preparing, or with the library |
| gone | settled | returned, stopped, refused |
| `ahead` | those before it in `queue` | those before it in the order of the calls that have not returned |

The two differ in what the code does with one that is cancelled: a call of a
session stays in its queue until its turn, throws and leaves; a mail is answered
at once, and its tail must go on waiting for the mail before it.

### BodyPage

`BodyPage` is `bodyPage`, a pure function: where a page begins and ends, over
UTF-16 units of which only matters whether they are half of a surrogate pair.
`FromOffset` is what a reader gets who follows `nextOffset`. TLC evaluates for all
texts up to five units that this is the text (`PagesAreTheText` of
`MCMailSession`), and `PagesAreTheRest` proves it for all.

### DelegationSelection

An Agent call from `tool_call` to `message_end`. `attempts` is the Map of
`delegation/index.ts`, `cleared` what `agent_end` and the session handlers
abort. A candidate is a model with a level. `Selects` and `Answers` are the
pieces of the selection: reading the catalogue, the race of `selection-race.ts`
with its winner, failures and end, `GivesUp` at a deadline or an abort, `Check`
with the second look at the catalogue, `Proceed` with what the handler does
after the await. The classifier's models are listed before one is asked, a chat
model is asked at once. `ToolResult` and `MessageEnd` are the two handlers that
book usage: a call that was blocked has no result, one that ran has both.
`Counts` is `onUsage`, which the code leaves without a condition
(`delegation/index.ts:178`): a loser's usage is added to its attempt even after the
result has been decorated and the attempt has left the Map. The ghost `tardy`
remembers such usage. It is not booked, by intent: `parallel.test.ts:176-184`
expects the message after a `tool_result` to change nothing. `Owed` says what
remains: a usage known when the result is decorated is booked then, exactly
once. `CatalogueChanges` also limits the session to other models. Of
`policy.ts` there are `Candidates` and `Resolves`: which models come into
question, and when an answer names one of them.

### Uploader and UploadPromises

`Uploader` is `uploader.ts`: the lock of a version, the plan, a single PUT or
parts sent by a few workers, completion, the link, and receipts with which a later
call resumes. `remote[c]` is the tool call that a call made: it may be answered
after the call has given it up, and the lock is kept until then. `flying` are
bytes under way, which may arrive after their PUT was given up. `Edit` is
another program, `Expire` the service that forgets an upload. A version stands
for the file's metadata and fingerprint.

`UploadPromises` states what the field `uploaded` of the answer means: "yes" only
for an object that is whole, "no" only if nothing this call began can make an
object whole any more. `whole` means that the service has made the object whole;
that somebody deletes it later is no concern of an upload. `Uploader` implements it with `said`, `whole` and `made`
computed from its own state (`AnswersArePromises`).

### UploadTransport

One PUT (`transport.ts`), specified by `PutSpec`: `pc` is the main function, `pump` the producer that
writes the body, `request` and `response` the two halves of the socket. The
answer, the deadline, the abort and errors come whenever they like. The names
are the code's. `Answers` is everything the response can do, `Closes` the socket's
end, `PutReturns` the end of the `finally`, `CallerAborts` the caller's signal.

## 4. Runs, bounds and what they show

A request, call, joiner or mail is made at most once, so every instance is
finite; deadlock checking is off because all of them may come to an end.

| run | instance | shows |
|---|---|---|
| `coordinator` | 2 requests of any kind, 2 signals, 1 stop, a second instance, callbacks nobody here asked for | no waiter lost, no lost wake-up, a refresh the host cancelled is not reported as done, refinement of `CatalogPromises` |
| `coordinator_force` | 2 requests, a second instance | a disagreement, see below |
| `catalog` | 2 calls, 2 scopes, 1 file, another process, one tick | isolation, age, privacy; only the newest answer is written; every call returns |
| `service` | 2 requests of any mode, 2 keys, 2 services, 1 save of another process, recovery rounds | one live fetch and none for nobody; forces and rejections; lists only get newer |
| `recovery_rounds` | 2 joiners, 3 attempts | one live round, causes of rejection, who is asked, announcements, every join settles |
| `provider_session` | 2 lifecycle changes, 2 keys, 2 calls, 1 command | the status and the list are the present ones; nothing outlives its session; recovery ends once |
| `email` | 2 mails of one outlet, 1 of another, 1 never answered | truth of the result, one mail per pool, every send returns |
| `mail_mutation` | 2 mails, every plan | the report and the summary are true, the cache is emptied first |
| `mail_session` | a body read, the same again with refresh, an attachment, a mutation of which one command takes effect; 3 keys; room for 2 bytes | refinement of `SerialLine`, every call settles; connection, cache, file, "empty"; nothing cached is older than the mailbox |
| `delegation` | 1 call, classifier and one chat channel, 2 models, 2 scopes, 1 change of session or agent run | usage and failures are true, nothing is begun in vain, the choice follows the rules, every selection ends |
| `upload` | 2 calls on one file, single or in 2 parts, 2 versions, 2 keys | the lock, one version per object, a single PUT is sent once, refinement of `UploadPromises` |
| `upload_transport` | a part of 3 pieces | success is whole, nothing goes on after it, the cause is true, every PUT returns |

Some invariants are conjunctions, always with the module's `TypeOK` where it has
one: `CacheInv` (`ScopesAreIsolated`, `AgeIsHonest`, `CancellationIsPrivate`),
`TaskInv` (`OneLiveFetch`, `NoOrphanFetch`), `RequestInv`
(`ForceGoesToTheNetwork`, `RejectedOnlyForCause`), `RoundInv` (`OneLiveRound`,
`RejectedOnlyForCause`), `DirectoryInv` (`ListOfThePresentKey`), `ReportIsTrue`
(`StepsAreTrue`, `SummaryIsTrue`), `AccountInv` (`OnlyRealErrors`,
`UsageIsBookedOnce`).

Why these bounds: two requests are one that has a job and one that joins,
upgrades, queues or overtakes; two signals are what it takes to replace a
refresh, two services, sessions, versions or rounds to have an old and a new
one, two keys to mix them up. Three mails, two on one outlet, show that one
that hangs blocks its own outlet only. Four calls of a mail session are one of
each kind and a repetition; two bytes make an entry that just fits, two that
do not fit together, and an eviction. `MaxStops`, `MaxTime`, `MaxServices`,
`MaxSaves`, `MaxAttempts`, `MaxLifecycle`, `MaxWrites`, `MaxStored`, `MaxEpoch`, `MaxVersion`
and `MaxKey` bound counters; one replacement suffices because nothing compares
more than an old and a new value. What three requests could show that two do not
(a job queued behind a job while a third joins, a waiter that leaves a task two
others share) is the business of the theorems, which hold for any number: they
cover every safety property of every passing run, the three refinements those
runs check included. For liveness the bounds are all there is. A queued restore could be starved by an endless supply of network
requests, which finitely many requests cannot show.

`LiveView` of the coordinator drops the kind of a finalized job and the wish of
a settled caller, which no action reads and no property of that run
distinguishes. Symmetry and views are used only in runs without liveness.

**Finding.** `coordinator_force` checks `ForceNotAnsweredFromCache` with two
instances in the process and finds it violated. A force upgrades the running
normal job when `canShareNetwork()` says a GET is in flight
(`provider/catalog-coordinator.ts:279`); the comment at line 90 means the job's
own GET, but the flag is that of the shared service, so another instance's GET
sets it while the job was answered from the cache.

## 5. Fairness

`FairSpec` is used in `catalog`, `recovery_rounds`, `email`, `mail_session`,
`delegation` and `upload_transport`; the other runs are about safety and use `Spec`.
Continuations of promises and timers run: weak fairness on `Resume`, `Deadline`,
`RoundSettles`, `Timeout`, `Proceed`, `Closes` and the like. A request of the
catalogue ends because it carries a timeout. A request of a recovery round need not
answer, a channel or the host of a selection need not answer and may ignore its
abort, a mail in `Stuck` is never answered, a server need not answer a PUT; the
properties hold nevertheless, because a deadline does not depend on them. No
caller is assumed to abort, and no signal, stop or dispose is assumed to happen.

In `mail_session` the fairness is per account: if some call of the account can
go on for ever, some call of it does. The code justifies it by the time limits of
the connection, 15 s to connect and to be greeted and 60 s without a byte
(`imap-session.ts:45`), after which every await on it ends with an error; the
rest is local. It does not say which call goes on, so a queue that was not
released would still be seen to stop: `EveryCallSettles` says that every queue is
empty in the end and stays so.

## 6. Proofs

`CatalogCoordinatorProofs` proves for any sets of requests and signals, with or
without other instances and callbacks, and any number of stops:

- `Invariant`, from which `TypeCorrect`, `NoWaiterIsLost`, `QueueIsPumped` and
  `MergingRespectsKinds` follow;
- `PreemptionIsSeen` (a refresh the host cancelled is never reported as done) and
  `OnlyRunningDelivers`;
- `CoordinatorImplementsPromises`: every step is a step of `CatalogPromises`.

`NoLostWaiter` is not inductive. If a job outside the slots could still have
waiters, a new request might be added to a job nobody runs; if two slots could
hold the same job, finishing one would leave the other with no waiters. The
inductive invariant `IInv` therefore adds `SlotInv`: the slots hold different,
live, current jobs with waiters; what they do not hold has none; the queues hold
their kind; only the running job has a run. `PreemptionIsSeen` adds that the
first signal a running job has seen is kept (`FirstIsObserved`). The proof has
one lemma per action; `PumpKeepsJobs` is shared by the five actions that free or
fill a slot. The only assumptions are that the names of empty slots and signals
differ from the requests and signals.

`GatewayCatalogProofs` proves `CacheIsSound` (`CacheInv`) and
`LateAnswersAreDropped` (`OnlyTheNewestIsWritten`) for any calls, scopes, files
and clock. That scopes are kept apart needs to know that a request is joined only
within its scope (`SharedInv`, `RequestsInv`); that ages are honest, that whoever
fetched an entry has made its request for good (`EntriesInv`); that late answers
are dropped, that both revision barriers are at least as young as every request
a call has awaited.

`GatewayCatalogServiceProofs` proves `TheSlotIsSound` (`TaskInv`),
`RequestsAreIndependent` (`RequestInv`) and `ListsNeverGoBack`
(`ListsOnlyGetNewer`) for any requests, keys, replacements and saves. Neither
invariant is inductive: that a live fetch is the slot's needs to know in which
phase a task may still be live, and that a force is answered by the network what
its task has already decided. `ServiceInv` adds `TaskOK` (a task is the current
one until it is aborted or settled, is committed once and aborted only if nobody
wants it), `RequestOK` (a request knows a task of its service; a force waits only
for one that fetches) and `ServiceOK` (only the current service has a task and a
list). The proof first says field by field what a step does to a task (the lemmas
`...Effect`), joins the two ways to ask into one relation `Step`, and then has a
lemma per conjunct with a step per action.

`RecoveryProofs` is about the shared round and the instance that takes part in it.
Of the round it proves `OneRoundForAll` (`RoundInv`) and `NobodyLeftIsAsked`
(`RoundSteps`) for any participants and attempts. A round could begin beside one
whose controller is aborted but whose race is open; `RoundsGoOn` says how loop,
controller, race and `finally` follow one another, `RoundsBegin` that the current
round has begun and is not settled, and `MembersWait` that participants are those
who wait in it.

Of the instance (`ProviderSession`) it proves `StatusTrue` (`StatusIsTrue`),
`DirectoryInOrder` (`DirectoryInv`), `LiveContext` (`OnlyTheLiveContext`) and
`OneEnding` (`RecoveryEndsOnce`) for any sessions, keys, calls and commands. They
all compare something now with something remembered across an await, so each
needs to know what the remembered value can still be. `DirOK`: the calls the
directory waits for are exactly the network calls of the present revision, and
what is of the present revision was asked with the present key. `LoopOK`: the
active recovery is that of the session that is on, has not ended before, and is
the only one that pauses between two requests. `CmdOK`: a command whose session
has the present number belongs to the session that is on, because numbers are
never used again. `UiOK`: what is shown is the status now, which every step that
changes the directory has to renew.

`EmailSenderProofs` proves for any mails, outlets and attachments:

- `SenderInvariant` and from it `SenderTypeCorrect`;
- `NotSentIsTrue`: a mail reported as failed or not sent was not delivered, and
  never will be;
- `StopsAreFinal`: nothing is handed to the library after its caller was told an
  outcome, after dispose, or into a closed pool;
- `StopsForCause`: a mail that did not run to its end was stopped by dispose, by
  its own signal, or with its outlet's pool;
- `FilesClose`: a mail that returned leaves no stream or file open;
- `QueueInOrder`, and from it `SendsInOrder` (nobody overtakes on an outlet) and
  `OneAtATime` (of the mails the library has at once only one is waited for, and
  no two share a pool).

`TypeOK` already relates `started` and `op.pool`, and says that the pools in the
map are open. `ResultInv` adds that what a mail was told or is about to be told
agrees with how far it got: "notSent" only without hand-over, "failed" only
after an answer, and no answer contradicts a delivery. `PoolInv` says that a mail
still waited for uses the pool of its outlet and one that is not uses a closed
pool; without it a new pool could be the one a forgotten send still occupies.
`StreamInv` says that a mail which has not begun has no stream, so nothing is
lost when its release skips `execute`.

The order of the queue is not visible in any single tail: each mail knows only
its predecessor, and the map only the last tail. `QueueInv` therefore speaks of
`line`, the order of the calls: a tail with no predecessor, past its wait or
resolved has only resolved tails before it; an unresolved mail before another
one is at or before the tail that one waits for, and at or before the entry of
the map. `OneAtATime` then needs one more induction, over pairs of mails: at a
hand-over the earlier mail's tail has resolved, so it was stopped and its pool
closed, and pools of mails never change afterwards.

`SenderKeepsTheLine` shows with `QueueInv` that the chain of tails is a
`SerialLine`, and `SenderTakesTurns` that therefore `InTurn` holds. A mail sees only
its predecessor's tail; that it then waits for nobody at all (`NobodyAhead`) is
what `TailsInOrder` says. That a new mail starts at once only if nobody is there
rests on the last conjunct of `QueueInv`: an entry stays in the map while any
mail of the outlet has not resolved. All steps but a call, a refusal and a turn
are departures, of no mail, one or many (`LeavesOnly`, `LineKinds`). No run checks
this one, because `email` with files and two outlets already takes minutes:
TLC agrees on three mails of one outlet without files, and the theorem is for any.

`DelegationSelectionProofs` proves `AccountsAreTrue` (`AccountInv`),
`NothingIsInVain` (`NothingInVain`) and `ChoiceFollowsTheRules`
(`ChosenByTheRules`) for any calls, channels, models and scopes. That a usage is
booked once needs to know that whoever books takes the attempt away, that a
channel reports usage with its answer and so once, and that before the result
nothing is tardy: what is in `usage` then is what is owed (`AttemptInv`). After
the result usage may still grow, and the proof shows that it is never booked: the
attempt is gone from the Map, so the message of the call finds nothing (`ReportKeepsAttempt`). That the model follows the rules, that a decision exists only
between the race and its end (`RaceInv`).

`UploadProofs` proves of `Uploader`, for any calls, parts, versions and keys:

- `LockIsExact` (`LockCoversWork`): a version is locked exactly while a call, or
  a tool call that outlived it, is at work on it;
- `NoMixture` (`WholeMeansOneVersion`): no object is made of parts of two
  versions of the file;
- `OneSinglePut` (`SingleIsSentOnce`);
- `UploaderKeepsPromises` (`AnswersArePromises`): every step is a step of
  `UploadPromises`, so "yes" and "no" are true.

The invariant `IInv` has for each call what its place in the program says about
lock, receipt, tool call, bytes and what it may have made (`CallInv`), and what
the service can have (`StoreOK`). The heart is `Spoilt`: parts that were edited
while they were read. They can be in the store, or still under way, and nobody
checks them again. That they never become an object rests on two things: their
version is older than that of the file (`StoreOK`), and a tool call that could
complete them would have to hold that version (`AsksOK`), which the check before
completion excludes for the reader, the lock for everybody else while the reader
is at work, and the newer version for all who come later. A step of a call is
reduced once and for all to what it does to its own state and to the lock
(`LocalStep`), and each action then has a lemma. The proof found a mistake
in the refinement mapping: a call that has not returned, but knows its object is
whole, fell under two cases of `Said`, and which one applies was left to `CASE`;
now nothing is said before the call returns.

Of one PUT (`UploadTransport`) it proves `WholePut`, `QuietReturn`, `TrueCause`
and `ErrorStays` for a part of any size, from an invariant that says for each
place of the main function where pump, request and response can be: it leaves the
race only with an error or with both halves done, and an error is never taken
back.

`MailProofs` proves of `MailSession`, for any calls, accounts, keys and limits:

- `OneOnTheLine` (`LineIsHeldAlone`): of an account one call at a time uses the
  connection, and no idle timer runs under it;
- `NoStaleRead` (`NothingStaleIsServed`): what the cache can serve was asked for
  after the last change of the mailbox that took effect while its call waited,
  and a call with refresh is not served from it;
- `TrueOutcomes` (`OutcomesAreTrue`): a saved attachment is whole, a failed one
  leaves nothing of its own that could be removed and does not touch another's file, and nobody is told
  "empty" of a mail with a part that was not read or was not empty;
- `SessionsKeepTheLine` (`KeepsTheLine`): every step is a step of `SerialLine`, and
  `SessionsTakeTurns`: therefore its `InTurn` holds;
- `TheCacheAddsUp` (`CacheAddsUp`): the byte count is exact, within the limit, and
  zero once the cache is disposed.

`SessionInv` says what a call in the middle of its work relies on. The line is
held alone because who is active is the head of its queue (`LineFits`), and a
call leaves the queue only by settling. That a refreshed part is not in the cache
while its call has still to ask for it (`FreshFits`) needs the line again: only
the call on the line of an account puts parts of that account into the cache,
which is where the assumptions on `Parts` are used. Entries are of the present
(`EntriesFit`) although the cache is emptied once and commands take effect long
after: while a call is at `storing` the cache has no entry of its account
(`ClearedFits`), because whoever could put one there would have to be on the
same line; and a read that is under way has asked in the present epoch
(`AskedFits`), because no command of the account can take effect beside it. Both
fail, and so does the theorem, as soon as a call does not wait for its turn.

The refinement of `SerialLine` needs the queue to be exact (`QueueIsExact`,
theorem `ExactQueue`): with a settled call left in it the next would wait for
somebody who is gone, with one missing two would enter at once, with one twice
`ahead` would hold the call itself. Most of the proof is about sequences: what
appending and taking the head do to the set of elements, to their being once
(`JoinsAtTheEnd`, `FirstLeaves`), and so to `ahead`. The actions of a session are
first reduced to a few kinds of moves (`LineMove`, `OneMoves`): nothing the line
sees, a refusal, a call that joins, one that enters, or the first that leaves. Each
kind is then one action of `SerialLine` (`MoveIsOfTheLine`).

`TheCacheAddsUp` is about sums over sets of entries. The library's induction
theorems take an operator as a parameter, which no installed prover instantiates,
so the proof makes a set of the bad cases and refutes its smallest element
(`Smallest`, `SmallSetsFirst`, `Upwards`). With that the fold of the community
modules is a function (`SumExists`, `SumsAgree`), the sum does not depend on the
order (`BytesLess`) and splits (`BytesSplit`). That the count stays exact is then
one lemma per operation of the cache. That eviction ends within the limit needs
that the order of use is an order (`Ordered`): of the entries that are left one
was used before the others; it was not evicted, so what was evicted with it
fits.

Of `MailMutation` it proves `TrueReport` (`ReportIsTrue`) and `EmptiedFirst`
(`CacheEmptiedFirst`) for any mails and every plan. Truth at the end follows from
what is true of every mail at each place: a change that was not sent has had no
effect, one that was sent has had its own or none (`MailFits`), and a status is
true unless it is still to be looked up (`StepFits`, `Open`). This needs that the
changes of a plan are of different flags (`PlanOK`), which `PlansFit` shows of
every plan `planFor` makes: with equal ones a later change would undo an earlier
one that is reported as a success.

Of `BodyPage` it proves for any text and page size that a page cuts no surrogate
pair and is empty only at the end (`PageIsWhole`), that pages join without a gap
or an overlap (`PagesJoin`), and that whoever follows `nextOffset` from any offset
on reads the whole rest, each unit once (`PagesAreTheRest`), again by the
smallest counterexample, counted from the end of the text.

The assumptions are those named `...Assumption` in the modules; all but bounds
and the shape of `Parts` say that names which stand for "nothing" differ from the
others. Only model-checked are:

- liveness (`EveryCallReturns`, `EveryJoinSettles`, `EverySendReturns`,
  `EverySelectionEnds`, `EveryPutReturns`, `EveryCallSettles`): it needs weak
  fairness, whose ENABLED the prover does not handle. Of the last, the safety
  half is proved: a queue holds nobody who has settled (`ExactQueue`), and its
  head waits for nobody (`SessionsTakeTurns`);
- the disagreement of `coordinator_force`, which is a behaviour, not a theorem.

## 7. Not modelled

Parsing, schemas, texts, and static tables have no state to explore: the
adapters, model tables, vendor strategies, prompts, configuration, and the
syntax of plans, receipts, addresses and headers. `ImageTool`, `SearchControl`
and `AgentInstall` are the modules still to be written; the hazards of the first
and the last are listed in `PROJECT.json` without a property. Of
`provider/index.ts` the rewriting of payloads and headers is left out, of
`uploader.ts` the field `uploadStatus`, of the shared service `retryable` and
the summary. Clock changes, corrupt files beyond "unreadable", and the inner
workings of the mail libraries and of sockets are outside all models.
