------------------------------ MODULE MailSession ------------------------------
(***************************************************************************)
(* The read side of one mail runtime: the queue and the connection of each *)
(* account (email/imap-session.ts), the cache all accounts share           *)
(* (email/cache.ts), the reads that go through both (email/reader.ts,      *)
(* email/body.ts) and the runtime's end (email/runtime.ts, email/tools.ts).*)
(* A mutation is here only as a request that empties the cache and then    *)
(* has commands under way that change the mailbox at any moment until it   *)
(* has their answers or knows that it will have none (MailMutation has the *)
(* rest).                                                                  *)
(*                                                                         *)
(* Servers, files and the clock are external: an await of theirs succeeds  *)
(* or fails at any time, a line drops at any time, entries grow old.       *)
(*                                                                         *)
(* A definition whose name ends in _Bug is the definition after it with a  *)
(* mistake a programmer could make; README.md says which property notices. *)
(***************************************************************************)
EXTENDS Naturals, Sequences, FiniteSetsExt

CONSTANTS
  Reqs,            \* the tool calls, each made at most once
  Accounts, Keys,  \* the accounts; the cache keys
  Account,         \* call |-> the account it is for
  Kind,            \* call |-> "read", "attachment" or "write"
  Parts,           \* call |-> the keys of what it reads, in the order it tries them: a mail's parts
                   \* have different numbers, and a key names its account (message.ts:16-18)
  Refresh,         \* the calls with refresh
  Contents,        \* what a part may be: its bytes and its text, "text", "blank" or "empty"
  MaxEntryBytes, MaxBytes,
  MaxWrites        \* bound: the changes of an account's mailbox

ASSUME ShapeAssumption ==
  /\ Account \in [Reqs -> Accounts] /\ Refresh \subseteq Reqs
  /\ \A r \in Reqs : Kind[r] \in {"read", "attachment", "write"}
  /\ Parts \in [Reqs -> Seq(Keys)]
  /\ \A r \in Reqs : (Kind[r] # "write" => Parts[r] # <<>>) /\ IsInjective(Parts[r])
  /\ \A r, q \in Reqs : Range(Parts[r]) \intersect Range(Parts[q]) # {} => Account[r] = Account[q]
  /\ Contents \subseteq [bytes : Nat \ {0}, text : {"text", "blank", "empty"}]
  /\ MaxEntryBytes \in Nat /\ MaxBytes \in Nat /\ MaxWrites \in Nat

VARIABLES
  closed,          \* ImapSessions.closed
  queue,           \* account |-> the calls that have not settled, oldest first
  client,          \* account |-> its connection
  timer,           \* the accounts whose idle timer runs
  aborted,         \* calls whose signal is aborted
  pc,              \* call |-> where it is
  at,              \* call |-> which of its parts it is at
  hit,             \* attachment calls that have their content from the cache
  bad,             \* body reads with a part that is not empty, or not known to be
  file,            \* call |-> the file at its path
  foreign,         \* the calls at whose path another program has put a file (ghost)
  cache,           \* key |-> entry, and usedBytes
  asked,           \* call |-> the changes there were when it asked the server for a part (ghost)
  epoch            \* account |-> the changes of its mailbox so far (ghost)

sessionVars == <<closed, queue, client, timer>>
vars == <<sessionVars, aborted, pc, at, hit, bad, file, foreign, cache, asked, epoch>>

Active   == {"connecting", "locking", "choosing", "reading", "structure", "opening",
             "downloading", "closing", "writing", "storing"}
Head1(r) == queue[Account[r]] # <<>> /\ Head(queue[Account[r]]) = r
Key(r)   == Parts[r][at[r]]

Init ==
  /\ closed = FALSE
  /\ queue = [a \in Accounts |-> <<>>] /\ client = [a \in Accounts |-> "none"] /\ timer = {}
  /\ aborted = {} /\ pc = [r \in Reqs |-> "new"] /\ at = [r \in Reqs |-> 1]
  /\ hit = {} /\ bad = {}
  /\ file = [r \in Reqs |-> "absent"] /\ foreign = {}
  /\ cache = [entries |-> [k \in {} |-> {}], used |-> 0, on |-> TRUE]
  /\ asked = [r \in Reqs |-> 0] /\ epoch = [a \in Accounts |-> 0]

-----------------------------------------------------------------------------
(* cache.ts: the Map, whose order is the order of use: of an entry, `later` *)
(* are the keys that were used after it.                                   *)

Held(c)      == DOMAIN c.entries
Bytes(c, ks) == MapThenSumSet(LAMBDA k : c.entries[k].bytes, ks)
Kept(c, ks)  == [k \in ks |-> [c.entries[k] EXCEPT !.later = @ \intersect ks]]

Without_Bug(c, ks) == [c EXCEPT !.entries = Kept(c, Held(c) \ ks)]

\* delete(), of each of the keys: the entries and their bytes.
Without(c, ks) ==
  [c EXCEPT !.entries = Kept(c, Held(c) \ ks), !.used = @ - Bytes(c, Held(c) \intersect ks)]

\* The entry becomes the most recently used.
Latest(c, k, entry) ==
  [j \in Held(c) \union {k} |->
     IF j = k THEN [entry EXCEPT !.later = {}] ELSE [c.entries[j] EXCEPT !.later = @ \union {k}]]

\* sweepExpired(), and the eviction loop of set(): what was used first goes first.
Swept(c)         == Without(c, {k \in Held(c) : c.entries[k].old})
Before(c, k)     == {j \in Held(c) : k \in c.entries[j].later}
Evicted(c, room) == Without(c, {k \in Held(c) : c.used - Bytes(c, Before(c, k)) + room > MaxBytes})

\* set(): an entry that is too large replaces the old one by nothing.
Put(c, k, content, when) ==
  LET bytes == content.bytes
      rest  == Without(c, {k})
      swept == IF rest.used + bytes > MaxBytes THEN Swept(rest) ELSE rest
      room  == Evicted(swept, bytes)
      entry == [bytes |-> bytes, text |-> content.text, old |-> FALSE, epoch |-> when, later |-> {}]
  IN IF ~c.on THEN c
     ELSE IF bytes > MaxEntryBytes \/ bytes > MaxBytes THEN rest
     ELSE [room EXCEPT !.entries = Latest(room, k, entry), !.used = @ + bytes]

\* get(): an old entry is dropped, a good one becomes the most recently used.
Live(c, k) == k \in Held(c) /\ ~c.entries[k].old
Got(c, k)  == IF Live(c, k) THEN [c EXCEPT !.entries = Latest(c, k, c.entries[k])] ELSE Without(c, {k})

Emptied(c) == [c EXCEPT !.entries = Kept(c, {}), !.used = 0]

WithoutParts(c, r) == Without(c, Range(Parts[r]))

-----------------------------------------------------------------------------
(* imap-session.ts: the queue of an account *)

Goto(r, p) == pc' = [pc EXCEPT ![r] = p]

\* A call of a closed runtime is refused; the others queue.
Call(r) ==
  /\ pc[r] = "new"
  /\ IF closed THEN Goto(r, "error") /\ UNCHANGED queue
     ELSE Goto(r, "queued") /\ queue' = [queue EXCEPT ![Account[r]] = Append(@, r)]
  /\ UNCHANGED <<closed, client, timer, aborted, at, hit, bad, file, foreign, cache, asked, epoch>>

Released_Bug(r, how) ==
  IF how = "error" THEN queue ELSE [queue EXCEPT ![Account[r]] = Tail(@)]

\* current.queue = task.then(.., ..): the next call may begin, whatever the outcome.
Released(r, how) == [queue EXCEPT ![Account[r]] = Tail(@)]

\* A queued call whose turn comes after the end of the runtime, or that was cancelled
\* while it waited, does nothing.
TurnedAway(r) ==
  /\ pc[r] = "queued" /\ Head1(r) /\ (closed \/ r \in aborted)
  /\ Goto(r, "error") /\ queue' = Released(r, "error") /\ aborted' = aborted \ {r}
  /\ UNCHANGED <<closed, client, timer, at, hit, bad, file, foreign, cache, asked, epoch>>

MyTurn_Bug(r) == TRUE
MyTurn(r) == Head1(r)

Disarmed_Bug(a) == timer
Disarmed(a) == timer \ {a}

\* Its turn: the idle timer is cleared, and a line that is not usable replaced.
Begin(r) ==
  LET a == Account[r] IN
  /\ pc[r] = "queued" /\ MyTurn(r) /\ ~closed /\ r \notin aborted
  /\ timer' = Disarmed(a)
  /\ client' = [client EXCEPT ![a] = IF @ = "usable" THEN @ ELSE "new"]
  /\ Goto(r, "connecting")
  /\ UNCHANGED <<closed, queue, aborted, at, hit, bad, file, foreign, cache, asked, epoch>>

\* The finally of run(): whatever happened, the next call may begin and, unless
\* the runtime is over, the line may be kept for a while.
SettlesBody(r, how, wrong) ==
  /\ Goto(r, how)
  /\ queue' = Released(r, how)
  /\ timer' = IF closed THEN timer ELSE timer \union {Account[r]}
  /\ aborted' = aborted \ {r} /\ at' = [at EXCEPT ![r] = 1] /\ hit' = hit \ {r}
  /\ asked' = [asked EXCEPT ![r] = 0]
  /\ bad' = IF wrong /\ how = "empty" THEN bad \union {r} ELSE bad \ {r}
  /\ UNCHANGED <<closed, client>>

Settles(r, how) == SettlesBody(r, how, FALSE)

\* connect() and getMailboxLock(); a call cancelled meanwhile does no more.
Connected(r) ==
  LET a == Account[r] IN
  /\ pc[r] = "connecting" /\ client[a] \in {"new", "usable"}
  /\ client' = [client EXCEPT ![a] = "usable"]
  /\ Goto(r, "locking")
  /\ UNCHANGED <<closed, queue, timer, aborted, at, hit, bad, file, foreign, cache, asked, epoch>>

FirstStep(r) == CASE Kind[r] = "attachment" -> "structure"
                  [] Kind[r] = "write" -> "writing"
                  [] OTHER -> "choosing"

\* The action begins: what it is to refresh leaves the cache.
Locked(r) ==
  /\ pc[r] = "locking" /\ r \notin aborted
  /\ Goto(r, FirstStep(r))
  /\ cache' = IF r \in Refresh THEN WithoutParts(cache, r) ELSE cache
  /\ UNCHANGED <<sessionVars, aborted, at, hit, bad, file, foreign, asked, epoch>>

\* Any await before the file is opened may fail: the call fails with it.
Fails(r) ==
  /\ pc[r] \in {"connecting", "locking", "structure", "opening", "writing"}
       \/ (pc[r] = "reading" /\ r \in aborted)
  /\ Settles(r, "error")
  /\ UNCHANGED <<file, foreign, cache, epoch>>

\* The timer of an idle account fires; a line drops.
Idle(a) ==
  /\ a \in timer
  /\ timer' = timer \ {a} /\ client' = [client EXCEPT ![a] = "none"]
  /\ UNCHANGED <<closed, queue, aborted, pc, at, hit, bad, file, foreign, cache, asked, epoch>>

Drop(a) ==
  /\ client[a] = "usable"
  /\ client' = [client EXCEPT ![a] = "closed"]
  /\ UNCHANGED <<closed, queue, timer, aborted, pc, at, hit, bad, file, foreign, cache, asked, epoch>>

\* A call is cancelled: the line it runs on is closed.
Abort(r) ==
  /\ r \notin aborted /\ pc[r] \in Active \union {"queued"}
  /\ aborted' = aborted \union {r}
  /\ client' = IF pc[r] = "queued" THEN client ELSE [client EXCEPT ![Account[r]] = "closed"]
  /\ UNCHANGED <<closed, queue, timer, pc, at, hit, bad, file, foreign, cache, asked, epoch>>

\* EmailRuntime.dispose(): the lines are closed, the cache is emptied for good.
Dispose ==
  /\ ~closed
  /\ closed' = TRUE /\ timer' = {}
  /\ client' = [a \in Accounts |-> IF client[a] = "none" THEN "none" ELSE "closed"]
  /\ cache' = [Emptied(cache) EXCEPT !.on = FALSE]
  /\ UNCHANGED <<queue, aborted, pc, at, hit, bad, file, foreign, asked, epoch>>

-----------------------------------------------------------------------------
(* reader.ts and body.ts: the versions of a body one by one. The headers of a mail are *)
(* read like a body of one version (and fail where a body is called unreadable).      *)


\* After the last part: "empty" only where every part was read and was empty.
BodyVerdict(r, wrong) == IF wrong THEN {"unreadable"} ELSE {"empty", "unreadable"}

\* What follows from a part: of a body without a text, the next part is tried.
Follows(r, text) ==
  LET wrong == r \in bad \/ text \in {"blank", "wrong"} IN
  IF text = "text" THEN Settles(r, "ok")
  ELSE IF at[r] = Len(Parts[r]) THEN \E verdict \in BodyVerdict(r, wrong) : SettlesBody(r, verdict, wrong)
  ELSE /\ at' = [at EXCEPT ![r] = @ + 1] /\ Goto(r, "choosing")
       /\ bad' = IF wrong THEN bad \union {r} ELSE bad
       /\ UNCHANGED <<sessionVars, aborted, hit, asked>>

\* The server is asked: what it answers is the mailbox of now, or a newer one.
Asks(r) == asked' = [asked EXCEPT ![r] = epoch[Account[r]]]

\* From the cache, or the part is asked for.
Choose(r) ==
  /\ pc[r] = "choosing"
  /\ IF Live(cache, Key(r)) THEN Follows(r, cache.entries[Key(r)].text)
     ELSE Goto(r, "reading") /\ Asks(r) /\ UNCHANGED <<sessionVars, aborted, at, hit, bad>>
  /\ cache' = Got(cache, Key(r))
  /\ UNCHANGED <<file, foreign, epoch>>

\* The part is complete: it is kept, whatever its text, as what it was when it was asked for.
PartRead(r, content) ==
  /\ pc[r] = "reading" /\ r \notin aborted
  /\ Follows(r, content.text)
  /\ cache' = Put(cache, Key(r), content, asked[r])
  /\ UNCHANGED <<file, foreign, epoch>>

\* A part of a body that cannot be read, or is too large, is not kept.
NotRead(r) ==
  /\ pc[r] = "reading" /\ r \notin aborted
  /\ Follows(r, "wrong")
  /\ UNCHANGED <<file, foreign, cache, epoch>>

-----------------------------------------------------------------------------
(* reader.ts: an attachment, and the file it goes to *)

\* The structure is right: the cache is asked, then the file is created.
Structure(r) ==
  /\ pc[r] = "structure"
  /\ hit' = IF Live(cache, Key(r)) THEN hit \union {r} ELSE hit
  /\ Goto(r, "opening")
  /\ cache' = Got(cache, Key(r))
  /\ UNCHANGED <<sessionVars, aborted, at, bad, file, foreign, asked, epoch>>

\* open(path, "wx") creates the file or, if there is one, fails without touching it; what
\* is not in the cache is asked for.
Opened(r) ==
  /\ pc[r] = "opening" /\ file[r] = "absent"
  /\ file' = [file EXCEPT ![r] = "partial"]
  /\ Goto(r, "downloading") /\ Asks(r)
  /\ UNCHANGED <<sessionVars, aborted, at, hit, bad, foreign, cache, epoch>>

\* Another program puts a file there first.
Appears(r) ==
  /\ Kind[r] = "attachment" /\ pc[r] = "opening" /\ file[r] = "absent"
  /\ file' = [file EXCEPT ![r] = "foreign"] /\ foreign' = foreign \union {r}
  /\ UNCHANGED <<sessionVars, aborted, pc, at, hit, bad, cache, asked, epoch>>

\* The content is in the file; what came from the server is kept if it is not too large.
Downloaded(r, content) ==
  /\ pc[r] = "downloading" /\ r \notin aborted
  /\ file' = [file EXCEPT ![r] = "whole"]
  /\ cache' = IF r \in hit THEN cache ELSE Put(cache, Key(r), content, asked[r])
  /\ Goto(r, "closing")
  /\ UNCHANGED <<sessionVars, aborted, at, hit, bad, foreign, asked, epoch>>

Saved(r) ==
  /\ pc[r] = "closing" /\ r \notin aborted
  /\ Settles(r, "ok")
  /\ UNCHANGED <<file, foreign, cache, epoch>>

Discarded_Bug(r) == IF pc[r] = "downloading" THEN "absent" ELSE file[r]
Discarded(r) == "absent"

\* Not complete: the file this call created is removed, or left if the file system refuses.
NotSaved(r) ==
  /\ pc[r] \in {"downloading", "closing"}
  /\ \E rest \in {Discarded(r), "left"} : file' = [file EXCEPT ![r] = rest]
  /\ Settles(r, "error")
  /\ UNCHANGED <<foreign, cache, epoch>>

-----------------------------------------------------------------------------
(* A mutation, as far as the cache and the queue see it *)

\* Everything was refused before a command was sent: the mails are not there any more, the
\* call was cancelled or the line is closed. The call reports so.
NotWritten(r) ==
  /\ pc[r] = "writing"
  /\ Settles(r, "ok")
  /\ UNCHANGED <<file, foreign, cache, epoch>>

\* The cache is emptied, and the first command is sent.
Write(r) ==
  /\ pc[r] = "writing" /\ r \notin aborted /\ client[Account[r]] = "usable"
  /\ cache' = Emptied(cache)
  /\ Goto(r, "storing")
  /\ UNCHANGED <<sessionVars, aborted, at, hit, bad, file, foreign, asked, epoch>>

\* A command takes effect while the call waits for it; a STORE and a MOVE do so one by one.
Lands(r) ==
  LET a == Account[r] IN
  /\ pc[r] = "storing" /\ epoch[a] < MaxWrites
  /\ epoch' = [epoch EXCEPT ![a] = @ + 1]
  /\ UNCHANGED <<sessionVars, aborted, pc, at, hit, bad, file, foreign, cache, asked>>

\* The last answer is there, or there will be none: either way the call reports its steps.
Written(r) ==
  /\ pc[r] = "storing"
  /\ Settles(r, "ok")
  /\ UNCHANGED <<file, foreign, cache, epoch>>

\* Time passes for an entry; the sweep runs every minute.
GrowOld(k) ==
  /\ Live(cache, k)
  /\ cache' = [cache EXCEPT !.entries[k].old = TRUE]
  /\ UNCHANGED <<sessionVars, aborted, pc, at, hit, bad, file, foreign, asked, epoch>>

Sweep ==
  /\ cache.on
  /\ cache' = Swept(cache)
  /\ UNCHANGED <<sessionVars, aborted, pc, at, hit, bad, file, foreign, asked, epoch>>

Continue(r) ==
  \/ TurnedAway(r) \/ Begin(r) \/ Connected(r) \/ Locked(r) \/ Fails(r)
  \/ Choose(r) \/ NotRead(r) \/ Structure(r) \/ Opened(r) \/ Saved(r) \/ NotSaved(r)
  \/ NotWritten(r) \/ Write(r) \/ Written(r)
  \/ \E content \in Contents : PartRead(r, content) \/ Downloaded(r, content)

Next ==
  \/ \E r \in Reqs : Call(r) \/ Continue(r) \/ Abort(r) \/ Appears(r) \/ Lands(r)
  \/ \E a \in Accounts : Idle(a) \/ Drop(a)
  \/ Dispose \/ Sweep
  \/ \E k \in Keys : GrowOld(k)

Spec == Init /\ [][Next]_vars

\* Every await of a call ends: connections have time limits for every phase
\* (imap-session.ts:45), the rest is local.
FairSpec == Spec /\ \A a \in Accounts : WF_vars(\E r \in Reqs : Account[r] = a /\ Continue(r))

-----------------------------------------------------------------------------
(* Properties *)

\* usedBytes is the sum of the entries and never over the budget, after every replacement,
\* eviction, expiry and sweep, and a cache that was disposed of stays empty (cache.ts:36-93).
CacheAddsUp ==
  /\ cache.used = Bytes(cache, Held(cache)) /\ cache.used <= MaxBytes
  /\ ~cache.on => Held(cache) = {}

\* Of an account one call at a time uses the connection, and no idle timer runs
\* meanwhile that would close it under the call (imap-session.ts:32-75).
LineIsHeldAlone ==
  \A a \in Accounts :
    LET using == {r \in Reqs : Account[r] = a /\ pc[r] \in Active} IN
    Cardinality(using) <= 1 /\ (using # {} => a \notin timer)

\* What the cache can serve was asked for after the last change of the account's mailbox:
\* the cache is emptied before the first command only, so no read may be under way that
\* would bring back what it was, and none may begin, until the last command has its answer
\* (mutations.ts:97-192, 242-291; body.ts:68-97; reader.ts:93-112). A command that takes
\* effect after its call gave up waiting is not counted: the process cannot know of it.
\* And nothing is served from the cache to a call with refresh (reader.ts:58-59, 82-91).
NothingStaleIsServed ==
  /\ \A r \in Refresh : pc[r] \in {"choosing", "structure"} => ~Live(cache, Key(r))
  /\ \A k \in Held(cache), r \in Reqs :
       k \in Range(Parts[r]) => cache.entries[k].epoch = epoch[Account[r]]

\* What a call reports is true. One that succeeded leaves the whole file, one that failed
\* none of its own unless the file system will not remove it, and a file that was there before is never touched (reader.ts:92-123);
\* nobody is told that a mail is empty when a version of it could not be read or was not
\* empty (body.ts:118-167).
OutcomesAreTrue ==
  \A r \in Reqs :
    /\ r \in foreign => file[r] = "foreign"
    /\ pc[r] = "ok" /\ Kind[r] = "attachment" => file[r] = "whole"
    /\ pc[r] = "error" => file[r] \in {"absent", "left", "foreign"}
    /\ pc[r] = "empty" => r \notin bad

\* The queue of an account holds the calls of the account that have not settled, each once:
\* none is lost that somebody waits for, none stays that would be waited for for ever
\* (imap-session.ts:31-33, 74).
Unsettled(a) == {r \in Reqs : Account[r] = a /\ pc[r] \in Active \union {"queued"}}
QueueIsExact ==
  \A a \in Accounts :
    /\ \A i, j \in DOMAIN queue[a] : queue[a][i] = queue[a][j] => i = j
    /\ {queue[a][i] : i \in DOMAIN queue[a]} = Unsettled(a)

\* The place of a call, and the calls that are before it in its queue.
Standing(r) ==
  CASE pc[r] = "new" -> "new" [] pc[r] = "queued" -> "waiting"
    [] pc[r] \in Active -> "using" [] OTHER -> "gone"
Preceding(s, x) == {s[i] : i \in {k \in DOMAIN s : \E j \in DOMAIN s : k < j /\ s[j] = x}}

Line == INSTANCE SerialLine WITH
  Users <- Reqs, ResourceOf <- Account,
  st <- [r \in Reqs |-> Standing(r)], ahead <- [r \in Reqs |-> Preceding(queue[Account[r]], r)]

\* The calls of an account take turns in the order in which they came, whatever fails, is
\* cancelled or closed (imap-session.ts:32-75).
KeepsTheLine == Line!Spec

\* Every call settles: one that failed, was cancelled or came too late does not stop the
\* calls behind it (imap-session.ts:74). Each call is made at most once, so in the end
\* nobody is left in a queue.
EveryCallSettles == \A a \in Accounts : <>[](queue[a] = <<>>)
=============================================================================
