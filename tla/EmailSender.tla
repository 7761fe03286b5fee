----------------------------- MODULE EmailSender -----------------------------
(***************************************************************************)
(* The mail sender of a session (email/smtp.ts): one queue and one pool of *)
(* the mail library per SMTP outlet, cancellation and dispose.             *)
(*                                                                         *)
(* A mail is one call of send.  A pool is known by the mail that created   *)
(* it.  The library and the mail server are the environment: the library   *)
(* may deliver a mail at any time until it answers, also after its pool    *)
(* was closed.                                                             *)
(***************************************************************************)
EXTENDS Integers, Sequences

CONSTANTS
  Mails,           \* the calls of send, each made once
  Outlets,
  OutletOf,        \* mail |-> its outlet
  Files,           \* mail |-> the number of its attachments
  Replies,         \* the mails that read a thread first
  Stuck,           \* the mails the library never answers
  Outcomes,        \* how it answers the others
  None

Answers == {"success", "partial", "failed", "unknown"}   \* of the library
Results == Answers \cup {"notSent"}                      \* of send

ASSUME SenderAssumption ==
  /\ OutletOf \in [Mails -> Outlets]
  /\ Files \in [Mails -> Nat]
  /\ Replies \subseteq Mails
  /\ Stuck \subseteq Mails
  /\ Outcomes \subseteq Answers
  /\ None \notin Mails \cup Results

VARIABLES
  disposed,
  pools,           \* outlet |-> its pool, None if there is none
  pending,         \* outlet |-> the mail whose tail is last, None if there is none
  pc,              \* mail |-> where its send and execute are
  result,          \* mail |-> what send returned, None while it has not
  ret,             \* mail |-> what execute returned, None before
  prev,            \* mail |-> the mail whose tail it waits for, None if none
  resolved,        \* the mails whose tail has resolved
  pool,            \* mail |-> op.pool
  started,         \* the mails handed to the library
  held,            \* the mails with a file that is open and has no stream yet
  streams,         \* mail |-> its streams that are not destroyed
  signalled,       \* the mails whose signal was aborted
  closed,          \* the pools that were closed
  delivered,       \* the mails the server accepted
  line             \* the mails in the order of their calls (only observed)

sender  == <<disposed, pools, pending, closed>>
queue   == <<prev, resolved, line>>
sending == <<pool, started, held, streams>>
vars    == <<sender, queue, sending, pc, result, ret, signalled, delivered>>

Stopped(m) == result[m] # None
Operations == {m \in Mails : pc[m] \notin {"new", "refused"} /\ ~Stopped(m)}

Init ==
  /\ disposed = FALSE
  /\ pools = [o \in Outlets |-> None]
  /\ pending = [o \in Outlets |-> None]
  /\ pc = [m \in Mails |-> "new"]
  /\ result = [m \in Mails |-> None]
  /\ ret = [m \in Mails |-> None]
  /\ prev = [m \in Mails |-> None]
  /\ resolved = {}
  /\ pool = [m \in Mails |-> None]
  /\ started = {}
  /\ held = {}
  /\ streams = [m \in Mails |-> 0]
  /\ signalled = {}
  /\ closed = {}
  /\ delivered = {}
  /\ line = <<>>

-----------------------------------------------------------------------------
(* finish and stop for a set of operations: each returns once, destroys     *)
(* its streams and releases its place in the queue.                         *)

StopResult_Bug(m) == "notSent"
StopResult(m) == IF m \in started THEN "unknown" ELSE "notSent"

Stop(ops) ==
  /\ result' = [m \in Mails |-> IF m \in ops THEN StopResult(m) ELSE result[m]]
  /\ streams' = [m \in Mails |-> IF m \in ops THEN 0 ELSE streams[m]]

\* What closePool leaves in the map, and the operations it stops.
Without_Bug(p) == pools
Without(p) == [o \in Outlets |-> IF pools[o] = p THEN None ELSE pools[o]]
OnOutlet(o) == {m \in Operations : OutletOf[m] = o}

-----------------------------------------------------------------------------
(* execute *)

Returns(m, r) ==
  /\ pc' = [pc EXCEPT ![m] = "returning"]
  /\ ret' = [ret EXCEPT ![m] = r]

\* The mail is handed to the library; the factory of a new pool may fail.
HandOver(m) ==
  LET o == OutletOf[m]
      p == IF pools[o] = None THEN m ELSE pools[o] IN
  \/ /\ pools[o] = None
     /\ Returns(m, "notSent")
     /\ UNCHANGED <<pools, pool, started>>
  \/ /\ pools' = [pools EXCEPT ![o] = p]
     /\ pool' = [pool EXCEPT ![m] = p]
     /\ started' = started \cup {m}
     /\ pc' = [pc EXCEPT ![m] = "sending"]
     /\ UNCHANGED ret

MustGiveUp(m) == Stopped(m) \/ disposed

\* The next attachment, or the hand-over once n of them have a stream.
Proceed(m, n) ==
  \/ /\ n < Files[m]
     /\ pc' = [pc EXCEPT ![m] = "open"]
     /\ UNCHANGED <<ret, pools, pool, started>>
  \/ /\ n >= Files[m]
     /\ MustGiveUp(m)
     /\ Returns(m, "notSent")
     /\ UNCHANGED <<pools, pool, started>>
  \/ /\ n >= Files[m]
     /\ ~MustGiveUp(m)
     /\ HandOver(m)

\* The first part of execute, up to its first await.
Begin(m) ==
  \/ /\ m \in Replies
     /\ pc' = [pc EXCEPT ![m] = "thread"]
     /\ UNCHANGED <<ret, pools, pool, started>>
  \/ /\ m \notin Replies
     /\ Proceed(m, 0)

GiveUp(m) == Returns(m, "notSent") /\ UNCHANGED <<pools, pool, started>>

ThreadRead(m, ok) ==
  /\ pc[m] = "thread"
  /\ IF ok /\ ~Stopped(m) THEN Proceed(m, 0) ELSE GiveUp(m)
  /\ UNCHANGED <<disposed, pending, closed, queue, held, streams, result,
                 signalled, delivered>>

FileOpened(m, ok) ==
  /\ pc[m] = "open"
  /\ \/ /\ ok /\ ~Stopped(m)
        /\ pc' = [pc EXCEPT ![m] = "stat"]
        /\ held' = held \cup {m}
        /\ UNCHANGED <<ret, pools, pool, started>>
     \/ /\ ~(ok /\ ~Stopped(m))       \* an open file is closed at once
        /\ GiveUp(m)
        /\ UNCHANGED held
  /\ UNCHANGED <<disposed, pending, closed, queue, streams, result, signalled,
                 delivered>>

\* May the file become a stream of the operation?
Attaches(m, isFile) == isFile /\ ~Stopped(m)

FileChecked(m, isFile) ==
  /\ pc[m] = "stat"
  /\ held' = held \ {m}
  /\ \/ /\ Attaches(m, isFile)
        /\ streams' = [streams EXCEPT ![m] = @ + 1]
        /\ Proceed(m, streams[m] + 1)
     \/ /\ ~Attaches(m, isFile)
        /\ GiveUp(m)
        /\ UNCHANGED streams
  /\ UNCHANGED <<disposed, pending, closed, queue, result, signalled, delivered>>

-----------------------------------------------------------------------------
(* The library and the server *)

Deliver(m) ==
  /\ pc[m] = "sending" /\ m \notin delivered
  /\ delivered' = delivered \cup {m}
  /\ UNCHANGED <<sender, queue, sending, pc, result, ret, signalled>>

\* An answer tells the truth; "unknown" is the connection lost after DATA.
Answer(m, a) ==
  /\ pc[m] = "sending" /\ m \notin Stuck
  /\ a \in {"success", "partial"} => m \in delivered
  /\ a = "failed" => m \notin delivered
  /\ Returns(m, a)
  /\ UNCHANGED <<sender, queue, sending, result, signalled, delivered>>

-----------------------------------------------------------------------------
(* send *)

\* The arguments or the configuration refuse the mail.
Refuse(m) ==
  /\ pc[m] = "new"
  /\ pc' = [pc EXCEPT ![m] = "refused"]
  /\ result' = [result EXCEPT ![m] = "notSent"]
  /\ UNCHANGED <<sender, queue, sending, ret, signalled, delivered>>

Send(m) ==
  LET o == OutletOf[m] IN
  /\ pc[m] = "new" /\ ~disposed /\ m \notin signalled
  /\ prev' = [prev EXCEPT ![m] = pending[o]]
  /\ pending' = [pending EXCEPT ![o] = m]
  /\ line' = Append(line, m)
  /\ \/ /\ pending[o] = None
        /\ Begin(m)
     \/ /\ pending[o] # None
        /\ pc' = [pc EXCEPT ![m] = "queued"]
        /\ UNCHANGED <<ret, pools, pool, started>>
  /\ UNCHANGED <<disposed, closed, resolved, held, streams, result, signalled,
                 delivered>>

\* A tail resolves when the operation was released and the tail before it
\* has resolved; the entry of the map goes with it.
TailReleased_Bug(m) == pc[m] = "done" /\ (prev[m] = None \/ prev[m] \in resolved)
TailReady(m) == Stopped(m) /\ (prev[m] = None \/ prev[m] \in resolved)

Unqueued(o, m) == IF pending[o] = m THEN None ELSE pending[o]

TailResolves(m) ==
  LET o == OutletOf[m] IN
  /\ pc[m] \notin {"new", "refused"} /\ m \notin resolved
  /\ TailReady(m)
  /\ resolved' = resolved \cup {m}
  /\ pending' = [pending EXCEPT ![o] = Unqueued(o, m)]
  /\ UNCHANGED <<disposed, pools, closed, prev, line, sending, pc, result, ret,
                 signalled, delivered>>

Execute(m) ==
  /\ pc[m] = "queued" /\ prev[m] \in resolved
  /\ \/ /\ Stopped(m)
        /\ pc' = [pc EXCEPT ![m] = "done"]
        /\ UNCHANGED <<ret, pools, pool, started>>
     \/ /\ ~Stopped(m)
        /\ Begin(m)
  /\ UNCHANGED <<disposed, pending, closed, queue, held, streams, result,
                 signalled, delivered>>

Finish(m) ==
  /\ pc[m] = "returning"
  /\ pc' = [pc EXCEPT ![m] = "done"]
  /\ \/ /\ Stopped(m)
        /\ UNCHANGED <<result, streams>>
     \/ /\ ~Stopped(m)
        /\ result' = [result EXCEPT ![m] = ret[m]]
        /\ streams' = [streams EXCEPT ![m] = 0]
  /\ UNCHANGED <<sender, queue, pool, started, held, ret, signalled, delivered>>

-----------------------------------------------------------------------------
(* Cancellation and dispose *)

\* The mails an abort stops: all of the outlet once the mail has a pool.
Cancelled(m) == IF pool[m] # None THEN OnOutlet(OutletOf[m]) ELSE {m}

Abort(m) ==
  /\ m \notin signalled
  /\ signalled' = signalled \cup {m}
  /\ \/ /\ m \in Operations
        /\ Stop(Cancelled(m))
        /\ pools' = IF pool[m] # None THEN Without(pool[m]) ELSE pools
        /\ closed' = IF pool[m] # None THEN closed \cup {pool[m]} ELSE closed
     \/ /\ m \notin Operations
        /\ UNCHANGED <<result, streams, pools, closed>>
  /\ UNCHANGED <<disposed, pending, queue, pool, started, held, pc, ret, delivered>>

Dispose ==
  /\ ~disposed
  /\ disposed' = TRUE
  /\ pools' = [o \in Outlets |-> None]
  /\ closed' = closed \cup {pools[o] : o \in {x \in Outlets : pools[x] # None}}
  /\ Stop(Operations)
  /\ UNCHANGED <<pending, queue, pool, started, held, pc, ret, signalled, delivered>>

-----------------------------------------------------------------------------
Step(m) ==
  \/ \E ok \in BOOLEAN : ThreadRead(m, ok) \/ FileOpened(m, ok) \/ FileChecked(m, ok)
  \/ \E a \in Outcomes : Answer(m, a)
  \/ TailResolves(m) \/ Execute(m) \/ Finish(m)

Next ==
  \/ \E m \in Mails : Step(m) \/ Refuse(m) \/ Send(m) \/ Deliver(m) \/ Abort(m)
  \/ Dispose

Spec == Init /\ [][Next]_vars

\* Every await ends: the thread is read with time limits, files are opened
\* without blocking, the library has time limits for every phase.
FairSpec == Spec /\ \A m \in Mails : WF_vars(Step(m))

-----------------------------------------------------------------------------
(* Properties *)

Points == {"new", "refused", "queued", "thread", "open", "stat", "sending",
           "returning", "done"}

\* The shape of the state; a mail has a pool exactly when it was handed over,
\* and the pool of an outlet has not been closed.
TypeOK ==
  /\ disposed \in BOOLEAN
  /\ pools \in [Outlets -> Mails \cup {None}]
  /\ pending \in [Outlets -> Mails \cup {None}]
  /\ pc \in [Mails -> Points]
  /\ result \in [Mails -> Results \cup {None}]
  /\ ret \in [Mails -> Results \cup {None}]
  /\ prev \in [Mails -> Mails \cup {None}]
  /\ resolved \subseteq Mails
  /\ pool \in [Mails -> Mails \cup {None}]
  /\ started = {m \in Mails : pool[m] # None}
  /\ held = {m \in Mails : pc[m] = "stat"}
  /\ streams \in [Mails -> Nat]
  /\ signalled \subseteq Mails
  /\ closed \subseteq Mails
  /\ delivered \subseteq started
  /\ \A o \in Outlets : pools[o] # None => pools[o] \notin closed
  /\ disposed => Operations = {}

\* A mail that was reported as failed or as not sent was not and will not be
\* delivered, whenever the cancellation came (stop, 183-187: "unknown" once
\* the library has it).
NotSentMeansNotSent ==
  \A m \in Mails : result[m] \in {"notSent", "failed"} => m \notin delivered

\* The library is given one mail of an outlet at a time (105: nothing is put
\* in its unobservable queue): two sends under way use different pools, and
\* only one of them still has a caller that waits.
OneSendPerOutlet ==
  \A m, n \in Mails :
    /\ m # n /\ OutletOf[m] = OutletOf[n]
    /\ pc[m] = "sending" /\ pc[n] = "sending"
    => pool[m] # pool[n] /\ (Stopped(m) \/ Stopped(n))

\* Mails of an outlet are prepared and sent in the order of their calls, also
\* when one between them was cancelled (107): whoever has begun has only
\* returned mails before it.
NoOvertaking ==
  \A i, j \in DOMAIN line :
    /\ i < j /\ OutletOf[line[i]] = OutletOf[line[j]]
    /\ pc[line[j]] \in {"thread", "open", "stat", "sending"}
    => Stopped(line[i])

\* The place of a mail, and the mails before it on its outlet that have not returned.
Standing(m) ==
  IF pc[m] = "new" THEN "new"
  ELSE IF m \notin Operations THEN "gone"
  ELSE IF pc[m] = "queued" THEN "waiting" ELSE "using"
Preceding(m) ==
  {n \in Operations :
     /\ m \in Operations /\ OutletOf[n] = OutletOf[m]
     /\ \E i, j \in DOMAIN line : i < j /\ line[i] = n /\ line[j] = m}

Line == INSTANCE SerialLine WITH
  Users <- Mails, ResourceOf <- OutletOf,
  st <- [m \in Mails |-> Standing(m)], ahead <- [m \in Mails |-> Preceding(m)]

\* The mails of an outlet take turns in the order of their calls, and whoever returns, done,
\* cancelled or disposed of, is waited for no more (105-119, 189-201).
KeepsTheLine == Line!Spec

\* A mail that returned leaves no stream open, and a file is closed or turned
\* into a stream before execute goes on (141-155, 93).
FilesAreClosed ==
  \A m \in Mails : (Stopped(m) => streams[m] = 0) /\ (pc[m] = "done" => m \notin held)

\* Nothing is handed to the library for a caller that was told the outcome,
\* after dispose, or into a pool that was closed.
NoSendAfterStop ==
  [][\A m \in started' \ started :
       ~Stopped(m) /\ ~disposed /\ pool'[m] \notin closed']_vars

\* A mail that did not run to its end was stopped by dispose, by its own
\* signal, or with the pool of its outlet by the signal of a mail the library
\* already had (98-101, 193): a cancelled mail that only waits or prepares
\* takes no other with it, and no cancellation reaches another outlet.
StoppedForCause ==
  [][\A m \in Operations :
       Stopped(m)' =>
         \/ pc[m] = "returning" /\ pc'[m] = "done"
         \/ disposed'
         \/ \E n \in signalled' \ signalled :
              n = m \/ (n \in started /\ OutletOf[n] = OutletOf[m])]_vars

\* A mail returns, or a mail the library never answers is before it on its own
\* outlet for ever: nothing else blocks it, neither another outlet nor a
\* cancelled mail that the library keeps (107-119).
EverySendReturns ==
  \A m \in Mails \ Stuck :
    m \in Operations ~> \/ Stopped(m)
                        \/ [](\E s \in Stuck : s \in OnOutlet(OutletOf[m]))

-----------------------------------------------------------------------------
(* The strengthening the proofs use *)

\* What a mail was told or is about to be told agrees with how far it got.
BeforeHandOver == {"new", "refused", "queued", "thread", "open", "stat"}
ResultInv ==
  \A m \in Mails :
    /\ pc[m] \in BeforeHandOver => m \notin started
    /\ pc[m] = "sending" => m \in started
    /\ pc[m] = "returning" => ret[m] \in Results
    /\ pc[m] = "returning" /\ ret[m] = "notSent" => m \notin started
    /\ pc[m] = "returning" /\ ret[m] = "failed" => m \notin delivered
    /\ result[m] = "notSent" => m \notin started
    /\ result[m] = "failed" => pc[m] = "done" /\ m \notin delivered

\* Pools belong to mails that were sent; a mail that waits for the library uses
\* the pool of its outlet, one that no longer waits uses a closed one.
PoolInv ==
  /\ closed \subseteq started
  /\ \A o \in Outlets : pools[o] # None => pools[o] \in started /\ OutletOf[pools[o]] = o
  /\ \A m \in started : pool[m] \in started
  /\ \A m \in started : ~Stopped(m) => pool[m] = pools[OutletOf[m]]
  /\ \A m \in started : (Stopped(m) /\ pc[m] = "sending") => pool[m] \in closed

\* A stream belongs to a mail that has begun.
StreamInv ==
  \A m \in Mails : pc[m] \in {"new", "queued", "thread"} => streams[m] = 0

\* Tails resolve in the order of the calls, of mails that returned; who has
\* begun has only such mails before it.
QueueInv ==
  /\ line \in Seq(Mails)
  /\ \A i, j \in DOMAIN line : line[i] = line[j] => i = j
  /\ \A m \in Mails : pc[m] \in {"new", "refused"} <=> (\A i \in DOMAIN line : line[i] # m)
  /\ \A m \in resolved : Stopped(m) /\ pc[m] \notin {"new", "refused"}
  /\ \A i, j \in DOMAIN line :
       (/\ i < j /\ OutletOf[line[i]] = OutletOf[line[j]]
        /\ line[j] \in resolved \/ pc[line[j]] # "queued" \/ prev[line[j]] = None)
       => line[i] \in resolved
  /\ \A i, j \in DOMAIN line :
       (i < j /\ OutletOf[line[i]] = OutletOf[line[j]] /\ prev[line[j]] # None)
       => \/ line[i] \in resolved
          \/ \E k \in DOMAIN line : /\ i <= k /\ k < j /\ line[k] = prev[line[j]]
                                    /\ OutletOf[line[k]] = OutletOf[line[j]]
  /\ \A i \in DOMAIN line : line[i] \notin resolved =>
       \E k \in DOMAIN line : /\ i <= k /\ line[k] = pending[OutletOf[line[i]]]
                              /\ OutletOf[line[k]] = OutletOf[line[i]]

IInv == TypeOK /\ ResultInv /\ PoolInv /\ StreamInv /\ FilesAreClosed
=============================================================================
