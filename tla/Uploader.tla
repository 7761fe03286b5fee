------------------------------- MODULE Uploader -------------------------------
(***************************************************************************)
(* Uploads of one file by one process (upload/uploader.ts): the lock, the  *)
(* plan, the parts sent by a few workers, the completion, the link, and    *)
(* the receipts with which a later call resumes an earlier one. The file   *)
(* (upload/local-file.ts) may be edited at any moment; a version stands    *)
(* for its metadata and fingerprint.                                       *)
(*                                                                         *)
(* The service and the host are external, used as uploader.ts uses them: a *)
(* tool call may fail before or after its effect, or be answered when      *)
(* nobody waits any more; bytes on the way may arrive after the PUT was    *)
(* given up; the service may drop an upload and begin another.             *)
(*                                                                         *)
(* Left out: wording, progress, options, and the field uploadStatus, which *)
(* refines "uploaded". A definition whose name ends in _Bug is the         *)
(* definition after it with a mistake a programmer could make.             *)
(***************************************************************************)
EXTENDS Naturals, FiniteSets

CONSTANTS
  Calls,       \* tool calls, each made at most once
  Parts,       \* the parts of the file where it is too large for a single PUT
  Workers,     \* how many parts are sent at a time (three in the code)
  MaxVersion,  \* bound: versions of the file
  MaxKey       \* bound: keys the service gives out

ASSUME SizesAssumption ==
  /\ IsFiniteSet(Parts) /\ 1 \in Parts /\ Workers \in Nat \ {0}
  /\ MaxVersion \in Nat \ {0} /\ MaxKey \in Nat \ {0}

Versions == 1..MaxVersion
Keys     == 1..MaxKey

VARIABLES
  mode,      \* "single" or "multipart": by the size of the file
  ver,       \* the version of the file on disk
  active,    \* the versions that are locked (module variable active)
  up,        \* call |-> its local variables
  remote,    \* call |-> the tool call it made, also when it no longer waits for it
  aborted,   \* calls whose signal is aborted
  objects,   \* the service: key |-> the version, the parts it has, whether it is whole
  current,   \* the service: version |-> the key under which it is uploaded, 0 if none
  flying,    \* bytes that may still arrive at the service
  made,      \* calls that made an object whole (ghost)
  line,      \* call |-> the first of the calls it resumes (ghost)
  sent       \* calls that have begun a PUT (ghost)

service == <<objects, current, flying, made>>
ghosts  == <<line, sent>>
vars    == <<mode, ver, active, up, remote, aborted, service, ghosts>>

NoReceipt == [key |-> 0, version |-> 0, phase |-> "none"]
Fresh     == [pc |-> "new", version |-> 0, receipt |-> NoReceipt, uploaded |-> "no",
              todo |-> {}, reading |-> {}, sending |-> {}, failed |-> FALSE, holds |-> 0]
NoCall    == [tool |-> "none", served |-> FALSE, says |-> "none", key |-> 0, todo |-> {}]
AllParts  == IF mode = "single" THEN {1} ELSE Parts

Init ==
  /\ mode \in {"single", "multipart"} /\ ver = 1
  /\ active = {} /\ aborted = {}
  /\ up = [c \in Calls |-> Fresh] /\ remote = [c \in Calls |-> NoCall]
  /\ objects = [k \in Keys |-> [version |-> 0, parts |-> {}, mixed |-> FALSE, whole |-> FALSE]]
  /\ current = [v \in Versions |-> 0] /\ flying = {} /\ made = {}
  /\ line = [c \in Calls |-> c] /\ sent = {}

-----------------------------------------------------------------------------
(* The end of a call, and the calls to the host *)

Free_Bug(c, pending) == active \ {up[c].holds}

\* The lock stays as long as a tool call of this upload has not ended.
Free(c, pending) == IF pending THEN active ELSE active \ {up[c].holds}

\* The local state l of call c is what it returns with; calls is remote'.
ReturnsWith(c, l, calls) ==
  /\ up' = [up EXCEPT ![c] = [Fresh EXCEPT !.pc = "returned", !.receipt = l.receipt,
                                           !.uploaded = l.uploaded, !.holds = l.holds]]
  /\ active' = Free(c, calls[c].tool # "none")

Returns(c, l) == ReturnsWith(c, l, remote) /\ UNCHANGED remote

\* call(): the host is asked, unless the signal is aborted.
Asks(c, l, tool) ==
  IF c \in aborted THEN Returns(c, l)
  ELSE /\ up' = [up EXCEPT ![c] = l]
       /\ remote' = [remote EXCEPT ![c] = [NoCall EXCEPT !.tool = tool]]
       /\ UNCHANGED active

Answered(c, place) == up[c].pc = place /\ remote[c].served
Answer(c)       == [remote EXCEPT ![c] = NoCall]
Continues(c, l) == up' = [up EXCEPT ![c] = l] /\ remote' = Answer(c) /\ UNCHANGED active
Fails(c, l)     == ReturnsWith(c, l, Answer(c)) /\ remote' = Answer(c)

\* A timeout or a cancellation: the call is over for us, not for the host.
StopsWaiting(c) ==
  /\ remote[c].tool # "none" /\ up[c].pc # "returned"
  /\ Returns(c, up[c])
  /\ UNCHANGED <<mode, ver, aborted, service, ghosts>>

\* The host's call ends long after, and with it the lock.
LateAnswer(c) ==
  /\ up[c].pc = "returned" /\ remote[c].served
  /\ remote' = Answer(c)
  /\ active' = active \ {up[c].holds}
  /\ UNCHANGED <<mode, ver, up, aborted, service, ghosts>>

-----------------------------------------------------------------------------
(* The beginning: with or without a receipt *)

\* A new upload opens the file; nothing is locked before its metadata is known.
Start(c) ==
  /\ up[c].pc = "new"
  /\ up' = [up EXCEPT ![c].pc = "open"]
  /\ UNCHANGED <<mode, ver, active, remote, aborted, service, ghosts>>

\* The receipts call d has handed out: what encodeReceipt() wrote is what decodeReceipt()
\* reads, and nothing else passes.
Handed(d) == {r \in {up[d].receipt} : up[d].pc = "returned" /\ r.key # 0}

\* A call with a receipt of call d asks for the link first.
Resume(c, d) ==
  \E r \in Handed(d) :
  LET l == [up[c] EXCEPT !.pc = "lookup", !.receipt = r,
                         !.uploaded = IF r.phase = "link" THEN "yes" ELSE "unknown"]
  IN /\ up[c].pc = "new"
     /\ line' = [line EXCEPT ![c] = line[d]]
     /\ IF r.version \in active \/ c \in aborted
        THEN Returns(c, l)
        ELSE /\ up' = [up EXCEPT ![c] = [l EXCEPT !.holds = r.version]]
             /\ active' = active \union {r.version}
             /\ remote' = [remote EXCEPT ![c] = [NoCall EXCEPT !.tool = "url"]]
     /\ UNCHANGED <<mode, ver, aborted, service, sent>>

MayUploadAgain_Bug(r) == r.phase # "link"

\* Only parts may be sent again, and only where the object was not complete.
MayUploadAgain(r) == mode = "multipart" /\ r.phase # "link"

\* The link: the object is there. "not-found" lets parts be resumed, nothing else.
LookedUp(c) ==
  LET l == up[c] IN
  /\ Answered(c, "lookup")
  /\ CASE remote[c].says = "found" -> Fails(c, [l EXCEPT !.uploaded = "yes"])
       [] remote[c].says = "missing" /\ MayUploadAgain(l.receipt) ->
            Continues(c, [l EXCEPT !.pc = "open", !.uploaded = "no"])
       [] OTHER -> Fails(c, l)
  /\ UNCHANGED <<mode, ver, aborted, service, ghosts>>

\* open(): the file of now must be the file of the receipt; a new upload takes the lock.
Open(c) ==
  LET l == up[c]
      fresh == l.receipt.key = 0
      opened == [l EXCEPT !.pc = "snapshot", !.version = ver, !.holds = IF fresh THEN ver ELSE @]
  IN /\ l.pc = "open"
     /\ IF IF fresh THEN ver \in active ELSE l.receipt.version # ver
        THEN Returns(c, l)
        ELSE up' = [up EXCEPT ![c] = opened] /\ active' = active \union {ver} /\ UNCHANGED remote
     /\ UNCHANGED <<mode, ver, aborted, service, ghosts>>

-----------------------------------------------------------------------------
(* The plan *)

Unchanged_Bug(l) == TRUE

\* assertUnchanged(): the file at the path and the open file are what was opened.
Unchanged(l) == ver = l.version

\* The snapshot of a small file, and the request for a plan, which may complete an
\* upload of parts that was there before.
Prepare(c) ==
  LET l == up[c] IN
  /\ l.pc = "snapshot"
  /\ IF Unchanged(l)
     THEN Asks(c, [l EXCEPT !.pc = IF c \in aborted THEN @ ELSE "prepare",
                            !.uploaded = IF mode = "multipart" THEN "unknown" ELSE @], "upload")
     ELSE Returns(c, l)
  /\ UNCHANGED <<mode, ver, aborted, service, ghosts>>

\* planIdentity(): a plan for another key is refused where there is a receipt.
Refused(l, a) == a.says \in {"error", "missing"} \/ (l.receipt.key # 0 /\ l.receipt.key # a.key)

Receipt(l, a, phase) == [key |-> a.key, version |-> l.version, phase |-> phase]

Planned(c) ==
  LET l == up[c]
      a == remote[c]
      planned == [l EXCEPT !.receipt = Receipt(l, a, "upload"), !.pc = "upload", !.todo = a.todo]
  IN /\ Answered(c, "prepare")
     /\ IF Refused(l, a) THEN Fails(c, l)
        ELSE IF a.says = "whole"
        THEN Continues(c, [l EXCEPT !.receipt = Receipt(l, a, "link"), !.uploaded = "yes", !.pc = "accept"])
        ELSE IF Unchanged(l) THEN Continues(c, planned) ELSE Fails(c, planned)
     /\ UNCHANGED <<mode, ver, aborted, service, ghosts>>

-----------------------------------------------------------------------------
(* The workers. A PUT reads its part (reading), has handed it over (sending), and ends. *)

Running(l) == l.reading \union l.sending

NowUnknown_Bug(l) == l
NowUnknown(l) == [l EXCEPT !.uploaded = "unknown"]

\* A worker takes the next part. A changed file or an abort ends the batch.
TakePart(c, p) ==
  LET l == [NowUnknown(up[c]) EXCEPT !.todo = @ \ {p}] IN
  /\ up[c].pc = "upload" /\ p \in up[c].todo /\ ~up[c].failed /\ c \notin aborted
  /\ Cardinality(Running(up[c])) < Workers
  /\ IF mode = "multipart" /\ ~Unchanged(l)
     THEN up' = [up EXCEPT ![c] = [l EXCEPT !.failed = TRUE]] /\ UNCHANGED <<flying, sent>>
     ELSE /\ up' = [up EXCEPT ![c] = IF mode = "single" THEN [l EXCEPT !.sending = {p}]
                                     ELSE [l EXCEPT !.reading = @ \union {p}]]
          /\ flying' = flying \union {[key |-> l.receipt.key, part |-> p, by |-> c, mixed |-> FALSE]}
          /\ sent' = sent \union {c}
  /\ UNCHANGED <<mode, ver, active, remote, aborted, objects, current, made, line>>

\* bytes(): after the last byte the file must still be the same.
PartRead(c, p) ==
  /\ p \in up[c].reading /\ Unchanged(up[c])
  /\ up' = [up EXCEPT ![c].reading = @ \ {p}, ![c].sending = @ \union {p}]
  /\ UNCHANGED <<mode, ver, active, remote, aborted, service, ghosts>>

PartStored(c, p) ==
  /\ p \in up[c].sending /\ p \in objects[up[c].receipt.key].parts
  /\ up' = [up EXCEPT ![c].sending = @ \ {p}]
  /\ UNCHANGED <<mode, ver, active, remote, aborted, service, ghosts>>

\* A PUT fails or is aborted, whatever the service has got of it; the batch is over.
PartFailed(c, p) ==
  /\ p \in Running(up[c])
  /\ up' = [up EXCEPT ![c].reading = @ \ {p}, ![c].sending = @ \ {p}, ![c].failed = TRUE]
  /\ UNCHANGED <<mode, ver, active, remote, aborted, service, ghosts>>

\* All workers have ended: an error, the link of a single PUT, or the one completion.
BatchEnds(c) ==
  LET l == up[c]
      completing == [l EXCEPT !.pc = "complete", !.receipt.phase = "complete"]
  IN /\ l.pc = "upload" /\ Running(l) = {} /\ (l.todo = {} \/ l.failed \/ c \in aborted)
     /\ IF l.failed \/ l.todo # {} THEN Returns(c, l)
        ELSE IF mode = "single"
        THEN /\ up' = [up EXCEPT ![c] = [l EXCEPT !.uploaded = "yes", !.receipt.phase = "link", !.pc = "accept"]]
             /\ UNCHANGED <<active, remote>>
        ELSE IF Unchanged(l) /\ c \notin aborted THEN Asks(c, completing, "upload") ELSE Returns(c, l)
     /\ UNCHANGED <<mode, ver, aborted, service, ghosts>>

\* The service says whether the parts are one object now. Nothing is sent again.
Completed(c) ==
  LET l == up[c]
      a == remote[c]
  IN /\ Answered(c, "complete")
     /\ IF Refused(l, a) THEN Fails(c, l)
        ELSE IF a.says = "whole"
        THEN Continues(c, [l EXCEPT !.uploaded = "yes", !.receipt.phase = "link", !.pc = "accept"])
        ELSE Fails(c, [l EXCEPT !.uploaded = "no", !.receipt.phase = "upload"])
     /\ UNCHANGED <<mode, ver, aborted, service, ghosts>>

\* The link of the plan is good enough, or the link that was asked for is fetched.
Accept(c) ==
  /\ up[c].pc = "accept"
  /\ Returns(c, up[c]) \/ Asks(c, [up[c] EXCEPT !.pc = IF c \in aborted THEN @ ELSE "link"], "url")
  /\ UNCHANGED <<mode, ver, aborted, service, ghosts>>

Linked(c) ==
  /\ Answered(c, "link")
  /\ Fails(c, up[c])
  /\ UNCHANGED <<mode, ver, aborted, service, ghosts>>

\* A local step fails: the file cannot be opened, read or compared.
LocalFailure(c) ==
  /\ up[c].pc \in {"open", "snapshot"}
  /\ Returns(c, up[c])
  /\ UNCHANGED <<mode, ver, aborted, service, ghosts>>

Abort(c) ==
  /\ c \notin aborted /\ up[c].pc # "returned"
  /\ aborted' = aborted \union {c}
  /\ UNCHANGED <<mode, ver, active, up, remote, service, ghosts>>

-----------------------------------------------------------------------------
(* The file, the service and the host *)

\* An edit spoils the parts that are being read.
Edit ==
  /\ ver < MaxVersion
  /\ ver' = ver + 1
  /\ flying' = {[f EXCEPT !.mixed = @ \/ f.part \in up[f.by].reading] : f \in flying}
  /\ UNCHANGED <<mode, active, up, remote, aborted, objects, current, made, ghosts>>

Land(f) ==
  LET o == objects[f.key] IN
  /\ flying' = flying \ {f}
  /\ objects' = [objects EXCEPT ![f.key] = [o EXCEPT !.parts = @ \union {f.part}, !.mixed = @ \/ f.mixed,
                                                     !.whole = @ \/ mode = "single"]]
  /\ made' = IF mode = "single" THEN made \union {f.by} ELSE made
  /\ UNCHANGED <<mode, ver, active, up, remote, aborted, current, ghosts>>

Lose(f) ==
  /\ flying' = flying \ {f}
  /\ UNCHANGED <<mode, ver, active, up, remote, aborted, objects, current, made, ghosts>>

Says(c, what, k, todo) ==
  remote' = [remote EXCEPT ![c].served = TRUE, ![c].says = what, ![c].key = k, ![c].todo = todo]

\* upload_file: the upload of this version, a new one if there is none; if all its
\* parts are there it becomes one object.
ServePlan(c, k) ==
  LET v == up[c].holds
      o == [objects[k] EXCEPT !.version = v]
      whole == mode = "multipart" /\ o.parts = Parts
  IN /\ remote[c].tool = "upload" /\ ~remote[c].served
     /\ IF current[v] # 0 THEN k = current[v]
        ELSE objects[k].version = 0 /\ \A j \in Keys : objects[j].version = 0 => k <= j
     /\ objects' = [objects EXCEPT ![k] = [o EXCEPT !.whole = @ \/ whole]]
     /\ current' = [current EXCEPT ![v] = k]
     /\ made' = IF whole /\ ~o.whole THEN made \union {c} ELSE made
     /\ \/ Says(c, IF whole THEN "whole" ELSE "plan", k, IF whole THEN {} ELSE AllParts \ (IF mode = "single" THEN {} ELSE o.parts))
        \/ Says(c, "error", 0, {})
     /\ UNCHANGED <<mode, ver, active, up, aborted, flying, ghosts>>

\* get_file_url: of a whole object.
ServeLink(c) ==
  LET o == objects[up[c].receipt.key] IN
  /\ remote[c].tool = "url" /\ ~remote[c].served
  /\ Says(c, IF o.whole THEN "found" ELSE "missing", 0, {})
  /\ UNCHANGED <<mode, ver, active, up, aborted, service, ghosts>>

\* The host or the service refuses, or the service has deleted what it had.
ServeFailure(c) ==
  /\ remote[c].tool # "none" /\ ~remote[c].served
  /\ \E what \in {"error", "missing"} : Says(c, what, 0, {})
  /\ UNCHANGED <<mode, ver, active, up, aborted, service, ghosts>>

\* The service forgets an upload; the next plan is a new one.
Expire(v) ==
  /\ current[v] # 0
  /\ current' = [current EXCEPT ![v] = 0]
  /\ UNCHANGED <<mode, ver, active, up, remote, aborted, objects, flying, made, ghosts>>

Step(c) ==
  \/ Start(c) \/ LookedUp(c) \/ Open(c) \/ Prepare(c) \/ Planned(c)
  \/ \E p \in Parts : TakePart(c, p) \/ PartRead(c, p) \/ PartStored(c, p) \/ PartFailed(c, p)
  \/ BatchEnds(c) \/ Completed(c) \/ Accept(c) \/ Linked(c)
  \/ LocalFailure(c) \/ StopsWaiting(c) \/ LateAnswer(c)
  \/ \E d \in Calls : Resume(c, d)

Next ==
  \/ \E c \in Calls : Step(c) \/ Abort(c) \/ ServeLink(c) \/ ServeFailure(c) \/ \E k \in Keys : ServePlan(c, k)
  \/ Edit \/ \E f \in flying : Land(f) \/ Lose(f)
  \/ \E v \in Versions : Expire(v)

Spec == Init /\ [][Next]_vars

-----------------------------------------------------------------------------
(* Properties *)

AtWork(c) == up[c].holds # 0 /\ (up[c].pc \notin {"new", "returned"} \/ remote[c].tool # "none")

\* A version is locked exactly as long as one call works on it, the tool calls nobody
\* waits for any more included; never two calls at once (uploader.ts:40-43, 206-212).
LockCoversWork ==
  /\ \A c, d \in Calls : AtWork(c) /\ AtWork(d) /\ up[c].holds = up[d].holds => c = d
  /\ active = {up[c].holds : c \in {d \in Calls : AtWork(d)}}

\* An object that is whole has no part of which the file was edited while it was read
\* (local-file.ts:62-76, uploader.ts:126, 146, 170).
WholeMeansOneVersion == \A k \in Keys : objects[k].whole => ~objects[k].mixed

\* Of a call and the calls that resume it, one at most sends a single PUT
\* (uploader.ts:114: a single PUT is never replayed).
SingleIsSentOnce ==
  mode = "single" => \A c, d \in sent : line[c] = line[d] => c = d

Said(c) ==
  IF up[c].pc # "returned" THEN <<"pending">>
  ELSE IF up[c].uploaded = "yes" THEN <<"yes", up[c].receipt.key>> ELSE <<up[c].uploaded>>

P == INSTANCE UploadPromises WITH
       Calls <- Calls, Keys <- Keys,
       said  <- [c \in Calls |-> Said(c)],
       whole <- {k \in Keys : objects[k].whole},
       made  <- made

\* What the tool answers in "uploaded" can be relied on (UploadPromises).
AnswersArePromises == P!Spec
=============================================================================
