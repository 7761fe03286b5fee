----------------------------- MODULE MailMutation -----------------------------
(***************************************************************************)
(* One call of mutateEmail (email/mutations.ts): a batch of named mails is *)
(* marked, moved or purged with a fixed number of IMAP commands, and every *)
(* mail is reported step by step as success, failed or unknown.            *)
(*                                                                         *)
(* The server is external.  A command it refuses has no effect; one it     *)
(* confirms may still have skipped mails; one whose answer is lost may have *)
(* had its effect on any of the mails.  The connection drops, and the      *)
(* caller cancels (which closes the connection, imap-session.ts:52), at    *)
(* any moment.  Nobody else changes the mailbox during the call.           *)
(*                                                                         *)
(* A definition whose name ends in _Bug is the definition after it with a  *)
(* mistake a programmer could make; README.md says which property notices. *)
(***************************************************************************)
EXTENDS Naturals, Sequences

CONSTANT Uids              \* the mails the call names
ASSUME UidsAssumption == Uids # {}

VARIABLES
  plan,                    \* what planFor() made of the call
  server,                  \* uid |-> where the mail is and its flags
  before,                  \* the server when the call began (ghost)
  up,                      \* is the connection usable?
  signalled,               \* has the caller cancelled?
  cached,                  \* may the cache hold anything?
  phase, index,            \* where the call is, and in which change
  present,                 \* the mails the first FETCH found
  steps,                   \* uid |-> the status of each step
  pending,                 \* the changes whose STORE was confirmed
  mapped,                  \* the mails whose new uid the MOVE reported
  halted, wrote,
  outcome                  \* what the caller got

serverVars == <<plan, before>>
reportVars == <<present, steps, pending, mapped>>
batchVars ==
  <<serverVars, server, up, signalled, cached, phase, index, reportVars, halted, wrote, outcome>>

Flags    == {"seen", "flagged"}
Changes  == [flag : Flags, add : BOOLEAN]
Statuses == {"success", "failed", "unknown"}
Mails    == [at : {"source", "target", "gone"}, flags : SUBSET Flags]

\* planFor(): mark changes flags, trash may, and all but mark move or purge.
Plans ==
  {[changes |-> <<[flag |-> f, add |-> a]>>, final |-> "none"] : f \in Flags, a \in BOOLEAN}
  \union {[changes |-> <<[flag |-> "seen", add |-> a], [flag |-> "flagged", add |-> b]>>, final |-> "none"]
            : a, b \in BOOLEAN}
  \union {[changes |-> <<[flag |-> "seen", add |-> TRUE]>>, final |-> "move"]}
  \union {[changes |-> <<>>, final |-> f] : f \in {"move", "purge"}}

StepCount == Len(plan.changes) + (IF plan.final = "none" THEN 0 ELSE 1)

BatchInit ==
  /\ plan \in Plans
  /\ server \in [Uids -> {m \in Mails : m.at # "target"}]
  /\ before = server
  /\ up = TRUE /\ signalled = FALSE /\ cached = TRUE
  /\ phase = "start" /\ index = 1
  /\ present = {} /\ steps = [u \in Uids |-> <<>>] /\ pending = {} /\ mapped = {}
  /\ halted = FALSE /\ wrote = FALSE
  /\ outcome = "none"

-----------------------------------------------------------------------------
(* The reports *)

Marked(ss, us, k, status) == [u \in Uids |-> IF u \in us THEN [ss[u] EXCEPT ![k] = status] ELSE ss[u]]

\* Statuses of the items that finalize() leaves.
ItemStatus(u) ==
  LET all == {steps[u][k] : k \in DOMAIN steps[u]} IN
  IF u \notin present THEN "failed"
  ELSE IF "unknown" \in all THEN "unknown"
  ELSE IF "failed" \in all THEN "failed" ELSE "success"

Aggregate_Bug(all) ==
  IF "unknown" \in all THEN "unknown" ELSE IF "success" \in all THEN "success" ELSE "failed"

\* aggregate(), over the items and their steps.
Aggregate(all) ==
  IF "unknown" \in all THEN (IF "success" \in all THEN "partial" ELSE "unknown")
  ELSE IF "failed" \notin all THEN "success"
  ELSE IF "success" \in all THEN "partial" ELSE "failed"

Reported == {ItemStatus(u) : u \in Uids} \union
            UNION {{steps[u][k] : k \in DOMAIN steps[u]} : u \in Uids}

\* The call returns its report.
Return ==
  /\ phase = "report"
  /\ phase' = "done" /\ outcome' = Aggregate(Reported)
  /\ UNCHANGED <<serverVars, server, up, signalled, cached, index, reportVars, halted, wrote>>

\* An error before the first write is thrown.
Thrown ==
  /\ phase = "start"
  /\ phase' = "done" /\ outcome' = "rejected"
  /\ UNCHANGED <<serverVars, server, up, signalled, cached, index, reportVars, halted, wrote>>

\* No connection, another mailbox, or no rows.
Reject == Thrown

\* supports(): the server has no MOVE or no UIDPLUS.
NotSupported == plan.final # "none" /\ Thrown

\* requireDestination(): the target is not there, cannot be selected or cannot be listed.
NoDestination == plan.final = "move" /\ Thrown

\* A call that is cancelled before it begins reports every mail as failed.
Canceled ==
  /\ phase = "start" /\ signalled
  /\ phase' = "done" /\ outcome' = "failed"
  /\ UNCHANGED <<serverVars, server, up, signalled, cached, index, reportVars, halted, wrote>>

-----------------------------------------------------------------------------
(* The first FETCH, and what each stage checks before it sends anything *)

callFrame == UNCHANGED <<serverVars, up, signalled, outcome>>

\* Mailbox, capabilities and destination are right, and the rows are here: only
\* mails that exist get steps, all of them "failed" until something is known.
Fetched ==
  /\ phase = "start" /\ up
  /\ present' = {u \in Uids : server[u].at = "source"}
  /\ steps' = [u \in Uids |-> IF u \in present' THEN [k \in 1..StepCount |-> "failed"] ELSE <<>>]
  /\ phase' = IF present' = {} THEN "report" ELSE "fetched"
  /\ UNCHANGED <<server, cached, index, pending, mapped, halted, wrote>> /\ callFrame

\* The stage after the rows, or after stage `done`.
Stage(done) ==
  IF plan.final = "purge" THEN "purge"
  ELSE IF done = "fetched" /\ plan.changes # <<>> THEN "store"
  ELSE IF plan.final = "move" THEN "move" ELSE "report"

Proceed ==
  /\ phase = "fetched"
  /\ phase' = IF up THEN Stage("fetched") ELSE "report"
  /\ halted' = (halted \/ ~up)
  /\ UNCHANGED <<server, cached, index, reportVars, wrote>> /\ callFrame

ClearOnce_Bug == wrote' = TRUE /\ cached' = (IF phase = "store" THEN FALSE ELSE cached)

\* clear(): before the first write, whatever becomes of it, the cache is emptied.
ClearOnce == wrote' = TRUE /\ cached' = (cached /\ wrote)

\* A write command goes out, unless the call was cancelled or the line is down.
Send(stage, waiting) ==
  /\ phase = stage
  /\ IF up
     THEN phase' = waiting /\ ClearOnce /\ UNCHANGED halted
     ELSE /\ phase' = (IF stage = "store" THEN "verify" ELSE "report")
          /\ halted' = TRUE /\ UNCHANGED <<cached, wrote>>
  /\ UNCHANGED <<server, index, reportVars>> /\ callFrame

\* The server's part of a command: the mails of S change, the others do not.
Effect(S, change(_)) == server' = [u \in Uids |-> IF u \in S THEN change(server[u]) ELSE server[u]]

-----------------------------------------------------------------------------
(* flagBatch(): a STORE for each change, one FETCH for all of them *)

commandFrame == UNCHANGED <<cached, wrote, present, mapped>> /\ callFrame

Change == plan.changes[index]
Stored(m) == [m EXCEPT !.flags = IF Change.add THEN @ \union {Change.flag} ELSE @ \ {Change.flag}]

\* On to the next change, or to the check.
AfterStore == IF index < Len(plan.changes) THEN phase' = "store" /\ index' = index + 1
                                           ELSE phase' = "verify" /\ UNCHANGED index

StoreConfirmed(S) ==
  /\ phase = "storing" /\ up
  /\ Effect(S, Stored)
  /\ pending' = pending \union {index}
  /\ AfterStore
  /\ UNCHANGED <<steps, halted>> /\ commandFrame

StoreRefused ==
  /\ phase = "storing" /\ up
  /\ steps' = Marked(steps, present, index, "failed")
  /\ AfterStore
  /\ UNCHANGED <<server, pending, halted>> /\ commandFrame

FalseStatus_Bug == "failed"

\* The library says no more than "false": a refusal if the line is still up.
FalseStatus == IF up THEN "failed" ELSE "unknown"

\* What a command without an answer is reported as, if it changed the mails of S: an
\* error of the library that is no refusal is "unknown" in any case.
Unanswered(S) == {status \in {FalseStatus, "unknown"} : up /\ status = "failed" => S = {}}

StoreLost(S, status) ==
  /\ phase = "storing" /\ status \in Unanswered(S)
  /\ Effect(S, Stored)
  /\ steps' = Marked(steps, present, index, status)
  /\ IF status = "unknown" THEN halted' = TRUE /\ phase' = "verify" /\ UNCHANGED index
                           ELSE AfterStore /\ UNCHANGED halted
  /\ UNCHANGED pending /\ commandFrame

\* With every status the rows give, or with "unknown", for the pending changes.
Checked(known) ==
  [u \in Uids |-> IF u \notin present THEN steps[u] ELSE
    [k \in DOMAIN steps[u] |->
       IF k \notin pending THEN steps[u][k]
       ELSE IF ~known THEN "unknown"
       ELSE IF (plan.changes[k].flag \in server[u].flags) = plan.changes[k].add THEN "success" ELSE "failed"]]

CanVerify == pending # {} /\ ~halted /\ up

\* The next stage, unless the batch stopped or the line is down by now.
AfterFlags(stop) ==
  /\ halted' = (stop \/ ~up)
  /\ phase' = IF halted' THEN "report" ELSE Stage("flags")

Verified ==
  /\ phase = "verify" /\ CanVerify
  /\ steps' = Checked(TRUE)
  /\ AfterFlags(halted)
  /\ UNCHANGED <<server, index, pending>> /\ commandFrame

\* No FETCH was sent, or it failed.
NotVerified ==
  /\ phase = "verify"
  /\ steps' = Checked(FALSE)
  /\ AfterFlags(halted)
  /\ UNCHANGED <<server, index, pending>> /\ commandFrame

-----------------------------------------------------------------------------
(* moveBatch() and purgeBatch() *)

lastFrame == UNCHANGED <<index, pending, halted, cached, wrote, present>> /\ callFrame

Moved(m)  == [m EXCEPT !.at = "target"]
Purged(m) == [m EXCEPT !.at = "gone"]
Writing   == {"moving", "purging"}

Done(S) == IF phase = "moving" THEN Effect(S, Moved) ELSE Effect(S, Purged)

\* The MOVE or the EXPUNGE is confirmed; a MOVE may report the new uids.
LastConfirmed(S, M) ==
  /\ phase \in Writing /\ up /\ M \subseteq S /\ (phase = "purging" => M = {})
  /\ Done(S)
  /\ mapped' = M
  /\ steps' = Marked(steps, M, StepCount, "success")
  /\ phase' = IF M = present THEN "report" ELSE "locate"
  /\ lastFrame

LastRefused ==
  /\ phase \in Writing /\ up
  /\ steps' = Marked(steps, present, StepCount, "failed")
  /\ phase' = "report"
  /\ UNCHANGED <<server, mapped>> /\ lastFrame

LastLost(S, status) ==
  /\ phase \in Writing /\ status \in Unanswered(S)
  /\ Done(S)
  /\ steps' = Marked(steps, present, StepCount, status)
  /\ phase' = "report"
  /\ UNCHANGED mapped /\ lastFrame

\* A mail that is not in the folder any more has been moved or purged.
Located(u) == IF server[u].at = "source" THEN "failed" ELSE "success"

Locate ==
  /\ phase = "locate" /\ up
  /\ steps' = [u \in Uids |-> IF u \in present \ mapped THEN [steps[u] EXCEPT ![StepCount] = Located(u)]
                                                       ELSE steps[u]]
  /\ phase' = "report"
  /\ UNCHANGED <<server, mapped>> /\ lastFrame

NotLocated ==
  /\ phase = "locate"
  /\ steps' = Marked(steps, present \ mapped, StepCount, "unknown")
  /\ phase' = "report"
  /\ UNCHANGED <<server, mapped>> /\ lastFrame

-----------------------------------------------------------------------------
(* The line and the caller *)

LineDrops ==
  /\ up /\ phase # "done"
  /\ up' = FALSE
  /\ UNCHANGED <<serverVars, server, signalled, cached, phase, index, reportVars, halted, wrote, outcome>>

Cancels_Bug ==
  /\ ~signalled /\ phase # "done"
  /\ signalled' = TRUE
  /\ UNCHANGED <<serverVars, server, up, cached, phase, index, reportVars, halted, wrote, outcome>>

\* An abort closes the client.
Cancels ==
  /\ ~signalled /\ phase # "done"
  /\ signalled' = TRUE /\ up' = FALSE
  /\ UNCHANGED <<serverVars, server, cached, phase, index, reportVars, halted, wrote, outcome>>

BatchNext ==
  \/ Reject \/ NotSupported \/ NoDestination \/ Canceled \/ Fetched \/ Proceed \/ Return
  \/ LineDrops \/ Cancels
  \/ Send("store", "storing") \/ Send("move", "moving") \/ Send("purge", "purging")
  \/ \E S \in SUBSET present : \/ StoreConfirmed(S)
                               \/ \E status \in Statuses : StoreLost(S, status) \/ LastLost(S, status)
                               \/ \E M \in SUBSET S : LastConfirmed(S, M)
  \/ StoreRefused \/ Verified \/ NotVerified \/ LastRefused \/ Locate \/ NotLocated

BatchSpec == BatchInit /\ [][BatchNext]_batchVars

-----------------------------------------------------------------------------
(* Properties *)

\* Types; a cancelled call has no usable line, and only mails that were found have steps
\* (mutations.ts:261-270, imap-session.ts:52-53).
TypeOK ==
  /\ server \in [Uids -> Mails] /\ before \in [Uids -> Mails]
  /\ present \subseteq Uids /\ mapped \subseteq present
  /\ pending \subseteq 1..Len(plan.changes)
  /\ \A u \in Uids : steps[u] \in (IF u \in present THEN [1..StepCount -> Statuses] ELSE {<<>>})
  /\ up \in BOOLEAN /\ halted \in BOOLEAN /\ (signalled => ~up)
  /\ outcome \in Statuses \union {"none", "partial", "rejected"}

\* Step k has been done to mail u; or it has left it as it was.
HasEffect(u, k) ==
  IF k <= Len(plan.changes)
  THEN (plan.changes[k].flag \in server[u].flags) = plan.changes[k].add
  ELSE server[u].at = IF plan.final = "purge" THEN "gone" ELSE "target"
HasNoEffect(u, k) ==
  IF k <= Len(plan.changes)
  THEN plan.changes[k].flag \in server[u].flags <=> plan.changes[k].flag \in before[u].flags
  ELSE server[u].at = before[u].at

\* A step reported as a success has happened and one reported as failed has not,
\* whichever command was refused, skipped mails, or lost its answer: only "unknown"
\* leaves it open (mutations.ts:43, 96-192).
StepsAreTrue ==
  phase = "done" /\ outcome # "rejected" =>
    \A u \in Uids : \A k \in DOMAIN steps[u] :
      /\ steps[u][k] = "success" => HasEffect(u, k)
      /\ steps[u][k] = "failed" => HasNoEffect(u, k)

\* The summary is as true as the steps: "success" means that every named mail was found
\* and changed, "failed" and a rejection that nothing was (mutations.ts:194-215, 292-299).
SummaryIsTrue ==
  /\ outcome = "success" => present = Uids /\ \A u \in Uids, k \in 1..StepCount : HasEffect(u, k)
  /\ outcome \in {"failed", "rejected"} => server = before

\* Whatever a cancellation, a dropped line or a refused command interrupts, the report
\* the user sees is true (mutations.ts:43-299).
ReportIsTrue == TypeOK /\ StepsAreTrue /\ SummaryIsTrue

\* Nothing changes on the server while the cache may still hold what was read before
\* (mutations.ts:240-246).
CacheEmptiedFirst == [][server' # server => ~cached]_batchVars
=============================================================================
