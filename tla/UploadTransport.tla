---------------------------- MODULE UploadTransport ----------------------------
(***************************************************************************)
(* One PUT of one part (upload/transport.ts): the bytes are pumped from an *)
(* iterator into a request while the response, the deadline, the abort of  *)
(* the caller and errors of the socket arrive whenever they like.          *)
(* DNS, the socket, the clock and the iterator (upload/local-file.ts) are  *)
(* external. The syntax of targets and headers is left out: a target is    *)
(* valid or not.                                                           *)
(*                                                                         *)
(* A definition whose name ends in _Bug is the definition after it with a  *)
(* mistake a programmer could make.                                        *)
(***************************************************************************)
EXTENDS Naturals

CONSTANT Size          \* target.size, in pieces
ASSUME SizeAssumption == Size \in Nat

VARIABLES
  pc,        \* putBytesWithDeps: "start", "resolving", "racing", "finally", "returned"
  error,     \* the first error, "none"
  signalled, \* the caller's signal
  late,      \* the deadline has passed
  timer,     \* the deadline's timer is armed
  request,   \* "none", "open", "closed"
  response,  \* "none", "refused", "early", "open", "ended", "gone"
  pump,      \* "none", "reading", "writing", "ending", "done", "failed"
  count,     \* pieces written
  iterator   \* "open", "returned"

putVars == <<pc, error, signalled, late, timer, request, response, pump, count, iterator>>
wire == <<request, response>>
body == <<pump, count, iterator>>

PutInit ==
  /\ pc = "start" /\ error = "none" /\ signalled \in BOOLEAN /\ late = FALSE /\ timer = FALSE
  /\ request = "none" /\ response = "none" /\ pump = "none" /\ count = 0 /\ iterator = "open"

Sent      == pump = "done"
Stopped   == error # "none"
Pumping   == pump \in {"reading", "writing", "ending"}

-----------------------------------------------------------------------------
(* stop(): the first cause stays, and everything is torn down *)

First_Bug(code) == code
First(code) == IF Stopped THEN error ELSE code

\* What await in the main function does when the error is there: it goes to finally.
Stop(code) ==
  /\ error' = First(code)
  /\ pc' = IF pc \in {"resolving", "racing"} THEN "finally" ELSE pc

\* The deadline is armed before the first await; what has expired by then is no target.
Begin ==
  /\ pc = "start"
  /\ IF signalled THEN error' = "cancelled" /\ pc' = "finally" /\ UNCHANGED timer
                ELSE timer' = TRUE /\ pc' = "resolving" /\ UNCHANGED error
  /\ UNCHANGED <<signalled, late, wire, body>>

\* validate(): method, size, address, expiry and headers of the target.
BadTarget ==
  /\ pc = "start" /\ ~signalled
  /\ error' \in {"invalid-target", "invalid-headers"} /\ pc' = "finally"
  /\ UNCHANGED <<signalled, late, timer, wire, body>>

\* The name has no address: nothing is sent.
Unresolved ==
  /\ pc = "resolving" /\ Stop("network-error")
  /\ UNCHANGED <<signalled, late, timer, wire, body>>

\* isPublicAddress(): one of the addresses is not public.
NotPublic ==
  /\ pc = "resolving" /\ Stop("invalid-target")
  /\ UNCHANGED <<signalled, late, timer, wire, body>>

Resolved ==
  /\ pc = "resolving"
  /\ pc' = "racing" /\ request' = "open" /\ pump' = "reading"
  /\ UNCHANGED <<error, signalled, late, timer, response, count, iterator>>

CallerAborts ==
  /\ ~signalled /\ pc # "returned"
  /\ signalled' = TRUE
  /\ IF pc \in {"resolving", "racing"} THEN Stop("cancelled") ELSE UNCHANGED <<pc, error>>
  /\ UNCHANGED <<late, timer, wire, body>>

Deadline ==
  /\ timer /\ pc \in {"resolving", "racing"}
  /\ late' = TRUE /\ timer' = FALSE
  /\ Stop("timeout")
  /\ UNCHANGED <<signalled, wire, body>>

-----------------------------------------------------------------------------
(* The pump *)

Exact_Bug(n) == TRUE
Exact(n) == n = Size

PumpFails == pump' = "failed" /\ Stop("network-error") /\ UNCHANGED count

\* iterator.next(): a piece, the end, or an error; after a stop it is ignored.
Piece ==
  /\ pump = "reading"
  /\ IF Stopped THEN pump' = "failed" /\ UNCHANGED <<pc, error, count>>
     ELSE IF count < Size THEN pump' = "writing" /\ UNCHANGED <<pc, error, count>>
     ELSE PumpFails
  /\ UNCHANGED <<signalled, late, timer, wire, iterator>>

EndOfBody ==
  /\ pump = "reading"
  /\ IF Stopped THEN pump' = "failed" /\ UNCHANGED <<pc, error, count>>
     ELSE IF Exact(count) THEN pump' = "ending" /\ UNCHANGED <<pc, error, count>>
     ELSE PumpFails
  /\ UNCHANGED <<signalled, late, timer, wire, iterator>>

BodyFails ==
  /\ pump = "reading"
  /\ PumpFails
  /\ UNCHANGED <<signalled, late, timer, wire, iterator>>

\* The callback of write() and of end(); both are given up when the request is stopped.
Written ==
  /\ pump = "writing" /\ ~Stopped
  /\ pump' = "reading" /\ count' = count + 1
  /\ UNCHANGED <<pc, error, signalled, late, timer, wire, iterator>>

Ended ==
  /\ pump = "ending" /\ ~Stopped
  /\ pump' = "done" /\ pc' = IF response = "ended" THEN "finally" ELSE pc
  /\ UNCHANGED <<error, signalled, late, timer, wire, count, iterator>>

GivenUp_Bug == {"ending"}
GivenUp == {"writing", "ending"}

Interrupted ==
  /\ pump \in GivenUp /\ Stopped
  /\ pump' = "failed"
  /\ UNCHANGED <<pc, error, signalled, late, timer, wire, count, iterator>>

-----------------------------------------------------------------------------
(* The response and the socket *)

TooEarly_Bug == FALSE
TooEarly == ~Sent

\* Headers arrive: an answer other than success, or a success before the last byte, is an error.
Headers(status) ==
  /\ request = "open" /\ response = "none" /\ ~Stopped
  /\ CASE status = "redirect"                -> response' = "refused" /\ Stop("redirect")
       [] status = "error"                   -> response' = "refused" /\ Stop("http-error")
       [] status = "success" /\ TooEarly     -> response' = "early" /\ Stop("network-error")
       [] OTHER                              -> response' = "open" /\ UNCHANGED <<pc, error>>
  /\ UNCHANGED <<signalled, late, timer, request, body>>

\* The response is complete: with the body sent, the race is won.
ResponseEnds ==
  /\ response = "open" /\ ~Stopped
  /\ response' = "ended" /\ pc' = IF Sent THEN "finally" ELSE pc
  /\ UNCHANGED <<error, signalled, late, timer, request, body>>

Cut ==
  /\ response = "open" /\ ~Stopped
  /\ response' = "gone" /\ Stop("network-error")
  /\ UNCHANGED <<signalled, late, timer, request, body>>

\* The socket fails, or closes; without a complete response that is an error.
Closes ==
  /\ request = "open"
  /\ request' = "closed"
  /\ IF response = "ended" THEN UNCHANGED <<pc, error>> ELSE Stop("network-error")
  /\ UNCHANGED <<signalled, late, timer, response, body>>

-----------------------------------------------------------------------------
(* finally: the request and the producer have ended before the function returns *)

Quiet_Bug == request # "open"
Quiet == request # "open" /\ ~Pumping

\* The iterator is closed last of all, which may fail in its turn.
PutReturns ==
  /\ pc = "finally" /\ Quiet
  /\ timer' = FALSE
  /\ iterator' = "returned" /\ pc' = "returned"
  /\ error' \in {error, First("network-error")}
  /\ UNCHANGED <<signalled, late, wire, pump, count>>

Answers ==
  \/ \E status \in {"redirect", "error", "success"} : Headers(status)
  \/ ResponseEnds \/ Cut

PutNext ==
  \/ Begin \/ BadTarget \/ Resolved \/ Unresolved \/ NotPublic \/ CallerAborts \/ Deadline
  \/ Piece \/ EndOfBody \/ BodyFails \/ Written \/ Ended \/ Interrupted
  \/ Answers \/ Closes \/ PutReturns

PutSpec == PutInit /\ [][PutNext]_putVars

\* The iterator answers, a stopped write is given up, the deadline is armed while the
\* request runs (at most 330 s or what the size allows, transport.ts:90-92), and a
\* request that is destroyed emits "close".
FairSpec ==
  /\ PutSpec
  /\ WF_putVars(Begin \/ BadTarget) /\ WF_putVars(Deadline) /\ WF_putVars(Piece \/ EndOfBody \/ BodyFails)
  /\ WF_putVars(Interrupted) /\ WF_putVars((Stopped \/ pc = "finally") /\ Closes) /\ WF_putVars(PutReturns)

-----------------------------------------------------------------------------
(* Properties *)

\* A PUT that succeeds has sent exactly the bytes of the part and has the whole of a
\* success that was answered after them (transport.ts:152-162, 173-175).
SuccessIsWhole ==
  /\ pc = "returned" /\ error = "none" => count = Size /\ Sent /\ response = "ended"
  /\ response \in {"open", "ended"} => Sent

\* When it returns nothing of it goes on: no producer reads the file that the caller
\* closes next, no socket is open, no timer runs (transport.ts:208-212).
NothingGoesOn ==
  pc = "returned" => ~Pumping /\ request # "open" /\ ~timer /\ iterator = "returned"

\* The cause that is reported has happened, and it is the first: a cancellation or a
\* deadline is not reported in place of an answer of the server, nor the other way round
\* (transport.ts:114-121).
CauseIsTrue ==
  /\ error = "cancelled" => signalled
  /\ error = "timeout" => late
  /\ error \in {"redirect", "http-error"} <=> response = "refused"

\* Every PUT returns: a silent server is cut off at the deadline.
EveryPutReturns == pc = "start" ~> pc = "returned"
=============================================================================
