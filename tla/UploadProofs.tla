------------------------------ MODULE UploadProofs -----------------------------
(***************************************************************************)
(* What uploads promise (Uploader), for any calls, parts, versions and     *)
(* keys, and what one PUT promises (UploadTransport), for a part of any    *)
(* size.                                                                   *)
(*                                                                         *)
(* IInv says of every call, by CallInv, what its place in the program says *)
(* of its lock, its receipt, its tool call, its bytes and what it may have *)
(* made; and of the store, by StoreOK, that the parts of a version that    *)
(* was edited under a reader are never one object. That nobody completes   *)
(* them rests on the lock: the reader is the only one at work on them, and *)
(* whoever comes later finds another version on disk.                      *)
(*                                                                         *)
(* A step of a call gives it a local state x and a tool call y: LocalStep  *)
(* reduces it to CallInv(c, x, y) and to what happens to the lock (Locks). *)
(* Then each action has a lemma of its own; the steps of the file, the     *)
(* service and the host follow. That the tool's answers are the promises   *)
(* of UploadPromises follows from IInv before and after a step.            *)
(***************************************************************************)
EXTENDS Uploader, UploadTransport, TLAPS

\* The types of the state.
LocalStates ==
  {"new", "open", "lookup", "snapshot", "prepare", "upload", "complete", "accept", "link", "returned"}
Receipts ==
  [key : Keys \union {0}, version : Versions \union {0},
   phase : {"none", "upload", "complete", "link"}]
Locals ==
  [pc : LocalStates, version : Versions \union {0}, receipt : Receipts,
   uploaded : {"yes", "no", "unknown"},
   todo : SUBSET Parts, reading : SUBSET Parts, sending : SUBSET Parts, failed : BOOLEAN,
   holds : Versions \union {0}]
ToolCalls ==
  [tool : {"none", "url", "upload"}, served : BOOLEAN, key : Keys \union {0}, todo : SUBSET Parts,
   says : {"none", "found", "missing", "error", "plan", "whole"}]
Objects == [version : Versions \union {0}, parts : SUBSET Parts, mixed : BOOLEAN, whole : BOOLEAN]
Bytes   == [key : Keys, part : Parts, by : Calls, mixed : BOOLEAN]

TypeOK ==
  /\ mode \in {"single", "multipart"} /\ ver \in Versions
  /\ active \subseteq Versions /\ aborted \subseteq Calls
  /\ up \in [Calls -> Locals] /\ remote \in [Calls -> ToolCalls]
  /\ objects \in [Keys -> Objects] /\ current \in [Versions -> Keys \union {0}]
  /\ flying \subseteq Bytes /\ made \subseteq Calls
  /\ line \in [Calls -> Calls] /\ sent \subseteq Calls

\* Where a version is known, and where bytes may be on the way.
Planning == {"snapshot", "prepare", "upload", "complete", "accept", "link"}
Sending  == {"upload", "complete", "accept", "link", "returned"}

\* Where a call waits for the host, and which version it holds there.
WaitOK(l, a) ==
  /\ l.pc = "new" => l = Fresh
  /\ l.holds <= ver
  /\ a.served => a.tool # "none"
  /\ a.tool # "none" => l.holds # 0
  /\ l.pc \in {"new", "open", "snapshot", "upload", "accept"} => a.tool = "none"
  /\ l.pc \in {"lookup", "link"} => a.tool = "url"
  /\ l.pc \in {"prepare", "complete"} => a.tool = "upload"
  /\ l.pc \in {"open", "lookup"} => l.holds = l.receipt.version
  /\ l.pc \in Planning => l.holds = l.version /\ l.holds # 0
  /\ l.receipt.key # 0 /\ l.pc # "returned" => l.holds = l.receipt.version
  /\ l.reading # {} \/ l.sending # {} => l.pc = "upload"

\* The key of a receipt belongs to its version; phase "link" and the answer "yes" are said
\* of a whole object.
ReceiptOK(l, a) ==
  LET r == l.receipt
  IN /\ r.key = 0 => r.version = 0 /\ r.phase = "none" /\ l.uploaded # "yes" /\ a.tool # "url"
                     /\ l.pc \in {"new", "open", "snapshot", "prepare", "returned"}
     /\ r.key # 0 => r.version # 0 /\ objects[r.key].version = r.version /\ r.version <= ver
     /\ r.phase = "link" \/ l.uploaded = "yes" => objects[r.key].whole
     /\ l.pc \in {"accept", "link"} => l.uploaded = "yes"

\* What the service has answered is still so.
AnswerOK(l, a) ==
  /\ a.served /\ a.tool = "url" =>
       /\ a.says \in {"found", "missing", "error"}
       /\ a.says = "found" => objects[l.receipt.key].whole
  /\ a.served /\ a.tool = "upload" =>
       /\ a.says \in {"plan", "whole", "error", "missing"}
       /\ a.says \in {"plan", "whole"} => a.key # 0 /\ objects[a.key].version = l.holds
       /\ a.says = "whole" => objects[a.key].whole
       /\ a.says = "plan" /\ mode = "multipart" => ~objects[a.key].whole
       /\ a.says = "plan" /\ mode = "single" => a.todo = {1}

\* Where a call can have made an object whole, and where it still can.
MakingOK(c, l, a) ==
  /\ c \in made => l.uploaded # "no" /\ l.pc \notin {"new", "open", "lookup", "snapshot"}
  /\ mode = "multipart" =>
       /\ l.pc = "upload" => c \notin made /\ ~objects[l.receipt.key].whole
       /\ l.pc \in {"prepare", "complete"} /\ (~a.served \/ a.says = "plan") => c \notin made
       /\ l.pc \in {"prepare", "upload", "complete"} \/ (a.tool = "upload" /\ ~a.served)
             => l.uploaded # "no"
  /\ mode = "single" =>
       /\ l.pc # "complete" /\ l.reading = {}
       /\ l.pc = "upload" => l.todo \union l.sending \subseteq {1}
       /\ l.pc = "upload" /\ ~l.failed /\ 1 \notin l.todo /\ 1 \notin l.sending
             => objects[l.receipt.key].whole

\* The bytes of a call go to the key of its receipt.
BytesOK(c, l) ==
  \A f \in flying : f.by = c =>
    /\ l.pc \in Sending /\ l.receipt.key = f.key
    /\ mode = "single" => l.uploaded # "no"

\* In single mode a call that resumes another (first is the first of its line) asks for the
\* link and returns.
SingleOK(c, l, first) ==
  /\ c \in sent => l.pc \in Sending
  /\ mode = "single" /\ first # c => c \notin sent /\ l.pc \in {"lookup", "returned"}

\* Parts of the object were edited while they were read, or are on the way.
Spoilt(k) == objects[k].mixed \/ \E f \in flying : f.key = k /\ f.mixed

\* Nobody can complete the parts of a version that was edited under them.
AsksOK(l, a) ==
  a.tool = "upload" /\ ~a.served => \A k \in Keys : Spoilt(k) => l.holds # objects[k].version

\* The call's part of the invariant.
CallInv(c, l, a) ==
  /\ WaitOK(l, a) /\ ReceiptOK(l, a) /\ AnswerOK(l, a) /\ MakingOK(c, l, a)
  /\ BytesOK(c, l) /\ AsksOK(l, a)

\* What the service has: keys belong to versions, and what is spoilt is no object and no longer
\* wanted.
StoreOK ==
  /\ \A f \in flying : objects[f.key].version # 0
  /\ \A k \in Keys : objects[k].version = 0 =>
       objects[k].parts = {} /\ ~objects[k].whole /\ ~objects[k].mixed
  /\ \A k \in Keys : mode = "single" /\ objects[k].parts # {} => objects[k].whole
  /\ \A k \in Keys : mode = "multipart" /\ objects[k].whole => objects[k].parts = Parts
  /\ \A v \in Versions : current[v] # 0 => objects[current[v]].version = v
  /\ \A k \in Keys : Spoilt(k) =>
       mode = "multipart" /\ ~objects[k].whole /\ objects[k].version < ver

\* The inductive invariant.
IInv ==
  /\ TypeOK /\ LockCoversWork /\ StoreOK
  /\ \A c \in Calls : CallInv(c, up[c], remote[c]) /\ SingleOK(c, up[c], line[c])

-----------------------------------------------------------------------------
(* The steps of a call *)

\* A call with local state l and tool call a works on what it holds.
Working(l, a) == l.holds # 0 /\ (l.pc \notin {"new", "returned"} \/ a.tool # "none")

\* Call c changes its own state to x and its tool call to y, and nothing else but the lock.
Changes(c, x, y) ==
  /\ x \in Locals /\ y \in ToolCalls
  /\ up' = [up EXCEPT ![c] = x] /\ remote' = [remote EXCEPT ![c] = y]

\* What the step does to the lock: nothing, it takes one, it gives one up.
Locks(c, x, y) ==
  \/ active' = active /\ (Working(x, y) <=> AtWork(c)) /\ (AtWork(c) => x.holds = up[c].holds)
  \/ active' = active \union {x.holds} /\ Working(x, y) /\ x.holds \notin active /\ ~AtWork(c)
  \/ active' = active \ {up[c].holds} /\ ~Working(x, y) /\ (AtWork(c) \/ up[c].holds = 0)

\* The lock stays exact if a step keeps it, takes what nobody holds, or gives up what it
\* holds.
LEMMA LockStep ==
  ASSUME TypeOK, LockCoversWork, NEW c \in Calls, NEW x, NEW y, Changes(c, x, y), Locks(c, x, y)
  PROVE  LockCoversWork' /\ active' \subseteq Versions
<1>1. /\ \A d \in Calls : d # c => up'[d] = up[d] /\ remote'[d] = remote[d]
      /\ up'[c] = x /\ remote'[c] = y
  BY Zenon DEF TypeOK, Changes
<1>2. /\ \A d \in Calls : d # c => (AtWork(d)' <=> AtWork(d)) /\ up'[d].holds = up[d].holds
      /\ AtWork(c)' <=> Working(x, y)
      /\ up'[c].holds = x.holds
  BY <1>1 DEF AtWork, Working
<1>3. /\ \A d, e \in Calls : AtWork(d) /\ AtWork(e) /\ up[d].holds = up[e].holds => d = e
      /\ \A v : v \in active <=> \E d \in Calls : AtWork(d) /\ up[d].holds = v
  BY Zenon DEF LockCoversWork
<1>4. x.holds \in Versions \union {0} /\ (AtWork(c)' => x.holds # 0) /\ 0 \notin active
  BY <1>2 DEF Changes, Locals, Working, TypeOK, Versions
<1>5. /\ \A d, e \in Calls : AtWork(d)' /\ AtWork(e)' /\ up'[d].holds = up'[e].holds => d = e
      /\ \A v : v \in active' <=> \E d \in Calls : AtWork(d)' /\ up'[d].holds = v
  <2>1. CASE active' = active /\ (Working(x, y) <=> AtWork(c))
          /\ (AtWork(c) => x.holds = up[c].holds)
    BY <2>1, <1>2, <1>3
  <2>2. CASE active' = active \union {x.holds} /\ Working(x, y) /\ x.holds \notin active
          /\ ~AtWork(c)
    <3>1. ASSUME NEW v PROVE v \in active' <=> \E d \in Calls : AtWork(d)' /\ up'[d].holds = v
      <4>1. v \in active' <=> v \in active \/ v = x.holds
        BY <2>2
      <4> QED BY <4>1, <2>2, <1>2, <1>3, Zenon
    <3>2. ASSUME NEW d \in Calls, AtWork(d)', up'[d].holds = x.holds PROVE d = c
      BY <3>2, <2>2, <1>2, <1>3, Zenon
    <3> QED BY <3>1, <3>2, <2>2, <1>2, <1>3, Zenon
  <2>3. CASE active' = active \ {up[c].holds} /\ ~Working(x, y) /\ (AtWork(c) \/ up[c].holds = 0)
    BY <2>3, <1>2, <1>3, <1>4
  <2> QED BY <2>1, <2>2, <2>3 DEF Locks
<1>6. LockCoversWork'
  <2>1. \A v : v \in active' <=> v \in {up'[d].holds : d \in {e \in Calls : AtWork(e)'}}
    BY <1>5, Zenon
  <2>2. active' = {up'[d].holds : d \in {e \in Calls : AtWork(e)'}}
    BY <2>1
  <2> QED BY <1>5, <2>2, Zenon DEF LockCoversWork
<1>7. active' \subseteq Versions
  BY <1>4 DEF Locks, TypeOK, Versions, Working
<1> QED BY <1>6, <1>7

\* A step of a call that leaves the service alone keeps the invariant if what it leaves of
\* its call fits its place.
LEMMA LocalStep ==
  ASSUME IInv, NEW c \in Calls, NEW x, NEW y, Changes(c, x, y), Locks(c, x, y),
         UNCHANGED <<mode, ver, aborted, service, sent>>, CallInv(c, x, y),
         NEW first \in Calls, line' = [line EXCEPT ![c] = first], SingleOK(c, x, first)
  PROVE  IInv'
<1>0. /\ line' \in [Calls -> Calls]
      /\ line'[c] = first
      /\ \A d \in Calls : d # c => line'[d] = line[d]
  BY Zenon DEF IInv, TypeOK
<1>1. LockCoversWork' /\ active' \subseteq Versions
  BY LockStep, Zenon DEF IInv
<1>2. TypeOK'
  <2>1. up' \in [Calls -> Locals] /\ remote' \in [Calls -> ToolCalls]
    BY Zenon DEF IInv, TypeOK, Changes
  <2> QED BY <1>0, <1>1, <2>1, Zenon DEF IInv, TypeOK, service
<1>3. StoreOK'
  BY Zenon DEF IInv, StoreOK, Spoilt, service
<1>4. ASSUME NEW d \in Calls PROVE CallInv(d, up[d], remote[d])' /\ SingleOK(d, up[d], line[d])'
  <2>1. /\ d # c => up'[d] = up[d] /\ remote'[d] = remote[d]
        /\ up'[c] = x /\ remote'[c] = y
    BY Zenon DEF IInv, TypeOK, Changes
  <2>2. CallInv(d, up'[d], remote'[d]) /\ SingleOK(d, up'[d], line'[d])
    BY <1>0, <2>1, Zenon DEF IInv
  <2> USE DEF service
  <2>3. ReceiptOK(up[d], remote[d])' BY <2>2, Zenon DEF CallInv, ReceiptOK
  <2>4. AnswerOK(up[d], remote[d])' BY <2>2, Zenon DEF CallInv, AnswerOK
  <2>5. MakingOK(d, up[d], remote[d])' BY <2>2, Zenon DEF CallInv, MakingOK
  <2>6. BytesOK(d, up[d])' BY <2>2, Zenon DEF CallInv, BytesOK
  <2>7. SingleOK(d, up[d], line[d])' BY <2>2, Zenon DEF SingleOK
  <2>8. AsksOK(up[d], remote[d])' BY <2>2, Zenon DEF CallInv, AsksOK, Spoilt
  <2>9. WaitOK(up[d], remote[d])' BY <2>2, Zenon DEF CallInv, WaitOK, Fresh, NoReceipt
  <2> QED BY <2>3, <2>4, <2>5, <2>6, <2>7, <2>8, <2>9, Zenon DEF CallInv
<1> QED BY <1>1, <1>2, <1>3, <1>4, Zenon DEF IInv

-----------------------------------------------------------------------------

\* The state a call that was in state l returns with (ReturnsWith).
Returned(l) == [Fresh EXCEPT !.pc = "returned", !.receipt = l.receipt,
                             !.uploaded = l.uploaded, !.holds = l.holds]

\* What must be true of a call that returns from state l with tool call y.
Returnable(c, l, y) ==
  /\ ReceiptOK(l, y) /\ AnswerOK(l, y) /\ BytesOK(c, l) /\ AsksOK(l, y)
  /\ c \in made \/ (mode = "multipart" /\ y.tool = "upload" /\ ~y.served) => l.uploaded # "no"

\* What a call is when it has returned.
LEMMA ReturnedType ==
  ASSUME NEW l \in Locals
  PROVE  /\ Returned(l) \in Locals
         /\ Returned(l).pc = "returned" /\ Returned(l).receipt = l.receipt
         /\ Returned(l).uploaded = l.uploaded /\ Returned(l).holds = l.holds
         /\ Returned(l).reading = {} /\ Returned(l).sending = {} /\ Returned(l).todo = {}
  BY DEF Returned, Fresh, NoReceipt, Locals, LocalStates

\* No tool call is one that asks for nothing.
LEMMA NoCallType ==
  NoCall \in ToolCalls /\ NoCall.tool = "none" /\ ~NoCall.served
  BY DEF NoCall, ToolCalls

\* A call may return with what is true of it, its tool call answered or still to be
\* answered.
LEMMA ReturnStep ==
  ASSUME IInv, NEW c \in Calls, NEW l \in Locals, NEW y \in {remote[c], NoCall},
         up[c].pc # "returned", l.holds = up[c].holds, up[c].pc = "new" => l.holds = 0,
         ReturnsWith(c, l, [remote EXCEPT ![c] = y]), remote' = [remote EXCEPT ![c] = y],
         UNCHANGED <<mode, ver, aborted, service, sent>>, Returnable(c, l, y),
         NEW first \in Calls, line' = [line EXCEPT ![c] = first], 
         mode = "single" /\ first # c => c \notin sent
  PROVE  IInv'
<1> DEFINE x == Returned(l)
<1>1. /\ x \in Locals /\ x.pc = "returned" /\ x.receipt = l.receipt
      /\ x.uploaded = l.uploaded /\ x.holds = l.holds
      /\ x.reading = {} /\ x.sending = {} /\ x.todo = {}
  BY ReturnedType
<1>2. remote[c] \in ToolCalls /\ y \in ToolCalls /\ up[c] \in Locals
  BY NoCallType, Zenon DEF IInv, TypeOK
<1>3. Changes(c, x, y)
  BY <1>1, <1>2, Zenon DEF Changes, ReturnsWith, Returned
<1>4. active' = IF y.tool # "none" THEN active ELSE active \ {up[c].holds}
  BY Zenon DEF ReturnsWith, Free, IInv, TypeOK
<1>5. WaitOK(up[c], remote[c])
  BY Zenon DEF IInv, CallInv
<1>6. Locks(c, x, y)
  <2>1. CASE y.tool # "none"
    <3>1. y = remote[c]
      BY <2>1, NoCallType
    <3>2. up[c].holds # 0
      BY <2>1, <3>1, <1>5, Zenon DEF WaitOK
    <3> QED BY <2>1, <3>1, <3>2, <1>1, <1>4 DEF Locks, Working, AtWork
  <2>2. CASE y.tool = "none"
    BY <2>2, <1>1, <1>4, <1>5 DEF Locks, Working, AtWork
  <2> QED BY <2>1, <2>2
<1>7. CallInv(c, x, y)
  <2>1. WaitOK(x, y)
    <3>1. y.served => y.tool # "none"
      BY <1>5, NoCallType, Zenon DEF WaitOK
    <3>2. y.tool # "none" => x.holds # 0
      BY <1>1, <1>5, NoCallType, Zenon DEF WaitOK
    <3>3. x.holds <= ver
      BY <1>1, <1>5 DEF WaitOK
    <3> HIDE DEF x
    <3> QED BY <3>1, <3>2, <3>3, <1>1 DEF WaitOK, Planning
  <2> HIDE DEF x
  <2>2. ReceiptOK(x, y) BY <1>1 DEF Returnable, ReceiptOK
  <2>3. AnswerOK(x, y) BY <1>1, Zenon DEF Returnable, AnswerOK
  <2>4. MakingOK(c, x, y) BY <1>1 DEF Returnable, MakingOK
  <2>5. BytesOK(c, x) BY <1>1 DEF Returnable, BytesOK, Sending
  <2>6. AsksOK(x, y) BY <1>1, Zenon DEF Returnable, AsksOK
  <2> QED BY <2>1, <2>2, <2>3, <2>4, <2>5, <2>6 DEF CallInv
<1>8. SingleOK(c, x, first)
  BY <1>1 DEF SingleOK, Sending
<1> HIDE DEF x
<1> QED BY <1>3, <1>6, <1>7, <1>8, LocalStep

\* What is true of a call before it returns is true of what it returns with.
LEMMA ReturnableAsItIs ==
  ASSUME IInv, NEW c \in Calls
  PROVE  Returnable(c, up[c], remote[c]) /\ Returnable(c, up[c], NoCall)
<1> DEFINE l == up[c]  a == remote[c]
<1>1. CallInv(c, l, a)
  BY Zenon DEF IInv
<1> HIDE DEF l, a
<1>2. Returnable(c, l, a)
  BY <1>1 DEF CallInv, MakingOK, Returnable
<1>3. Returnable(c, l, NoCall)
  BY <1>1, NoCallType DEF CallInv, MakingOK, Returnable, ReceiptOK, AnswerOK, AsksOK
<1> QED BY <1>2, <1>3 DEF l, a

\* A call that is not a resumption stays in its line.
LEMMA Identity ==
  ASSUME IInv, NEW c \in Calls, UNCHANGED line
  PROVE  line' = [line EXCEPT ![c] = line[c]] /\ line[c] \in Calls
  BY Zenon DEF IInv, TypeOK

\* A call may return with what it has, its tool call kept or answered.
LEMMA ReturnAsItIs ==
  ASSUME IInv, NEW c \in Calls, NEW y \in {remote[c], NoCall}, up[c].pc # "returned",
         ReturnsWith(c, up[c], [remote EXCEPT ![c] = y]), remote' = [remote EXCEPT ![c] = y],
         UNCHANGED <<mode, ver, aborted, service, ghosts>>
  PROVE  IInv'
<1>1. up[c] \in Locals /\ WaitOK(up[c], remote[c]) /\ SingleOK(c, up[c], line[c])
  BY Zenon DEF IInv, TypeOK, CallInv
<1>2. up[c].pc = "new" => up[c].holds = 0
  BY <1>1 DEF WaitOK, Fresh
<1>3. Returnable(c, up[c], y)
  BY ReturnableAsItIs
<1>4. mode = "single" /\ line[c] # c => c \notin sent
  BY <1>1 DEF SingleOK
<1>5. /\ line' = [line EXCEPT ![c] = line[c]] /\ line[c] \in Calls
      /\ UNCHANGED <<mode, ver, aborted, service, sent>>
  BY Identity DEF ghosts
<1> QED BY <1>1, <1>2, <1>3, <1>4, <1>5, ReturnStep

\* Returns(c, l) leaves the tool call alone.
LEMMA RemoteKept ==
  ASSUME IInv, NEW c \in Calls, NEW l, Returns(c, l)
  PROVE  remote' = [remote EXCEPT ![c] = remote[c]]
    /\ ReturnsWith(c, l, [remote EXCEPT ![c] = remote[c]])
<1>1. remote = [remote EXCEPT ![c] = remote[c]]
  BY Zenon DEF IInv, TypeOK
<1> QED BY <1>1, Zenon DEF Returns

\* A step of a call that goes on keeps its lock.
LEMMA GoesOn ==
  ASSUME IInv, NEW c \in Calls, NEW x \in Locals, NEW y \in ToolCalls,
         up' = [up EXCEPT ![c] = x], remote' = [remote EXCEPT ![c] = y], UNCHANGED active,
         up[c].pc \notin {"new", "returned"}, x.pc \notin {"new", "returned"},
             x.holds = up[c].holds,
         UNCHANGED <<mode, ver, aborted, service, ghosts>>,
         CallInv(c, x, y), SingleOK(c, x, line[c])
  PROVE  IInv'
<1>1. Changes(c, x, y)
  BY DEF Changes
<1>2. Locks(c, x, y)
  BY DEF Locks, Working, AtWork
<1>3. /\ line' = [line EXCEPT ![c] = line[c]] /\ line[c] \in Calls
      /\ UNCHANGED <<mode, ver, aborted, service, sent>>
  BY Identity DEF ghosts
<1> QED BY <1>1, <1>2, <1>3, LocalStep

\* A timeout or a cancellation: the lock stays with the tool call.
LEMMA StopsWaitingStep ==
  ASSUME IInv, NEW c \in Calls, StopsWaiting(c) PROVE IInv'
<1>1. Returns(c, up[c]) /\ up[c].pc # "returned"
        /\ UNCHANGED <<mode, ver, aborted, service, ghosts>>
  BY DEF StopsWaiting
<1> QED BY <1>1, RemoteKept, ReturnAsItIs

\* A local step fails.
LEMMA LocalFailureStep ==
  ASSUME IInv, NEW c \in Calls, LocalFailure(c) PROVE IInv'
<1>1. Returns(c, up[c]) /\ up[c].pc # "returned"
        /\ UNCHANGED <<mode, ver, aborted, service, ghosts>>
  BY DEF LocalFailure
<1> QED BY <1>1, RemoteKept, ReturnAsItIs

\* The link is fetched, or not.
LEMMA LinkedStep ==
  ASSUME IInv, NEW c \in Calls, Linked(c) PROVE IInv'
<1>1. /\ ReturnsWith(c, up[c], [remote EXCEPT ![c] = NoCall])
      /\ remote' = [remote EXCEPT ![c] = NoCall]
      /\ up[c].pc # "returned" /\ UNCHANGED <<mode, ver, aborted, service, ghosts>>
  BY DEF Linked, Answered, Fails, Answer
<1> QED BY <1>1, ReturnAsItIs

\* The lock ends with the tool call nobody waits for.
LEMMA LateAnswerStep ==
  ASSUME IInv, NEW c \in Calls, LateAnswer(c) PROVE IInv'
<1> DEFINE l == up[c]
<1>1. /\ l \in Locals /\ l.pc = "returned" /\ remote[c].served
      /\ CallInv(c, l, remote[c]) /\ SingleOK(c, l, line[c])
  BY Zenon DEF LateAnswer, IInv, TypeOK
<1>2. up' = [up EXCEPT ![c] = l]
  BY Zenon DEF LateAnswer, IInv, TypeOK
<1>3. Changes(c, l, NoCall)
  BY <1>1, <1>2, NoCallType DEF Changes, LateAnswer, Answer
<1>4. Locks(c, l, NoCall)
  BY <1>1, NoCallType DEF LateAnswer, Locks, Working, AtWork, CallInv, WaitOK
<1>5. CallInv(c, l, NoCall)
  <2> HIDE DEF l
  <2>1. WaitOK(l, NoCall) BY <1>1, NoCallType DEF CallInv, WaitOK, Planning
  <2>2. MakingOK(c, l, NoCall) BY <1>1, NoCallType DEF CallInv, MakingOK
  <2> QED BY <1>1, <2>1, <2>2, NoCallType DEF CallInv, ReceiptOK, AnswerOK, AsksOK
<1>6. /\ line' = [line EXCEPT ![c] = line[c]] /\ line[c] \in Calls
      /\ UNCHANGED <<mode, ver, aborted, service, sent>>
  BY Identity DEF LateAnswer, ghosts
<1> QED BY <1>1, <1>3, <1>4, <1>5, <1>6, LocalStep

\* A new upload holds nothing yet.
LEMMA StartStep ==
  ASSUME IInv, NEW c \in Calls, Start(c) PROVE IInv'
<1> DEFINE x == [Fresh EXCEPT !.pc = "open"]
           a == remote[c]
<1>1. /\ up[c] = Fresh /\ a \in ToolCalls /\ a.tool = "none"
      /\ CallInv(c, Fresh, a) /\ SingleOK(c, Fresh, line[c])
  <2>1. up[c].pc = "new" /\ CallInv(c, up[c], a) /\ SingleOK(c, up[c], line[c]) /\ a \in ToolCalls
    BY Zenon DEF Start, IInv, TypeOK
  <2>2. up[c] = Fresh /\ a.tool = "none"
    BY <2>1 DEF CallInv, WaitOK
  <2> QED BY <2>1, <2>2
<1>2. /\ x \in Locals /\ x.pc = "open" /\ x.receipt = NoReceipt /\ x.uploaded = "no" /\ x.holds = 0
      /\ x.reading = {} /\ x.sending = {} /\ x.todo = {}
  BY DEF Fresh, NoReceipt, Locals, LocalStates, Receipts
<1>3. up' = [up EXCEPT ![c] = x] /\ remote' = [remote EXCEPT ![c] = a]
  BY <1>1, Zenon DEF Start, IInv, TypeOK
<1>4. Changes(c, x, a)
  BY <1>1, <1>2, <1>3 DEF Changes
<1>5. Locks(c, x, a)
  BY <1>1, <1>2 DEF Locks, Working, AtWork, Start, Fresh
<1>6. NoReceipt.key = 0 /\ NoReceipt.version = 0 /\ NoReceipt.phase = "none"
  BY DEF NoReceipt
<1>7. ~a.served /\ ~(\E f \in flying : f.by = c) /\ c \notin made /\ c \notin sent /\ 0 <= ver
  BY <1>1 DEF CallInv, WaitOK, MakingOK, BytesOK, SingleOK, Fresh, Sending
<1>8. CallInv(c, x, a) /\ SingleOK(c, x, line[c])
  <2> HIDE DEF x, a
  <2> USE <1>1, <1>2, <1>6, <1>7
  <2>1. WaitOK(x, a) BY DEF WaitOK, Planning
  <2>2. ReceiptOK(x, a) BY DEF ReceiptOK
  <2>3. AnswerOK(x, a) BY DEF AnswerOK
  <2>4. MakingOK(c, x, a) BY DEF MakingOK
  <2>5. BytesOK(c, x) BY DEF BytesOK
  <2>6. AsksOK(x, a) BY DEF AsksOK
  <2>7. SingleOK(c, x, line[c]) BY DEF SingleOK, Fresh
  <2> QED BY <2>1, <2>2, <2>3, <2>4, <2>5, <2>6, <2>7 DEF CallInv
<1>9. /\ line' = [line EXCEPT ![c] = line[c]] /\ line[c] \in Calls
      /\ UNCHANGED <<mode, ver, aborted, service, sent>>
  BY Identity DEF Start, ghosts
<1> QED BY <1>4, <1>5, <1>8, <1>9, LocalStep

-----------------------------------------------------------------------------

\* A tool call has been answered, and the call returns.
LEMMA FailsStep ==
  ASSUME IInv, NEW c \in Calls, NEW l \in Locals, up[c].pc \notin {"new", "returned"},
         l.holds = up[c].holds,
         Fails(c, l), UNCHANGED <<mode, ver, aborted, service, ghosts>>, Returnable(c, l, NoCall)
  PROVE  IInv'
<1>1. ReturnsWith(c, l, [remote EXCEPT ![c] = NoCall]) /\ remote' = [remote EXCEPT ![c] = NoCall]
  BY DEF Fails, Answer
<1>2. /\ line' = [line EXCEPT ![c] = line[c]] /\ line[c] \in Calls
      /\ UNCHANGED <<mode, ver, aborted, service, sent>>
  BY Identity DEF ghosts
<1>3. SingleOK(c, up[c], line[c])
  BY Zenon DEF IInv
<1> QED BY <1>1, <1>2, <1>3, ReturnStep DEF SingleOK

\* A call returns, whatever its tool call does.
LEMMA ReturnsStep ==
  ASSUME IInv, NEW c \in Calls, NEW l \in Locals, up[c].pc \notin {"new", "returned"},
         l.holds = up[c].holds,
         Returns(c, l), UNCHANGED <<mode, ver, aborted, service, ghosts>>,
             Returnable(c, l, remote[c])
  PROVE  IInv'
<1>1. ReturnsWith(c, l, [remote EXCEPT ![c] = remote[c]])
        /\ remote' = [remote EXCEPT ![c] = remote[c]]
  BY RemoteKept
<1>2. /\ line' = [line EXCEPT ![c] = line[c]] /\ line[c] \in Calls
      /\ UNCHANGED <<mode, ver, aborted, service, sent>>
  BY Identity DEF ghosts
<1>3. SingleOK(c, up[c], line[c])
  BY Zenon DEF IInv
<1> QED BY <1>1, <1>2, <1>3, ReturnStep DEF SingleOK

\* A tool call that has begun.
Begun(tool) == [NoCall EXCEPT !.tool = tool]

\* A tool call that has begun is not served.
LEMMA BegunType ==
  ASSUME NEW tool \in {"url", "upload"}
  PROVE  Begun(tool) \in ToolCalls /\ Begun(tool).tool = tool /\ ~Begun(tool).served
  BY DEF Begun, NoCall, ToolCalls

\* A call asks the host, or returns as its signal is aborted.
LEMMA AsksStep ==
  ASSUME IInv, NEW c \in Calls, NEW l \in Locals, NEW tool \in {"url", "upload"}, Asks(c, l, tool),
         up[c].pc \notin {"new", "returned"}, l.holds = up[c].holds,
         UNCHANGED <<mode, ver, aborted, service, ghosts>>,
         c \in aborted => Returnable(c, l, remote[c]),
         c \notin aborted => /\ l.pc \notin {"new", "returned"}
                             /\ CallInv(c, l, Begun(tool)) /\ SingleOK(c, l, line[c])
  PROVE  IInv'
<1>1. CASE c \in aborted
  BY <1>1, ReturnsStep DEF Asks
<1>2. CASE c \notin aborted
  <2>1. /\ up' = [up EXCEPT ![c] = l] /\ remote' = [remote EXCEPT ![c] = Begun(tool)]
        /\ UNCHANGED active
    BY <1>2, Zenon DEF Asks, Begun
  <2> QED BY <1>2, <2>1, BegunType, GoesOn
<1> QED BY <1>1, <1>2

\* Where there is no link, and parts, the upload goes on.
LEMMA LookedUpStep ==
  ASSUME IInv, NEW c \in Calls, LookedUp(c) PROVE IInv'
<1> DEFINE l == up[c]
           a == remote[c]
           x == [l EXCEPT !.uploaded = "yes"]
           y == [l EXCEPT !.pc = "open", !.uploaded = "no"]
<1>1. /\ l \in Locals /\ l.pc = "lookup" /\ a.served
      /\ CallInv(c, l, a) /\ SingleOK(c, l, line[c]) /\ Returnable(c, l, NoCall)
      /\ UNCHANGED <<mode, ver, aborted, service, ghosts>>
  BY ReturnableAsItIs, Zenon DEF IInv, TypeOK, LookedUp, Answered
<1>2. CASE a.says = "found" /\ Fails(c, x)
  <2>1. /\ x \in Locals /\ x.holds = l.holds /\ x.receipt = l.receipt /\ x.pc = "lookup"
        /\ x.uploaded = "yes"
    BY <1>1 DEF Locals
  <2>2. Returnable(c, x, NoCall)
    <3> HIDE DEF x, l, a
    <3>1. l.receipt.key # 0 /\ a.tool = "url"
      BY <1>1 DEF CallInv, ReceiptOK, WaitOK
    <3>2. objects[l.receipt.key].whole
      BY <1>1, <1>2, <3>1 DEF CallInv, AnswerOK
    <3> QED BY <1>1, <2>1, <3>1, <3>2, NoCallType
            DEF Returnable, ReceiptOK, AnswerOK, BytesOK, AsksOK
  <2> QED BY <1>1, <1>2, <2>1, <2>2, FailsStep
<1>3. CASE MayUploadAgain(l.receipt) /\ Continues(c, y)
  <2>1. /\ y \in Locals /\ y.holds = l.holds /\ y.receipt = l.receipt /\ y.pc = "open"
        /\ y.uploaded = "no" /\ y.reading = l.reading /\ y.sending = l.sending
    BY <1>1 DEF Locals, LocalStates
  <2>2. CallInv(c, y, NoCall) /\ SingleOK(c, y, line[c])
    <3> HIDE DEF y, l, a
    <3> USE <1>1, <1>3, <2>1, NoCallType DEF CallInv
    <3>1. WaitOK(y, NoCall) BY DEF WaitOK, Planning
    <3>2. ReceiptOK(y, NoCall) BY DEF ReceiptOK, MayUploadAgain
    <3>3. AnswerOK(y, NoCall) BY DEF AnswerOK
    <3>4. MakingOK(c, y, NoCall) BY DEF MakingOK, MayUploadAgain
    <3>5. BytesOK(c, y) BY DEF BytesOK, Sending
    <3>6. AsksOK(y, NoCall) BY DEF AsksOK
    <3>7. SingleOK(c, y, line[c]) BY DEF SingleOK, MayUploadAgain, Sending
    <3> QED BY <3>1, <3>2, <3>3, <3>4, <3>5, <3>6, <3>7
  <2> QED BY <1>1, <1>3, <2>1, <2>2, NoCallType, GoesOn DEF Continues, Answer
<1>4. CASE Fails(c, l)
  BY <1>1, <1>4, FailsStep
<1> QED BY <1>2, <1>3, <1>4 DEF LookedUp

\* The lock of a new upload is taken where the version is known, and nobody has it.
LEMMA OpenStep ==
  ASSUME IInv, NEW c \in Calls, Open(c) PROVE IInv'
<1> DEFINE l == up[c]
           a == remote[c]
           fresh == l.receipt.key = 0
           x == [l EXCEPT !.pc = "snapshot", !.version = ver, !.holds = IF fresh THEN ver
               ELSE l.holds]
<1>1. /\ l \in Locals /\ l.pc = "open" /\ a \in ToolCalls
      /\ CallInv(c, l, a) /\ SingleOK(c, l, line[c]) /\ Returnable(c, l, a)
      /\ UNCHANGED <<mode, ver, aborted, service, ghosts>>
  BY ReturnableAsItIs, Zenon DEF IInv, TypeOK, Open
<1>2. CASE Returns(c, l)
  BY <1>1, <1>2, ReturnsStep
<1>3. CASE /\ IF fresh THEN ver \notin active ELSE l.receipt.version = ver
           /\ up' = [up EXCEPT ![c] = x] /\ active' = active \union {ver} /\ UNCHANGED remote
  <2>1. ver \in Versions /\ ver # 0 /\ ver <= ver
    BY DEF IInv, TypeOK, Versions
  <2>2. /\ x \in Locals /\ x.pc = "snapshot" /\ x.version = ver /\ x.holds = IF fresh THEN ver
              ELSE l.holds
        /\ x.receipt = l.receipt /\ x.uploaded = l.uploaded /\ x.reading = l.reading
        /\ x.sending = l.sending
    BY <1>1, <2>1 DEF Locals, LocalStates
  <2>3. x.holds = ver /\ (fresh => l.holds = 0) /\ a.tool = "none"
    BY <1>1, <1>3, <2>2 DEF CallInv, WaitOK, ReceiptOK
  <2>4. ~fresh => l.holds = ver /\ ver \in active
    <3>1. ~fresh => l.holds = ver
      BY <1>1, <1>3 DEF CallInv, WaitOK
    <3>2. ~fresh => AtWork(c)
      BY <1>1, <2>1, <3>1 DEF AtWork
    <3> QED BY <3>1, <3>2 DEF IInv, LockCoversWork
  <2>5. Changes(c, x, a)
    BY <1>1, <1>3, <2>2, Zenon DEF Changes, IInv, TypeOK
  <2>6. Locks(c, x, a)
    <3>1. Working(x, a)
      BY <2>1, <2>2, <2>3 DEF Working
    <3>2. CASE fresh
      BY <1>3, <2>3, <3>1, <3>2 DEF Locks, AtWork
    <3>3. CASE ~fresh
      <4>1. AtWork(c) /\ active' = active
        BY <1>1, <1>3, <2>1, <2>4, <3>3 DEF AtWork
      <4> QED BY <2>3, <2>4, <3>1, <3>3, <4>1 DEF Locks
    <3> QED BY <3>2, <3>3
  <2>7. CallInv(c, x, a) /\ SingleOK(c, x, line[c])
    <3> HIDE DEF x, l, a
    <3> USE <1>1, <2>1, <2>2, <2>3, <2>4 DEF CallInv
    <3>1. WaitOK(x, a) BY DEF WaitOK, Planning
    <3>2. ReceiptOK(x, a) BY <1>3 DEF ReceiptOK, WaitOK
    <3>3. AnswerOK(x, a) BY DEF AnswerOK, WaitOK
    <3>4. MakingOK(c, x, a) BY DEF MakingOK
    <3>5. BytesOK(c, x) BY DEF BytesOK, Sending
    <3>6. AsksOK(x, a) BY DEF AsksOK
    <3>7. SingleOK(c, x, line[c]) BY DEF SingleOK, Sending
    <3> QED BY <3>1, <3>2, <3>3, <3>4, <3>5, <3>6, <3>7
  <2>8. /\ line' = [line EXCEPT ![c] = line[c]] /\ line[c] \in Calls
        /\ UNCHANGED <<mode, ver, aborted, service, sent>>
    BY <1>1, Identity DEF ghosts
  <2> QED BY <2>5, <2>6, <2>7, <2>8, LocalStep
<1> QED BY <1>2, <1>3 DEF Open

\* Who works on the version on disk can ask for it: only older versions are spoilt.
LEMMA CurrentIsNotSpoilt ==
  ASSUME IInv, NEW k \in Keys, Spoilt(k) PROVE objects[k].version # ver
<1>1. objects[k].version < ver /\ objects[k].version \in Nat /\ ver \in Nat
  BY DEF IInv, StoreOK, TypeOK, Objects, Versions
<1> QED BY <1>1

\* The request for a plan may complete the upload: the answer is unknown from now on.
LEMMA PrepareStep ==
  ASSUME IInv, NEW c \in Calls, Prepare(c) PROVE IInv'
<1> DEFINE l == up[c]
           a == remote[c]
           x == [l EXCEPT !.pc = IF c \in aborted THEN l.pc ELSE "prepare",
                          !.uploaded = IF mode = "multipart" THEN "unknown" ELSE l.uploaded]
<1>1. /\ l \in Locals /\ l.pc = "snapshot" /\ a \in ToolCalls
      /\ CallInv(c, l, a) /\ SingleOK(c, l, line[c]) /\ Returnable(c, l, a)
      /\ UNCHANGED <<mode, ver, aborted, service, ghosts>>
  BY ReturnableAsItIs, Zenon DEF IInv, TypeOK, Prepare
<1>2. CASE Returns(c, l)
  BY <1>1, <1>2, ReturnsStep
<1>3. CASE Unchanged(l) /\ Asks(c, x, "upload")
  <2>1. /\ x \in Locals /\ x.pc = (IF c \in aborted THEN "snapshot" ELSE "prepare")
        /\ x.uploaded = (IF mode = "multipart" THEN "unknown" ELSE l.uploaded)
        /\ x.holds = l.holds /\ x.version = l.version /\ x.receipt = l.receipt
        /\ x.todo = l.todo /\ x.reading = l.reading /\ x.sending = l.sending
    BY <1>1 DEF Locals, LocalStates
  <2>2. l.holds = ver
    BY <1>1, <1>3 DEF CallInv, WaitOK, Planning, Unchanged
  <2> DEFINE b == Begun("upload")
  <2>3. b.tool = "upload" /\ ~b.served
    BY BegunType
  <2>4. Returnable(c, x, a)
    <3> HIDE DEF x, l, a
    <3> QED BY <1>1, <2>1 DEF Returnable, ReceiptOK, AnswerOK, BytesOK, AsksOK, Sending, CallInv,
               MakingOK, WaitOK
  <2>5. ASSUME c \notin aborted PROVE CallInv(c, x, b) /\ SingleOK(c, x, line[c])
    <3> HIDE DEF x, l, a, b
    <3> USE <1>1, <2>1, <2>2, <2>3, <2>5 DEF CallInv
    <3>1. WaitOK(x, b) BY DEF WaitOK, Planning
    <3>2. ReceiptOK(x, b) BY DEF ReceiptOK
    <3>3. AnswerOK(x, b) BY DEF AnswerOK
    <3>4. MakingOK(c, x, b) BY DEF MakingOK, WaitOK
    <3>5. BytesOK(c, x) BY DEF BytesOK, Sending
    <3>6. AsksOK(x, b) BY CurrentIsNotSpoilt DEF AsksOK
    <3>7. SingleOK(c, x, line[c]) BY DEF SingleOK, Sending
    <3> QED BY <3>1, <3>2, <3>3, <3>4, <3>5, <3>6, <3>7
  <2>6. x.pc \notin {"new", "returned"}
    BY <2>1
  <2> HIDE DEF x
  <2> QED BY <1>1, <1>3, <2>1, <2>4, <2>5, <2>6, AsksStep
<1> QED BY <1>2, <1>3 DEF Prepare

\* What a plan or a completion says that is not refused.
LEMMA AcceptedAnswer ==
  ASSUME IInv, NEW c \in Calls, up[c].pc \in {"prepare", "complete"}, remote[c].served,
         ~Refused(up[c], remote[c])
  PROVE  LET l == up[c]
             a == remote[c]
         IN /\ a.says \in {"plan", "whole"} /\ a.key \in Keys /\ a.key # 0
            /\ objects[a.key].version = l.version /\ l.holds = l.version /\ l.version # 0
            /\ l.version <= ver
            /\ l.receipt.key \in {0, a.key} /\ a.todo \subseteq Parts
            /\ a.says = "whole" => objects[a.key].whole
            /\ a.says = "plan" /\ mode = "multipart" => ~objects[a.key].whole /\ c \notin made
            /\ a.says = "plan" /\ mode = "single" => a.todo = {1}
            /\ l.reading = {} /\ l.sending = {}
<1> DEFINE l == up[c]
           a == remote[c]
<1>1. CallInv(c, l, a) /\ a \in ToolCalls
  BY Zenon DEF IInv, TypeOK
<1>2. a.tool = "upload" /\ l.holds = l.version /\ l.holds # 0 /\ l.holds <= ver /\ l.reading = {}
        /\ l.sending = {}
  BY <1>1 DEF CallInv, WaitOK, Planning
<1>3. a.says \in {"plan", "whole"} /\ l.receipt.key \in {0, a.key}
  BY <1>1, <1>2 DEF CallInv, AnswerOK, Refused
<1>4. a.says = "plan" /\ mode = "multipart" => c \notin made
  BY <1>1 DEF CallInv, MakingOK
<1> QED BY <1>1, <1>2, <1>3, <1>4 DEF CallInv, AnswerOK, ToolCalls

\* A plan is for the key of the receipt, or for a new one of this version.
LEMMA PlannedStep ==
  ASSUME IInv, NEW c \in Calls, Planned(c) PROVE IInv'
<1> DEFINE l == up[c]
           a == remote[c]
           w == [l EXCEPT !.receipt = Receipt(l, a, "link"), !.uploaded = "yes", !.pc = "accept"]
           x == [l EXCEPT !.receipt = Receipt(l, a, "upload"), !.pc = "upload", !.todo = a.todo]
<1>1. /\ l \in Locals /\ l.pc = "prepare" /\ a.served
      /\ CallInv(c, l, a) /\ SingleOK(c, l, line[c]) /\ Returnable(c, l, NoCall)
      /\ UNCHANGED <<mode, ver, aborted, service, ghosts>>
  BY ReturnableAsItIs, Zenon DEF IInv, TypeOK, Planned, Answered
<1>2. CASE Refused(l, a)
  BY <1>1, <1>2, FailsStep DEF Planned
<1>3. CASE ~Refused(l, a)
  <2>1. /\ a.says \in {"plan", "whole"} /\ a.key \in Keys /\ a.key # 0
        /\ objects[a.key].version = l.version /\ l.holds = l.version /\ l.version # 0
        /\ l.version <= ver
        /\ l.receipt.key \in {0, a.key} /\ a.todo \subseteq Parts
        /\ a.says = "whole" => objects[a.key].whole
        /\ a.says = "plan" /\ mode = "multipart" => ~objects[a.key].whole /\ c \notin made
        /\ a.says = "plan" /\ mode = "single" => a.todo = {1}
        /\ l.reading = {} /\ l.sending = {}
    BY <1>1, <1>3, AcceptedAnswer
  <2>2. /\ \A ph \in {"link", "upload"} : Receipt(l, a, ph) \in Receipts
        /\ \A ph : Receipt(l, a, ph).key = a.key /\ Receipt(l, a, ph).version = l.version
              /\ Receipt(l, a, ph).phase = ph
    BY <1>1, <2>1 DEF Receipt, Receipts, Locals
  <2>3. ~(\E f \in flying : f.by = c) /\ c \notin sent /\ (mode = "single" => line[c] = c)
    BY <1>1 DEF CallInv, BytesOK, SingleOK, Sending
  <2>4. CASE a.says = "whole"
    <3>1. /\ w \in Locals /\ w.pc = "accept" /\ w.uploaded = "yes" /\ w.holds = l.holds
          /\ w.version = l.version
          /\ w.receipt = Receipt(l, a, "link") /\ w.reading = {} /\ w.sending = {}
      BY <1>1, <2>1, <2>2 DEF Locals, LocalStates
    <3>2. CallInv(c, w, NoCall) /\ SingleOK(c, w, line[c])
      <4> HIDE DEF w, l, a
      <4> USE <1>1, <2>1, <2>2, <2>3, <2>4, <3>1, NoCallType DEF CallInv
      <4>1. WaitOK(w, NoCall) BY DEF WaitOK, Planning
      <4>2. ReceiptOK(w, NoCall) BY DEF ReceiptOK
      <4>3. AnswerOK(w, NoCall) BY DEF AnswerOK
      <4>4. MakingOK(c, w, NoCall) BY DEF MakingOK
      <4>5. BytesOK(c, w) BY DEF BytesOK
      <4>6. AsksOK(w, NoCall) BY DEF AsksOK
      <4>7. SingleOK(c, w, line[c]) BY DEF SingleOK
      <4> QED BY <4>1, <4>2, <4>3, <4>4, <4>5, <4>6, <4>7
    <3>3. Continues(c, w)
      BY <1>3, <2>4 DEF Planned
    <3> HIDE DEF w
    <3> QED BY <1>1, <3>1, <3>2, <3>3, NoCallType, GoesOn DEF Continues, Answer
  <2>5. CASE a.says = "plan"
    <3>1. /\ x \in Locals /\ x.pc = "upload" /\ x.uploaded = l.uploaded /\ x.holds = l.holds
          /\ x.version = l.version
          /\ x.receipt = Receipt(l, a, "upload") /\ x.reading = {} /\ x.sending = {}
          /\ x.todo = a.todo
      BY <1>1, <2>1, <2>2 DEF Locals, LocalStates
    <3>2. CallInv(c, x, NoCall) /\ SingleOK(c, x, line[c])
      <4> HIDE DEF x, l, a
      <4> USE <1>1, <2>1, <2>2, <2>3, <2>5, <3>1, NoCallType DEF CallInv
      <4>1. WaitOK(x, NoCall) BY DEF WaitOK, Planning
      <4>2. ReceiptOK(x, NoCall) BY DEF ReceiptOK
      <4>3. AnswerOK(x, NoCall) BY DEF AnswerOK
      <4>4. MakingOK(c, x, NoCall) BY DEF MakingOK
      <4>5. BytesOK(c, x) BY DEF BytesOK
      <4>6. AsksOK(x, NoCall) BY DEF AsksOK
      <4>7. SingleOK(c, x, line[c]) BY DEF SingleOK
      <4> QED BY <4>1, <4>2, <4>3, <4>4, <4>5, <4>6, <4>7
    <3>3. Returnable(c, x, NoCall)
      <4> HIDE DEF x, l, a
      <4> QED BY <1>1, <2>3, <3>1, <3>2, NoCallType DEF CallInv, Returnable, MakingOK
    <3>4. Continues(c, x) \/ Fails(c, x)
      BY <1>3, <2>5 DEF Planned
    <3> HIDE DEF x
    <3>5. CASE Continues(c, x)
      BY <1>1, <3>1, <3>2, <3>5, NoCallType, GoesOn DEF Continues, Answer
    <3>6. CASE Fails(c, x)
      BY <1>1, <3>1, <3>3, <3>6, FailsStep
    <3> QED BY <3>4, <3>5, <3>6
  <2> QED BY <2>1, <2>4, <2>5
<1> QED BY <1>2, <1>3

\* What is not one object after the completion is not made one by this call.
LEMMA CompletedStep ==
  ASSUME IInv, NEW c \in Calls, Completed(c) PROVE IInv'
<1> DEFINE l == up[c]
           a == remote[c]
           w == [l EXCEPT !.uploaded = "yes", !.receipt.phase = "link", !.pc = "accept"]
           x == [l EXCEPT !.uploaded = "no", !.receipt.phase = "upload"]
<1>1. /\ l \in Locals /\ l.pc = "complete" /\ a.served
      /\ CallInv(c, l, a) /\ SingleOK(c, l, line[c]) /\ Returnable(c, l, NoCall)
      /\ UNCHANGED <<mode, ver, aborted, service, ghosts>>
  BY ReturnableAsItIs, Zenon DEF IInv, TypeOK, Completed, Answered
<1>2. CASE Refused(l, a)
  BY <1>1, <1>2, FailsStep DEF Completed
<1>3. CASE ~Refused(l, a)
  <2>1. /\ a.says \in {"plan", "whole"} /\ a.key \in Keys
        /\ objects[a.key].version = l.version /\ l.holds = l.version /\ l.version # 0
        /\ l.receipt.key \in {0, a.key}
        /\ a.says = "whole" => objects[a.key].whole
        /\ a.says = "plan" /\ mode = "multipart" => ~objects[a.key].whole /\ c \notin made
        /\ l.reading = {} /\ l.sending = {}
    BY <1>1, <1>3, AcceptedAnswer
  <2>2. l.receipt.key = a.key /\ a.key # 0 /\ mode = "multipart"
    BY <1>1, <2>1 DEF CallInv, ReceiptOK, MakingOK, IInv, TypeOK
  <2>3. CASE a.says = "whole"
    <3>1. /\ w \in Locals /\ w.pc = "accept" /\ w.uploaded = "yes" /\ w.holds = l.holds
          /\ w.version = l.version
          /\ w.receipt.key = l.receipt.key /\ w.receipt.version = l.receipt.version
          /\ w.receipt.phase = "link"
          /\ w.reading = {} /\ w.sending = {}
      BY <1>1, <2>1 DEF Locals, LocalStates, Receipts
    <3>2. CallInv(c, w, NoCall) /\ SingleOK(c, w, line[c])
      <4> HIDE DEF w, l, a
      <4> USE <1>1, <2>1, <2>2, <2>3, <3>1, NoCallType DEF CallInv
      <4>1. WaitOK(w, NoCall) BY DEF WaitOK, Planning
      <4>2. ReceiptOK(w, NoCall) BY DEF ReceiptOK
      <4>3. AnswerOK(w, NoCall) BY DEF AnswerOK
      <4>4. MakingOK(c, w, NoCall) BY DEF MakingOK
      <4>5. BytesOK(c, w) BY DEF BytesOK, Sending
      <4>6. AsksOK(w, NoCall) BY DEF AsksOK
      <4>7. SingleOK(c, w, line[c]) BY DEF SingleOK, Sending
      <4> QED BY <4>1, <4>2, <4>3, <4>4, <4>5, <4>6, <4>7
    <3>3. Continues(c, w)
      BY <1>3, <2>3 DEF Completed
    <3> HIDE DEF w
    <3> QED BY <1>1, <3>1, <3>2, <3>3, NoCallType, GoesOn DEF Continues, Answer
  <2>4. CASE a.says = "plan"
    <3>1. /\ x \in Locals /\ x.pc = "complete" /\ x.uploaded = "no" /\ x.holds = l.holds
          /\ x.receipt.key = l.receipt.key /\ x.receipt.version = l.receipt.version
          /\ x.receipt.phase = "upload"
      BY <1>1, <2>1 DEF Locals, LocalStates, Receipts
    <3>2. Returnable(c, x, NoCall)
      <4> HIDE DEF x, l, a
      <4> QED BY <1>1, <2>1, <2>2, <2>4, <3>1, NoCallType
              DEF CallInv, Returnable, ReceiptOK, AnswerOK, BytesOK, AsksOK
    <3>3. Fails(c, x)
      BY <1>3, <2>4 DEF Completed
    <3> HIDE DEF x
    <3> QED BY <1>1, <3>1, <3>2, <3>3, FailsStep
  <2> QED BY <2>1, <2>3, <2>4
<1> QED BY <1>2, <1>3

\* A completion is asked for while the file is unchanged, and so not for spoilt parts.
LEMMA BatchEndsStep ==
  ASSUME IInv, NEW c \in Calls, BatchEnds(c) PROVE IInv'
<1> DEFINE l == up[c]
           a == remote[c]
           w == [l EXCEPT !.uploaded = "yes", !.receipt.phase = "link", !.pc = "accept"]
           x == [l EXCEPT !.pc = "complete", !.receipt.phase = "complete"]
           b == Begun("upload")
<1>1. /\ l \in Locals /\ l.pc = "upload" /\ a \in ToolCalls
      /\ CallInv(c, l, a) /\ SingleOK(c, l, line[c]) /\ Returnable(c, l, a)
      /\ UNCHANGED <<mode, ver, aborted, service, ghosts>>
  BY ReturnableAsItIs, Zenon DEF IInv, TypeOK, BatchEnds
<1>2. /\ l.reading = {} /\ l.sending = {} /\ a.tool = "none" /\ ~a.served
      /\ l.holds = l.version /\ l.receipt.key # 0
  BY <1>1 DEF BatchEnds, Running, CallInv, WaitOK, ReceiptOK, Planning
<1>3. CASE Returns(c, l)
  BY <1>1, <1>3, ReturnsStep
<1>4. CASE /\ ~l.failed /\ l.todo = {} /\ mode = "single"
           /\ up' = [up EXCEPT ![c] = w] /\ UNCHANGED <<active, remote>>
  <2>1. /\ w \in Locals /\ w.pc = "accept" /\ w.uploaded = "yes" /\ w.holds = l.holds
        /\ w.version = l.version
        /\ w.receipt.key = l.receipt.key /\ w.receipt.version = l.receipt.version
        /\ w.receipt.phase = "link"
        /\ w.reading = {} /\ w.sending = {}
    BY <1>1, <1>2 DEF Locals, LocalStates, Receipts
  <2>2. objects[l.receipt.key].whole
    BY <1>1, <1>2, <1>4 DEF CallInv, MakingOK
  <2>3. CallInv(c, w, a) /\ SingleOK(c, w, line[c])
    <3> HIDE DEF w, l, a
    <3> USE <1>1, <1>2, <1>4, <2>1, <2>2 DEF CallInv
    <3>1. WaitOK(w, a) BY DEF WaitOK, Planning
    <3>2. ReceiptOK(w, a) BY DEF ReceiptOK
    <3>3. AnswerOK(w, a) BY DEF AnswerOK
    <3>4. MakingOK(c, w, a) BY DEF MakingOK
    <3>5. BytesOK(c, w) BY DEF BytesOK, Sending
    <3>6. AsksOK(w, a) BY DEF AsksOK
    <3>7. SingleOK(c, w, line[c]) BY DEF SingleOK, Sending
    <3> QED BY <3>1, <3>2, <3>3, <3>4, <3>5, <3>6, <3>7
  <2>4. remote' = [remote EXCEPT ![c] = a]
    BY <1>4, Zenon DEF IInv, TypeOK
  <2> HIDE DEF w
  <2> QED BY <1>1, <1>4, <2>1, <2>3, <2>4, GoesOn
<1>5. CASE /\ ~l.failed /\ l.todo = {} /\ mode # "single"
           /\ Unchanged(l) /\ c \notin aborted /\ Asks(c, x, "upload")
  <2>1. /\ x \in Locals /\ x.pc = "complete" /\ x.uploaded = l.uploaded /\ x.holds = l.holds
        /\ x.version = l.version
        /\ x.receipt.key = l.receipt.key /\ x.receipt.version = l.receipt.version
        /\ x.receipt.phase = "complete"
        /\ x.reading = {} /\ x.sending = {}
    BY <1>1, <1>2 DEF Locals, LocalStates, Receipts
  <2>2. b.tool = "upload" /\ ~b.served
    BY BegunType
  <2>3. CallInv(c, x, b) /\ SingleOK(c, x, line[c])
    <3> HIDE DEF x, l, a, b
    <3> USE <1>1, <1>2, <1>5, <2>1, <2>2 DEF CallInv
    <3>1. WaitOK(x, b) BY DEF WaitOK, Planning
    <3>2. ReceiptOK(x, b) BY DEF ReceiptOK
    <3>3. AnswerOK(x, b) BY DEF AnswerOK
    <3>4. MakingOK(c, x, b) BY DEF MakingOK, IInv, TypeOK
    <3>5. BytesOK(c, x) BY DEF BytesOK, Sending
    <3>6. AsksOK(x, b) BY CurrentIsNotSpoilt DEF AsksOK, Unchanged
    <3>7. SingleOK(c, x, line[c]) BY DEF SingleOK, Sending
    <3> QED BY <3>1, <3>2, <3>3, <3>4, <3>5, <3>6, <3>7
  <2>4. x.pc \notin {"new", "returned"}
    BY <2>1
  <2> HIDE DEF x
  <2> QED BY <1>1, <1>5, <2>1, <2>3, <2>4, AsksStep
<1> QED BY <1>3, <1>4, <1>5 DEF BatchEnds

\* The object is whole, whether its link is fetched or not.
LEMMA AcceptStep ==
  ASSUME IInv, NEW c \in Calls, Accept(c) PROVE IInv'
<1> DEFINE l == up[c]
           a == remote[c]
           x == [l EXCEPT !.pc = IF c \in aborted THEN l.pc ELSE "link"]
           b == Begun("url")
<1>1. /\ l \in Locals /\ l.pc = "accept" /\ a \in ToolCalls
      /\ CallInv(c, l, a) /\ SingleOK(c, l, line[c]) /\ Returnable(c, l, a)
      /\ UNCHANGED <<mode, ver, aborted, service, ghosts>>
  BY ReturnableAsItIs, Zenon DEF IInv, TypeOK, Accept
<1>2. CASE Returns(c, l)
  BY <1>1, <1>2, ReturnsStep
<1>3. CASE Asks(c, x, "url")
  <2>1. /\ x \in Locals /\ x.pc = (IF c \in aborted THEN "accept" ELSE "link")
        /\ x.uploaded = l.uploaded
        /\ x.holds = l.holds /\ x.version = l.version /\ x.receipt = l.receipt
        /\ x.todo = l.todo /\ x.reading = l.reading /\ x.sending = l.sending
    BY <1>1 DEF Locals, LocalStates
  <2>2. b.tool = "url" /\ ~b.served
    BY BegunType
  <2>3. Returnable(c, x, a)
    <3> HIDE DEF x, l, a
    <3> QED BY <1>1, <2>1 DEF Returnable, ReceiptOK, AnswerOK, BytesOK, AsksOK, Sending
  <2>4. ASSUME c \notin aborted PROVE CallInv(c, x, b) /\ SingleOK(c, x, line[c])
    <3> HIDE DEF x, l, a, b
    <3> USE <1>1, <2>1, <2>2, <2>4 DEF CallInv
    <3>1. WaitOK(x, b) BY DEF WaitOK, Planning
    <3>2. ReceiptOK(x, b) BY DEF ReceiptOK
    <3>3. AnswerOK(x, b) BY DEF AnswerOK
    <3>4. MakingOK(c, x, b) BY DEF MakingOK
    <3>5. BytesOK(c, x) BY DEF BytesOK, Sending
    <3>6. AsksOK(x, b) BY DEF AsksOK
    <3>7. SingleOK(c, x, line[c]) BY DEF SingleOK, Sending
    <3> QED BY <3>1, <3>2, <3>3, <3>4, <3>5, <3>6, <3>7
  <2>5. x.pc \notin {"new", "returned"}
    BY <2>1
  <2> HIDE DEF x
  <2> QED BY <1>1, <1>3, <2>1, <2>3, <2>4, <2>5, AsksStep
<1> QED BY <1>2, <1>3 DEF Accept

\* A receipt that was handed out is true of its object, and its version is locked unless
\* another has it.
LEMMA ResumeStep ==
  ASSUME IInv, NEW c \in Calls, NEW d \in Calls, Resume(c, d) PROVE IInv'
<1>1. PICK r \in Handed(d) :
        LET x == [up[c] EXCEPT !.pc = "lookup", !.receipt = r,
                               !.uploaded = IF r.phase = "link" THEN "yes" ELSE "unknown"]
        IN /\ up[c].pc = "new"
           /\ line' = [line EXCEPT ![c] = line[d]]
           /\ IF r.version \in active \/ c \in aborted
              THEN Returns(c, x)
              ELSE /\ up' = [up EXCEPT ![c] = [x EXCEPT !.holds = r.version]]
                   /\ active' = active \union {r.version}
                   /\ remote' = [remote EXCEPT ![c] = [NoCall EXCEPT !.tool = "url"]]
           /\ UNCHANGED <<mode, ver, aborted, service, sent>>
  BY Zenon DEF Resume
<1> DEFINE l == up[c]
           a == remote[c]
           x == [up[c] EXCEPT !.pc = "lookup", !.receipt = r,
                              !.uploaded = IF r.phase = "link" THEN "yes" ELSE "unknown"]
           w == [x EXCEPT !.holds = r.version]
           b == Begun("url")
<1>2. /\ r \in Receipts /\ r.key # 0 /\ r.version # 0 /\ r.version \in Versions
      /\ objects[r.key].version = r.version /\ r.version <= ver
      /\ r.phase = "link" => objects[r.key].whole
  <2>1. up[d] \in Locals /\ CallInv(d, up[d], remote[d]) /\ r = up[d].receipt /\ r.key # 0
    BY DEF Handed, IInv, TypeOK
  <2> QED BY <2>1 DEF CallInv, ReceiptOK, Locals, Receipts
<1>3. /\ l \in Locals /\ l.pc = "new" /\ l.holds = 0 /\ a \in ToolCalls /\ line[d] \in Calls
      /\ a.tool = "none"
      /\ CallInv(c, l, a) /\ SingleOK(c, l, line[c]) /\ Returnable(c, l, a)
  <2>1. CallInv(c, l, a) /\ SingleOK(c, l, line[c]) /\ l.pc = "new"
    BY <1>1, Zenon DEF IInv
  <2> QED BY <2>1, ReturnableAsItIs DEF IInv, TypeOK, CallInv, WaitOK, Fresh
<1>4. l.reading = {} /\ l.sending = {} /\ ~a.served
  BY <1>3 DEF CallInv, WaitOK
<1>5. ~(\E f \in flying : f.by = c) /\ c \notin sent /\ c \notin made
  BY <1>3 DEF CallInv, BytesOK, MakingOK, SingleOK, Sending
<1>6. /\ x \in Locals /\ x.pc = "lookup" /\ x.receipt = r /\ x.holds = 0
      /\ x.uploaded = (IF r.phase = "link" THEN "yes" ELSE "unknown")
      /\ x.reading = {} /\ x.sending = {}
  BY <1>2, <1>3, <1>4 DEF Locals, LocalStates
<1>7. /\ w \in Locals /\ w.pc = "lookup" /\ w.receipt = r /\ w.holds = r.version
      /\ w.uploaded = x.uploaded /\ w.reading = {} /\ w.sending = {}
  <2> HIDE DEF x
  <2> QED BY <1>2, <1>6 DEF Locals, LocalStates
<1>8. CASE r.version \in active \/ c \in aborted
  <2>1. Returnable(c, x, a)
    <3> HIDE DEF x, l, a
    <3> QED BY <1>2, <1>3, <1>4, <1>5, <1>6 DEF Returnable, ReceiptOK, AnswerOK, BytesOK, AsksOK
  <2>2. Returns(c, x) /\ line' = [line EXCEPT ![c] = line[d]]
          /\ UNCHANGED <<mode, ver, aborted, service, sent>>
    BY <1>1, <1>8
  <2> HIDE DEF x
  <2> QED BY <1>3, <1>5, <1>6, <2>1, <2>2, RemoteKept, ReturnStep
<1>9. CASE r.version \notin active /\ c \notin aborted
  <2>1. b \in ToolCalls /\ b.tool = "url" /\ ~b.served
    BY BegunType
  <2>2. Changes(c, w, b)
    BY <1>1, <1>7, <1>9, <2>1 DEF Changes, Begun
  <2>3. Locks(c, w, b)
    BY <1>1, <1>2, <1>3, <1>7, <1>9, <2>1 DEF Locks, Working, AtWork
  <2>4. CallInv(c, w, b) /\ SingleOK(c, w, line[d])
    <3> HIDE DEF w, x, l, a, b
    <3> USE <1>2, <1>3, <1>5, <1>6, <1>7, <2>1 DEF CallInv
    <3>1. WaitOK(w, b) BY DEF WaitOK, Planning
    <3>2. ReceiptOK(w, b) BY DEF ReceiptOK
    <3>3. AnswerOK(w, b) BY DEF AnswerOK
    <3>4. MakingOK(c, w, b) BY DEF MakingOK
    <3>5. BytesOK(c, w) BY DEF BytesOK, Sending
    <3>6. AsksOK(w, b) BY DEF AsksOK
    <3>7. SingleOK(c, w, line[d]) BY DEF SingleOK, Sending
    <3> QED BY <3>1, <3>2, <3>3, <3>4, <3>5, <3>6, <3>7
  <2> HIDE DEF w
  <2> QED BY <1>1, <1>3, <2>2, <2>3, <2>4, LocalStep
<1> QED BY <1>8, <1>9

-----------------------------------------------------------------------------

\* A worker's step that only changes the state of its call.
LEMMA WorkerStep ==
  ASSUME IInv, NEW c \in Calls, NEW x \in Locals, up' = [up EXCEPT ![c] = x],
         UNCHANGED <<mode, ver, active, remote, aborted, service, ghosts>>,
         up[c].pc = "upload", x.pc = "upload", x.holds = up[c].holds, x.version = up[c].version,
         x.receipt = up[c].receipt, x.uploaded \in {up[c].uploaded, "unknown"},
         mode = "single" => /\ x.reading = {} /\ x.todo \union x.sending \subseteq {1}
                            /\ ~x.failed /\ 1 \notin x.todo /\ 1 \notin x.sending
                                  => objects[x.receipt.key].whole
  PROVE  IInv'
<1> DEFINE l == up[c]
           a == remote[c]
<1>1. CallInv(c, l, a) /\ SingleOK(c, l, line[c]) /\ a \in ToolCalls
  BY Zenon DEF IInv, TypeOK
<1>2. remote' = [remote EXCEPT ![c] = a]
  BY Zenon DEF IInv, TypeOK
<1>3. CallInv(c, x, a) /\ SingleOK(c, x, line[c])
  <2> HIDE DEF l, a
  <2> USE <1>1 DEF CallInv
  <2>0. /\ l.pc = "upload" /\ x.holds = l.holds /\ x.version = l.version
        /\ x.receipt = l.receipt /\ x.uploaded \in {l.uploaded, "unknown"}
    BY DEF l
  <2>1. WaitOK(x, a) BY <2>0 DEF WaitOK, Planning
  <2>2. ReceiptOK(x, a) BY <2>0 DEF ReceiptOK
  <2>3. AnswerOK(x, a) BY <2>0 DEF AnswerOK
  <2>4. MakingOK(c, x, a) BY <2>0 DEF MakingOK
  <2>5. BytesOK(c, x) BY <2>0 DEF BytesOK
  <2>6. AsksOK(x, a) BY <2>0 DEF AsksOK
  <2>7. SingleOK(c, x, line[c]) BY <2>0 DEF SingleOK
  <2> QED BY <2>1, <2>2, <2>3, <2>4, <2>5, <2>6, <2>7
<1> QED BY <1>1, <1>2, <1>3, GoesOn

\* A part that was read to its end.
LEMMA PartReadStep ==
  ASSUME IInv, NEW c \in Calls, NEW p \in Parts, PartRead(c, p) PROVE IInv'
<1> DEFINE l == up[c]
           x == [l EXCEPT !.reading = l.reading \ {p}, !.sending = l.sending \union {p}]
<1>1. l \in Locals /\ CallInv(c, l, remote[c])
  BY Zenon DEF IInv, TypeOK
<1>2. up' = [up EXCEPT ![c] = x] /\ p \in l.reading
  BY <1>1 DEF PartRead, IInv, TypeOK, Locals
<1>3. l.pc = "upload" /\ mode # "single"
  BY <1>1, <1>2 DEF CallInv, WaitOK, MakingOK
<1>4. x \in Locals /\ x.pc = l.pc /\ x.holds = l.holds /\ x.version = l.version
        /\ x.receipt = l.receipt /\ x.uploaded = l.uploaded
  BY <1>1 DEF Locals
<1>5. UNCHANGED <<mode, ver, active, remote, aborted, service, ghosts>>
  BY DEF PartRead
<1> HIDE DEF x
<1> QED BY <1>2, <1>3, <1>4, <1>5, WorkerStep

\* A part that has arrived; of a small file it is the object.
LEMMA PartStoredStep ==
  ASSUME IInv, NEW c \in Calls, NEW p \in Parts, PartStored(c, p) PROVE IInv'
<1> DEFINE l == up[c]
           x == [l EXCEPT !.sending = l.sending \ {p}]
<1>1. l \in Locals /\ CallInv(c, l, remote[c])
  BY Zenon DEF IInv, TypeOK
<1>2. /\ up' = [up EXCEPT ![c] = x] /\ p \in l.sending /\ p \in objects[l.receipt.key].parts
      /\ UNCHANGED <<mode, ver, active, remote, aborted, service, ghosts>>
  BY <1>1 DEF PartStored, IInv, TypeOK, Locals
<1>3. l.pc = "upload" /\ l.receipt.key \in Keys
  BY <1>1, <1>2 DEF CallInv, WaitOK, ReceiptOK, Locals, Receipts
<1>4. /\ x \in Locals /\ x.pc = l.pc /\ x.holds = l.holds /\ x.version = l.version
      /\ x.receipt = l.receipt
      /\ x.uploaded = l.uploaded /\ x.reading = l.reading /\ x.todo = l.todo
      /\ x.sending = l.sending \ {p}
  BY <1>1 DEF Locals
<1>5. mode = "single" => objects[l.receipt.key].whole /\ x.reading = {}
        /\ x.todo \union x.sending \subseteq {1}
  <2> HIDE DEF x
  <2> QED BY <1>1, <1>2, <1>3, <1>4 DEF IInv, StoreOK, CallInv, MakingOK
<1> HIDE DEF x
<1> QED BY <1>2, <1>3, <1>4, <1>5, WorkerStep

\* A PUT that failed ends the batch.
LEMMA PartFailedStep ==
  ASSUME IInv, NEW c \in Calls, NEW p \in Parts, PartFailed(c, p) PROVE IInv'
<1> DEFINE l == up[c]
           x == [l EXCEPT !.reading = l.reading \ {p}, !.sending = l.sending \ {p}, !.failed = TRUE]
<1>1. l \in Locals /\ CallInv(c, l, remote[c])
  BY Zenon DEF IInv, TypeOK
<1>2. /\ up' = [up EXCEPT ![c] = x] /\ p \in Running(l)
      /\ UNCHANGED <<mode, ver, active, remote, aborted, service, ghosts>>
  BY <1>1 DEF PartFailed, IInv, TypeOK, Locals
<1>3. l.pc = "upload"
  BY <1>1, <1>2 DEF CallInv, WaitOK, Running
<1>4. /\ x \in Locals /\ x.pc = l.pc /\ x.holds = l.holds /\ x.version = l.version
      /\ x.receipt = l.receipt
      /\ x.uploaded = l.uploaded /\ x.reading = l.reading \ {p} /\ x.todo = l.todo
      /\ x.sending = l.sending \ {p} /\ x.failed
  BY <1>1 DEF Locals
<1>5. mode = "single" => x.reading = {} /\ x.todo \union x.sending \subseteq {1}
  <2> HIDE DEF x
  <2> QED BY <1>1, <1>3, <1>4 DEF CallInv, MakingOK
<1> HIDE DEF x
<1> QED BY <1>2, <1>3, <1>4, <1>5, WorkerStep

\* The bytes of a part go to the key of the receipt.
LEMMA TakePartStep ==
  ASSUME IInv, NEW c \in Calls, NEW p \in Parts, TakePart(c, p) PROVE IInv'
<1> DEFINE l == up[c]
           a == remote[c]
           w == [NowUnknown(l) EXCEPT !.todo = l.todo \ {p}]
           z == [w EXCEPT !.failed = TRUE]
           x == IF mode = "single" THEN [w EXCEPT !.sending = {p}]
               ELSE [w EXCEPT !.reading = w.reading \union {p}]
           g == [key |-> w.receipt.key, part |-> p, by |-> c, mixed |-> FALSE]
<1>1. /\ l \in Locals /\ l.pc = "upload" /\ p \in l.todo /\ a \in ToolCalls
      /\ CallInv(c, l, a) /\ SingleOK(c, l, line[c])
      /\ UNCHANGED <<mode, ver, active, remote, aborted, objects, current, made, line>>
  BY Zenon DEF IInv, TypeOK, TakePart
<1>2. /\ w \in Locals /\ w.pc = "upload" /\ w.holds = l.holds /\ w.version = l.version
      /\ w.receipt = l.receipt
      /\ w.uploaded = "unknown" /\ w.reading = l.reading /\ w.todo = l.todo \ {p}
      /\ w.sending = l.sending
  BY <1>1 DEF Locals, NowUnknown
<1>3. w = [NowUnknown(up[c]) EXCEPT !.todo = @ \ {p}]
  BY <1>1 DEF NowUnknown, Locals
<1>4. CASE mode = "multipart" /\ up' = [up EXCEPT ![c] = z] /\ UNCHANGED <<flying, sent>>
  <2>1. /\ z \in Locals /\ z.pc = "upload" /\ z.holds = l.holds /\ z.version = l.version
        /\ z.receipt = l.receipt
        /\ z.uploaded = "unknown"
    <3> HIDE DEF w
    <3> QED BY <1>2 DEF Locals
  <2> HIDE DEF z
  <2> QED BY <1>1, <1>4, <2>1, WorkerStep DEF service, ghosts
<1>5. CASE up' = [up EXCEPT ![c] = x] /\ flying' = flying \union {g} /\ sent' = sent \union {c}
  <2>1. /\ x \in Locals /\ x.pc = "upload" /\ x.holds = l.holds /\ x.version = l.version
        /\ x.receipt = l.receipt
        /\ x.uploaded = "unknown" /\ x.todo = l.todo \ {p}
        /\ mode = "single" => x.sending = {p} /\ x.reading = l.reading
    <3> HIDE DEF w
    <3> QED BY <1>2 DEF Locals
  <2>2. l.receipt.key \in Keys /\ l.receipt.key # 0
    BY <1>1 DEF CallInv, ReceiptOK, Locals, Receipts
  <2>3. g \in Bytes /\ g.key = l.receipt.key /\ g.by = c /\ ~g.mixed
    <3> HIDE DEF w
    <3> QED BY <1>2, <2>2 DEF Bytes
  <2>4. mode = "single" => p = 1 /\ x.todo \subseteq {1} /\ x.sending = {1} /\ x.reading = {}
          /\ line[c] = c
    <3> HIDE DEF x, w
    <3> QED BY <1>1, <2>1 DEF CallInv, MakingOK, SingleOK
  <2> HIDE DEF x, w, g
  <2>5. remote' = [remote EXCEPT ![c] = a]
    BY <1>1, Zenon DEF IInv, TypeOK
  <2>6. LockCoversWork' /\ active' \subseteq Versions
    <3>1. Changes(c, x, a)
      BY <1>1, <1>5, <2>1, <2>5 DEF Changes
    <3>2. Locks(c, x, a)
      BY <1>1, <2>1 DEF Locks, Working, AtWork
    <3> QED BY <3>1, <3>2, LockStep DEF IInv
  <2>7. TypeOK'
    BY <1>1, <1>5, <2>1, <2>3, <2>6 DEF IInv, TypeOK
  <2>8. \A k \in Keys : Spoilt(k)' <=> Spoilt(k)
    BY <1>1, <1>5, <2>3 DEF Spoilt
  <2>9. StoreOK'
    <3>1. objects[g.key].version # 0
      BY <1>1, <2>2, <2>3 DEF CallInv, ReceiptOK
    <3> QED BY <1>1, <1>5, <2>8, <3>1 DEF IInv, StoreOK
  <2>10. ASSUME NEW d \in Calls PROVE CallInv(d, up[d], remote[d])' /\ SingleOK(d, up[d], line[d])'
    <3>1. CallInv(d, up[d], remote[d]) /\ SingleOK(d, up[d], line[d])
      BY Zenon DEF IInv
    <3>2. /\ d # c => up'[d] = up[d]
          /\ up'[c] = x
          /\ remote'[d] = remote[d]
      BY <1>1, <1>5, Zenon DEF IInv, TypeOK
    <3>3. CASE d # c
      <4> USE <1>1, <1>5, <3>1, <3>2, <3>3 DEF CallInv
      <4>1. WaitOK(up[d], remote[d])' BY Zenon DEF WaitOK, Fresh, NoReceipt
      <4>2. ReceiptOK(up[d], remote[d])' BY Zenon DEF ReceiptOK
      <4>3. AnswerOK(up[d], remote[d])' BY Zenon DEF AnswerOK
      <4>4. MakingOK(d, up[d], remote[d])' BY Zenon DEF MakingOK
      <4>5. BytesOK(d, up[d])' BY <2>3 DEF BytesOK
      <4>6. AsksOK(up[d], remote[d])' BY <2>8, Zenon DEF AsksOK
      <4>7. SingleOK(d, up[d], line[d])' BY DEF SingleOK
      <4> QED BY <4>1, <4>2, <4>3, <4>4, <4>5, <4>6, <4>7
    <3>4. CASE d = c
      <4> HIDE DEF l, a
      <4>0. up'[c] = x /\ remote'[c] = a /\ a.tool = "none" /\ ~a.served
        BY <1>1, <3>2, <3>4 DEF a, CallInv, WaitOK
      <4> USE <1>1, <1>5, <2>1, <2>2, <2>4, <4>0 DEF CallInv
      <4>1. WaitOK(up[c], remote[c])' BY DEF WaitOK, Planning
      <4>2. ReceiptOK(up[c], remote[c])' BY DEF ReceiptOK
      <4>3. AnswerOK(up[c], remote[c])' BY DEF AnswerOK
      <4>4. MakingOK(c, up[c], remote[c])' BY DEF MakingOK
      <4>5. BytesOK(c, up[c])' BY <2>3 DEF BytesOK, Sending
      <4>6. AsksOK(up[c], remote[c])' BY DEF AsksOK
      <4>7. SingleOK(c, up[c], line[c])' BY DEF SingleOK, Sending
      <4> QED BY <3>4, <4>1, <4>2, <4>3, <4>4, <4>5, <4>6, <4>7
    <3> QED BY <3>3, <3>4
  <2> QED BY <2>6, <2>7, <2>9, <2>10 DEF IInv
<1> QED BY <1>3, <1>4, <1>5 DEF TakePart, IInv, TypeOK

-----------------------------------------------------------------------------

\* The lock depends on the calls' states and on their tool calls.
LEMMA LockUntouched ==
  ASSUME IInv, UNCHANGED <<active, up>>, \A c \in Calls : remote'[c].tool = remote[c].tool
  PROVE  LockCoversWork'
<1>1. \A c \in Calls : AtWork(c)' <=> AtWork(c)
  BY DEF AtWork
<1>2. {up'[c].holds : c \in {d \in Calls : AtWork(d)'}} = {up[c].holds : c \in {d \in Calls : AtWork(d)}}
  BY <1>1
<1> QED BY <1>1, <1>2, Zenon DEF IInv, LockCoversWork

\* Two calls at work on one version are one.
LEMMA OneAtWork ==
  ASSUME IInv, NEW c \in Calls, NEW d \in Calls, up[c].holds = up[d].holds,
         remote[c].tool # "none", up[d].pc = "upload" \/ remote[d].tool # "none"
  PROVE  c = d
<1>1. WaitOK(up[c], remote[c]) /\ WaitOK(up[d], remote[d])
  BY Zenon DEF IInv, CallInv
<1>2. AtWork(c) /\ AtWork(d)
  BY <1>1 DEF WaitOK, AtWork
<1> QED BY <1>2 DEF IInv, LockCoversWork

\* A step that touches no call, no object and no bytes leaves a call in order.
LEMMA CallUntouched ==
  ASSUME IInv, NEW d \in Calls, UNCHANGED <<mode, ver, up, remote, objects, flying, made, line,
         sent>>
  PROVE  CallInv(d, up[d], remote[d])' /\ SingleOK(d, up[d], line[d])'
<1>1. CallInv(d, up[d], remote[d]) /\ SingleOK(d, up[d], line[d])
  BY Zenon DEF IInv
<1> USE <1>1 DEF CallInv
<1>2. WaitOK(up[d], remote[d])' BY Zenon DEF WaitOK, Fresh, NoReceipt
<1>3. ReceiptOK(up[d], remote[d])' BY Zenon DEF ReceiptOK
<1>4. AnswerOK(up[d], remote[d])' BY Zenon DEF AnswerOK
<1>5. MakingOK(d, up[d], remote[d])' BY Zenon DEF MakingOK
<1>6. BytesOK(d, up[d])' BY Zenon DEF BytesOK
<1>7. AsksOK(up[d], remote[d])' BY Zenon DEF AsksOK, Spoilt
<1>8. SingleOK(d, up[d], line[d])' BY Zenon DEF SingleOK
<1> QED BY <1>2, <1>3, <1>4, <1>5, <1>6, <1>7, <1>8

\* A signal is aborted.
LEMMA AbortStep ==
  ASSUME IInv, NEW c \in Calls, Abort(c) PROVE IInv'
<1>1. UNCHANGED <<mode, ver, active, up, remote, service, ghosts>> /\ aborted' = aborted \union {c}
  BY DEF Abort
<1>2. TypeOK'
  BY <1>1 DEF IInv, TypeOK, service, ghosts
<1>3. LockCoversWork'
  BY <1>1, LockUntouched
<1>4. StoreOK'
  BY <1>1, Zenon DEF IInv, StoreOK, Spoilt, service
<1>5. \A d \in Calls : CallInv(d, up[d], remote[d])' /\ SingleOK(d, up[d], line[d])'
  BY <1>1, CallUntouched DEF service, ghosts
<1> QED BY <1>2, <1>3, <1>4, <1>5 DEF IInv

\* An edit spoils what is being read: parts of a version that is the reader's alone, and no
\* object.
LEMMA EditStep ==
  ASSUME IInv, Edit PROVE IInv'
<1> DEFINE Moved(f) == [f EXCEPT !.mixed = f.mixed \/ f.part \in up[f.by].reading]
<1>1. /\ ver < MaxVersion /\ ver' = ver + 1 /\ flying' = {Moved(f) : f \in flying}
      /\ UNCHANGED <<mode, active, up, remote, aborted, objects, current, made, ghosts>>
  BY DEF Edit
<1>2. ver \in Nat /\ ver' \in Versions
  BY <1>1, SizesAssumption DEF IInv, TypeOK, Versions
<1>3. ASSUME NEW f \in flying
      PROVE  /\ Moved(f) \in Bytes /\ Moved(f).key = f.key /\ Moved(f).by = f.by
             /\ Moved(f).mixed <=> f.mixed \/ f.part \in up[f.by].reading
             /\ f.key \in Keys /\ f.by \in Calls
  BY <1>3 DEF Bytes, IInv, TypeOK
<1> HIDE DEF Moved
<1>4. TypeOK'
  BY <1>1, <1>2, <1>3 DEF IInv, TypeOK, ghosts
<1>5. LockCoversWork'
  BY <1>1, LockUntouched
\* What a call is reading belongs to an upload that only it could complete.
<1>6. ASSUME NEW k \in Keys, Spoilt(k)', ~Spoilt(k)
      PROVE  /\ mode = "multipart" /\ ~objects[k].whole
             /\ objects[k].version \in Nat /\ objects[k].version <= ver
             /\ \A d \in Calls : remote[d].tool = "upload" => up[d].holds # objects[k].version
  <2>1. PICK f \in flying : f.key = k /\ f.part \in up[f.by].reading
    BY <1>1, <1>3, <1>6 DEF Spoilt
  <2> DEFINE e == f.by
  <2>2. e \in Calls /\ CallInv(e, up[e], remote[e]) /\ up[e] \in Locals
    BY <1>3, Zenon DEF IInv, TypeOK
  <2>3. up[e].pc = "upload" /\ mode = "multipart" /\ up[e].receipt.key = k
    BY <2>1, <2>2 DEF CallInv, WaitOK, MakingOK, BytesOK, IInv, TypeOK
  <2>4. k # 0
    BY DEF Keys
  <2>5. objects[k].version = up[e].holds /\ ~objects[k].whole /\ up[e].holds <= ver
          /\ up[e].holds \in Nat
    BY <2>2, <2>3, <2>4 DEF CallInv, ReceiptOK, WaitOK, MakingOK, Locals, Versions
  <2>6. ASSUME NEW d \in Calls, remote[d].tool = "upload", up[d].holds = up[e].holds PROVE FALSE
    <3>1. d = e
      BY <2>2, <2>3, <2>6, OneAtWork
    <3>2. remote[e].tool = "none"
      BY <2>2, <2>3 DEF CallInv, WaitOK
    <3> QED BY <2>6, <3>1, <3>2
  <2> QED BY <2>3, <2>5, <2>6
<1>7. StoreOK'
  <2>1. ASSUME NEW k \in Keys, Spoilt(k)'
        PROVE  mode = "multipart" /\ ~objects[k].whole /\ objects[k].version < ver'
    <3>1. objects[k].version \in Nat
      BY DEF IInv, TypeOK, Objects, Versions
    <3>2. CASE Spoilt(k)
      <4>1. mode = "multipart" /\ ~objects[k].whole /\ objects[k].version < ver
        BY <3>2 DEF IInv, StoreOK
      <4> QED BY <1>1, <1>2, <3>1, <4>1
    <3>3. CASE ~Spoilt(k)
      BY <1>1, <1>2, <2>1, <1>6, <3>3
    <3> QED BY <3>2, <3>3
  <2> QED BY <1>1, <1>3, <2>1 DEF IInv, StoreOK
<1>8. ASSUME NEW d \in Calls PROVE CallInv(d, up[d], remote[d])' /\ SingleOK(d, up[d], line[d])'
  <2> USE <1>1 DEF CallInv
  <2>0. /\ CallInv(d, up[d], remote[d]) /\ SingleOK(d, up[d], line[d])
        /\ up[d].holds \in Nat /\ up[d].receipt.version \in Nat
    BY DEF IInv, TypeOK, Locals, Receipts, Versions
  <2>1. WaitOK(up[d], remote[d])' BY <1>2, <2>0 DEF WaitOK, Fresh, NoReceipt
  <2>2. ReceiptOK(up[d], remote[d])' BY <1>2, <2>0 DEF ReceiptOK
  <2>3. AnswerOK(up[d], remote[d])' BY <2>0, Zenon DEF AnswerOK
  <2>4. MakingOK(d, up[d], remote[d])' BY <2>0, Zenon DEF MakingOK
  <2>5. BytesOK(d, up[d])' BY <1>3, <2>0 DEF BytesOK
  <2>6. AsksOK(up[d], remote[d])'
    <3>1. ASSUME NEW k \in Keys, Spoilt(k)', remote[d].tool = "upload", ~remote[d].served
          PROVE  up[d].holds # objects[k].version
      BY <1>6, <2>0, <3>1 DEF AsksOK
    <3> QED BY <3>1 DEF AsksOK
  <2>7. SingleOK(d, up[d], line[d])' BY <2>0, Zenon DEF SingleOK, ghosts
  <2> QED BY <2>1, <2>2, <2>3, <2>4, <2>5, <2>6, <2>7
<1> QED BY <1>4, <1>5, <1>7, <1>8 DEF IInv

\* Bytes are lost.
LEMMA LoseStep ==
  ASSUME IInv, NEW f \in flying, Lose(f) PROVE IInv'
<1>1. /\ flying' = flying \ {f}
      /\ UNCHANGED <<mode, ver, active, up, remote, aborted, objects, current, made, ghosts>>
  BY DEF Lose
<1>2. TypeOK'
  BY <1>1 DEF IInv, TypeOK, ghosts
<1>3. LockCoversWork'
  BY <1>1, LockUntouched
<1>4. \A k \in Keys : Spoilt(k)' => Spoilt(k)
  BY <1>1 DEF Spoilt
<1>5. StoreOK'
  BY <1>1, <1>4 DEF IInv, StoreOK
<1>6. ASSUME NEW d \in Calls PROVE CallInv(d, up[d], remote[d])' /\ SingleOK(d, up[d], line[d])'
  <2> USE <1>1 DEF CallInv
  <2>0. CallInv(d, up[d], remote[d]) /\ SingleOK(d, up[d], line[d])
    BY Zenon DEF IInv
  <2>1. WaitOK(up[d], remote[d])' BY <2>0, Zenon DEF WaitOK, Fresh, NoReceipt
  <2>2. ReceiptOK(up[d], remote[d])' BY <2>0, Zenon DEF ReceiptOK
  <2>3. AnswerOK(up[d], remote[d])' BY <2>0, Zenon DEF AnswerOK
  <2>4. MakingOK(d, up[d], remote[d])' BY <2>0, Zenon DEF MakingOK
  <2>5. BytesOK(d, up[d])' BY <2>0 DEF BytesOK
  <2>6. AsksOK(up[d], remote[d])' BY <1>4, <2>0, Zenon DEF AsksOK
  <2>7. SingleOK(d, up[d], line[d])' BY <2>0, Zenon DEF SingleOK, ghosts
  <2> QED BY <2>1, <2>2, <2>3, <2>4, <2>5, <2>6, <2>7
<1> QED BY <1>2, <1>3, <1>5, <1>6 DEF IInv

\* The service forgets an upload.
LEMMA ExpireStep ==
  ASSUME IInv, NEW v \in Versions, Expire(v) PROVE IInv'
<1>1. /\ current' = [current EXCEPT ![v] = 0]
      /\ UNCHANGED <<mode, ver, active, up, remote, aborted, objects, flying, made, ghosts>>
  BY DEF Expire
<1>2. TypeOK'
  BY <1>1 DEF IInv, TypeOK, ghosts
<1>3. LockCoversWork'
  BY <1>1, LockUntouched
<1>4. StoreOK'
  BY <1>1 DEF IInv, StoreOK, Spoilt, TypeOK
<1>5. \A d \in Calls : CallInv(d, up[d], remote[d])' /\ SingleOK(d, up[d], line[d])'
  BY <1>1, CallUntouched DEF ghosts
<1> QED BY <1>2, <1>3, <1>4, <1>5 DEF IInv

\* An answer that is no plan changes one tool call.
LEMMA AnsweredStep ==
  ASSUME IInv, NEW c \in Calls, NEW y \in ToolCalls, remote' = [remote EXCEPT ![c] = y],
         UNCHANGED <<mode, ver, active, up, aborted, service, ghosts>>,
         y.tool = remote[c].tool, y.tool # "none", y.served, AnswerOK(up[c], y), y.says # "plan"
  PROVE  IInv'
<1>1. TypeOK'
  BY DEF IInv, TypeOK, service, ghosts
<1>2. \A d \in Calls : d # c => remote'[d] = remote[d]
  BY DEF IInv, TypeOK
<1>3. remote'[c] = y
  BY DEF IInv, TypeOK
<1>4. LockCoversWork'
  BY <1>2, <1>3, LockUntouched
<1>5. StoreOK'
  BY Zenon DEF IInv, StoreOK, Spoilt, service
<1>6. ASSUME NEW d \in Calls PROVE CallInv(d, up[d], remote[d])' /\ SingleOK(d, up[d], line[d])'
  <2> USE DEF CallInv, service, ghosts
  <2>0. CallInv(d, up[d], remote[d]) /\ SingleOK(d, up[d], line[d])
    BY Zenon DEF IInv
  <2>1. WaitOK(up[d], remote'[d]) BY <2>0, <1>2, <1>3 DEF WaitOK
  <2>2. ReceiptOK(up[d], remote'[d]) BY <2>0, <1>2, <1>3 DEF ReceiptOK
  <2>3. AnswerOK(up[d], remote'[d]) BY <2>0, <1>2, <1>3
  <2>4. MakingOK(d, up[d], remote'[d]) BY <2>0, <1>2, <1>3 DEF MakingOK
  <2>5. AsksOK(up[d], remote'[d]) BY <2>0, <1>2, <1>3 DEF AsksOK
  <2>6. WaitOK(up[d], remote[d])' BY <2>1, Zenon DEF WaitOK, Fresh, NoReceipt
  <2>7. ReceiptOK(up[d], remote[d])' BY <2>2, Zenon DEF ReceiptOK
  <2>8. AnswerOK(up[d], remote[d])' BY <2>3, Zenon DEF AnswerOK
  <2>9. MakingOK(d, up[d], remote[d])' BY <2>4, Zenon DEF MakingOK
  <2>10. AsksOK(up[d], remote[d])' BY <2>5, Zenon DEF AsksOK, Spoilt
  <2>11. BytesOK(d, up[d])' BY <2>0, Zenon DEF BytesOK
  <2>12. SingleOK(d, up[d], line[d])' BY <2>0, Zenon DEF SingleOK
  <2> QED BY <2>6, <2>7, <2>8, <2>9, <2>10, <2>11, <2>12
<1> QED BY <1>1, <1>4, <1>5, <1>6 DEF IInv

\* The tool call of c with its answer (Says).
AnsweredWith(c, what, k, todo) == [remote[c] EXCEPT !.served = TRUE, !.says = what, !.key = k,
    !.todo = todo]

\* An answer, field by field.
LEMMA SaysType ==
  ASSUME IInv, NEW c \in Calls, NEW k \in Keys \union {0}, NEW todo \in SUBSET Parts,
         NEW what \in {"found", "missing", "error", "plan", "whole"}, Says(c, what, k, todo)
  PROVE  /\ remote' = [remote EXCEPT ![c] = AnsweredWith(c, what, k, todo)]
         /\ AnsweredWith(c, what, k, todo) \in ToolCalls
         /\ AnsweredWith(c, what, k, todo).tool = remote[c].tool
         /\ AnsweredWith(c, what, k, todo).served
         /\ AnsweredWith(c, what, k, todo).says = what
         /\ AnsweredWith(c, what, k, todo).key = k
         /\ AnsweredWith(c, what, k, todo).todo = todo
<1>1. remote[c] \in ToolCalls
  BY DEF IInv, TypeOK
<1>2. remote' = [remote EXCEPT ![c] = AnsweredWith(c, what, k, todo)]
  BY DEF Says, AnsweredWith, IInv, TypeOK, ToolCalls
<1> QED BY <1>1, <1>2 DEF AnsweredWith, ToolCalls

\* A link is given of a whole object.
LEMMA ServeLinkStep ==
  ASSUME IInv, NEW c \in Calls, ServeLink(c) PROVE IInv'
<1> DEFINE what == IF objects[up[c].receipt.key].whole THEN "found" ELSE "missing"
           y == AnsweredWith(c, what, 0, {})
<1>1. /\ remote[c].tool = "url" /\ Says(c, what, 0, {})
      /\ UNCHANGED <<mode, ver, active, up, aborted, service, ghosts>>
  BY DEF ServeLink
<1>2. /\ remote' = [remote EXCEPT ![c] = y] /\ y \in ToolCalls /\ y.tool = "url" /\ y.served
      /\ y.says = what
  BY <1>1, SaysType
<1> HIDE DEF y
<1>3. AnswerOK(up[c], y)
  BY <1>2 DEF AnswerOK
<1> QED BY <1>1, <1>2, <1>3, AnsweredStep

\* A refusal says nothing of the object.
LEMMA ServeFailureStep ==
  ASSUME IInv, NEW c \in Calls, ServeFailure(c) PROVE IInv'
<1>1. PICK what \in {"error", "missing"} : Says(c, what, 0, {})
  BY DEF ServeFailure
<1> DEFINE y == AnsweredWith(c, what, 0, {})
<1>2. /\ remote' = [remote EXCEPT ![c] = y] /\ y \in ToolCalls /\ y.tool = remote[c].tool
      /\ y.served /\ y.says = what
  BY <1>1, SaysType
<1>3. remote[c].tool # "none" /\ UNCHANGED <<mode, ver, active, up, aborted, service, ghosts>>
  BY DEF ServeFailure
<1> HIDE DEF y
<1>4. AnswerOK(up[c], y)
  BY <1>1, <1>2 DEF AnswerOK
<1> QED BY <1>1, <1>2, <1>3, <1>4, AnsweredStep

\* Bytes that arrive are part of an object of their version; spoilt ones leave it as spoilt
\* as they were.
LEMMA LandStep ==
  ASSUME IInv, NEW f \in flying, Land(f) PROVE IInv'
<1> DEFINE o == objects[f.key]
           q == [o EXCEPT !.parts = o.parts \union {f.part}, !.mixed = o.mixed \/ f.mixed,
                          !.whole = o.whole \/ mode = "single"]
<1>1. /\ flying' = flying \ {f} /\ objects' = [objects EXCEPT ![f.key] = q]
      /\ made' = (IF mode = "single" THEN made \union {f.by} ELSE made)
      /\ UNCHANGED <<mode, ver, active, up, remote, aborted, current, ghosts>>
  BY DEF Land
<1>2. f \in Bytes /\ f.key \in Keys /\ f.part \in Parts /\ f.by \in Calls /\ f.mixed \in BOOLEAN
  BY DEF IInv, TypeOK, Bytes
<1>3. o \in Objects
  BY <1>2 DEF IInv, TypeOK
<1>4. /\ q \in Objects /\ q.version = o.version /\ q.parts = o.parts \union {f.part}
      /\ q.mixed <=> o.mixed \/ f.mixed
      /\ q.whole <=> o.whole \/ mode = "single"
  BY <1>2, <1>3 DEF Objects, IInv, TypeOK
<1>5. /\ objects'[f.key] = q
      /\ \A k \in Keys : k # f.key => objects'[k] = objects[k]
  BY <1>1, <1>2 DEF IInv, TypeOK
<1> HIDE DEF q
<1>6. TypeOK'
  BY <1>1, <1>2, <1>4 DEF IInv, TypeOK, ghosts
<1>7. LockCoversWork'
  BY <1>1, LockUntouched
<1>8. ASSUME NEW k \in Keys
      PROVE  /\ objects'[k].version = objects[k].version
             /\ objects[k].whole => objects'[k].whole
             /\ mode = "multipart" => (objects'[k].whole <=> objects[k].whole)
             /\ Spoilt(k)' => Spoilt(k)
  BY <1>1, <1>4, <1>5 DEF Spoilt, IInv, TypeOK
<1>9. StoreOK'
  <2>1. /\ \A g \in flying' : objects'[g.key].version # 0
        /\ \A k \in Keys : objects'[k].version = 0
              => objects'[k].parts = {} /\ ~objects'[k].whole /\ ~objects'[k].mixed
    <3>1. o.version # 0
      BY DEF IInv, StoreOK
    <3>2. \A g \in flying' : g.key \in Keys
      BY <1>1 DEF IInv, TypeOK, Bytes
    <3> QED BY <1>1, <1>4, <1>5, <1>8, <3>1, <3>2 DEF IInv, StoreOK
  <2>2. \A k \in Keys : mode = "single" /\ objects'[k].parts # {} => objects'[k].whole
    BY <1>4, <1>5 DEF IInv, StoreOK
  <2>3. \A k \in Keys : mode = "multipart" /\ objects'[k].whole => objects'[k].parts = Parts
    <3>1. mode = "multipart" /\ o.whole => o.parts \union {f.part} = Parts
      <4>1. mode = "multipart" /\ o.whole => o.parts = Parts
        BY <1>2 DEF IInv, StoreOK
      <4> QED BY <1>2, <4>1
    <3>2. mode = "multipart" /\ q.whole => q.parts = Parts
      BY <1>4, <3>1
    <3> QED BY <1>5, <3>2 DEF IInv, StoreOK
  <2>4. \A v \in Versions : current[v] # 0 => objects'[current[v]].version = v
    BY <1>8 DEF IInv, StoreOK, TypeOK
  <2>5. \A k \in Keys : Spoilt(k)' => mode = "multipart" /\ ~objects'[k].whole
          /\ objects'[k].version < ver
    BY <1>8 DEF IInv, StoreOK
  <2> QED BY <1>1, <2>1, <2>2, <2>3, <2>4, <2>5 DEF StoreOK
<1>10. ASSUME NEW d \in Calls PROVE CallInv(d, up[d], remote[d])' /\ SingleOK(d, up[d], line[d])'
  <2> USE <1>1 DEF CallInv
  <2>0. /\ CallInv(d, up[d], remote[d]) /\ SingleOK(d, up[d], line[d])
        /\ up[d].receipt.key \in Keys \union {0} /\ remote[d].key \in Keys \union {0}
    BY DEF IInv, TypeOK, Locals, Receipts, ToolCalls
  <2>1. WaitOK(up[d], remote[d])' BY <2>0, Zenon DEF WaitOK, Fresh, NoReceipt
  <2>2. ReceiptOK(up[d], remote[d])' BY <1>8, <2>0 DEF ReceiptOK
  <2>3. AnswerOK(up[d], remote[d])' BY <1>8, <2>0 DEF AnswerOK, ReceiptOK
  <2>4. MakingOK(d, up[d], remote[d])' BY <1>8, <2>0 DEF MakingOK, BytesOK, ReceiptOK, Sending
  <2>5. BytesOK(d, up[d])' BY <2>0 DEF BytesOK
  <2>6. AsksOK(up[d], remote[d])' BY <1>8, <2>0 DEF AsksOK
  <2>7. SingleOK(d, up[d], line[d])' BY <2>0, Zenon DEF SingleOK, ghosts
  <2> QED BY <2>1, <2>2, <2>3, <2>4, <2>5, <2>6, <2>7
<1> QED BY <1>6, <1>7, <1>9, <1>10 DEF IInv

\* A plan is of an object of the version that is asked for, and that object is not spoilt.
LEMMA ServePlanStep ==
  ASSUME IInv, NEW c \in Calls, NEW k \in Keys, ServePlan(c, k) PROVE IInv'
<1> DEFINE v == up[c].holds
           o == [objects[k] EXCEPT !.version = v]
           whole == mode = "multipart" /\ o.parts = Parts
           q == [o EXCEPT !.whole = o.whole \/ whole]
           todo == IF whole THEN {} ELSE AllParts \ (IF mode = "single" THEN {} ELSE o.parts)
           y == remote'[c]
<1>1. /\ remote[c].tool = "upload" /\ ~remote[c].served
      /\ (current[v] # 0 /\ k = current[v]) \/ (objects[k].version = 0)
      /\ objects' = [objects EXCEPT ![k] = q] /\ current' = [current EXCEPT ![v] = k]
      /\ made' = (IF whole /\ ~o.whole THEN made \union {c} ELSE made)
      /\ Says(c, IF whole THEN "whole" ELSE "plan", k, todo) \/ Says(c, "error", 0, {})
      /\ UNCHANGED <<mode, ver, active, up, aborted, flying, ghosts>>
  BY DEF ServePlan
<1>2. /\ CallInv(c, up[c], remote[c]) /\ up[c] \in Locals /\ remote[c] \in ToolCalls
      /\ objects[k] \in Objects
      /\ mode \in {"single", "multipart"}
  BY DEF IInv, TypeOK
<1>3. v # 0 /\ v \in Versions
  BY <1>1, <1>2 DEF CallInv, WaitOK, Locals
<1>4. /\ o \in Objects /\ o.parts = objects[k].parts /\ o.mixed = objects[k].mixed
      /\ o.whole = objects[k].whole
      /\ o.version = v
  BY <1>2, <1>3 DEF Objects
<1>5. /\ q \in Objects /\ q.parts = objects[k].parts /\ q.mixed = objects[k].mixed /\ q.version = v
      /\ q.whole <=> objects[k].whole \/ (mode = "multipart" /\ objects[k].parts = Parts)
  <2> HIDE DEF o
  <2> QED BY <1>4 DEF Objects
<1>6. whole <=> mode = "multipart" /\ objects[k].parts = Parts
  BY <1>4
<1>7. /\ objects'[k] = q
      /\ \A j \in Keys : j # k => objects'[j] = objects[j]
  BY <1>1 DEF IInv, TypeOK
<1>8. todo \subseteq Parts /\ (mode = "single" => todo = {1})
  BY <1>6, SizesAssumption DEF AllParts
<1>9. /\ remote' = [remote EXCEPT ![c] = y] /\ y \in ToolCalls /\ y.tool = "upload" /\ y.served
      /\ \/ y.says = "error"
         \/ y.says = (IF whole THEN "whole" ELSE "plan") /\ y.key = k /\ y.todo = todo
  <2> HIDE DEF whole, todo
  <2>1. CASE Says(c, "error", 0, {})
    <3> DEFINE z == AnsweredWith(c, "error", 0, {})
    <3>1. remote' = [remote EXCEPT ![c] = z] /\ z \in ToolCalls /\ z.tool = "upload" /\ z.served
            /\ z.says = "error"
      BY <1>1, <2>1, SaysType
    <3> HIDE DEF z
    <3>2. remote'[c] = z
      BY <3>1 DEF IInv, TypeOK
    <3> QED BY <3>1, <3>2
  <2>2. CASE Says(c, IF whole THEN "whole" ELSE "plan", k, todo)
    <3> DEFINE z == AnsweredWith(c, IF whole THEN "whole" ELSE "plan", k, todo)
    <3>1. /\ remote' = [remote EXCEPT ![c] = z] /\ z \in ToolCalls /\ z.tool = "upload" /\ z.served
          /\ z.says = (IF whole THEN "whole" ELSE "plan") /\ z.key = k /\ z.todo = todo
      BY <1>1, <1>8, <2>2, SaysType
    <3> HIDE DEF z
    <3>2. remote'[c] = z
      BY <3>1 DEF IInv, TypeOK
    <3> QED BY <3>1, <3>2
  <2> QED BY <1>1, <2>1, <2>2
<1>10. \A d \in Calls : d # c => remote'[d] = remote[d]
  BY <1>9 DEF IInv, TypeOK
<1> HIDE DEF q, o, y, todo, whole
\* The object is an upload of the version that is asked for, and nothing of it is spoilt.
<1>11. objects[k].version \in {0, v}
  BY <1>1, <1>3 DEF IInv, StoreOK
<1>12. ~Spoilt(k)
  <2>1. CASE objects[k].version = 0
    BY <2>1 DEF Spoilt, IInv, StoreOK
  <2>2. CASE objects[k].version = v
    BY <1>1, <1>2, <2>2 DEF CallInv, AsksOK
  <2> QED BY <1>11, <2>1, <2>2
<1>13. ASSUME NEW j \in Keys
       PROVE  /\ objects[j].version # 0 => objects'[j].version = objects[j].version
              /\ objects[j].whole => objects'[j].whole
              /\ Spoilt(j)' <=> Spoilt(j)
              /\ mode = "multipart" /\ objects'[j].whole /\ ~objects[j].whole
                    => objects'[j].version = v
  BY <1>1, <1>5, <1>7, <1>11 DEF Spoilt
<1>14. TypeOK'
  <2>1. v \in Versions /\ made' \subseteq Calls
    BY <1>1, <1>3 DEF IInv, TypeOK
  <2> QED BY <1>1, <1>5, <1>9, <2>1 DEF IInv, TypeOK, ghosts
<1>15. LockCoversWork'
  BY <1>1, <1>9, <1>10, LockUntouched
<1>16. StoreOK'
  <2>1. \A f \in flying' : objects'[f.key].version # 0
    BY <1>1, <1>13 DEF IInv, StoreOK, TypeOK, Bytes
  <2>2. \A j \in Keys : objects'[j].version = 0
            => objects'[j].parts = {} /\ ~objects'[j].whole /\ ~objects'[j].mixed
    BY <1>3, <1>5, <1>7 DEF IInv, StoreOK
  <2>3. \A j \in Keys : mode = "single" /\ objects'[j].parts # {} => objects'[j].whole
    BY <1>5, <1>7 DEF IInv, StoreOK
  <2>4. \A j \in Keys : mode = "multipart" /\ objects'[j].whole => objects'[j].parts = Parts
    BY <1>5, <1>7 DEF IInv, StoreOK
  <2>5. \A u \in Versions : current'[u] # 0 => objects'[current'[u]].version = u
    <3>1. current'[v] = k /\ \A u \in Versions : u # v => current'[u] = current[u]
      BY <1>1, <1>3 DEF IInv, TypeOK
    <3>2. ASSUME NEW u \in Versions, u # v, current[u] # 0 PROVE objects'[current[u]].version = u
      <4>1. current[u] \in Keys /\ objects[current[u]].version = u /\ u # 0
        BY <3>2 DEF IInv, TypeOK, StoreOK, Versions
      <4> QED BY <1>13, <4>1
    <3> QED BY <1>5, <1>7, <3>1, <3>2
  <2>6. ASSUME NEW j \in Keys, Spoilt(j)'
        PROVE  mode = "multipart" /\ ~objects'[j].whole /\ objects'[j].version < ver
    BY <1>7, <1>12, <1>13, <2>6 DEF IInv, StoreOK
  <2> QED BY <1>1, <2>1, <2>2, <2>3, <2>4, <2>5, <2>6 DEF StoreOK
<1>17. ASSUME NEW d \in Calls PROVE CallInv(d, up[d], remote[d])' /\ SingleOK(d, up[d], line[d])'
  <2> USE <1>1 DEF CallInv
  <2>0. /\ CallInv(d, up[d], remote[d]) /\ SingleOK(d, up[d], line[d])
        /\ up[d].receipt.key \in Keys \union {0} /\ remote[d].key \in Keys \union {0}
    BY DEF IInv, TypeOK, Locals, Receipts, ToolCalls
  <2>1. WaitOK(up[d], remote[d])'
    <3>1. WaitOK(up[d], remote'[d])
      BY <1>1, <1>9, <1>10, <2>0 DEF WaitOK
    <3> QED BY <3>1, Zenon DEF WaitOK, Fresh, NoReceipt
  <2>2. ReceiptOK(up[d], remote[d])'
    BY <1>1, <1>9, <1>10, <1>13, <2>0 DEF ReceiptOK
  <2>3. BytesOK(d, up[d])' BY <2>0, Zenon DEF BytesOK
  <2>4. SingleOK(d, up[d], line[d])' BY <2>0, Zenon DEF SingleOK, ghosts
  <2>5. CASE d # c
    <3>1. remote'[d] = remote[d] /\ (d \in made' <=> d \in made)
      BY <1>1, <1>10, <2>5
    <3>2. v = up[d].holds => ~(remote[d].tool # "none" \/ up[d].pc = "upload")
      BY <2>5, <1>1, OneAtWork
    <3>3. AnswerOK(up[d], remote[d])'
      <4>1. remote[d].tool # "none" => v # up[d].holds /\ up[d].holds # 0
        BY <2>0, <3>2 DEF WaitOK
      <4> QED BY <1>13, <2>0, <3>1, <4>1 DEF AnswerOK, ReceiptOK
    <3>4. MakingOK(d, up[d], remote[d])'
      <4>1. up[d].pc = "upload" => /\ up[d].receipt.key \in Keys
                                   /\ objects[up[d].receipt.key].version = up[d].holds
                                   /\ up[d].holds # 0 /\ v # up[d].holds
        BY <2>0, <3>2 DEF WaitOK, ReceiptOK
      <4> QED BY <1>13, <2>0, <3>1, <4>1 DEF MakingOK
    <3>5. AsksOK(up[d], remote[d])'
      BY <1>7, <1>12, <1>13, <2>0, <3>1 DEF AsksOK
    <3> QED BY <2>1, <2>2, <2>3, <2>4, <3>3, <3>4, <3>5
  <2>6. CASE d = c
    <3>1. remote'[d] = y
      BY <2>6 DEF y
    <3>2. AnswerOK(up[d], remote[d])'
      <4>1. y.says # "error" => y.key = k /\ objects'[k].version = v /\ (whole => objects'[k].whole)
        BY <1>5, <1>6, <1>7, <1>9
      <4>2. ~whole /\ mode = "multipart" => ~objects'[k].whole
        BY <1>5, <1>6, <1>7 DEF IInv, StoreOK
      <4>3. k # 0
        BY DEF Keys
      <4> QED BY <1>8, <1>9, <2>6, <3>1, <4>1, <4>2, <4>3 DEF AnswerOK
    <3>3. MakingOK(d, up[d], remote[d])'
      <4>1. remote[c].tool = "upload" /\ up[c].pc \in {"prepare", "complete", "returned"}
        BY <1>1, <1>2 DEF WaitOK, Locals, LocalStates
      <4>2. c \in made' /\ c \notin made => mode = "multipart" /\ whole
        BY <1>1, <1>6
      <4>3. mode = "multipart" => up[c].uploaded # "no"
        BY <1>1, <1>2 DEF MakingOK
      <4>4. up[c].pc \in {"prepare", "complete"} /\ mode = "multipart" /\ y.says = "plan"
                => c \notin made'
        BY <1>1, <1>2, <1>9, <4>2 DEF MakingOK
      <4> QED BY <1>9, <2>0, <2>6, <3>1, <4>1, <4>2, <4>3, <4>4 DEF MakingOK
    <3>4. AsksOK(up[d], remote[d])'
      BY <1>9, <3>1 DEF AsksOK
    <3> QED BY <2>1, <2>2, <2>3, <2>4, <3>2, <3>3, <3>4
  <2> QED BY <2>5, <2>6
<1> QED BY <1>14, <1>15, <1>16, <1>17 DEF IInv

-----------------------------------------------------------------------------

\* The inductive invariant holds in the beginning.
LEMMA InitIInv == Init => IInv
<1> SUFFICES ASSUME Init PROVE IInv
  OBVIOUS
<1>1. Fresh \in Locals /\ NoCall \in ToolCalls /\ NoReceipt \in Receipts /\ ver \in Versions
  BY SizesAssumption DEF Init, Fresh, Locals, LocalStates, NoReceipt, Receipts, NoCall, ToolCalls,
     Versions
<1>2. TypeOK
  BY <1>1 DEF Init, TypeOK, Objects
<1>3. \A c \in Calls : ~AtWork(c)
  BY DEF Init, AtWork, Fresh
<1>4. LockCoversWork
  <2>1. {d \in Calls : AtWork(d)} = {}
    BY <1>3
  <2> QED BY <1>3, <2>1 DEF LockCoversWork, Init
<1>5. StoreOK
  BY SizesAssumption DEF Init, StoreOK, Spoilt
<1>6. ASSUME NEW c \in Calls PROVE CallInv(c, up[c], remote[c]) /\ SingleOK(c, up[c], line[c])
  <2>1. up[c] = Fresh /\ remote[c] = NoCall /\ line[c] = c /\ flying = {} /\ c \notin made
          /\ c \notin sent /\ ver = 1
    BY DEF Init
  <2> QED BY <2>1 DEF CallInv, WaitOK, ReceiptOK, AnswerOK, MakingOK, BytesOK, AsksOK, SingleOK,
             Planning, Sending,
                       Fresh, NoCall, NoReceipt
<1> QED BY <1>2, <1>4, <1>5, <1>6 DEF IInv

\* The inductive invariant is about these variables.
LEMMA StutterStep == IInv /\ UNCHANGED vars => IInv'
<1> SUFFICES ASSUME IInv, UNCHANGED vars PROVE IInv'
  OBVIOUS
<1> USE DEF vars, service, ghosts
<1>1. TypeOK' BY DEF IInv, TypeOK
<1>2. LockCoversWork' BY LockUntouched
<1>3. StoreOK' BY Zenon DEF IInv, StoreOK, Spoilt
<1>4. \A d \in Calls : CallInv(d, up[d], remote[d])' /\ SingleOK(d, up[d], line[d])'
  BY CallUntouched
<1> QED BY <1>1, <1>2, <1>3, <1>4 DEF IInv

\* Every step keeps the inductive invariant.
LEMMA NextIInv == IInv /\ [Next]_vars => IInv'
<1> SUFFICES ASSUME IInv, Next PROVE IInv'
  BY StutterStep
<1>1. ASSUME NEW c \in Calls, Step(c) PROVE IInv'
  BY <1>1, StartStep, LookedUpStep, OpenStep, PrepareStep, PlannedStep, TakePartStep, PartReadStep,
     PartStoredStep,
     PartFailedStep, BatchEndsStep, CompletedStep, AcceptStep, LinkedStep, LocalFailureStep,
         StopsWaitingStep,
     LateAnswerStep, ResumeStep, Zenon DEF Step
<1>2. ASSUME NEW c \in Calls,
             Abort(c) \/ ServeLink(c) \/ ServeFailure(c) \/ \E k \in Keys : ServePlan(c, k)
      PROVE  IInv'
  BY <1>2, AbortStep, ServeLinkStep, ServeFailureStep, ServePlanStep
<1>3. ASSUME Edit \/ (\E f \in flying : Land(f) \/ Lose(f)) \/ \E v \in Versions : Expire(v) PROVE IInv'
  BY <1>3, EditStep, LandStep, LoseStep, ExpireStep
<1> QED BY <1>1, <1>2, <1>3 DEF Next

\* The inductive invariant holds in every reachable state.
LEMMA AlwaysIInv == Spec => []IInv
  BY InitIInv, NextIInv, PTL DEF Spec

\* A version is locked exactly as long as one call works on it, the tool calls nobody waits
\* for any more
\* included, and by one call only (LockCoversWork; uploader.ts:40-43, 206-212).
THEOREM LockIsExact == Spec => []LockCoversWork
<1>1. IInv => LockCoversWork
  BY DEF IInv
<1> QED BY <1>1, AlwaysIInv, PTL

\* An object that is whole has no part of which the file was edited while it was read,
\* whoever lost,
\* resumed or completed what (WholeMeansOneVersion; local-file.ts:62-76, uploader.ts:126,
\* 146, 170).
THEOREM NoMixture == Spec => []WholeMeansOneVersion
<1>1. IInv => WholeMeansOneVersion
  BY DEF IInv, StoreOK, Spoilt, WholeMeansOneVersion
<1> QED BY <1>1, AlwaysIInv, PTL

\* Of a call and those that resume it one at most sends a single PUT (SingleIsSentOnce;
\* uploader.ts:114).
THEOREM OneSinglePut == Spec => []SingleIsSentOnce
<1>1. IInv => SingleIsSentOnce
  BY DEF IInv, TypeOK, SingleOK, SingleIsSentOnce
<1> QED BY <1>1, AlwaysIInv, PTL

-----------------------------------------------------------------------------

\* The state of the promises.
said  == [c \in Calls |-> Said(c)]
whole == {k \in Keys : objects[k].whole}

\* A step of a call concerns no other call, and a call that has returned is done.
LEMMA OwnStep ==
  ASSUME IInv, NEW c \in Calls, Step(c)
  PROVE  /\ UNCHANGED <<objects, made>>
         /\ \A d \in Calls : d # c => up'[d] = up[d]
         /\ up[c].pc = "returned" => up'[c] = up[c]
<1> USE DEF ReturnsWith, Returns, Asks, Continues, Fails, Answered, service
<1>0. up \in [Calls -> Locals] /\ WaitOK(up[c], remote[c])
  BY Zenon DEF IInv, TypeOK, CallInv
<1>1. CASE Start(c) \/ LookedUp(c) \/ Open(c) \/ Prepare(c)
  BY <1>0, <1>1 DEF Start, LookedUp, Open, Prepare
<1>2. CASE Planned(c) \/ BatchEnds(c) \/ Completed(c)
  BY <1>0, <1>2 DEF Planned, BatchEnds, Completed
<1>3. CASE Accept(c) \/ Linked(c) \/ LocalFailure(c) \/ StopsWaiting(c) \/ LateAnswer(c)
  BY <1>0, <1>3 DEF Accept, Linked, LocalFailure, StopsWaiting, LateAnswer
<1>4. ASSUME NEW p \in Parts, TakePart(c, p) PROVE up[c].pc # "returned"
        /\ UNCHANGED <<objects, made>> /\ \A d \in Calls : d # c => up'[d] = up[d]
  BY <1>0, <1>4 DEF TakePart
<1>5. ASSUME NEW p \in Parts, PartRead(c, p) \/ PartStored(c, p) \/ PartFailed(c, p)
      PROVE  up[c].pc # "returned" /\ UNCHANGED <<objects, made>> /\ \A d \in Calls : d # c
          => up'[d] = up[d]
  BY <1>0, <1>5 DEF PartRead, PartStored, PartFailed, Running, WaitOK
<1>6. ASSUME NEW d \in Calls, Resume(c, d)
      PROVE  up[c].pc # "returned" /\ UNCHANGED <<objects, made>> /\ \A e \in Calls : e # c
          => up'[e] = up[e]
  BY <1>0, <1>6 DEF Resume
<1> QED BY <1>1, <1>2, <1>3, <1>4, <1>5, <1>6 DEF Step

\* What a call says when it returns is so.
LEMMA SayStep ==
  ASSUME IInv, IInv', NEW c \in Calls, UNCHANGED <<objects, made>>,
         \A d \in Calls : d # c => up'[d] = up[d], up[c].pc = "returned" => up'[c] = up[c]
  PROVE  P!Next \/ UNCHANGED P!vars
<1>0. UNCHANGED whole /\ \A d \in Calls : d # c => Said(d)' = Said(d)
  BY DEF whole, Said
<1>1. CASE Said(c)' = Said(c)
  <2>1. said' = said
    BY <1>0, <1>1, Zenon DEF said
  <2> QED BY <1>0, <2>1 DEF P!vars, said, whole
<1>2. CASE Said(c)' # Said(c)
  <2>1. up[c].pc # "returned" /\ up'[c].pc = "returned"
    BY <1>2 DEF Said
  <2>2. said[c] = <<"pending">> /\ said' = [said EXCEPT ![c] = Said(c)']
    <3>1. Said(c) = <<"pending">>
      BY <2>1 DEF Said
    <3> QED BY <1>0, <3>1 DEF said
  <2>3. ReceiptOK(up[c], remote[c])' /\ MakingOK(c, up[c], remote[c])' /\ up'[c] \in Locals
    BY Zenon DEF IInv, CallInv, TypeOK
  <2>4. CASE up'[c].uploaded = "yes"
    <3> DEFINE k == up'[c].receipt.key
    <3>1. k \in Keys /\ objects'[k].whole
      BY <2>3, <2>4 DEF ReceiptOK, Locals, Receipts, Keys, Versions
    <3>2. Said(c)' = <<"yes", k>>
      BY <2>1, <2>4 DEF Said
    <3>3. k \in whole
      BY <3>1 DEF whole
    <3> HIDE DEF k
    <3>4. P!Yes(c)
      BY <1>0, <2>2, <3>2, <3>3 DEF P!Yes, P!Say, said, whole
    <3> QED BY <3>4 DEF P!Next
  <2>5. CASE up'[c].uploaded = "no"
    <3>1. Said(c)' = <<"no">> /\ c \notin made
      BY <2>1, <2>3, <2>5 DEF Said, MakingOK
    <3>2. P!No(c)
      BY <1>0, <2>2, <3>1 DEF P!No, P!Say, said, whole
    <3> QED BY <3>2 DEF P!Next
  <2>6. CASE up'[c].uploaded = "unknown"
    <3>1. Said(c)' = <<"unknown">>
      BY <2>1, <2>6 DEF Said
    <3>2. P!Say(c, <<"unknown">>)
      BY <1>0, <2>2, <3>1 DEF P!Say, said, whole
    <3> QED BY <3>2 DEF P!Next
  <2> QED BY <2>3, <2>4, <2>5, <2>6 DEF Locals
<1> QED BY <1>1, <1>2

\* Only a call whose field says "no" has said so.
LEMMA NotSaidNo ==
  ASSUME NEW c \in Calls, up[c].uploaded # "no" PROVE Said(c) # <<"no">>
  BY DEF Said

\* Who makes an object whole has not said "no".
LEMMA MakeStep ==
  ASSUME IInv, NEW c \in Calls, NEW k \in Keys, UNCHANGED up, up[c].uploaded # "no",
         made' = made \union {c}, whole' = whole \union {k}
  PROVE  P!Next
<1>1. said' = said /\ said[c] # <<"no">>
  BY NotSaidNo DEF said, Said
<1>2. P!Make(c, k)
  BY <1>1 DEF P!Make, said, whole
<1> QED BY <1>2 DEF P!Next

\* What changes neither calls nor whole objects is no step of the promises.
LEMMA QuietStep ==
  ASSUME UNCHANGED <<up, made, whole>> PROVE UNCHANGED P!vars
  BY DEF P!vars, whole, Said

\* Every step is a step of the promises or none.
LEMMA EveryStepKeepsPromises ==
  ASSUME IInv, [Next]_vars PROVE P!Next \/ UNCHANGED P!vars
<1>1. ASSUME NEW c \in Calls, Step(c) PROVE P!Next \/ UNCHANGED P!vars
  <2>1. IInv'
    BY <1>1, NextIInv DEF Next
  <2> QED BY <1>1, <2>1, OwnStep, SayStep
<1>2. ASSUME NEW f \in flying, Land(f) PROVE P!Next \/ UNCHANGED P!vars
  <2>1. f.key \in Keys /\ f.by \in Calls /\ objects \in [Keys -> Objects]
    BY DEF IInv, TypeOK, Bytes
  <2>2. CASE mode = "single"
    <3>1. up[f.by].uploaded # "no"
      BY <2>1, <2>2 DEF IInv, CallInv, BytesOK
    <3>2. \A k \in Keys : objects'[k].whole <=> objects[k].whole \/ k = f.key
      BY <1>2, <2>1, <2>2 DEF Land, Objects
    <3>3. whole' = whole \union {f.key}
      BY <2>1, <3>2 DEF whole
    <3> QED BY <1>2, <2>1, <2>2, <3>1, <3>3, MakeStep DEF Land
  <2>3. CASE mode # "single"
    <3>1. \A k \in Keys : objects'[k].whole = objects[k].whole
      BY <1>2, <2>1, <2>3 DEF Land, Objects
    <3> QED BY <1>2, <2>3, <3>1, QuietStep DEF Land, whole
  <2> QED BY <2>2, <2>3
<1>3. ASSUME NEW c \in Calls, NEW k \in Keys, ServePlan(c, k) PROVE P!Next \/ UNCHANGED P!vars
  <2> DEFINE v == up[c].holds
             o == [objects[k] EXCEPT !.version = v]
             all == mode = "multipart" /\ o.parts = Parts
  <2>1. objects[k] \in Objects /\ objects \in [Keys -> Objects] /\ CallInv(c, up[c], remote[c])
    BY DEF IInv, TypeOK
  <2>2. o.whole = objects[k].whole
    BY <2>1 DEF Objects
  <2>3. \A j \in Keys : objects'[j].whole <=> objects[j].whole \/ (j = k /\ all)
    BY <1>3, <2>1, <2>2 DEF ServePlan, Objects
  <2>4. made' = IF all /\ ~objects[k].whole THEN made \union {c} ELSE made
    BY <1>3, <2>2 DEF ServePlan
  <2>5. UNCHANGED up
    BY <1>3 DEF ServePlan
  <2>6. CASE all /\ ~objects[k].whole
    <3>1. up[c].uploaded # "no"
      BY <1>3, <2>1, <2>6 DEF ServePlan, CallInv, MakingOK
    <3> HIDE DEF all
    <3>2. whole' = whole \union {k}
      BY <2>3, <2>6 DEF whole
    <3> QED BY <2>4, <2>5, <2>6, <3>1, <3>2, MakeStep
  <2>7. CASE ~(all /\ ~objects[k].whole)
    <3> HIDE DEF all
    <3>1. whole' = whole
      BY <2>3, <2>7 DEF whole
    <3> QED BY <2>4, <2>5, <2>7, <3>1, QuietStep
  <2> QED BY <2>6, <2>7
<1>4. ASSUME UNCHANGED <<up, objects, made>> PROVE UNCHANGED P!vars
  BY <1>4, QuietStep DEF whole
<1>5. CASE UNCHANGED vars
  BY <1>4, <1>5 DEF vars, service
<1>6. ASSUME NEW c \in Calls, Abort(c) \/ ServeLink(c) \/ ServeFailure(c) PROVE UNCHANGED P!vars
  BY <1>4, <1>6 DEF Abort, ServeLink, ServeFailure, service
<1>7. ASSUME Edit \/ (\E f \in flying : Lose(f)) \/ \E v \in Versions : Expire(v) PROVE UNCHANGED P!vars
  BY <1>4, <1>7 DEF Edit, Lose, Expire
<1> QED BY <1>1, <1>2, <1>3, <1>5, <1>6, <1>7, Zenon DEF Next

\* Uploads implement UploadPromises: "yes" is said of a whole object, "no" only where
\* nothing the call
\* has begun can make an object whole any more, and an answer is final (uploader.ts:15-17,
\* 100-200).
THEOREM UploaderKeepsPromises == Spec => AnswersArePromises
<1>1. Init => P!Init
  BY DEF Init, P!Init, Said, Fresh
<1>2. IInv /\ [Next]_vars => [P!Next]_(P!vars)
  BY EveryStepKeepsPromises
<1> QED BY <1>1, <1>2, AlwaysIInv, PTL DEF Spec, AnswersArePromises, P!Spec

-----------------------------------------------------------------------------
(* One PUT: for each place of the main function, where the pump, the request *)
(* and the response can be. The function leaves its race only with an error  *)
(* or with both halves done, and an error is never taken back.               *)

PutTypeOK ==
  /\ pc \in {"start", "resolving", "racing", "finally", "returned"}
  /\ error \in {"none", "cancelled", "timeout", "network-error", "invalid-target",
        "invalid-headers", "redirect", "http-error"}
  /\ signalled \in BOOLEAN /\ late \in BOOLEAN /\ timer \in BOOLEAN
  /\ request \in {"none", "open", "closed"}
  /\ response \in {"none", "refused", "early", "open", "ended", "gone"}
  /\ pump \in {"none", "reading", "writing", "ending", "done", "failed"}
  /\ count \in Nat
  /\ iterator \in {"open", "returned"}

\* Nothing is written past the size, and the body ends only at it.
PutBodyOK ==
  /\ count <= Size
  /\ pump = "writing" => count < Size
  /\ pump \in {"ending", "done"} => count = Size
  /\ pump = "failed" => Stopped

\* Before the request there is no body and no answer; an answer that counts comes after the body.
PutAnswerOK ==
  /\ pc \in {"start", "resolving"} => pump = "none" /\ request = "none"
  /\ request = "none" => response = "none"
  /\ response \in {"open", "ended"} => Sent
  /\ response \in {"refused", "early", "gone"} => Stopped

\* The race goes on until there is an error, or both halves are done.
PutRaceOK ==
  /\ pc \in {"start", "resolving", "racing"} => ~Stopped
  /\ pc \in {"finally", "returned"} /\ ~Stopped => Sent /\ response = "ended"
  /\ pc = "returned" => ~Pumping /\ request # "open" /\ ~timer /\ iterator = "returned"

PutIInv == PutTypeOK /\ PutBodyOK /\ PutAnswerOK /\ PutRaceOK /\ CauseIsTrue

\* The invariant of a PUT holds in the beginning.
LEMMA InitPut == PutInit => PutIInv
<1> SUFFICES ASSUME PutInit PROVE PutIInv
  OBVIOUS
<1> USE SizeAssumption DEF PutInit, Stopped, Sent, Pumping
<1>1. PutTypeOK      BY DEF PutTypeOK
<1>2. PutBodyOK      BY DEF PutBodyOK
<1>3. PutAnswerOK    BY DEF PutAnswerOK
<1>4. PutRaceOK      BY DEF PutRaceOK
<1>5. CauseIsTrue BY DEF CauseIsTrue
<1> QED BY <1>1, <1>2, <1>3, <1>4, <1>5 DEF PutIInv

\* Every step of a PUT keeps its invariant.
LEMMA StepPut == PutIInv /\ [PutNext]_putVars => PutIInv'
<1> SUFFICES ASSUME PutIInv, [PutNext]_putVars PROVE PutIInv'
  OBVIOUS
<1> USE SizeAssumption DEF PutIInv, PutTypeOK, PutBodyOK, PutAnswerOK, PutRaceOK, CauseIsTrue,
        Stopped, Sent, Pumping, wire, body
<1>0. CASE BadTarget  BY <1>0 DEF BadTarget
<1>1. CASE Begin      BY <1>1 DEF Begin
<1>2. CASE Resolved   BY <1>2 DEF Resolved
<1>3. CASE Unresolved \/ NotPublic BY <1>3 DEF Unresolved, NotPublic, Stop, First
<1>4. CASE CallerAborts      BY <1>4 DEF CallerAborts, Stop, First
<1>5. CASE Deadline   BY <1>5 DEF Deadline, Stop, First
<1>6. CASE Piece      BY <1>6 DEF Piece, PumpFails, Stop, First
<1>7. CASE EndOfBody  BY <1>7 DEF EndOfBody, Exact, PumpFails, Stop, First
<1>8. CASE BodyFails  BY <1>8 DEF BodyFails, PumpFails, Stop, First
<1>9. CASE Written    BY <1>9 DEF Written
<1>10. CASE Ended     BY <1>10 DEF Ended
<1>11. CASE Interrupted BY <1>11 DEF Interrupted, GivenUp
<1>12. CASE Answers
  <2>1. ASSUME NEW status \in {"redirect", "error", "success"}, Headers(status) PROVE PutIInv'
    <3>1. CASE status = "redirect"  BY <2>1, <3>1 DEF Headers, Stop, First
    <3>2. CASE status = "error"     BY <2>1, <3>2 DEF Headers, Stop, First
    <3>3. CASE status = "success" /\ TooEarly    BY <2>1, <3>3 DEF Headers, Stop, First, TooEarly
    <3>4. CASE status = "success" /\ ~TooEarly   BY <2>1, <3>4 DEF Headers, TooEarly
    <3> QED BY <2>1, <3>1, <3>2, <3>3, <3>4
  <2>2. CASE ResponseEnds BY <2>2 DEF ResponseEnds
  <2>3. CASE Cut          BY <2>3 DEF Cut, Stop, First
  <2> QED BY <1>12, <2>1, <2>2, <2>3 DEF Answers
<1>13. CASE Closes    BY <1>13 DEF Closes, Stop, First
<1>14. CASE PutReturns   BY <1>14 DEF PutReturns, Quiet, First
<1>15. CASE UNCHANGED putVars BY <1>15 DEF putVars
<1> QED BY <1>0, <1>1, <1>2, <1>3, <1>4, <1>5, <1>6, <1>7, <1>8, <1>9, <1>10, <1>11, <1>12, <1>13,
           <1>14, <1>15 DEF PutNext

\* The invariant of a PUT holds in every reachable state.
LEMMA AlwaysPut == PutSpec => []PutIInv
  BY InitPut, StepPut, PTL DEF PutSpec

\* A PUT that returns without an error has sent the whole part and read the whole answer,
\* and the answer came after the last byte (transport.ts:152-162, 173-175, 201).
THEOREM WholePut == PutSpec => []SuccessIsWhole
<1>1. PutIInv => SuccessIsWhole
  BY DEF PutIInv, PutTypeOK, PutBodyOK, PutAnswerOK, PutRaceOK, SuccessIsWhole, Stopped, Sent
<1> QED BY <1>1, AlwaysPut, PTL

\* When a PUT has returned, its producer, its socket and its timer have ended, and the
\* iterator is closed (transport.ts:204-214).
THEOREM QuietReturn == PutSpec => []NothingGoesOn
<1>1. PutIInv => NothingGoesOn
  BY DEF PutIInv, PutRaceOK, NothingGoesOn
<1> QED BY <1>1, AlwaysPut, PTL

\* The first cause is the one reported, and it has happened (transport.ts:115-122).
THEOREM TrueCause == PutSpec => []CauseIsTrue
  BY AlwaysPut, PTL DEF PutIInv

\* Once there is an error it stays: what is reported is never replaced by what the
\* teardown causes (transport.ts:116, 203, 212).
FirstErrorStays == [][Stopped => error' = error]_putVars

\* An error of the race is never taken back.
THEOREM ErrorStays == PutSpec => FirstErrorStays
<1>1. PutIInv /\ [PutNext]_putVars => [Stopped => error' = error]_putVars
  <2> SUFFICES ASSUME PutIInv, PutNext, Stopped PROVE error' = error
    BY DEF putVars
  <2> USE DEF Stopped, Stop, First
  <2>1. CASE Begin \/ BadTarget BY <2>1 DEF Begin, BadTarget, PutIInv, PutRaceOK
  <2>2. CASE Answers BY <2>2 DEF Answers, Headers, ResponseEnds, Cut
  <2>3. CASE Resolved \/ Unresolved \/ NotPublic \/ CallerAborts \/ Deadline
    BY <2>3 DEF Resolved, Unresolved, NotPublic, CallerAborts, Deadline
  <2>4. CASE Piece \/ EndOfBody \/ BodyFails \/ Written \/ Ended \/ Interrupted
    BY <2>4 DEF Piece, EndOfBody, BodyFails, Written, Ended, Interrupted, PumpFails
  <2>5. CASE Closes \/ PutReturns BY <2>5 DEF Closes, PutReturns
  <2> QED BY <2>1, <2>2, <2>3, <2>4, <2>5 DEF PutNext
<1> QED BY <1>1, AlwaysPut, PTL DEF PutSpec, FirstErrorStays
================================================================================
