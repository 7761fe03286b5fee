-------------------------- MODULE EmailSenderProofs --------------------------
(***************************************************************************)
(* Proofs about EmailSender for any mails, outlets and files: types, truth *)
(* of what a mail is told, causes and finality of a stop, closed files,    *)
(* order and exclusion on an outlet, and that its chain of promises is the *)
(* line of SerialLine.                                                     *)
(***************************************************************************)
EXTENDS EmailSender, TLAPS

USE SenderAssumption DEF Answers, Results, Stopped, FilesAreClosed, StreamInv

-----------------------------------------------------------------------------
(* The parts of the invariant by the variables they speak of *)

\* How far the mails got and what they were told.
Core ==
  /\ disposed \in BOOLEAN
  /\ pools \in [Outlets -> Mails \cup {None}]
  /\ pc \in [Mails -> Points]
  /\ result \in [Mails -> Results \cup {None}]
  /\ ret \in [Mails -> Results \cup {None}]
  /\ pool \in [Mails -> Mails \cup {None}]
  /\ started = {m \in Mails : pool[m] # None}
  /\ closed \subseteq Mails
  /\ delivered \subseteq started
  /\ \A o \in Outlets : pools[o] # None => pools[o] \notin closed
  /\ disposed => Operations = {}
  /\ ResultInv
  /\ PoolInv

QueueType ==
  /\ pending \in [Outlets -> Mails \cup {None}]
  /\ prev \in [Mails -> Mails \cup {None}]
  /\ resolved \subseteq Mails
  /\ signalled \subseteq Mails

StreamType ==
  /\ held = {m \in Mails : pc[m] = "stat"}
  /\ streams \in [Mails -> Nat]
  /\ StreamInv /\ FilesAreClosed

LEMMA Parts == IInv <=> Core /\ QueueType /\ StreamType
  BY DEF IInv, TypeOK, Core, QueueType, StreamType

-----------------------------------------------------------------------------
(* execute between two awaits *)

\* The three ways the code up to the next await can go.
WaitsAgain(m) ==
  /\ \E x \in {"thread", "open", "stat", "queued"} : pc' = [pc EXCEPT ![m] = x]
  /\ UNCHANGED <<ret, pools, pool, started>>

HandsOver(m) ==
  LET o == OutletOf[m]
      p == IF pools[o] = None THEN m ELSE pools[o] IN
  /\ ~Stopped(m) /\ ~disposed
  /\ pools' = [pools EXCEPT ![o] = p]
  /\ pool' = [pool EXCEPT ![m] = p]
  /\ started' = started \cup {m}
  /\ pc' = [pc EXCEPT ![m] = "sending"]
  /\ UNCHANGED ret

Goes(m) == WaitsAgain(m) \/ GiveUp(m) \/ HandsOver(m)

LEMMA ProceedGoes ==
  ASSUME pc \in [Mails -> Points], NEW m \in Mails, NEW n \in Nat, Proceed(m, n)
  PROVE  Goes(m) /\ pc'[m] \in {"open", "sending", "returning"}
  BY DEF Proceed, Goes, WaitsAgain, GiveUp, HandsOver, HandOver, MustGiveUp, Returns

LEMMA BeginGoes ==
  ASSUME pc \in [Mails -> Points], NEW m \in Mails, Begin(m)
  PROVE  Goes(m) /\ pc'[m] # "stat"
  BY ProceedGoes DEF Begin, Goes, WaitsAgain

\* What a step may do to the mails that are handed over.
HandsOverRightly ==
  \A m \in started' \ started :
    ~Stopped(m) /\ ~disposed /\ pool'[m] \notin closed'

LEMMA GoesKeepsCore ==
  ASSUME Core, NEW m \in Mails, Goes(m), pc[m] \in BeforeHandOver \ {"refused"},
         pc[m] = "new" => ~disposed,
         UNCHANGED <<disposed, closed, result, delivered>>
  PROVE  Core' /\ HandsOverRightly /\ \A n \in Mails \ {m} : pc'[n] = pc[n]
  <1> USE DEF Core, ResultInv, PoolInv, Operations, Stopped, Points,
              BeforeHandOver, HandsOverRightly
  <1> m \notin started
    OBVIOUS
  <1>1. CASE WaitsAgain(m)
    BY <1>1 DEF WaitsAgain
  <1>2. CASE GiveUp(m)
    BY <1>2 DEF GiveUp, Returns
  <1>3. CASE HandsOver(m)
    <2> DEFINE o == OutletOf[m]
               p == IF pools[o] = None THEN m ELSE pools[o]
    <2>1. /\ o \in Outlets /\ p \in Mails /\ p # None
          /\ p \notin closed /\ (p = m \/ p \in started) /\ OutletOf[p] = o
      OBVIOUS
    <2>2. /\ pools' = [pools EXCEPT ![o] = p]
          /\ pool' = [pool EXCEPT ![m] = p]
          /\ started' = started \cup {m}
          /\ pc' = [pc EXCEPT ![m] = "sending"]
          /\ ret' = ret /\ result[m] = None /\ ~disposed
      BY <1>3 DEF HandsOver
    <2> HIDE DEF p, o
    <2>3. started' = {n \in Mails : pool'[n] # None}
      BY <2>1, <2>2
    <2>4. /\ \A q \in Outlets : pools'[q] # None =>
               pools'[q] \notin closed' /\ pools'[q] \in started' /\ OutletOf[pools'[q]] = q
          /\ closed' \subseteq started'
          /\ \A n \in started' : pool'[n] \in started'
      BY <2>1, <2>2
    <2>5. \A n \in started' : /\ ~Stopped(n)' => pool'[n] = pools'[OutletOf[n]]
                              /\ (Stopped(n)' /\ pc'[n] = "sending") => pool'[n] \in closed'
      <3>1. pool'[m] = p /\ pools'[o] = p /\ ~Stopped(m)' /\ o = OutletOf[m]
        BY <2>1, <2>2 DEF o
      <3>2. ASSUME NEW n \in started, n # m, ~Stopped(n)
            PROVE  pool'[n] = pools'[OutletOf[n]]
        BY <2>1, <2>2, <3>2 DEF p, o
      <3>3. ASSUME NEW n \in started, n # m, Stopped(n), pc'[n] = "sending"
            PROVE  pool'[n] \in closed'
        BY <2>2, <3>3
      <3> QED
        BY <2>2, <3>1, <3>2, <3>3
    <2>7. ResultInv'
      BY <2>2
    <2>6. HandsOverRightly
      BY <2>1, <2>2
    <2> QED
      BY <2>1, <2>2, <2>3, <2>4, <2>5, <2>6, <2>7
  <1> QED
    BY <1>1, <1>2, <1>3 DEF Goes

-----------------------------------------------------------------------------
(* One lemma per action *)

Safe == IInv' /\ HandsOverRightly

LEMMA ThreadReadStep ==
  ASSUME IInv, NEW m \in Mails, NEW ok \in BOOLEAN, ThreadRead(m, ok)
  PROVE  Safe
  <1>1. Core /\ QueueType /\ StreamType
    BY Parts
  <1>2. pc \in [Mails -> Points] /\ pc[m] = "thread"
    BY <1>1 DEF Core, ThreadRead
  <1>3. Goes(m) /\ pc'[m] # "stat"
    BY <1>2, ProceedGoes DEF ThreadRead, Goes, GiveUp, Returns
  <1>4. Core' /\ HandsOverRightly /\ \A n \in Mails \ {m} : pc'[n] = pc[n]
    BY <1>1, <1>2, <1>3, GoesKeepsCore DEF ThreadRead, BeforeHandOver
  <1>5. QueueType' /\ StreamType'
    BY <1>1, <1>2, <1>3, <1>4 DEF ThreadRead, queue, QueueType, StreamType
  <1> QED
    BY <1>4, <1>5, Parts DEF Safe, IInv, TypeOK, Core, QueueType, StreamType

LEMMA FileOpenedStep ==
  ASSUME IInv, NEW m \in Mails, NEW ok \in BOOLEAN, FileOpened(m, ok)
  PROVE  Safe
  <1>1. Core /\ QueueType /\ StreamType
    BY Parts
  <1>2. pc \in [Mails -> Points] /\ pc[m] = "open"
    BY <1>1 DEF Core, FileOpened
  <1>3. Goes(m)
    BY DEF FileOpened, Goes, WaitsAgain
  <1>4. Core' /\ HandsOverRightly /\ \A n \in Mails \ {m} : pc'[n] = pc[n]
    BY <1>1, <1>2, <1>3, GoesKeepsCore DEF FileOpened, BeforeHandOver
  <1>5. StreamType'
    BY <1>1, <1>2, <1>4 DEF FileOpened, StreamType, GiveUp, Returns
  <1>6. QueueType'
    BY <1>1 DEF FileOpened, queue, QueueType
  <1> QED
    BY <1>4, <1>5, <1>6, Parts DEF Safe, IInv, TypeOK, Core, QueueType, StreamType

LEMMA FileCheckedStep ==
  ASSUME IInv, NEW m \in Mails, NEW ok \in BOOLEAN, FileChecked(m, ok)
  PROVE  Safe
  <1>1. Core /\ QueueType /\ StreamType
    BY Parts
  <1>2. pc \in [Mails -> Points] /\ pc[m] = "stat" /\ streams[m] + 1 \in Nat
    BY <1>1 DEF Core, StreamType, FileChecked
  <1>3. Goes(m) /\ pc'[m] \in {"open", "sending", "returning"}
    BY <1>2, ProceedGoes DEF FileChecked, Goes, GiveUp, Returns
  <1>4. Core' /\ HandsOverRightly /\ \A n \in Mails \ {m} : pc'[n] = pc[n]
    BY <1>1, <1>2, <1>3, GoesKeepsCore DEF FileChecked, BeforeHandOver
  <1>5. StreamType'
    BY <1>1, <1>2, <1>3, <1>4 DEF FileChecked, Attaches, StreamType
  <1>6. QueueType'
    BY <1>1 DEF FileChecked, queue, QueueType
  <1> QED
    BY <1>4, <1>5, <1>6, Parts DEF Safe, IInv, TypeOK, Core, QueueType, StreamType

LEMMA SendStep ==
  ASSUME IInv, NEW m \in Mails, Send(m)
  PROVE  Safe
  <1>1. Core /\ QueueType /\ StreamType
    BY Parts
  <1>2. pc \in [Mails -> Points] /\ pc[m] = "new" /\ ~disposed
    BY <1>1 DEF Core, Send
  <1>3. Goes(m) /\ pc'[m] # "stat"
    BY <1>2, BeginGoes DEF Send, Goes, WaitsAgain
  <1>4. Core' /\ HandsOverRightly /\ \A n \in Mails \ {m} : pc'[n] = pc[n]
    BY <1>1, <1>2, <1>3, GoesKeepsCore DEF Send, BeforeHandOver
  <1>5. QueueType' /\ StreamType'
    BY <1>1, <1>2, <1>3, <1>4 DEF Send, QueueType, StreamType
  <1> QED
    BY <1>4, <1>5, Parts DEF Safe, IInv, TypeOK, Core, QueueType, StreamType

LEMMA ExecuteStep ==
  ASSUME IInv, NEW m \in Mails, Execute(m)
  PROVE  Safe
  <1>1. Core /\ QueueType /\ StreamType
    BY Parts
  <1>2. pc \in [Mails -> Points] /\ pc[m] = "queued"
    BY <1>1 DEF Core, Execute
  <1>3. CASE Stopped(m)
    BY <1>1, <1>2, <1>3 DEF Execute, Begin, Core, QueueType, StreamType, queue, Safe,
       IInv, TypeOK, ResultInv, PoolInv, HandsOverRightly, Points, BeforeHandOver,
       Operations, Stopped
  <1>4. CASE ~Stopped(m)
    <2>1. Goes(m) /\ pc'[m] # "stat"
      BY <1>2, <1>4, BeginGoes DEF Execute
    <2>2. Core' /\ HandsOverRightly /\ \A n \in Mails \ {m} : pc'[n] = pc[n]
      BY <1>1, <1>2, <2>1, GoesKeepsCore DEF Execute, BeforeHandOver
    <2>3. QueueType' /\ StreamType'
      BY <1>1, <1>2, <2>1, <2>2 DEF Execute, queue, QueueType, StreamType
    <2> QED
      BY <2>2, <2>3, Parts DEF Safe, IInv, TypeOK, Core, QueueType, StreamType
  <1> QED
    BY <1>3, <1>4

LEMMA RefuseStep ==
  ASSUME IInv, NEW m \in Mails, Refuse(m)
  PROVE  Safe
  BY DEF Refuse, sender, queue, sending, Safe, IInv, TypeOK, ResultInv, PoolInv,
     HandsOverRightly, Points, BeforeHandOver, Operations, Stopped

LEMMA TailResolvesStep ==
  ASSUME IInv, NEW m \in Mails, TailResolves(m)
  PROVE  Safe
  BY DEF TailResolves, Unqueued, sending, Safe, IInv, TypeOK, ResultInv, PoolInv,
     HandsOverRightly, Operations, Stopped

LEMMA DeliverStep ==
  ASSUME IInv, NEW m \in Mails, Deliver(m)
  PROVE  Safe
  BY DEF Deliver, sender, queue, sending, Safe, IInv, TypeOK, ResultInv, PoolInv,
     HandsOverRightly, Operations, Stopped

LEMMA AnswerStep ==
  ASSUME IInv, NEW m \in Mails, NEW a \in Outcomes, Answer(m, a)
  PROVE  Safe
  BY DEF Answer, Returns, sender, queue, sending, Safe, IInv, TypeOK, ResultInv,
     PoolInv, HandsOverRightly, Points, BeforeHandOver, Operations, Stopped

LEMMA FinishStep ==
  ASSUME IInv, NEW m \in Mails, Finish(m)
  PROVE  Safe
  BY DEF Finish, sender, queue, Safe, IInv, TypeOK, ResultInv, PoolInv,
     HandsOverRightly, Points, BeforeHandOver, Operations, Stopped

\* What a stop tells the mails is true, and only those who waited are told.
LEMMA StopTells ==
  ASSUME IInv, NEW ops \in SUBSET Operations, Stop(ops),
         UNCHANGED <<pc, ret, pool, started, delivered, held>>
  PROVE  /\ result' \in [Mails -> Results \cup {None}]
         /\ streams' \in [Mails -> Nat]
         /\ ResultInv' /\ StreamInv' /\ FilesAreClosed'
         /\ Operations' = Operations \ ops
         /\ \A n \in Mails : Stopped(n)' <=> (Stopped(n) \/ n \in ops)
  BY DEF Stop, StopResult, IInv, TypeOK, ResultInv, Operations

LEMMA AbortStep ==
  ASSUME IInv, NEW m \in Mails, Abort(m)
  PROVE  Safe
  <1> USE DEF Abort, queue, Safe, IInv, TypeOK, HandsOverRightly
  <1>1. CASE m \notin Operations
    BY <1>1 DEF ResultInv, PoolInv, Operations
  <1>2. CASE m \in Operations
    <2>1. Cancelled(m) \in SUBSET Operations /\ Stop(Cancelled(m))
      BY <1>2 DEF Cancelled, OnOutlet
    <2>2. /\ result' \in [Mails -> Results \cup {None}]
          /\ streams' \in [Mails -> Nat]
          /\ ResultInv' /\ StreamInv' /\ FilesAreClosed'
          /\ Operations' \subseteq Operations
          /\ \A n \in Mails : Stopped(n)' <=> (Stopped(n) \/ n \in Cancelled(m))
      BY <2>1, StopTells
    <2>3. CASE pool[m] # None
      <3>1. m \in started /\ pool[m] \in started /\ pool[m] = pools[OutletOf[m]]
        BY <1>2, <2>3 DEF PoolInv, Operations
      <3>2. /\ closed' = closed \cup {pool[m]}
            /\ pools' \in [Outlets -> Mails \cup {None}]
            /\ \A o \in Outlets : IF pools[o] = pool[m] THEN pools'[o] = None
                                  ELSE pools'[o] = pools[o]
        BY <1>2, <2>3 DEF Without
      <3>3. ASSUME NEW n \in started, ~Stopped(n)'
            PROVE  pool[n] = pools'[OutletOf[n]]
        <4>1. n \in Operations /\ n \notin Cancelled(m) /\ n \in Mails
          BY <2>2, <3>3 DEF Operations, ResultInv, BeforeHandOver
        <4>2. OutletOf[n] # OutletOf[m] /\ OutletOf[n] \in Outlets /\ OutletOf[m] \in Outlets
          BY <1>2, <2>3, <4>1 DEF Cancelled, OnOutlet, Operations
        <4>3. pool[n] = pools[OutletOf[n]] /\ pool[n] # None
          BY <3>3, <4>1 DEF PoolInv, Operations
        <4>4. pools[OutletOf[n]] # pool[m]
          BY <2>3, <3>1, <4>2, <4>3 DEF PoolInv
        <4> QED
          BY <3>2, <4>2, <4>3, <4>4
      <3>4. ASSUME NEW n \in started, Stopped(n)', pc[n] = "sending"
            PROVE  pool[n] \in closed'
        BY <2>2, <2>3, <3>1, <3>2, <3>4 DEF PoolInv, Cancelled, OnOutlet
      <3>5. PoolInv'
        BY <3>1, <3>2, <3>3, <3>4 DEF PoolInv
      <3> QED
        BY <2>2, <3>1, <3>2, <3>5
    <2>4. CASE pool[m] = None
      <3>1. m \notin started /\ Cancelled(m) = {m}
        BY <2>4 DEF Cancelled
      <3>2. PoolInv'
        BY <1>2, <2>2, <2>4, <3>1 DEF PoolInv
      <3> QED
        BY <1>2, <2>2, <2>4, <3>2
    <2> QED
      BY <2>3, <2>4
  <1> QED
    BY <1>1, <1>2

LEMMA DisposeStep ==
  ASSUME IInv, Dispose
  PROVE  Safe
  <1> USE DEF Dispose, queue, IInv, TypeOK
  <1>1. /\ result' \in [Mails -> Results \cup {None}]
        /\ streams' \in [Mails -> Nat]
        /\ ResultInv' /\ StreamInv' /\ FilesAreClosed' /\ Operations' = {}
        /\ \A n \in Mails : Stopped(n)' <=> (Stopped(n) \/ n \in Operations)
    BY StopTells
  <1>2. \A n \in started : n \in Operations \/ Stopped(n)
    BY DEF Operations, ResultInv, BeforeHandOver
  <1>3. ASSUME NEW n \in started, pc[n] = "sending"
        PROVE  pool[n] \in closed'
    BY <1>3 DEF PoolInv
  <1>4. PoolInv'
    BY <1>1, <1>2, <1>3 DEF PoolInv
  <1> QED
    BY <1>1, <1>4 DEF Safe, HandsOverRightly

-----------------------------------------------------------------------------
LEMMA InitIInv == Init => IInv
  <1> SUFFICES ASSUME Init PROVE IInv
    OBVIOUS
  <1>1. /\ started = {m \in Mails : pool[m] # None}
        /\ held = {m \in Mails : pc[m] = "stat"}
        /\ Operations = {}
    BY DEF Init, Operations
  <1>2. ResultInv /\ PoolInv
    BY DEF Init, ResultInv, PoolInv, BeforeHandOver
  <1> QED
    BY <1>1, <1>2 DEF Init, IInv, TypeOK, Points

LEMMA NextSafe == IInv /\ [Next]_vars => Safe
  <1> SUFFICES ASSUME IInv, [Next]_vars PROVE Safe
    OBVIOUS
  <1>1. CASE UNCHANGED vars
    BY <1>1 DEF vars, sender, queue, sending, Safe, IInv, TypeOK, ResultInv, PoolInv,
       HandsOverRightly, Operations, Stopped
  <1>2. ASSUME NEW m \in Mails, Step(m) PROVE Safe
    BY <1>2, ThreadReadStep, FileOpenedStep, FileCheckedStep, AnswerStep,
       TailResolvesStep, ExecuteStep, FinishStep DEF Step
  <1>3. ASSUME NEW m \in Mails, Refuse(m) \/ Send(m) \/ Deliver(m) \/ Abort(m)
        PROVE  Safe
    BY <1>3, RefuseStep, SendStep, DeliverStep, AbortStep
  <1>4. CASE Dispose
    BY <1>4, DisposeStep
  <1> QED
    BY <1>1, <1>2, <1>3, <1>4 DEF Next

\* The strengthened invariant: results, hand-overs and pools agree.
THEOREM SenderInvariant == Spec => []IInv
  <1>1. IInv /\ [Next]_vars => IInv'
    BY NextSafe DEF Safe
  <1> QED
    BY <1>1, InitIInv, PTL DEF Spec

\* Every variable of the sender keeps its type.
THEOREM SenderTypeCorrect == Spec => []TypeOK
  BY SenderInvariant, PTL DEF IInv

\* A mail reported as failed or as not sent was not delivered, and as this
\* holds in every state, never will be (183-187, 45-54).
THEOREM NotSentIsTrue == Spec => []NotSentMeansNotSent
  <1>1. IInv => NotSentMeansNotSent
    BY DEF IInv, TypeOK, ResultInv, NotSentMeansNotSent
  <1> QED
    BY <1>1, SenderInvariant, PTL

\* Nothing is handed to the library once the caller was told an outcome, after
\* dispose, or into a pool that was closed (133-170, 189-201).
THEOREM StopsAreFinal == Spec => NoSendAfterStop
  <1>1. IInv /\ [Next]_vars =>
          [\A m \in started' \ started :
             ~Stopped(m) /\ ~disposed /\ pool'[m] \notin closed']_vars
    BY NextSafe DEF Safe, HandsOverRightly
  <1> QED
    BY <1>1, SenderInvariant, PTL DEF Spec, NoSendAfterStop

-----------------------------------------------------------------------------
(* The queue *)

Called(m) == pc[m] \notin {"new", "refused"}

\* What no step takes back, and when a mail may begin.
Monotone ==
  \A m \in Mails :
    /\ Stopped(m) => Stopped(m)'
    /\ m \in started => m \in started' /\ pool'[m] = pool[m]
    /\ pc'[m] = "sending" => pc[m] = "sending" \/ m \in started' \ started
    /\ m \in closed => m \in closed'

\* A step that is neither a call nor the end of a tail.
KeepsLine ==
  /\ UNCHANGED <<line, prev, pending, resolved>>
  /\ \A m \in Mails :
       /\ Called(m)' <=> Called(m)
       /\ pc[m] = "queued" /\ pc'[m] # "queued" => prev[m] \in resolved

LEMMA GoesIsMonotone ==
  ASSUME IInv, NEW m \in Mails, Goes(m), pc[m] \in BeforeHandOver, UNCHANGED <<closed, result>>
  PROVE  Monotone
  BY DEF Goes, WaitsAgain, GiveUp, Returns, HandsOver, Monotone, IInv, TypeOK, ResultInv,
     BeforeHandOver, Points

LEMMA StepKinds ==
  ASSUME IInv, [Next]_vars
  PROVE  /\ Monotone
         /\ KeepsLine \/ \E m \in Mails : Send(m) \/ TailResolves(m)
  <1> USE DEF IInv, TypeOK, Points
  <1>1. CASE UNCHANGED vars
    BY <1>1 DEF vars, sender, queue, sending, Monotone, KeepsLine, Called
  <1>2. ASSUME NEW m \in Mails, NEW ok \in BOOLEAN,
               ThreadRead(m, ok) \/ FileOpened(m, ok) \/ FileChecked(m, ok)
        PROVE  Monotone /\ KeepsLine
    <2>1. /\ pc[m] \in {"thread", "open", "stat"} /\ Goes(m)
          /\ pc'[m] \notin {"new", "refused"}
          /\ UNCHANGED <<closed, result, line, prev, pending, resolved>>
      BY <1>2, ProceedGoes DEF ThreadRead, FileOpened, FileChecked, Goes, WaitsAgain,
         GiveUp, Returns, queue
    <2>2. \A n \in Mails \ {m} : pc'[n] = pc[n]
      BY <2>1 DEF Goes, WaitsAgain, GiveUp, Returns, HandsOver
    <2> QED
      BY <2>1, <2>2, GoesIsMonotone DEF KeepsLine, Called, BeforeHandOver
  <1>3. ASSUME NEW m \in Mails, Execute(m)
        PROVE  Monotone /\ KeepsLine
    <2>1. CASE Stopped(m)
      BY <1>3, <2>1 DEF Execute, Begin, Monotone, KeepsLine, Called, queue
    <2>2. CASE ~Stopped(m)
      <3>1. /\ pc[m] = "queued" /\ prev[m] \in resolved /\ Goes(m)
            /\ pc'[m] \notin {"new", "refused"}
            /\ UNCHANGED <<closed, result, line, prev, pending, resolved>>
        BY <1>3, <2>2, BeginGoes DEF Execute, Goes, WaitsAgain, GiveUp, Returns,
           HandsOver, queue
      <3>2. \A n \in Mails \ {m} : pc'[n] = pc[n]
        BY <3>1 DEF Goes, WaitsAgain, GiveUp, Returns, HandsOver
      <3> QED
        BY <3>1, <3>2, GoesIsMonotone DEF KeepsLine, Called, BeforeHandOver
    <2> QED
      BY <2>1, <2>2
  <1>4. ASSUME NEW m \in Mails, Send(m)
        PROVE  Monotone
    BY <1>4, BeginGoes, GoesIsMonotone DEF Send, Goes, WaitsAgain, BeforeHandOver
  <1>5. ASSUME NEW m \in Mails, TailResolves(m)
        PROVE  Monotone
    BY <1>5 DEF TailResolves, Monotone, sending
  <1>6. ASSUME NEW m \in Mails, NEW a \in Outcomes, Answer(m, a)
        PROVE  Monotone /\ KeepsLine
    BY <1>6 DEF Answer, Returns, Monotone, KeepsLine, Called, sender, queue, sending
  <1>7. ASSUME NEW m \in Mails, Finish(m) \/ Refuse(m) \/ Deliver(m)
        PROVE  Monotone /\ KeepsLine
    BY <1>7 DEF Finish, Refuse, Deliver, Monotone, KeepsLine, Called, sender, queue, sending,
       ResultInv
  <1>8. ASSUME NEW m \in Mails, Abort(m)
        PROVE  Monotone /\ KeepsLine
    BY <1>8 DEF Abort, Stop, StopResult, Monotone, KeepsLine, Called, queue
  <1>9. CASE Dispose
    BY <1>9 DEF Dispose, Stop, StopResult, Monotone, KeepsLine, Called, queue
  <1> QED
    BY <1>1, <1>2, <1>3, <1>4, <1>5, <1>6, <1>7, <1>8, <1>9 DEF Next, Step

\* Whoever waits for nobody any more has only resolved tails before it.
LEMMA TailsInOrder ==
  ASSUME QueueInv, NEW i \in DOMAIN line, NEW j \in DOMAIN line, i < j,
         OutletOf[line[i]] = OutletOf[line[j]],
         prev[line[j]] = None \/ prev[line[j]] \in resolved
  PROVE  line[i] \in resolved
  <1>1. CASE prev[line[j]] = None
    BY <1>1 DEF QueueInv
  <1>2. CASE prev[line[j]] # None /\ line[i] \notin resolved
    <2>1. PICK k \in DOMAIN line :
            /\ i <= k /\ k < j /\ line[k] = prev[line[j]]
            /\ OutletOf[line[k]] = OutletOf[line[j]]
      BY <1>2 DEF QueueInv
    <2>2. line[k] \in resolved /\ i # k
      BY <2>1, <1>2
    <2>3. i < k
      BY <2>1, <2>2 DEF QueueInv
    <2> QED
      BY <2>1, <2>2, <2>3, <1>2 DEF QueueInv
  <1> QED
    BY <1>1, <1>2

LEMMA QueueInit == Init => QueueInv
  BY DEF Init, QueueInv

LEMMA KeepsLineStep ==
  ASSUME IInv, QueueInv, Monotone, KeepsLine
  PROVE  QueueInv'
  <1> USE DEF KeepsLine, Called
  <1>1. \A i \in DOMAIN line : line[i] \in Mails
    BY DEF QueueInv
  <1>2. ASSUME NEW i \in DOMAIN line, NEW j \in DOMAIN line, i < j,
               OutletOf[line[i]] = OutletOf[line[j]],
               line[j] \in resolved \/ pc'[line[j]] # "queued" \/ prev[line[j]] = None
        PROVE  line[i] \in resolved
    BY <1>1, <1>2, TailsInOrder DEF QueueInv
  <1>3. /\ \A m \in Mails : pc'[m] \in {"new", "refused"} <=> (\A i \in DOMAIN line : line[i] # m)
        /\ \A m \in resolved : Stopped(m)' /\ pc'[m] \notin {"new", "refused"}
    BY DEF QueueInv, Monotone, IInv, TypeOK
  <1> QED
    BY <1>2, <1>3 DEF QueueInv

LEMMA TailResolvesQueue ==
  ASSUME IInv, QueueInv, NEW m \in Mails, TailResolves(m)
  PROVE  QueueInv'
  <1> USE DEF TailResolves, TailReady, Unqueued, sending
  <1>1. PICK p \in DOMAIN line : line[p] = m
    BY DEF QueueInv
  <1>2. /\ \A i \in DOMAIN line : line[i] \in Mails
        /\ DOMAIN line \subseteq Int
    BY DEF QueueInv
  <1>3. \A i \in DOMAIN line :
          i < p /\ OutletOf[line[i]] = OutletOf[m] => line[i] \in resolved
    BY <1>1, TailsInOrder
  <1>4. ASSUME NEW i \in DOMAIN line, NEW j \in DOMAIN line, i < j,
               OutletOf[line[i]] = OutletOf[line[j]],
               line[j] \in resolved' \/ pc[line[j]] # "queued" \/ prev[line[j]] = None
        PROVE  line[i] \in resolved'
    BY <1>1, <1>3, <1>4 DEF QueueInv
  <1>5. ASSUME NEW i \in DOMAIN line, line[i] \notin resolved'
        PROVE  \E k \in DOMAIN line : /\ i <= k /\ line[k] = pending'[OutletOf[line[i]]]
                                      /\ OutletOf[line[k]] = OutletOf[line[i]]
    <2>1. PICK k \in DOMAIN line : /\ i <= k /\ line[k] = pending[OutletOf[line[i]]]
                                   /\ OutletOf[line[k]] = OutletOf[line[i]]
      BY <1>5 DEF QueueInv
    <2>2. line[k] # m
      BY <1>1, <1>2, <1>3, <1>5, <2>1 DEF QueueInv
    <2>3. pending'[OutletOf[line[i]]] = pending[OutletOf[line[i]]]
      BY <1>2, <2>1, <2>2 DEF IInv, TypeOK
    <2> QED
      BY <2>1, <2>3
  <1>6. \A n \in resolved' : Stopped(n)' /\ pc'[n] \notin {"new", "refused"}
    BY DEF QueueInv
  <1> QED
    BY <1>4, <1>5, <1>6 DEF QueueInv

LEMMA SendQueue ==
  ASSUME IInv, QueueInv, NEW m \in Mails, Send(m)
  PROVE  QueueInv'
  <1> DEFINE o == OutletOf[m]
             L == Len(line) + 1
  <1>1. /\ line \in Seq(Mails)
        /\ DOMAIN line = 1 .. Len(line) /\ Len(line) \in Nat
        /\ \A i \in DOMAIN line : line[i] \in Mails /\ line[i] # m
        /\ m \notin resolved
    BY DEF QueueInv, Send
  <1>2. /\ line' \in Seq(Mails)
        /\ DOMAIN line' = 1 .. L
        /\ L \in DOMAIN line' /\ line'[L] = m
        /\ \A i \in DOMAIN line : i \in DOMAIN line' /\ line'[i] = line[i]
        /\ \A i \in DOMAIN line' : i \in DOMAIN line \/ i = L
        /\ \A i \in DOMAIN line' : i <= L
    BY <1>1 DEF Send
  <1>3. /\ prev' = [prev EXCEPT ![m] = pending[o]]
        /\ pending' = [pending EXCEPT ![o] = m]
        /\ resolved' = resolved /\ result' = result
        /\ pc'[m] \notin {"new", "refused"}
        /\ pending[o] # None => pc'[m] = "queued"
        /\ \A n \in Mails \ {m} : pc'[n] = pc[n]
    BY BeginGoes DEF Send, Goes, WaitsAgain, GiveUp, Returns, HandsOver, IInv, TypeOK
  <1>4. /\ prev'[m] = pending[o] /\ pending'[o] = m
        /\ \A n \in Mails \ {m} : prev'[n] = prev[n]
        /\ \A x \in Outlets \ {o} : pending'[x] = pending[x]
    BY <1>3 DEF IInv, TypeOK
  <1>5. ASSUME NEW i \in DOMAIN line, OutletOf[line[i]] = o, line[i] \notin resolved
        PROVE  \E k \in DOMAIN line : /\ i <= k /\ line[k] = pending[o]
                                      /\ OutletOf[line[k]] = o
    BY <1>5 DEF QueueInv
  <1>6. \A i, j \in DOMAIN line' : line'[i] = line'[j] => i = j
    BY <1>1, <1>2 DEF QueueInv
  <1>7. ASSUME NEW n \in Mails
        PROVE  pc'[n] \in {"new", "refused"} <=> (\A i \in DOMAIN line' : line'[i] # n)
    <2>1. pc[n] \in {"new", "refused"} <=> (\A i \in DOMAIN line : line[i] # n)
      BY DEF QueueInv
    <2>2. (\A i \in DOMAIN line' : line'[i] # n) <=> (m # n /\ \A i \in DOMAIN line : line[i] # n)
      <3>1. ASSUME \A i \in DOMAIN line' : line'[i] # n
            PROVE  m # n /\ \A i \in DOMAIN line : line[i] # n
        BY <1>2, <3>1
      <3>2. ASSUME m # n, \A i \in DOMAIN line : line[i] # n, NEW i \in DOMAIN line'
            PROVE  line'[i] # n
        BY <1>2, <3>2
      <3> QED
        BY <3>1, <3>2
    <2> QED
      BY <1>3, <2>1, <2>2
  <1>8. \A n \in resolved' : Stopped(n)' /\ pc'[n] \notin {"new", "refused"}
    BY <1>1, <1>3 DEF QueueInv, IInv, TypeOK
  <1>9. ASSUME NEW i \in DOMAIN line', NEW j \in DOMAIN line', i < j,
               OutletOf[line'[i]] = OutletOf[line'[j]],
               line'[j] \in resolved' \/ pc'[line'[j]] # "queued" \/ prev'[line'[j]] = None
        PROVE  line'[i] \in resolved'
    <2>1. i \in DOMAIN line
      BY <1>1, <1>2, <1>9
    <2>2. CASE j \in DOMAIN line
      <3>1. /\ line'[i] = line[i] /\ line'[j] = line[j]
            /\ pc'[line[j]] = pc[line[j]] /\ prev'[line[j]] = prev[line[j]]
        BY <1>1, <1>2, <1>3, <1>4, <2>1, <2>2
      <3> QED
        BY <1>3, <1>9, <2>1, <2>2, <3>1 DEF QueueInv
    <2>3. CASE j = L
      <3>1. pending[o] = None
        BY <1>1, <1>2, <1>3, <1>4, <1>9, <2>3
      <3>2. ~ \E k \in DOMAIN line : line[k] = pending[o]
        BY <1>1, <3>1
      <3> QED
        BY <1>2, <1>3, <1>5, <1>9, <2>1, <2>3, <3>2
    <2> QED
      BY <1>1, <1>2, <2>2, <2>3
  <1>10. ASSUME NEW i \in DOMAIN line', NEW j \in DOMAIN line', i < j,
                OutletOf[line'[i]] = OutletOf[line'[j]], prev'[line'[j]] # None,
                line'[i] \notin resolved'
         PROVE  \E k \in DOMAIN line' : /\ i <= k /\ k < j /\ line'[k] = prev'[line'[j]]
                                        /\ OutletOf[line'[k]] = OutletOf[line'[j]]
    <2>1. i \in DOMAIN line
      BY <1>1, <1>2, <1>10
    <2>2. CASE j \in DOMAIN line
      <3>1. /\ line'[i] = line[i] /\ line'[j] = line[j]
            /\ prev'[line[j]] = prev[line[j]]
        BY <1>1, <1>2, <1>4, <2>1, <2>2
      <3>2. PICK k \in DOMAIN line : /\ i <= k /\ k < j /\ line[k] = prev[line[j]]
                                     /\ OutletOf[line[k]] = OutletOf[line[j]]
        BY <1>3, <1>10, <2>1, <2>2, <3>1 DEF QueueInv
      <3>3. line'[k] = line[k] /\ k \in DOMAIN line'
        BY <1>1, <1>2
      <3> QED
        BY <3>1, <3>2, <3>3
    <2>3. CASE j = L
      <3>1. PICK k \in DOMAIN line : /\ i <= k /\ line[k] = pending[o] /\ OutletOf[line[k]] = o
        BY <1>2, <1>3, <1>5, <1>10, <2>1, <2>3
      <3> QED
        <4>1. /\ k \in DOMAIN line' /\ line'[k] = line[k] /\ k < j
              /\ line'[k] = prev'[line'[j]] /\ OutletOf[line'[j]] = o
          BY <1>1, <1>2, <1>4, <2>3, <3>1
        <4> QED
          BY <3>1, <4>1
    <2> QED
      BY <1>1, <1>2, <2>2, <2>3
  <1>11. ASSUME NEW i \in DOMAIN line', line'[i] \notin resolved'
         PROVE  \E k \in DOMAIN line' : /\ i <= k /\ line'[k] = pending'[OutletOf[line'[i]]]
                                        /\ OutletOf[line'[k]] = OutletOf[line'[i]]
    <2>1. CASE OutletOf[line'[i]] = o
      <3>1. i <= L /\ line'[L] = pending'[OutletOf[line'[i]]] /\ OutletOf[line'[L]] = o
        BY <1>2, <1>4, <2>1
      <3> QED
        BY <1>2, <2>1, <3>1
    <2>2. CASE OutletOf[line'[i]] # o
      <3>1. i \in DOMAIN line
        BY <1>1, <1>2, <2>2
      <3>2. PICK k \in DOMAIN line : /\ i <= k /\ line[k] = pending[OutletOf[line[i]]]
                                     /\ OutletOf[line[k]] = OutletOf[line[i]]
        BY <1>2, <1>3, <1>11, <3>1 DEF QueueInv
      <3> QED
        BY <1>1, <1>2, <1>4, <2>2, <3>1, <3>2
    <2> QED
      BY <2>1, <2>2
  <1> QED
    BY <1>2, <1>6, <1>7, <1>8, <1>9, <1>10, <1>11 DEF QueueInv

LEMMA QueueStep == IInv /\ QueueInv /\ [Next]_vars => QueueInv'
  BY StepKinds, KeepsLineStep, TailResolvesQueue, SendQueue

\* Tails resolve in the order of the calls, and who has begun has only resolved
\* tails before it (105-119).
THEOREM QueueInOrder == Spec => []QueueInv
  BY SenderInvariant, QueueInit, QueueStep, PTL DEF Spec

\* Mails of an outlet are prepared and sent in the order of their calls.
THEOREM SendsInOrder == Spec => []NoOvertaking
  <1>1. QueueInv => NoOvertaking
    BY DEF QueueInv, NoOvertaking
  <1> QED
    BY <1>1, QueueInOrder, PTL

\* A mail that returned has no open stream, an open file is turned into a
\* stream or closed before execute goes on (141-155, 93).
THEOREM FilesClose == Spec => []FilesAreClosed
  BY SenderInvariant, PTL DEF IInv

LEMMA OneSendInit == Init => OneSendPerOutlet
  BY DEF Init, OneSendPerOutlet

LEMMA OneSendStep ==
  ASSUME IInv, QueueInv, OneSendPerOutlet, [Next]_vars
  PROVE  OneSendPerOutlet'
  <1>1. Monotone /\ IInv' /\ HandsOverRightly /\ QueueInv'
    BY StepKinds, NextSafe, QueueStep DEF Safe
  <1>2. ASSUME NEW m \in Mails, m \in started' \ started, pc'[m] = "sending"
        PROVE  ~Stopped(m)' /\ pool'[m] \notin closed'
    BY <1>1, <1>2 DEF HandsOverRightly, IInv, PoolInv
  <1>3. ASSUME NEW m \in Mails, NEW n \in Mails, m # n, OutletOf[m] = OutletOf[n],
               pc'[m] = "sending", pc'[n] = "sending"
        PROVE  Stopped(m)' \/ Stopped(n)'
    <2>1. PICK i \in DOMAIN line', j \in DOMAIN line' : line'[i] = m /\ line'[j] = n
      BY <1>1, <1>3 DEF QueueInv
    <2>2. i < j \/ j < i
      BY <1>1, <1>3, <2>1 DEF QueueInv
    <2> QED
      BY <1>1, <1>3, <2>1, <2>2 DEF QueueInv
  <1>4. ASSUME NEW m \in Mails, NEW n \in Mails, m # n, OutletOf[m] = OutletOf[n],
               pc'[m] = "sending", pc'[n] = "sending", m \in started' \ started
        PROVE  pool'[m] # pool'[n]
    <2>1. Stopped(n)'
      BY <1>2, <1>3, <1>4
    <2>2. pool'[n] \in closed'
      BY <1>1, <1>4, <2>1 DEF IInv, ResultInv, PoolInv
    <2> QED
      BY <1>2, <1>4, <2>2
  <1>5. ASSUME NEW m \in Mails, NEW n \in Mails, m # n, OutletOf[m] = OutletOf[n],
               pc'[m] = "sending", pc'[n] = "sending",
               m \notin started' \ started, n \notin started' \ started
        PROVE  pool'[m] # pool'[n]
    BY <1>1, <1>5 DEF Monotone, IInv, ResultInv, OneSendPerOutlet
  <1> QED
    BY <1>3, <1>4, <1>5 DEF OneSendPerOutlet

\* The library has one mail of an outlet at a time that somebody waits for, and
\* two mails it has at once are in different pools (105-119, 160-166).
THEOREM OneAtATime == Spec => []OneSendPerOutlet
  <1>1. IInv /\ QueueInv /\ OneSendPerOutlet /\ [Next]_vars => OneSendPerOutlet'
    BY OneSendStep
  <1> QED
    BY <1>1, OneSendInit, SenderInvariant, QueueInOrder, PTL DEF Spec

-----------------------------------------------------------------------------
(* Cancellation *)

\* Only Finish, Abort and Dispose tell a mail an outcome while it runs.
LEMMA OnlyThreeStop ==
  ASSUME IInv, [Next]_vars,
         ~ \E m \in Mails : Finish(m) \/ Abort(m) \/ Refuse(m), ~Dispose
  PROVE  UNCHANGED result
  <1>1. ASSUME NEW m \in Mails, Step(m) \/ Send(m) \/ Deliver(m)
        PROVE  UNCHANGED result
    BY <1>1 DEF Step, Send, Deliver, ThreadRead, FileOpened, FileChecked, Answer,
       TailResolves, Execute
  <1> QED
    BY <1>1 DEF vars, Next

\* What may end the wait of a mail that runs.
CausedBy(m) ==
  \/ pc[m] = "returning" /\ pc'[m] = "done"
  \/ disposed'
  \/ \E n \in signalled' \ signalled :
       n = m \/ (n \in started /\ OutletOf[n] = OutletOf[m])

\* A mail that did not run to its end was stopped by dispose, by its own signal,
\* or with the pool of its outlet by the signal of a mail the library had
\* (98-101, 189-201).
THEOREM StopsForCause == Spec => StoppedForCause
  <1>1. ASSUME IInv, [Next]_vars, NEW m \in Operations, Stopped(m)' PROVE CausedBy(m)
    <2> USE DEF IInv, TypeOK, CausedBy
    <2>1. m \in Mails /\ ~Stopped(m) /\ pc[m] # "new"
      BY <1>1 DEF Operations
    <2>2. ASSUME NEW n \in Mails, Finish(n) PROVE CausedBy(m)
      BY <1>1, <2>1, <2>2 DEF Finish
    <2>3. ASSUME NEW n \in Mails, Refuse(n) PROVE CausedBy(m)
      BY <1>1, <2>1, <2>3 DEF Refuse
    <2>4. ASSUME NEW n \in Mails, Abort(n) PROVE CausedBy(m)
      <3>1. n \in Operations /\ m \in Cancelled(n)
        BY <1>1, <2>1, <2>4 DEF Abort, Stop
      <3>2. n = m \/ (n \in started /\ OutletOf[n] = OutletOf[m])
        BY <1>1, <2>4, <3>1 DEF Cancelled, OnOutlet
      <3>3. n \in signalled' \ signalled
        BY <2>4 DEF Abort
      <3> QED
        BY <3>2, <3>3
    <2>5. CASE Dispose
      BY <2>5 DEF Dispose
    <2> QED
      BY <1>1, <2>1, <2>2, <2>3, <2>4, <2>5, OnlyThreeStop
  <1>2. IInv /\ [Next]_vars =>
          [\A m \in Operations : Stopped(m)' => CausedBy(m)]_vars
    BY <1>1
  <1> QED
    BY <1>2, SenderInvariant, PTL DEF Spec, StoppedForCause, CausedBy

-----------------------------------------------------------------------------
(* The outlet: SerialLine is implemented *)

\* A mail that was not called was told nothing.
Fresh == \A m \in Mails : pc[m] = "new" => ~Stopped(m)

\* Those who are there are the mails in the middle of their call.
LEMMA HereAre == Line!Here = Operations
  <1>1. ASSUME NEW m \in Mails PROVE Standing(m) \in {"waiting", "using"} <=> m \in Operations
    <2>1. CASE m \in Operations
      BY <2>1 DEF Standing, Operations
    <2>2. CASE m \notin Operations
      <3>1. Standing(m) \in {"new", "gone"}
        BY <2>2 DEF Standing
      <3> QED
        BY <2>2, <3>1
    <2> QED
      BY <2>1, <2>2
  <1>2. ASSUME NEW m PROVE m \in Line!Here <=> m \in Operations
    BY <1>1 DEF Line!Here, Operations
  <1> QED
    BY <1>2

\* A mail that has left the queue had only mails before it that had returned.
LEMMA NobodyAhead ==
  ASSUME QueueInv, NEW m \in Mails,
         pc[m] # "queued" \/ prev[m] = None \/ prev[m] \in resolved
  PROVE  Preceding(m) = {}
  <1> SUFFICES ASSUME NEW i \in DOMAIN line, NEW j \in DOMAIN line, i < j, line[j] = m,
                      OutletOf[line[i]] = OutletOf[m], line[i] \in Operations
               PROVE  FALSE
    BY DEF Preceding
  <1>1. line[i] \in resolved
    BY TailsInOrder DEF QueueInv
  <1> QED
    BY <1>1 DEF QueueInv, Operations

\* Everything but a call, a refusal and a turn: some mails return, maybe none.
LeavesOnly ==
  /\ UNCHANGED line
  /\ \A m \in Mails : /\ Stopped(m) => Stopped(m)'
                      /\ pc'[m] = "new" <=> pc[m] = "new"
                      /\ pc'[m] = "refused" <=> pc[m] = "refused"
                      /\ ~Stopped(m) => (pc'[m] = "queued" <=> pc[m] = "queued")
  /\ \A m \in Mails : Stopped(m)' /\ ~Stopped(m) => m \in Operations

LEMMA LeavesOnlyLeaves == ASSUME LeavesOnly PROVE [Line!Next]_(Line!vars)
  <1> DEFINE us == {m \in Operations : Stopped(m)'}
  <1>1. Operations' = Operations \ us
    BY DEF LeavesOnly, Operations
  <1>2. ASSUME NEW m \in Mails PROVE Standing(m)' = IF m \in us THEN "gone" ELSE Standing(m)
    <2>1. CASE pc[m] = "new"
      BY <2>1 DEF LeavesOnly, Standing, Operations
    <2>2. CASE pc[m] # "new" /\ m \in Operations \ us
      BY <1>1, <2>2 DEF LeavesOnly, Standing, Operations
    <2>3. CASE pc[m] # "new" /\ m \notin Operations \ us
      BY <1>1, <2>3 DEF LeavesOnly, Standing
    <2> QED
      BY <2>1, <2>2, <2>3
  <1>3. ASSUME NEW m \in Mails
        PROVE  Preceding(m)' = IF m \in us THEN {} ELSE Preceding(m) \ us
    BY <1>1 DEF LeavesOnly, Preceding
  <1>4. us \in SUBSET Line!Here
    BY DEF Line!Here, Standing, Operations
  <1> HIDE DEF us
  <1>5. Line!Leave(us)
    BY <1>2, <1>3 DEF Line!Leave
  <1> QED
    BY <1>4, <1>5 DEF Line!Next

\* A call joins the line; if nobody is on it, its turn has come.
LEMMA SendJoins ==
  ASSUME IInv, QueueInv, Fresh, NEW m \in Mails, Send(m)
  PROVE  Line!Join(m)
  <1> DEFINE o == OutletOf[m]
             L == Len(line) + 1
  <1>1. /\ line \in Seq(Mails) /\ DOMAIN line = 1 .. Len(line) /\ Len(line) \in Nat
        /\ \A i \in DOMAIN line : line[i] \in Mails /\ line[i] # m
        /\ DOMAIN line' = 1 .. L /\ line'[L] = m
        /\ \A i \in DOMAIN line : line'[i] = line[i]
    BY DEF QueueInv, Send
  <1>2. /\ pc[m] = "new" /\ ~Stopped(m) /\ result' = result
        /\ pc'[m] \notin {"new", "refused"} /\ (pending[o] # None => pc'[m] = "queued")
        /\ \A n \in Mails \ {m} : pc'[n] = pc[n]
    BY BeginGoes DEF Send, Goes, WaitsAgain, GiveUp, Returns, HandsOver, IInv, TypeOK, Fresh
  <1>3. Operations' = Operations \union {m} /\ m \notin Operations
    BY <1>2 DEF Operations
  <1>4. /\ Standing(m) = "new" /\ Standing(m)' = IF pc'[m] = "queued" THEN "waiting" ELSE "using"
        /\ \A n \in Mails : n # m => Standing(n)' = Standing(n)
    BY <1>2, <1>3 DEF Standing
  <1>5. Line!Present(o) = {n \in Operations : OutletOf[n] = o}
    BY HereAre DEF Line!Present
  <1>6. \A n \in Operations : \E i \in DOMAIN line : line[i] = n
    BY DEF QueueInv, Operations
  <1>7. Preceding(m)' = {n \in Operations : OutletOf[n] = o}
    <2>1. ASSUME NEW n \in Operations, OutletOf[n] = o PROVE n \in Preceding(m)'
      <3>1. PICK i \in DOMAIN line : line[i] = n
        BY <1>6
      <3>2. i \in DOMAIN line' /\ L \in DOMAIN line' /\ i < L /\ line'[i] = n /\ line'[L] = m
        BY <1>1, <3>1
      <3> HIDE DEF L
      <3> QED
        BY <1>3, <2>1, <3>2 DEF Preceding
    <2>2. ASSUME NEW n \in Preceding(m)' PROVE n \in Operations /\ OutletOf[n] = o
      <3>1. PICK i \in DOMAIN line', j \in DOMAIN line' : i < j /\ line'[i] = n /\ line'[j] = m
        BY <2>2 DEF Preceding
      <3>2. i \in DOMAIN line /\ n # m
        BY <1>1, <3>1
      <3> QED
        BY <1>3, <2>2, <3>2 DEF Preceding
    <2> QED
      BY <2>1, <2>2
  <1>8. ASSUME NEW n \in Mails, n # m PROVE Preceding(n)' = Preceding(n)
    <2>1. ASSUME NEW q \in Mails
          PROVE  (\E i, j \in DOMAIN line' : i < j /\ line'[i] = q /\ line'[j] = n)
                   <=> (\E i, j \in DOMAIN line : i < j /\ line[i] = q /\ line[j] = n)
      <3>1. ASSUME NEW i \in DOMAIN line', NEW j \in DOMAIN line', i < j, line'[j] = n
            PROVE  i \in DOMAIN line /\ j \in DOMAIN line
        BY <1>1, <1>8, <3>1
      <3>2. \A i \in DOMAIN line : i \in DOMAIN line'
        BY <1>1
      <3> QED
        BY <1>1, <3>1, <3>2
    <2>2. \A q \in Preceding(n)' : q # m
      <3>1. ASSUME NEW i \in DOMAIN line', NEW j \in DOMAIN line', i < j, line'[i] = m PROVE FALSE
        BY <1>1, <3>1
      <3> QED
        BY <3>1 DEF Preceding
    <2>3. Operations \subseteq Mails /\ (n \in Operations' <=> n \in Operations)
      BY <1>3, <1>8 DEF Operations
    <2> QED
      BY <1>3, <2>1, <2>2, <2>3 DEF Preceding
  <1>9. pc'[m] # "queued" => {n \in Operations : OutletOf[n] = o} = {}
    <2> SUFFICES ASSUME pending[o] = None, NEW n \in Operations, OutletOf[n] = o PROVE FALSE
      BY <1>2
    <2>1. PICK i \in DOMAIN line : line[i] = n
      BY <1>6
    <2>2. n \notin resolved
      BY DEF QueueInv, Operations
    <2>3. \E k \in DOMAIN line : line[k] = None
      BY <2>1, <2>2 DEF QueueInv
    <2> QED
      BY <1>1, <2>3
  <1> HIDE DEF L
  <1> QED
    BY <1>4, <1>5, <1>7, <1>8, <1>9 DEF Line!Join, Line!Goes

\* Its turn has come: the mails before it have returned.
LEMMA ExecuteEnters ==
  ASSUME IInv, QueueInv, NEW m \in Mails, Execute(m), ~Stopped(m)
  PROVE  Line!Enter(m)
  <1>1. /\ pc[m] = "queued" /\ prev[m] \in resolved /\ Goes(m)
        /\ pc'[m] \notin {"new", "refused", "queued"} /\ UNCHANGED <<result, line>>
        /\ \A n \in Mails \ {m} : pc'[n] = pc[n]
    <2>1. Begin(m) /\ pc[m] = "queued" /\ prev[m] \in resolved /\ UNCHANGED <<result, line>>
      BY DEF Execute, queue
    <2>2. Goes(m)
      BY <2>1, BeginGoes DEF IInv, TypeOK
    <2>3. pc'[m] \notin {"new", "refused", "queued"}
      BY <2>1, ProceedGoes DEF Begin, IInv, TypeOK
    <2> QED
      BY <2>1, <2>2, <2>3 DEF Goes, WaitsAgain, GiveUp, Returns, HandsOver, IInv, TypeOK
  <1>2. Operations' = Operations /\ m \in Operations
    BY <1>1 DEF Operations
  <1>3. Preceding(m) = {} /\ \A n \in Mails : Preceding(n)' = Preceding(n)
    BY <1>1, <1>2, NobodyAhead DEF Preceding
  <1>4. Standing(m) = "waiting" /\ Standing(m)' = "using"
        /\ \A n \in Mails : n # m => Standing(n)' = Standing(n)
    BY <1>1, <1>2 DEF Standing
  <1> QED
    BY <1>3, <1>4 DEF Line!Enter, Line!Goes

\* A mail that is refused never gets to the line.
LEMMA RefuseRefuses ==
  ASSUME IInv, NEW m \in Mails, Refuse(m)
  PROVE  Line!Refuse(m)
  <1>1. /\ pc[m] = "new" /\ pc'[m] = "refused" /\ line' = line
        /\ \A n \in Mails \ {m} : pc'[n] = pc[n] /\ result'[n] = result[n]
    BY DEF Refuse, queue, IInv, TypeOK
  <1>2. Operations' = Operations /\ m \notin Operations
    BY <1>1 DEF Operations
  <1>3. \A n \in Mails : Preceding(n)' = Preceding(n)
    BY <1>1, <1>2 DEF Preceding
  <1>4. Standing(m) = "new" /\ Standing(m)' = "gone"
        /\ \A n \in Mails : n # m => Standing(n)' = Standing(n)
    BY <1>1, <1>2 DEF Standing
  <1> QED
    BY <1>3, <1>4 DEF Line!Refuse, Line!Goes

\* A step is a refusal, a call, a turn, or mails that return.
LEMMA LineKinds ==
  ASSUME IInv, [Next]_vars
  PROVE  \/ LeavesOnly
         \/ \E m \in Mails : Refuse(m) \/ Send(m) \/ (Execute(m) /\ ~Stopped(m))
  <1> USE DEF IInv, TypeOK, Points
  <1>1. CASE UNCHANGED vars
    BY <1>1 DEF vars, sender, queue, sending, LeavesOnly
  <1>2. ASSUME NEW m \in Mails, NEW ok \in BOOLEAN,
               ThreadRead(m, ok) \/ FileOpened(m, ok) \/ FileChecked(m, ok)
        PROVE  LeavesOnly
    <2>1. /\ pc[m] \in {"thread", "open", "stat"} /\ Goes(m)
          /\ pc'[m] \notin {"new", "refused", "queued"}
          /\ UNCHANGED <<result, line>>
      BY <1>2, ProceedGoes DEF ThreadRead, FileOpened, FileChecked, Goes, WaitsAgain,
         GiveUp, Returns, queue
    <2>2. \A n \in Mails \ {m} : pc'[n] = pc[n]
      BY <2>1 DEF Goes, WaitsAgain, GiveUp, Returns, HandsOver
    <2> QED
      BY <2>1, <2>2 DEF LeavesOnly
  <1>3. ASSUME NEW m \in Mails, Execute(m), Stopped(m) PROVE LeavesOnly
    BY <1>3 DEF Execute, LeavesOnly, queue
  <1>4. ASSUME NEW m \in Mails, TailResolves(m) \/ Deliver(m) PROVE LeavesOnly
    BY <1>4 DEF TailResolves, Deliver, LeavesOnly, sending, queue
  <1>5. ASSUME NEW m \in Mails, NEW a \in Outcomes, Answer(m, a) PROVE LeavesOnly
    BY <1>5 DEF Answer, Returns, LeavesOnly, queue
  <1>6. ASSUME NEW m \in Mails, Finish(m) PROVE LeavesOnly
    BY <1>6 DEF Finish, LeavesOnly, queue, Operations
  <1>7. ASSUME NEW m \in Mails, Abort(m) PROVE LeavesOnly
    <2>1. CASE m \notin Operations
      BY <1>7, <2>1 DEF Abort, LeavesOnly, queue
    <2>2. CASE m \in Operations
      <3>1. Cancelled(m) \subseteq Operations
        BY <2>2 DEF Cancelled, OnOutlet
      <3> QED
        BY <1>7, <2>2, <3>1 DEF Abort, Stop, StopResult, LeavesOnly, queue
    <2> QED
      BY <2>1, <2>2
  <1>8. CASE Dispose
    BY <1>8 DEF Dispose, Stop, StopResult, LeavesOnly, queue
  <1> QED
    BY <1>1, <1>2, <1>3, <1>4, <1>5, <1>6, <1>7, <1>8 DEF Next, Step

LEMMA FreshStep == IInv /\ Fresh /\ [Next]_vars => Fresh'
  <1> SUFFICES ASSUME IInv, Fresh, [Next]_vars PROVE Fresh'
    OBVIOUS
  <1>1. CASE LeavesOnly
    BY <1>1 DEF LeavesOnly, Fresh, Operations
  <1>2. ASSUME NEW m \in Mails, Send(m) PROVE Fresh'
    BY <1>2, BeginGoes DEF Send, Goes, WaitsAgain, GiveUp, Returns, HandsOver, IInv, TypeOK, Fresh
  <1>3. ASSUME NEW m \in Mails, Refuse(m) PROVE Fresh'
    BY <1>3 DEF Refuse, IInv, TypeOK, Fresh
  <1>4. ASSUME NEW m \in Mails, Execute(m), ~Stopped(m) PROVE Fresh'
    BY <1>4, BeginGoes DEF Execute, Goes, WaitsAgain, GiveUp, Returns, HandsOver, IInv, TypeOK, Fresh
  <1> QED
    BY <1>1, <1>2, <1>3, <1>4, LineKinds

\* The mails of an outlet take turns in the order of their calls, and whoever returns, done,
\* cancelled or disposed of, is waited for no more (105-119, 189-201).
THEOREM SenderKeepsTheLine == Spec => KeepsTheLine
  <1>1. Init => Line!Init /\ Fresh
    <2> SUFFICES ASSUME Init PROVE Line!Init /\ Fresh
      OBVIOUS
    <2>0. Operations = {}
      BY DEF Init, Operations
    <2>1. ASSUME NEW m \in Mails PROVE Standing(m) = "new"
      <3>1. pc[m] = "new"
        BY DEF Init
      <3> QED
        BY <3>1 DEF Standing
    <2>2. \A m \in Mails : Preceding(m) = {}
      BY <2>0 DEF Preceding
    <2> QED
      BY <2>1, <2>2 DEF Init, Line!Init, Fresh
  <1>2. IInv /\ QueueInv /\ Fresh /\ [Next]_vars => [Line!Next]_(Line!vars)
    <2> SUFFICES ASSUME IInv, QueueInv, Fresh, [Next]_vars PROVE [Line!Next]_(Line!vars)
      OBVIOUS
    <2>1. ASSUME NEW m \in Mails, Line!Refuse(m) \/ Line!Join(m) \/ Line!Enter(m)
          PROVE  Line!Next
      BY <2>1 DEF Line!Next
    <2> QED
      BY <2>1, LineKinds, LeavesOnlyLeaves, SendJoins, ExecuteEnters, RefuseRefuses
  <1> QED
    BY <1>1, <1>2, FreshStep, SenderInvariant, QueueInOrder, PTL
    DEF Spec, KeepsTheLine, Line!Spec

\* One mail at a time uses an outlet, and of any two that are in the middle of their call one
\* waits for the other: what a line is for follows from its being one (smtp.ts:105-119).
THEOREM SenderTakesTurns == Spec => []Line!InTurn
  <1>1. ASSUME QueueInv PROVE Line!InTurn
    <2> DEFINE ahead == [m \in Mails |-> Preceding(m)]
               st    == [m \in Mails |-> Standing(m)]
    <2>1. ASSUME NEW m \in Mails PROVE ahead[m] \subseteq Line!Present(OutletOf[m]) \ {m}
      <3>1. \A n \in Preceding(m) : n # m /\ n \in Operations /\ OutletOf[n] = OutletOf[m]
        BY <1>1 DEF Preceding, QueueInv
      <3>2. Line!Present(OutletOf[m]) = {n \in Operations : OutletOf[n] = OutletOf[m]}
        BY HereAre DEF Line!Present
      <3> QED
        BY <3>1, <3>2
    <2>2. ASSUME NEW m \in Mails, m \notin Line!Here PROVE ahead[m] = {}
      BY <2>2, HereAre DEF Preceding
    <2>3. ASSUME NEW m \in Line!Here, NEW n \in Line!Here, OutletOf[m] = OutletOf[n], m # n
          PROVE  m \in ahead[n] <=> n \notin ahead[m]
      <3>1. m \in Operations /\ n \in Operations /\ m \in Mails /\ n \in Mails
        BY HereAre DEF Operations
      <3>2. PICK i \in DOMAIN line, j \in DOMAIN line : line[i] = m /\ line[j] = n
        BY <1>1, <3>1 DEF QueueInv, Operations
      <3>3. i # j /\ i \in Nat /\ j \in Nat
        BY <1>1, <2>3, <3>2 DEF QueueInv
      <3>4. \A k \in DOMAIN line : (line[k] = m <=> k = i) /\ (line[k] = n <=> k = j)
        BY <1>1, <3>2 DEF QueueInv
      <3>5. m \in Preceding(n) <=> i < j
        BY <2>3, <3>1, <3>2, <3>4 DEF Preceding
      <3>6. n \in Preceding(m) <=> j < i
        BY <2>3, <3>1, <3>2, <3>4 DEF Preceding
      <3> QED
        BY <3>1, <3>3, <3>5, <3>6
    <2>4. ASSUME NEW m \in Mails, st[m] = "using" PROVE ahead[m] = {}
      <3>1. pc[m] # "queued"
        BY <2>4 DEF Standing
      <3> QED
        BY <1>1, <3>1, NobodyAhead
    <2> HIDE DEF ahead, st
    <2>5. \A u \in Mails : ahead[u] \subseteq Line!Present(OutletOf[u]) \ {u}
      BY <2>1
    <2>6. \A u, v \in Line!Here :
            OutletOf[u] = OutletOf[v] /\ u # v => (u \in ahead[v] <=> v \notin ahead[u])
      BY <2>3
    <2>7. (/\ \A u \in Mails : ahead[u] \subseteq Line!Present(OutletOf[u]) \ {u}
           /\ \A u \in Mails : u \notin Line!Here => ahead[u] = {}
           /\ \A u, v \in Line!Here :
                OutletOf[u] = OutletOf[v] /\ u # v => (u \in ahead[v] <=> v \notin ahead[u])
           /\ \A u \in Mails : st[u] = "using" => ahead[u] = {})
          = Line!InTurn
      BY DEF Line!InTurn, ahead, st
    <2> QED
      BY <2>2, <2>4, <2>5, <2>6, <2>7
  <1> QED
    BY <1>1, QueueInOrder, PTL
=============================================================================
