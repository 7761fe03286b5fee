---------------------------- MODULE RecoveryProofs ---------------------------
(***************************************************************************)
(* What recovery promises: the round that the instances of a process share *)
(* (GatewayCatalogRecovery), for any number of participants and attempts,  *)
(* and the instance with its sessions (ProviderSession), for any keys,     *)
(* calls, commands and sessions.                                           *)
(*                                                                         *)
(* The round. OneLiveRound is not inductive: a round could begin beside    *)
(* one whose controller is aborted but whose race is open. RoundsGoOn says *)
(* how the loop, the controller, the race and its finally follow one       *)
(* another, RoundsBegin that the current round has begun and is not        *)
(* settled.                                                                *)
(*                                                                         *)
(* The instance. StatusIsTrue, DirectoryInv and OnlyTheLiveContext need to *)
(* know that the calls waited for are exactly the network calls of the     *)
(* present revision, that this revision is of the present key (DirOK),     *)
(* that the active recovery is that of the session that is on, has not     *)
(* ended before, and is the only one that pauses (LoopOK), and that a      *)
(* command whose session has the present name is of the session that is on *)
(* (CmdOK).                                                                *)
(***************************************************************************)
EXTENDS GatewayCatalogRecovery, ProviderSession, TLAPS

-----------------------------------------------------------------------------
(* The shared round *)

\* Every variable keeps its type, and members are those who wait.
LEMMA RoundTypeStep ==
  ASSUME RoundTypeOK, RoundsBegin, RoundsGoOn, [RoundNext]_roundVars
  PROVE  RoundTypeOK'
<1> USE RecoveryAssumption
        DEF RoundTypeOK, MembersWait, RoundsBegin, RoundsGoOn, RoundOK, Answers, rounds, callers,
            Results
<1>1. ASSUME NEW j \in Joiners, Join(j)
       PROVE  RoundTypeOK'
  <2>1. MembersWait'
    BY <1>1 DEF Join, Joinable
  <2>2. idled' \in BOOLEAN
    BY <1>1 DEF Join, Joinable
  <2>6. attempts' \in 0..MaxAttempts
    BY <1>1 DEF Join, Joinable
  <2>7. joins' \in Nat
    BY <1>1 DEF Join, Joinable
  <2>3. aborted' \in [Joiners -> BOOLEAN]
    BY <1>1 DEF Join, Joinable
  <2>8. settled' \in [Joiners -> BOOLEAN]
    BY <1>1 DEF Join, Joinable
  <2>4. /\ run' \in [Joiners -> {"none", "loop", "asking", "delay", "ended"} \cup Results]
        /\ race' \in [Joiners -> {"none", "expired"} \cup Results]
        /\ st' \in [Joiners -> {"new", "waiting", "ok", "final", "expired", "rejected"}]
    BY <1>1 DEF Join, Joinable
  <2>5. /\ activeRound' \in Joiners \cup {Nobody} /\ members' \in [Joiners -> SUBSET Joiners]
        /\ asked' \in [Joiners -> Joiners \cup {Nobody}]
        /\ round' \in [Joiners -> Joiners \cup {Nobody}]
        /\ turn' \in [Joiners -> Nat] /\ signalled' \in SUBSET Joiners
        /\ stopped' \in SUBSET Joiners
    BY <1>1 DEF Join, Joinable
  <2> QED BY <2>1, <2>2, <2>3, <2>4, <2>5, <2>6, <2>7, <2>8
<1>2. ASSUME NEW j \in Joiners, JoinAborted(j)
       PROVE  RoundTypeOK'
  <2>1. MembersWait'
    BY <1>2 DEF JoinAborted
  <2>2. idled' \in BOOLEAN
    BY <1>2 DEF JoinAborted
  <2>6. attempts' \in 0..MaxAttempts
    BY <1>2 DEF JoinAborted
  <2>7. joins' \in Nat
    BY <1>2 DEF JoinAborted
  <2>3. aborted' \in [Joiners -> BOOLEAN]
    BY <1>2 DEF JoinAborted
  <2>8. settled' \in [Joiners -> BOOLEAN]
    BY <1>2 DEF JoinAborted
  <2>4. /\ run' \in [Joiners -> {"none", "loop", "asking", "delay", "ended"} \cup Results]
        /\ race' \in [Joiners -> {"none", "expired"} \cup Results]
        /\ st' \in [Joiners -> {"new", "waiting", "ok", "final", "expired", "rejected"}]
    BY <1>2 DEF JoinAborted
  <2>5. /\ activeRound' \in Joiners \cup {Nobody} /\ members' \in [Joiners -> SUBSET Joiners]
        /\ asked' \in [Joiners -> Joiners \cup {Nobody}]
        /\ round' \in [Joiners -> Joiners \cup {Nobody}]
        /\ turn' \in [Joiners -> Nat] /\ signalled' \in SUBSET Joiners
        /\ stopped' \in SUBSET Joiners
    BY <1>2 DEF JoinAborted
  <2> QED BY <2>1, <2>2, <2>3, <2>4, <2>5, <2>6, <2>7, <2>8
<1>3. ASSUME NEW j \in Joiners, SignalAborts(j)
       PROVE  RoundTypeOK'
  <2>1. MembersWait'
    BY <1>3 DEF SignalAborts, LastLeft, Others, AbortRound, Won
  <2>2. idled' \in BOOLEAN
    BY <1>3 DEF SignalAborts, LastLeft, Others, AbortRound, Won
  <2>6. attempts' \in 0..MaxAttempts
    BY <1>3 DEF SignalAborts, LastLeft, Others, AbortRound, Won
  <2>7. joins' \in Nat
    BY <1>3 DEF SignalAborts, LastLeft, Others, AbortRound, Won
  <2>3. aborted' \in [Joiners -> BOOLEAN]
    <3>1. CASE LastLeft(round[j], j)
      <4>1. aborted' = [aborted EXCEPT ![round[j]] = TRUE]
        BY <3>1, <1>3, Zenon DEF SignalAborts, AbortRound
      <4>2. aborted \in [Joiners -> BOOLEAN]
        OBVIOUS
      <4> QED BY <4>1, <4>2, Zenon
    <3>2. CASE ~LastLeft(round[j], j)
      BY <3>2, <1>3 DEF SignalAborts
    <3> QED BY <3>1, <3>2
  <2>8. settled' \in [Joiners -> BOOLEAN]
    BY <1>3 DEF SignalAborts, LastLeft, Others, AbortRound, Won
  <2>4. /\ run' \in [Joiners -> {"none", "loop", "asking", "delay", "ended"} \cup Results]
        /\ race' \in [Joiners -> {"none", "expired"} \cup Results]
        /\ st' \in [Joiners -> {"new", "waiting", "ok", "final", "expired", "rejected"}]
    BY <1>3 DEF SignalAborts, LastLeft, Others, AbortRound, Won
  <2>5. /\ activeRound' \in Joiners \cup {Nobody} /\ members' \in [Joiners -> SUBSET Joiners]
        /\ asked' \in [Joiners -> Joiners \cup {Nobody}]
        /\ round' \in [Joiners -> Joiners \cup {Nobody}]
        /\ turn' \in [Joiners -> Nat] /\ signalled' \in SUBSET Joiners
        /\ stopped' \in SUBSET Joiners
    BY <1>3 DEF SignalAborts, LastLeft, Others, AbortRound, Won
  <2> QED BY <2>1, <2>2, <2>3, <2>4, <2>5, <2>6, <2>7, <2>8
<1>4. ASSUME NEW j \in Joiners, JoinSettles(j)
       PROVE  RoundTypeOK'
  <2>1. MembersWait'
    BY <1>4 DEF JoinSettles, Others
  <2>2. idled' \in BOOLEAN
    BY <1>4 DEF JoinSettles, Others
  <2>6. attempts' \in 0..MaxAttempts
    BY <1>4 DEF JoinSettles, Others
  <2>7. joins' \in Nat
    BY <1>4 DEF JoinSettles, Others
  <2>3. aborted' \in [Joiners -> BOOLEAN]
    BY <1>4 DEF JoinSettles, Others
  <2>8. settled' \in [Joiners -> BOOLEAN]
    BY <1>4 DEF JoinSettles, Others
  <2>4. /\ run' \in [Joiners -> {"none", "loop", "asking", "delay", "ended"} \cup Results]
        /\ race' \in [Joiners -> {"none", "expired"} \cup Results]
        /\ st' \in [Joiners -> {"new", "waiting", "ok", "final", "expired", "rejected"}]
    BY <1>4 DEF JoinSettles, Others
  <2>5. /\ activeRound' \in Joiners \cup {Nobody} /\ members' \in [Joiners -> SUBSET Joiners]
        /\ asked' \in [Joiners -> Joiners \cup {Nobody}]
        /\ round' \in [Joiners -> Joiners \cup {Nobody}]
        /\ turn' \in [Joiners -> Nat] /\ signalled' \in SUBSET Joiners
        /\ stopped' \in SUBSET Joiners
    BY <1>4 DEF JoinSettles, Others
  <2> QED BY <2>1, <2>2, <2>3, <2>4, <2>5, <2>6, <2>7, <2>8
<1>5. ASSUME NEW q \in Joiners, Iterate(q)
       PROVE  RoundTypeOK'
  <2>1. MembersWait'
    BY <1>5 DEF Iterate, First
  <2>2. idled' \in BOOLEAN
    BY <1>5 DEF Iterate, First
  <2>6. attempts' \in 0..MaxAttempts
    BY <1>5 DEF Iterate, First
  <2>7. joins' \in Nat
    BY <1>5 DEF Iterate, First
  <2>3. aborted' \in [Joiners -> BOOLEAN]
    BY <1>5 DEF Iterate, First
  <2>8. settled' \in [Joiners -> BOOLEAN]
    BY <1>5 DEF Iterate, First
  <2>4. /\ run' \in [Joiners -> {"none", "loop", "asking", "delay", "ended"} \cup Results]
        /\ race' \in [Joiners -> {"none", "expired"} \cup Results]
        /\ st' \in [Joiners -> {"new", "waiting", "ok", "final", "expired", "rejected"}]
    BY <1>5 DEF Iterate, First
  <2>5. /\ activeRound' \in Joiners \cup {Nobody} /\ members' \in [Joiners -> SUBSET Joiners]
        /\ asked' \in [Joiners -> Joiners \cup {Nobody}]
        /\ round' \in [Joiners -> Joiners \cup {Nobody}]
        /\ turn' \in [Joiners -> Nat] /\ signalled' \in SUBSET Joiners
        /\ stopped' \in SUBSET Joiners
    BY <1>5 DEF Iterate, First
  <2> QED BY <2>1, <2>2, <2>3, <2>4, <2>5, <2>6, <2>7, <2>8
<1>6. ASSUME NEW q \in Joiners, Wake(q)
       PROVE  RoundTypeOK'
  <2>1. MembersWait'
    BY <1>6 DEF Wake
  <2>2. idled' \in BOOLEAN
    BY <1>6 DEF Wake
  <2>6. attempts' \in 0..MaxAttempts
    BY <1>6 DEF Wake
  <2>7. joins' \in Nat
    BY <1>6 DEF Wake
  <2>3. aborted' \in [Joiners -> BOOLEAN]
    BY <1>6 DEF Wake
  <2>8. settled' \in [Joiners -> BOOLEAN]
    BY <1>6 DEF Wake
  <2>4. /\ run' \in [Joiners -> {"none", "loop", "asking", "delay", "ended"} \cup Results]
        /\ race' \in [Joiners -> {"none", "expired"} \cup Results]
        /\ st' \in [Joiners -> {"new", "waiting", "ok", "final", "expired", "rejected"}]
    BY <1>6 DEF Wake
  <2>5. /\ activeRound' \in Joiners \cup {Nobody} /\ members' \in [Joiners -> SUBSET Joiners]
        /\ asked' \in [Joiners -> Joiners \cup {Nobody}]
        /\ round' \in [Joiners -> Joiners \cup {Nobody}]
        /\ turn' \in [Joiners -> Nat] /\ signalled' \in SUBSET Joiners
        /\ stopped' \in SUBSET Joiners
    BY <1>6 DEF Wake
  <2> QED BY <2>1, <2>2, <2>3, <2>4, <2>5, <2>6, <2>7, <2>8
<1>7. ASSUME NEW q \in Joiners, RunSettles(q)
       PROVE  RoundTypeOK'
  <2>1. MembersWait'
    BY <1>7 DEF RunSettles, Won
  <2>2. idled' \in BOOLEAN
    BY <1>7 DEF RunSettles, Won
  <2>6. attempts' \in 0..MaxAttempts
    BY <1>7 DEF RunSettles, Won
  <2>7. joins' \in Nat
    BY <1>7 DEF RunSettles, Won
  <2>3. aborted' \in [Joiners -> BOOLEAN]
    BY <1>7 DEF RunSettles, Won
  <2>8. settled' \in [Joiners -> BOOLEAN]
    BY <1>7 DEF RunSettles, Won
  <2>4. /\ run' \in [Joiners -> {"none", "loop", "asking", "delay", "ended"} \cup Results]
        /\ race' \in [Joiners -> {"none", "expired"} \cup Results]
        /\ st' \in [Joiners -> {"new", "waiting", "ok", "final", "expired", "rejected"}]
    BY <1>7 DEF RunSettles, Won
  <2>5. /\ activeRound' \in Joiners \cup {Nobody} /\ members' \in [Joiners -> SUBSET Joiners]
        /\ asked' \in [Joiners -> Joiners \cup {Nobody}]
        /\ round' \in [Joiners -> Joiners \cup {Nobody}]
        /\ turn' \in [Joiners -> Nat] /\ signalled' \in SUBSET Joiners
        /\ stopped' \in SUBSET Joiners
    BY <1>7 DEF RunSettles, Won
  <2> QED BY <2>1, <2>2, <2>3, <2>4, <2>5, <2>6, <2>7, <2>8
<1>8. ASSUME NEW q \in Joiners, Expires(q)
       PROVE  RoundTypeOK'
  BY <1>8 DEF Expires, Pending
<1>9. ASSUME NEW q \in Joiners, RoundSettles(q)
       PROVE  RoundTypeOK'
  BY <1>9 DEF RoundSettles, Announces
<1>10. ASSUME NEW q \in Joiners, NEW answer \in Answers, Answered(q, answer)
       PROVE  RoundTypeOK'
  <2>1. MembersWait'
    BY <1>10 DEF Answered
  <2>2. idled' \in BOOLEAN
    BY <1>10 DEF Answered
  <2>6. attempts' \in 0..MaxAttempts
    BY <1>10 DEF Answered
  <2>7. joins' \in Nat
    BY <1>10 DEF Answered
  <2>3. aborted' \in [Joiners -> BOOLEAN]
    BY <1>10 DEF Answered
  <2>8. settled' \in [Joiners -> BOOLEAN]
    BY <1>10 DEF Answered
  <2>4. /\ run' \in [Joiners -> {"none", "loop", "asking", "delay", "ended"} \cup Results]
        /\ race' \in [Joiners -> {"none", "expired"} \cup Results]
        /\ st' \in [Joiners -> {"new", "waiting", "ok", "final", "expired", "rejected"}]
    BY <1>10 DEF Answered
  <2>5. /\ activeRound' \in Joiners \cup {Nobody} /\ members' \in [Joiners -> SUBSET Joiners]
        /\ asked' \in [Joiners -> Joiners \cup {Nobody}]
        /\ round' \in [Joiners -> Joiners \cup {Nobody}]
        /\ turn' \in [Joiners -> Nat] /\ signalled' \in SUBSET Joiners
        /\ stopped' \in SUBSET Joiners
    BY <1>10 DEF Answered
  <2> QED BY <2>1, <2>2, <2>3, <2>4, <2>5, <2>6, <2>7, <2>8
<1>11. CASE Stop
  BY <1>11 DEF Stop, StopAborts, AbortRound, Won
<1>12. CASE UNCHANGED roundVars
  BY <1>12 DEF roundVars
<1> HIDE DEF RoundTypeOK, MembersWait, RoundsBegin, RoundsGoOn, RoundOK, Answers, rounds,
             callers, Results
<1> QED
  BY <1>1, <1>2, <1>3, <1>4, <1>5, <1>6, <1>7, <1>8, <1>9, <1>10, <1>11, <1>12 DEF RoundNext

\* A round is begun, raced for and settled once.
LEMMA RoundGoesOn ==
  ASSUME RoundTypeOK, RoundsBegin, RoundsGoOn, [RoundNext]_roundVars
  PROVE  RoundsGoOn'
<1> USE RecoveryAssumption
        DEF RoundTypeOK, MembersWait, RoundsBegin, RoundsGoOn, RoundOK, Answers, rounds, callers,
            Results
<1>1. ASSUME NEW j \in Joiners, Join(j)
       PROVE  RoundsGoOn'
  BY <1>1 DEF Join, Joinable
<1>2. ASSUME NEW j \in Joiners, JoinAborted(j)
       PROVE  RoundsGoOn'
  BY <1>2 DEF JoinAborted
<1>3. ASSUME NEW j \in Joiners, SignalAborts(j)
       PROVE  RoundsGoOn'
  BY <1>3 DEF SignalAborts, LastLeft, Others, AbortRound, Won
<1>4. ASSUME NEW j \in Joiners, JoinSettles(j)
       PROVE  RoundsGoOn'
  BY <1>4 DEF JoinSettles, Others
<1>5. ASSUME NEW q \in Joiners, Iterate(q)
       PROVE  RoundsGoOn'
  BY <1>5 DEF Iterate, First
<1>6. ASSUME NEW q \in Joiners, Wake(q)
       PROVE  RoundsGoOn'
  BY <1>6 DEF Wake
<1>7. ASSUME NEW q \in Joiners, RunSettles(q)
       PROVE  RoundsGoOn'
  BY <1>7 DEF RunSettles, Won
<1>8. ASSUME NEW q \in Joiners, Expires(q)
       PROVE  RoundsGoOn'
  BY <1>8 DEF Expires, Pending
<1>9. ASSUME NEW q \in Joiners, RoundSettles(q)
       PROVE  RoundsGoOn'
  BY <1>9 DEF RoundSettles, Announces
<1>10. ASSUME NEW q \in Joiners, NEW answer \in Answers, Answered(q, answer)
       PROVE  RoundsGoOn'
  BY <1>10 DEF Answered
<1>11. CASE Stop
  BY <1>11 DEF Stop, StopAborts, AbortRound, Won
<1>12. CASE UNCHANGED roundVars
  BY <1>12 DEF roundVars
<1> HIDE DEF RoundTypeOK, MembersWait, RoundsBegin, RoundsGoOn, RoundOK, Answers, rounds,
             callers, Results
<1> QED
  BY <1>1, <1>2, <1>3, <1>4, <1>5, <1>6, <1>7, <1>8, <1>9, <1>10, <1>11, <1>12 DEF RoundNext

\* A new joiner has no round yet, and the current round is not settled.
LEMMA BeginStep ==
  ASSUME RoundTypeOK, RoundsBegin, RoundsGoOn, [RoundNext]_roundVars
  PROVE  RoundsBegin'
<1> USE RecoveryAssumption
        DEF RoundTypeOK, MembersWait, RoundsBegin, RoundsGoOn, RoundOK, Answers, rounds, callers,
            Results
<1>1. ASSUME NEW j \in Joiners, Join(j)
       PROVE  RoundsBegin'
  BY <1>1 DEF Join, Joinable
<1>2. ASSUME NEW j \in Joiners, JoinAborted(j)
       PROVE  RoundsBegin'
  BY <1>2 DEF JoinAborted
<1>3. ASSUME NEW j \in Joiners, SignalAborts(j)
       PROVE  RoundsBegin'
  BY <1>3 DEF SignalAborts, LastLeft, Others, AbortRound, Won
<1>4. ASSUME NEW j \in Joiners, JoinSettles(j)
       PROVE  RoundsBegin'
  BY <1>4 DEF JoinSettles, Others
<1>5. ASSUME NEW q \in Joiners, Iterate(q)
       PROVE  RoundsBegin'
  BY <1>5 DEF Iterate, First
<1>6. ASSUME NEW q \in Joiners, Wake(q)
       PROVE  RoundsBegin'
  BY <1>6 DEF Wake
<1>7. ASSUME NEW q \in Joiners, RunSettles(q)
       PROVE  RoundsBegin'
  BY <1>7 DEF RunSettles, Won
<1>8. ASSUME NEW q \in Joiners, Expires(q)
       PROVE  RoundsBegin'
  BY <1>8 DEF Expires, Pending
<1>9. ASSUME NEW q \in Joiners, RoundSettles(q)
       PROVE  RoundsBegin'
  BY <1>9 DEF RoundSettles, Announces
<1>10. ASSUME NEW q \in Joiners, NEW answer \in Answers, Answered(q, answer)
       PROVE  RoundsBegin'
  BY <1>10 DEF Answered
<1>11. CASE Stop
  BY <1>11 DEF Stop, StopAborts, AbortRound, Won
<1>12. CASE UNCHANGED roundVars
  BY <1>12 DEF roundVars
<1> HIDE DEF RoundTypeOK, MembersWait, RoundsBegin, RoundsGoOn, RoundOK, Answers, rounds,
             callers, Results
<1> QED
  BY <1>1, <1>2, <1>3, <1>4, <1>5, <1>6, <1>7, <1>8, <1>9, <1>10, <1>11, <1>12 DEF RoundNext

\* A round that is not decided is the current one.
LEMMA LiveStep ==
  ASSUME RoundTypeOK, RoundsBegin, RoundsGoOn, OneLiveRound, [RoundNext]_roundVars
  PROVE  OneLiveRound'
<1> USE RecoveryAssumption
        DEF RoundTypeOK, MembersWait, RoundsBegin, RoundsGoOn, RoundOK, OneLiveRound, Answers,
            rounds, callers,
            Results
<1>1. ASSUME NEW j \in Joiners, Join(j)
       PROVE  OneLiveRound'
  BY <1>1 DEF Join, Joinable
<1>2. ASSUME NEW j \in Joiners, JoinAborted(j)
       PROVE  OneLiveRound'
  BY <1>2 DEF JoinAborted
<1>3. ASSUME NEW j \in Joiners, SignalAborts(j)
       PROVE  OneLiveRound'
  BY <1>3 DEF SignalAborts, LastLeft, Others, AbortRound, Won
<1>4. ASSUME NEW j \in Joiners, JoinSettles(j)
       PROVE  OneLiveRound'
  BY <1>4 DEF JoinSettles, Others
<1>5. ASSUME NEW q \in Joiners, Iterate(q)
       PROVE  OneLiveRound'
  BY <1>5 DEF Iterate, First
<1>6. ASSUME NEW q \in Joiners, Wake(q)
       PROVE  OneLiveRound'
  BY <1>6 DEF Wake
<1>7. ASSUME NEW q \in Joiners, RunSettles(q)
       PROVE  OneLiveRound'
  BY <1>7 DEF RunSettles, Won
<1>8. ASSUME NEW q \in Joiners, Expires(q)
       PROVE  OneLiveRound'
  BY <1>8 DEF Expires, Pending
<1>9. ASSUME NEW q \in Joiners, RoundSettles(q)
       PROVE  OneLiveRound'
  BY <1>9 DEF RoundSettles, Announces
<1>10. ASSUME NEW q \in Joiners, NEW answer \in Answers, Answered(q, answer)
       PROVE  OneLiveRound'
  BY <1>10 DEF Answered
<1>11. CASE Stop
  BY <1>11 DEF Stop, StopAborts, AbortRound, Won
<1>12. CASE UNCHANGED roundVars
  BY <1>12 DEF roundVars
<1> HIDE DEF RoundTypeOK, MembersWait, RoundsBegin, RoundsGoOn, RoundOK, OneLiveRound, Answers,
        rounds,
             callers, Results
<1> QED
  BY <1>1, <1>2, <1>3, <1>4, <1>5, <1>6, <1>7, <1>8, <1>9, <1>10, <1>11, <1>12 DEF RoundNext

\* Whoever is rejected left or was stopped.
LEMMA CauseStep ==
  ASSUME RoundTypeOK, RoundsBegin, RoundsGoOn, RejectedOnlyForCause, [RoundNext]_roundVars
  PROVE  RejectedOnlyForCause'
<1> USE RecoveryAssumption
        DEF RoundTypeOK, MembersWait, RoundsBegin, RoundsGoOn, RoundOK, RejectedOnlyForCause,
            Answers, rounds, callers,
            Results
<1>1. ASSUME NEW j \in Joiners, Join(j)
       PROVE  RejectedOnlyForCause'
  BY <1>1 DEF Join, Joinable
<1>2. ASSUME NEW j \in Joiners, JoinAborted(j)
       PROVE  RejectedOnlyForCause'
  BY <1>2 DEF JoinAborted
<1>3. ASSUME NEW j \in Joiners, SignalAborts(j)
       PROVE  RejectedOnlyForCause'
  BY <1>3 DEF SignalAborts, LastLeft, Others, AbortRound, Won
<1>4. ASSUME NEW j \in Joiners, JoinSettles(j)
       PROVE  RejectedOnlyForCause'
  BY <1>4 DEF JoinSettles, Others
<1>5. ASSUME NEW q \in Joiners, Iterate(q)
       PROVE  RejectedOnlyForCause'
  BY <1>5 DEF Iterate, First
<1>6. ASSUME NEW q \in Joiners, Wake(q)
       PROVE  RejectedOnlyForCause'
  BY <1>6 DEF Wake
<1>7. ASSUME NEW q \in Joiners, RunSettles(q)
       PROVE  RejectedOnlyForCause'
  BY <1>7 DEF RunSettles, Won
<1>8. ASSUME NEW q \in Joiners, Expires(q)
       PROVE  RejectedOnlyForCause'
  BY <1>8 DEF Expires, Pending
<1>9. ASSUME NEW q \in Joiners, RoundSettles(q)
       PROVE  RejectedOnlyForCause'
  BY <1>9 DEF RoundSettles, Announces
<1>10. ASSUME NEW q \in Joiners, NEW answer \in Answers, Answered(q, answer)
       PROVE  RejectedOnlyForCause'
  BY <1>10 DEF Answered
<1>11. CASE Stop
  BY <1>11 DEF Stop, StopAborts, AbortRound, Won
<1>12. CASE UNCHANGED roundVars
  BY <1>12 DEF roundVars
<1> HIDE DEF RoundTypeOK, MembersWait, RoundsBegin, RoundsGoOn, RoundOK, RejectedOnlyForCause,
        Answers, rounds,
             callers, Results
<1> QED
  BY <1>1, <1>2, <1>3, <1>4, <1>5, <1>6, <1>7, <1>8, <1>9, <1>10, <1>11, <1>12 DEF RoundNext

\* Who is asked is there, and onIdle is called by the step that leaves nobody.
LEMMA AnnounceStep ==
  ASSUME RoundTypeOK, RoundsBegin, RoundsGoOn, [RoundNext]_roundVars
  PROVE  AskedAndAnnounced
<1> USE RecoveryAssumption
        DEF RoundTypeOK, MembersWait, RoundsBegin, RoundsGoOn, RoundOK, AskedAndAnnounced,
            HasParticipants, Answers, rounds, callers,
            Results
<1>1. ASSUME NEW j \in Joiners, Join(j)
       PROVE  AskedAndAnnounced
  BY <1>1 DEF Join, Joinable
<1>2. ASSUME NEW j \in Joiners, JoinAborted(j)
       PROVE  AskedAndAnnounced
  BY <1>2 DEF JoinAborted
<1>3. ASSUME NEW j \in Joiners, SignalAborts(j)
       PROVE  AskedAndAnnounced
  <2> DEFINE q == round[j]
  <2>1. q \in Joiners /\ j \in members[q] /\ asked' = asked /\ activeRound' = activeRound
    BY <1>3 DEF SignalAborts
  <2>2. \A r \in Joiners : r # q => members'[r] = members[r] /\ aborted'[r] = aborted[r]
    BY <2>1, <1>3 DEF SignalAborts, AbortRound
  <2>3. CASE LastLeft(q, j)
    <3>1. idled' = ~settled[q]
      BY <2>3, <1>3 DEF SignalAborts
    <3>2. activeRound = q => ~settled[q]
      BY <2>1
    <3> QED BY <2>1, <2>2, <3>1, <3>2
  <2>4. CASE ~LastLeft(q, j)
    <3>1. members'[q] # {} /\ aborted' = aborted
      BY <2>1, <2>4, <1>3 DEF SignalAborts, LastLeft, Others
    <3> QED BY <2>1, <2>2, <3>1
  <2> QED BY <2>3, <2>4
<1>4. ASSUME NEW j \in Joiners, JoinSettles(j)
       PROVE  AskedAndAnnounced
  BY <1>4 DEF JoinSettles, Others
<1>5. ASSUME NEW q \in Joiners, Iterate(q)
       PROVE  AskedAndAnnounced
  BY <1>5 DEF Iterate, First
<1>6. ASSUME NEW q \in Joiners, Wake(q)
       PROVE  AskedAndAnnounced
  BY <1>6 DEF Wake
<1>7. ASSUME NEW q \in Joiners, RunSettles(q)
       PROVE  AskedAndAnnounced
  BY <1>7 DEF RunSettles, Won
<1>8. ASSUME NEW q \in Joiners, Expires(q)
       PROVE  AskedAndAnnounced
  BY <1>8 DEF Expires, Pending
<1>9. ASSUME NEW q \in Joiners, RoundSettles(q)
       PROVE  AskedAndAnnounced
  BY <1>9 DEF RoundSettles, Announces
<1>10. ASSUME NEW q \in Joiners, NEW answer \in Answers, Answered(q, answer)
       PROVE  AskedAndAnnounced
  BY <1>10 DEF Answered
<1>11. CASE Stop
  BY <1>11 DEF Stop, StopAborts, AbortRound, Won
<1>12. CASE UNCHANGED roundVars
  BY <1>12 DEF roundVars
<1> HIDE DEF RoundTypeOK, MembersWait, RoundsBegin, RoundsGoOn, RoundOK, AskedAndAnnounced,
        HasParticipants, Answers, rounds,
             callers, Results
<1> QED
  BY <1>1, <1>2, <1>3, <1>4, <1>5, <1>6, <1>7, <1>8, <1>9, <1>10, <1>11, <1>12 DEF RoundNext

\* Nobody has joined.
LEMMA InitRecovery == RoundInit => RecoveryInv
<1> SUFFICES ASSUME RoundInit PROVE RecoveryInv
  OBVIOUS
<1> USE RecoveryAssumption DEF RoundInit
<1>1. RoundTypeOK
  <2>1. MembersWait
    BY DEF MembersWait
  <2>2. attempts \in 0..MaxAttempts /\ joins \in Nat
    OBVIOUS
  <2>3. aborted \in [Joiners -> BOOLEAN] /\ settled \in [Joiners -> BOOLEAN] /\ idled \in BOOLEAN
    OBVIOUS
  <2> QED BY <2>1, <2>2, <2>3 DEF RoundTypeOK, Results
<1>2. OneLiveRound /\ RejectedOnlyForCause
  BY DEF OneLiveRound, RejectedOnlyForCause
<1>3. RoundsBegin /\ RoundsGoOn
  BY DEF RoundsBegin, RoundsGoOn, RoundOK
<1> QED BY <1>1, <1>2, <1>3 DEF RecoveryInv, RoundInv

-----------------------------------------------------------------------------
\* The inductive invariant.
THEOREM RecoveryInvariant == RoundSpec => []RecoveryInv
<1>1. RecoveryInv /\ [RoundNext]_roundVars => RecoveryInv'
  BY RoundTypeStep, LiveStep, CauseStep, BeginStep, RoundGoesOn DEF RecoveryInv, RoundInv
<1> QED BY InitRecovery, <1>1, PTL DEF RoundSpec

\* However joins, ends and aborts overlap, one round at most goes on, and nobody is rejected
\* because somebody else left (gateway-catalog-recovery.ts:24-117).
THEOREM OneRoundForAll == RoundSpec => []RoundInv
<1>1. RecoveryInv => RoundInv
  BY DEF RecoveryInv
<1> QED BY RecoveryInvariant, <1>1, PTL

\* Nobody who left is asked, and the service is told when nobody is left.
THEOREM NobodyLeftIsAsked == RoundSpec => RoundSteps
<1>1. RecoveryInv /\ [RoundNext]_roundVars => [AskedAndAnnounced]_roundVars
  BY AnnounceStep DEF RecoveryInv, RoundInv
<1> QED BY RecoveryInvariant, <1>1, PTL DEF RoundSpec, RoundSteps

-----------------------------------------------------------------------------
(* The instance: the inductive invariant *)

\* The types of the state.
Dirs == [svc : Keys \union {None}, snap : 0..MaxStored, owner : Keys \union {None},
         loading : BOOLEAN, err : Errors, enabled : BOOLEAN, retryable : BOOLEAN,
         waiting : SUBSET Calls]
CallStates == [pc : {"new", "open", "done"}, key : Keys \union {None}, fetch : BOOLEAN,
               current : BOOLEAN, aborted : BOOLEAN]
CmdStates == [pc : {"new", "menu", "waiting", "asked", "done"}, life : Nat, told : Nat]
LoopStates == {"off", "woken", "ended"} \union Pauses \union Requests

\* Every variable is of its type.
TypesOK ==
  /\ lifecycle \in 0..(MaxLifecycle + 1) /\ open \in BOOLEAN /\ called \subseteq Cmds
  /\ uiOf \in 0..MaxLifecycle /\ active \in 0..MaxLifecycle
  /\ dir \in Dirs
  /\ call \in [Calls -> CallStates] /\ cmd \in [Cmds -> CmdStates]
  /\ task \in [Sessions -> LoopStates] /\ endings \in [Sessions -> Nat]

\* With the calls cs: d waits for the network calls of its revision, has the list of its key,
\* and its revision is of its key.
DirOK(d, cs) ==
  /\ d.waiting = {c \in Calls : cs[c].pc = "open" /\ cs[c].fetch /\ cs[c].current}
  /\ d.loading <=> d.waiting # {}
  /\ d.snap # 0 => d.owner = d.svc
  /\ \A c \in Calls : cs[c].pc = "open" /\ cs[c].current => cs[c].key = d.svc

\* What is shown is the status, in the session that is on.
UiOK == uiOf # 0 => open /\ uiOf = lifecycle /\ shown = Label(dir)

\* The active recovery is that of the session that is on, has not ended, and only it pauses.
LoopOK ==
  /\ open => lifecycle \in Sessions
  /\ active # 0 => open /\ active = lifecycle /\ task[active] \in Pauses \union Requests
        /\ endings[active] = 0
  /\ \A s \in Sessions : /\ task[s] \in Pauses => active = s
                         /\ lifecycle < s => endings[s] = 0

\* A command that is under way is of its session.
CmdOK ==
  \A m \in Cmds : /\ cmd[m].pc = "new" => cmd[m].told = 0
                  /\ cmd[m].pc # "new" => cmd[m].life <= lifecycle
                  /\ cmd[m].pc # "new" /\ cmd[m].life = lifecycle => open
                  /\ cmd[m].told \in {0, cmd[m].life}

\* The inductive invariant.
IInv == TypesOK /\ DirOK(dir, call) /\ UiOK /\ LoopOK /\ CmdOK

-----------------------------------------------------------------------------
(* The catalog state *)

\* What the steps of the instance do to its list and its status leaves both in order.
LEMMA StateInOrder ==
  ASSUME NEW d \in Dirs, NEW cs, DirOK(d, cs)
  PROVE  /\ \A err \in Errors : [d EXCEPT !.err = err] \in Dirs /\ DirOK([d EXCEPT !.err = err], cs)
         /\ \A b \in BOOLEAN : /\ [d EXCEPT !.retryable = b] \in Dirs
                               /\ DirOK([d EXCEPT !.retryable = b], cs)
                               /\ Label([d EXCEPT !.retryable = b]) = Label(d)
         /\ WithFailure(d) \in Dirs /\ DirOK(WithFailure(d), cs)
  BY DEF Dirs, DirOK, WithFailure, Label, Errors

\* invalidate() with the calls outdated: nothing is waited for and every open call is old.
LEMMA InvalidatedInOrder ==
  ASSUME NEW d \in Dirs, NEW cs \in [Calls -> CallStates], DirOK(d, cs), dir \in Dirs,
         NEW b \in BOOLEAN
  PROVE  /\ Outdated(cs) \in [Calls -> CallStates]
         /\ Invalidated(d) \in Dirs /\ DirOK(Invalidated(d), Outdated(cs))
         /\ [Invalidated(d) EXCEPT !.enabled = b] \in Dirs
         /\ DirOK([Invalidated(d) EXCEPT !.enabled = b], Outdated(cs))
<1>1. Outdated(cs) \in [Calls -> CallStates]
  BY DEF Outdated, CallStates
<1>2. \A c \in Calls : ~(Outdated(cs)[c].pc = "open" /\ Outdated(cs)[c].current)
  BY DEF Outdated, CallStates
<1>3. Invalidated(d) \in Dirs /\ [Invalidated(d) EXCEPT !.enabled = b] \in Dirs
  BY DEF Dirs, Invalidated
<1>4. /\ Invalidated(d).waiting = {} /\ Invalidated(d).loading = FALSE
      /\ [Invalidated(d) EXCEPT !.enabled = b].waiting = {}
      /\ [Invalidated(d) EXCEPT !.enabled = b].loading = FALSE
  BY DEF Dirs, Invalidated
<1>5. \A x \in {Invalidated(d), [Invalidated(d) EXCEPT !.enabled = b]} :
        x.snap = d.snap /\ x.owner = d.owner /\ x.svc = d.svc
  BY DEF Dirs, Invalidated
<1> QED BY <1>1, <1>2, <1>3, <1>4, <1>5 DEF DirOK

\* A step that changes the catalog state and the calls only.
LEMMA CatalogStep ==
  ASSUME IInv, NEW cs \in [Calls -> CallStates], NEW d \in Dirs, DirOK(d, cs),
         call' = cs, dir' = d, called' \subseteq Cmds,
         shown' = (IF uiOf = 0 THEN shown ELSE Label(d)),
         UNCHANGED <<sessionVars, uiOf, recoveryVars, cmd>>
  PROVE  IInv'
<1> USE DEF IInv, sessionVars, recoveryVars
<1>1. TypesOK' BY DEF TypesOK
<1>2. DirOK(dir, call)' BY DEF DirOK
<1>3. UiOK' BY DEF UiOK, Label
<1>4. LoopOK' BY DEF LoopOK
<1>5. CmdOK' BY DEF CmdOK
<1> QED BY <1>1, <1>2, <1>3, <1>4, <1>5

\* A call without a key is over.
LEMMA RefreshWithoutKeyStep == ASSUME IInv, NEW c \in Calls, RefreshWithoutKey(c) PROVE IInv'
<1> DEFINE cs == [call EXCEPT ![c] = Over]
<1>1. cs \in [Calls -> CallStates] /\ \A b \in Calls : cs[b].pc = "open" <=> b # c
        /\ call[b].pc = "open"
  BY DEF IInv, TypesOK, CallStates, Over, Unmade
<1>2. \A b \in Calls : b # c => cs[b] = call[b]
  BY DEF IInv, TypesOK
<1>3. call' = cs /\ call[c].pc = "new" /\ called' \subseteq Cmds
      /\ UNCHANGED <<sessionVars, uiOf, shown, recoveryVars, cmd>>
  BY DEF RefreshWithoutKey
<1> HIDE DEF cs
<1>4. \A d \in Dirs : DirOK(d, call) => DirOK(d, cs)
  BY <1>1, <1>2, <1>3 DEF DirOK, Dirs
<1>5. dir' \in Dirs /\ DirOK(dir', call) /\ Label(dir') = Label(dir)
  BY StateInOrder DEF RefreshWithoutKey, IInv, TypesOK
<1>6. shown' = IF uiOf = 0 THEN shown ELSE Label(dir')
  BY <1>3, <1>5 DEF IInv, UiOK
<1> QED BY <1>1, <1>3, <1>4, <1>5, <1>6, CatalogStep

\* After the switch to a key the list and the calls are of this key.
LEMMA SwitchedInOrder ==
  ASSUME IInv, NEW key \in Keys
  PROVE  LET moved == Switched(dir, key)
             cs == IF moved = dir THEN call ELSE Outdated(call)
         IN /\ moved \in Dirs /\ moved.svc = key
            /\ cs \in [Calls -> CallStates] /\ DirOK(moved, cs)
            /\ \A c \in Calls : cs[c].pc = call[c].pc
<1> DEFINE moved == Switched(dir, key)
           cs == IF moved = dir THEN call ELSE Outdated(call)
<1>0. dir \in Dirs /\ call \in [Calls -> CallStates] /\ DirOK(dir, call)
  BY DEF IInv, TypesOK
<1>1. CASE dir.svc = key
  <2>1. moved = dir BY <1>1 DEF Switched
  <2>2. cs = call BY <2>1
  <2>3. moved \in Dirs /\ moved.svc = key BY <2>1, <1>0, <1>1
  <2>4. cs \in [Calls -> CallStates] /\ \A c \in Calls : cs[c].pc = call[c].pc
    BY <2>2, <1>0
  <2>5. DirOK(moved, cs) BY <2>1, <2>2, <1>0
  <2> QED BY <2>3, <2>4, <2>5
<1>2. CASE dir.svc # key
  <2>1. moved = [Invalidated(dir) EXCEPT !.svc = key, !.snap = 0, !.owner = None, !.err = "none"]
    BY <1>2 DEF Switched
  <2> DEFINE old == Invalidated(dir)
  <2>a. old \in Dirs /\ old.waiting = {} /\ old.loading = FALSE BY <1>0 DEF Dirs, Invalidated
  <2>b. moved = [old EXCEPT !.svc = key, !.snap = 0, !.owner = None, !.err = "none"] BY <2>1
  <2> HIDE DEF old, moved
  <2>c. 0 \in 0..MaxStored /\ "none" \in Errors BY BoundsAssumption DEF Errors
  <2>2. moved \in Dirs /\ moved.svc = key /\ moved.snap = 0 /\ moved.waiting = {}
          /\ moved.loading = FALSE
    BY <2>a, <2>b, <2>c DEF Dirs
  <2> USE DEF moved
  <2>3. moved # dir BY <2>2, <1>2
  <2>4. cs = Outdated(call) BY <2>3
  <2>5. cs \in [Calls -> CallStates] BY <2>4, <1>0, InvalidatedInOrder
  <2>6. \A c \in Calls : cs[c].pc = call[c].pc /\ ~(cs[c].pc = "open" /\ cs[c].current)
    BY <2>4, <1>0 DEF Outdated, CallStates
  <2>7. DirOK(moved, cs) BY <2>2, <2>6 DEF DirOK
  <2> QED BY <2>2, <2>5, <2>6, <2>7
<1> QED BY <1>1, <1>2

\* The call is waited for if it goes to the network.
LEMMA RefreshStep ==
  ASSUME IInv, NEW c \in Calls, NEW key \in Keys, NEW allow \in BOOLEAN, NEW force \in BOOLEAN,
         Refresh(c, key, allow, force)
  PROVE  IInv'
<1> DEFINE moved == Switched(dir, key)
           old == IF moved = dir THEN call ELSE Outdated(call)
           fetch == CanFetch(allow, force)
           d == IF fetch THEN [moved EXCEPT !.waiting = @ \union {c}, !.loading = TRUE] ELSE moved
           new == [pc |-> "open", key |-> key, fetch |-> fetch, current |-> TRUE, aborted |-> FALSE]
           cs == [old EXCEPT ![c] = new]
<1>1. /\ call' = cs /\ dir' = d /\ called' \subseteq Cmds /\ call[c].pc = "new"
      /\ shown' = (IF uiOf = 0 THEN shown ELSE Label(d))
      /\ UNCHANGED <<sessionVars, uiOf, recoveryVars, cmd>>
  BY DEF Refresh, Change
<1>2. /\ moved \in Dirs /\ moved.svc = key /\ old \in [Calls -> CallStates] /\ DirOK(moved, old)
      /\ \A b \in Calls : old[b].pc = call[b].pc
  BY SwitchedInOrder
<1>3. fetch \in BOOLEAN BY DEF CanFetch, IInv, TypesOK, Dirs
<1> HIDE DEF moved, old, fetch
<1>4. new \in CallStates BY <1>3 DEF CallStates
<1>5. cs \in [Calls -> CallStates] /\ cs[c] = new /\ \A b \in Calls : b # c => cs[b] = old[b]
  BY <1>2, <1>4
<1>6. d \in Dirs /\ d.svc = key /\ d.snap = moved.snap /\ d.owner = moved.owner
  BY <1>2, <1>3 DEF Dirs
<1>7. d.waiting = (IF fetch THEN moved.waiting \union {c} ELSE moved.waiting)
      /\ d.loading = (fetch \/ moved.loading)
  BY <1>2, <1>3 DEF Dirs
<1>8. new.pc = "open" /\ new.key = key /\ new.fetch = fetch /\ new.current = TRUE OBVIOUS
<1> HIDE DEF d, cs, new
<1>9. DirOK(d, cs)
  <2>1. c \notin moved.waiting BY <1>1, <1>2 DEF DirOK
  <2>2. d.waiting = {b \in Calls : cs[b].pc = "open" /\ cs[b].fetch /\ cs[b].current}
    BY <1>2, <1>3, <1>5, <1>7, <1>8, <2>1 DEF DirOK
  <2>3. d.loading <=> d.waiting # {} BY <1>2, <1>3, <1>7 DEF DirOK, Dirs
  <2>4. d.snap # 0 => d.owner = d.svc BY <1>2, <1>6 DEF DirOK
  <2>5. \A b \in Calls : cs[b].pc = "open" /\ cs[b].current => cs[b].key = d.svc
    BY <1>2, <1>5, <1>6, <1>8 DEF DirOK
  <2> QED BY <2>2, <2>3, <2>4, <2>5 DEF DirOK
<1> QED BY <1>1, <1>5, <1>6, <1>9, CatalogStep

\* An aborted call is waited for until it settles.
LEMMA CancelCallStep == ASSUME IInv, NEW c \in Calls, CancelCall(c) PROVE IInv'
<1> DEFINE cs == [call EXCEPT ![c].aborted = TRUE]
<1>1. cs \in [Calls -> CallStates]
  BY DEF IInv, TypesOK, CallStates
<1>2. \A b \in Calls : /\ cs[b].pc = call[b].pc /\ cs[b].fetch = call[b].fetch
                       /\ cs[b].current = call[b].current /\ cs[b].key = call[b].key
  BY DEF IInv, TypesOK, CallStates
<1>3. call' = cs /\ UNCHANGED <<sessionVars, called, uiOf, shown, dir, recoveryVars, cmd>>
  BY DEF CancelCall
<1> HIDE DEF cs
<1>4. dir \in Dirs /\ DirOK(dir, cs) BY <1>2 DEF DirOK, IInv, TypesOK
<1>5. shown' = IF uiOf = 0 THEN shown ELSE Label(dir)
  BY <1>3 DEF IInv, UiOK
<1>6. called' \subseteq Cmds BY <1>3 DEF IInv, TypesOK
<1> QED BY <1>1, <1>3, <1>4, <1>5, <1>6, CatalogStep

\* A call that is over is not waited for.
LEMMA SettledInOrder ==
  ASSUME IInv, NEW c \in Calls, call[c].pc = "open", call[c].current,
         NEW d \in Dirs, d.svc = dir.svc, d.waiting = dir.waiting, d.snap # 0 => d.owner = d.svc
  PROVE  /\ [call EXCEPT ![c] = Over] \in [Calls -> CallStates]
         /\ Settled(d, c) \in Dirs /\ DirOK(Settled(d, c), [call EXCEPT ![c] = Over])
<1> DEFINE cs == [call EXCEPT ![c] = Over]
           s == Settled(d, c)
<1>1. cs \in [Calls -> CallStates] /\ cs[c].pc = "done" /\ \A b \in Calls : b # c => cs[b] = call[b]
  BY DEF IInv, TypesOK, CallStates, Over, Unmade
<1>2. s \in Dirs /\ s.waiting = d.waiting \ {c} /\ (s.loading <=> s.waiting # {})
      /\ s.svc = d.svc /\ s.snap = d.snap /\ s.owner = d.owner
  BY DEF Dirs, Settled
<1> HIDE DEF cs, s
<1>3. DirOK(s, cs) BY <1>1, <1>2 DEF DirOK, IInv
<1> QED BY <1>1, <1>2, <1>3 DEF cs, s

\* An answer of the present revision is of the present key.
LEMMA AnswerStep ==
  ASSUME IInv, NEW c \in Calls, NEW at \in 0..MaxStored, NEW failed \in BOOLEAN,
         NEW retryable \in BOOLEAN, Answer(c, at, failed, retryable)
  PROVE  IInv'
<1> DEFINE accepted == Accepted(c, at)
           got == IF call[c].fetch THEN [accepted EXCEPT !.retryable = retryable] ELSE accepted
           d == IF failed THEN [got EXCEPT !.err = "failed"] ELSE got
           s == Settled(d, c)
<1>1. /\ call' = [call EXCEPT ![c] = Over] /\ dir' = s /\ UNCHANGED called
      /\ shown' = (IF uiOf = 0 THEN shown ELSE Label(s))
      /\ UNCHANGED <<sessionVars, uiOf, recoveryVars, cmd>>
      /\ call[c].pc = "open" /\ call[c].current
  BY DEF Answer, Change, UpToDate
<1>2. dir \in Dirs /\ call[c] \in CallStates /\ DirOK(dir, call) BY DEF IInv, TypesOK
<1>3. call[c].key = dir.svc BY <1>1, <1>2 DEF DirOK
<1>4. /\ accepted \in Dirs /\ accepted.svc = dir.svc /\ accepted.waiting = dir.waiting
      /\ accepted.snap # 0 => accepted.owner = accepted.svc
  BY <1>2, <1>3 DEF Accepted, Applied, Dirs, DirOK, Errors, CallStates
<1> HIDE DEF accepted
<1>5. d \in Dirs /\ d.svc = dir.svc /\ d.waiting = dir.waiting /\ (d.snap # 0 => d.owner = d.svc)
  BY <1>4 DEF Dirs, Errors
<1> HIDE DEF d
<1>6. /\ [call EXCEPT ![c] = Over] \in [Calls -> CallStates]
      /\ s \in Dirs /\ DirOK(s, [call EXCEPT ![c] = Over])
  BY <1>1, <1>5, SettledInOrder
<1> HIDE DEF s
<1>7. called' \subseteq Cmds BY <1>1 DEF IInv, TypesOK
<1> QED BY <1>1, <1>6, <1>7, CatalogStep

\* A rejection says so in the status if it is of the present revision.
LEMMA DroppedStep == ASSUME IInv, NEW c \in Calls, Dropped(c) PROVE IInv'
<1> DEFINE err == IF ~call[c].aborted THEN "failed" ELSE IF dir.err = "none" THEN "cancelled"
        ELSE dir.err
           d == IF call[c].current THEN [dir EXCEPT !.err = err] ELSE dir
           s == Settled(d, c)
           cs == [call EXCEPT ![c] = Over]
<1>1. /\ call' = cs /\ UNCHANGED called /\ call[c].pc = "open"
      /\ UNCHANGED <<sessionVars, uiOf, recoveryVars, cmd>>
      /\ IF call[c].current THEN dir' = s /\ shown' = (IF uiOf = 0 THEN shown ELSE Label(s))
                            ELSE UNCHANGED <<dir, shown>>
  BY DEF Dropped, Change
<1>2. dir \in Dirs /\ DirOK(dir, call) /\ call \in [Calls -> CallStates] BY DEF IInv, TypesOK
<1>3. called' \subseteq Cmds BY <1>1 DEF IInv, TypesOK
<1>4. CASE call[c].current
  <2>1. err \in Errors BY <1>2 DEF Dirs, Errors
  <2>2. d \in Dirs /\ d.svc = dir.svc /\ d.waiting = dir.waiting /\ (d.snap # 0 => d.owner = d.svc)
    BY <1>2, <1>4, <2>1 DEF Dirs, DirOK
  <2> HIDE DEF d
  <2>3. cs \in [Calls -> CallStates] /\ s \in Dirs /\ DirOK(s, cs)
    BY <1>1, <1>4, <2>2, SettledInOrder
  <2> HIDE DEF s, cs
  <2> QED BY <1>1, <1>3, <1>4, <2>3, CatalogStep
<1>5. CASE ~call[c].current
  <2>1. cs \in [Calls -> CallStates] /\ cs[c].pc = "done" /\ \A b \in Calls : b # c
            => cs[b] = call[b]
    BY <1>2 DEF CallStates, Over, Unmade
  <2> HIDE DEF cs
  <2>2. DirOK(dir, cs) BY <2>1, <1>2, <1>5 DEF DirOK
  <2>3. shown' = IF uiOf = 0 THEN shown ELSE Label(dir)
    BY <1>1, <1>5 DEF IInv, UiOK
  <2> QED BY <1>1, <1>2, <1>3, <1>5, <2>1, <2>2, <2>3, CatalogStep
<1> QED BY <1>4, <1>5

-----------------------------------------------------------------------------
(* The recovery loops *)

\* What a step may do to the recoveries: only the one of the session in its life ends, once,
\* and only it asks the host for something.
EndsOnce ==
  \A s \in Sessions :
    /\ endings'[s] # endings[s] => endings[s] = 0 /\ open /\ lifecycle = s
    /\ task'[s] # task[s] /\ task'[s] \in Requests => active = s /\ lifecycle = s

\* A step of loop s that goes on, or that finds it is not the active one.
LEMMA GotoStep ==
  ASSUME IInv, NEW s \in Sessions, NEW place \in LoopStates, Goto(s, place),
         active = s => place \in Pauses \union Requests,
         place \in Pauses \union Requests => active = s,
         dir' \in Dirs, DirOK(dir', call), Label(dir') = Label(dir), loopFrame
  PROVE  IInv' /\ EndsOnce
<1> USE DEF IInv, loopFrame, sessionVars, Goto
<1>1. TypesOK' BY DEF TypesOK
<1>2. DirOK(dir, call)' BY DEF DirOK
<1>3. UiOK' BY DEF UiOK
<1>4. task' = [task EXCEPT ![s] = place] /\ task \in [Sessions -> LoopStates] BY DEF TypesOK
<1>5. LoopOK'
  BY <1>4, Zenon DEF LoopOK
<1>6. CmdOK' BY DEF CmdOK
<1>7. EndsOnce
  BY <1>4 DEF EndsOnce, LoopOK, TypesOK, Sessions
<1> QED BY <1>1, <1>2, <1>3, <1>5, <1>6, <1>7

\* The active loop ends.
LEMMA EndStep ==
  ASSUME IInv, active # 0, NEW ts \in [Sessions -> LoopStates], EndActive(ts),
         \A s \in Sessions : ts[s] = task[s] \/ ts[s] \notin Pauses \union Requests,
         dir' \in Dirs, DirOK(dir', call), uiOf # 0 => shown' = Label(dir'), loopFrame
  PROVE  IInv' /\ EndsOnce
<1> USE DEF IInv, loopFrame, sessionVars, EndActive
<1>1. active \in Sessions /\ active = lifecycle /\ open /\ endings[active] = 0
  BY DEF TypesOK, LoopOK, Sessions
<1>2. endings' = [endings EXCEPT ![active] = @ + 1] /\ endings \in [Sessions -> Nat]
  BY DEF TypesOK
<1>3. \A s \in Sessions : /\ task'[s] \in LoopStates /\ task'[s] \notin Pauses
                          /\ task'[s] \in Requests => task'[s] = task[s]
  BY DEF Halted, LoopStates, Pauses, Requests, TypesOK, LoopOK
<1>4. task' \in [Sessions -> LoopStates]
  BY <1>3 DEF Halted
<1>5. TypesOK'
  <2>1. endings' \in [Sessions -> Nat] BY <1>1, <1>2
  <2>2. 0 \in 0..MaxLifecycle BY BoundsAssumption
  <2> QED BY <1>4, <2>1, <2>2 DEF TypesOK
<1>6. DirOK(dir, call)' BY DEF DirOK
<1>7. UiOK' BY DEF UiOK
<1>8. LoopOK'
  BY <1>1, <1>2, <1>3 DEF LoopOK, Sessions, TypesOK
<1>9. CmdOK' BY DEF CmdOK
<1>10. EndsOnce
  BY <1>1, <1>2, <1>3 DEF EndsOnce
<1> QED BY <1>5, <1>6, <1>7, <1>8, <1>9, <1>10

\* The loop ends with an alert.
LEMMA AlertStep ==
  ASSUME IInv, NEW s \in Sessions, active = s, NEW d \in Dirs, DirOK(d, call), Alert(s, d),
         loopFrame
  PROVE  IInv' /\ EndsOnce
<1>1. [task EXCEPT ![s] = "ended"] \in [Sessions -> LoopStates]
  BY DEF IInv, TypesOK, LoopStates
<1>2. \A t \in Sessions : LET ts == [task EXCEPT ![s] = "ended"]
                          IN ts[t] = task[t] \/ ts[t] \notin Pauses \union Requests
  BY DEF IInv, TypesOK, Pauses, Requests
<1>3. dir' \in Dirs /\ DirOK(dir', call) /\ (uiOf # 0 => shown' = Label(dir'))
  BY StateInOrder DEF Alert, Change
<1>4. active # 0 BY DEF Sessions
<1> QED BY <1>1, <1>2, <1>3, <1>4, EndStep DEF Alert

\* The loop ends silently.
LEMMA QuietlyStep ==
  ASSUME IInv, NEW s \in Sessions, active = s, NEW d \in Dirs, DirOK(d, call),
         Label(d) = Label(dir),
         Quietly(s, d), loopFrame
  PROVE  IInv' /\ EndsOnce
<1>1. [task EXCEPT ![s] = "ended"] \in [Sessions -> LoopStates]
  BY DEF IInv, TypesOK, LoopStates
<1>2. \A t \in Sessions : LET ts == [task EXCEPT ![s] = "ended"]
                          IN ts[t] = task[t] \/ ts[t] \notin Pauses \union Requests
  BY DEF IInv, TypesOK, Pauses, Requests
<1>3. dir' \in Dirs /\ DirOK(dir', call) /\ (uiOf # 0 => shown' = Label(dir'))
  BY DEF Quietly, IInv, UiOK
<1>4. active # 0 BY DEF Sessions
<1> QED BY <1>1, <1>2, <1>3, <1>4, EndStep DEF Quietly

\* After a failure the loop ends with an alert or pauses.
LEMMA TryAgainStep ==
  ASSUME IInv, NEW s \in Sessions, active = s, NEW d \in Dirs, DirOK(d, call),
         Label(d) = Label(dir),
         TryAgain(s, d), loopFrame
  PROVE  IInv' /\ EndsOnce
<1>1. CASE Alert(s, d) BY <1>1, AlertStep
<1>2. CASE Goto(s, "refreshPause") /\ dir' = d
  BY <1>2, GotoStep DEF LoopStates, Pauses
<1> QED BY <1>1, <1>2 DEF TryAgain

\* The minute is over.
LEMMA DeadlineStep == ASSUME IInv, Deadline PROVE IInv' /\ EndsOnce
<1>1. task \in [Sessions -> LoopStates] /\ dir \in Dirs /\ DirOK(dir, call)
  BY DEF IInv, TypesOK
<1>2. dir' \in Dirs /\ DirOK(dir', call) /\ (uiOf # 0 => shown' = Label(dir'))
  BY <1>1, StateInOrder DEF Deadline, Change
<1> QED BY <1>1, <1>2, EndStep DEF Deadline

\* The steps of a loop up to the round.
LEMMA LoopStep ==
  ASSUME IInv, NEW s \in Sessions,
         LoopReturns(s) \/ Restore(s) \/ RestoreFailed(s) \/ Restored(s)
           \/ JoinAgain(s) \/ Fetches(s) \/ Applies(s) \/ RoundThrows(s)
  PROVE  IInv' /\ EndsOnce
<1>0. dir \in Dirs /\ DirOK(dir, call) /\ (task[s] \in Pauses => active = s) /\ s # 0
  BY DEF IInv, TypesOK, LoopOK, Sessions
<1>1. CASE LoopReturns(s)
  BY <1>0, <1>1, GotoStep DEF LoopReturns, LoopStates, Pauses, Requests
<1>2. CASE Restore(s)
  BY <1>0, <1>2, GotoStep DEF Restore, WaitOver, LoopStates, Pauses, Requests
<1>3. CASE RestoreFailed(s)
  BY <1>0, <1>3, GotoStep DEF RestoreFailed, LoopStates, Pauses, Requests
<1>4. CASE Restored(s)
  <2>1. CASE Alert(s, dir) BY <1>0, <1>4, <2>1, AlertStep DEF Restored
  <2>2. CASE Quietly(s, dir) BY <1>0, <1>4, <2>2, QuietlyStep DEF Restored
  <2>3. CASE Goto(s, "joined") /\ UNCHANGED dir
    BY <1>0, <1>4, <2>3, GotoStep DEF Restored, LoopStates, Pauses, Requests
  <2> QED BY <1>4, <2>1, <2>2, <2>3 DEF Restored
<1>5. CASE JoinAgain(s)
  BY <1>0, <1>5, GotoStep DEF JoinAgain, WaitOver, LoopStates, Pauses, Requests
<1>6. CASE Fetches(s)
  BY <1>0, <1>6, GotoStep DEF Fetches, LoopStates, Pauses, Requests
<1>7. CASE Applies(s)
  BY <1>0, <1>7, GotoStep DEF Applies, LoopStates, Pauses, Requests
<1>8. CASE RoundThrows(s)
  BY <1>0, <1>8, TryAgainStep DEF RoundThrows
<1> QED BY <1>1, <1>2, <1>3, <1>4, <1>5, <1>6, <1>7, <1>8

\* The round is over.
LEMMA RoundEndsStep ==
  ASSUME IInv, NEW s \in Sessions, NEW failed \in BOOLEAN, NEW attempted \in BOOLEAN,
         NEW retryable \in BOOLEAN, RoundEnds(s, failed, attempted, retryable)
  PROVE  IInv' /\ EndsOnce
<1> DEFINE d == Finished(failed, retryable)
<1>1. dir \in Dirs /\ DirOK(dir, call) BY DEF IInv, TypesOK
<1>2. d \in Dirs /\ DirOK(d, call) /\ Label(d) = Label(dir)
  BY <1>1, StateInOrder DEF Finished
<1> HIDE DEF d
<1>3. active = s /\ loopFrame /\ (TryAgain(s, d) \/ Quietly(s, d))
  BY DEF RoundEnds, d
<1> QED BY <1>2, <1>3, TryAgainStep, QuietlyStep

-----------------------------------------------------------------------------
(* Sessions *)

\* A new session has a recovery of its own, and the one before it is stopped.
LEMMA SessionStartStep == ASSUME IInv, SessionStart PROVE IInv' /\ EndsOnce
<1> DEFINE l == lifecycle + 1
<1>0. MaxLifecycle \in Nat /\ HasUI \in BOOLEAN BY BoundsAssumption
<1>1. lifecycle \in Nat /\ lifecycle < MaxLifecycle /\ l \in Sessions /\ l # 0
  BY <1>0 DEF SessionStart, IInv, TypesOK, Sessions
<1>2. /\ lifecycle' = l /\ open' = TRUE /\ active' = l
      /\ task' = [Halted(task) EXCEPT ![l] = "delay"]
      /\ call' = Outdated(call) /\ dir' = [Invalidated(dir) EXCEPT !.enabled = TRUE]
      /\ uiOf' = (IF HasUI THEN l ELSE 0) /\ (uiOf' # 0 => shown' = Label(dir'))
      /\ UNCHANGED <<called, cmd>>
  BY <1>1, <1>0 DEF SessionStart, Bind, StoppedDir
<1>3. dir' \in Dirs /\ DirOK(dir', call') /\ call' \in [Calls -> CallStates]
  BY <1>2, InvalidatedInOrder DEF IInv, TypesOK
<1>4. endings' \in [Sessions -> Nat] /\ \A s \in Sessions : endings'[s] # endings[s] => s = active
  BY DEF SessionStart, StoppedLoop, IInv, TypesOK
<1>5. task \in [Sessions -> LoopStates] /\ Halted(task) \in [Sessions -> LoopStates]
  BY DEF IInv, TypesOK, Halted, LoopStates
<1>6. \A s \in Sessions : /\ s # l => task'[s] \notin Pauses
                          /\ task'[s] \in Requests => task'[s] = task[s]
  BY <1>2, <1>5 DEF Halted, IInv, LoopOK, Pauses, Requests
<1>7. task'[l] = "delay" /\ task' \in [Sessions -> LoopStates]
  BY <1>1, <1>2, <1>5 DEF LoopStates, Pauses
<1>8. active # 0 => active = lifecycle /\ active \in Sessions /\ endings[active] = 0 /\ open
  BY DEF IInv, LoopOK, TypesOK, Sessions
<1>9. TypesOK'
  <2>1. lifecycle' \in 0..(MaxLifecycle + 1) /\ uiOf' \in 0..MaxLifecycle
          /\ active' \in 0..MaxLifecycle
    BY <1>0, <1>1, <1>2 DEF Sessions
  <2> QED BY <1>2, <1>3, <1>4, <1>7, <2>1 DEF TypesOK, IInv
<1>10. UiOK' BY <1>2 DEF UiOK
<1>11. LoopOK'
  <2>1. \A s \in Sessions : s >= l => endings'[s] = 0
    BY <1>1, <1>4, <1>8 DEF IInv, LoopOK, Sessions, TypesOK
  <2> QED BY <1>1, <1>2, <1>6, <1>7, <2>1 DEF LoopOK, Sessions, Pauses
<1>12. CmdOK' BY <1>1, <1>2 DEF CmdOK, IInv, TypesOK, CmdStates
<1>13. EndsOnce
  BY <1>4, <1>6, <1>8 DEF EndsOnce, Sessions
<1> QED BY <1>3, <1>9, <1>10, <1>11, <1>12, <1>13 DEF IInv

\* Nothing is bound to a session that is over.
LEMMA SessionShutdownStep == ASSUME IInv, SessionShutdown PROVE IInv' /\ EndsOnce
<1>1. lifecycle \in Sessions /\ MaxLifecycle \in Nat BY BoundsAssumption DEF SessionShutdown, IInv,
          LoopOK
<1>2. /\ lifecycle' = lifecycle + 1 /\ open' = FALSE /\ active' = 0
      /\ task' = Halted(task)
      /\ call' = Outdated(call) /\ dir' = [Invalidated(dir) EXCEPT !.enabled = FALSE]
      /\ uiOf' = 0 /\ UNCHANGED <<called, cmd>>
  BY DEF SessionShutdown, StoppedDir
<1>3. dir' \in Dirs /\ DirOK(dir', call') /\ call' \in [Calls -> CallStates]
  BY <1>2, InvalidatedInOrder DEF IInv, TypesOK
<1>4. endings' \in [Sessions -> Nat] /\ \A s \in Sessions : endings'[s] # endings[s] => s = active
  BY DEF SessionShutdown, StoppedLoop, IInv, TypesOK
<1>5. task \in [Sessions -> LoopStates] /\ task' \in [Sessions -> LoopStates]
  BY <1>2 DEF IInv, TypesOK, Halted, LoopStates
<1>6. \A s \in Sessions : /\ task'[s] \notin Pauses
                          /\ task'[s] \in Requests => task'[s] = task[s]
  BY <1>2, <1>5 DEF Halted, IInv, LoopOK, Pauses, Requests
<1>8. active # 0 => active = lifecycle /\ active \in Sessions /\ endings[active] = 0 /\ open
  BY DEF IInv, LoopOK, TypesOK, Sessions
<1>9. TypesOK'
  <2>1. lifecycle' \in 0..(MaxLifecycle + 1) /\ uiOf' \in 0..MaxLifecycle
          /\ active' \in 0..MaxLifecycle
    BY <1>1, <1>2 DEF Sessions
  <2> QED BY <1>2, <1>3, <1>4, <1>5, <2>1 DEF TypesOK, IInv
<1>10. UiOK' BY <1>2 DEF UiOK
<1>11. LoopOK'
  <2>1. \A s \in Sessions : s > lifecycle => endings'[s] = 0
    BY <1>1, <1>4, <1>8 DEF IInv, LoopOK, Sessions, TypesOK
  <2> QED BY <1>1, <1>2, <1>6, <2>1 DEF LoopOK, Sessions
<1>12. CmdOK' BY <1>1, <1>2 DEF CmdOK, IInv, TypesOK, CmdStates, Sessions
<1>13. EndsOnce
  BY <1>4, <1>6, <1>8 DEF EndsOnce, Sessions
<1> QED BY <1>3, <1>9, <1>10, <1>11, <1>12, <1>13 DEF IInv

\* What Bind leaves.
LEMMA Bound ==
  ASSUME IInv, open, NEW d \in Dirs, DirOK(d, call), Bind(lifecycle, d)
  PROVE  /\ dir' \in Dirs /\ DirOK(dir', call) /\ uiOf' \in 0..MaxLifecycle
         /\ uiOf' # 0 => open /\ uiOf' = lifecycle /\ shown' = Label(dir')
  BY BoundsAssumption DEF Bind, IInv, LoopOK, Sessions

\* The status line is bound again.
LEMMA RebindStep == ASSUME IInv, Rebind PROVE IInv' /\ EndsOnce
<1> USE DEF IInv, sessionVars, recoveryVars
<1>0. UNCHANGED <<sessionVars, called, call, recoveryVars, cmd>> BY DEF Rebind
<1>1. /\ dir' \in Dirs /\ DirOK(dir', call) /\ uiOf' \in 0..MaxLifecycle
      /\ uiOf' # 0 => open /\ uiOf' = lifecycle /\ shown' = Label(dir')
  BY Bound DEF Rebind, TypesOK
<1>2. TypesOK' BY <1>0, <1>1 DEF TypesOK
<1>3. DirOK(dir, call)' BY <1>0, <1>1 DEF DirOK
<1>4. UiOK' BY <1>0, <1>1 DEF UiOK
<1>5. LoopOK' BY <1>0 DEF LoopOK
<1>6. CmdOK' BY <1>0 DEF CmdOK
<1>7. EndsOnce BY <1>0 DEF EndsOnce
<1> QED BY <1>2, <1>3, <1>4, <1>5, <1>6, <1>7

-----------------------------------------------------------------------------
(* Commands *)

\* A step of command m, which leaves it in state r.
LEMMA CommandStep ==
  ASSUME IInv, NEW m \in Cmds, NEW r \in CmdStates, cmd' = [cmd EXCEPT ![m] = r], cmdFrame,
         r.pc # "new", r.life <= lifecycle, r.life = lifecycle => open, r.told \in {0, r.life},
         called' \subseteq Cmds, dir' \in Dirs, DirOK(dir', call), uiOf' \in 0..MaxLifecycle,
         uiOf' # 0 => open /\ uiOf' = lifecycle /\ shown' = Label(dir')
  PROVE  IInv' /\ EndsOnce
<1> USE DEF IInv, cmdFrame, sessionVars, recoveryVars
<1>1. TypesOK' BY DEF TypesOK
<1>2. DirOK(dir, call)' BY DEF DirOK
<1>3. UiOK' BY DEF UiOK
<1>4. LoopOK' BY DEF LoopOK
<1>5. CmdOK' BY DEF CmdOK, TypesOK
<1>6. EndsOnce BY DEF EndsOnce
<1> QED BY <1>1, <1>2, <1>3, <1>4, <1>5, <1>6

\* The UI and the list as they are.
LEMMA AsItIs ==
  ASSUME IInv
  PROVE  /\ dir \in Dirs /\ DirOK(dir, call) /\ uiOf \in 0..MaxLifecycle
         /\ uiOf # 0 => open /\ uiOf = lifecycle /\ shown = Label(dir)
         /\ called \subseteq Cmds
  BY DEF IInv, UiOK, TypesOK

\* A command begins in the session that is on.
LEMMA CommandBegins ==
  ASSUME IInv, NEW m \in Cmds, NEW menu \in BOOLEAN, Command(m, menu)
  PROVE  IInv' /\ EndsOnce
<1> DEFINE r == [cmd[m] EXCEPT !.pc = IF menu THEN "menu" ELSE "waiting", !.life = lifecycle]
<1>1. cmd[m] \in CmdStates /\ cmd \in [Cmds -> CmdStates] /\ lifecycle \in Nat BY DEF IInv, TypesOK
<1>2. cmd' = [cmd EXCEPT ![m] = r] /\ open /\ cmd[m].pc = "new" /\ UNCHANGED called /\ cmdFrame
  BY <1>1 DEF Command
<1>3. r \in CmdStates /\ r.pc # "new" /\ r.life = lifecycle /\ r.told = 0
  BY <1>1, <1>2 DEF CmdStates, IInv, CmdOK
<1> HIDE DEF r
<1>4. /\ dir' \in Dirs /\ DirOK(dir', call) /\ uiOf' \in 0..MaxLifecycle
      /\ uiOf' # 0 => open /\ uiOf' = lifecycle /\ shown' = Label(dir')
  BY <1>2, AsItIs, Bound DEF Command
<1>5. r.life <= lifecycle /\ (r.life = lifecycle => open) /\ r.told \in {0, r.life}
        /\ called' \subseteq Cmds
  BY <1>1, <1>2, <1>3, AsItIs
<1> QED BY <1>2, <1>3, <1>4, <1>5, CommandStep

\* A command that goes on is one of the session that is on.
LEMMA Present ==
  ASSUME IInv, NEW m \in Cmds, cmd[m].pc # "new"
  PROVE  /\ cmd \in [Cmds -> CmdStates] /\ cmd[m] \in CmdStates /\ cmd[m].life <= lifecycle
         /\ cmd[m].life = lifecycle => open
         /\ cmd[m].told \in {0, cmd[m].life}
  BY DEF IInv, TypesOK, CmdOK

\* A command of a session that is over returns.
LEMMA CommandReturnsStep == ASSUME IInv, NEW m \in Cmds, CommandReturns(m) PROVE IInv' /\ EndsOnce
<1> DEFINE r == [cmd[m] EXCEPT !.pc = "done"]
<1>1. cmd[m].pc # "new" BY DEF CommandReturns
<1>2. cmd' = [cmd EXCEPT ![m] = r] /\ UNCHANGED <<uiOf, shown, dir, called>> /\ cmdFrame
  BY <1>1, Present DEF CommandReturns
<1>3. r \in CmdStates /\ r.pc # "new" /\ r.life = cmd[m].life /\ r.told = cmd[m].told
  BY <1>1, Present DEF CmdStates
<1> HIDE DEF r
<1> QED BY <1>1, <1>2, <1>3, Present, AsItIs, CommandStep

\* A command of the present session ends, or goes on, and may have told the user.
LEMMA PresentStep ==
  ASSUME IInv, NEW m \in Cmds, cmd[m].pc # "new", SameSession(m), cmdFrame, called' \subseteq Cmds,
         NEW place \in {"waiting", "asked", "done"},
         \/ cmd' = [cmd EXCEPT ![m].pc = place]
         \/ cmd' = [cmd EXCEPT ![m].pc = place, ![m].told = lifecycle],
         dir' \in Dirs, DirOK(dir', call), uiOf' \in 0..MaxLifecycle,
         uiOf' # 0 => open /\ uiOf' = lifecycle /\ shown' = Label(dir')
  PROVE  IInv' /\ EndsOnce
<1>1. lifecycle \in Nat /\ cmd[m].life = lifecycle BY DEF IInv, TypesOK, SameSession
<1>2. PICK r \in {[cmd[m] EXCEPT !.pc = place], [cmd[m] EXCEPT !.pc = place, !.told = lifecycle]} :
        cmd' = [cmd EXCEPT ![m] = r]
  BY Present
<1>3. r \in CmdStates /\ r.pc # "new" /\ r.life = lifecycle /\ r.told \in {0, lifecycle}
  BY <1>1, Present DEF CmdStates
<1>4. r.life <= lifecycle /\ (r.life = lifecycle => open) /\ r.told \in {0, r.life}
  BY <1>1, <1>3, Present
<1> QED BY <1>2, <1>3, <1>4, CommandStep

\* The user chose.
LEMMA ChosenStep == ASSUME IInv, NEW m \in Cmds, Chosen(m) PROVE IInv' /\ EndsOnce
<1>1. cmd[m].pc # "new" /\ SameSession(m) /\ cmdFrame /\ UNCHANGED called BY DEF Chosen
<1>2. cmd[m].life = lifecycle /\ open BY <1>1, Present DEF SameSession
<1>3. /\ dir' \in Dirs /\ DirOK(dir', call) /\ uiOf' \in 0..MaxLifecycle
      /\ uiOf' # 0 => open /\ uiOf' = lifecycle /\ shown' = Label(dir')
  BY <1>2, AsItIs, Bound DEF Chosen
<1>4. PICK place \in {"waiting", "asked", "done"} :
         \/ cmd' = [cmd EXCEPT ![m].pc = place]
         \/ cmd' = [cmd EXCEPT ![m].pc = place, ![m].told = lifecycle]
  BY DEF Chosen
<1> QED BY <1>1, <1>3, <1>4, AsItIs, PresentStep

\* The host is idle.
LEMMA HostIdleStep == ASSUME IInv, NEW m \in Cmds, HostIdle(m) PROVE IInv' /\ EndsOnce
<1>1. cmd[m].pc # "new" /\ SameSession(m) /\ cmdFrame BY DEF HostIdle
<1>2. cmd[m].life = lifecycle /\ open BY <1>1, Present DEF SameSession
<1>3. WithFailure(dir) \in Dirs /\ DirOK(WithFailure(dir), call)
  BY AsItIs, StateInOrder
<1>4. /\ dir' \in Dirs /\ DirOK(dir', call) /\ uiOf' \in 0..MaxLifecycle
      /\ uiOf' # 0 => open /\ uiOf' = lifecycle /\ shown' = Label(dir')
  BY <1>2, <1>3, AsItIs, Bound DEF HostIdle
<1>5. PICK place \in {"waiting", "asked", "done"} :
         \/ cmd' = [cmd EXCEPT ![m].pc = place]
         \/ cmd' = [cmd EXCEPT ![m].pc = place, ![m].told = lifecycle]
  BY DEF HostIdle
<1>6. called' \subseteq Cmds BY AsItIs DEF HostIdle
<1> QED BY <1>1, <1>4, <1>5, <1>6, PresentStep

\* The refresh of a command has settled.
LEMMA CommandEndsStep ==
  ASSUME IInv, NEW m \in Cmds, NEW err \in Errors, CommandEnds(m, err) PROVE IInv' /\ EndsOnce
<1>1. /\ cmd[m].pc # "new" /\ SameSession(m) /\ cmdFrame /\ UNCHANGED <<uiOf, called>>
      /\ cmd' = [cmd EXCEPT ![m].pc = "done", ![m].told = lifecycle]
  BY DEF CommandEnds
<1>2. Recorded(m, err) \in Dirs /\ DirOK(Recorded(m, err), call)
  BY AsItIs, StateInOrder DEF Recorded
<1>3. /\ dir' \in Dirs /\ DirOK(dir', call) /\ uiOf' \in 0..MaxLifecycle
      /\ uiOf' # 0 => open /\ uiOf' = lifecycle /\ shown' = Label(dir')
  BY <1>1, <1>2, AsItIs DEF CommandEnds, Change
<1> QED BY <1>1, <1>3, AsItIs, PresentStep

-----------------------------------------------------------------------------
(* The theorems *)

\* The inductive invariant holds in the beginning.
LEMMA InitIInv == Init => IInv
<1> SUFFICES ASSUME Init PROVE IInv
  OBVIOUS
<1>1. PICK key \in Keys \union {None}, at \in 0..MaxStored :
       /\ key = None => at = 0
       /\ dir = [svc |-> key, snap |-> at, owner |-> IF at = 0 THEN None ELSE key,
                 loading |-> FALSE, err |-> "none", enabled |-> FALSE,
                 retryable |-> TRUE, waiting |-> {}]
  BY DEF Init
<1>2. dir \in Dirs BY <1>1 DEF Dirs, Errors
<1>3. call \in [Calls -> CallStates] /\ \A c \in Calls : call[c].pc = "new"
  BY DEF Init, Unmade, CallStates
<1>4. DirOK(dir, call) BY <1>1, <1>3 DEF DirOK
<1>5. cmd \in [Cmds -> CmdStates] /\ \A m \in Cmds : cmd[m].pc = "new" /\ cmd[m].told = 0
  BY DEF Init, CmdStates
<1>6. TypesOK
  <2>1. 0 \in 0..MaxLifecycle /\ 0 \in 0..(MaxLifecycle + 1) BY BoundsAssumption
  <2>2. task \in [Sessions -> LoopStates] /\ endings \in [Sessions -> Nat]
    BY DEF Init, LoopStates
  <2> QED BY <1>2, <1>3, <1>5, <2>1, <2>2 DEF Init, TypesOK
<1>7. UiOK /\ CmdOK BY <1>5 DEF Init, UiOK, CmdOK
<1>8. LoopOK BY DEF Init, LoopOK, Pauses
<1> QED BY <1>4, <1>6, <1>7, <1>8 DEF IInv

\* Every step keeps the inductive invariant, and no recovery ends twice.
LEMMA NextIInv == IInv /\ [Next]_vars => IInv' /\ (EndsOnce \/ UNCHANGED vars)
<1> SUFFICES ASSUME IInv, [Next]_vars PROVE IInv' /\ (EndsOnce \/ UNCHANGED vars)
  OBVIOUS
<1>1. ASSUME NEW c \in Calls, RefreshWithoutKey(c) PROVE IInv' /\ EndsOnce
  BY <1>1, RefreshWithoutKeyStep DEF EndsOnce, RefreshWithoutKey, recoveryVars
<1>2. ASSUME NEW c \in Calls, NEW key \in Keys, NEW allow \in BOOLEAN, NEW force \in BOOLEAN,
             Refresh(c, key, allow, force) PROVE IInv' /\ EndsOnce
  BY <1>2, RefreshStep DEF EndsOnce, Refresh, recoveryVars
<1>3. ASSUME NEW c \in Calls, CancelCall(c) PROVE IInv' /\ EndsOnce
  BY <1>3, CancelCallStep DEF EndsOnce, CancelCall, recoveryVars
<1>4. ASSUME NEW c \in Calls, Dropped(c) PROVE IInv' /\ EndsOnce
  BY <1>4, DroppedStep DEF EndsOnce, Dropped, recoveryVars
<1>5. ASSUME NEW c \in Calls, NEW at \in 0..MaxStored, NEW failed \in BOOLEAN,
             NEW retryable \in BOOLEAN, Answer(c, at, failed, retryable) PROVE IInv' /\ EndsOnce
  BY <1>5, AnswerStep DEF EndsOnce, Answer, recoveryVars
<1>6. CASE UNCHANGED vars
  BY <1>6 DEF vars, IInv, TypesOK, DirOK, UiOK, LoopOK, CmdOK
<1> QED BY <1>1, <1>2, <1>3, <1>4, <1>5, <1>6, DeadlineStep, LoopStep, RoundEndsStep,
           SessionStartStep, RebindStep, SessionShutdownStep, CommandBegins, CommandReturnsStep,
           ChosenStep, HostIdleStep, CommandEndsStep
        DEF Next

\* The inductive invariant holds in every reachable state.
THEOREM AlwaysIInv == Spec => []IInv
  BY InitIInv, NextIInv, PTL DEF Spec

\* The status says "loading" exactly while a network call of the present session and key is
\* under
\* way, and it is the one shown (catalog-state.ts:65-76, 141-169, index.ts:149-153).
THEOREM StatusTrue == Spec => []StatusIsTrue
<1>1. IInv => StatusIsTrue
  BY DEF IInv, DirOK, UiOK, StatusIsTrue
<1> QED BY <1>1, AlwaysIInv, PTL

\* However calls, key switches, sessions and recoveries overlap, the list is of the key in
\* use
\* (catalog-state.ts:129-150).
THEOREM DirectoryInOrder == Spec => []DirectoryInv
<1>1. IInv => TypeOK
  BY DEF IInv, TypesOK, TypeOK, DirOK, LoopOK, Dirs, CallStates, LoopStates
<1>2. IInv => ListOfThePresentKey
  BY DEF IInv, DirOK, ListOfThePresentKey
<1> QED BY <1>1, <1>2, AlwaysIInv, PTL DEF DirectoryInv

\* Nothing is bound to the context of a session that is over, and no command speaks to
\* another
\* session than its own (index.ts:228-289).
THEOREM LiveContext == Spec => []OnlyTheLiveContext
<1>1. IInv => OnlyTheLiveContext
  BY DEF IInv, UiOK, CmdOK, OnlyTheLiveContext
<1> QED BY <1>1, AlwaysIInv, PTL

\* A recovery ends once, in its session, and a stopped one asks the host for nothing more
\* (catalog-recovery.ts:25-58, 68-86).
THEOREM OneEnding == Spec => RecoveryEndsOnce
<1>1. IInv /\ [Next]_vars =>
        [\A s \in Sessions :
           /\ endings'[s] # endings[s] => endings[s] = 0 /\ open /\ lifecycle = s
           /\ task'[s] # task[s] /\ task'[s] \in Requests => active = s /\ lifecycle = s]_vars
  BY NextIInv DEF EndsOnce
<1> QED BY <1>1, AlwaysIInv, PTL DEF Spec, RecoveryEndsOnce
================================================================================
