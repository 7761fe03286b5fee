------------------------ MODULE GatewayCatalogRecovery -----------------------
(***************************************************************************)
(* The recovery round that the instances of a process share                *)
(* (models/gateway-catalog-recovery.ts): the request of the first           *)
(* participant still there, repeated after a delay, until one succeeds or  *)
(* is not worth repeating, or the deadline of the round passes.            *)
(*                                                                         *)
(* A round is known by the call of join that created it.                   *)
(***************************************************************************)
EXTENDS Integers

CONSTANTS
  Joiners,         \* the calls of join, each made once
  MaxAttempts,     \* bound on the requests made in all rounds
  Nobody

ASSUME RecoveryAssumption == Nobody \notin Joiners /\ MaxAttempts \in Nat \ {0}

VARIABLES
  activeRound,     \* the current round, Nobody if there is none
  members,         \* round |-> its participants
  joins, turn,     \* joins so far; joiner |-> its place in their order
  aborted,         \* round |-> was its controller aborted?
  run,             \* round |-> where its loop is, or what it returned
  asked,           \* round |-> the participant whose request it awaits
  attempts,        \* the requests made
  race,            \* round |-> how the race of run and end was won
  settled,         \* round |-> has the finally of the race run?
  st,              \* joiner |-> "new", "waiting" or how its promise settled
  round,           \* joiner |-> the round it joined
  signalled,       \* joiners whose signal was aborted
  stopped,         \* rounds that stop() ended (only observed)
  idled            \* did the last step call onIdle? (only observed)

rounds  == <<members, aborted, run, asked, attempts, race, settled>>
callers == <<st, round, joins, turn, signalled>>
roundVars == <<activeRound, rounds, callers, stopped, idled>>

Answers  == {"ok", "final", "retry", "thrown"}
Results  == {"ok", "final", "cancelled"}      \* what run can return

RoundInit ==
  /\ activeRound = Nobody
  /\ members = [q \in Joiners |-> {}]
  /\ aborted = [q \in Joiners |-> FALSE]
  /\ run = [q \in Joiners |-> "none"]
  /\ asked = [q \in Joiners |-> Nobody]
  /\ attempts = 0
  /\ race = [q \in Joiners |-> "none"]
  /\ settled = [q \in Joiners |-> FALSE]
  /\ st = [j \in Joiners |-> "new"]
  /\ round = [j \in Joiners |-> Nobody]
  /\ joins = 0 /\ turn = [j \in Joiners |-> 0]
  /\ signalled = {}
  /\ stopped = {}
  /\ idled = FALSE

Won(q, result) == IF race[q] = "none" THEN result ELSE race[q]
Others(q, j) == members[q] \ {j}
HasParticipants == activeRound # Nobody /\ ~aborted[activeRound] /\ members[activeRound] # {}

\* The controller's abort: until the finally removed it, the listener rejects
\* end and calls onIdle.
AbortRound(q) ==
  /\ aborted' = [aborted EXCEPT ![q] = TRUE]
  /\ race' = [race EXCEPT ![q] = Won(q, "cancelled")]

-----------------------------------------------------------------------------
(* join *)

Joinable(q) == q # Nobody /\ ~aborted[q]

Join(j) ==
  /\ st[j] = "new"
  /\ st' = [st EXCEPT ![j] = "waiting"]
  /\ joins' = joins + 1 /\ turn' = [turn EXCEPT ![j] = joins + 1]
  /\ \/ /\ Joinable(activeRound)
        /\ members' = [members EXCEPT ![activeRound] = @ \cup {j}]
        /\ round' = [round EXCEPT ![j] = activeRound]
        /\ UNCHANGED <<activeRound, run>>
     \/ /\ ~Joinable(activeRound)
        /\ activeRound' = j
        /\ members' = [members EXCEPT ![j] = {j}]
        /\ run' = [run EXCEPT ![j] = "loop"]
        /\ round' = [round EXCEPT ![j] = j]
  /\ idled' = FALSE
  /\ UNCHANGED <<aborted, asked, attempts, race, settled, signalled, stopped>>

JoinAborted(j) ==
  /\ st[j] = "new"
  /\ st' = [st EXCEPT ![j] = "rejected"]
  /\ signalled' = signalled \cup {j}
  /\ idled' = FALSE
  /\ UNCHANGED <<activeRound, rounds, round, joins, turn, stopped>>

LastLeft_Bug(q, j) == TRUE

LastLeft(q, j) == Others(q, j) = {}

\* A participant leaves; the last one to leave ends the round.
SignalAborts(j) ==
  LET q == round[j] IN
  /\ st[j] = "waiting"
  /\ st' = [st EXCEPT ![j] = "rejected"]
  /\ signalled' = signalled \cup {j}
  /\ members' = [members EXCEPT ![q] = Others(q, j)]
  /\ IF LastLeft(q, j)
     THEN AbortRound(q) /\ idled' = ~settled[q]
     ELSE UNCHANGED <<aborted, race>> /\ idled' = FALSE
  /\ UNCHANGED <<activeRound, run, asked, attempts, settled, round, joins, turn, stopped>>

\* The promise of the round reaches a participant.
JoinSettles(j) ==
  LET q == round[j] IN
  /\ st[j] = "waiting" /\ settled[q]
  /\ st' = [st EXCEPT ![j] = IF race[q] = "cancelled" THEN "rejected" ELSE race[q]]
  /\ members' = [members EXCEPT ![q] = Others(q, j)]
  /\ idled' = FALSE
  /\ UNCHANGED <<activeRound, aborted, run, asked, attempts, race, settled, round,
                 joins, turn, signalled, stopped>>

-----------------------------------------------------------------------------
(* The loop *)

First_Bug(q, p) == p = q

\* The first participant: a Set keeps the order of insertion.
First(q, p) == p \in members[q] /\ \A i \in members[q] : turn[p] <= turn[i]

\* Start of an iteration.
Iterate(q) ==
  /\ run[q] = "loop"
  /\ \/ /\ aborted[q]
        /\ run' = [run EXCEPT ![q] = "cancelled"]
        /\ UNCHANGED <<asked, attempts>>
     \/ /\ ~aborted[q] /\ members[q] = {}
        /\ run' = [run EXCEPT ![q] = "delay"]
        /\ UNCHANGED <<asked, attempts>>
     \/ /\ ~aborted[q] /\ members[q] # {} /\ attempts < MaxAttempts
        /\ \E p \in Joiners : First(q, p) /\ asked' = [asked EXCEPT ![q] = p]
        /\ attempts' = attempts + 1
        /\ run' = [run EXCEPT ![q] = "asking"]
  /\ idled' = FALSE
  /\ UNCHANGED <<activeRound, members, aborted, race, settled, callers, stopped>>

\* The request succeeds, fails for good, fails otherwise or throws.
Answered(q, answer) ==
  /\ run[q] = "asking"
  /\ run' = [run EXCEPT ![q] = IF answer \in {"ok", "final"} THEN answer
                               ELSE IF aborted[q] THEN "cancelled" ELSE "delay"]
  /\ asked' = [asked EXCEPT ![q] = Nobody]
  /\ idled' = FALSE
  /\ UNCHANGED <<activeRound, members, aborted, attempts, race, settled,
                 callers, stopped>>

Wake(q) ==
  /\ run[q] = "delay"
  /\ run' = [run EXCEPT ![q] = "loop"]
  /\ idled' = FALSE
  /\ UNCHANGED <<activeRound, members, aborted, asked, attempts, race, settled,
                 callers, stopped>>

-----------------------------------------------------------------------------
(* The end of a round *)

RunSettles(q) ==
  /\ run[q] \in Results
  /\ run' = [run EXCEPT ![q] = "ended"]
  /\ race' = [race EXCEPT ![q] = Won(q, run[q])]
  /\ idled' = FALSE
  /\ UNCHANGED <<activeRound, members, aborted, asked, attempts, settled, callers, stopped>>

Pending_Bug(q) == run[q] = "delay" /\ race[q] = "none"

Pending(q) == run[q] \in {"loop", "asking", "delay"} /\ race[q] = "none"

\* CATALOG_RECOVERY_WINDOW_MS after the round began; a timer fires after the
\* microtasks that end a round.
Expires(q) ==
  /\ Pending(q)
  /\ race' = [race EXCEPT ![q] = "expired"]
  /\ aborted' = [aborted EXCEPT ![q] = TRUE]
  /\ idled' = TRUE
  /\ UNCHANGED <<activeRound, members, run, asked, attempts, settled, callers, stopped>>

Announces(q) == activeRound = q

\* The finally of the race: timers are cleared, a waiting loop is woken.
RoundSettles(q) ==
  /\ race[q] # "none" /\ ~settled[q]
  /\ settled' = [settled EXCEPT ![q] = TRUE]
  /\ run' = [run EXCEPT ![q] = IF @ = "delay" THEN "loop" ELSE @]
  /\ activeRound' = IF activeRound = q THEN Nobody ELSE activeRound
  /\ idled' = Announces(q)
  /\ UNCHANGED <<members, aborted, asked, attempts, race, callers, stopped>>

StopAborts(q) == AbortRound(q)

Stop ==
  /\ activeRound # Nobody
  /\ StopAborts(activeRound)
  /\ activeRound' = Nobody
  /\ stopped' = stopped \cup {activeRound}
  /\ idled' = TRUE
  /\ UNCHANGED <<members, run, asked, attempts, settled, callers>>

RoundNext ==
  \/ \E j \in Joiners : Join(j) \/ JoinAborted(j) \/ SignalAborts(j) \/ JoinSettles(j)
  \/ \E q \in Joiners :
       \/ Iterate(q) \/ Wake(q) \/ RunSettles(q) \/ Expires(q) \/ RoundSettles(q)
       \/ \E answer \in Answers : Answered(q, answer)
  \/ Stop

RoundSpec == RoundInit /\ [][RoundNext]_roundVars

\* Timers fire and microtasks run; a request may never answer.
Fairness ==
  \A j \in Joiners :
    /\ WF_roundVars(Expires(j)) /\ WF_roundVars(RunSettles(j)) /\ WF_roundVars(RoundSettles(j))
    /\ WF_roundVars(JoinSettles(j))

FairSpec == RoundSpec /\ Fairness

-----------------------------------------------------------------------------
(* Properties *)

MembersWait == \A j, q \in Joiners : j \in members[q] <=> st[j] = "waiting" /\ round[j] = q

\* Every variable stays in its type; a round's members are those who wait for it.
RoundTypeOK ==
  /\ activeRound \in Joiners \cup {Nobody}
  /\ members \in [Joiners -> SUBSET Joiners]
  /\ aborted \in [Joiners -> BOOLEAN]
  /\ run \in [Joiners -> {"none", "loop", "asking", "delay", "ended"} \cup Results]
  /\ asked \in [Joiners -> Joiners \cup {Nobody}]
  /\ attempts \in 0..MaxAttempts
  /\ race \in [Joiners -> {"none", "expired"} \cup Results]
  /\ settled \in [Joiners -> BOOLEAN]
  /\ st \in [Joiners -> {"new", "waiting", "ok", "final", "expired", "rejected"}]
  /\ round \in [Joiners -> Joiners \cup {Nobody}]
  /\ joins \in Nat /\ turn \in [Joiners -> Nat]
  /\ signalled \in SUBSET Joiners /\ stopped \in SUBSET Joiners
  /\ idled \in BOOLEAN
  /\ MembersWait

\* A round whose end is not decided is the current one: two rounds never
\* retry side by side, and stopping or leaving ends the loop.
OneLiveRound ==
  \A q \in Joiners : (run[q] # "none" /\ race[q] = "none") => (activeRound = q /\ ~aborted[q])

\* Participants cancel only themselves: a promise is rejected because of the
\* own signal or of stop(), never because another participant left.
RejectedOnlyForCause ==
  \A j \in Joiners : st[j] = "rejected" => (j \in signalled \/ round[j] \in stopped)

\* Rounds follow one another, each for those who stayed
\* (gateway-catalog-recovery.ts:24-117).
RoundInv == RoundTypeOK /\ OneLiveRound /\ RejectedOnlyForCause

\* Who is asked is still there, and the end of participation is announced.
AskedAndAnnounced ==
  /\ \A q \in Joiners : (asked[q] = Nobody /\ asked'[q] # Nobody) =>
       /\ st[asked'[q]] = "waiting" /\ round[asked'[q]] = q
       /\ ~settled[q] /\ race[q] \notin {"expired", "cancelled"}
  /\ HasParticipants /\ ~HasParticipants' => idled'

\* A request is made only in a round that is not over, and on behalf of a participant
\* who is still there: never through an instance that shut down.  And whenever
\* hasParticipants() turns false onIdle is called, so that the service can drop the
\* fetch the round kept alive (gateway-catalog-recovery.ts:64-79, 85, 104).
RoundSteps == [][AskedAndAnnounced]_roundVars

\* A round begins, is raced for and is settled once; who left it for good has a cause.
RoundOK(q) ==
  /\ run[q] = "none" =>
       race[q] = "none" /\ ~aborted[q] /\ ~settled[q] /\ members[q] = {} /\ asked[q] = Nobody
  /\ aborted[q] => race[q] # "none"
  /\ settled[q] => race[q] # "none"
  /\ race[q] \in {"ok", "final"} => run[q] = "ended"
  /\ race[q] \in {"expired", "cancelled"} => aborted[q]
  /\ run[q] # "asking" => asked[q] = Nobody
  /\ run[q] = "cancelled" => aborted[q]
  /\ race[q] = "cancelled" => q \in stopped \/ members[q] = {}

\* A new round starts with a joiner that is new.
RoundsBegin ==
  /\ \A j \in Joiners : st[j] = "new" => run[j] = "none" /\ round[j] = Nobody
  /\ \A j \in Joiners : st[j] = "waiting" => round[j] # Nobody
  /\ activeRound # Nobody => run[activeRound] # "none" /\ ~settled[activeRound]

\* The inductive invariant.
RoundsGoOn == \A q \in Joiners : RoundOK(q)

RecoveryInv == RoundInv /\ RoundsBegin /\ RoundsGoOn

\* Every call of join settles, even if its request never answers.
EveryJoinSettles == \A j \in Joiners : st[j] = "waiting" ~> st[j] # "waiting"
=============================================================================
