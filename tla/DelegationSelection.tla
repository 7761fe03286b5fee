-------------------------- MODULE DelegationSelection --------------------------
(***************************************************************************)
(* The choice of a model before an Agent call runs (delegation/index.ts):  *)
(* the attempts of a session, the race of the selection channels           *)
(* (selection-race.ts, chat-selection.ts), the second look at the          *)
(* catalogue, and the usage that is booked with the result.                *)
(*                                                                         *)
(* The host, the catalogue, the channels' servers and the clock are        *)
(* external; a server may ignore that its request was aborted. A candidate *)
(* is a model with a thinking level that the knowledge table has           *)
(* (policy.ts); what the servers answer is left to them, texts are left    *)
(* out. A tool call is announced once.                                     *)
(*                                                                         *)
(* A definition whose name ends in _Bug is the definition after it with a  *)
(* mistake a programmer could make.                                        *)
(***************************************************************************)
EXTENDS Naturals

CONSTANTS
  Calls,       \* Agent calls without a model
  Native,      \* the classifier channel
  Chats,       \* the chat channels
  Rows,        \* the models with their levels in DELEGATION_KNOWLEDGE
  Astra,       \* the row that alone may review a design
  Scopes,      \* the scopes a session may have; {} is no scope
  None,        \* no model
  MaxEpoch     \* bound: agent runs and sessions

ASSUME NamesAssumption ==
  Native \notin Chats /\ Astra \in Rows /\ None \notin Rows /\ Scopes \subseteq SUBSET Rows /\ MaxEpoch \in Nat

Channels == Chats \union {Native}

VARIABLES
  active,      \* the session may delegate
  epoch,       \* agent runs and sessions that have ended (ghost)
  offered,     \* the models with their levels that getAvailableOfType answers now
  scope,       \* the models the session is limited to
  attempts,    \* the Map: calls whose attempt is known
  cleared,     \* calls whose attempt's controller is aborted
  gone,        \* calls whose own signal is aborted
  late,        \* calls whose 15 seconds are over
  pc,          \* call |-> where it is
  born,        \* call |-> the epoch it began in (ghost)
  candidates,  \* call |-> the candidates its race was started with
  decision,    \* call |-> the model selected, or None, and the kind of the task
  finished,    \* calls whose race has ended
  channel,     \* call |-> channel |-> "idle", "listing", "asked", "failed", "over"
  errors,      \* call |-> the channels reported as failed
  usage,       \* call |-> the channels whose usage the attempt has
  tardy,       \* call |-> the channels that reported it after the call's result (ghost)
  booked       \* call |-> channel |-> how often its usage was booked (ghost)

events == <<active, epoch, offered, scope>>
stops  == <<attempts, cleared, gone, late>>
choice == <<candidates, decision, finished, errors, born>>
money  == <<usage, tardy, booked>>
vars   == <<events, stops, pc, choice, channel, money>>

Kinds      == {"ordinary", "design_review", "dual_review"}
NoDecision == [model |-> None, kind |-> "none"]

Init ==
  /\ active = TRUE /\ epoch = 0 /\ offered = Rows /\ scope \in Scopes
  /\ attempts = {} /\ cleared = {} /\ gone = {} /\ late = {}
  /\ pc = [c \in Calls |-> "new"] /\ born = [c \in Calls |-> 0]
  /\ candidates = [c \in Calls |-> {}] /\ decision = [c \in Calls |-> NoDecision]
  /\ finished = {} /\ channel = [c \in Calls |-> [h \in Channels |-> "idle"]]
  /\ errors = [c \in Calls |-> {}] /\ usage = [c \in Calls |-> {}] /\ tardy = [c \in Calls |-> {}]
  /\ booked = [c \in Calls |-> [h \in Channels |-> 0]]

\* buildDelegationCandidates: the table within the catalogue of now and the scope.
Candidates == {r \in offered : scope = {} \/ r \in scope}

Stopped(c) == c \in cleared \union gone \union late
Goto(c, p) == pc' = [pc EXCEPT ![c] = p]

-----------------------------------------------------------------------------
(* select(): the catalogue, the race, the catalogue again *)

ToolCall(c) ==
  /\ pc[c] = "new" /\ active
  /\ attempts' = attempts \union {c} /\ born' = [born EXCEPT ![c] = epoch]
  /\ Goto(c, "listing")
  /\ UNCHANGED <<events, cleared, gone, late, candidates, decision, finished, errors, channel, money>>

Interruptible_Bug(c) == pc[c] = "racing"

\* Both looks at the catalogue and the race are awaited with abortable.
Interruptible(c) == pc[c] \in {"listing", "racing", "checking"}

\* Whatever the reason, the await ends at once when the signal is aborted.
GivesUp(c) ==
  /\ Interruptible(c) /\ Stopped(c)
  /\ Goto(c, "decided") /\ finished' = finished \union {c}
  /\ decision' = [decision EXCEPT ![c] = NoDecision]
  /\ UNCHANGED <<events, stops, candidates, errors, born, channel, money>>

\* The catalogue fails or has no candidate, or the material is too long: nobody is asked.
NotListed(c) ==
  /\ pc[c] = "listing" /\ ~Stopped(c)
  /\ Goto(c, "decided")
  /\ UNCHANGED <<events, stops, choice, channel, money>>

\* selectWithChat(): a chat model is asked at once, unless the host lacks it or time is up.
ChatBegins(h, asked) == IF h \in asked THEN "asked" ELSE "failed"

\* The classifiers are listed first, unless the host cannot classify.
NativeBegins(able) == IF able THEN "listing" ELSE "failed"

Listed(c) ==
  /\ pc[c] = "listing" /\ ~Stopped(c) /\ Candidates # {}
  /\ candidates' = [candidates EXCEPT ![c] = Candidates]
  /\ \E asked \in SUBSET Chats, able \in BOOLEAN :
       channel' = [channel EXCEPT ![c] =
         [h \in Channels |-> IF h = Native THEN NativeBegins(able) ELSE ChatBegins(h, asked)]]
  /\ Goto(c, "racing")
  /\ UNCHANGED <<events, stops, decision, finished, errors, born, money>>

Aborted(c) == Stopped(c) \/ c \in finished
Becomes(c, h, s) == channel' = [channel EXCEPT ![c][h] = s]

MayAsk_Bug(c) == TRUE

\* The abort is looked at again after the list of classifiers (selection-race.ts:50).
MayAsk(c) == ~Aborted(c)

\* The classifiers are listed: one is asked, or there is none, or no time.
NativeListed(c) ==
  /\ channel[c][Native] = "listing"
  /\ Becomes(c, Native, IF MayAsk(c) THEN "asked" ELSE "over")
     \/ Becomes(c, Native, IF MayAsk(c) THEN "failed" ELSE "over")
  /\ UNCHANGED <<events, stops, pc, choice, money>>

\* The result of a call, or its message, has been decorated or has passed by.
HasResult(c) == pc[c] \in {"resulted", "over"}

\* onUsage: the attempt counts it whenever it comes, even if nobody will read it any more.
Counts(c, h, costs) ==
  /\ usage' = IF costs THEN [usage EXCEPT ![c] = @ \union {h}] ELSE usage
  /\ tardy' = IF costs /\ HasResult(c) THEN [tardy EXCEPT ![c] = @ \union {h}] ELSE tardy

Resolves_Bug(c, kind, m) == m \in candidates[c] /\ kind # "dual_review"

\* resolveDelegationKeys: two reviews are never delegated, one only to Astra.
Resolves(c, kind, m) ==
  m \in candidates[c] /\ kind # "dual_review" /\ (kind = "design_review" => m = Astra)

\* A valid answer wins the race if it is the first; the others are aborted.
Wins(c, h, kind, m, costs) ==
  /\ channel[c][h] = "asked" /\ Resolves(c, kind, m)
  /\ Counts(c, h, costs)
  /\ Becomes(c, h, "over")
  /\ IF Aborted(c) THEN UNCHANGED <<pc, decision, finished>>
     ELSE /\ Goto(c, "checking") /\ decision' = [decision EXCEPT ![c] = [model |-> m, kind |-> kind]]
          /\ finished' = finished \union {c}
  /\ UNCHANGED <<events, stops, candidates, errors, born, booked>>

Blamed_Bug(c) == TRUE

\* A channel that was aborted because of the others is not reported.
Blamed(c) == ~Aborted(c)

\* An error, or an answer that is no answer.
Loses(c, h, costs) ==
  /\ channel[c][h] = "asked"
  /\ Counts(c, h, costs)
  /\ Becomes(c, h, IF Aborted(c) THEN "over" ELSE "failed")
  /\ errors' = IF Blamed(c) /\ pc[c] \in {"racing", "checking"} THEN [errors EXCEPT ![c] = @ \union {h}] ELSE errors
  /\ UNCHANGED <<events, stops, pc, candidates, decision, finished, born, booked>>

AllLost(c) ==
  /\ pc[c] = "racing" /\ ~Stopped(c)
  /\ \A h \in Channels : channel[c][h] = "failed"
  /\ Goto(c, "decided") /\ finished' = finished \union {c}
  /\ UNCHANGED <<events, stops, candidates, decision, errors, born, channel, money>>

StillThere_Bug(c) == decision[c].model \in candidates[c]

\* The winner must be a candidate of the catalogue of now.
StillThere(c) == decision[c].model \in Candidates

Check(c) ==
  /\ pc[c] = "checking" /\ ~Stopped(c)
  /\ decision' = IF StillThere(c) THEN decision ELSE [decision EXCEPT ![c] = NoDecision]
  /\ Goto(c, "decided")
  /\ UNCHANGED <<events, stops, candidates, finished, errors, born, channel, money>>

\* The catalogue cannot be read again.
NotChecked(c) ==
  /\ pc[c] = "checking"
  /\ decision' = [decision EXCEPT ![c] = NoDecision] /\ Goto(c, "decided")
  /\ UNCHANGED <<events, stops, candidates, finished, errors, born, channel, money>>

-----------------------------------------------------------------------------
(* tool_call goes on, and the result passes by *)

Wanted_Bug(c) == active /\ c \notin gone
Wanted(c) == active /\ c \notin cleared /\ c \notin gone

\* The Agent runs with the model, or not at all.
Proceed(c) ==
  /\ pc[c] = "decided"
  /\ Goto(c, IF Wanted(c) /\ decision[c] # NoDecision THEN "running" ELSE "blocked")
  /\ UNCHANGED <<events, stops, choice, channel, money>>

Forgotten_Bug(c) == attempts
Forgotten(c) == attempts \ {c}

\* decorateResult: the usage is added to the result, once.
Decorates(c) ==
  /\ attempts' = Forgotten(c)
  /\ booked' = IF c \in attempts THEN [booked EXCEPT ![c] = [h \in Channels |-> IF h \in usage[c] THEN @[h] + 1 ELSE @[h]]]
               ELSE booked
  /\ UNCHANGED <<events, cleared, gone, late, choice, channel, usage, tardy>>

ToolResult(c) == pc[c] = "running" /\ Goto(c, "resulted") /\ Decorates(c)

\* A blocked call has no tool_result: its message is the place to book.
MessageEnd(c) == pc[c] \in {"blocked", "resulted"} /\ Goto(c, "over") /\ Decorates(c)

-----------------------------------------------------------------------------
(* The session, the callers, the clock and the catalogue *)

Clear == cleared' = cleared \union attempts /\ attempts' = {}

AgentEnd ==
  /\ epoch < MaxEpoch /\ epoch' = epoch + 1
  /\ Clear
  /\ UNCHANGED <<active, offered, scope, gone, late, pc, choice, channel, money>>

\* A new session, which is one of a subagent or not, and the end of one.
Session ==
  /\ epoch < MaxEpoch /\ epoch' = epoch + 1
  /\ Clear /\ active' \in BOOLEAN
  /\ UNCHANGED <<offered, scope, gone, late, pc, choice, channel, money>>

CallerAborts(c) ==
  /\ pc[c] \in {"listing", "racing", "checking", "decided"} /\ c \notin gone
  /\ gone' = gone \union {c}
  /\ UNCHANGED <<events, attempts, cleared, late, pc, choice, channel, money>>

Timeout(c) ==
  /\ pc[c] \in {"listing", "racing", "checking"} /\ c \notin late
  /\ late' = late \union {c}
  /\ UNCHANGED <<events, attempts, cleared, gone, pc, choice, channel, money>>

\* The catalogue is another, or the user limits the session to other models.
CatalogueChanges ==
  /\ \/ offered' \in SUBSET Rows \ {offered} /\ scope' = scope
     \/ scope' \in Scopes \ {scope} /\ offered' = offered
  /\ UNCHANGED <<active, epoch, stops, pc, choice, channel, money>>

Selects(c) ==
  GivesUp(c) \/ NotListed(c) \/ Listed(c) \/ AllLost(c) \/ Check(c) \/ NotChecked(c) \/ Proceed(c)

Answers(c) ==
  \/ NativeListed(c)
  \/ \E h \in Channels, costs \in BOOLEAN : Loses(c, h, costs) \/ \E kind \in Kinds, m \in Rows : Wins(c, h, kind, m, costs)

Next ==
  \/ \E c \in Calls : \/ ToolCall(c) \/ Selects(c) \/ Answers(c)
                      \/ ToolResult(c) \/ MessageEnd(c) \/ CallerAborts(c) \/ Timeout(c)
  \/ AgentEnd \/ Session \/ CatalogueChanges

Spec == Init /\ [][Next]_vars

\* The 15 seconds pass, and continuations of settled promises run; no answer of the
\* host or of a server is assumed (index.ts:134, 69-76).
FairSpec ==
  Spec /\ \A c \in Calls : WF_vars(Timeout(c)) /\ WF_vars(GivesUp(c)) /\ WF_vars(Proceed(c))

-----------------------------------------------------------------------------
(* Properties *)

TypeOK ==
  /\ active \in BOOLEAN /\ epoch \in Nat /\ offered \subseteq Rows /\ scope \in Scopes
  /\ attempts \subseteq Calls /\ cleared \subseteq Calls /\ gone \subseteq Calls /\ late \subseteq Calls
  /\ pc \in [Calls -> {"new", "listing", "racing", "checking", "decided", "running", "blocked", "resulted", "over"}]
  /\ born \in [Calls -> Nat] /\ candidates \in [Calls -> SUBSET Rows] /\ finished \subseteq Calls
  /\ decision \in [Calls -> [model : Rows \union {None}, kind : Kinds \union {"none"}]]
  /\ channel \in [Calls -> [Channels -> {"idle", "listing", "asked", "failed", "over"}]]
  /\ errors \in [Calls -> SUBSET Channels] /\ usage \in [Calls -> SUBSET Channels]
  /\ tardy \in [Calls -> SUBSET Channels]
  /\ booked \in [Calls -> [Channels -> Nat]]

\* An Agent runs in the agent run its call began in, and a channel is asked while the race
\* of a call that is waited for goes on.
BegunForACause ==
  \A c \in Calls :
    /\ pc[c] # "running" /\ pc'[c] = "running" => born[c] = epoch /\ active /\ c \notin gone
    /\ \A h \in Channels :
         channel[c][h] # "asked" /\ channel'[c][h] = "asked" => ~Aborted(c)

\* Nothing is begun for a call that nobody waits for: no Agent but in the agent run its
\* call began in, and no request that costs once the race is over or the call was given
\* up (index.ts:210-214, selection-race.ts:50, 56-60, chat-selection.ts:31-39).
NothingInVain == [][BegunForACause]_vars

\* What a call is decided with satisfies the rules at that moment.
SelectedByTheRules ==
  \A c \in Calls :
    pc'[c] = "decided" /\ decision'[c] # NoDecision /\ pc[c] # "decided" =>
      LET m == decision'[c].model IN
      /\ m \in candidates[c] /\ m \in offered /\ (scope = {} \/ m \in scope)
      /\ decision'[c].kind # "ordinary" => m = Astra

\* The model it runs with was a candidate when the question was asked and again, within
\* the scope, when the answer was there, and a review of a design is given to Astra alone
\* (index.ts:183-187, policy.ts:200-213).
ChosenByTheRules == [][SelectedByTheRules]_vars

\* A failed channel is reported exactly if it failed by itself, before a winner or an
\* abort made its answer worthless (selection-race.ts:80, 100-101).
OnlyRealErrors == \A c \in Calls : \A h \in errors[c] : channel[c][h] = "failed"

\* What a channel is owed: one booking, if its usage was reported before the result of
\* the call was decorated and the agent run had not ended by then.
Owed(c, h) == IF HasResult(c) /\ c \notin cleared /\ h \in usage[c] \ tardy[c] THEN 1 ELSE 0

\* A usage that was reported before the result of its call is booked with it, exactly once
\* though two hooks may do it; one that is reported afterwards is never booked, neither
\* by the message of the call nor later, and nothing is booked before the result or when
\* the agent run ended first (index.ts:178, 222-253, parallel.test.ts:176-184).
UsageIsBookedOnce == \A c \in Calls : \A h \in Channels : booked[c][h] = Owed(c, h)

\* What the user is told of the channels, and what they cost, is true.
AccountInv == TypeOK /\ OnlyRealErrors /\ UsageIsBookedOnce

\* From its announcement until its result is decorated a call has its attempt, unless its
\* agent run took it, and what the attempt owes is not booked yet; a channel reports its
\* usage with its answer, so once.
AttemptInv ==
  \A c \in Calls :
    /\ pc[c] = "new" => c \notin attempts \union cleared /\ usage[c] = {}
    /\ c \in attempts => c \notin cleared /\ born[c] = epoch /\ ~HasResult(c)
    /\ pc[c] \in {"listing", "racing", "checking", "decided", "running", "blocked"} =>
         c \in attempts \union cleared
    /\ ~HasResult(c) => tardy[c] = {}
    /\ \A h \in Channels :
         /\ booked[c][h] = Owed(c, h)
         /\ h \in usage[c] => channel[c][h] \in {"failed", "over"}

\* A channel is asked in a race only, and a call has a decision only after its race.
RaceInv ==
  \A c \in Calls :
    /\ pc[c] \in {"new", "listing"} =>
         errors[c] = {} /\ c \notin finished /\ \A h \in Channels : channel[c][h] = "idle"
    /\ pc[c] = "racing" => c \notin finished
    /\ pc[c] \in {"new", "listing", "racing"} => decision[c] = NoDecision
    /\ c \notin finished /\ pc[c] # "racing" => \A h \in Channels : channel[c][h] = "idle"
    /\ pc[c] = "checking" => /\ decision[c].model \in candidates[c]
                             /\ decision[c].kind # "ordinary" => decision[c].model = Astra

\* The inductive invariant.
SelectionInv == TypeOK /\ OnlyRealErrors /\ AttemptInv /\ RaceInv

\* Every Agent call goes on, with a model or without, though nobody answers.
EverySelectionEnds == \A c \in Calls : pc[c] = "listing" ~> pc[c] \in {"running", "blocked"}
=============================================================================
