---------------------- MODULE DelegationSelectionProofs ----------------------
(***************************************************************************)
(* What a selection promises, for any calls, channels, models and scopes.  *)
(*                                                                         *)
(* TypeOK and OnlyRealErrors are not enough: that a usage is booked once   *)
(* needs to know that whoever books takes the attempt away (AttemptInv),   *)
(* and that a model follows the rules needs to know that a decision exists *)
(* only between the race and its end (RaceInv). AttemptInv in turn needs   *)
(* RaceInv, because an answer that arrives before its race would bring a   *)
(* call back from its beginning.                                           *)
(***************************************************************************)
EXTENDS DelegationSelection, TLAPS

\* Where a channel can be.
ChannelStates == {"idle", "listing", "asked", "failed", "over"}

\* A channel that becomes something leaves the table of channels one.
LEMMA BecomesKeepsType ==
  ASSUME channel \in [Calls -> [Channels -> ChannelStates]], NEW c \in Calls, NEW h \in Channels,
         NEW s \in ChannelStates, Becomes(c, h, s)
  PROVE  /\ channel' \in [Calls -> [Channels -> ChannelStates]]
         /\ \A d \in Calls : d # c => channel'[d] = channel[d]
         /\ \A g \in Channels : g # h => channel'[c][g] = channel[c][g]
         /\ channel'[c][h] = s
  BY DEF Becomes

\* Usage is only added, to the channel that reports it, and noted as tardy after the result.
LEMMA CountsKeepsType ==
  ASSUME usage \in [Calls -> SUBSET Channels], tardy \in [Calls -> SUBSET Channels],
         NEW c \in Calls, NEW h \in Channels, NEW costs \in BOOLEAN, Counts(c, h, costs)
  PROVE  /\ usage' \in [Calls -> SUBSET Channels]
         /\ tardy' \in [Calls -> SUBSET Channels]
         /\ \A d \in Calls : d # c => usage'[d] = usage[d] /\ tardy'[d] = tardy[d]
         /\ \A g \in Channels : g # h => (g \in usage'[c] <=> g \in usage[c]) /\ (g \in tardy'[c] <=> g \in tardy[c])
         /\ ~HasResult(c) => tardy'[c] = tardy[c]
         /\ HasResult(c) /\ h \notin usage[c] => h \notin usage'[c] \ tardy'[c]
  <1>1. CASE costs /\ HasResult(c)
    BY <1>1 DEF Counts
  <1>2. CASE costs /\ ~HasResult(c)
    BY <1>2 DEF Counts
  <1>3. CASE ~costs
    BY <1>3 DEF Counts
  <1> QED BY <1>1, <1>2, <1>3

\* What is booked with a result: what the attempt owes, once more.
LEMMA DecoratesKeepsType ==
  ASSUME booked \in [Calls -> [Channels -> Nat]], NEW c \in Calls, Decorates(c)
  PROVE  /\ booked' \in [Calls -> [Channels -> Nat]]
         /\ \A d \in Calls : d # c \/ d \notin attempts => booked'[d] = booked[d]
         /\ c \in attempts => \A h \in Channels :
              booked'[c][h] = IF h \in usage[c] THEN booked[c][h] + 1 ELSE booked[c][h]
  <1>1. CASE c \in attempts
    <2> DEFINE row == [h \in Channels |-> IF h \in usage[c] THEN booked[c][h] + 1 ELSE booked[c][h]]
    <2>1. booked' = [booked EXCEPT ![c] = row]
      BY <1>1 DEF Decorates
    <2>2. row \in [Channels -> Nat]
      OBVIOUS
    <2>3. \A h \in Channels : row[h] = IF h \in usage[c] THEN booked[c][h] + 1 ELSE booked[c][h]
      OBVIOUS
    <2> HIDE DEF row
    <2>4. booked'[c] = row
      BY <2>1
    <2>5. booked' \in [Calls -> [Channels -> Nat]]
      BY <2>1, <2>2
    <2>6. \A d \in Calls : d # c => booked'[d] = booked[d]
      BY <2>1
    <2>7. \A h \in Channels : booked'[c][h] = IF h \in usage[c] THEN booked[c][h] + 1 ELSE booked[c][h]
      BY <2>3, <2>4
    <2> QED BY <1>1, <2>5, <2>6, <2>7
  <1>2. CASE c \notin attempts
    BY <1>2 DEF Decorates
  <1> QED BY <1>1, <1>2

\* The race begins with every channel listing, asked, or failed.
LEMMA ListedBegins ==
  ASSUME channel \in [Calls -> [Channels -> ChannelStates]], NEW c \in Calls, Listed(c)
  PROVE  /\ channel' \in [Calls -> [Channels -> ChannelStates]]
         /\ \A d \in Calls : d # c => channel'[d] = channel[d]
  <1>1. PICK asked \in SUBSET Chats, able \in BOOLEAN :
          channel' = [channel EXCEPT ![c] =
            [h \in Channels |-> IF h = Native THEN NativeBegins(able) ELSE ChatBegins(h, asked)]]
    BY DEF Listed
  <1> DEFINE row == [h \in Channels |-> IF h = Native THEN NativeBegins(able) ELSE ChatBegins(h, asked)]
  <1>2. row \in [Channels -> ChannelStates]
    BY DEF NativeBegins, ChatBegins, ChannelStates
  <1> HIDE DEF row
  <1> QED BY <1>1, <1>2 DEF row

\* Every variable keeps its type.
LEMMA TypeStep ==
  ASSUME TypeOK, [Next]_vars
  PROVE  TypeOK'
<1> USE NamesAssumption DEF TypeOK, events, stops, choice, money, Goto, NoDecision
<1>1. ASSUME NEW c \in Calls, ToolCall(c) PROVE TypeOK'
  BY <1>1 DEF ToolCall
<1>2. ASSUME NEW c \in Calls, GivesUp(c) PROVE TypeOK'
  BY <1>2 DEF GivesUp
<1>3. ASSUME NEW c \in Calls, NotListed(c) PROVE TypeOK'
  BY <1>3 DEF NotListed
<1>4. ASSUME NEW c \in Calls, Listed(c) PROVE TypeOK'
  <2>1. channel' \in [Calls -> [Channels -> ChannelStates]]
    BY <1>4, ListedBegins DEF ChannelStates
  <2> QED BY <2>1, <1>4 DEF Listed, Candidates, ChannelStates
<1>5. ASSUME NEW c \in Calls, AllLost(c) PROVE TypeOK'
  BY <1>5 DEF AllLost
<1>6. ASSUME NEW c \in Calls, Check(c) PROVE TypeOK'
  BY <1>6 DEF Check
<1>7. ASSUME NEW c \in Calls, NotChecked(c) PROVE TypeOK'
  BY <1>7 DEF NotChecked
<1>8. ASSUME NEW c \in Calls, Proceed(c) PROVE TypeOK'
  BY <1>8 DEF Proceed
<1>9. ASSUME NEW c \in Calls, NativeListed(c) PROVE TypeOK'
  <2>1. PICK s \in ChannelStates : Becomes(c, Native, s)
    BY <1>9 DEF NativeListed, ChannelStates
  <2>0. Native \in Channels
    BY DEF Channels
  <2>2. channel' \in [Calls -> [Channels -> ChannelStates]]
    BY <2>0, <2>1, BecomesKeepsType DEF ChannelStates
  <2> QED BY <2>2, <1>9 DEF NativeListed, ChannelStates
<1>10. ASSUME NEW c \in Calls, NEW h \in Channels, NEW costs \in BOOLEAN, Loses(c, h,
              costs)
       PROVE  TypeOK'
  <2>1. PICK s \in ChannelStates : Becomes(c, h, s)
    BY <1>10 DEF Loses, ChannelStates
  <2>2. channel' \in [Calls -> [Channels -> ChannelStates]]
    BY <2>1, BecomesKeepsType DEF ChannelStates
  <2>3. usage' \in [Calls -> SUBSET Channels] /\ tardy' \in [Calls -> SUBSET Channels]
    BY <1>10, CountsKeepsType DEF Loses
  <2> QED BY <2>2, <2>3, <1>10 DEF Loses, ChannelStates
<1>11. ASSUME NEW c \in Calls, NEW h \in Channels, NEW costs \in BOOLEAN, NEW k \in Kinds, NEW m \in Rows, Wins(c, h, k, m,
              costs)
       PROVE  TypeOK'
  <2>1. Becomes(c, h, "over") /\ "over" \in ChannelStates
    BY <1>11 DEF Wins, ChannelStates
  <2>2. channel' \in [Calls -> [Channels -> ChannelStates]]
    BY <2>1, BecomesKeepsType DEF ChannelStates
  <2>3. usage' \in [Calls -> SUBSET Channels] /\ tardy' \in [Calls -> SUBSET Channels]
    BY <1>11, CountsKeepsType DEF Wins
  <2>4. decision' \in [Calls -> [model : Rows \union {None}, kind : Kinds \union {"none"}]]
    <3>1. [model |-> m, kind |-> k] \in [model : Rows \union {None}, kind : Kinds \union {"none"}]
      OBVIOUS
    <3>2. decision' = decision \/ decision' = [decision EXCEPT ![c] = [model |-> m, kind |-> k]]
      BY <1>11 DEF Wins
    <3> HIDE DEF NoDecision
    <3> HIDE DEF TypeOK, Kinds
    <3>3. decision \in [Calls -> [model : Rows \union {None}, kind : Kinds \union {"none"}]]
      BY DEF TypeOK
    <3> QED BY <3>1, <3>2, <3>3
  <2>5. pc' \in [Calls -> {"new", "listing", "racing", "checking", "decided", "running", "blocked", "resulted", "over"}]
    BY <1>11 DEF Wins
  <2> QED BY <2>2, <2>3, <2>4, <2>5, <1>11 DEF Wins, ChannelStates
<1>12. ASSUME NEW c \in Calls, ToolResult(c) PROVE TypeOK'
  <2>1. Decorates(c)
    BY <1>12 DEF ToolResult
  <2>2. booked' \in [Calls -> [Channels -> Nat]]
    BY <2>1, DecoratesKeepsType
  <2> QED BY <2>1, <2>2, <1>12 DEF ToolResult, Decorates, Forgotten
<1>13. ASSUME NEW c \in Calls, MessageEnd(c) PROVE TypeOK'
  <2>1. Decorates(c)
    BY <1>13 DEF MessageEnd
  <2>2. booked' \in [Calls -> [Channels -> Nat]]
    BY <2>1, DecoratesKeepsType
  <2> QED BY <2>1, <2>2, <1>13 DEF MessageEnd, Decorates, Forgotten
<1>14. ASSUME NEW c \in Calls, CallerAborts(c) PROVE TypeOK'
  BY <1>14 DEF CallerAborts
<1>15. ASSUME NEW c \in Calls, Timeout(c) PROVE TypeOK'
  BY <1>15 DEF Timeout
<1>16. CASE AgentEnd
  <2>1. epoch' \in Nat
    BY <1>16 DEF AgentEnd
  <2>2. active' \in BOOLEAN
    BY <1>16, Zenon DEF AgentEnd
  <2> QED BY <2>1, <2>2, <1>16 DEF AgentEnd, Clear
<1>17. CASE Session
  <2>1. epoch' \in Nat
    BY <1>17 DEF Session
  <2>2. active' \in BOOLEAN
    BY <1>17, Zenon DEF Session
  <2> QED BY <2>1, <2>2, <1>17 DEF Session, Clear
<1>18. CASE CatalogueChanges
  BY <1>18 DEF CatalogueChanges
<1>19. CASE UNCHANGED vars
  BY <1>19 DEF vars
<1> HIDE DEF TypeOK, events, stops, choice, money, Goto, NoDecision
<1> QED
  BY <1>1, <1>2, <1>3, <1>4, <1>5, <1>6, <1>7, <1>8, <1>9, <1>10, <1>11, <1>12, <1>13, <1>14, <1>15, <1>16, <1>17, <1>18, <1>19 DEF Next, Selects, Answers

\* Only a channel that failed is reported, and it stays failed.
LEMMA ErrorStep ==
  ASSUME TypeOK, OnlyRealErrors, RaceInv, [Next]_vars
  PROVE  OnlyRealErrors'
<1> USE NamesAssumption DEF TypeOK, OnlyRealErrors, RaceInv, events, stops, choice, money, Goto, Aborted, Blamed, Stopped
<1>1. ASSUME NEW c \in Calls, ToolCall(c) PROVE OnlyRealErrors'
  BY <1>1 DEF ToolCall
<1>2. ASSUME NEW c \in Calls, GivesUp(c) PROVE OnlyRealErrors'
  BY <1>2 DEF GivesUp
<1>3. ASSUME NEW c \in Calls, NotListed(c) PROVE OnlyRealErrors'
  BY <1>3 DEF NotListed
<1>4. ASSUME NEW c \in Calls, Listed(c) PROVE OnlyRealErrors'
  BY <1>4 DEF Listed, Candidates, NativeBegins, ChatBegins
<1>5. ASSUME NEW c \in Calls, AllLost(c) PROVE OnlyRealErrors'
  BY <1>5 DEF AllLost
<1>6. ASSUME NEW c \in Calls, Check(c) PROVE OnlyRealErrors'
  BY <1>6 DEF Check
<1>7. ASSUME NEW c \in Calls, NotChecked(c) PROVE OnlyRealErrors'
  BY <1>7 DEF NotChecked
<1>8. ASSUME NEW c \in Calls, Proceed(c) PROVE OnlyRealErrors'
  BY <1>8 DEF Proceed
<1>9. ASSUME NEW c \in Calls, NativeListed(c) PROVE OnlyRealErrors'
  <2>1. PICK s \in ChannelStates : Becomes(c, Native, s)
    BY <1>9 DEF NativeListed, ChannelStates
  <2>0. Native \in Channels
    BY DEF Channels
  <2>2. /\ \A d \in Calls : d # c => channel'[d] = channel[d]
        /\ \A g \in Channels : g # Native => channel'[c][g] = channel[c][g]
    BY <2>0, <2>1, BecomesKeepsType DEF ChannelStates
  <2>3. channel[c][Native] = "listing" /\ errors' = errors
    BY <1>9 DEF NativeListed
  <2>4. Native \notin errors[c]
    BY <2>3
  <2>5. ASSUME NEW d \in Calls, NEW h \in errors[d] PROVE channel'[d][h] = "failed"
    <3>1. h \in Channels /\ channel[d][h] = "failed"
      OBVIOUS
    <3>2. CASE d # c
      BY <2>2, <3>1, <3>2
    <3>3. CASE d = c
      BY <2>2, <2>4, <3>1, <3>3
    <3> QED BY <3>2, <3>3
  <2> QED BY <2>3, <2>5
<1>10. ASSUME NEW c \in Calls, NEW h \in Channels, NEW costs \in BOOLEAN, Loses(c, h,
              costs)
       PROVE  OnlyRealErrors'
  BY <1>10 DEF Loses, Becomes, Counts
<1>11. ASSUME NEW c \in Calls, NEW h \in Channels, NEW costs \in BOOLEAN, NEW k \in Kinds, NEW m \in Rows, Wins(c, h, k, m,
              costs)
       PROVE  OnlyRealErrors'
  BY <1>11 DEF Wins, Becomes, Counts, Resolves
<1>12. ASSUME NEW c \in Calls, ToolResult(c) PROVE OnlyRealErrors'
  BY <1>12 DEF ToolResult, Decorates, Forgotten
<1>13. ASSUME NEW c \in Calls, MessageEnd(c) PROVE OnlyRealErrors'
  BY <1>13 DEF MessageEnd, Decorates, Forgotten
<1>14. ASSUME NEW c \in Calls, CallerAborts(c) PROVE OnlyRealErrors'
  BY <1>14 DEF CallerAborts
<1>15. ASSUME NEW c \in Calls, Timeout(c) PROVE OnlyRealErrors'
  BY <1>15 DEF Timeout
<1>16. CASE AgentEnd
  BY <1>16 DEF AgentEnd, Clear
<1>17. CASE Session
  BY <1>17 DEF Session, Clear
<1>18. CASE CatalogueChanges
  BY <1>18 DEF CatalogueChanges
<1>19. CASE UNCHANGED vars
  BY <1>19 DEF vars
<1> HIDE DEF TypeOK, OnlyRealErrors, RaceInv, events, stops, choice, money, Goto, Aborted, Blamed, Stopped
<1> QED
  BY <1>1, <1>2, <1>3, <1>4, <1>5, <1>6, <1>7, <1>8, <1>9, <1>10, <1>11, <1>12, <1>13, <1>14, <1>15, <1>16, <1>17, <1>18, <1>19 DEF Next, Selects, Answers

\* What an answer does to the usage of its call.
Reports(c, h) ==
  /\ \A d \in Calls : d # c => usage'[d] = usage[d] /\ tardy'[d] = tardy[d] /\ channel'[d] = channel[d]
  /\ \A g \in Channels : g # h =>
       /\ g \in usage'[c] <=> g \in usage[c]
       /\ g \in tardy'[c] <=> g \in tardy[c]
       /\ channel'[c][g] = channel[c][g]
  /\ ~HasResult(c) => tardy'[c] = tardy[c]
  /\ h \notin usage[c] /\ (HasResult(c) => h \notin usage'[c] \ tardy'[c])
  /\ channel'[c][h] \in {"failed", "over"} /\ pc[c] \notin {"new", "listing"}

\* A channel that is asked has reported nothing, and reports once.
LEMMA ReportsOnce ==
  ASSUME TypeOK, AttemptInv, RaceInv, NEW c \in Calls, NEW h \in Channels, NEW costs \in BOOLEAN,
         channel[c][h] = "asked", Counts(c, h, costs), NEW s \in {"failed", "over"}, Becomes(c, h, s)
  PROVE  Reports(c, h)
<1>1. pc[c] \notin {"new", "listing"}
  BY DEF RaceInv
<1>2. h \notin usage[c]
  BY DEF AttemptInv
<1>3. /\ usage \in [Calls -> SUBSET Channels]
      /\ tardy \in [Calls -> SUBSET Channels]
      /\ channel \in [Calls -> [Channels -> ChannelStates]]
      /\ s \in ChannelStates
  BY DEF TypeOK, ChannelStates
<1>4. /\ \A d \in Calls : d # c => usage'[d] = usage[d] /\ tardy'[d] = tardy[d]
      /\ \A g \in Channels : g # h => (g \in usage'[c] <=> g \in usage[c]) /\ (g \in tardy'[c] <=> g \in tardy[c])
      /\ ~HasResult(c) => tardy'[c] = tardy[c]
      /\ HasResult(c) /\ h \notin usage[c] => h \notin usage'[c] \ tardy'[c]
  BY <1>3, CountsKeepsType
<1>5. /\ \A d \in Calls : d # c => channel'[d] = channel[d]
      /\ \A g \in Channels : g # h => channel'[c][g] = channel[c][g]
      /\ channel'[c][h] = s
  BY <1>3, BecomesKeepsType
<1> QED BY <1>1, <1>2, <1>4, <1>5 DEF Reports

\* A usage that is reported before the result waits to be booked, a later one does not.
LEMMA ReportKeepsAttempt ==
  ASSUME TypeOK, AttemptInv, NEW c \in Calls, NEW h \in Channels, Reports(c, h),
         attempts' = attempts, cleared' = cleared, born' = born, epoch' = epoch, booked' = booked,
         pc' = pc \/ (pc[c] = "racing" /\ pc' = [pc EXCEPT ![c] = "checking"])
  PROVE  AttemptInv'
<1>1. \A d \in Calls : d # c => pc'[d] = pc[d] /\ usage'[d] = usage[d] /\ tardy'[d] = tardy[d] /\ channel'[d] = channel[d]
  BY DEF TypeOK, Reports
<1>2. pc'[c] = pc[c] \/ (pc[c] = "racing" /\ pc'[c] = "checking")
  BY DEF TypeOK
<1>3. /\ pc[c] \notin {"new", "listing"} /\ pc'[c] \notin {"new", "listing"}
      /\ HasResult(c)' <=> HasResult(c)
  BY <1>2 DEF Reports, HasResult
<1>4. ASSUME NEW g \in Channels PROVE Owed(c, g)' = Owed(c, g)
  <2>1. CASE g # h
    <3>1. g \in (usage'[c] \ tardy'[c]) <=> g \in usage[c] \ tardy[c]
      BY <2>1 DEF Reports
    <3> QED BY <3>1, <1>3 DEF Owed
  <2>2. CASE g = h
    <3>1. ~(HasResult(c) /\ h \in usage[c] \ tardy[c]) /\ ~(HasResult(c) /\ h \in usage'[c] \ tardy'[c])
      BY DEF Reports
    <3> QED BY <2>2, <3>1, <1>3 DEF Owed
  <2> QED BY <2>1, <2>2
<1>5. ASSUME NEW d \in Calls, d # c, NEW g \in Channels PROVE Owed(d, g)' = Owed(d, g)
  BY <1>1, <1>5 DEF Owed, HasResult
<1>6. ~HasResult(c)' => tardy'[c] = {}
  BY <1>3 DEF AttemptInv, Reports
<1>7. \A g \in Channels : g \in usage'[c] => channel'[c][g] \in {"failed", "over"}
  BY DEF AttemptInv, Reports
<1>8. ASSUME NEW d \in Calls
      PROVE  /\ pc'[d] = "new" => d \notin attempts' \union cleared' /\ usage'[d] = {}
             /\ d \in attempts' => d \notin cleared' /\ born'[d] = epoch' /\ ~HasResult(d)'
             /\ pc'[d] \in {"listing", "racing", "checking", "decided", "running", "blocked"} => d \in attempts' \union cleared'
             /\ ~HasResult(d)' => tardy'[d] = {}
             /\ \A g \in Channels : booked'[d][g] = Owed(d, g)' /\ (g \in usage'[d] => channel'[d][g] \in {"failed", "over"})
  <2>1. CASE d = c
    BY <2>1, <1>2, <1>3, <1>4, <1>6, <1>7 DEF AttemptInv
  <2>2. CASE d # c
    BY <2>2, <1>1, <1>5 DEF AttemptInv, HasResult
  <2> QED BY <2>1, <2>2
<1> QED BY <1>8 DEF AttemptInv

\* Of the channels, the classifier's alone goes on when its list is there.
LEMMA NativeGoesOn ==
  ASSUME TypeOK, NEW c \in Calls, NativeListed(c)
  PROVE  /\ \A d \in Calls : d # c => channel'[d] = channel[d]
         /\ \A g \in Channels : g # Native => channel'[c][g] = channel[c][g]
         /\ channel[c][Native] = "listing" /\ channel'[c][Native] \in {"asked", "failed", "over"}
         /\ Native \in Channels
<1>1. PICK s \in {"asked", "failed", "over"} : Becomes(c, Native, s)
  BY DEF NativeListed
<1>2. Native \in Channels /\ s \in ChannelStates
  BY DEF Channels, ChannelStates
<1>3. channel \in [Calls -> [Channels -> ChannelStates]]
  BY DEF TypeOK, ChannelStates
<1>4. /\ \A d \in Calls : d # c => channel'[d] = channel[d]
      /\ \A g \in Channels : g # Native => channel'[c][g] = channel[c][g]
      /\ channel'[c][Native] = s
  BY <1>1, <1>2, <1>3, BecomesKeepsType
<1> QED BY <1>2, <1>4 DEF NativeListed

\* An attempt and what it owes go together, whoever ends the agent run meanwhile.
LEMMA AttemptStep ==
  ASSUME TypeOK, AttemptInv, RaceInv, [Next]_vars
  PROVE  AttemptInv'
<1> USE NamesAssumption DEF TypeOK, AttemptInv, RaceInv, events, stops, choice, money, Goto, Channels, HasResult, Owed
<1>1. ASSUME NEW c \in Calls, ToolCall(c) PROVE AttemptInv'
  BY <1>1 DEF ToolCall
<1>2. ASSUME NEW c \in Calls, GivesUp(c) PROVE AttemptInv'
  <2>1. pc[c] \in {"listing", "racing", "checking"} /\ pc' = [pc EXCEPT ![c] = "decided"]
    BY <1>2 DEF GivesUp, Interruptible
  <2> QED BY <2>1, <1>2 DEF GivesUp
<1>3. ASSUME NEW c \in Calls, NotListed(c) PROVE AttemptInv'
  BY <1>3 DEF NotListed
<1>4. ASSUME NEW c \in Calls, Listed(c) PROVE AttemptInv'
  BY <1>4 DEF Listed, Candidates, NativeBegins, ChatBegins
<1>5. ASSUME NEW c \in Calls, AllLost(c) PROVE AttemptInv'
  BY <1>5 DEF AllLost
<1>6. ASSUME NEW c \in Calls, Check(c) PROVE AttemptInv'
  BY <1>6 DEF Check
<1>7. ASSUME NEW c \in Calls, NotChecked(c) PROVE AttemptInv'
  BY <1>7 DEF NotChecked
<1>8. ASSUME NEW c \in Calls, Proceed(c) PROVE AttemptInv'
  BY <1>8 DEF Proceed
<1>9. ASSUME NEW c \in Calls, NativeListed(c) PROVE AttemptInv'
  <2>1. /\ \A d \in Calls : d # c => channel'[d] = channel[d]
        /\ \A g \in Channels : g # Native => channel'[c][g] = channel[c][g]
        /\ channel[c][Native] = "listing" /\ channel'[c][Native] \in {"asked", "failed", "over"}
    <3> HIDE DEF TypeOK, AttemptInv, RaceInv, events, stops, choice, money, Goto, Channels, HasResult, Owed
    <3> QED BY <1>9, NativeGoesOn
  <2> QED BY <2>1, <1>9 DEF NativeListed
<1>10. ASSUME NEW c \in Calls, NEW h \in Channels, NEW costs \in BOOLEAN, Loses(c, h,
              costs)
       PROVE  AttemptInv'
  <2>1. Reports(c, h)
    <3> HIDE DEF TypeOK, AttemptInv, RaceInv, events, stops, choice, money, Goto, Channels, HasResult, Owed
    <3> QED BY <1>10, ReportsOnce DEF Loses
  <2>2. pc' = pc
    BY <1>10 DEF Loses
  <2>3. attempts' = attempts /\ cleared' = cleared /\ born' = born /\ epoch' = epoch /\ booked' = booked
    BY <1>10 DEF Loses
  <2> HIDE DEF TypeOK, AttemptInv, RaceInv
  <2> QED BY <2>1, <2>2, <2>3, ReportKeepsAttempt
<1>11. ASSUME NEW c \in Calls, NEW h \in Channels, NEW costs \in BOOLEAN, NEW k \in Kinds, NEW m \in Rows, Wins(c, h, k, m,
              costs)
       PROVE  AttemptInv'
  <2>1. Reports(c, h)
    <3> HIDE DEF TypeOK, AttemptInv, RaceInv, events, stops, choice, money, Goto, Channels, HasResult, Owed
    <3> QED BY <1>11, ReportsOnce DEF Wins
  <2>2. Aborted(c) \/ pc[c] = "racing"
    BY <1>11 DEF Wins, Aborted
  <2>3. pc' = pc \/ (pc[c] = "racing" /\ pc' = [pc EXCEPT ![c] = "checking"])
    BY <1>11, <2>2 DEF Wins
  <2>4. attempts' = attempts /\ cleared' = cleared /\ born' = born /\ epoch' = epoch /\ booked' = booked
    BY <1>11 DEF Wins
  <2> HIDE DEF TypeOK, AttemptInv, RaceInv
  <2> QED BY <2>1, <2>3, <2>4, ReportKeepsAttempt
<1>12. ASSUME NEW c \in Calls, ToolResult(c) PROVE AttemptInv'
  BY <1>12 DEF ToolResult, Decorates, Forgotten
<1>13. ASSUME NEW c \in Calls, MessageEnd(c) PROVE AttemptInv'
  BY <1>13 DEF MessageEnd, Decorates, Forgotten
<1>14. ASSUME NEW c \in Calls, CallerAborts(c) PROVE AttemptInv'
  BY <1>14 DEF CallerAborts
<1>15. ASSUME NEW c \in Calls, Timeout(c) PROVE AttemptInv'
  BY <1>15 DEF Timeout
<1>16. CASE AgentEnd
  BY <1>16 DEF AgentEnd, Clear
<1>17. CASE Session
  BY <1>17 DEF Session, Clear
<1>18. CASE CatalogueChanges
  BY <1>18 DEF CatalogueChanges
<1>19. CASE UNCHANGED vars
  BY <1>19 DEF vars
<1> HIDE DEF TypeOK, AttemptInv, RaceInv, events, stops, choice, money, Goto, Channels, HasResult, Owed
<1> QED
  BY <1>1, <1>2, <1>3, <1>4, <1>5, <1>6, <1>7, <1>8, <1>9, <1>10, <1>11, <1>12, <1>13, <1>14, <1>15, <1>16, <1>17, <1>18, <1>19 DEF Next, Selects, Answers

\* Channels are asked in a race, and a race ends once.
LEMMA RaceStep ==
  ASSUME TypeOK, RaceInv, [Next]_vars
  PROVE  RaceInv'
<1> USE NamesAssumption DEF TypeOK, RaceInv, events, stops, choice, money, Goto, NoDecision, Aborted, Stopped, Kinds, Channels
<1>1. ASSUME NEW c \in Calls, ToolCall(c) PROVE RaceInv'
  BY <1>1 DEF ToolCall
<1>2. ASSUME NEW c \in Calls, GivesUp(c) PROVE RaceInv'
  BY <1>2 DEF GivesUp
<1>3. ASSUME NEW c \in Calls, NotListed(c) PROVE RaceInv'
  BY <1>3 DEF NotListed
<1>4. ASSUME NEW c \in Calls, Listed(c) PROVE RaceInv'
  BY <1>4 DEF Listed, Candidates, NativeBegins, ChatBegins
<1>5. ASSUME NEW c \in Calls, AllLost(c) PROVE RaceInv'
  BY <1>5 DEF AllLost
<1>6. ASSUME NEW c \in Calls, Check(c) PROVE RaceInv'
  BY <1>6 DEF Check
<1>7. ASSUME NEW c \in Calls, NotChecked(c) PROVE RaceInv'
  BY <1>7 DEF NotChecked
<1>8. ASSUME NEW c \in Calls, Proceed(c) PROVE RaceInv'
  BY <1>8 DEF Proceed
<1>9. ASSUME NEW c \in Calls, NativeListed(c) PROVE RaceInv'
  <2>1. /\ \A d \in Calls : d # c => channel'[d] = channel[d]
        /\ \A g \in Channels : g # Native => channel'[c][g] = channel[c][g]
        /\ channel[c][Native] = "listing" /\ Native \in Channels
    <3> HIDE DEF TypeOK, RaceInv, events, stops, choice, money, Goto, NoDecision, Aborted, Stopped, Kinds, Channels
    <3> QED BY <1>9, NativeGoesOn
  <2>2. pc' = pc /\ finished' = finished /\ errors' = errors /\ decision' = decision /\ candidates' = candidates
    BY <1>9 DEF NativeListed
  <2>3. \A d \in Calls : (\A h \in Channels : channel[d][h] = "idle") => \A h \in Channels : channel'[d][h] = "idle"
    BY <2>1
  <2> QED BY <2>2, <2>3
<1>10. ASSUME NEW c \in Calls, NEW h \in Channels, NEW costs \in BOOLEAN, Loses(c, h,
              costs)
       PROVE  RaceInv'
  BY <1>10 DEF Loses, Becomes, Counts
<1>11. ASSUME NEW c \in Calls, NEW h \in Channels, NEW costs \in BOOLEAN, NEW k \in Kinds, NEW m \in Rows, Wins(c, h, k, m,
              costs)
       PROVE  RaceInv'
  BY <1>11 DEF Wins, Becomes, Counts, Resolves
<1>12. ASSUME NEW c \in Calls, ToolResult(c) PROVE RaceInv'
  BY <1>12 DEF ToolResult, Decorates, Forgotten
<1>13. ASSUME NEW c \in Calls, MessageEnd(c) PROVE RaceInv'
  BY <1>13 DEF MessageEnd, Decorates, Forgotten
<1>14. ASSUME NEW c \in Calls, CallerAborts(c) PROVE RaceInv'
  BY <1>14 DEF CallerAborts
<1>15. ASSUME NEW c \in Calls, Timeout(c) PROVE RaceInv'
  BY <1>15 DEF Timeout
<1>16. CASE AgentEnd
  BY <1>16 DEF AgentEnd, Clear
<1>17. CASE Session
  BY <1>17 DEF Session, Clear
<1>18. CASE CatalogueChanges
  BY <1>18 DEF CatalogueChanges
<1>19. CASE UNCHANGED vars
  BY <1>19 DEF vars
<1> HIDE DEF TypeOK, RaceInv, events, stops, choice, money, Goto, NoDecision, Aborted, Stopped, Kinds, Channels
<1> QED
  BY <1>1, <1>2, <1>3, <1>4, <1>5, <1>6, <1>7, <1>8, <1>9, <1>10, <1>11, <1>12, <1>13, <1>14, <1>15, <1>16, <1>17, <1>18, <1>19 DEF Next, Selects, Answers

\* Whatever is begun by a step is begun for a call that is waited for.
LEMMA CauseStep ==
  ASSUME TypeOK, AttemptInv, RaceInv, [Next]_vars
  PROVE  BegunForACause
<1> USE NamesAssumption DEF TypeOK, AttemptInv, RaceInv, BegunForACause, events, stops, choice, money, Goto, Channels, Aborted, Stopped
<1>1. ASSUME NEW c \in Calls, ToolCall(c) PROVE BegunForACause
  BY <1>1 DEF ToolCall
<1>2. ASSUME NEW c \in Calls, GivesUp(c) PROVE BegunForACause
  BY <1>2 DEF GivesUp
<1>3. ASSUME NEW c \in Calls, NotListed(c) PROVE BegunForACause
  BY <1>3 DEF NotListed
<1>4. ASSUME NEW c \in Calls, Listed(c) PROVE BegunForACause
  BY <1>4 DEF Listed, Candidates, NativeBegins, ChatBegins
<1>5. ASSUME NEW c \in Calls, AllLost(c) PROVE BegunForACause
  BY <1>5 DEF AllLost
<1>6. ASSUME NEW c \in Calls, Check(c) PROVE BegunForACause
  BY <1>6 DEF Check
<1>7. ASSUME NEW c \in Calls, NotChecked(c) PROVE BegunForACause
  BY <1>7 DEF NotChecked
<1>8. ASSUME NEW c \in Calls, Proceed(c) PROVE BegunForACause
  BY <1>8 DEF Proceed, Wanted
<1>9. ASSUME NEW c \in Calls, NativeListed(c) PROVE BegunForACause
  <2>0. Native \in Channels
    BY DEF Channels
  <2>1. PICK s \in ChannelStates : Becomes(c, Native, s) /\ (s = "asked" => MayAsk(c))
    BY <1>9 DEF NativeListed, ChannelStates
  <2>2. /\ \A d \in Calls : d # c => channel'[d] = channel[d]
        /\ \A g \in Channels : g # Native => channel'[c][g] = channel[c][g]
        /\ channel'[c][Native] = s
    <3>1. channel \in [Calls -> [Channels -> ChannelStates]]
      BY DEF ChannelStates
    <3>2. Becomes(c, Native, s)
      BY <2>1
    <3> HIDE DEF TypeOK, AttemptInv, RaceInv, BegunForACause, Channels
    <3> QED BY <2>0, <3>1, <3>2, BecomesKeepsType
  <2>3. pc' = pc
    BY <1>9 DEF NativeListed
  <2>4. ASSUME NEW g \in Channels, channel[c][g] # "asked", channel'[c][g] = "asked" PROVE ~Aborted(c)
    BY <2>1, <2>2, <2>4 DEF MayAsk
  <2> QED BY <2>2, <2>3, <2>4
<1>10. ASSUME NEW c \in Calls, NEW h \in Channels, NEW costs \in BOOLEAN, Loses(c, h,
              costs)
       PROVE  BegunForACause
  BY <1>10 DEF Loses, Becomes, Counts
<1>11. ASSUME NEW c \in Calls, NEW h \in Channels, NEW costs \in BOOLEAN, NEW k \in Kinds, NEW m \in Rows, Wins(c, h, k, m,
              costs)
       PROVE  BegunForACause
  BY <1>11 DEF Wins, Becomes, Counts, Resolves
<1>12. ASSUME NEW c \in Calls, ToolResult(c) PROVE BegunForACause
  BY <1>12 DEF ToolResult, Decorates, Forgotten
<1>13. ASSUME NEW c \in Calls, MessageEnd(c) PROVE BegunForACause
  BY <1>13 DEF MessageEnd, Decorates, Forgotten
<1>14. ASSUME NEW c \in Calls, CallerAborts(c) PROVE BegunForACause
  BY <1>14 DEF CallerAborts
<1>15. ASSUME NEW c \in Calls, Timeout(c) PROVE BegunForACause
  BY <1>15 DEF Timeout
<1>16. CASE AgentEnd
  BY <1>16 DEF AgentEnd, Clear
<1>17. CASE Session
  BY <1>17 DEF Session, Clear
<1>18. CASE CatalogueChanges
  BY <1>18 DEF CatalogueChanges
<1>19. CASE UNCHANGED vars
  BY <1>19 DEF vars
<1> HIDE DEF TypeOK, AttemptInv, RaceInv, BegunForACause, events, stops, choice, money, Goto, Channels, Aborted, Stopped
<1> QED
  BY <1>1, <1>2, <1>3, <1>4, <1>5, <1>6, <1>7, <1>8, <1>9, <1>10, <1>11, <1>12, <1>13, <1>14, <1>15, <1>16, <1>17, <1>18, <1>19 DEF Next, Selects, Answers

\* Only the second look at the catalogue decides for a model, one of then and of now.
LEMMA RuleStep ==
  ASSUME TypeOK, RaceInv, [Next]_vars
  PROVE  SelectedByTheRules
<1> USE NamesAssumption DEF TypeOK, RaceInv, SelectedByTheRules, events, stops, choice, money, Goto, NoDecision
<1>1. ASSUME NEW c \in Calls, ToolCall(c) PROVE SelectedByTheRules
  BY <1>1 DEF ToolCall
<1>2. ASSUME NEW c \in Calls, GivesUp(c) PROVE SelectedByTheRules
  BY <1>2 DEF GivesUp
<1>3. ASSUME NEW c \in Calls, NotListed(c) PROVE SelectedByTheRules
  BY <1>3 DEF NotListed
<1>4. ASSUME NEW c \in Calls, Listed(c) PROVE SelectedByTheRules
  BY <1>4 DEF Listed, Candidates, NativeBegins, ChatBegins
<1>5. ASSUME NEW c \in Calls, AllLost(c) PROVE SelectedByTheRules
  BY <1>5 DEF AllLost
<1>6. ASSUME NEW c \in Calls, Check(c) PROVE SelectedByTheRules
  BY <1>6 DEF Check, StillThere, Candidates
<1>7. ASSUME NEW c \in Calls, NotChecked(c) PROVE SelectedByTheRules
  BY <1>7 DEF NotChecked
<1>8. ASSUME NEW c \in Calls, Proceed(c) PROVE SelectedByTheRules
  BY <1>8 DEF Proceed
<1>9. ASSUME NEW c \in Calls, NativeListed(c) PROVE SelectedByTheRules
  BY <1>9 DEF NativeListed, Becomes
<1>10. ASSUME NEW c \in Calls, NEW h \in Channels, NEW costs \in BOOLEAN, Loses(c, h,
              costs)
       PROVE  SelectedByTheRules
  BY <1>10 DEF Loses, Becomes, Counts
<1>11. ASSUME NEW c \in Calls, NEW h \in Channels, NEW costs \in BOOLEAN, NEW k \in Kinds, NEW m \in Rows, Wins(c, h, k, m,
              costs)
       PROVE  SelectedByTheRules
  BY <1>11 DEF Wins, Becomes, Counts, Resolves
<1>12. ASSUME NEW c \in Calls, ToolResult(c) PROVE SelectedByTheRules
  BY <1>12 DEF ToolResult, Decorates, Forgotten
<1>13. ASSUME NEW c \in Calls, MessageEnd(c) PROVE SelectedByTheRules
  BY <1>13 DEF MessageEnd, Decorates, Forgotten
<1>14. ASSUME NEW c \in Calls, CallerAborts(c) PROVE SelectedByTheRules
  BY <1>14 DEF CallerAborts
<1>15. ASSUME NEW c \in Calls, Timeout(c) PROVE SelectedByTheRules
  BY <1>15 DEF Timeout
<1>16. CASE AgentEnd
  BY <1>16 DEF AgentEnd, Clear
<1>17. CASE Session
  BY <1>17 DEF Session, Clear
<1>18. CASE CatalogueChanges
  BY <1>18 DEF CatalogueChanges
<1>19. CASE UNCHANGED vars
  BY <1>19 DEF vars
<1> HIDE DEF TypeOK, RaceInv, SelectedByTheRules, events, stops, choice, money, Goto, NoDecision
<1> QED
  BY <1>1, <1>2, <1>3, <1>4, <1>5, <1>6, <1>7, <1>8, <1>9, <1>10, <1>11, <1>12, <1>13, <1>14, <1>15, <1>16, <1>17, <1>18, <1>19 DEF Next, Selects, Answers

\* A session starts with no call.
LEMMA InitSelection == Init => SelectionInv
<1> SUFFICES ASSUME Init PROVE SelectionInv
  OBVIOUS
<1> USE NamesAssumption DEF Init, NoDecision
<1>1. TypeOK
  <2>1. NoDecision \in [model : Rows \union {None}, kind : Kinds \union {"none"}]
    OBVIOUS
  <2> QED BY <2>1 DEF TypeOK
<1>2. OnlyRealErrors
  BY DEF OnlyRealErrors
<1>3. AttemptInv
  BY DEF AttemptInv, HasResult, Owed
<1>4. RaceInv
  BY DEF RaceInv
<1> QED BY <1>1, <1>2, <1>3, <1>4 DEF SelectionInv

-----------------------------------------------------------------------------

\* The inductive invariant.
THEOREM SelectionInvariant == Spec => []SelectionInv
<1>1. SelectionInv /\ [Next]_vars => SelectionInv'
  BY TypeStep, ErrorStep, AttemptStep, RaceStep DEF SelectionInv
<1> QED BY InitSelection, <1>1, PTL DEF Spec

\* A reported channel failed by itself; a usage that was known when the result of its call
\* was decorated is booked exactly once, unless its agent run ended first, and one that
\* came later is not booked at all (index.ts:178, 222-253).
THEOREM AccountsAreTrue == Spec => []AccountInv
<1>1. SelectionInv => AccountInv
  BY DEF SelectionInv, AttemptInv, AccountInv, UsageIsBookedOnce
<1> QED BY SelectionInvariant, <1>1, PTL

\* No Agent and no request that costs is begun for a call that nobody waits for.
THEOREM NothingIsInVain == Spec => NothingInVain
<1>1. SelectionInv /\ [Next]_vars => [BegunForACause]_vars
  BY CauseStep DEF SelectionInv
<1> QED BY SelectionInvariant, <1>1, PTL DEF Spec, NothingInVain

\* The model was a candidate before and after the race, and Astra reviews designs.
THEOREM ChoiceFollowsTheRules == Spec => ChosenByTheRules
<1>1. SelectionInv /\ [Next]_vars => [SelectedByTheRules]_vars
  BY RuleStep DEF SelectionInv
<1> QED BY SelectionInvariant, <1>1, PTL DEF Spec, ChosenByTheRules
=============================================================================
