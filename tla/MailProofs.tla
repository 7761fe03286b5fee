------------------------------- MODULE MailProofs -------------------------------
(***************************************************************************)
(* What the mail reader and the mail mutations promise, for any calls,     *)
(* accounts, keys and mails: MailSession, MailMutation and BodyPage.       *)
(*                                                                         *)
(* The sessions. The properties are of a line, a cache and files that      *)
(* others use too, so none is inductive. SessionInv says what a call in    *)
(* the middle of its work relies on: that it is the first of its queue     *)
(* (LineFits), which parts and which file it is at (KindFits, FileFits),   *)
(* that what a call with refresh has still to ask for is not in the cache  *)
(* (FreshFits: only the call on the line of an account puts parts of this  *)
(* account into it), that what is being read was asked for when the        *)
(* mailbox was as it is (AskedFits), that nothing of an account is cached  *)
(* while commands of its mutation are under way (ClearedFits), and so that *)
(* entries are of the present (EntriesFit).                                *)
(*                                                                         *)
(* The line of an account implements SerialLine. A step of the line tells  *)
(* by the queue alone who joins, enters and leaves, so the queue must hold *)
(* exactly the unsettled calls, each once (QueueIsExact); that no step of  *)
(* the session breaks it is shown of the few kinds of moves that all steps *)
(* are (LineMove).                                                         *)
(*                                                                         *)
(* The cache. That it counts what it holds is an invariant of sums over    *)
(* sets of entries (Counted), and that evicting ends within the limit      *)
(* needs that the order of use is an order (Ordered): of the entries that  *)
(* are left one was used before the others, and had it to go, so did those *)
(* before it.                                                              *)
(*                                                                         *)
(* A batch. That the report is true at the end follows from what is true   *)
(* of every mail and every step at each place: a change that was not sent  *)
(* yet has had no effect, one that was sent has had its own effect or none *)
(* (MailFits), and a status is true unless it is still to be looked up     *)
(* (StepFits, Open). The flags of a plan's changes differ (PlanOK): with   *)
(* equal ones a later change would undo an earlier one that is reported as *)
(* a success.                                                              *)
(*                                                                         *)
(* Induction. The induction theorems of the library take an operator as a  *)
(* parameter, which no prover here instantiates. What would be a bad case  *)
(* is made a set instead, and its smallest element refuted (Smallest).     *)
(***************************************************************************)
EXTENDS MailSession, MailMutation, BodyPage, FiniteSetTheorems, SequenceTheorems, TLAPS

\* A set of numbers has a smallest one.
LEMMA Smallest ==
  ASSUME NEW T \in SUBSET Nat, T # {}
  PROVE  \E n \in T : \A m \in T : n <= m
<1> DEFINE Less == {p \in Nat \X Nat : p[1] < p[2]}
<1>1. IsWellFoundedOn(Less, Nat)
  BY NatLessThanWellFounded DEF OpToRel
<1>2. \A m, n \in Nat : m < n => <<m, n>> \in Less
  OBVIOUS
<1> HIDE DEF Less
<1>3. PICK n \in T : \A m \in T : ~(<<m, n>> \in Less)
  BY <1>1, WFMin
<1>4. \A m \in T : n <= m
  <2> TAKE m \in T
  <2>1. m \in Nat /\ n \in Nat /\ ~(m < n)
    BY <1>2, <1>3
  <2> QED BY <2>1
<1> QED BY <1>4

---------------------------------------------------------------------------------
(* Pages of a text *)

\* Two neighbouring places are not both within a pair: a unit is not both halves
\* (body.ts:171-173).
LEMMA PairsAreApart ==
  ASSUME NEW text \in Seq(Units), NEW place \in Nat, SplitsPair(text, place)
  PROVE  ~SplitsPair(text, place + 1) /\ ~SplitsPair(text, place - 1)
  BY DEF SplitsPair

\* The beginning of a page is a place of the text, and no pair is cut there
\* (body.ts:174-175).
LEMMA StartIsWhole ==
  ASSUME NEW text \in Seq(Units), NEW offset \in Nat
  PROVE  /\ PageStart(text, offset) \in 0..Len(text)
         /\ ~SplitsPair(text, PageStart(text, offset))
         /\ PageStart(text, offset) <= offset
<1> DEFINE start == AtMost(offset, Len(text))
<1>1. start \in 0..Len(text) /\ start <= offset
  BY DEF AtMost
<1>2. CASE SplitsPair(text, start)
  <2>1. start > 0 /\ ~SplitsPair(text, start - 1)
    BY <1>1, <1>2, PairsAreApart DEF SplitsPair
  <2> QED BY <1>1, <1>2, <2>1 DEF PageStart
<1>3. CASE ~SplitsPair(text, start)
  BY <1>1, <1>3 DEF PageStart
<1> QED BY <1>2, <1>3

\* A page cuts no pair and moves on: it is empty only at the end of the text, and has no
\* more units than asked for, but for a pair where a single unit was asked for
\* (body.ts:170-179).
THEOREM PageIsWhole ==
  ASSUME NEW text \in Seq(Units), NEW offset \in Nat, NEW maxChars \in Nat \ {0}
  PROVE  LET start == PageStart(text, offset)
             end   == PageEnd(text, offset, maxChars)
         IN /\ end \in start..Len(text)
            /\ ~SplitsPair(text, end)
            /\ end = start => end = Len(text)
            /\ end - start <= maxChars \/ (maxChars = 1 /\ end - start = 2)
<1> DEFINE start == PageStart(text, offset)
           last  == AtMost(Len(text), start + maxChars)
           end   == PageEnd(text, offset, maxChars)
<1>1. start \in 0..Len(text) /\ ~SplitsPair(text, start)
  BY StartIsWhole
<1> HIDE DEF start
<1>2. last \in start..Len(text) /\ last - start <= maxChars /\ (last = start => last = Len(text))
  BY <1>1 DEF AtMost
<1>3. end = IF ~SplitsPair(text, last) THEN last ELSE IF last - start = 1 THEN last + 1
          ELSE last - 1
  BY DEF PageEnd, start
<1> HIDE DEF last, end
<1>4. CASE ~SplitsPair(text, last)
  BY <1>1, <1>2, <1>3, <1>4 DEF start, end
<1>5. CASE SplitsPair(text, last)
  <2>1. last \in Nat /\ last > 0 /\ last < Len(text) /\ last # start
    BY <1>1, <1>2, <1>5 DEF SplitsPair
  <2>2. ~SplitsPair(text, last + 1) /\ ~SplitsPair(text, last - 1)
    BY <1>5, <2>1, PairsAreApart
  <2>3. CASE last - start = 1
    <3>1. end = last + 1
      BY <1>3, <1>5, <2>3
    <3> QED BY <1>1, <1>2, <2>1, <2>2, <2>3, <3>1 DEF start, end
  <2>4. CASE last - start # 1
    <3>1. end = last - 1
      BY <1>3, <1>5, <2>4
    <3> QED BY <1>1, <1>2, <2>1, <2>2, <2>4, <3>1 DEF start, end
  <2> QED BY <2>3, <2>4
<1> QED BY <1>4, <1>5

\* The page at nextOffset begins exactly where the last one ended (body.ts:133-139).
THEOREM PagesJoin ==
  ASSUME NEW text \in Seq(Units), NEW offset \in Nat, NEW maxChars \in Nat \ {0}
  PROVE  PageStart(text, PageEnd(text, offset, maxChars)) = PageEnd(text, offset, maxChars)
<1> DEFINE end == PageEnd(text, offset, maxChars)
<1>1. end \in 0..Len(text) /\ ~SplitsPair(text, end)
  <2>1. end \in PageStart(text, offset)..Len(text) /\ ~SplitsPair(text, end)
    BY PageIsWhole
  <2>2. PageStart(text, offset) \in 0..Len(text)
    BY StartIsWhole
  <2> QED BY <2>1, <2>2
<1> HIDE DEF end
<1>2. AtMost(end, Len(text)) = end
  BY <1>1 DEF AtMost
<1>3. PageStart(text, end) = end
  BY <1>1, <1>2 DEF PageStart
<1> QED BY <1>3 DEF end

\* Two pages that join are one piece of the text.
LEMMA PiecesJoin ==
  ASSUME NEW text \in Seq(Units), NEW first \in Nat, NEW last \in Nat, first <= last,
         last <= Len(text)
  PROVE  SubSeq(text, first + 1, last) \o SubSeq(text, last + 1, Len(text))
           = SubSeq(text, first + 1, Len(text))
<1> DEFINE p == SubSeq(text, first + 1, last)
           q == SubSeq(text, last + 1, Len(text))
           r == SubSeq(text, first + 1, Len(text))
<1>0. Len(text) \in Nat /\ \A i \in 1..Len(text) : text[i] \in Units
  BY LenProperties, ElementOfSeq
<1>1. /\ p \in Seq(Units) /\ Len(p) = last - first
      /\ \A i \in 1..(last - first) : p[i] = text[first + i]
  <2>1. \A i \in (first + 1)..last : text[i] \in Units BY <1>0
  <2>2. /\ p \in Seq(Units) /\ Len(p) = IF first + 1 <= last THEN last - (first + 1) + 1 ELSE 0
        /\ \A i \in 1..(last - (first + 1) + 1) : p[i] = text[first + 1 + i - 1]
    BY <2>1, SubSeqProperties
  <2> HIDE DEF p
  <2> QED BY <2>2
<1>2. /\ q \in Seq(Units) /\ Len(q) = Len(text) - last
      /\ \A i \in 1..(Len(text) - last) : q[i] = text[last + i]
  <2>1. \A i \in (last + 1)..Len(text) : text[i] \in Units BY <1>0
  <2>2. /\ q \in Seq(Units) /\ Len(q) = IF last + 1 <= Len(text) THEN Len(text) - (last + 1) + 1
              ELSE 0
        /\ \A i \in 1..(Len(text) - (last + 1) + 1) : q[i] = text[last + 1 + i - 1]
    BY <1>0, <2>1, SubSeqProperties
  <2> HIDE DEF q
  <2> QED BY <1>0, <2>2
<1>3. /\ r \in Seq(Units) /\ Len(r) = Len(text) - first
      /\ \A i \in 1..(Len(text) - first) : r[i] = text[first + i]
  <2>1. \A i \in (first + 1)..Len(text) : text[i] \in Units BY <1>0
  <2>2. /\ r \in Seq(Units) /\ Len(r) = IF first + 1 <= Len(text) THEN Len(text) - (first + 1) + 1
              ELSE 0
        /\ \A i \in 1..(Len(text) - (first + 1) + 1) : r[i] = text[first + 1 + i - 1]
    BY <1>0, <2>1, SubSeqProperties
  <2> HIDE DEF r
  <2> QED BY <1>0, <2>2
<1> HIDE DEF p, q, r
<1>4. /\ p \o q \in Seq(Units) /\ Len(p \o q) = Len(p) + Len(q)
      /\ \A i \in 1..(Len(p) + Len(q)) : (p \o q)[i] = IF i <= Len(p) THEN p[i] ELSE q[i - Len(p)]
  BY <1>1, <1>2, ConcatProperties
<1>5. Len(p \o q) = Len(r) BY <1>0, <1>1, <1>2, <1>3, <1>4
<1>6. ASSUME NEW i \in 1..Len(p \o q) PROVE (p \o q)[i] = r[i]
  <2>1. i \in 1..(Len(text) - first) BY <1>0, <1>1, <1>2, <1>4
  <2>2. CASE i <= last - first BY <1>1, <1>2, <1>3, <1>4, <1>0, <2>1, <2>2
  <2>3. CASE i > last - first
    <3>1. i - (last - first) \in 1..(Len(text) - last) BY <1>0, <2>1, <2>3
    <3>2. (p \o q)[i] = q[i - (last - first)] BY <1>0, <1>1, <1>2, <1>4, <2>1, <2>3
    <3>3. q[i - (last - first)] = text[last + (i - (last - first))] BY <1>2, <3>1
    <3>4. last + (i - (last - first)) = first + i BY <2>1
    <3> QED BY <1>3, <2>1, <3>2, <3>3, <3>4
  <2> QED BY <1>0, <2>1, <2>2, <2>3
<1>7. p \o q = r BY <1>3, <1>4, <1>5, <1>6, SeqEqual
<1> QED BY <1>7 DEF p, q, r

\* Each page but the last moves on.
LEMMA PagesMoveOn ==
  ASSUME NEW text \in Seq(Units), NEW offset \in 0..Len(text), NEW maxChars \in Nat \ {0},
         PageEnd(text, offset, maxChars) # Len(text)
  PROVE  PageEnd(text, offset, maxChars) > offset
<1> DEFINE start == PageStart(text, offset)
           end   == PageEnd(text, offset, maxChars)
<1>0. Len(text) \in Nat BY LenProperties
<1>1. end \in start..Len(text) /\ ~SplitsPair(text, end) /\ end # start
  BY PageIsWhole
<1>2. start = IF SplitsPair(text, offset) THEN offset - 1 ELSE offset
  BY <1>0 DEF PageStart, AtMost
<1> HIDE DEF start, end
<1>3. end > offset
  BY <1>0, <1>1, <1>2
<1> QED BY <1>3 DEF end

\* Whoever follows nextOffset from any offset on reads all of the rest, each unit once
\* (body.ts:133-139).
THEOREM PagesAreTheRest ==
  ASSUME NEW text \in Seq(Units), NEW offset \in 0..Len(text), NEW maxChars \in Nat \ {0}
  PROVE  FromOffset(text, offset, maxChars) = SubSeq(text, PageStart(text, offset) + 1, Len(text))
<1> DEFINE end(o)     == PageEnd(text, o, maxChars)
           rest(o)    == SubSeq(text, PageStart(text, o) + 1, Len(text))
           page(o)    == SubSeq(text, PageStart(text, o) + 1, end(o))
           Reads(f)   == f = [o \in 0..Len(text) |->
                                page(o) \o (IF end(o) = Len(text) THEN <<>> ELSE f[end(o)])]
<1>0. Len(text) \in Nat BY LenProperties
<1>1. FromOffset(text, offset, maxChars) = (CHOOSE f : Reads(f))[offset]
  BY DEF FromOffset
<1>2. \A o \in 0..Len(text) :
        /\ end(o) \in 0..Len(text) /\ PageStart(text, end(o)) = end(o)
        /\ end(o) # Len(text) => end(o) > o
        /\ page(o) \o (IF end(o) = Len(text) THEN <<>> ELSE rest(end(o))) = rest(o)
  <2> TAKE o \in 0..Len(text)
  <2> DEFINE e == end(o)
             s == PageStart(text, o)
  <2>1. o \in Nat /\ s \in 0..Len(text) BY <1>0, StartIsWhole
  <2>2. e \in s..Len(text) BY <2>1, PageIsWhole
  <2>3. PageStart(text, e) = e BY <2>1, PagesJoin
  <2>4. e # Len(text) => e > o BY PagesMoveOn
  <2>5. page(o) \o (IF e = Len(text) THEN <<>> ELSE rest(e)) = rest(o)
    <3>1. s \in Nat /\ e \in Nat /\ s <= e /\ e <= Len(text) BY <1>0, <2>1, <2>2
    <3>2. page(o) \o SubSeq(text, e + 1, Len(text)) = rest(o)
      <4> HIDE DEF e, s
      <4>1. SubSeq(text, s + 1, e) \o SubSeq(text, e + 1, Len(text)) = SubSeq(text, s + 1,
                Len(text))
        BY <3>1, PiecesJoin
      <4> QED BY <4>1 DEF e, s
    <3>3. e = Len(text) => SubSeq(text, e + 1, Len(text)) = <<>>
      <4> HIDE DEF e
      <4> QED BY <1>0, SubSeqEmpty
    <3>4. rest(e) = SubSeq(text, e + 1, Len(text)) BY <2>3
    <3> HIDE DEF e, page, rest
    <3> QED BY <3>2, <3>3, <3>4
  <2>6. e \in 0..Len(text) BY <1>0, <2>1, <2>2
  <2> QED BY <2>3, <2>4, <2>5, <2>6
<1> HIDE DEF end, rest, page
<1>3. \E f : Reads(f)
  <2> DEFINE g == [o \in 0..Len(text) |-> rest(o)]
  <2>1. Reads(g) BY <1>2
  <2> QED BY <2>1
<1>4. ASSUME NEW f, Reads(f) PROVE f[offset] = rest(offset)
  <2> SUFFICES ASSUME f[offset] # rest(offset) PROVE FALSE OBVIOUS
  <2> DEFINE Wrong == {n \in 0..Len(text) : f[Len(text) - n] # rest(Len(text) - n)}
  <2>1. Len(text) - offset \in Wrong
    <3>1. Len(text) - offset \in 0..Len(text) /\ Len(text) - (Len(text) - offset) = offset BY <1>0
    <3> QED BY <3>1
  <2>2. Wrong \in SUBSET Nat OBVIOUS
  <2>3. PICK n \in Wrong : \A m \in Wrong : n <= m
    <3> HIDE DEF Wrong
    <3> QED BY <2>1, <2>2, Smallest
  <2> DEFINE o == Len(text) - n
             e == end(o)
  <2>4. n \in 0..Len(text) /\ o \in 0..Len(text) /\ f[o] # rest(o) BY <1>0
  <2>5. f[o] = page(o) \o (IF e = Len(text) THEN <<>> ELSE f[e]) BY <1>4, <2>4
  <2>6. e # Len(text) /\ e \in 0..Len(text) /\ e > o /\ f[e] # rest(e) BY <1>2, <2>4, <2>5
  <2>7. Len(text) - e \in 0..Len(text) /\ Len(text) - (Len(text) - e) = e /\ Len(text) - e < n
    <3> HIDE DEF e
    <3> QED BY <1>0, <2>4, <2>6
  <2>8. Len(text) - e \in Wrong
    <3> HIDE DEF e
    <3> QED BY <2>6, <2>7
  <2>9. n <= Len(text) - e
    <3> HIDE DEF Wrong, e
    <3> QED BY <2>3, <2>8
  <2> HIDE DEF e
  <2> QED BY <1>0, <2>4, <2>6, <2>7, <2>9
<1> DEFINE f == CHOOSE f : Reads(f)
<1>5. Reads(f) BY <1>3
<1>6. f[offset] = rest(offset)
  <2> HIDE DEF f, Reads
  <2> QED BY <1>4, <1>5
<1> QED BY <1>1, <1>6 DEF rest

---------------------------------------------------------------------------------
(* The sessions: the inductive invariant *)

\* Where a call may be.
Calls == {"new", "queued", "ok", "error", "empty", "unreadable"} \union Active

\* At these places a call has its part, and those after it, still to ask for.
Asking == {"choosing", "reading", "structure"}

\* The cache and its entries are records; keys and numbers do not matter here.
IsEntry(e)  ==
  e \in [bytes : {e.bytes}, text : {e.text}, old : {e.old}, epoch : {e.epoch}, later : {e.later}]
IsRecord(c) == c \in [entries : {c.entries}, used : {c.used}, on : {c.on}]
IsCache(c)  == IsRecord(c) /\ \A k \in Held(c) : IsEntry(c.entries[k])

\* Every variable is of its type.
SessionTyped ==
  /\ queue \in [Accounts -> Seq(Reqs)]
  /\ pc \in [Reqs -> Calls] /\ at \in [Reqs -> Nat]
  /\ file \in [Reqs -> {"absent", "partial", "whole", "left", "foreign"}] /\ epoch \in [Accounts -> Nat]
  /\ asked \in [Reqs -> Nat]
  /\ IsCache(cache)

\* Who is on the line is the first of the queue, and no timer runs.
LineFits(r) == pc[r] \in Active => Head1(r) /\ Account[r] \notin timer

\* Only what its kind does.
KindFits(r) ==
  /\ pc[r] \in {"choosing", "reading"} => Kind[r] = "read"
  /\ pc[r] \in {"structure", "opening", "downloading", "closing"} => Kind[r] = "attachment"
  /\ pc[r] \in {"writing", "storing"} => Kind[r] = "write"
  /\ Kind[r] # "write" => at[r] \in 1..Len(Parts[r])

\* The file is where the call is.
FileFits(r) ==
  /\ r \in foreign <=> file[r] = "foreign"
  /\ file[r] = "partial" <=> pc[r] = "downloading"
  /\ file[r] = "whole" <=> pc[r] = "closing" \/ (pc[r] = "ok" /\ Kind[r] = "attachment")

\* What a call with refresh has still to ask for is not in the cache.
FreshFits(r) ==
  r \in Refresh /\ pc[r] \in Asking
      => \A j \in at[r]..Len(Parts[r]) : Parts[r][j] \notin Held(cache)

\* What a call is reading it asked for when the mailbox was already as it is.
AskedFits(r) == pc[r] \in {"reading", "downloading"} => asked[r] = epoch[Account[r]]

\* While commands are under way the cache has nothing of their account.
ClearedFits(r) ==
  pc[r] = "storing" =>
    \A k \in Held(cache), q \in Reqs : k \in Range(Parts[q]) => Account[q] # Account[r]

\* What is in the cache was asked for after the last change.
EntriesFit(r) ==
  \A k \in Held(cache) : k \in Range(Parts[r]) => cache.entries[k].epoch = epoch[Account[r]]

\* The mail is told to be empty only if every part of it was.
EmptyFits(r) == pc[r] = "empty" => r \notin bad

\* The inductive invariant of the sessions.
SessionInv ==
  /\ SessionTyped
  /\ \A r \in Reqs : /\ LineFits(r) /\ KindFits(r) /\ FileFits(r)
                    /\ FreshFits(r) /\ EntriesFit(r) /\ EmptyFits(r)
                    /\ AskedFits(r) /\ ClearedFits(r)

---------------------------------------------------------------------------------
(* What the operations of the cache leave in it *)

\* d has no entry that c does not have.
Within(d, c) == \A k \in Held(d) : k \in Held(c) /\ d.entries[k].epoch = c.entries[k].epoch

\* Of the entries only their order of use changes.
LEMMA KeptEntries ==
  ASSUME NEW c, IsCache(c), NEW ks \in SUBSET Held(c), NEW d, IsRecord(d), d.entries = Kept(c, ks)
  PROVE  IsCache(d) /\ Held(d) = ks /\ Within(d, c)
<1>1. Held(d) = ks BY DEF Held, Kept
<1>2. ASSUME NEW k \in ks
      PROVE  IsEntry(d.entries[k]) /\ d.entries[k].epoch = c.entries[k].epoch
  <2>1. d.entries[k] = [c.entries[k] EXCEPT !.later = @ \intersect ks] BY DEF Kept
  <2>2. IsEntry(c.entries[k]) BY DEF IsCache
  <2> DEFINE e == c.entries[k]
             later == e.later \intersect ks
  <2> HIDE DEF e, later
  <2>3. IsEntry([e EXCEPT !.later = later]) /\ [e EXCEPT !.later = later].epoch = e.epoch
    BY <2>2 DEF IsEntry, e
  <2> QED BY <2>1, <2>3 DEF e, later
<1> QED BY <1>1, <1>2 DEF IsCache, Within

\* Of the other keys the entries stay.
LEMMA WithoutEntries ==
  ASSUME NEW c, IsCache(c), NEW ks
  PROVE  LET d == Without(c, ks) IN
         IsCache(d) /\ d.on = c.on /\ Held(d) = Held(c) \ ks /\ Within(d, c)
<1> DEFINE d       == Without(c, ks)
           entries == Kept(c, Held(c) \ ks)
           used    == c.used - Bytes(c, Held(c) \intersect ks)
<1>1. d = [c EXCEPT !.entries = entries, !.used = used]
  BY DEF Without
<1> HIDE DEF d, entries, used
<1>2. IsRecord(d) /\ d.entries = entries /\ d.on = c.on
  BY <1>1 DEF IsCache, IsRecord
<1>3. d.entries = Kept(c, Held(c) \ ks) BY <1>2 DEF entries
<1>4. Held(c) \ ks \in SUBSET Held(c) OBVIOUS
<1>5. IsCache(d) /\ Held(d) = Held(c) \ ks /\ Within(d, c)
  BY <1>2, <1>3, <1>4, KeptEntries
<1> QED BY <1>2, <1>5 DEF d

\* The entry becomes the most recently used, the others stay.
LEMMA LatestEntries ==
  ASSUME NEW c, IsCache(c), NEW k, NEW entry, IsEntry(entry),
         NEW d, IsRecord(d), d.entries = Latest(c, k, entry)
  PROVE  /\ IsCache(d) /\ Held(d) = Held(c) \union {k}
         /\ d.entries[k].epoch = entry.epoch
         /\ \A j \in Held(c) : j # k => d.entries[j].epoch = c.entries[j].epoch
<1>1. Held(d) = Held(c) \union {k} BY DEF Held, Latest
<1>2. IsEntry(d.entries[k]) /\ d.entries[k].epoch = entry.epoch
  <2>1. d.entries[k] = [entry EXCEPT !.later = {}] BY DEF Latest
  <2> QED BY <2>1 DEF IsEntry
<1>3. ASSUME NEW j \in Held(c), j # k
      PROVE  IsEntry(d.entries[j]) /\ d.entries[j].epoch = c.entries[j].epoch
  <2>1. d.entries[j] = [c.entries[j] EXCEPT !.later = @ \union {k}] BY <1>3 DEF Latest
  <2>2. IsEntry(c.entries[j]) BY DEF IsCache
  <2> DEFINE e == c.entries[j]
             later == e.later \union {k}
  <2> HIDE DEF e, later
  <2>3. IsEntry([e EXCEPT !.later = later]) /\ [e EXCEPT !.later = later].epoch = e.epoch
    BY <2>2 DEF IsEntry, e
  <2> QED BY <2>1, <2>3 DEF e, later
<1>4. \A j \in Held(d) : IsEntry(d.entries[j]) BY <1>1, <1>2, <1>3
<1> QED BY <1>1, <1>2, <1>3, <1>4 DEF IsCache

\* A lookup puts nothing into the cache.
LEMMA GotEntries ==
  ASSUME NEW c, IsCache(c), NEW k
  PROVE  IsCache(Got(c, k)) /\ Within(Got(c, k), c)
<1>1. CASE Live(c, k)
  <2>1. k \in Held(c) /\ IsEntry(c.entries[k]) BY <1>1 DEF Live, IsCache
  <2> DEFINE d       == Got(c, k)
             entries == Latest(c, k, c.entries[k])
  <2>2. d = [c EXCEPT !.entries = entries] BY <1>1 DEF Got
  <2> HIDE DEF d, entries
  <2>3. IsRecord(d) /\ d.entries = entries BY <2>2 DEF IsCache, IsRecord
  <2>4. d.entries = Latest(c, k, c.entries[k]) BY <2>3 DEF entries
  <2>5. /\ IsCache(d) /\ Held(d) = Held(c) \union {k} /\ d.entries[k].epoch = c.entries[k].epoch
        /\ \A j \in Held(c) : j # k => d.entries[j].epoch = c.entries[j].epoch
    BY <2>1, <2>3, <2>4, LatestEntries
  <2> QED BY <2>1, <2>5 DEF Within, d
<1>2. CASE ~Live(c, k)
  BY <1>2, WithoutEntries DEF Got
<1> QED BY <1>1, <1>2

\* Whatever is swept or evicted, all that comes in is the new entry.
LEMMA PutEntries ==
  ASSUME NEW c, IsCache(c), NEW k, NEW content, NEW when
  PROVE  LET d == Put(c, k, content, when) IN
         /\ IsCache(d)
         /\ \A j \in Held(d) : \/ j \in Held(c) /\ d.entries[j].epoch = c.entries[j].epoch
                               \/ j = k /\ d.entries[j].epoch = when
<1> DEFINE bytes == content.bytes
           rest  == Without(c, {k})
           swept == IF rest.used + bytes > MaxBytes THEN Swept(rest) ELSE rest
           room  == Evicted(swept, bytes)
           entry == [bytes |-> bytes, text |-> content.text, old |-> FALSE, epoch |-> when,
               later |-> {}]
           full  == [room EXCEPT !.entries = Latest(room, k, entry), !.used = room.used + bytes]
           d     == Put(c, k, content, when)
<1>1. IsCache(rest) /\ Within(rest, c) BY WithoutEntries
<1>2. IsCache(swept) /\ Within(swept, rest)
  <2>1. IsCache(Swept(rest)) /\ Within(Swept(rest), rest) BY <1>1, WithoutEntries DEF Swept
  <2>2. Within(rest, rest) BY DEF Within
  <2> HIDE DEF rest
  <2> QED BY <1>1, <2>1, <2>2
<1>3. IsCache(room) /\ Within(room, swept)
  <2> HIDE DEF swept
  <2> QED BY <1>2, WithoutEntries DEF Evicted
<1>4. Within(room, c)
  <2> HIDE DEF room, swept, rest
  <2> QED BY <1>1, <1>2, <1>3 DEF Within
<1>5. IsEntry(entry) /\ entry.epoch = when BY DEF IsEntry
<1>6. /\ IsCache(full) /\ Held(full) = Held(room) \union {k}
      /\ full.entries[k].epoch = when
      /\ \A j \in Held(room) : j # k => full.entries[j].epoch = room.entries[j].epoch
  <2> DEFINE entries == Latest(room, k, entry)
             used    == room.used + bytes
  <2> HIDE DEF room, entry, entries, used
  <2>1. full = [room EXCEPT !.entries = entries, !.used = used] BY DEF entries, used
  <2> HIDE DEF full
  <2>2. IsRecord(full) /\ full.entries = entries BY <1>3, <2>1 DEF IsCache, IsRecord
  <2>3. full.entries = Latest(room, k, entry) BY <2>2 DEF entries
  <2> QED BY <1>3, <1>5, <2>2, <2>3, LatestEntries
<1>7. d = IF ~c.on THEN c ELSE IF bytes > MaxEntryBytes \/ bytes > MaxBytes THEN rest ELSE full
  BY DEF Put
<1> HIDE DEF full, room, rest, d
<1> QED BY <1>1, <1>4, <1>6, <1>7 DEF Within, d

---------------------------------------------------------------------------------
(* One call goes on *)

\* Two calls on the line of one account are the same.
LEMMA OneIsFirst ==
  ASSUME SessionInv, NEW r \in Reqs, NEW q \in Reqs, pc[r] \in Active, pc[q] \in Active,
         Account[q] = Account[r]
  PROVE  q = r
  BY DEF SessionInv, LineFits, Head1

\* What may become of the queue and the timer when r goes to p.
QueueStep(r, p) ==
  \/ /\ UNCHANGED queue /\ timer' \subseteq timer
     /\ p \in Active => pc[r] \in Active \/ (Head1(r) /\ Account[r] \notin timer')
  \/ /\ queue' = [queue EXCEPT ![Account[r]] = Tail(@)]
     /\ pc[r] \in Active \/ (pc[r] = "queued" /\ Head1(r))
     /\ timer' \subseteq timer \union {Account[r]}
     /\ p \notin Active
  \/ /\ queue' = [queue EXCEPT ![Account[r]] = Append(@, r)] /\ timer' \subseteq timer
     /\ p \notin Active

\* However the queue moves, who is on the line is its first.
LEMMA LineStep ==
  ASSUME SessionInv, NEW r \in Reqs, NEW p, QueueStep(r, p), pc' = [pc EXCEPT ![r] = p]
  PROVE  /\ queue' \in [Accounts -> Seq(Reqs)]
         /\ \A q \in Reqs : LineFits(q)'
<1>1. /\ queue \in [Accounts -> Seq(Reqs)] /\ Account[r] \in Accounts
      /\ \A q \in Reqs : Account[q] \in Accounts /\ pc'[q] = IF q = r THEN p ELSE pc[q]
  BY ShapeAssumption DEF SessionInv, SessionTyped
<1>2. CASE UNCHANGED queue /\ timer' \subseteq timer
           /\ (p \in Active => pc[r] \in Active \/ (Head1(r) /\ Account[r] \notin timer'))
  BY <1>1, <1>2 DEF SessionInv, LineFits, Head1
<1>3. CASE /\ queue' = [queue EXCEPT ![Account[r]] = Tail(@)]
           /\ pc[r] \in Active \/ (pc[r] = "queued" /\ Head1(r))
           /\ timer' \subseteq timer \union {Account[r]}
           /\ p \notin Active
  <2>1. Head1(r) BY <1>3 DEF SessionInv, LineFits
  <2>2. queue[Account[r]] # <<>> /\ queue[Account[r]] \in Seq(Reqs) BY <1>1, <2>1 DEF Head1
  <2>3. queue' \in [Accounts -> Seq(Reqs)] BY <1>1, <1>3, <2>2
  <2>4. ASSUME NEW q \in Reqs, pc'[q] \in Active
        PROVE  Account[q] # Account[r] /\ q # r /\ pc[q] \in Active
    BY <1>1, <1>3, <2>1, <2>4 DEF SessionInv, LineFits, Head1
  <2>5. ASSUME NEW q \in Reqs PROVE LineFits(q)'
    BY <1>1, <1>3, <2>4 DEF SessionInv, LineFits, Head1
  <2> QED BY <2>3, <2>5
<1>4. CASE /\ queue' = [queue EXCEPT ![Account[r]] = Append(@, r)] /\ timer' \subseteq timer
           /\ p \notin Active
  <2>1. queue' \in [Accounts -> Seq(Reqs)] BY <1>1, <1>4
  <2>2. ASSUME NEW q \in Reqs, pc'[q] \in Active PROVE LineFits(q)'
    <3>1. pc[q] \in Active /\ Head1(q) /\ Account[q] \notin timer'
            /\ queue[Account[q]] \in Seq(Reqs)
      BY <1>1, <1>4, <2>2 DEF SessionInv, LineFits
    <3>2. queue'[Account[q]] = queue[Account[q]] \/ queue'[Account[q]] = Append(queue[Account[q]],
              r)
      BY <1>1, <1>4
    <3>3. queue'[Account[q]] # <<>> /\ Head(queue'[Account[q]]) = Head(queue[Account[q]])
      BY <3>1, <3>2 DEF Head1
    <3> QED BY <3>1, <3>3 DEF LineFits, Head1
  <2>3. \A q \in Reqs : LineFits(q)' BY <2>2 DEF LineFits
  <2> QED BY <2>1, <2>3
<1> QED BY <1>2, <1>3, <1>4 DEF QueueStep

\* What may become of the cache: nothing comes in but what r has just read.
CacheStep(r) ==
  /\ IsCache(cache')
  /\ \A k \in Held(cache') :
       \/ k \in Held(cache) /\ cache'.entries[k].epoch = cache.entries[k].epoch
       \/ /\ k \in Range(Parts[r]) /\ pc[r] \in {"reading", "downloading"}
          /\ cache'.entries[k].epoch = asked[r]
  /\ epoch' = epoch

\* What r may ask for when it goes to p.
AskStep(r, p) ==
  \/ UNCHANGED asked /\ p \notin {"reading", "downloading"}
  \/ asked' = [asked EXCEPT ![r] = epoch[Account[r]]]
  \/ asked' = [asked EXCEPT ![r] = 0] /\ p \notin {"reading", "downloading"}

\* What comes into the cache is of the present.
LEMMA EntriesStep ==
  ASSUME SessionInv, NEW r \in Reqs, CacheStep(r)
  PROVE  \A q \in Reqs : EntriesFit(q)'
<1> SUFFICES ASSUME NEW q \in Reqs, NEW k \in Held(cache'), k \in Range(Parts[q])
             PROVE  cache'.entries[k].epoch = epoch'[Account[q]]
  BY DEF EntriesFit
<1>1. epoch' = epoch BY DEF CacheStep
<1>2. CASE k \in Held(cache) /\ cache'.entries[k].epoch = cache.entries[k].epoch
  BY <1>1, <1>2 DEF SessionInv, EntriesFit
<1>3. CASE /\ k \in Range(Parts[r]) /\ pc[r] \in {"reading", "downloading"}
           /\ cache'.entries[k].epoch = asked[r]
  <2>1. Account[r] = Account[q] BY <1>3, ShapeAssumption
  <2>2. asked[r] = epoch[Account[r]] BY <1>3 DEF SessionInv, AskedFits
  <2> QED BY <1>1, <1>3, <2>1, <2>2
<1> QED BY <1>2, <1>3 DEF CacheStep

\* The other calls see nothing come in that they have still to ask for.
LEMMA FreshStep ==
  ASSUME SessionInv, NEW r \in Reqs, CacheStep(r), NEW q \in Reqs, q # r, pc'[q] = pc[q],
         at'[q] = at[q]
  PROVE  FreshFits(q)'
<1> SUFFICES ASSUME q \in Refresh, pc[q] \in Asking, NEW j \in at[q]..Len(Parts[q])
             PROVE  Parts[q][j] \notin Held(cache')
  BY DEF FreshFits
<1>1. Parts[q][j] \notin Held(cache) BY DEF SessionInv, FreshFits
<1>2. j \in 1..Len(Parts[q]) /\ Parts[q] \in Seq(Keys)
  <2>1. Kind[q] # "write" /\ Parts[q] \in Seq(Keys)
    BY ShapeAssumption DEF SessionInv, KindFits, Asking
  <2>2. at[q] \in 1..Len(Parts[q]) BY <2>1 DEF SessionInv, KindFits
  <2> QED BY <2>1, <2>2
<1>3. Parts[q][j] \in Range(Parts[q]) BY <1>2 DEF Range
<1>4. ASSUME Parts[q][j] \in Range(Parts[r]), pc[r] \in {"reading", "downloading"} PROVE FALSE
  <2>1. Account[r] = Account[q] BY <1>3, <1>4, ShapeAssumption
  <2>2. pc[q] \in Active /\ pc[r] \in Active BY <1>4 DEF Asking, Active
  <2> QED BY <1>4, <2>1, <2>2, OneIsFirst
<1> QED BY <1>1, <1>4 DEF CacheStep

\* Nothing comes in of an account whose commands are under way.
LEMMA ClearedStep ==
  ASSUME SessionInv, NEW r \in Reqs, CacheStep(r), NEW q \in Reqs, pc[q] = "storing"
  PROVE  ClearedFits(q)'
<1> SUFFICES ASSUME NEW k \in Held(cache'), NEW o \in Reqs, k \in Range(Parts[o]), Account[o] = Account[q]
             PROVE  FALSE
  BY DEF ClearedFits
<1>1. k \notin Held(cache) BY DEF SessionInv, ClearedFits
<1>2. k \in Range(Parts[r]) /\ pc[r] \in {"reading", "downloading"} BY <1>1 DEF CacheStep
<1>3. Account[r] = Account[o] BY <1>2, ShapeAssumption
<1>4. pc[r] \in Active /\ pc[q] \in Active BY <1>2 DEF Active
<1> QED BY <1>2, <1>3, <1>4, OneIsFirst

\* What others have asked for stays what it is, and so does what r asks for now.
LEMMA AskedStep ==
  ASSUME SessionInv, NEW r \in Reqs, NEW p \in Calls, AskStep(r, p), pc' = [pc EXCEPT ![r] = p],
         epoch' = epoch
  PROVE  asked' \in [Reqs -> Nat] /\ \A q \in Reqs : AskedFits(q)'
<1>1. /\ asked \in [Reqs -> Nat] /\ epoch[Account[r]] \in Nat
      /\ \A q \in Reqs : pc'[q] = IF q = r THEN p ELSE pc[q]
  BY ShapeAssumption DEF SessionInv, SessionTyped
<1>2. asked' \in [Reqs -> Nat] /\ \A q \in Reqs : q # r => asked'[q] = asked[q]
  BY <1>1 DEF AskStep
<1>3. ASSUME NEW q \in Reqs, q # r PROVE AskedFits(q)'
  BY <1>1, <1>2, <1>3 DEF SessionInv, AskedFits
<1>4. AskedFits(r)'
  BY <1>1 DEF AskStep, AskedFits
<1> QED BY <1>2, <1>3, <1>4

\* The call r goes to p; of the others nothing changes.
LEMMA GoesTo ==
  ASSUME SessionInv, NEW r \in Reqs, NEW p \in Calls, pc' = [pc EXCEPT ![r] = p],
         QueueStep(r, p), CacheStep(r), AskStep(r, p), p = "storing" => Held(cache') = {},
         at' \in [Reqs -> Nat], file' \in [Reqs -> {"absent", "partial", "whole", "left", "foreign"}],
         \A q \in Reqs : q # r => /\ at'[q] = at[q] /\ file'[q] = file[q]
                                  /\ q \in foreign' <=> q \in foreign
                                  /\ q \in bad' => q \in bad,
         KindFits(r)', FileFits(r)', FreshFits(r)', EmptyFits(r)'
  PROVE  SessionInv'
<1>1. \A q \in Reqs : pc'[q] = IF q = r THEN p ELSE pc[q]
  BY DEF SessionInv, SessionTyped
<1>2. SessionTyped'
  <2>1. pc' \in [Reqs -> Calls] BY DEF SessionInv, SessionTyped
  <2>2. queue' \in [Accounts -> Seq(Reqs)] BY LineStep
  <2>3. IsCache(cache)' /\ epoch' \in [Accounts -> Nat] BY DEF CacheStep, SessionInv, SessionTyped
  <2>4. asked' \in [Reqs -> Nat] BY AskedStep DEF CacheStep
  <2> QED BY <2>1, <2>2, <2>3, <2>4 DEF SessionTyped
<1>3. \A q \in Reqs : LineFits(q)' /\ EntriesFit(q)'
  BY LineStep, EntriesStep
<1>4. \A q \in Reqs : FreshFits(q)'
  BY <1>1, FreshStep
<1>5. \A q \in Reqs : KindFits(q)'
  BY <1>1 DEF SessionInv, KindFits
<1>6. \A q \in Reqs : FileFits(q)'
  BY <1>1 DEF SessionInv, FileFits
<1>7. \A q \in Reqs : EmptyFits(q)'
  BY <1>1 DEF SessionInv, EmptyFits
<1>8. \A q \in Reqs : AskedFits(q)'
  BY AskedStep DEF CacheStep
<1>9. ASSUME NEW q \in Reqs PROVE ClearedFits(q)'
  <2>1. CASE q = r /\ p = "storing" BY <2>1 DEF ClearedFits
  <2>2. CASE q # r /\ pc[q] = "storing" BY <2>2, ClearedStep
  <2>3. CASE pc'[q] # "storing" BY <2>3 DEF ClearedFits
  <2> QED BY <1>1, <2>1, <2>2, <2>3
<1> QED BY <1>2, <1>3, <1>4, <1>5, <1>6, <1>7, <1>8, <1>9 DEF SessionInv

\* The parts of a call are different keys.
LEMMA PartsAre ==
  ASSUME NEW r \in Reqs
  PROVE  /\ Parts[r] \in Seq(Keys) /\ Len(Parts[r]) \in Nat
         /\ Kind[r] # "write" => 1 \in 1..Len(Parts[r])
         /\ \A i, j \in 1..Len(Parts[r]) : Parts[r][i] = Parts[r][j] => i = j
         /\ \A i \in 1..Len(Parts[r]) : Parts[r][i] \in Range(Parts[r])
<1>1. Parts[r] \in Seq(Keys) /\ (Kind[r] # "write" => Parts[r] # <<>>) /\ IsInjective(Parts[r])
  BY ShapeAssumption
<1>2. Len(Parts[r]) \in Nat /\ DOMAIN Parts[r] = 1..Len(Parts[r])
  BY <1>1
<1>3. Kind[r] # "write" => 1 \in 1..Len(Parts[r])
  BY <1>1
<1> QED BY <1>1, <1>2, <1>3 DEF IsInjective, Range

\* Nothing comes into the cache.
LEMMA CacheShrinks ==
  ASSUME SessionInv, NEW r, IsCache(cache'), Within(cache', cache), epoch' = epoch
  PROVE  CacheStep(r)
  BY DEF CacheStep, Within, SessionInv, SessionTyped

\* The cache stays.
LEMMA SameCache ==
  ASSUME SessionInv, UNCHANGED cache
  PROVE  IsCache(cache') /\ Within(cache', cache)
  BY DEF Within, SessionInv, SessionTyped

\* The call r is over.
LEMMA SettlesStep ==
  ASSUME SessionInv, NEW r \in Reqs, NEW how \in {"ok", "error", "empty", "unreadable"},
         NEW wrong \in BOOLEAN,
         pc[r] \in Active, SettlesBody(r, how, wrong), wrong => how # "empty", CacheStep(r),
         UNCHANGED foreign, file' \in [Reqs -> {"absent", "partial", "whole", "left", "foreign"}],
         \A q \in Reqs : q # r => file'[q] = file[q],
         FileFits(r)'
  PROVE  SessionInv'
<1>1. /\ pc' = [pc EXCEPT ![r] = how]
      /\ queue' = [queue EXCEPT ![Account[r]] = Tail(@)]
      /\ timer' \subseteq timer \union {Account[r]}
      /\ at' = [at EXCEPT ![r] = 1]
      /\ how = "empty" => bad' = bad \ {r}
      /\ bad' \subseteq bad \union {r}
      /\ asked' = [asked EXCEPT ![r] = 0]
  BY DEF SettlesBody, Goto, Released
<1>2. how \in Calls /\ how \notin Active /\ how \notin Asking BY DEF Calls, Active, Asking
<1>3. QueueStep(r, how) BY <1>1, <1>2 DEF QueueStep
<1>4. at' \in [Reqs -> Nat] /\ at'[r] = 1 /\ pc'[r] = how
      /\ \A q \in Reqs : q # r => at'[q] = at[q]
  BY <1>1 DEF SessionInv, SessionTyped
<1>5. KindFits(r)' BY <1>2, <1>4, PartsAre DEF KindFits
<1>6. FreshFits(r)' BY <1>2, <1>4 DEF FreshFits
<1>7. EmptyFits(r)' BY <1>1, <1>4 DEF EmptyFits
<1>8. \A q \in Reqs : q # r => (q \in bad' => q \in bad) BY <1>1
<1>9. AskStep(r, how) /\ how # "storing" BY <1>1, <1>2 DEF AskStep, Active
<1> QED BY <1>1, <1>2, <1>3, <1>4, <1>5, <1>6, <1>7, <1>8, <1>9, GoesTo

\* The call r goes on to p with the same part.
LEMMA AdvancesStep ==
  ASSUME SessionInv, NEW r \in Reqs, NEW p \in Calls, pc' = [pc EXCEPT ![r] = p], QueueStep(r, p),
         CacheStep(r), AskStep(r, p), p = "storing" => Held(cache') = {},
         UNCHANGED <<at, bad, foreign>>, file' \in [Reqs -> {"absent", "partial", "whole", "left",
             "foreign"}],
         \A q \in Reqs : q # r => file'[q] = file[q],
         p # "empty", FileFits(r)', FreshFits(r)',
         p \in {"choosing", "reading"} => Kind[r] = "read",
         p \in {"structure", "opening", "downloading", "closing"} => Kind[r] = "attachment",
         p \in {"writing", "storing"} => Kind[r] = "write"
  PROVE  SessionInv'
<1>1. pc'[r] = p BY DEF SessionInv, SessionTyped
<1>2. KindFits(r)' BY <1>1 DEF SessionInv, KindFits
<1>3. EmptyFits(r)' BY <1>1 DEF EmptyFits
<1>4. at' \in [Reqs -> Nat] BY DEF SessionInv, SessionTyped
<1> QED BY <1>2, <1>3, <1>4, GoesTo

\* What follows from a part.
LEMMA FollowsStep ==
  ASSUME SessionInv, NEW r \in Reqs, NEW text, pc[r] \in {"choosing", "reading"}, Follows(r, text),
         CacheStep(r),
         UNCHANGED <<file, foreign>>,
         r \in Refresh => \A j \in (at[r] + 1)..Len(Parts[r]) : Parts[r][j] \notin Held(cache')
  PROVE  SessionInv'
<1>1. /\ pc[r] \in Active /\ Kind[r] = "read" /\ at[r] \in 1..Len(Parts[r]) /\ at[r] \in Nat
      /\ Len(Parts[r]) \in Nat /\ pc \in [Reqs -> Calls] /\ at \in [Reqs -> Nat]
      /\ file \in [Reqs -> {"absent", "partial", "whole", "left", "foreign"}]
      /\ file[r] \notin {"partial", "whole"} /\ (r \in foreign <=> file[r] = "foreign")
  BY PartsAre DEF SessionInv, SessionTyped, KindFits, FileFits, Active
<1> DEFINE wrong == r \in bad \/ text \in {"blank", "wrong"}
<1>2. ASSUME NEW how \in {"ok", "error", "empty", "unreadable"}, NEW w \in BOOLEAN,
             SettlesBody(r, how, w), w => how # "empty"
      PROVE  SessionInv'
  <2>1. pc'[r] = how BY <1>1, <1>2 DEF SettlesBody, Goto
  <2>2. FileFits(r)' BY <1>1, <2>1 DEF FileFits
  <2> QED BY <1>1, <1>2, <2>2, SettlesStep
<1>3. CASE Settles(r, "ok") BY <1>2, <1>3 DEF Settles
<1>4. CASE \E verdict \in BodyVerdict(r, wrong) : SettlesBody(r, verdict, wrong)
  <2>1. PICK verdict \in BodyVerdict(r, wrong) : SettlesBody(r, verdict, wrong) BY <1>4
  <2>2. verdict \in {"empty", "unreadable"} /\ (wrong => verdict # "empty") /\ wrong \in BOOLEAN
    BY DEF BodyVerdict
  <2> HIDE DEF wrong
  <2> QED BY <1>2, <2>1, <2>2
<1>5. CASE /\ at[r] # Len(Parts[r])
           /\ at' = [at EXCEPT ![r] = @ + 1] /\ Goto(r, "choosing")
           /\ bad' = IF wrong THEN bad \union {r} ELSE bad
           /\ UNCHANGED <<sessionVars, aborted, hit, asked>>
  <2>1. pc' = [pc EXCEPT ![r] = "choosing"] /\ pc'[r] = "choosing" /\ "choosing" \in Calls
    BY <1>1, <1>5 DEF Goto, Calls, Active
  <2>2. QueueStep(r, "choosing") BY <1>1, <1>5 DEF QueueStep, sessionVars
  <2>3. /\ at' \in [Reqs -> Nat] /\ at'[r] = at[r] + 1 /\ at'[r] \in 1..Len(Parts[r])
        /\ \A q \in Reqs : q # r => at'[q] = at[q]
    BY <1>1, <1>5
  <2>4. \A q \in Reqs : q # r => (q \in bad' => q \in bad) BY <1>5
  <2>5. KindFits(r)' BY <1>1, <2>1, <2>3 DEF KindFits
  <2>6. FileFits(r)' BY <1>1, <2>1 DEF FileFits
  <2>7. FreshFits(r)' BY <2>3 DEF FreshFits
  <2>8. EmptyFits(r)' BY <2>1 DEF EmptyFits
  <2>9. AskStep(r, "choosing") BY <1>5 DEF AskStep
  <2> QED BY <1>1, <2>1, <2>2, <2>3, <2>4, <2>5, <2>6, <2>7, <2>8, <2>9, GoesTo
<1> QED BY <1>3, <1>4, <1>5 DEF Follows

\* Nobody goes anywhere: a line, a timer or the cache changes.
LEMMA NobodyMoves ==
  ASSUME SessionInv, UNCHANGED <<queue, pc, at, bad, file, foreign, asked, epoch>>, timer' \subseteq timer,
         IsCache(cache'), Within(cache', cache)
  PROVE  SessionInv'
<1>1. SessionTyped' BY DEF SessionInv, SessionTyped
<1>2. ASSUME NEW r \in Reqs
      PROVE  LineFits(r)' /\ KindFits(r)' /\ FileFits(r)' /\ EmptyFits(r)' /\ AskedFits(r)'
  BY DEF SessionInv, LineFits, Head1, KindFits, FileFits, EmptyFits, AskedFits
<1>3. ASSUME NEW r \in Reqs
      PROVE  FreshFits(r)' /\ EntriesFit(r)' /\ ClearedFits(r)'
  BY DEF SessionInv, FreshFits, EntriesFit, ClearedFits, Within
<1> QED BY <1>1, <1>2, <1>3 DEF SessionInv

---------------------------------------------------------------------------------
(* The actions *)

\* What the actions of the queue and the line have in common.
LEMMA LineAction ==
  ASSUME SessionInv, NEW r \in Reqs, NEW p \in Calls, pc' = [pc EXCEPT ![r] = p], QueueStep(r, p),
         UNCHANGED <<at, bad, file, foreign, cache, asked, epoch>>,
         p \in {"error", "queued", "connecting", "locking"},
         pc[r] \in {"new", "queued", "connecting", "locking"}
  PROVE  SessionInv'
<1>1. pc'[r] = p /\ file' \in [Reqs -> {"absent", "partial", "whole", "left",
          "foreign"}] BY DEF SessionInv, SessionTyped
<1>2. FileFits(r)' BY <1>1 DEF SessionInv, FileFits
<1>3. FreshFits(r)' BY <1>1 DEF FreshFits, Asking
<1>4. CacheStep(r) BY SameCache, CacheShrinks
<1>5. AskStep(r, p) BY DEF AskStep
<1> QED BY <1>1, <1>2, <1>3, <1>4, <1>5, AdvancesStep

\* A call queues, or is refused.
LEMMA CallStep == ASSUME SessionInv, NEW r \in Reqs, Call(r) PROVE SessionInv'
<1>1. CASE closed
  BY <1>1, LineAction DEF Call, Goto, Calls, Active, QueueStep
<1>2. CASE ~closed
  BY <1>2, LineAction DEF Call, Goto, Calls, Active, QueueStep
<1> QED BY <1>1, <1>2

\* Its turn comes too late.
LEMMA TurnedAwayStep == ASSUME SessionInv, NEW r \in Reqs, TurnedAway(r) PROVE SessionInv'
<1>1. QueueStep(r, "error") BY DEF TurnedAway, Released, QueueStep, Active
<1>2. "error" \in Calls BY DEF Calls
<1> QED BY <1>1, <1>2, LineAction DEF TurnedAway, Goto

\* Its turn comes.
LEMMA BeginStep == ASSUME SessionInv, NEW r \in Reqs, Begin(r) PROVE SessionInv'
<1>1. QueueStep(r, "connecting") BY DEF Begin, Disarmed, MyTurn, QueueStep
<1>2. "connecting" \in Calls BY DEF Calls, Active
<1> QED BY <1>1, <1>2, LineAction DEF Begin, Goto

\* The line is usable.
LEMMA ConnectedStep == ASSUME SessionInv, NEW r \in Reqs, Connected(r) PROVE SessionInv'
<1>1. QueueStep(r, "locking") BY DEF Connected, QueueStep, Active
<1>2. "locking" \in Calls BY DEF Calls, Active
<1> QED BY <1>1, <1>2, LineAction DEF Connected, Goto

\* The action begins, and what it is to refresh leaves the cache.
LEMMA LockedStep == ASSUME SessionInv, NEW r \in Reqs, Locked(r) PROVE SessionInv'
<1> DEFINE p == FirstStep(r)
<1>1. /\ p \in {"structure", "writing", "choosing"} /\ (p = "structure" => Kind[r] = "attachment")
      /\ (p = "choosing" => Kind[r] = "read") /\ (p = "writing" => Kind[r] = "write")
  BY ShapeAssumption DEF FirstStep
<1>2. pc' = [pc EXCEPT ![r] = p] /\ UNCHANGED <<sessionVars, aborted, at, hit, bad, file, foreign,
          asked, epoch>>
      /\ pc[r] = "locking" /\ cache' = IF r \in Refresh THEN WithoutParts(cache, r) ELSE cache
  BY DEF Locked, Goto
<1> HIDE DEF p
<1>3. p \in Calls /\ p \in Active BY <1>1 DEF Calls, Active
<1>4. QueueStep(r, p) BY <1>2 DEF QueueStep, sessionVars, Active
<1>5. /\ IsCache(cache') /\ Within(cache', cache)
      /\ r \in Refresh => Held(cache') = Held(cache) \ Range(Parts[r])
  <2>1. IsCache(cache) BY DEF SessionInv, SessionTyped
  <2>2. CASE r \notin Refresh BY <1>2, <2>2, SameCache
  <2>3. CASE r \in Refresh BY <1>2, <2>1, <2>3, WithoutEntries DEF WithoutParts
  <2> QED BY <2>2, <2>3
<1>6. CacheStep(r) BY <1>2, <1>5, CacheShrinks
<1>7. pc'[r] = p /\ file' \in [Reqs -> {"absent", "partial", "whole", "left", "foreign"}]
  BY <1>2 DEF SessionInv, SessionTyped
<1>8. FileFits(r)' BY <1>1, <1>2, <1>7 DEF SessionInv, FileFits
<1>9. FreshFits(r)'
  <2> SUFFICES ASSUME r \in Refresh, p \in Asking, NEW j \in at[r]..Len(Parts[r])
               PROVE  Parts[r][j] \notin Held(cache')
    BY <1>2, <1>7 DEF FreshFits
  <2>1. at[r] \in 1..Len(Parts[r]) BY <1>1 DEF SessionInv, KindFits, Asking
  <2>2. j \in 1..Len(Parts[r]) BY <2>1, PartsAre
  <2> QED BY <1>5, <2>2, PartsAre
<1>10. AskStep(r, p) /\ p # "storing" BY <1>1, <1>2 DEF AskStep
<1> QED BY <1>1, <1>2, <1>3, <1>4, <1>6, <1>7, <1>8, <1>9, <1>10, AdvancesStep

\* An await fails.
LEMMA FailsStep == ASSUME SessionInv, NEW r \in Reqs, Fails(r) PROVE SessionInv'
<1>1. /\ SettlesBody(r, "error", FALSE) /\ UNCHANGED <<file, foreign, cache, epoch>>
      /\ pc[r] \in {"connecting", "locking", "structure", "opening", "writing", "reading"}
  BY DEF Fails, Settles
<1>2. pc[r] \in Active BY <1>1 DEF Active
<1>3. /\ pc'[r] = "error" /\ file' \in [Reqs -> {"absent", "partial", "whole", "left", "foreign"}]
  BY <1>1 DEF SettlesBody, Goto, SessionInv, SessionTyped
<1>4. FileFits(r)' BY <1>1, <1>3 DEF SessionInv, FileFits
<1>5. CacheStep(r) BY <1>1, SameCache, CacheShrinks
<1> QED BY <1>1, <1>2, <1>3, <1>4, <1>5, SettlesStep

\* The part comes from the cache, or is asked for.
LEMMA ChooseStep == ASSUME SessionInv, NEW r \in Reqs, Choose(r) PROVE SessionInv'
<1>1. pc[r] = "choosing" /\ cache' = Got(cache, Key(r)) /\ UNCHANGED <<file, foreign, epoch>>
  BY DEF Choose
<1>2. IsCache(cache') /\ Within(cache', cache) BY <1>1, GotEntries DEF SessionInv, SessionTyped
<1>3. CacheStep(r) BY <1>1, <1>2, CacheShrinks
<1>4. at[r] \in 1..Len(Parts[r]) /\ Len(Parts[r]) \in Nat /\ Kind[r] = "read"
  BY <1>1, PartsAre DEF SessionInv, KindFits
<1>5. r \in Refresh => \A j \in at[r]..Len(Parts[r]) : Parts[r][j] \notin Held(cache')
  BY <1>1, <1>2 DEF SessionInv, FreshFits, Asking, Within
<1>6. CASE Live(cache, Key(r))
  <2>1. \A j \in (at[r] + 1)..Len(Parts[r]) : j \in at[r]..Len(Parts[r]) BY <1>4
  <2>2. Follows(r, cache.entries[Key(r)].text) BY <1>6 DEF Choose
  <2> QED BY <1>1, <1>3, <1>5, <2>1, <2>2, FollowsStep
<1>7. CASE ~Live(cache, Key(r))
  <2>1. /\ pc' = [pc EXCEPT ![r] = "reading"] /\ UNCHANGED <<sessionVars, aborted, at, hit, bad>>
        /\ "reading" \in Calls /\ AskStep(r, "reading")
    BY <1>7 DEF Choose, Goto, Calls, Active, Asks, AskStep
  <2>2. QueueStep(r, "reading") BY <1>1, <2>1 DEF QueueStep, sessionVars, Active
  <2>3. pc'[r] = "reading" /\ file' \in [Reqs -> {"absent", "partial", "whole", "left", "foreign"}]
    BY <1>1, <2>1 DEF SessionInv, SessionTyped
  <2>4. FileFits(r)' BY <1>1, <2>3 DEF SessionInv, FileFits
  <2>5. FreshFits(r)' BY <1>5, <2>1 DEF FreshFits
  <2> QED BY <1>1, <1>3, <1>4, <2>1, <2>2, <2>3, <2>4, <2>5, AdvancesStep
<1> QED BY <1>6, <1>7

\* What was read is put into the cache.
LEMMA ReadIsPut ==
  ASSUME SessionInv, NEW r \in Reqs, NEW content, pc[r] \in {"reading", "downloading"},
         at[r] \in 1..Len(Parts[r]), cache' = Put(cache, Key(r), content, asked[r]), UNCHANGED epoch
  PROVE  CacheStep(r) /\ \A k \in Held(cache') : k \in Held(cache) \/ k = Key(r)
<1>1. /\ IsCache(cache')
      /\ \A j \in Held(cache') :
           \/ j \in Held(cache) /\ cache'.entries[j].epoch = cache.entries[j].epoch
           \/ j = Key(r) /\ cache'.entries[j].epoch = asked[r]
  BY PutEntries DEF SessionInv, SessionTyped
<1>2. Key(r) \in Range(Parts[r]) BY PartsAre DEF Key
<1> QED BY <1>1, <1>2 DEF CacheStep, SessionInv, SessionTyped

\* The part was read.
LEMMA PartReadStep ==
  ASSUME SessionInv, NEW r \in Reqs, NEW content, PartRead(r, content)
  PROVE  SessionInv'
<1>1. /\ pc[r] = "reading" /\ cache' = Put(cache, Key(r), content, asked[r])
      /\ Follows(r, content.text) /\ UNCHANGED <<file, foreign, epoch>>
  BY DEF PartRead
<1>2. /\ at[r] \in 1..Len(Parts[r]) /\ Len(Parts[r]) \in Nat
      /\ pc[r] \in {"reading", "downloading"} /\ UNCHANGED epoch
  BY <1>1, PartsAre DEF SessionInv, KindFits
<1>3. CacheStep(r) /\ \A k \in Held(cache') : k \in Held(cache) \/ k = Key(r)
  BY <1>1, <1>2, ReadIsPut
<1>4. ASSUME r \in Refresh,
             NEW j \in (at[r] + 1)..Len(Parts[r]) PROVE Parts[r][j] \notin Held(cache')
  <2>1. j \in 1..Len(Parts[r]) /\ j \in at[r]..Len(Parts[r]) /\ j # at[r] BY <1>2
  <2>2. Parts[r][j] # Key(r) BY <1>2, <2>1, PartsAre DEF Key
  <2>3. Parts[r][j] \notin Held(cache) BY <1>1, <1>4, <2>1 DEF SessionInv, FreshFits, Asking
  <2> QED BY <1>3, <2>2, <2>3
<1> QED BY <1>1, <1>3, <1>4, FollowsStep

\* The part cannot be read.
LEMMA NotReadStep == ASSUME SessionInv, NEW r \in Reqs, NotRead(r) PROVE SessionInv'
<1>1. pc[r] = "reading" /\ Follows(r, "wrong") /\ UNCHANGED <<file, foreign, cache, epoch>>
  BY DEF NotRead
<1>2. CacheStep(r) /\ Held(cache') = Held(cache) BY <1>1, SameCache, CacheShrinks
<1>3. at[r] \in 1..Len(Parts[r]) /\ Len(Parts[r]) \in Nat BY <1>1, PartsAre DEF SessionInv, KindFits
<1>4. r \in Refresh => \A j \in (at[r] + 1)..Len(Parts[r]) : Parts[r][j] \notin Held(cache')
  <2>1. \A j \in (at[r] + 1)..Len(Parts[r]) : j \in at[r]..Len(Parts[r]) BY <1>3
  <2> QED BY <1>1, <1>2, <2>1 DEF SessionInv, FreshFits, Asking
<1> QED BY <1>1, <1>2, <1>4, FollowsStep

\* The steps of an attachment up to its file's end.
LEMMA AttachmentAction ==
  ASSUME SessionInv, NEW r \in Reqs, NEW p \in {"opening", "downloading", "closing"},
         pc' = [pc EXCEPT ![r] = p],
         UNCHANGED <<sessionVars, at, bad, foreign>>, CacheStep(r), AskStep(r, p), Kind[r] = "attachment",
             pc[r] \in Active,
         file' \in [Reqs -> {"absent", "partial", "whole", "left", "foreign"}],
         \A q \in Reqs : q # r => file'[q] = file[q],
         FileFits(r)'
  PROVE  SessionInv'
<1>1. p \in Calls BY DEF Calls, Active
<1>2. QueueStep(r, p) BY DEF QueueStep, sessionVars
<1>3. pc'[r] = p BY DEF SessionInv, SessionTyped
<1>4. FreshFits(r)' BY <1>3 DEF FreshFits, Asking
<1> QED BY <1>1, <1>2, <1>4, AdvancesStep

\* The cache is asked for the attachment.
LEMMA StructureStep == ASSUME SessionInv, NEW r \in Reqs, Structure(r) PROVE SessionInv'
<1>1. /\ pc[r] = "structure" /\ cache' = Got(cache, Key(r)) /\ pc' = [pc EXCEPT ![r] = "opening"]
      /\ UNCHANGED <<sessionVars, at, bad, file, foreign, asked, epoch>> /\ AskStep(r, "opening")
  BY DEF Structure, Goto, AskStep
<1>2. IsCache(cache') /\ Within(cache', cache) BY <1>1, GotEntries DEF SessionInv, SessionTyped
<1>3. CacheStep(r) BY <1>1, <1>2, CacheShrinks
<1>4. /\ pc'[r] = "opening" /\ file' \in [Reqs -> {"absent", "partial", "whole", "left", "foreign"}]
      /\ Kind[r] = "attachment" /\ pc[r] \in Active
  BY <1>1 DEF SessionInv, SessionTyped, KindFits, Active
<1>5. FileFits(r)' BY <1>1, <1>4 DEF SessionInv, FileFits
<1> QED BY <1>1, <1>3, <1>4, <1>5, AttachmentAction

\* The file is created.
LEMMA OpenedStep == ASSUME SessionInv, NEW r \in Reqs, Opened(r) PROVE SessionInv'
<1>1. /\ pc[r] = "opening" /\ file[r] = "absent" /\ file' = [file EXCEPT ![r] = "partial"]
      /\ pc' = [pc EXCEPT ![r] = "downloading"]
      /\ UNCHANGED <<sessionVars, at, bad, foreign, cache, epoch>> /\ AskStep(r, "downloading")
  BY DEF Opened, Goto, Asks, AskStep
<1>2. CacheStep(r) BY <1>1, SameCache, CacheShrinks
<1>3. /\ pc'[r] = "downloading" /\ file' \in [Reqs -> {"absent", "partial", "whole", "left", "foreign"}]
      /\ file'[r] = "partial" /\ \A q \in Reqs : q # r => file'[q] = file[q]
      /\ Kind[r] = "attachment" /\ pc[r] \in Active
  BY <1>1 DEF SessionInv, SessionTyped, KindFits, Active
<1>4. FileFits(r)' BY <1>1, <1>3 DEF SessionInv, FileFits
<1> QED BY <1>1, <1>2, <1>3, <1>4, AttachmentAction

\* The content is in the file.
LEMMA DownloadedStep ==
  ASSUME SessionInv, NEW r \in Reqs, NEW content, Downloaded(r, content)
  PROVE  SessionInv'
<1>1. /\ pc[r] = "downloading" /\ file' = [file EXCEPT ![r] = "whole"]
      /\ cache' = IF r \in hit THEN cache ELSE Put(cache, Key(r), content, asked[r])
      /\ pc' = [pc EXCEPT ![r] = "closing"]
      /\ UNCHANGED <<sessionVars, at, bad, foreign, asked, epoch>> /\ AskStep(r, "closing")
  BY DEF Downloaded, Goto, AskStep
<1>2. /\ pc'[r] = "closing" /\ file' \in [Reqs -> {"absent", "partial", "whole", "left", "foreign"}]
      /\ file'[r] = "whole" /\ \A q \in Reqs : q # r => file'[q] = file[q]
      /\ Kind[r] = "attachment" /\ pc[r] \in Active /\ at[r] \in 1..Len(Parts[r])
  BY <1>1 DEF SessionInv, SessionTyped, KindFits, Active
<1>3. CacheStep(r)
  <2>1. CASE r \in hit BY <1>1, <2>1, SameCache, CacheShrinks
  <2>2. CASE r \notin hit BY <1>1, <1>2, <2>2, ReadIsPut
  <2> QED BY <2>1, <2>2
<1>4. FileFits(r)' BY <1>1, <1>2 DEF SessionInv, FileFits
<1> QED BY <1>1, <1>2, <1>3, <1>4, AttachmentAction

\* The file is complete.
LEMMA SavedStep == ASSUME SessionInv, NEW r \in Reqs, Saved(r) PROVE SessionInv'
<1>1. SettlesBody(r, "ok", FALSE) /\ UNCHANGED <<file, foreign, cache, epoch>> /\ pc[r] = "closing"
  BY DEF Saved, Settles
<1>2. /\ pc'[r] = "ok" /\ file' \in [Reqs -> {"absent", "partial", "whole", "left", "foreign"}]
      /\ pc[r] \in Active /\ Kind[r] = "attachment"
  BY <1>1 DEF SettlesBody, Goto, SessionInv, SessionTyped, Active, KindFits
<1>3. FileFits(r)' BY <1>1, <1>2 DEF SessionInv, FileFits
<1>4. CacheStep(r) BY <1>1, SameCache, CacheShrinks
<1> QED BY <1>1, <1>2, <1>3, <1>4, SettlesStep

\* The file is removed.
LEMMA NotSavedStep == ASSUME SessionInv, NEW r \in Reqs, NotSaved(r) PROVE SessionInv'
<1>1. /\ SettlesBody(r, "error", FALSE) /\ UNCHANGED <<foreign, cache, epoch>>
      /\ pc[r] \in {"downloading", "closing"}
      /\ \E rest \in {"absent", "left"} : file' = [file EXCEPT ![r] = rest]
  BY DEF NotSaved, Settles, Discarded
<1>2. /\ pc'[r] = "error" /\ file' \in [Reqs -> {"absent", "partial", "whole", "left", "foreign"}]
      /\ file'[r] \in {"absent", "left"} /\ \A q \in Reqs : q # r => file'[q] = file[q]
      /\ pc[r] \in Active
  BY <1>1 DEF SettlesBody, Goto, SessionInv, SessionTyped, Active
<1>3. FileFits(r)' BY <1>1, <1>2 DEF SessionInv, FileFits
<1>4. CacheStep(r) BY <1>1, SameCache, CacheShrinks
<1> QED BY <1>1, <1>2, <1>3, <1>4, SettlesStep

\* The cache without anything.
LEMMA EmptiedEntries ==
  ASSUME NEW c, IsCache(c)
  PROVE  IsCache(Emptied(c)) /\ Held(Emptied(c)) = {}
<1> DEFINE d       == Emptied(c)
           entries == Kept(c, {})
<1>1. d = [c EXCEPT !.entries = entries, !.used = 0] BY DEF Emptied
<1> HIDE DEF d, entries
<1>2. IsRecord(d) /\ d.entries = entries BY <1>1 DEF IsCache, IsRecord
<1>3. d.entries = Kept(c, {}) BY <1>2 DEF entries
<1>4. {} \in SUBSET Held(c) OBVIOUS
<1> QED BY <1>2, <1>3, <1>4, KeptEntries DEF d

\* A mutation is over, with or without having changed anything.
LEMMA WrittenStep == ASSUME SessionInv, NEW r \in Reqs, NotWritten(r) \/ Written(r) PROVE SessionInv'
<1>1. /\ SettlesBody(r, "ok", FALSE) /\ UNCHANGED <<file, foreign, cache, epoch>>
      /\ pc[r] \in {"writing", "storing"}
  BY DEF NotWritten, Written, Settles
<1>2. /\ pc'[r] = "ok" /\ file' \in [Reqs -> {"absent", "partial", "whole", "left", "foreign"}]
      /\ pc[r] \in Active
  BY <1>1 DEF SettlesBody, Goto, SessionInv, SessionTyped, Active
<1>3. Kind[r] # "attachment"
  BY <1>1 DEF SessionInv, KindFits
<1>4. FileFits(r)' BY <1>1, <1>2, <1>3 DEF SessionInv, FileFits
<1>5. CacheStep(r) BY <1>1, SameCache, CacheShrinks
<1> QED BY <1>1, <1>2, <1>4, <1>5, SettlesStep

\* The cache is emptied, and commands are under way.
LEMMA WriteStep == ASSUME SessionInv, NEW r \in Reqs, Write(r) PROVE SessionInv'
<1>1. /\ pc[r] = "writing" /\ cache' = Emptied(cache) /\ pc' = [pc EXCEPT ![r] = "storing"]
      /\ UNCHANGED <<sessionVars, at, bad, file, foreign, asked, epoch>>
  BY DEF Write, Goto
<1>2. IsCache(cache') /\ Held(cache') = {} BY <1>1, EmptiedEntries DEF SessionInv, SessionTyped
<1>3. CacheStep(r) BY <1>1, <1>2 DEF CacheStep
<1>4. /\ pc'[r] = "storing" /\ file' \in [Reqs -> {"absent", "partial", "whole", "left", "foreign"}]
      /\ Kind[r] = "write" /\ pc[r] \in Active /\ "storing" \in Calls
  BY <1>1 DEF SessionInv, SessionTyped, KindFits, Active, Calls
<1>5. QueueStep(r, "storing") /\ AskStep(r, "storing")
  BY <1>1, <1>4 DEF QueueStep, AskStep, sessionVars
<1>6. FileFits(r)' BY <1>1, <1>4 DEF SessionInv, FileFits
<1>7. FreshFits(r)' BY <1>4 DEF FreshFits, Asking
<1> QED BY <1>1, <1>2, <1>3, <1>4, <1>5, <1>6, <1>7, AdvancesStep

\* The mailbox changes: nobody of its account reads meanwhile, and nothing of it is cached.
LEMMA LandsStep == ASSUME SessionInv, NEW r \in Reqs, Lands(r) PROVE SessionInv'
<1>1. /\ pc[r] = "storing" /\ epoch' = [epoch EXCEPT ![Account[r]] = @ + 1]
      /\ UNCHANGED <<sessionVars, pc, at, bad, file, foreign, cache, asked>>
  BY DEF Lands
<1>2. /\ epoch' \in [Accounts -> Nat]
      /\ \A q \in Reqs : Account[q] # Account[r] => epoch'[Account[q]] = epoch[Account[q]]
  BY <1>1, ShapeAssumption DEF SessionInv, SessionTyped
<1>3. SessionTyped' BY <1>1, <1>2 DEF SessionInv, SessionTyped, sessionVars
<1>4. ASSUME NEW q \in Reqs
      PROVE  /\ LineFits(q)' /\ KindFits(q)' /\ FileFits(q)' /\ FreshFits(q)' /\ EmptyFits(q)'
             /\ ClearedFits(q)'
  BY <1>1 DEF SessionInv, LineFits, Head1, KindFits, FileFits, FreshFits, EmptyFits, ClearedFits, sessionVars
<1>5. ASSUME NEW q \in Reqs PROVE AskedFits(q)'
  <2>1. CASE Account[q] = Account[r] /\ pc[q] \in {"reading", "downloading"}
    <3>1. pc[q] \in Active /\ pc[r] \in Active BY <1>1, <2>1 DEF Active
    <3>2. q = r BY <2>1, <3>1, OneIsFirst
    <3> QED BY <1>1, <2>1, <3>2
  <2>2. CASE Account[q] # Account[r] BY <1>1, <1>2, <2>2 DEF SessionInv, AskedFits
  <2>3. CASE pc[q] \notin {"reading", "downloading"} BY <1>1, <2>3 DEF AskedFits
  <2> QED BY <2>1, <2>2, <2>3
<1>6. ASSUME NEW q \in Reqs PROVE EntriesFit(q)'
  <2>1. CASE Account[q] = Account[r] BY <1>1, <2>1 DEF SessionInv, ClearedFits, EntriesFit
  <2>2. CASE Account[q] # Account[r] BY <1>1, <1>2, <2>2 DEF SessionInv, EntriesFit
  <2> QED BY <2>1, <2>2
<1> QED BY <1>3, <1>4, <1>5, <1>6 DEF SessionInv

\* Another program puts its file there.
LEMMA AppearsStep == ASSUME SessionInv, NEW r \in Reqs, Appears(r) PROVE SessionInv'
<1>1. /\ pc[r] = "opening" /\ file[r] = "absent" /\ file' = [file EXCEPT ![r] = "foreign"]
      /\ foreign' = foreign \union {r} /\ UNCHANGED <<sessionVars, pc, at, bad, cache, asked, epoch>>
  BY DEF Appears
<1>2. /\ pc' = [pc EXCEPT ![r] = pc[r]] /\ pc[r] \in Calls /\ at' \in [Reqs -> Nat]
      /\ file' \in [Reqs -> {"absent", "partial", "whole", "left", "foreign"}] /\ file'[r] = "foreign"
      /\ \A q \in Reqs : q # r => file'[q] = file[q]
  BY <1>1 DEF SessionInv, SessionTyped
<1>3. QueueStep(r, pc[r]) /\ AskStep(r, pc[r]) BY <1>1 DEF QueueStep, AskStep, sessionVars
<1>4. CacheStep(r) BY <1>1, SameCache, CacheShrinks
<1>5. KindFits(r)' /\ FileFits(r)' /\ FreshFits(r)' /\ EmptyFits(r)'
  BY <1>1, <1>2 DEF SessionInv, KindFits, FileFits, FreshFits, EmptyFits, Asking
<1> QED BY <1>1, <1>2, <1>3, <1>4, <1>5, GoesTo

\* A call is cancelled.
LEMMA AbortStep == ASSUME SessionInv, NEW r \in Reqs, Abort(r) PROVE SessionInv'
  BY SameCache, NobodyMoves DEF Abort

\* The idle timer fires.
LEMMA IdleStep == ASSUME SessionInv, NEW a \in Accounts, Idle(a) PROVE SessionInv'
  BY SameCache, NobodyMoves DEF Idle

\* A line drops.
LEMMA DropStep == ASSUME SessionInv, NEW a \in Accounts, Drop(a) PROVE SessionInv'
  BY SameCache, NobodyMoves DEF Drop

\* The runtime ends.
LEMMA DisposeStep == ASSUME SessionInv, Dispose PROVE SessionInv'
<1> DEFINE c == Emptied(cache)
<1>1. IsCache(c) /\ Held(c) = {} BY EmptiedEntries DEF SessionInv, SessionTyped
<1>2. cache' = [c EXCEPT !.on = FALSE] BY DEF Dispose
<1> HIDE DEF c
<1>3. IsRecord(cache') /\ cache'.entries = c.entries BY <1>1, <1>2 DEF IsCache, IsRecord
<1>4. IsCache(cache') /\ Held(cache') = {} BY <1>1, <1>3 DEF IsCache, Held
<1>5. Within(cache', cache) BY <1>4 DEF Within
<1> QED BY <1>4, <1>5, NobodyMoves DEF Dispose

\* Old entries leave the cache.
LEMMA SweepStep == ASSUME SessionInv, Sweep PROVE SessionInv'
<1>1. IsCache(cache') /\ Within(cache', cache) BY WithoutEntries DEF SessionInv, SessionTyped,
          Sweep, Swept
<1> QED BY <1>1, NobodyMoves DEF Sweep, sessionVars

\* An entry grows old.
LEMMA GrowOldStep == ASSUME SessionInv, NEW k, GrowOld(k) PROVE SessionInv'
<1> DEFINE e == cache.entries[k]
           new == [e EXCEPT !.old = TRUE]
           entries == [cache.entries EXCEPT ![k] = new]
<1>1. IsCache(cache) /\ k \in Held(cache) /\ IsEntry(e) BY DEF SessionInv, SessionTyped, GrowOld,
          Live, IsCache
<1>2. cache' = [cache EXCEPT !.entries = entries] BY DEF GrowOld
<1>3. IsEntry(new) /\ new.epoch = e.epoch
  <2> HIDE DEF e
  <2> QED BY <1>1 DEF IsEntry
<1> HIDE DEF new
<1>4. /\ DOMAIN entries = Held(cache)
      /\ \A j \in Held(cache) : entries[j] = IF j = k THEN new ELSE cache.entries[j]
  BY DEF Held
<1> HIDE DEF entries
<1>5. IsRecord(cache') /\ cache'.entries = entries BY <1>1, <1>2 DEF IsCache, IsRecord
<1>6. Held(cache') = Held(cache) BY <1>4, <1>5 DEF Held
<1>7. ASSUME NEW j \in Held(cache)
      PROVE  IsEntry(cache'.entries[j]) /\ cache'.entries[j].epoch = cache.entries[j].epoch
  <2>1. CASE j = k BY <1>3, <1>4, <1>5, <2>1
  <2>2. CASE j # k BY <1>1, <1>4, <1>5, <2>2 DEF IsCache
  <2> QED BY <2>1, <2>2
<1>8. IsCache(cache') /\ Within(cache', cache) BY <1>5, <1>6, <1>7 DEF IsCache, Within
<1> QED BY <1>8, NobodyMoves DEF GrowOld, sessionVars

\* The inductive invariant holds in the beginning.
LEMMA SessionBeginsWell == Init => SessionInv
<1> SUFFICES ASSUME Init PROVE SessionInv
  OBVIOUS
<1> USE DEF Init
<1>1. IsCache(cache)
  <2>1. Held(cache) = {} BY DEF Held
  <2> QED BY <2>1 DEF IsCache, IsRecord
<1>2. SessionTyped BY <1>1 DEF SessionTyped, Calls
<1>3. Held(cache) = {} BY DEF Held
<1>4. ASSUME NEW r \in Reqs
      PROVE  LineFits(r) /\ KindFits(r) /\ FileFits(r) /\ FreshFits(r) /\ EntriesFit(r)
        /\ EmptyFits(r) /\ AskedFits(r) /\ ClearedFits(r)
  BY <1>3, PartsAre DEF LineFits, KindFits, FileFits, FreshFits, EntriesFit, EmptyFits, AskedFits,
     ClearedFits, Active
<1> QED BY <1>2, <1>4 DEF SessionInv

\* Every step keeps it.
LEMMA SessionKeeps == SessionInv /\ [Next]_vars => SessionInv'
<1> SUFFICES ASSUME SessionInv, [Next]_vars PROVE SessionInv'
  OBVIOUS
<1>1. ASSUME NEW r \in Reqs, Continue(r) PROVE SessionInv'
  <2>1. CASE TurnedAway(r) \/ Begin(r) \/ Connected(r) \/ Locked(r) \/ Fails(r)
    BY <2>1, TurnedAwayStep, BeginStep, ConnectedStep, LockedStep, FailsStep
  <2>2. CASE Choose(r) \/ NotRead(r) BY <2>2, ChooseStep, NotReadStep
  <2>3. CASE \E content \in Contents : PartRead(r, content) \/ Downloaded(r, content)
    BY <2>3, PartReadStep, DownloadedStep
  <2>4. CASE Structure(r) \/ Opened(r) \/ Saved(r) \/ NotSaved(r)
         \/ NotWritten(r) \/ Write(r) \/ Written(r)
    BY <2>4, StructureStep, OpenedStep, SavedStep, NotSavedStep, WriteStep, WrittenStep
  <2> QED BY <1>1, <2>1, <2>2, <2>3, <2>4 DEF Continue
<1>2. CASE \E r \in Reqs : Call(r) \/ Abort(r) \/ Appears(r) \/ Lands(r)
  BY <1>2, CallStep, AbortStep, AppearsStep, LandsStep
<1>3. CASE \E a \in Accounts : Idle(a) \/ Drop(a)
  BY <1>3, IdleStep, DropStep
<1>4. CASE Dispose \/ Sweep
  BY <1>4, DisposeStep, SweepStep
<1>5. CASE \E k \in Keys : GrowOld(k)
  BY <1>5, GrowOldStep
<1>6. CASE UNCHANGED vars
  <2>1. UNCHANGED <<queue, timer, pc, at, bad, file, foreign, asked, epoch, cache>>
    BY <1>6 DEF vars, sessionVars
  <2> QED BY <2>1, SameCache, NobodyMoves
<1> QED BY <1>1, <1>2, <1>3, <1>4, <1>5, <1>6 DEF Next

---------------------------------------------------------------------------------

\* It holds in every reachable state.
THEOREM SessionAlways == Spec => []SessionInv
<1> QED BY SessionBeginsWell, SessionKeeps, PTL DEF Spec

\* Of an account one call at a time uses the connection, and no idle timer runs meanwhile
\* that would close it under the call (imap-session.ts:32-75).
THEOREM OneOnTheLine == Spec => []LineIsHeldAlone
<1>1. SessionInv => LineIsHeldAlone
  <2> SUFFICES ASSUME SessionInv, NEW a \in Accounts
               PROVE  LET using == {r \in Reqs : Account[r] = a /\ pc[r] \in Active} IN
                      Cardinality(using) <= 1 /\ (using # {} => a \notin timer)
    BY DEF LineIsHeldAlone
  <2> DEFINE using == {r \in Reqs : Account[r] = a /\ pc[r] \in Active}
  <2>1. \A r, q \in using : q = r BY OneIsFirst
  <2>2. CASE using = {}
    BY <2>2, FS_EmptySet
  <2>3. CASE using # {}
    <3>1. PICK r \in using : TRUE BY <2>3
    <3>2. using = {r} BY <2>1, <3>1
    <3>3. Cardinality(using) = 1 BY <3>2, FS_Singleton
    <3>4. a \notin timer BY <3>1 DEF SessionInv, LineFits
    <3> QED BY <3>3, <3>4
  <2> QED BY <2>2, <2>3
<1> QED BY <1>1, SessionAlways, PTL

\* What a call reports is true: a success leaves the whole file, a failure none of its own that
\* the file system would remove,
\* no file of others is touched, and "empty" is said only of what was read and was empty
\* (reader.ts:92-123, body.ts:118-167).
THEOREM TrueOutcomes == Spec => []OutcomesAreTrue
<1>1. SessionInv => OutcomesAreTrue
  BY DEF SessionInv, SessionTyped, FileFits, EmptyFits, OutcomesAreTrue
<1> QED BY <1>1, SessionAlways, PTL

\* What the cache can serve was asked for after the last change of the account's mailbox that
\* took effect while its call ran, whatever reads, drops and cancellations there were between
\* the emptying of the cache and the answer to the last command, and nothing is served from
\* it to a call with refresh (mutations.ts:97-192, 242-291, reader.ts:58-59, 82-112).
THEOREM NoStaleRead == Spec => []NothingStaleIsServed
<1>1. SessionInv => NothingStaleIsServed
  <2> SUFFICES ASSUME SessionInv PROVE NothingStaleIsServed OBVIOUS
  <2>1. ASSUME NEW r \in Refresh, pc[r] \in {"choosing", "structure"} PROVE ~Live(cache, Key(r))
    <3>1. r \in Reqs /\ pc[r] \in Asking BY <2>1, ShapeAssumption DEF Asking
    <3>2. at[r] \in 1..Len(Parts[r]) /\ Len(Parts[r]) \in Nat
      BY <2>1, <3>1, PartsAre, ShapeAssumption DEF SessionInv, KindFits
    <3>3. at[r] \in at[r]..Len(Parts[r]) BY <3>2
    <3> QED BY <3>1, <3>3 DEF SessionInv, FreshFits, Key, Live
  <2>2. \A k \in Held(cache), r \in Reqs : k \in Range(Parts[r])
            => cache.entries[k].epoch = epoch[Account[r]]
    BY DEF SessionInv, EntriesFit
  <2> QED BY <2>1, <2>2 DEF NothingStaleIsServed
<1> QED BY <1>1, SessionAlways, PTL

---------------------------------------------------------------------------------
(* The line of an account: SerialLine is implemented *)

Settled == {"ok", "error", "empty", "unreadable"}

\* What the step of a call does to its place and to its queue.
LineMove(r, p) ==
  /\ pc' = [pc EXCEPT ![r] = p]
  /\ \/ pc[r] = "new" /\ p = "error" /\ UNCHANGED queue
     \/ /\ pc[r] = "new" /\ p = "queued"
        /\ queue' = [queue EXCEPT ![Account[r]] = Append(@, r)]
     \/ pc[r] = "queued" /\ Head1(r) /\ p \in Active /\ UNCHANGED queue
     \/ pc[r] \in Active /\ p \in Active /\ UNCHANGED queue
     \/ /\ pc[r] \in Active \/ (pc[r] = "queued" /\ Head1(r))
        /\ p \in Settled
        /\ queue' = [queue EXCEPT ![Account[r]] = Tail(@)]

\* A call that settles leaves its queue.
LEMMA SettlesMoves ==
  ASSUME NEW r \in Reqs, NEW how \in Settled, NEW wrong, pc[r] \in Active, SettlesBody(r, how, wrong)
  PROVE  LineMove(r, how)
  BY DEF SettlesBody, Goto, Released, LineMove

\* What follows from a part: the call goes on, or settles.
LEMMA FollowsMoves ==
  ASSUME NEW r \in Reqs, NEW text, pc[r] \in Active, Follows(r, text)
  PROVE  \E p \in Calls : LineMove(r, p)
<1> DEFINE wrong == r \in bad \/ text \in {"blank", "wrong"}
<1>1. CASE Settles(r, "ok")
  BY <1>1, SettlesMoves DEF Settles, Settled, Calls
<1>2. CASE \E verdict \in BodyVerdict(r, wrong) : SettlesBody(r, verdict, wrong)
  <2>1. PICK verdict \in BodyVerdict(r, wrong) : SettlesBody(r, verdict, wrong) BY <1>2
  <2>2. verdict \in Settled /\ verdict \in Calls BY DEF BodyVerdict, Settled, Calls
  <2> HIDE DEF wrong
  <2> QED BY <2>1, <2>2, SettlesMoves
<1>3. CASE Goto(r, "choosing") /\ UNCHANGED sessionVars
  BY <1>3 DEF Goto, sessionVars, LineMove, Active, Calls
<1> QED BY <1>1, <1>2, <1>3 DEF Follows

\* A step moves one call, or none.
LEMMA OneMoves ==
  ASSUME [Next]_vars
  PROVE  UNCHANGED <<queue, pc>> \/ \E r \in Reqs : \E p \in Calls : LineMove(r, p)
<1>1. ASSUME NEW r \in Reqs, Call(r) \/ TurnedAway(r) \/ Begin(r) \/ Connected(r) \/ Locked(r)
      PROVE  \E p \in Calls : LineMove(r, p)
  <2>1. CASE Call(r) BY <2>1 DEF Call, Goto, LineMove, Calls
  <2>2. CASE TurnedAway(r) BY <2>2 DEF TurnedAway, Goto, Released, LineMove, Calls, Settled
  <2>3. CASE Begin(r) BY <2>3 DEF Begin, MyTurn, Goto, LineMove, Calls, Active
  <2>4. CASE Connected(r) BY <2>4 DEF Connected, Goto, LineMove, Calls, Active
  <2>5. CASE Locked(r)
    <3>1. FirstStep(r) \in {"structure", "writing", "choosing"} BY ShapeAssumption DEF FirstStep
    <3> QED BY <2>5, <3>1 DEF Locked, Goto, LineMove, Calls, Active, sessionVars
  <2> QED BY <1>1, <2>1, <2>2, <2>3, <2>4, <2>5
<1>2. ASSUME NEW r \in Reqs, Fails(r) \/ Saved(r) \/ NotSaved(r) \/ NotWritten(r) \/ Written(r)
      PROVE  \E p \in Calls : LineMove(r, p)
  <2>1. PICK how \in {"ok", "error"} : SettlesBody(r, how, FALSE)
    BY <1>2 DEF Fails, Saved, NotSaved, NotWritten, Written, Settles
  <2>2. pc[r] \in Active BY <1>2 DEF Fails, Saved, NotSaved, NotWritten, Written, Active
  <2> QED BY <2>1, <2>2, SettlesMoves DEF Settled, Calls
<1>3. ASSUME NEW r \in Reqs, Choose(r) \/ NotRead(r) \/ \E content \in Contents : PartRead(r, content)
      PROVE  \E p \in Calls : LineMove(r, p)
  <2>1. pc[r] \in Active BY <1>3 DEF Choose, NotRead, PartRead, Active
  <2>2. CASE \E text : Follows(r, text) BY <2>1, <2>2, FollowsMoves
  <2>3. CASE Goto(r, "reading") /\ UNCHANGED sessionVars
    BY <2>1, <2>3 DEF Goto, sessionVars, LineMove, Active, Calls
  <2> QED BY <1>3, <2>2, <2>3 DEF Choose, NotRead, PartRead
<1>4. ASSUME NEW r \in Reqs, Structure(r) \/ Opened(r) \/ Write(r) \/ \E content \in Contents : Downloaded(r, content)
      PROVE  \E p \in Calls : LineMove(r, p)
  BY <1>4 DEF Structure, Opened, Write, Downloaded, Goto, LineMove, Calls, Active, sessionVars
<1>5. ASSUME NEW r \in Reqs, Abort(r) \/ Appears(r) \/ Lands(r) PROVE UNCHANGED <<queue, pc>>
  BY <1>5 DEF Abort, Appears, Lands, sessionVars
<1>6. ASSUME NEW a \in Accounts, Idle(a) \/ Drop(a) PROVE UNCHANGED <<queue, pc>>
  BY <1>6 DEF Idle, Drop
<1>7. ASSUME Dispose \/ Sweep \/ \E k \in Keys : GrowOld(k) PROVE UNCHANGED <<queue, pc>>
  BY <1>7 DEF Dispose, Sweep, GrowOld, sessionVars
<1>8. CASE UNCHANGED vars BY <1>8 DEF vars, sessionVars
<1> QED BY <1>1, <1>2, <1>3, <1>4, <1>5, <1>6, <1>7, <1>8 DEF Next, Continue

\* What is in a sequence, and that it is in it once.
Elements(s) == {s[i] : i \in DOMAIN s}
Once(s)     == \A i, j \in DOMAIN s : s[i] = s[j] => i = j

\* One that joins has all before it, and is before nobody.
LEMMA JoinsAtTheEnd ==
  ASSUME NEW S, NEW s \in Seq(S), NEW x \in S, x \notin Elements(s), Once(s)
  PROVE  /\ Once(Append(s, x)) /\ Elements(Append(s, x)) = Elements(s) \union {x}
         /\ Preceding(Append(s, x), x) = Elements(s)
         /\ \A y : y # x => Preceding(Append(s, x), y) = Preceding(s, y)
<1> DEFINE t == Append(s, x)
           n == Len(s)
<1>1. /\ n \in Nat /\ DOMAIN s = 1..n /\ DOMAIN t = 1..(n + 1)
      /\ t[n + 1] = x /\ \A i \in 1..n : t[i] = s[i]
  OBVIOUS
<1>2. \A i \in DOMAIN s : s[i] # x BY DEF Elements
<1> HIDE DEF t, n
<1>3. \A i \in DOMAIN t : (i \in DOMAIN s /\ t[i] = s[i] /\ t[i] # x) \/ (i = n + 1 /\ t[i] = x)
  BY <1>1, <1>2
<1>4. Once(t)
  <2> SUFFICES ASSUME NEW i \in DOMAIN t, NEW j \in DOMAIN t, t[i] = t[j] PROVE i = j BY DEF Once
  <2> QED BY <1>3 DEF Once
<1>5. Elements(t) = Elements(s) \union {x}
  <2>1. ASSUME NEW e \in Elements(s) PROVE e \in Elements(t)
    BY <1>1 DEF Elements
  <2>2. x \in Elements(t) BY <1>1 DEF Elements
  <2>3. ASSUME NEW e \in Elements(t) PROVE e \in Elements(s) \union {x}
    BY <1>3 DEF Elements
  <2> QED BY <2>1, <2>2, <2>3
<1>6. Preceding(t, x) = Elements(s)
  <2>1. ASSUME NEW e \in Elements(s) PROVE e \in Preceding(t, x)
    <3>1. PICK i \in 1..n : e = s[i] BY <1>1 DEF Elements
    <3>2. i \in DOMAIN t /\ n + 1 \in DOMAIN t /\ i < n + 1 /\ t[i] = e /\ t[n + 1] = x BY <1>1, <3>1
    <3> QED BY <3>2 DEF Preceding
  <2>2. ASSUME NEW e \in Preceding(t, x) PROVE e \in Elements(s)
    <3>1. PICK i \in DOMAIN t : e = t[i] /\ \E j \in DOMAIN t : i < j /\ t[j] = x
      BY DEF Preceding
    <3>2. i \in DOMAIN s /\ t[i] = s[i] BY <1>1, <3>1
    <3> QED BY <3>1, <3>2 DEF Elements
  <2> QED BY <2>1, <2>2
<1>7. ASSUME NEW y, y # x PROVE Preceding(t, y) = Preceding(s, y)
  <2>1. ASSUME NEW e \in Preceding(s, y) PROVE e \in Preceding(t, y)
    BY <1>1 DEF Preceding
  <2>2. ASSUME NEW e \in Preceding(t, y) PROVE e \in Preceding(s, y)
    <3>1. PICK i \in DOMAIN t, j \in DOMAIN t : e = t[i] /\ i < j /\ t[j] = y
      BY DEF Preceding
    <3>2. i \in DOMAIN s /\ j \in DOMAIN s /\ s[i] = e /\ s[j] = y BY <1>1, <1>3, <1>7, <3>1
    <3> QED BY <3>1, <3>2 DEF Preceding
  <2> QED BY <2>1, <2>2
<1> QED BY <1>4, <1>5, <1>6, <1>7 DEF t

\* The first one leaves: nobody has it before it any more.
LEMMA FirstLeaves ==
  ASSUME NEW S, NEW s \in Seq(S), s # <<>>, Once(s)
  PROVE  /\ Once(Tail(s)) /\ Elements(Tail(s)) = Elements(s) \ {Head(s)}
         /\ Preceding(s, Head(s)) = {}
         /\ \A y : Preceding(Tail(s), y) = Preceding(s, y) \ {Head(s)}
<1> DEFINE t == Tail(s)
           n == Len(s)
<1>1. /\ n \in Nat \ {0} /\ DOMAIN s = 1..n /\ DOMAIN t = 1..(n - 1) /\ Head(s) = s[1]
      /\ \A i \in 1..(n - 1) : t[i] = s[i + 1]
  OBVIOUS
<1>2. \A i \in 1..n : s[i] = s[1] => i = 1 BY <1>1 DEF Once
<1> HIDE DEF t, n
<1>3. Once(t)
  <2> SUFFICES ASSUME NEW i \in DOMAIN t, NEW j \in DOMAIN t, t[i] = t[j] PROVE i = j BY DEF Once
  <2>1. i + 1 \in DOMAIN s /\ j + 1 \in DOMAIN s /\ s[i + 1] = s[j + 1] BY <1>1
  <2>2. i + 1 = j + 1 BY <2>1 DEF Once
  <2> QED BY <1>1, <2>2
<1>4. Elements(t) = Elements(s) \ {s[1]}
  <2>1. ASSUME NEW e \in Elements(t) PROVE e \in Elements(s) \ {s[1]}
    <3>1. PICK i \in 1..(n - 1) : e = s[i + 1] BY <1>1, <2>1 DEF Elements
    <3>2. i + 1 \in 1..n /\ i + 1 # 1 BY <1>1, <3>1
    <3> QED BY <1>1, <1>2, <3>1, <3>2 DEF Elements
  <2>2. ASSUME NEW e \in Elements(s) \ {s[1]} PROVE e \in Elements(t)
    <3>1. PICK i \in 1..n : e = s[i] BY <1>1 DEF Elements
    <3>2. i - 1 \in 1..(n - 1) /\ t[i - 1] = e BY <1>1, <2>2, <3>1
    <3> QED BY <1>1, <3>2 DEF Elements
  <2> QED BY <2>1, <2>2
<1>5. Preceding(s, s[1]) = {}
  <2> SUFFICES ASSUME NEW i \in DOMAIN s, NEW j \in DOMAIN s, i < j, s[j] = s[1] PROVE FALSE
    BY DEF Preceding
  <2> QED BY <1>1, <1>2
<1>6. ASSUME NEW y PROVE Preceding(t, y) = Preceding(s, y) \ {s[1]}
  <2>1. ASSUME NEW e \in Preceding(t, y) PROVE e \in Preceding(s, y) \ {s[1]}
    <3>1. PICK i \in DOMAIN t, j \in DOMAIN t : e = t[i] /\ i < j /\ t[j] = y
      BY DEF Preceding
    <3>2. /\ i + 1 \in DOMAIN s /\ j + 1 \in DOMAIN s /\ i + 1 < j + 1
          /\ s[i + 1] = e /\ s[j + 1] = y /\ i + 1 # 1
      BY <1>1, <3>1
    <3>3. e # s[1] BY <1>1, <1>2, <3>2
    <3> QED BY <3>2, <3>3 DEF Preceding
  <2>2. ASSUME NEW e \in Preceding(s, y) \ {s[1]} PROVE e \in Preceding(t, y)
    <3>1. PICK i \in DOMAIN s, j \in DOMAIN s : e = s[i] /\ i < j /\ s[j] = y
      BY DEF Preceding
    <3>2. /\ i - 1 \in DOMAIN t /\ j - 1 \in DOMAIN t /\ i - 1 < j - 1
          /\ t[i - 1] = e /\ t[j - 1] = y
      BY <1>1, <2>2, <3>1
    <3> QED BY <3>2 DEF Preceding
  <2> QED BY <2>1, <2>2
<1> QED BY <1>1, <1>3, <1>4, <1>5, <1>6 DEF t

\* What a state of the sessions says of the queues.
LEMMA QueuesAre ==
  ASSUME SessionInv, QueueIsExact
  PROVE  /\ \A r \in Reqs : Account[r] \in Accounts /\ pc[r] \in Calls
         /\ \A a \in Accounts : /\ queue[a] \in Seq(Reqs) /\ Once(queue[a])
                                /\ Elements(queue[a]) = Unsettled(a)
  BY ShapeAssumption DEF SessionInv, SessionTyped, QueueIsExact, Once, Elements

\* Whoever is at work, or is next, is the first of the queue.
LEMMA FirstOfAll ==
  ASSUME SessionInv, NEW r \in Reqs, pc[r] \in Active \/ (pc[r] = "queued" /\ Head1(r))
  PROVE  queue[Account[r]] # <<>> /\ Head(queue[Account[r]]) = r
  BY DEF SessionInv, LineFits, Head1

\* The kinds of places are apart.
LEMMA PlacesApart ==
  /\ Active \intersect {"new", "queued", "ok", "error", "empty", "unreadable"} = {}
  /\ Settled \intersect {"new", "queued"} = {} /\ "error" \in Settled
  BY DEF Active, Settled

\* A queue stays exact: who joins is added, who settles is removed, nobody else.
LEMMA MoveKeepsExact ==
  ASSUME SessionInv, QueueIsExact, NEW r \in Reqs, NEW p \in Calls, LineMove(r, p)
  PROVE  QueueIsExact'
<1> DEFINE a == Account[r]
<1>1. /\ a \in Accounts /\ queue \in [Accounts -> Seq(Reqs)]
      /\ \A q \in Reqs : pc'[q] = IF q = r THEN p ELSE pc[q]
  BY QueuesAre DEF SessionInv, SessionTyped, LineMove
<1>2. SUFFICES ASSUME NEW b \in Accounts
               PROVE  Once(queue'[b]) /\ Elements(queue'[b]) = Unsettled(b)'
  BY DEF QueueIsExact, Once, Elements
<1>3. Once(queue[b]) /\ Elements(queue[b]) = Unsettled(b) /\ queue[b] \in Seq(Reqs) BY QueuesAre
<1>4. ASSUME UNCHANGED queue,
             pc[r] \in Active \union {"queued"} <=> p \in Active \union {"queued"}
      PROVE  Once(queue'[b]) /\ Elements(queue'[b]) = Unsettled(b)'
  <2>1. Unsettled(b)' = Unsettled(b) BY <1>1, <1>4 DEF Unsettled
  <2> QED BY <1>3, <1>4, <2>1
<1>5. CASE pc[r] = "new" /\ p = "queued" /\ queue' = [queue EXCEPT ![a] = Append(@, r)]
  <2>1. Unsettled(b)' = IF b = a THEN Unsettled(b) \union {r} ELSE Unsettled(b)
    BY <1>1, <1>5 DEF Unsettled
  <2>2. queue'[b] = IF b = a THEN Append(queue[b], r) ELSE queue[b] BY <1>1, <1>5
  <2>3. r \notin Elements(queue[b]) BY <1>3, <1>5, PlacesApart DEF Unsettled
  <2>4. /\ Once(Append(queue[b], r))
        /\ Elements(Append(queue[b], r)) = Elements(queue[b]) \union {r}
    BY <1>3, <2>3, JoinsAtTheEnd
  <2> QED BY <1>3, <2>1, <2>2, <2>4
<1>6. CASE /\ pc[r] \in Active \/ (pc[r] = "queued" /\ Head1(r))
           /\ p \in Settled /\ queue' = [queue EXCEPT ![a] = Tail(@)]
  <2>1. p \notin Active \union {"queued"} BY <1>6, PlacesApart DEF Settled
  <2>2. Unsettled(b)' = IF b = a THEN Unsettled(b) \ {r} ELSE Unsettled(b)
    BY <1>1, <2>1 DEF Unsettled
  <2>3. queue'[b] = IF b = a THEN Tail(queue[b]) ELSE queue[b] BY <1>1, <1>6
  <2>4. queue[a] # <<>> /\ Head(queue[a]) = r BY <1>6, FirstOfAll
  <2> QED BY <1>3, <2>2, <2>3, <2>4, FirstLeaves
<1>7. CASE pc[r] = "new" /\ p = "error" /\ UNCHANGED queue
  BY <1>4, <1>7, PlacesApart
<1>8. CASE pc[r] = "queued" /\ Head1(r) /\ p \in Active /\ UNCHANGED queue
  BY <1>4, <1>8
<1>9. CASE pc[r] \in Active /\ p \in Active /\ UNCHANGED queue
  BY <1>4, <1>9
<1> QED BY <1>5, <1>6, <1>7, <1>8, <1>9 DEF LineMove

\* The queue of an account holds the calls that have not settled, each once
\* (imap-session.ts:31-33, 74).
THEOREM ExactQueue == Spec => []QueueIsExact
<1>1. Init => QueueIsExact
  BY ShapeAssumption DEF Init, QueueIsExact, Unsettled, Active
<1>2. SessionInv /\ QueueIsExact /\ [Next]_vars => QueueIsExact'
  <2> SUFFICES ASSUME SessionInv, QueueIsExact, [Next]_vars PROVE QueueIsExact' OBVIOUS
  <2>1. CASE UNCHANGED <<queue, pc>>
    BY <2>1 DEF QueueIsExact, Unsettled
  <2> QED BY <2>1, OneMoves, MoveKeepsExact
<1> QED BY <1>1, <1>2, SessionAlways, PTL DEF Spec

\* What the steps of the line are, of the places and queues of the sessions.
LEMMA PlacesAre ==
  ASSUME SessionInv, QueueIsExact
  PROVE  /\ \A q \in Reqs : Standing(q) \in {"waiting", "using"} <=> pc[q] \in Active \union {"queued"}
         /\ \A q \in Reqs : Line!Present(Account[q]) = Elements(queue[Account[q]])
<1>1. \A q \in Reqs : Standing(q) \in {"waiting", "using"} <=> pc[q] \in Active \union {"queued"}
  BY PlacesApart DEF Standing
<1>2. \A b : Line!Present(b) = Unsettled(b)
  BY <1>1 DEF Line!Present, Line!Here, Unsettled
<1> QED BY <1>1, <1>2, QueuesAre

\* Each move of a call is one of the line, or none at all.
LEMMA MoveIsOfTheLine ==
  ASSUME SessionInv, QueueIsExact, NEW r \in Reqs, NEW p \in Calls, LineMove(r, p)
  PROVE  [Line!Next]_(Line!vars)
<1> DEFINE a == Account[r]
           there(q) == Preceding(queue[Account[q]], q)
<1>1. /\ a \in Accounts /\ queue \in [Accounts -> Seq(Reqs)]
      /\ \A q \in Reqs : Account[q] \in Accounts /\ pc'[q] = IF q = r THEN p ELSE pc[q]
  BY QueuesAre DEF SessionInv, SessionTyped, LineMove
<1>2. \A q \in Reqs : q # r => Standing(q)' = Standing(q) BY <1>1 DEF Standing
<1>3. queue[a] \in Seq(Reqs) /\ Once(queue[a]) /\ Elements(queue[a]) = Unsettled(a)
  BY <1>1, QueuesAre
<1>4. CASE pc[r] = "new" /\ p = "error" /\ UNCHANGED queue
  <2>1. Standing(r) = "new" /\ Standing(r)' = "gone"
    BY <1>1, <1>4, PlacesApart DEF Standing
  <2>2. \A q \in Reqs : there(q)' = there(q) BY <1>4
  <2>3. Line!Refuse(r) BY <1>2, <2>1, <2>2 DEF Line!Refuse, Line!Goes
  <2> QED BY <2>3 DEF Line!Next
<1>5. CASE pc[r] = "new" /\ p = "queued" /\ queue' = [queue EXCEPT ![a] = Append(@, r)]
  <2>1. Standing(r) = "new" /\ Standing(r)' = "waiting"
    BY <1>1, <1>5, PlacesApart DEF Standing
  <2>2. r \notin Unsettled(a) BY <1>5, PlacesApart DEF Unsettled
  <2>3. \A q \in Reqs : there(q)' = IF q = r THEN Elements(queue[a]) ELSE there(q)
    <3>1. ASSUME NEW q \in Reqs
          PROVE  queue'[Account[q]] = IF Account[q] = a THEN Append(queue[a], r) ELSE queue[Account[q]]
      BY <1>1, <1>5
    <3> QED BY <1>3, <2>2, <3>1, JoinsAtTheEnd
  <2>4. Line!Join(r)
    BY <1>2, <2>1, <2>3, PlacesAre DEF Line!Join, Line!Goes
  <2> QED BY <2>4 DEF Line!Next
<1>6. CASE pc[r] = "queued" /\ Head1(r) /\ p \in Active /\ UNCHANGED queue
  <2>1. Standing(r) = "waiting" /\ Standing(r)' = "using"
    BY <1>1, <1>6, PlacesApart DEF Standing
  <2>2. there(r) = {} BY <1>3, <1>6, FirstLeaves DEF Head1
  <2>3. \A q \in Reqs : there(q)' = there(q) BY <1>6
  <2>4. Line!Enter(r) BY <1>2, <2>1, <2>2, <2>3 DEF Line!Enter, Line!Goes
  <2> QED BY <2>4 DEF Line!Next
<1>7. CASE pc[r] \in Active /\ p \in Active /\ UNCHANGED queue
  <2>1. Standing(r)' = Standing(r)
    BY <1>1, <1>7, PlacesApart DEF Standing
  <2>2. \A q \in Reqs : there(q)' = there(q) BY <1>7
  <2> QED BY <1>2, <2>1, <2>2 DEF Line!vars
<1>8. CASE /\ pc[r] \in Active \/ (pc[r] = "queued" /\ Head1(r))
           /\ p \in Settled /\ queue' = [queue EXCEPT ![a] = Tail(@)]
  <2>1. Standing(r)' = "gone" /\ Standing(r) \in {"waiting", "using"}
    BY <1>1, <1>8, PlacesApart DEF Standing, Settled
  <2>2. queue[a] # <<>> /\ Head(queue[a]) = r BY <1>8, FirstOfAll
  <2>3. \A q \in Reqs : there(q)' = IF q = r THEN {} ELSE there(q) \ {r}
    <3>1. ASSUME NEW q \in Reqs
          PROVE  queue'[Account[q]] = IF Account[q] = a THEN Tail(queue[a]) ELSE queue[Account[q]]
      BY <1>1, <1>8
    <3>2. there(r) = {} BY <1>3, <2>2, FirstLeaves
    <3>3. ASSUME NEW q \in Reqs, Account[q] # a PROVE r \notin there(q)
      <4>1. Elements(queue[Account[q]]) = Unsettled(Account[q]) BY <1>1, QueuesAre
      <4>2. r \notin Unsettled(Account[q]) BY <3>3 DEF Unsettled
      <4> QED BY <4>1, <4>2 DEF Preceding, Elements
    <3>4. ASSUME NEW q \in Reqs, Account[q] = a PROVE there(q)' = there(q) \ {r}
      BY <1>3, <2>2, <3>1, <3>4, FirstLeaves
    <3>5. ASSUME NEW q \in Reqs, Account[q] # a PROVE there(q)' = there(q) \ {r}
      BY <3>1, <3>3, <3>5
    <3> QED BY <3>2, <3>4, <3>5
  <2>4. {r} \in SUBSET Line!Here BY <2>1 DEF Line!Here
  <2>5. Line!Leave({r}) BY <1>2, <2>1, <2>3 DEF Line!Leave
  <2> QED BY <2>4, <2>5 DEF Line!Next
<1> QED BY <1>4, <1>5, <1>6, <1>7, <1>8 DEF LineMove

\* The calls of an account take turns in the order in which they came, whatever fails, is
\* cancelled or closed: the queue of promises is a line (imap-session.ts:32-75).
THEOREM SessionsKeepTheLine == Spec => KeepsTheLine
<1>1. Init => Line!Init
  <2> SUFFICES ASSUME Init PROVE Line!Init OBVIOUS
  <2>1. \A r \in Reqs : Standing(r) = "new" BY PlacesApart DEF Init, Standing
  <2>2. \A r \in Reqs : queue[Account[r]] = <<>> BY ShapeAssumption DEF Init
  <2>3. \A r \in Reqs : Preceding(queue[Account[r]], r) = {} BY <2>2 DEF Preceding
  <2> QED BY <2>1, <2>3 DEF Line!Init
<1>2. SessionInv /\ QueueIsExact /\ [Next]_vars => [Line!Next]_(Line!vars)
  <2> SUFFICES ASSUME SessionInv, QueueIsExact, [Next]_vars PROVE [Line!Next]_(Line!vars) OBVIOUS
  <2>1. CASE UNCHANGED <<queue, pc>>
    BY <2>1 DEF Line!vars, Standing
  <2> QED BY <2>1, OneMoves, MoveIsOfTheLine
<1> QED BY <1>1, <1>2, SessionAlways, ExactQueue, PTL DEF Spec, KeepsTheLine, Line!Spec

\* One at a time uses the line of an account, and of any two that are there one waits for the
\* other: what a line is for follows from its being one (imap-session.ts:32-75).
THEOREM SessionsTakeTurns == Spec => []Line!InTurn
<1> DEFINE there(q) == Preceding(queue[Account[q]], q)
<1>1. ASSUME SessionInv, QueueIsExact PROVE Line!InTurn
  <2>1. /\ \A q \in Reqs : q \in Line!Here <=> q \in Elements(queue[Account[q]])
        /\ \A q \in Reqs : Line!Present(Account[q]) = Elements(queue[Account[q]])
    BY <1>1, PlacesAre DEF Line!Here, Line!Present
  <2>2. ASSUME NEW r \in Reqs
        PROVE  there(r) \subseteq Elements(queue[Account[r]]) \ {r}
    <3>1. Once(queue[Account[r]]) /\ queue[Account[r]] \in Seq(Reqs) BY <1>1, QueuesAre
    <3> QED BY <3>1 DEF Once, Elements, Preceding
  <2>3. ASSUME NEW r \in Reqs, r \notin Line!Here PROVE there(r) = {}
    <3>1. r \notin Elements(queue[Account[r]]) BY <2>1, <2>3
    <3> QED BY <3>1 DEF Elements, Preceding
  <2>4. ASSUME NEW r \in Line!Here, NEW q \in Line!Here, Account[r] = Account[q], r # q
        PROVE  r \in there(q) <=> q \notin there(r)
    <3> DEFINE s == queue[Account[r]]
    <3>1. /\ Once(s) /\ s \in Seq(Reqs) /\ r \in Elements(s) /\ q \in Elements(s)
          /\ s = queue[Account[q]]
      BY <1>1, <2>1, <2>4, QueuesAre DEF Line!Here
    <3> HIDE DEF s
    <3>2. PICK i \in DOMAIN s, j \in DOMAIN s : s[i] = r /\ s[j] = q BY <3>1 DEF Elements
    <3>3. i # j /\ i \in Nat /\ j \in Nat BY <2>4, <3>1, <3>2
    <3>4. \A k \in DOMAIN s : (s[k] = r <=> k = i) /\ (s[k] = q <=> k = j)
      BY <3>1, <3>2 DEF Once
    <3>5. r \in Preceding(s, q) <=> i < j BY <3>2, <3>4 DEF Preceding
    <3>6. q \in Preceding(s, r) <=> j < i BY <3>2, <3>4 DEF Preceding
    <3> QED BY <3>1, <3>3, <3>5, <3>6 DEF s
  <2>5. ASSUME NEW r \in Reqs, Standing(r) = "using" PROVE there(r) = {}
    <3>1. pc[r] \in Active BY <2>5, PlacesApart DEF Standing
    <3>2. queue[Account[r]] # <<>> /\ Head(queue[Account[r]]) = r BY <1>1, <3>1, FirstOfAll
    <3>3. Once(queue[Account[r]]) /\ queue[Account[r]] \in Seq(Reqs) BY <1>1, QueuesAre
    <3> QED BY <3>2, <3>3, FirstLeaves
  <2>6. Line!Here \subseteq Reqs BY DEF Line!Here
  <2> HIDE DEF there
  <2>7. Line!InTurn = (/\ \A u \in Reqs : there(u) \subseteq Line!Present(Account[u]) \ {u}
                       /\ \A u \in Reqs : u \notin Line!Here => there(u) = {}
                       /\ \A u, v \in Line!Here : Account[u] = Account[v] /\ u # v
                                                    => (u \in there(v) <=> v \notin there(u))
                       /\ \A u \in Reqs : Standing(u) = "using" => there(u) = {})
    BY <2>6 DEF Line!InTurn, there
  <2> QED BY <2>1, <2>2, <2>3, <2>4, <2>5, <2>7
<1> QED BY <1>1, SessionAlways, ExactQueue, PTL

---------------------------------------------------------------------------------
(* Sums over finite sets *)

\* Induction on a finite set: what holds of a set whenever it holds of the set without any
\* one of its elements holds of all.
LEMMA SmallSetsFirst ==
  ASSUME NEW S, IsFiniteSet(S), NEW Good \in SUBSET SUBSET S,
         \A s \in SUBSET S : (\A x \in s : s \ {x} \in Good) => s \in Good
  PROVE  Good = SUBSET S
<1> SUFFICES ASSUME NEW s \in SUBSET S, s \notin Good PROVE FALSE
  OBVIOUS
<1> DEFINE Wrong == {t \in SUBSET S : t \notin Good}
           Sizes == {n \in Nat : \E t \in Wrong : Cardinality(t) = n}
<1>1. \A t \in Wrong : IsFiniteSet(t) /\ Cardinality(t) \in Sizes
  <2> TAKE t \in Wrong
  <2>1. t \in SUBSET S /\ IsFiniteSet(t) BY FS_Subset
  <2>2. Cardinality(t) \in Nat BY <2>1, FS_CardinalityType
  <2> QED BY <2>1, <2>2
<1>2. PICK n \in Sizes : \A m \in Sizes : n <= m
  <2>1. s \in Wrong OBVIOUS
  <2>2. Sizes \in SUBSET Nat /\ Sizes # {} BY <1>1, <2>1
  <2> HIDE DEF Sizes
  <2> QED BY <2>2, Smallest
<1>3. PICK t \in Wrong : Cardinality(t) = n
  OBVIOUS
<1>4. PICK x \in t : t \ {x} \notin Good
  OBVIOUS
<1>5. t \ {x} \in Wrong
  BY <1>4
<1>6. Cardinality(t \ {x}) = n - 1
  BY <1>1, <1>3, <1>4, FS_RemoveElement
<1>7. n - 1 \in Sizes /\ n \in Nat
  BY <1>1, <1>5, <1>6
<1> QED BY <1>2, <1>7

\* Induction on numbers.
LEMMA Upwards ==
  ASSUME NEW Good \in SUBSET Nat, 0 \in Good, \A n \in Good : n + 1 \in Good
  PROVE  Good = Nat
<1> SUFFICES ASSUME NEW k \in Nat, k \notin Good PROVE FALSE
  OBVIOUS
<1> DEFINE Wrong == {n \in Nat : n \notin Good}
<1>1. Wrong \in SUBSET Nat /\ Wrong # {} OBVIOUS
<1>2. PICK n \in Wrong : \A m \in Wrong : n <= m
  <2> HIDE DEF Wrong
  <2> QED BY <1>1, Smallest
<1>3. n \in Nat /\ n # 0 /\ n \notin Good OBVIOUS
<1>4. n - 1 \in Nat /\ (n - 1) + 1 = n BY <1>3
<1>5. n - 1 \in Good BY <1>2, <1>4
<1> QED BY <1>3, <1>4, <1>5

\* The key that the sum takes first.
FirstOf(s) == CHOOSE x \in s : TRUE

\* One step of the recursion, from the sums f.
Sums(f, c, s) == IF s = {} THEN 0 ELSE c.entries[FirstOf(s)].bytes + f[s \ {FirstOf(s)}]

\* f sums up the sets in D.
IsSum(f, c, D) == f = [s \in D |-> Sums(f, c, s)]

\* Bytes is the fold of the community modules, which is a recursive function on the
\* subsets.
LEMMA BytesAreASum ==
  ASSUME NEW c, NEW S
  PROVE  Bytes(c, S) = (CHOOSE f : IsSum(f, c, SUBSET S))[S]
  BY DEF Bytes, MapThenSumSet, MapThenFoldSet, IsSum, Sums, FirstOf

\* Such a function exists: one on the sets of n elements gives one on those of n + 1.
LEMMA SumExists ==
  ASSUME NEW c, NEW S, IsFiniteSet(S)
  PROVE  \E f : IsSum(f, c, SUBSET S)
<1> DEFINE Upto(n) == {s \in SUBSET S : Cardinality(s) <= n}
           Good    == {n \in Nat : \E f : IsSum(f, c, Upto(n))}
<1>0. \A s \in SUBSET S : IsFiniteSet(s) /\ Cardinality(s) \in Nat
  BY FS_Subset, FS_CardinalityType
<1>1. 0 \in Good
  <2> DEFINE f == [s \in Upto(0) |-> 0]
  <2>1. \A s \in Upto(0) : s = {}
    <3> TAKE s \in Upto(0)
    <3>1. IsFiniteSet(s) /\ Cardinality(s) = 0 BY <1>0
    <3> QED BY <3>1, FS_EmptySet
  <2>2. IsSum(f, c, Upto(0)) BY <2>1 DEF IsSum, Sums
  <2> QED BY <2>2
<1>2. ASSUME NEW n \in Good PROVE n + 1 \in Good
  <2>1. PICK f : IsSum(f, c, Upto(n)) OBVIOUS
  <2> DEFINE g == [s \in Upto(n + 1) |-> Sums(f, c, s)]
  <2>2. \A s \in Upto(n) : s \in Upto(n + 1) /\ g[s] = f[s]
    <3> TAKE s \in Upto(n)
    <3>1. s \in Upto(n + 1) BY <1>0
    <3>2. f[s] = Sums(f, c, s) BY <2>1 DEF IsSum
    <3> QED BY <3>1, <3>2
  <2>3. ASSUME NEW s \in Upto(n + 1), s # {}
        PROVE  s \ {FirstOf(s)} \in Upto(n)
    <3>1. FirstOf(s) \in s BY <2>3 DEF FirstOf
    <3>2. Cardinality(s \ {FirstOf(s)}) = Cardinality(s) - 1
      BY <1>0, <3>1, FS_RemoveElement
    <3>3. Cardinality(s) - 1 <= n BY <1>0
    <3> QED BY <3>2, <3>3
  <2>4. \A s \in Upto(n + 1) : Sums(f, c, s) = Sums(g, c, s)
    <3> HIDE DEF g
    <3> QED BY <2>2, <2>3 DEF Sums
  <2>5. IsSum(g, c, Upto(n + 1))
    BY <2>4 DEF IsSum
  <2>6. n + 1 \in Nat OBVIOUS
  <2> HIDE DEF g, Upto
  <2> QED BY <2>5, <2>6
<1>3. Good = Nat
  <2>1. Good \in SUBSET Nat OBVIOUS
  <2> HIDE DEF Good
  <2> QED BY <1>1, <1>2, <2>1, Upwards
<1>4. Cardinality(S) \in Nat /\ Upto(Cardinality(S)) = SUBSET S
  BY FS_Subset, FS_CardinalityType
<1>5. PICK f : IsSum(f, c, Upto(Cardinality(S)))
  BY <1>3, <1>4
<1> QED BY <1>4, <1>5

\* Two of them agree where both are defined.
LEMMA SumsAgree ==
  ASSUME NEW S, IsFiniteSet(S), NEW c, NEW C, S \subseteq C,
         NEW f, NEW g, IsSum(f, c, SUBSET C), IsSum(g, c, SUBSET S)
  PROVE  f[S] = g[S]
<1> DEFINE Good == {s \in SUBSET S : f[s] = g[s]}
<1>1. ASSUME NEW s \in SUBSET S, \A x \in s : s \ {x} \in Good PROVE s \in Good
  <2>1. f[s] = Sums(f, c, s) /\ g[s] = Sums(g, c, s) BY DEF IsSum
  <2>2. CASE s = {} BY <2>1, <2>2 DEF Sums
  <2>3. CASE s # {}
    <3>1. FirstOf(s) \in s BY <2>3 DEF FirstOf
    <3>2. f[s \ {FirstOf(s)}] = g[s \ {FirstOf(s)}] BY <1>1, <3>1
    <3> QED BY <2>1, <2>3, <3>1, <3>2 DEF Sums
  <2> QED BY <2>2, <2>3
<1>2. Good \in SUBSET SUBSET S OBVIOUS
<1> HIDE DEF Good
<1>3. Good = SUBSET S BY <1>1, <1>2, SmallSetsFirst
<1> QED BY <1>3 DEF Good

\* The sum, as the recursion defines it.
LEMMA BytesOf ==
  ASSUME NEW c, NEW S, IsFiniteSet(S)
  PROVE  /\ Bytes(c, {}) = 0
         /\ S # {} => /\ FirstOf(S) \in S
                      /\ Bytes(c, S) = c.entries[FirstOf(S)].bytes + Bytes(c, S \ {FirstOf(S)})
<1>1. ASSUME NEW R, IsFiniteSet(R)
      PROVE  \E f : IsSum(f, c, SUBSET R) /\ Bytes(c, R) = f[R]
  <2>1. \E f : IsSum(f, c, SUBSET R) BY <1>1, SumExists
  <2> DEFINE f == CHOOSE f : IsSum(f, c, SUBSET R)
  <2>2. IsSum(f, c, SUBSET R) BY <2>1
  <2>3. Bytes(c, R) = f[R] BY BytesAreASum
  <2> HIDE DEF f
  <2> QED BY <2>2, <2>3
<1>2. Bytes(c, {}) = 0
  <2>1. IsFiniteSet({}) BY FS_EmptySet
  <2>2. PICK f : IsSum(f, c, SUBSET {}) /\ Bytes(c, {}) = f[{}] BY <1>1, <2>1
  <2> QED BY <2>2 DEF IsSum, Sums
<1>3. ASSUME S # {}
      PROVE  /\ FirstOf(S) \in S
             /\ Bytes(c, S) = c.entries[FirstOf(S)].bytes + Bytes(c, S \ {FirstOf(S)})
  <2> DEFINE R == S \ {FirstOf(S)}
  <2>1. FirstOf(S) \in S BY <1>3 DEF FirstOf
  <2>2. IsFiniteSet(R) BY FS_RemoveElement
  <2>3. PICK f : IsSum(f, c, SUBSET S) /\ Bytes(c, S) = f[S] BY <1>1
  <2>4. PICK g : IsSum(g, c, SUBSET R) /\ Bytes(c, R) = g[R] BY <1>1, <2>2
  <2>5. R \subseteq S OBVIOUS
  <2>6. f[S] = Sums(f, c, S) BY <2>3 DEF IsSum
  <2> HIDE DEF R
  <2>7. f[R] = g[R]
    <3>1. IsSum(f, c, SUBSET S) /\ IsSum(g, c, SUBSET R) /\ R \subseteq R BY <2>3, <2>4
    <3> QED BY <2>2, <2>5, <3>1, SumsAgree
  <2> QED BY <1>3, <2>1, <2>3, <2>4, <2>6, <2>7 DEF Sums, R
<1> QED BY <1>2, <1>3

\* Nothing has no bytes.
LEMMA BytesNone ==
  ASSUME NEW c, NEW S, S = {}
  PROVE  IsFiniteSet(S) /\ Bytes(c, S) = 0
<1>1. IsFiniteSet({}) BY FS_EmptySet
<1>2. Bytes(c, {}) = 0 BY <1>1, BytesOf
<1> QED BY <1>1, <1>2

\* The sizes are numbers.
Sized(c, S) == IsFiniteSet(S) /\ \A k \in S : c.entries[k].bytes \in Nat

\* A sum of numbers is a number.
LEMMA BytesNat ==
  ASSUME NEW c, NEW S, Sized(c, S)
  PROVE  Bytes(c, S) \in Nat
<1> DEFINE Good == {s \in SUBSET S : Bytes(c, s) \in Nat}
<1>1. ASSUME NEW s \in SUBSET S, \A x \in s : s \ {x} \in Good PROVE s \in Good
  <2>1. IsFiniteSet(s) BY FS_Subset DEF Sized
  <2>2. CASE s = {} BY <2>2, BytesNone
  <2>3. CASE s # {}
    <3>1. FirstOf(s) \in s /\ Bytes(c, s) = c.entries[FirstOf(s)].bytes + Bytes(c, s \ {FirstOf(s)})
      BY <2>1, <2>3, BytesOf
    <3>2. Bytes(c, s \ {FirstOf(s)}) \in Nat BY <1>1, <3>1
    <3>3. c.entries[FirstOf(s)].bytes \in Nat BY <3>1 DEF Sized
    <3> QED BY <3>1, <3>2, <3>3
  <2> QED BY <2>2, <2>3
<1>2. Good \in SUBSET SUBSET S OBVIOUS
<1> HIDE DEF Good
<1>3. Good = SUBSET S BY <1>1, <1>2, SmallSetsFirst DEF Sized
<1> QED BY <1>3 DEF Good

\* Whichever key is taken first, the sum is the same.
LEMMA BytesLess ==
  ASSUME NEW c, NEW S, Sized(c, S), NEW x \in S
  PROVE  Bytes(c, S) = c.entries[x].bytes + Bytes(c, S \ {x})
<1> DEFINE b(k) == c.entries[k].bytes
           Good == {s \in SUBSET S : \A y \in s : Bytes(c, s) = b(y) + Bytes(c, s \ {y})}
<1>1. ASSUME NEW s \in SUBSET S, \A y \in s : s \ {y} \in Good PROVE s \in Good
  <2> SUFFICES ASSUME NEW y \in s PROVE Bytes(c, s) = b(y) + Bytes(c, s \ {y})
    OBVIOUS
  <2> DEFINE z == FirstOf(s)
  <2>1. IsFiniteSet(s) BY FS_Subset DEF Sized
  <2>2. z \in s /\ Bytes(c, s) = b(z) + Bytes(c, s \ {z}) BY <2>1, BytesOf
  <2> HIDE DEF z
  <2>3. CASE y = z BY <2>2, <2>3
  <2>4. CASE y # z
    <3> DEFINE r == s \ {y, z}
    <3>1. (s \ {z}) \ {y} = r /\ (s \ {y}) \ {z} = r OBVIOUS
    <3>2. Bytes(c, s \ {z}) = b(y) + Bytes(c, r) BY <1>1, <2>2, <2>4, <3>1
    <3>3. Bytes(c, s \ {y}) = b(z) + Bytes(c, r) BY <1>1, <2>2, <2>4, <3>1
    <3>4. b(y) \in Nat /\ b(z) \in Nat BY <2>2 DEF Sized
    <3>5. Bytes(c, r) \in Nat
      <4>1. r \in SUBSET S OBVIOUS
      <4>2. Sized(c, r) BY <4>1, FS_Subset DEF Sized
      <4> QED BY <4>2, BytesNat
    <3> HIDE DEF b, r
    <3> QED BY <2>2, <3>2, <3>3, <3>4, <3>5
  <2> QED BY <2>3, <2>4
<1>2. Good \in SUBSET SUBSET S OBVIOUS
<1> HIDE DEF Good
<1>3. Good = SUBSET S BY <1>1, <1>2, SmallSetsFirst DEF Sized
<1> QED BY <1>3 DEF Good

\* The sum is that of a part and that of the rest.
LEMMA BytesSplit ==
  ASSUME NEW c, NEW S, Sized(c, S), NEW T \in SUBSET S
  PROVE  Bytes(c, S) = Bytes(c, T) + Bytes(c, S \ T)
<1> DEFINE Good == {s \in SUBSET T : Bytes(c, s \union (S \ T)) = Bytes(c, s) + Bytes(c, S \ T)}
<1>0. Sized(c, S \ T) /\ \A s \in SUBSET T : Sized(c, s) /\ Sized(c, s \union (S \ T))
  BY FS_Subset DEF Sized
<1>1. ASSUME NEW s \in SUBSET T, \A y \in s : s \ {y} \in Good PROVE s \in Good
  <2>1. Bytes(c, S \ T) \in Nat BY <1>0, BytesNat
  <2>2. CASE s = {}
    <3>1. Bytes(c, s) = 0 BY <2>2, BytesNone
    <3>2. Bytes(c, s \union (S \ T)) = Bytes(c, S \ T)
      <4>1. s \union (S \ T) = S \ T BY <2>2
      <4> QED BY <4>1, Zenon
    <3>3. Bytes(c, s \union (S \ T)) = Bytes(c, s) + Bytes(c, S \ T) BY <2>1, <3>1, <3>2
    <3> QED BY <3>3
  <2>3. CASE s # {}
    <3>1. PICK y \in s : TRUE BY <2>3
    <3>2. (s \union (S \ T)) \ {y} = (s \ {y}) \union (S \ T) BY <3>1
    <3>3. Bytes(c, s) = c.entries[y].bytes + Bytes(c, s \ {y})
      <4>1. Sized(c, s) /\ y \in s BY <1>0, <3>1
      <4> HIDE DEF Good
      <4> QED BY <4>1, BytesLess
    <3>4. Bytes(c, s \union (S \ T)) = c.entries[y].bytes + Bytes(c, (s \ {y}) \union (S \ T))
      BY <1>0, <3>1, <3>2, BytesLess
    <3>5. Bytes(c, (s \ {y}) \union (S \ T)) = Bytes(c, s \ {y}) + Bytes(c, S \ T)
      BY <1>1, <3>1
    <3>6. c.entries[y].bytes \in Nat BY <3>1 DEF Sized
    <3>7. Bytes(c, s \ {y}) \in Nat BY <1>0, BytesNat
    <3> QED BY <2>1, <3>3, <3>4, <3>5, <3>6, <3>7
  <2> QED BY <2>2, <2>3
<1>2. Good \in SUBSET SUBSET T /\ IsFiniteSet(T)
  BY <1>0 DEF Sized
<1> HIDE DEF Good
<1>3. Good = SUBSET T BY <1>1, <1>2, SmallSetsFirst
<1>4. T \union (S \ T) = S OBVIOUS
<1> QED BY <1>3, <1>4 DEF Good

\* The sum depends on the sizes only.
LEMMA BytesSame ==
  ASSUME NEW S, IsFiniteSet(S), NEW c, NEW d, \A k \in S : c.entries[k].bytes = d.entries[k].bytes
  PROVE  Bytes(c, S) = Bytes(d, S)
<1> DEFINE Good == {s \in SUBSET S : Bytes(c, s) = Bytes(d, s)}
<1>1. ASSUME NEW s \in SUBSET S, \A x \in s : s \ {x} \in Good PROVE s \in Good
  <2>1. IsFiniteSet(s) BY FS_Subset
  <2>2. CASE s = {} BY <2>2, BytesNone
  <2>3. CASE s # {}
    <3> DEFINE z == FirstOf(s)
    <3>1. z \in s /\ Bytes(c, s) = c.entries[z].bytes + Bytes(c, s \ {z})
      BY <2>1, <2>3, BytesOf
    <3>2. Bytes(d, s) = d.entries[z].bytes + Bytes(d, s \ {z})
      BY <2>1, <2>3, BytesOf
    <3> HIDE DEF z
    <3>3. Bytes(c, s \ {z}) = Bytes(d, s \ {z}) BY <1>1, <3>1
    <3> QED BY <3>1, <3>2, <3>3
  <2> QED BY <2>2, <2>3
<1>2. Good \in SUBSET SUBSET S OBVIOUS
<1> HIDE DEF Good
<1>3. Good = SUBSET S BY <1>1, <1>2, SmallSetsFirst
<1> QED BY <1>3 DEF Good

---------------------------------------------------------------------------------
(* The cache adds up *)

\* Nothing is used after itself, and what is used later than later is later.
Ordered(c) ==
  /\ \A k \in Held(c) : k \notin c.entries[k].later
  /\ \A i, j, k \in Held(c) : j \in c.entries[i].later /\ k \in c.entries[j].later
        => k \in c.entries[i].later

\* The sum is exact, and the order of use is one.
Counted(c) == Sized(c, Held(c)) /\ Ordered(c) /\ c.used = Bytes(c, Held(c))

\* The inductive invariant of the cache, beside SessionInv.
AddsUp(c) == Counted(c) /\ c.used <= MaxBytes /\ (~c.on => Held(c) = {})

\* What is kept has the sizes and the order it had.
LEMMA KeptCounts ==
  ASSUME NEW c, IsCache(c), Counted(c), NEW ks \in SUBSET Held(c), NEW d, IsRecord(d),
         d.entries = Kept(c, ks)
  PROVE  /\ Held(d) = ks /\ Sized(d, ks) /\ Ordered(d) /\ Bytes(d, ks) = Bytes(c, ks)
<1>1. Held(d) = ks BY KeptEntries
<1>2. \A k \in ks : /\ d.entries[k].bytes = c.entries[k].bytes
                    /\ d.entries[k].later = c.entries[k].later \intersect ks
  <2> TAKE k \in ks
  <2>1. d.entries[k] = [c.entries[k] EXCEPT !.later = @ \intersect ks] BY DEF Kept
  <2>2. IsEntry(c.entries[k]) BY DEF IsCache
  <2> DEFINE e == c.entries[k]
             later == e.later \intersect ks
  <2> HIDE DEF e, later
  <2>3. [e EXCEPT !.later = later].bytes = e.bytes /\ [e EXCEPT !.later = later].later = later
    BY <2>2 DEF IsEntry, e
  <2> QED BY <2>1, <2>3 DEF e, later
<1>3. IsFiniteSet(ks) BY FS_Subset DEF Counted, Sized
<1>4. Sized(d, ks) BY <1>2, <1>3 DEF Counted, Sized
<1>5. Ordered(d) BY <1>1, <1>2 DEF Counted, Ordered
<1>6. Bytes(d, ks) = Bytes(c, ks) BY <1>2, <1>3, BytesSame
<1> QED BY <1>1, <1>4, <1>5, <1>6

\* What is used is a number.
LEMMA UsedNat ==
  ASSUME NEW c, Counted(c)
  PROVE  c.used \in Nat
  BY BytesNat DEF Counted

\* Whatever is removed, its size is subtracted once, and what was not there is not
\* subtracted (cache.ts:70-76).
LEMMA WithoutCounts ==
  ASSUME NEW c, IsCache(c), Counted(c), NEW ks
  PROVE  LET d == Without(c, ks) IN
         /\ Counted(d) /\ Held(d) = Held(c) \ ks /\ d.on = c.on
         /\ d.used = c.used - Bytes(c, Held(c) \intersect ks)
         /\ d.used <= c.used
<1> DEFINE d       == Without(c, ks)
           out     == Held(c) \intersect ks
           entries == Kept(c, Held(c) \ ks)
           used    == c.used - Bytes(c, out)
<1>1. d = [c EXCEPT !.entries = entries, !.used = used]
  BY DEF Without
<1> HIDE DEF d, entries, used
<1>2. IsRecord(d) /\ d.entries = entries /\ d.on = c.on /\ d.used = used
  BY <1>1 DEF IsCache, IsRecord
<1>3. d.entries = Kept(c, Held(c) \ ks) BY <1>2 DEF entries
<1>4. Held(c) \ ks \in SUBSET Held(c) /\ out \in SUBSET Held(c)
        /\ Held(c) \ out = Held(c) \ ks OBVIOUS
<1>5. /\ Held(d) = Held(c) \ ks /\ Sized(d, Held(c) \ ks) /\ Ordered(d)
      /\ Bytes(d, Held(c) \ ks) = Bytes(c, Held(c) \ ks)
  BY <1>2, <1>3, <1>4, KeptCounts
<1>6. Bytes(c, Held(c)) = Bytes(c, out) + Bytes(c, Held(c) \ out)
  <2> HIDE DEF out
  <2> QED BY <1>4, BytesSplit DEF Counted
<1>7. Bytes(c, out) \in Nat /\ Bytes(c, Held(c) \ out) \in Nat
  <2>1. Sized(c, out) /\ Sized(c, Held(c) \ out) BY <1>4, FS_Subset DEF Counted, Sized
  <2> QED BY <2>1, BytesNat
<1>8. used = Bytes(c, Held(c) \ ks) /\ used <= c.used
  <2>1. used = c.used - Bytes(c, out) /\ c.used = Bytes(c, Held(c)) BY DEF used, Counted
  <2>2. Bytes(c, Held(c) \ out) = Bytes(c, Held(c) \ ks) BY <1>4
  <2> HIDE DEF out
  <2> QED BY <1>6, <1>7, <2>1, <2>2
<1>9. Counted(d) BY <1>2, <1>5, <1>8 DEF Counted
<1>10. d.used = c.used - Bytes(c, Held(c) \intersect ks) BY <1>2 DEF used
<1> QED BY <1>2, <1>5, <1>8, <1>9, <1>10 DEF d

\* Of some entries one was used before all the others.
LEMMA OldestOf ==
  ASSUME NEW c, Counted(c), NEW K \in SUBSET Held(c), K # {}
  PROVE  \E k \in K : Before(c, k) \intersect K = {}
<1> DEFINE Sizes == {n \in Nat : \E k \in K : Cardinality(Before(c, k)) = n}
<1>1. \A k \in K : IsFiniteSet(Before(c, k)) /\ Cardinality(Before(c, k)) \in Sizes
  <2> TAKE k \in K
  <2>1. Before(c, k) \in SUBSET Held(c) BY DEF Before
  <2>2. IsFiniteSet(Before(c, k)) BY <2>1, FS_Subset DEF Counted, Sized
  <2> QED BY <2>2, FS_CardinalityType
<1>2. Sizes \in SUBSET Nat /\ Sizes # {} BY <1>1
<1>3. PICK n \in Sizes : \A m \in Sizes : n <= m
  <2> HIDE DEF Sizes
  <2> QED BY <1>2, Smallest
<1>4. PICK k \in K : Cardinality(Before(c, k)) = n OBVIOUS
<1>5. ASSUME NEW j \in Before(c, k) \intersect K PROVE FALSE
  <2>1. Before(c, j) \in SUBSET Before(c, k) /\ j \notin Before(c, j)
    BY DEF Before, Counted, Ordered
  <2>2. Cardinality(Before(c, j)) <= Cardinality(Before(c, k))
          /\ Cardinality(Before(c, j)) # Cardinality(Before(c, k))
    BY <1>1, <2>1, FS_Subset
  <2>3. Cardinality(Before(c, j)) \in Sizes /\ n \in Nat BY <1>1
  <2>4. n <= Cardinality(Before(c, j)) BY <1>3, <2>3
  <2>5. Cardinality(Before(c, j)) \in Nat BY <2>3
  <2> QED BY <1>4, <2>2, <2>3, <2>4, <2>5
<1> QED BY <1>5

\* Evicting the least recently used first makes room for any entry that is not larger than
\* the cache: the loop of put() ends with the sum within the limit, or with an empty cache
\* (cache.ts:57-59).
LEMMA EvictedFits ==
  ASSUME NEW c, IsCache(c), Counted(c), NEW room \in Nat, room <= MaxBytes
  PROVE  LET d == Evicted(c, room) IN
         /\ Counted(d) /\ d.on = c.on /\ Held(d) \subseteq Held(c) /\ d.used + room <= MaxBytes
<1> DEFINE gone == {k \in Held(c) : c.used - Bytes(c, Before(c, k)) + room > MaxBytes}
           d    == Evicted(c, room)
           K    == Held(c) \ gone
<1>1. d = Without(c, gone) BY DEF Evicted
<1> HIDE DEF d
<1>2. gone \in SUBSET Held(c) /\ Held(c) \intersect gone = gone OBVIOUS
<1>3. /\ Counted(d) /\ Held(d) = K /\ d.on = c.on
      /\ d.used = c.used - Bytes(c, gone)
  <2> HIDE DEF gone
  <2> QED BY <1>1, <1>2, WithoutCounts
<1>4. d.used \in Nat /\ c.used \in Nat /\ MaxBytes \in Nat BY <1>3, UsedNat, ShapeAssumption
<1>5. d.used + room <= MaxBytes
  <2>1. CASE K = {}
    <3>1. d.used = 0 BY <1>3, <2>1, BytesNone DEF Counted
    <3> QED BY <1>4, <3>1
  <2>2. CASE K # {}
    <3>1. PICK k \in K : Before(c, k) \intersect K = {}
      <4>1. K \in SUBSET Held(c) OBVIOUS
      <4> HIDE DEF K
      <4> QED BY <2>2, <4>1, OldestOf
    <3> DEFINE old == Before(c, k)
    <3>2. old \in SUBSET gone
      <4>1. old \subseteq Held(c) BY DEF Before
      <4> QED BY <3>1, <4>1
    <3>3. c.used - Bytes(c, old) + room <= MaxBytes /\ Bytes(c, old) \in Nat
      <4>1. Sized(c, old) BY <3>2, FS_Subset DEF Counted, Sized, Before
      <4>2. Bytes(c, old) \in Nat BY <4>1, BytesNat
      <4>3. ~(c.used - Bytes(c, old) + room > MaxBytes) BY <3>1
      <4> HIDE DEF old
      <4> QED BY <1>4, <4>2, <4>3
    <3>4. Bytes(c, gone) = Bytes(c, old) + Bytes(c, gone \ old) /\ Bytes(c, gone \ old) \in Nat
      <4>1. Sized(c, gone) /\ Sized(c, gone \ old) BY <1>2, FS_Subset DEF Counted, Sized
      <4> HIDE DEF gone, old
      <4> QED BY <3>2, <4>1, BytesSplit, BytesNat
    <3> HIDE DEF gone, old
    <3> QED BY <1>3, <1>4, <3>3, <3>4
  <2> QED BY <2>1, <2>2
<1> QED BY <1>3, <1>5 DEF d

\* The entry comes last in the order, and its size replaces that of the entry it replaces.
LEMMA LatestCounts ==
  ASSUME NEW c, IsCache(c), Counted(c), NEW k, NEW entry, IsEntry(entry), entry.bytes \in Nat,
         NEW d, IsRecord(d), d.entries = Latest(c, k, entry)
  PROVE  /\ Held(d) = Held(c) \union {k} /\ Sized(d, Held(d)) /\ Ordered(d)
         /\ Bytes(d, Held(d)) = entry.bytes + Bytes(c, Held(c) \ {k})
<1>1. Held(d) = Held(c) \union {k} BY DEF Held, Latest
<1>2. d.entries[k].bytes = entry.bytes /\ d.entries[k].later = {}
  <2>1. d.entries[k] = [entry EXCEPT !.later = {}] BY DEF Latest
  <2> QED BY <2>1 DEF IsEntry
<1>3. \A j \in Held(c) : j # k => /\ d.entries[j].bytes = c.entries[j].bytes
                                  /\ d.entries[j].later = c.entries[j].later \union {k}
  <2> TAKE j \in Held(c)
  <2> HAVE j # k
  <2>1. d.entries[j] = [c.entries[j] EXCEPT !.later = @ \union {k}] BY DEF Latest
  <2>2. IsEntry(c.entries[j]) BY DEF IsCache
  <2> DEFINE e == c.entries[j]
             later == e.later \union {k}
  <2> HIDE DEF e, later
  <2>3. [e EXCEPT !.later = later].bytes = e.bytes /\ [e EXCEPT !.later = later].later = later
    BY <2>2 DEF IsEntry, e
  <2> QED BY <2>1, <2>3 DEF e, later
<1>4. IsFiniteSet(Held(d)) BY <1>1, FS_AddElement DEF Counted, Sized
<1>5. Sized(d, Held(d)) BY <1>1, <1>2, <1>3, <1>4 DEF Counted, Sized
<1>6. Ordered(d)
  <2>1. \A j \in Held(d) : j = k \/ (j \in Held(c) /\ j # k) BY <1>1
  <2>2. \A j \in Held(d) : j \notin d.entries[j].later
    BY <1>2, <1>3, <2>1 DEF Counted, Ordered
  <2>3. ASSUME NEW h \in Held(d), NEW i \in Held(d), NEW j \in Held(d),
               i \in d.entries[h].later, j \in d.entries[i].later
        PROVE  j \in d.entries[h].later
    <3>1. h # k /\ h \in Held(c) /\ i # k /\ i \in Held(c) BY <1>2, <2>1, <2>3
    <3>2. CASE j = k BY <1>3, <3>1, <3>2
    <3>3. CASE j # k
      <4>1. j \in Held(c) /\ i \in c.entries[h].later /\ j \in c.entries[i].later
        BY <1>3, <2>1, <2>3, <3>1, <3>3
      <4> QED BY <1>3, <3>1, <4>1 DEF Counted, Ordered
    <3> QED BY <3>2, <3>3
  <2> QED BY <2>2, <2>3 DEF Ordered
<1>7. Bytes(d, Held(d)) = entry.bytes + Bytes(c, Held(c) \ {k})
  <2>1. k \in Held(d) /\ Held(d) \ {k} = Held(c) \ {k} BY <1>1
  <2>2. Bytes(d, Held(d)) = d.entries[k].bytes + Bytes(d, Held(d) \ {k})
    BY <1>5, <2>1, BytesLess
  <2>3. IsFiniteSet(Held(c) \ {k}) BY FS_RemoveElement DEF Counted, Sized
  <2>4. Bytes(d, Held(c) \ {k}) = Bytes(c, Held(c) \ {k})
    <3>1. \A j \in Held(c) \ {k} : d.entries[j].bytes = c.entries[j].bytes BY <1>3
    <3> QED BY <2>3, <3>1, BytesSame
  <2> QED BY <1>2, <2>1, <2>2, <2>4
<1> QED BY <1>1, <1>5, <1>6, <1>7

\* A lookup moves its entry to the end, or removes one that grew old (cache.ts:36-46).
LEMMA GotAddsUp ==
  ASSUME NEW c, IsCache(c), AddsUp(c), NEW k
  PROVE  AddsUp(Got(c, k))
<1>1. CASE Live(c, k)
  <2>1. k \in Held(c) /\ IsEntry(c.entries[k]) /\ c.entries[k].bytes \in Nat
    BY <1>1 DEF Live, IsCache, AddsUp, Counted, Sized
  <2> DEFINE d       == Got(c, k)
             entries == Latest(c, k, c.entries[k])
  <2>2. d = [c EXCEPT !.entries = entries] BY <1>1 DEF Got
  <2> HIDE DEF d, entries
  <2>3. IsRecord(d) /\ d.entries = entries /\ d.used = c.used /\ d.on = c.on
    BY <2>2 DEF IsCache, IsRecord
  <2>4. d.entries = Latest(c, k, c.entries[k]) BY <2>3 DEF entries
  <2>5. Counted(c) BY DEF AddsUp
  <2>6. /\ Held(d) = Held(c) \union {k} /\ Sized(d, Held(d)) /\ Ordered(d)
        /\ Bytes(d, Held(d)) = c.entries[k].bytes + Bytes(c, Held(c) \ {k})
    <3>1. \A e : IsEntry(e) /\ e.bytes \in Nat /\ d.entries = Latest(c, k, e)
                 => /\ Held(d) = Held(c) \union {k} /\ Sized(d, Held(d)) /\ Ordered(d)
                    /\ Bytes(d, Held(d)) = e.bytes + Bytes(c, Held(c) \ {k})
      BY <2>3, <2>5, LatestCounts
    <3> QED BY <2>1, <2>4, <3>1
  <2>7. Bytes(c, Held(c)) = c.entries[k].bytes + Bytes(c, Held(c) \ {k})
    BY <2>1, <2>5, BytesLess DEF Counted
  <2>8. Held(d) = Held(c) BY <2>1, <2>6
  <2> QED BY <2>3, <2>6, <2>7, <2>8 DEF AddsUp, Counted, d
<1>2. CASE ~Live(c, k)
  <2>1. Got(c, k) = Without(c, {k}) BY <1>2 DEF Got
  <2>2. c.used \in Nat /\ MaxBytes \in Nat BY UsedNat, ShapeAssumption DEF AddsUp
  <2> DEFINE d == Without(c, {k})
  <2>3. Counted(d) /\ Held(d) \subseteq Held(c) /\ d.on = c.on /\ d.used <= c.used
    BY WithoutCounts DEF AddsUp
  <2>4. d.used \in Nat BY <2>3, UsedNat
  <2> HIDE DEF d
  <2>5. AddsUp(d) BY <2>2, <2>3, <2>4 DEF AddsUp
  <2> QED BY <2>1, <2>5 DEF d
<1> QED BY <1>1, <1>2

\* Removing keeps it.
LEMMA WithoutAddsUp ==
  ASSUME NEW c, IsCache(c), AddsUp(c), NEW ks
  PROVE  AddsUp(Without(c, ks))
<1>1. c.used \in Nat /\ MaxBytes \in Nat BY UsedNat, ShapeAssumption DEF AddsUp
<1> DEFINE d == Without(c, ks)
<1>2. Counted(d) /\ Held(d) \subseteq Held(c) /\ d.on = c.on /\ d.used <= c.used
  BY WithoutCounts DEF AddsUp
<1>3. d.used \in Nat BY <1>2, UsedNat
<1> HIDE DEF d
<1>4. AddsUp(d) BY <1>1, <1>2, <1>3 DEF AddsUp
<1> QED BY <1>4 DEF d

\* put() keeps it, whatever it sweeps and evicts, and if it refuses the entry.
LEMMA PutAddsUp ==
  ASSUME NEW c, IsCache(c), AddsUp(c), NEW k, NEW content, content.bytes \in Nat, NEW when
  PROVE  AddsUp(Put(c, k, content, when))
<1> DEFINE bytes == content.bytes
           rest  == Without(c, {k})
           swept == IF rest.used + bytes > MaxBytes THEN Swept(rest) ELSE rest
           room  == Evicted(swept, bytes)
           entry ==
             [bytes |-> bytes, text |-> content.text, old |-> FALSE, epoch |-> when, later |-> {}]
           full  == [room EXCEPT !.entries = Latest(room, k, entry), !.used = room.used + bytes]
           d     == Put(c, k, content, when)
<1>1. IsCache(rest) /\ AddsUp(rest) /\ k \notin Held(rest) /\ rest.on = c.on
  <2>1. IsCache(rest) /\ Held(rest) = Held(c) \ {k} /\ rest.on = c.on BY WithoutEntries
  <2>2. AddsUp(rest) BY WithoutAddsUp
  <2> QED BY <2>1, <2>2
<1>2. IsCache(swept) /\ AddsUp(swept) /\ k \notin Held(swept) /\ swept.on = c.on
  <2> HIDE DEF rest
  <2>1. /\ IsCache(Swept(rest)) /\ Held(Swept(rest)) \subseteq Held(rest) /\ AddsUp(Swept(rest))
        /\ Swept(rest).on = rest.on
    <3> DEFINE ks == {j \in Held(rest) : rest.entries[j].old}
    <3>1. Swept(rest) = Without(rest, ks) BY DEF Swept
    <3> HIDE DEF ks
    <3>2. IsCache(Without(rest, ks)) /\ Held(Without(rest, ks)) = Held(rest) \ ks
            /\ Without(rest, ks).on = rest.on
      BY <1>1, WithoutEntries
    <3>3. AddsUp(Without(rest, ks)) BY <1>1, WithoutAddsUp
    <3> QED BY <3>1, <3>2, <3>3
  <2> QED BY <1>1, <2>1
<1>3. CASE c.on /\ ~(bytes > MaxEntryBytes \/ bytes > MaxBytes)
  <2>1. bytes \in Nat /\ bytes <= MaxBytes BY <1>3, ShapeAssumption
  <2>2. /\ IsCache(room) /\ Counted(room) /\ room.on = c.on /\ k \notin Held(room)
        /\ room.used + bytes <= MaxBytes
    <3> HIDE DEF swept, bytes
    <3>1. Counted(swept) BY <1>2 DEF AddsUp
    <3>2. Counted(room) /\ room.on = swept.on /\ Held(room) \subseteq Held(swept)
            /\ room.used + bytes <= MaxBytes
      BY <1>2, <2>1, <3>1, EvictedFits
    <3>3. IsCache(room) BY <1>2, WithoutEntries DEF Evicted
    <3> QED BY <1>2, <3>2, <3>3
  <2>3. IsEntry(entry) /\ entry.bytes = bytes BY DEF IsEntry
  <2> DEFINE entries == Latest(room, k, entry)
             used    == room.used + bytes
  <2> HIDE DEF room, entry, entries, used, bytes
  <2>4. full = [room EXCEPT !.entries = entries, !.used = used] BY DEF entries, used
  <2> HIDE DEF full
  <2>5. IsRecord(full) /\ full.entries = entries /\ full.used = used /\ full.on = room.on
    BY <2>2, <2>4 DEF IsCache, IsRecord
  <2>6. full.entries = Latest(room, k, entry) BY <2>5 DEF entries
  <2>7. /\ Held(full) = Held(room) \union {k} /\ Sized(full, Held(full)) /\ Ordered(full)
        /\ Bytes(full, Held(full)) = entry.bytes + Bytes(room, Held(room) \ {k})
    BY <2>1, <2>2, <2>3, <2>5, <2>6, LatestCounts
  <2>8. Held(room) \ {k} = Held(room) /\ room.used = Bytes(room, Held(room)) /\ room.used \in Nat
    BY <2>2, UsedNat DEF Counted
  <2>9. Bytes(full, Held(full)) = bytes + room.used BY <2>3, <2>7, <2>8
  <2>10. full.used = Bytes(full, Held(full)) /\ full.used <= MaxBytes
    BY <2>1, <2>2, <2>5, <2>8, <2>9 DEF used
  <2>11. AddsUp(full) BY <1>3, <2>2, <2>5, <2>7, <2>10 DEF AddsUp, Counted
  <2>12. d = full BY <1>3 DEF Put, full, room, entry, bytes
  <2> QED BY <2>11, <2>12
<1>4. CASE ~c.on \/ bytes > MaxEntryBytes \/ bytes > MaxBytes
  <2>1. d = c \/ d = rest BY <1>4 DEF Put
  <2> HIDE DEF d, rest
  <2>2. AddsUp(d) BY <1>1, <2>1
  <2> QED BY <2>2 DEF d
<1> QED BY <1>3, <1>4

\* An empty cache adds up.
LEMMA EmptyAddsUp ==
  ASSUME NEW c, Held(c) = {}, c.used = 0
  PROVE  AddsUp(c)
<1>1. Bytes(c, Held(c)) = 0 /\ IsFiniteSet(Held(c)) BY BytesNone
<1> QED BY <1>1, ShapeAssumption DEF AddsUp, Counted, Sized, Ordered

\* Every step keeps it.
LEMMA CacheAddsUpStep ==
  ASSUME SessionInv, AddsUp(cache), [Next]_vars
  PROVE  AddsUp(cache')
<1>0. IsCache(cache) BY DEF SessionInv, SessionTyped
<1>1. CASE cache' = cache BY <1>1
<1>2. CASE \E ks : cache' = Without(cache, ks) BY <1>0, <1>2, WithoutAddsUp
<1>3. CASE \E k : cache' = Got(cache, k) BY <1>0, <1>3, GotAddsUp
<1>4. CASE \E k, when : \E content \in Contents : cache' = Put(cache, k, content, when)
  <2>1. PICK k, when : \E content \in Contents : cache' = Put(cache, k, content, when) BY <1>4
  <2>2. PICK content \in Contents : cache' = Put(cache, k, content, when) BY <2>1
  <2>3. content.bytes \in Nat BY ShapeAssumption
  <2> QED BY <1>0, <2>2, <2>3, PutAddsUp
<1>5. CASE cache' = Emptied(cache)
  <2>1. Held(Emptied(cache)) = {} BY <1>0, EmptiedEntries
  <2>2. Emptied(cache).used = 0 BY <1>0 DEF Emptied, IsCache, IsRecord
  <2> QED BY <1>5, <2>1, <2>2, EmptyAddsUp
<1>6. CASE Dispose
  <2> DEFINE c == Emptied(cache)
  <2>1. IsCache(c) /\ Held(c) = {} BY <1>0, EmptiedEntries
  <2>2. c.used = 0 BY <1>0 DEF Emptied, IsCache, IsRecord
  <2>3. cache' = [c EXCEPT !.on = FALSE] BY <1>6 DEF Dispose
  <2> HIDE DEF c
  <2>4. cache'.entries = c.entries /\ cache'.used = 0 BY <2>1, <2>2, <2>3 DEF IsCache, IsRecord
  <2>5. Held(cache') = {} BY <2>1, <2>4 DEF Held
  <2> QED BY <2>4, <2>5, EmptyAddsUp
<1>7. CASE \E k \in Keys : GrowOld(k)
  <2>1. PICK k \in Keys : GrowOld(k) BY <1>7
  <2> DEFINE e == cache.entries[k]
             new == [e EXCEPT !.old = TRUE]
             entries == [cache.entries EXCEPT ![k] = new]
  <2>2. k \in Held(cache) /\ IsEntry(e) BY <1>0, <2>1 DEF GrowOld, Live, IsCache
  <2>3. cache' = [cache EXCEPT !.entries = entries] BY <2>1 DEF GrowOld
  <2>4. new.bytes = e.bytes /\ new.later = e.later
    <3> HIDE DEF e
    <3> QED BY <2>2 DEF IsEntry
  <2> HIDE DEF new
  <2>5. /\ DOMAIN entries = Held(cache)
        /\ \A j \in Held(cache) : entries[j] = IF j = k THEN new ELSE cache.entries[j]
    BY DEF Held
  <2> HIDE DEF entries
  <2>6. cache'.entries = entries /\ cache'.used = cache.used /\ cache'.on = cache.on
    BY <1>0, <2>3 DEF IsCache, IsRecord
  <2>7. Held(cache') = Held(cache) BY <2>5, <2>6 DEF Held
  <2>8. \A j \in Held(cache) : /\ cache'.entries[j].bytes = cache.entries[j].bytes
                               /\ cache'.entries[j].later = cache.entries[j].later
    BY <2>4, <2>5, <2>6
  <2>9. IsFiniteSet(Held(cache)) BY DEF AddsUp, Counted, Sized
  <2>10. Bytes(cache', Held(cache)) = Bytes(cache, Held(cache)) BY <2>8, <2>9, BytesSame
  <2> QED BY <2>6, <2>7, <2>8, <2>10 DEF AddsUp, Counted, Sized, Ordered
<1>8. \/ cache' = cache
      \/ \E ks : cache' = Without(cache, ks)
      \/ \E k : cache' = Got(cache, k)
      \/ \E k, when : \E content \in Contents : cache' = Put(cache, k, content, when)
      \/ cache' = Emptied(cache)
      \/ Dispose \/ \E k \in Keys : GrowOld(k)
  <2>1. ASSUME NEW r \in Reqs, NEW content \in Contents,
               PartRead(r, content) \/ Downloaded(r, content)
        PROVE  cache' = cache \/ \E k, when : cache' = Put(cache, k, content, when)
    BY <2>1 DEF PartRead, Downloaded
  <2>2. ASSUME NEW r \in Reqs, Choose(r) \/ Structure(r) PROVE \E k : cache' = Got(cache, k)
    BY <2>2 DEF Choose, Structure
  <2>3. ASSUME NEW r \in Reqs, Locked(r) PROVE cache' = cache \/ \E ks : cache' = Without(cache, ks)
    BY <2>3 DEF Locked, WithoutParts
  <2>4. CASE Sweep BY <2>4 DEF Sweep, Swept
  <2>5. ASSUME NEW r \in Reqs, Write(r) PROVE cache' = Emptied(cache) BY <2>5 DEF Write
  <2>6. ASSUME NEW r \in Reqs,
               Call(r) \/ Abort(r) \/ Appears(r) \/ TurnedAway(r) \/ Begin(r) \/ Connected(r)
                 \/ Fails(r) \/ NotRead(r) \/ Opened(r) \/ Saved(r) \/ NotSaved(r)
                 \/ NotWritten(r) \/ Lands(r) \/ Written(r)
        PROVE  cache' = cache
    BY <2>6 DEF Call, Abort, Appears, TurnedAway, Begin, Connected, Fails, NotRead, Opened, Saved,
       NotSaved, NotWritten, Lands, Written
  <2>7. ASSUME NEW a \in Accounts, Idle(a) \/ Drop(a) PROVE cache' = cache BY <2>7 DEF Idle, Drop
  <2>8. CASE UNCHANGED vars BY <2>8 DEF vars
  <2>9. ASSUME NEW r \in Reqs, Continue(r)
        PROVE  \/ cache' = cache \/ (\E ks : cache' = Without(cache, ks))
               \/ (\E k : cache' = Got(cache, k))
               \/ (\E k, when : \E content \in Contents : cache' = Put(cache, k, content, when))
               \/ cache' = Emptied(cache)
    BY <2>1, <2>2, <2>3, <2>5, <2>6, <2>9 DEF Continue
  <2> QED BY <2>4, <2>6, <2>7, <2>8, <2>9 DEF Next
<1> QED BY <1>1, <1>2, <1>3, <1>4, <1>5, <1>6, <1>7, <1>8

\* The cache counts exactly the bytes it holds, never holds more than its limit, and holds
\* nothing once it is disposed (cache.ts:36-93), for any sizes, limits and calls.
THEOREM TheCacheAddsUp == Spec => []CacheAddsUp
<1>1. Init => AddsUp(cache)
  <2> SUFFICES ASSUME Init PROVE AddsUp(cache) OBVIOUS
  <2>1. Held(cache) = {} /\ cache.used = 0 BY DEF Init, Held
  <2> QED BY <2>1, EmptyAddsUp
<1>2. SessionInv /\ AddsUp(cache) /\ [Next]_vars => AddsUp(cache)'
  BY CacheAddsUpStep
<1>3. AddsUp(cache) => CacheAddsUp BY DEF AddsUp, Counted, CacheAddsUp
<1> QED BY <1>1, <1>2, <1>3, SessionAlways, PTL DEF Spec

---------------------------------------------------------------------------------
(* A batch: the inductive invariant *)

\* How many changes there are, and the flag of change k.
L == Len(plan.changes)
Flag(k) == plan.changes[k].flag

\* planFor(): the changes are of different flags, and only a batch that ends with them purges.
PlanOK ==
  /\ plan.changes \in Seq(Changes) /\ plan.final \in {"none", "move", "purge"}
  /\ plan.final = "none" => L > 0
  /\ \A j, k \in 1..L : Flag(j) = Flag(k) => j = k

\* Where the call may be, by its plan and by what it has done so far.
PhaseOK ==
  /\ phase \in {"start", "fetched", "store", "storing", "verify", "move", "moving",
               "purge", "purging", "locate", "report", "done"}
  /\ index \in Nat /\ (phase \in {"start", "fetched"} => index = 1)
  /\ phase \in {"store", "storing", "verify"} => index \in 1..L
  /\ phase \in {"move", "moving"} => plan.final = "move"
  /\ phase \in {"purge", "purging"} => plan.final = "purge"
  /\ phase = "locate" => plan.final # "none"
  /\ phase = "done" <=> outcome # "none"
  /\ pending # {} => phase \notin {"start", "fetched"}
  /\ wrote => ~cached
  /\ phase \in {"storing", "moving", "purging"} => wrote

\* Step k has been done to the mail m; or m is, as far as step k goes, as it was (b).
EffectOn(m, k) ==
  IF k <= L THEN (Flag(k) \in m.flags) = plan.changes[k].add
            ELSE m.at = IF plan.final = "purge" THEN "gone" ELSE "target"
NoEffectOn(m, b, k) ==
  IF k <= L THEN Flag(k) \in m.flags <=> Flag(k) \in b.flags ELSE m.at = b.at

\* The mail m, which was b, in a call that is at place p of change i: no step that has not
\* been sent has had an effect, and nothing else has changed.
MailFits(m, b, found, i, p) ==
  /\ ~found => m = b
  /\ found => b.at = "source"
  /\ \A f \in Flags : (\A k \in 1..L : Flag(k) # f) => (f \in m.flags <=> f \in b.flags)
  /\ \A k \in 1..(L + 1) : NoEffectOn(m, b, k) \/ EffectOn(m, k)
  /\ \A k \in 1..L : i < k \/ (k = i /\ p \in {"start", "fetched", "store", "storing"})
        => NoEffectOn(m, b, k)
  /\ plan.final = "none" \/ p \notin {"locate", "report", "done"} => m.at = b.at

\* The result of step k is still to be looked up.
Open(u, k) ==
  \/ k \in pending /\ phase \in {"store", "storing", "verify"}
  \/ k = L + 1 /\ phase = "locate" /\ u \notin mapped

\* What is reported of step k is so, but for what is still open.
StepFits(s, m, b, k, open) ==
  /\ s = "success" => EffectOn(m, k)
  /\ s = "failed" => open \/ NoEffectOn(m, b, k)

\* Every mail and every step is as it should be.
MailsOK == \A u \in Uids : MailFits(server[u], before[u], u \in present, index, phase)
StepsOK == \A u \in present : \A k \in 1..StepCount :
             StepFits(steps[u][k], server[u], before[u], k, Open(u, k))

\* Before the first command nothing has changed.
BeginOK == /\ phase = "start" => present = {}
           /\ phase \in {"start", "fetched"} => server = before

\* The inductive invariant of a batch.
BatchInv == TypeOK /\ PlanOK /\ PhaseOK /\ MailsOK /\ StepsOK /\ BeginOK /\ SummaryIsTrue

---------------------------------------------------------------------------------
(* What the commands do to a mail, and what stays *)

\* The sequence of changes and its length.
LEMMA Lengths ==
  ASSUME PlanOK
  PROVE  /\ L \in Nat /\ StepCount \in Nat /\ L <= StepCount /\ StepCount <= L + 1
         /\ StepCount > 0
         /\ plan.final = "none" => StepCount = L
         /\ plan.final # "none" => StepCount = L + 1
         /\ \A k \in 1..L : plan.changes[k] \in Changes /\ Flag(k) \in Flags
               /\ plan.changes[k].add \in BOOLEAN
<1>1. L \in Nat /\ \A k \in 1..L : plan.changes[k] \in Changes
  BY DEF PlanOK, L
<1>2. \A k \in 1..L : Flag(k) \in Flags /\ plan.changes[k].add \in BOOLEAN
  BY <1>1 DEF Flag, Changes
<1>3. StepCount = L + (IF plan.final = "none" THEN 0 ELSE 1)
  BY DEF StepCount, L
<1> QED BY <1>1, <1>2, <1>3 DEF PlanOK

\* A STORE changes the flag of its change, and nothing else.
LEMMA StoredMail ==
  ASSUME PlanOK, NEW m \in Mails, NEW b \in Mails, index \in 1..L
  PROVE  LET n == Stored(m) IN
         /\ n \in Mails /\ n.at = m.at
         /\ EffectOn(n, index)
         /\ \A f \in Flags : f # Flag(index) => (f \in n.flags <=> f \in m.flags)
         /\ \A k \in 1..(L + 1) : k # index => /\ EffectOn(n, k) <=> EffectOn(m, k)
                                               /\ NoEffectOn(n, b, k) <=> NoEffectOn(m, b, k)
<1> DEFINE n == Stored(m)
           fl == IF Change.add THEN m.flags \union {Flag(index)} ELSE m.flags \ {Flag(index)}
<1>1. Flag(index) \in Flags /\ Change.add \in BOOLEAN /\ Change.flag = Flag(index) /\ L \in Nat
      /\ \A k \in 1..L : Flag(k) \in Flags /\ (k # index => Flag(k) # Flag(index))
  BY Lengths DEF Change, Flag, PlanOK
<1>2. n = [m EXCEPT !.flags = fl]
  BY <1>1 DEF Stored
<1>3. n \in Mails /\ n.at = m.at /\ n.flags = fl
  BY <1>1, <1>2 DEF Mails
<1> HIDE DEF n
<1>4. EffectOn(n, index)
  BY <1>1, <1>3 DEF EffectOn, Change
<1>5. \A f \in Flags : f # Flag(index) => (f \in n.flags <=> f \in m.flags)
  BY <1>3
<1>6. \A k \in 1..(L + 1) : k # index => /\ EffectOn(n, k) <=> EffectOn(m, k)
                                         /\ NoEffectOn(n, b, k) <=> NoEffectOn(m, b, k)
  BY <1>1, <1>3, <1>5 DEF EffectOn, NoEffectOn
<1> QED BY <1>3, <1>4, <1>5, <1>6 DEF n

\* Where the mail goes at last its flags stay.
LEMMA LastMail ==
  ASSUME PlanOK, NEW m \in Mails, NEW b \in Mails, NEW place \in {"target", "gone"},
         place = IF plan.final = "purge" THEN "gone" ELSE "target"
  PROVE  LET n == [m EXCEPT !.at = place] IN
         /\ n \in Mails /\ n.flags = m.flags
         /\ EffectOn(n, L + 1)
         /\ \A k \in 1..L : /\ EffectOn(n, k) <=> EffectOn(m, k)
                            /\ NoEffectOn(n, b, k) <=> NoEffectOn(m, b, k)
<1> DEFINE n == [m EXCEPT !.at = place]
<1>1. n \in Mails /\ n.flags = m.flags /\ n.at = place
  BY DEF Mails
<1>2. L \in Nat BY Lengths
<1> HIDE DEF n
<1> QED BY <1>1, <1>2 DEF n, EffectOn, NoEffectOn

\* A call that is not over goes on.
LEMMA GoesOn ==
  ASSUME BatchInv, UNCHANGED <<serverVars, outcome>>, phase # "done", phase' # "done",
         TypeOK', PhaseOK', MailsOK', StepsOK', BeginOK'
  PROVE  BatchInv'
<1>1. outcome = "none" BY DEF BatchInv, PhaseOK
<1>2. PlanOK' BY DEF serverVars, BatchInv, PlanOK, L, Flag
<1> QED BY <1>1, <1>2 DEF BatchInv, SummaryIsTrue

\* A call that is not over goes on, and the mails stay as they are.
LEMMA MailsStay ==
  ASSUME BatchInv, UNCHANGED <<serverVars, server, present>>, index' \in Nat,
         index <= index',
         \A k \in 1..L : k = index' /\ phase' \in {"start", "fetched", "store", "storing"} =>
           index < k \/ (k = index /\ phase \in {"start", "fetched", "store", "storing"}),
         phase' \notin {"locate", "report", "done"} => phase \notin {"locate", "report", "done"}
  PROVE  MailsOK'
<1>1. L' = L /\ L \in Nat /\ index \in Nat BY Lengths DEF BatchInv, serverVars, L, PhaseOK
<1>2. \A m, b, k : EffectOn(m, k)' = EffectOn(m, k) /\ NoEffectOn(m, b, k)' = NoEffectOn(m, b, k)
  BY DEF serverVars, EffectOn, NoEffectOn, L, Flag
<1> QED BY <1>1, <1>2 DEF BatchInv, MailsOK, MailFits, serverVars, Flag

\* With the plan everything that is read off it stays.
LEMMA SamePlan ==
  ASSUME UNCHANGED serverVars
  PROVE  /\ L' = L /\ StepCount' = StepCount /\ plan' = plan /\ before' = before
         /\ \A k : Flag(k)' = Flag(k)
         /\ \A m, k : EffectOn(m, k)' = EffectOn(m, k)
         /\ \A m, b, k : NoEffectOn(m, b, k)' = NoEffectOn(m, b, k)
  BY DEF serverVars, EffectOn, NoEffectOn, L, Flag, StepCount

\* What is open is as it was.
LEMMA StepsStay ==
  ASSUME BatchInv, UNCHANGED <<serverVars, server, present, steps>>,
         \A u \in present : \A k \in 1..StepCount : Open(u, k) => Open(u, k)'
  PROVE  StepsOK'
  BY SamePlan DEF BatchInv, StepsOK, StepFits

\* A call that has not begun ends.
LEMMA EndsAtOnce ==
  ASSUME BatchInv, phase = "start", phase' = "done", outcome' \in {"failed", "rejected"},
         UNCHANGED <<serverVars, server, up, signalled, cached, index, reportVars, halted, wrote>>
  PROVE  BatchInv'
<1>1. present = {} /\ server = before BY DEF BatchInv, BeginOK
<1>2. L' = L /\ plan' = plan /\ StepCount' = StepCount BY SamePlan
<1>3. TypeOK' BY <1>2 DEF BatchInv, TypeOK, reportVars, serverVars, Statuses
<1>4. PlanOK' BY <1>2 DEF BatchInv, PlanOK, L, Flag
<1>5. PhaseOK' BY <1>2 DEF BatchInv, PhaseOK, reportVars
<1>6. MailsOK'
  <2>1. index \in Nat /\ index' = index /\ UNCHANGED <<serverVars, server, present>>
    BY DEF BatchInv, PhaseOK, reportVars
  <2> QED BY <2>1, MailsStay
<1>7. StepsOK' BY <1>1 DEF StepsOK, reportVars
<1>8. BeginOK' BY DEF BeginOK
<1>9. SummaryIsTrue' BY <1>1 DEF SummaryIsTrue, serverVars
<1> QED BY <1>3, <1>4, <1>5, <1>6, <1>7, <1>8, <1>9 DEF BatchInv

\* The first FETCH: no step has been sent, so "failed" is true of each.
LEMMA FetchedStep == ASSUME BatchInv, Fetched PROVE BatchInv'
<1> USE DEF callFrame
<1>0. /\ UNCHANGED <<serverVars, server, up, signalled, cached, index, pending, mapped, halted,
            wrote, outcome>>
      /\ phase = "start" /\ server = before
      /\ phase' = (IF present' = {} THEN "report" ELSE "fetched")
      /\ present' = {u \in Uids : server[u].at = "source"}
      /\ steps' = [u \in Uids |-> IF u \in present' THEN [k \in 1..StepCount |-> "failed"]
            ELSE <<>>]
  BY DEF Fetched, BatchInv, BeginOK
<1>1. /\ L' = L /\ plan' = plan /\ StepCount' = StepCount
  BY <1>0, SamePlan
<1>2. StepCount \in Nat /\ L \in Nat BY Lengths DEF BatchInv
<1>3. TypeOK'
  <2>1. mapped' \subseteq present' BY <1>0 DEF BatchInv, TypeOK, BeginOK
  <2>2. \A u \in Uids : steps'[u] \in (IF u \in present' THEN [1..StepCount' -> Statuses]
            ELSE {<<>>})
    BY <1>0, <1>1 DEF Statuses
  <2> QED BY <1>0, <1>1, <2>1, <2>2 DEF BatchInv, TypeOK, serverVars
<1>4. PhaseOK' BY <1>0, <1>1 DEF BatchInv, PhaseOK
<1>5. MailsOK'
  <2> SUFFICES ASSUME NEW u \in Uids
               PROVE  MailFits(server[u], before[u], u \in present', index, phase')
    BY <1>0, <1>1, SamePlan DEF MailsOK, MailFits, Flag, serverVars
  <2>1. server[u] = before[u] /\ (u \in present' => before[u].at = "source")
          /\ (u \notin present' => TRUE)
    BY <1>0
  <2> QED BY <2>1, <1>2 DEF MailFits, NoEffectOn
<1>6. StepsOK'
  <2> SUFFICES ASSUME NEW u \in present', NEW k \in 1..StepCount
               PROVE  NoEffectOn(server[u], before[u], k) /\ steps'[u][k] = "failed"
    BY <1>0, <1>1, SamePlan DEF StepsOK, StepFits, serverVars
  <2> QED BY <1>0 DEF NoEffectOn
<1>7. BeginOK' BY <1>0 DEF BeginOK, serverVars
<1> QED BY <1>0, <1>3, <1>4, <1>5, <1>6, <1>7, GoesOn

\* On to the first stage.
LEMMA ProceedStep == ASSUME BatchInv, Proceed PROVE BatchInv'
<1> USE DEF callFrame, reportVars
<1>0. /\ UNCHANGED <<serverVars, server, up, signalled, cached, index, reportVars, wrote, outcome>>
      /\ phase = "fetched" /\ index = 1 /\ pending = {} /\ halted' \in BOOLEAN
      /\ phase' \in {"purge", "store", "move", "report"}
      /\ phase' = "purge" => plan.final = "purge"
      /\ phase' = "move" => plan.final = "move"
      /\ phase' = "store" => plan.changes # <<>>
  BY DEF Proceed, Stage, BatchInv, PhaseOK, TypeOK
<1>1. L' = L /\ plan' = plan /\ StepCount' = StepCount
  BY <1>0, SamePlan
<1>2. phase' = "store" => 1 \in 1..L
  BY <1>0, Lengths DEF BatchInv, PlanOK, L
<1>3. TypeOK' BY <1>0, <1>1 DEF BatchInv, TypeOK, serverVars
<1>4. PhaseOK' BY <1>0, <1>1, <1>2 DEF BatchInv, PhaseOK
<1>5. MailsOK' BY <1>0, MailsStay
<1>6. StepsOK' BY <1>0, StepsStay DEF Open
<1>7. BeginOK' BY <1>0 DEF BeginOK
<1> QED BY <1>0, <1>3, <1>4, <1>5, <1>6, <1>7, GoesOn

\* A command goes out after the cache was emptied, or does not.
LEMMA SendStep ==
  ASSUME BatchInv, NEW stage \in {"store", "move", "purge"}, NEW waiting,
         <<stage, waiting>> \in {<<"store", "storing">>, <<"move", "moving">>,
             <<"purge", "purging">>},
         Send(stage, waiting)
  PROVE  BatchInv'
<1> USE DEF callFrame, reportVars
<1>0. /\ UNCHANGED <<serverVars, server, up, signalled, index, reportVars, outcome>>
      /\ phase = stage /\ halted' \in BOOLEAN
      /\ \/ phase' = waiting /\ wrote' = TRUE /\ cached' = (cached /\ wrote)
         \/ phase' = (IF stage = "store" THEN "verify" ELSE "report") /\ UNCHANGED <<cached, wrote>>
  BY DEF Send, ClearOnce, BatchInv, TypeOK
<1>1. L' = L /\ plan' = plan /\ StepCount' = StepCount
  BY <1>0, SamePlan
<1>2. cached' => ~wrote'
  BY <1>0 DEF BatchInv, PhaseOK
<1>3. TypeOK' BY <1>0, <1>1 DEF BatchInv, TypeOK, serverVars
<1>4. PhaseOK' BY <1>0, <1>1, <1>2 DEF BatchInv, PhaseOK
<1>5. MailsOK' BY <1>0, MailsStay DEF BatchInv, PhaseOK
<1>6. StepsOK' BY <1>0, <1>1, StepsStay DEF Open
<1>7. BeginOK' BY <1>0 DEF BeginOK
<1>8. phase # "done" /\ phase' # "done" BY <1>0
<1> QED BY <1>0, <1>3, <1>4, <1>5, <1>6, <1>7, <1>8, GoesOn

\* The mails of S are stored anew, and the call goes on to the next change or to the check.
LEMMA StoredMails ==
  ASSUME BatchInv, NEW S \in SUBSET present, phase = "storing", UNCHANGED <<serverVars, present>>,
         server' = [u \in Uids |-> IF u \in S THEN Stored(server[u]) ELSE server[u]],
         \/ phase' = "store" /\ index' = index + 1
         \/ phase' = "verify" /\ index' = index
  PROVE  server' \in [Uids -> Mails] /\ MailsOK'
<1>1. /\ L \in Nat /\ index \in 1..L /\ index \in Nat /\ PlanOK
      /\ server \in [Uids -> Mails] /\ before \in [Uids -> Mails] /\ present \subseteq Uids
  BY Lengths DEF BatchInv, PhaseOK, TypeOK
<1>2. server' \in [Uids -> Mails]
  BY <1>1, StoredMail
<1>3. ASSUME NEW u \in Uids
      PROVE  MailFits(server'[u], before[u], u \in present, index', phase')
  <2> DEFINE m == server[u]
             n == server'[u]
             b == before[u]
  <2>1. MailFits(m, b, u \in present, index, phase) BY DEF BatchInv, MailsOK
  <2>2. n = m \/ (u \in present /\ n = Stored(m)) BY <1>1
  <2>3. m \in Mails /\ b \in Mails BY <1>1
  <2> HIDE DEF m, n, b
  <2>4. n.at = m.at /\ (u \notin present => n = m)
    BY <1>1, <2>2, <2>3, StoredMail
  <2>5. \A f \in Flags : (\A k \in 1..L : Flag(k) # f) => (f \in n.flags <=> f \in b.flags)
    BY <1>1, <2>1, <2>2, <2>3, StoredMail DEF MailFits
  <2>6. \A k \in 1..(L + 1) : k # index => /\ EffectOn(n, k) <=> EffectOn(m, k)
                                           /\ NoEffectOn(n, b, k) <=> NoEffectOn(m, b, k)
    BY <1>1, <2>2, <2>3, StoredMail
  <2>7. NoEffectOn(n, b, index) \/ EffectOn(n, index)
    BY <1>1, <2>1, <2>2, <2>3, StoredMail DEF MailFits
  <2>8. \A k \in 1..L : index' < k \/ (k = index' /\ phase' = "store")
            => index < k /\ k \in 1..(L + 1) /\ k # index
    BY <1>1
  <2> QED BY <1>1, <2>1, <2>4, <2>5, <2>6, <2>7, <2>8 DEF MailFits, m, n, b
<1> QED BY <1>1, <1>2, <1>3, SamePlan DEF MailsOK, MailFits, serverVars

\* What a STORE does to the steps of the other changes, and to its own.
LEMMA StoredSteps ==
  ASSUME BatchInv, NEW S \in SUBSET present, phase = "storing", UNCHANGED <<serverVars, present>>,
         server' = [u \in Uids |-> IF u \in S THEN Stored(server[u]) ELSE server[u]],
         NEW u \in present, NEW k \in 1..StepCount
  PROVE  /\ EffectOn(server[u], k) => EffectOn(server'[u], k)
         /\ k # index /\ NoEffectOn(server[u], before[u], k) => NoEffectOn(server'[u], before[u], k)
<1>1. /\ L \in Nat /\ index \in 1..L /\ PlanOK /\ k \in 1..(L + 1)
      /\ server[u] \in Mails /\ before[u] \in Mails
      /\ server'[u] = server[u] \/ server'[u] = Stored(server[u])
  BY Lengths DEF BatchInv, PhaseOK, TypeOK
<1> QED BY <1>1, StoredMail

\* The STORE is confirmed: its step is looked up later.
LEMMA StoreConfirmedStep ==
  ASSUME BatchInv, NEW S \in SUBSET present, StoreConfirmed(S)
  PROVE  BatchInv'
<1> USE DEF callFrame, commandFrame
<1>0. /\ UNCHANGED <<serverVars, up, signalled, cached, wrote, present, mapped, steps, halted,
            outcome>>
      /\ phase = "storing" /\ index \in 1..L
      /\ server' = [u \in Uids |-> IF u \in S THEN Stored(server[u]) ELSE server[u]]
      /\ pending' = pending \union {index}
      /\ \/ index < L /\ phase' = "store" /\ index' = index + 1
         \/ phase' = "verify" /\ index' = index
  BY DEF StoreConfirmed, Effect, AfterStore, BatchInv, PhaseOK, L
<1>1. /\ L' = L /\ plan' = plan /\ StepCount' = StepCount /\ L \in Nat /\ index \in Nat
      /\ StepCount <= L + 1 /\ StepCount \in Nat
  BY <1>0, SamePlan, Lengths DEF BatchInv
<1>2. server' \in [Uids -> Mails] /\ MailsOK'
  BY <1>0, StoredMails
<1>3. TypeOK'
  BY <1>0, <1>1, <1>2 DEF BatchInv, TypeOK, serverVars, L
<1>4. PhaseOK' BY <1>0, <1>1 DEF BatchInv, PhaseOK
<1>6. StepsOK'
  <2> SUFFICES ASSUME NEW u \in present, NEW k \in 1..StepCount
               PROVE  StepFits(steps[u][k], server'[u], before[u], k, Open(u, k)')
    BY <1>0, <1>1, SamePlan DEF StepsOK, StepFits
  <2>1. StepFits(steps[u][k], server[u], before[u], k, Open(u, k)) BY DEF BatchInv, StepsOK
  <2>2. k = index \/ Open(u, k) => Open(u, k)' BY <1>0 DEF Open
  <2>3. /\ EffectOn(server[u], k) => EffectOn(server'[u], k)
        /\ k # index /\ NoEffectOn(server[u], before[u], k) => NoEffectOn(server'[u], before[u], k)
    BY <1>0, StoredSteps
  <2> QED BY <2>1, <2>2, <2>3 DEF StepFits
<1>7. BeginOK' BY <1>0 DEF BeginOK
<1> QED BY <1>0, <1>2, <1>3, <1>4, <1>6, <1>7, GoesOn

\* A STORE that is refused or unanswered: its steps are marked with what is known.
LEMMA StoreMarked ==
  ASSUME BatchInv, NEW S \in SUBSET present, NEW status \in {"failed", "unknown"},
         phase = "storing",
         status = "failed" => S = {},
         UNCHANGED <<serverVars, up, signalled, cached, wrote, present, mapped, pending, outcome>>,
         server' = [u \in Uids |-> IF u \in S THEN Stored(server[u]) ELSE server[u]],
         steps' = Marked(steps, present, index, status),
         halted' \in BOOLEAN,
         \/ index < L /\ phase' = "store" /\ index' = index + 1
         \/ phase' = "verify" /\ index' = index
  PROVE  BatchInv'
<1>1. /\ L' = L /\ plan' = plan /\ StepCount' = StepCount /\ L \in Nat /\ index \in Nat
      /\ index \in 1..L
      /\ StepCount <= L + 1 /\ L <= StepCount /\ StepCount \in Nat
  BY SamePlan, Lengths DEF BatchInv, PhaseOK
<1>2. server' \in [Uids -> Mails] /\ MailsOK'
  BY StoredMails
<1>s. /\ \A u \in Uids : steps'[u] \in (IF u \in present THEN [1..StepCount -> Statuses]
            ELSE {<<>>})
      /\ \A u \in present : \A j \in 1..StepCount :
           steps'[u][j] = IF j = index THEN status ELSE steps[u][j]
  <2>1. index \in 1..StepCount /\ status \in Statuses /\ present \in SUBSET present
    BY <1>1 DEF Statuses
  <2> QED BY <2>1 DEF Marked, BatchInv, TypeOK
<1>3. TypeOK'
  BY <1>1, <1>2, <1>s DEF BatchInv, TypeOK, serverVars, L
<1>4. PhaseOK' BY <1>1 DEF BatchInv, PhaseOK
<1>6. StepsOK'
  <2> SUFFICES ASSUME NEW u \in present, NEW k \in 1..StepCount
               PROVE  StepFits(steps'[u][k], server'[u], before[u], k, Open(u, k)')
    BY <1>1, SamePlan DEF StepsOK, StepFits
  <2>1. StepFits(steps[u][k], server[u], before[u], k, Open(u, k)) BY DEF BatchInv, StepsOK
  <2>2. Open(u, k) => Open(u, k)' BY DEF Open
  <2>3. /\ EffectOn(server[u], k) => EffectOn(server'[u], k)
        /\ k # index /\ NoEffectOn(server[u], before[u], k) => NoEffectOn(server'[u], before[u], k)
    BY StoredSteps
  <2>4. CASE k # index
    BY <2>1, <2>2, <2>3, <2>4, <1>s DEF StepFits
  <2>5. CASE k = index
    <3>1. steps'[u][k] = status BY <2>5, <1>s
    <3>2. status = "failed" => server'[u] = server[u] /\ NoEffectOn(server[u], before[u], k)
      BY <1>1, <2>5 DEF BatchInv, TypeOK, MailsOK, MailFits
    <3> QED BY <3>1, <3>2 DEF StepFits
  <2> QED BY <2>4, <2>5
<1>7. BeginOK' BY DEF BeginOK
<1>8. phase' # "done" OBVIOUS
<1> QED BY <1>2, <1>3, <1>4, <1>6, <1>7, <1>8, GoesOn

\* The STORE is refused: nothing has changed.
LEMMA StoreRefusedStep == ASSUME BatchInv, StoreRefused PROVE BatchInv'
<1> USE DEF callFrame, commandFrame
<1>1. /\ UNCHANGED <<serverVars, up, signalled, cached, wrote, present, mapped, pending, outcome,
            server>>
      /\ phase = "storing" /\ steps' = Marked(steps, present, index, "failed")
      /\ halted' \in BOOLEAN
      /\ \/ index < L /\ phase' = "store" /\ index' = index + 1
         \/ phase' = "verify" /\ index' = index
  BY DEF StoreRefused, AfterStore, BatchInv, TypeOK, L
<1>2. PICK S \in SUBSET present : S = {}
  OBVIOUS
<1>3. server' = [u \in Uids |-> IF u \in S THEN Stored(server[u]) ELSE server[u]]
  BY <1>1, <1>2 DEF BatchInv, TypeOK
<1> QED BY <1>1, <1>2, <1>3, StoreMarked

\* The answer is lost: the step is "unknown", or nothing has changed.
LEMMA StoreLostStep ==
  ASSUME BatchInv, NEW S \in SUBSET present, NEW status \in Statuses, StoreLost(S, status)
  PROVE  BatchInv'
<1> USE DEF callFrame, commandFrame
<1>1. /\ UNCHANGED <<serverVars, up, signalled, cached, wrote, present, mapped, pending, outcome>>
      /\ phase = "storing" /\ steps' = Marked(steps, present, index, status) /\ halted' \in BOOLEAN
      /\ server' = [u \in Uids |-> IF u \in S THEN Stored(server[u]) ELSE server[u]]
      /\ \/ index < L /\ phase' = "store" /\ index' = index + 1
         \/ phase' = "verify" /\ index' = index
  BY DEF StoreLost, AfterStore, Effect, BatchInv, TypeOK, L
<1>2. status \in {"failed", "unknown"} /\ (status = "failed" => S = {})
  BY DEF StoreLost, Unanswered, FalseStatus
<1> QED BY <1>1, <1>2, StoreMarked

\* The check of the changes, whether the rows came or not.
LEMMA CheckedStep ==
  ASSUME BatchInv, NEW known \in BOOLEAN, phase = "verify", steps' = Checked(known),
         AfterFlags(halted),
         UNCHANGED <<serverVars, server, up, signalled, cached, wrote, present, mapped, index,
             pending,
                     outcome>>
  PROVE  BatchInv'
<1>0. /\ halted' \in BOOLEAN
      /\ phase' \in {"report", "move", "purge"}
      /\ phase' = "move" => plan.final = "move"
      /\ phase' = "purge" => plan.final = "purge"
  BY DEF AfterFlags, Stage, BatchInv, TypeOK
<1>1. /\ L' = L /\ plan' = plan /\ StepCount' = StepCount /\ L \in Nat /\ StepCount \in Nat
      /\ L <= StepCount /\ StepCount <= L + 1 /\ index \in Nat /\ pending \subseteq 1..L
  BY SamePlan, Lengths DEF BatchInv, PhaseOK, TypeOK, L
<1>s. /\ \A u \in Uids : steps'[u] \in (IF u \in present THEN [1..StepCount -> Statuses]
            ELSE {<<>>})
      /\ \A u \in present : \A j \in 1..StepCount :
           steps'[u][j] = IF j \notin pending THEN steps[u][j]
                          ELSE IF ~known THEN "unknown"
                          ELSE IF EffectOn(server[u], j) THEN "success" ELSE "failed"
  <2> DEFINE Say(u, k) == IF k \notin pending THEN steps[u][k]
                          ELSE IF ~known THEN "unknown"
                          ELSE IF EffectOn(server[u], k) THEN "success" ELSE "failed"
  <2>1. ASSUME NEW u \in present
        PROVE  steps'[u] = [k \in 1..StepCount |-> Say(u, k)]
    <3>1. u \in Uids /\ DOMAIN steps[u] = 1..StepCount BY DEF BatchInv, TypeOK
    <3>2. steps'[u] = [k \in 1..StepCount |->
                IF k \notin pending THEN steps[u][k]
                ELSE IF ~known THEN "unknown"
                ELSE IF (Flag(k) \in server[u].flags) = plan.changes[k].add THEN "success"
                    ELSE "failed"]
      BY <3>1 DEF Checked, Flag
    <3>3. ASSUME NEW k \in 1..StepCount
          PROVE  (IF k \notin pending THEN steps[u][k]
                  ELSE IF ~known THEN "unknown"
                  ELSE IF (Flag(k) \in server[u].flags) = plan.changes[k].add THEN "success"
                      ELSE "failed")
                 = Say(u, k)
      BY <1>1 DEF EffectOn
    <3> HIDE DEF Say
    <3> QED BY <3>2, <3>3
  <2>2. ASSUME NEW u \in present, NEW k \in 1..StepCount
        PROVE  Say(u, k) \in Statuses
    BY <1>1 DEF BatchInv, TypeOK, Statuses
  <2>3. \A u \in Uids : u \notin present => steps'[u] = steps[u] /\ steps[u] \in {<<>>}
    BY DEF Checked, BatchInv, TypeOK
  <2>5. \A u \in present : \A j \in 1..StepCount : steps'[u][j] = Say(u, j)
    BY <2>1
  <2>4. \A u \in present : steps'[u] \in [1..StepCount -> Statuses]
    <3> HIDE DEF Say
    <3> QED BY <2>1, <2>2
  <2> QED BY <2>3, <2>4, <2>5
<1>3. TypeOK' BY <1>0, <1>1, <1>s DEF BatchInv, TypeOK, serverVars
<1>4. PhaseOK' BY <1>0, <1>1 DEF BatchInv, PhaseOK
<1>5. MailsOK' BY <1>0, <1>1, MailsStay
<1>6. StepsOK'
  <2> SUFFICES ASSUME NEW u \in present, NEW k \in 1..StepCount
               PROVE  StepFits(steps'[u][k], server[u], before[u], k, FALSE)
    BY <1>1, SamePlan DEF StepsOK, StepFits
  <2>1. StepFits(steps[u][k], server[u], before[u], k, Open(u, k)) BY DEF BatchInv, StepsOK
  <2>2. CASE k \notin pending
    <3>1. ~Open(u, k) BY <2>2 DEF Open
    <3> QED BY <2>1, <2>2, <3>1, <1>s DEF StepFits
  <2>3. CASE k \in pending
    <3>1. NoEffectOn(server[u], before[u], k) \/ EffectOn(server[u], k)
      BY <1>1 DEF BatchInv, MailsOK, MailFits, TypeOK
    <3> QED BY <2>3, <3>1, <1>s DEF StepFits
  <2> QED BY <2>2, <2>3
<1>7. BeginOK' BY <1>0 DEF BeginOK
<1>8. phase' # "done" BY <1>0
<1> QED BY <1>3, <1>4, <1>5, <1>6, <1>7, <1>8, GoesOn

\* The FETCH tells what became of the confirmed changes.
LEMMA VerifiedStep == ASSUME BatchInv, Verified PROVE BatchInv'
  BY CheckedStep DEF Verified, commandFrame, callFrame

\* The confirmed changes stay unknown.
LEMMA NotVerifiedStep == ASSUME BatchInv, NotVerified PROVE BatchInv'
  BY CheckedStep DEF NotVerified, commandFrame, callFrame

---------------------------------------------------------------------------------
(* The last command *)

\* Where the last command puts a mail.
Place == IF plan.final = "purge" THEN "gone" ELSE "target"

\* The mails of S are moved or purged.
LEMMA LastMails ==
  ASSUME BatchInv, NEW S \in SUBSET present, phase \in Writing,
         UNCHANGED <<serverVars, present, index>>,
         server' = [u \in Uids |-> IF u \in S THEN [server[u] EXCEPT !.at = Place] ELSE server[u]],
         phase' \in {"report", "locate"}
  PROVE  /\ server' \in [Uids -> Mails] /\ MailsOK'
         /\ \A u \in present : \A k \in 1..StepCount :
              /\ EffectOn(server[u], k) => EffectOn(server'[u], k)
              /\ k # L + 1 /\ NoEffectOn(server[u], before[u], k)
                    => NoEffectOn(server'[u], before[u], k)
         /\ \A u \in S : EffectOn(server'[u], L + 1)
<1>1. /\ L \in Nat /\ StepCount \in Nat /\ StepCount <= L + 1 /\ PlanOK /\ plan.final # "none"
      /\ server \in [Uids -> Mails] /\ before \in [Uids -> Mails] /\ present \subseteq Uids
      /\ phase \notin {"start", "fetched", "store", "storing"} /\ index \in Nat
  BY Lengths DEF BatchInv, PhaseOK, TypeOK, Writing
<1>2. ASSUME NEW u \in Uids
      PROVE  /\ server'[u] \in Mails /\ server'[u].flags = server[u].flags
             /\ u \notin S => server'[u] = server[u]
             /\ u \in S => EffectOn(server'[u], L + 1)
             /\ \A k \in 1..L : /\ EffectOn(server'[u], k) <=> EffectOn(server[u], k)
                                /\ NoEffectOn(server'[u], before[u], k)
                                     <=> NoEffectOn(server[u], before[u], k)
  <2>1. server[u] \in Mails /\ before[u] \in Mails /\ Place \in {"target", "gone"} BY <1>1 DEF Place
  <2>2. CASE u \notin S
    <3>1. server'[u] = server[u] BY <2>2
    <3> QED BY <2>1, <2>2, <3>1
  <2>3. CASE u \in S
    <3>1. server'[u] = [server[u] EXCEPT !.at = Place] BY <2>3
    <3> QED BY <1>1, <2>1, <2>3, <3>1, LastMail DEF Place
  <2> QED BY <2>2, <2>3
<1>3. server' \in [Uids -> Mails]
  BY <1>1, <1>2
<1>4. ASSUME NEW u \in Uids
      PROVE  MailFits(server'[u], before[u], u \in present, index, phase')
  <2>1. MailFits(server[u], before[u], u \in present, index, phase) BY DEF BatchInv, MailsOK
  <2>2. u \notin present => server'[u] = server[u] BY <1>2
  <2>3. \A k \in 1..(L + 1) : NoEffectOn(server'[u], before[u], k) \/ EffectOn(server'[u], k)
    <3>1. ASSUME NEW k \in 1..(L + 1) PROVE k \in 1..L \/ k = L + 1 BY <1>1
    <3> QED BY <1>2, <2>1, <3>1 DEF MailFits
  <2> QED BY <1>1, <1>2, <2>1, <2>2, <2>3 DEF MailFits
<1>5. MailsOK' BY <1>1, <1>4, SamePlan DEF MailsOK, MailFits, serverVars
<1>6. ASSUME NEW u \in present, NEW k \in 1..StepCount
      PROVE  /\ EffectOn(server[u], k) => EffectOn(server'[u], k)
             /\ k # L + 1 /\ NoEffectOn(server[u], before[u], k)
                   => NoEffectOn(server'[u], before[u], k)
  <2>1. k \in 1..L \/ k = L + 1 BY <1>1
  <2> QED BY <1>1, <1>2, <2>1
<1> QED BY <1>1, <1>2, <1>3, <1>5, <1>6

\* The last command confirmed, refused or unanswered.
LEMMA LastMarked ==
  ASSUME BatchInv, NEW S \in SUBSET present, NEW M \in SUBSET present, NEW status \in Statuses,
         phase \in Writing,
         status = "success" => M \subseteq S /\ phase' = (IF M = present THEN "report"
             ELSE "locate") /\ mapped' = M,
         status # "success" => M = present /\ phase' = "report" /\ mapped' = mapped,
         status = "failed" => S = {},
         UNCHANGED <<serverVars, up, signalled, cached, wrote, present, index, pending, halted,
             outcome>>,
         server' = [u \in Uids |-> IF u \in S THEN [server[u] EXCEPT !.at = Place] ELSE server[u]],
         steps' = Marked(steps, M, StepCount, status)
  PROVE  BatchInv'
<1>0. phase' \in {"report", "locate"} OBVIOUS
<1>1. /\ L' = L /\ plan' = plan /\ StepCount' = StepCount /\ L \in Nat /\ StepCount = L + 1
      /\ index \in Nat
      /\ plan.final # "none" /\ phase # "done"
  BY SamePlan, Lengths DEF BatchInv, PhaseOK, Writing
<1>2. /\ server' \in [Uids -> Mails] /\ MailsOK'
      /\ \A u \in present : \A k \in 1..StepCount :
           /\ EffectOn(server[u], k) => EffectOn(server'[u], k)
           /\ k # L + 1 /\ NoEffectOn(server[u], before[u], k)
                 => NoEffectOn(server'[u], before[u], k)
      /\ \A u \in S : EffectOn(server'[u], L + 1)
  BY <1>0, LastMails
<1>s. /\ \A u \in Uids : steps'[u] \in (IF u \in present THEN [1..StepCount -> Statuses]
            ELSE {<<>>})
      /\ \A u \in present : \A j \in 1..StepCount :
           steps'[u][j] = IF u \in M /\ j = StepCount THEN status ELSE steps[u][j]
  <2>1. StepCount \in 1..StepCount BY <1>1
  <2> QED BY <2>1 DEF Marked, BatchInv, TypeOK
<1>3. TypeOK'
  <2>1. mapped' \subseteq present BY DEF BatchInv, TypeOK, Statuses
  <2> QED BY <1>1, <1>2, <1>s, <2>1 DEF BatchInv, TypeOK, serverVars
<1>4. PhaseOK' BY <1>0, <1>1 DEF BatchInv, PhaseOK, Writing
<1>6. StepsOK'
  <2> SUFFICES ASSUME NEW u \in present, NEW k \in 1..StepCount
               PROVE  StepFits(steps'[u][k], server'[u], before[u], k, Open(u, k)')
    BY <1>1, SamePlan DEF StepsOK, StepFits
  <2>1. StepFits(steps[u][k], server[u], before[u], k, Open(u, k)) BY DEF BatchInv, StepsOK
  <2>2. ~Open(u, k) BY DEF Open, Writing
  <2>3. CASE k # L + 1
    BY <1>1, <1>2, <1>s, <2>1, <2>2, <2>3 DEF StepFits
  <2>4. CASE k = L + 1 /\ u \in M
    <3>1. steps'[u][k] = status BY <1>1, <1>s, <2>4
    <3>2. status = "success" => EffectOn(server'[u], k) BY <1>2, <2>4
    <3>3. status = "failed" => NoEffectOn(server'[u], before[u], k)
      BY <1>1, <2>4 DEF BatchInv, TypeOK, MailsOK, MailFits, NoEffectOn, Writing
    <3> QED BY <3>1, <3>2, <3>3 DEF StepFits
  <2>5. CASE k = L + 1 /\ u \notin M
    <3>1. steps'[u][k] = steps[u][k] /\ Open(u, k)'
      BY <1>1, <1>s, <2>5 DEF Open
    <3> QED BY <1>2, <2>1, <3>1 DEF StepFits
  <2> QED BY <2>3, <2>4, <2>5
<1>7. BeginOK' BY <1>0 DEF BeginOK
<1> QED BY <1>0, <1>1, <1>2, <1>3, <1>4, <1>6, <1>7, GoesOn

\* What Done does is to put the mails of S into their place.
LEMMA DonePlace ==
  ASSUME BatchInv, phase \in Writing, NEW S, Done(S)
  PROVE  server' = [u \in Uids |-> IF u \in S THEN [server[u] EXCEPT !.at = Place] ELSE server[u]]
<1>1. CASE phase = "moving"
  <2>1. Place = "target" BY <1>1 DEF BatchInv, PhaseOK, Place
  <2> QED BY <1>1, <2>1 DEF Done, Effect, Moved
<1>2. CASE phase = "purging"
  <2>1. Place = "gone" BY <1>2 DEF BatchInv, PhaseOK, Place
  <2> QED BY <1>2, <2>1 DEF Done, Effect, Purged
<1> QED BY <1>1, <1>2 DEF Writing

\* The MOVE or the EXPUNGE is confirmed: what it skipped is looked up later.
LEMMA LastConfirmedStep ==
  ASSUME BatchInv, NEW S \in SUBSET present, NEW M \in SUBSET S, LastConfirmed(S, M)
  PROVE  BatchInv'
<1>1. "success" \in Statuses /\ M \in SUBSET present BY DEF Statuses
<1> QED BY <1>1, DonePlace, LastMarked DEF LastConfirmed, lastFrame, callFrame

\* It is refused: nothing has changed.
LEMMA LastRefusedStep == ASSUME BatchInv, LastRefused PROVE BatchInv'
<1>1. PICK S \in SUBSET present : S = {}
  OBVIOUS
<1>2. server' = [u \in Uids |-> IF u \in S THEN [server[u] EXCEPT !.at = Place] ELSE server[u]]
  BY <1>1 DEF LastRefused, BatchInv, TypeOK
<1>3. "failed" \in Statuses BY DEF Statuses
<1> QED BY <1>1, <1>2, <1>3, LastMarked DEF LastRefused, lastFrame, callFrame

\* Its answer is lost.
LEMMA LastLostStep ==
  ASSUME BatchInv, NEW S \in SUBSET present, NEW status \in Statuses, LastLost(S, status)
  PROVE  BatchInv'
<1>1. status \in {"failed", "unknown"} /\ (status = "failed" => S = {})
  BY DEF LastLost, Unanswered, FalseStatus
<1> QED BY <1>1, DonePlace, LastMarked DEF LastLost, lastFrame, callFrame

\* The rows of the last folder: what was not mapped is looked up, or left open.
LEMMA LocateMarked ==
  ASSUME BatchInv, phase = "locate", phase' = "report",
         UNCHANGED <<serverVars, server, up, signalled, cached, wrote, present, mapped, index,
             pending, halted,
                     outcome>>,
         \A u \in Uids : u \notin present => steps'[u] = steps[u],
         \A u \in present : /\ steps'[u] \in [1..StepCount -> Statuses]
                            /\ \A k \in 1..StepCount : k # L + 1 => steps'[u][k] = steps[u][k]
                            /\ IF u \in mapped THEN steps'[u] = steps[u]
                               ELSE \/ steps'[u][L + 1] = "unknown"
                                    \/ steps'[u][L + 1] = Located(u)
  PROVE  BatchInv'
<1>1. /\ L' = L /\ plan' = plan /\ StepCount' = StepCount /\ L \in Nat /\ StepCount = L + 1
      /\ index \in Nat
      /\ plan.final # "none" /\ L + 1 \in 1..(L + 1)
  BY SamePlan, Lengths DEF BatchInv, PhaseOK
<1>3. TypeOK'
  <2>1. \A u \in Uids : steps'[u] \in (IF u \in present THEN [1..StepCount -> Statuses] ELSE {<<>>})
    BY DEF BatchInv, TypeOK
  <2> QED BY <1>1, <2>1 DEF BatchInv, TypeOK, serverVars
<1>4. PhaseOK' BY <1>1 DEF BatchInv, PhaseOK
<1>5. MailsOK' BY <1>1, MailsStay
<1>6. StepsOK'
  <2> SUFFICES ASSUME NEW u \in present, NEW k \in 1..StepCount
               PROVE  StepFits(steps'[u][k], server[u], before[u], k, FALSE)
    BY <1>1, SamePlan DEF StepsOK, StepFits
  <2>1. StepFits(steps[u][k], server[u], before[u], k, Open(u, k)) BY DEF BatchInv, StepsOK
  <2>2. CASE k # L + 1 \/ u \in mapped
    <3>1. ~Open(u, k) /\ steps'[u][k] = steps[u][k] BY <2>2 DEF Open
    <3> QED BY <2>1, <3>1 DEF StepFits
  <2>3. CASE k = L + 1 /\ u \notin mapped
    <3>1. /\ before[u].at = "source"
          /\ NoEffectOn(server[u], before[u], k) \/ EffectOn(server[u], k)
      BY <1>1, <2>3 DEF BatchInv, MailsOK, MailFits, TypeOK
    <3>2. ~(k <= L) BY <1>1, <2>3
    <3>3. IF server[u].at = "source" THEN NoEffectOn(server[u], before[u], k)
              ELSE EffectOn(server[u], k)
      BY <3>1, <3>2 DEF NoEffectOn
    <3>4. steps'[u][k] = "unknown" \/ steps'[u][k] = Located(u) BY <2>3
    <3> QED BY <3>3, <3>4 DEF StepFits, Located
  <2> QED BY <2>2, <2>3
<1>7. BeginOK' BY DEF BeginOK
<1> QED BY <1>3, <1>4, <1>5, <1>6, <1>7, GoesOn

\* The FETCH tells which mails are gone.
LEMMA LocateStep == ASSUME BatchInv, Locate PROVE BatchInv'
<1>1. L \in Nat /\ StepCount = L + 1 /\ present \subseteq Uids
  BY Lengths DEF BatchInv, PhaseOK, TypeOK, Locate
<1>2. \A u \in Uids : u \notin present => steps'[u] = steps[u]
  BY DEF Locate
<1>3. ASSUME NEW u \in present
      PROVE  /\ steps'[u] \in [1..StepCount -> Statuses]
             /\ \A k \in 1..StepCount : k # L + 1 => steps'[u][k] = steps[u][k]
             /\ IF u \in mapped THEN steps'[u] = steps[u]
                ELSE \/ steps'[u][L + 1] = "unknown"
                     \/ steps'[u][L + 1] = Located(u)
  <2>1. steps[u] \in [1..StepCount -> Statuses] /\ Located(u) \in Statuses
    BY <1>1 DEF BatchInv, TypeOK, Located, Statuses
  <2>2. steps'[u] = IF u \in mapped THEN steps[u] ELSE [steps[u] EXCEPT ![StepCount] = Located(u)]
    BY <1>1 DEF Locate
  <2> QED BY <1>1, <2>1, <2>2
<1> QED BY <1>2, <1>3, LocateMarked DEF Locate, lastFrame, callFrame

\* Which mails are gone stays unknown.
LEMMA NotLocatedStep == ASSUME BatchInv, NotLocated PROVE BatchInv'
<1>1. L \in Nat /\ StepCount = L + 1 /\ present \subseteq Uids
  BY Lengths DEF BatchInv, PhaseOK, TypeOK, NotLocated
<1>2. \A u \in Uids : u \notin present => steps'[u] = steps[u]
  BY DEF NotLocated, Marked
<1>3. ASSUME NEW u \in present
      PROVE  /\ steps'[u] \in [1..StepCount -> Statuses]
             /\ \A k \in 1..StepCount : k # L + 1 => steps'[u][k] = steps[u][k]
             /\ IF u \in mapped THEN steps'[u] = steps[u]
                ELSE \/ steps'[u][L + 1] = "unknown"
                     \/ steps'[u][L + 1] = Located(u)
  <2>1. steps[u] \in [1..StepCount -> Statuses] /\ "unknown" \in Statuses
    BY <1>1 DEF BatchInv, TypeOK, Statuses
  <2>2. steps'[u] = IF u \in mapped THEN steps[u] ELSE [steps[u] EXCEPT ![StepCount] = "unknown"]
    BY <1>1 DEF NotLocated, Marked
  <2> QED BY <1>1, <2>1, <2>2
<1> QED BY <1>2, <1>3, LocateMarked DEF NotLocated, lastFrame, callFrame

---------------------------------------------------------------------------------
(* The line, the caller and the report *)

\* Nothing but the line and the caller's signal.
LEMMA LineDownStep ==
  ASSUME BatchInv, phase # "done", up' = FALSE,
         UNCHANGED <<serverVars, server, cached, phase, index, reportVars, halted, wrote, outcome>>
  PROVE  BatchInv'
<1> USE DEF reportVars
<1>1. L' = L /\ plan' = plan /\ StepCount' = StepCount /\ index \in Nat
  BY SamePlan DEF BatchInv, PhaseOK
<1>3. TypeOK' BY <1>1 DEF BatchInv, TypeOK, serverVars
<1>4. PhaseOK' BY <1>1 DEF BatchInv, PhaseOK
<1>5. MailsOK'
  <2>1. UNCHANGED <<serverVars, server, present, index, phase>> /\ index <= index'
    BY <1>1
  <2> QED BY <1>1, <2>1, MailsStay
<1>6. StepsOK' BY <1>1, StepsStay DEF Open
<1>7. BeginOK' BY DEF BatchInv, BeginOK, serverVars
<1> QED BY <1>3, <1>4, <1>5, <1>6, <1>7, GoesOn

\* What Aggregate makes of the reports.
LEMMA Summed ==
  ASSUME BatchInv
  PROVE  LET sum == Aggregate(Reported) IN
         /\ sum \in {"success", "failed", "partial", "unknown"}
         /\ sum = "success" => /\ present = Uids
                               /\ \A u \in Uids : \A k \in 1..StepCount : steps[u][k] = "success"
         /\ sum = "failed" => \A u \in present : \A k \in 1..StepCount : steps[u][k] = "failed"
<1>1. \A u \in present : \A k \in 1..StepCount : steps[u][k] \in Reported
        /\ steps[u][k] \in Statuses
  <2> TAKE u \in present
  <2> TAKE k \in 1..StepCount
  <2>1. u \in Uids /\ steps[u] \in [1..StepCount -> Statuses] BY DEF BatchInv, TypeOK
  <2>2. k \in DOMAIN steps[u] BY <2>1
  <2>3. steps[u][k] \in UNION {{steps[w][j] : j \in DOMAIN steps[w]} : w \in Uids} BY <2>1, <2>2
  <2> QED BY <2>1, <2>3 DEF Reported
<1>2. \A u \in Uids : u \notin present => "failed" \in Reported
  BY DEF Reported, ItemStatus
<1>3. Aggregate(Reported) = "success" => "unknown" \notin Reported /\ "failed" \notin Reported
  BY DEF Aggregate
<1>4. Aggregate(Reported) = "failed" => "unknown" \notin Reported /\ "success" \notin Reported
  BY DEF Aggregate
<1>5. Aggregate(Reported) \in {"success", "failed", "partial", "unknown"}
  BY DEF Aggregate
<1>6. present \subseteq Uids BY DEF BatchInv, TypeOK
<1> QED BY <1>1, <1>2, <1>3, <1>4, <1>5, <1>6 DEF Statuses

\* A mail on which no step has had an effect is as it was.
LEMMA Untouched ==
  ASSUME BatchInv, phase = "report", NEW u \in Uids,
         u \in present => \A k \in 1..StepCount : NoEffectOn(server[u], before[u], k)
  PROVE  server[u] = before[u]
<1>1. /\ L \in Nat /\ StepCount \in Nat /\ L <= StepCount
            /\ (plan.final # "none" => StepCount = L + 1)
      /\ server[u] \in Mails /\ before[u] \in Mails
      /\ MailFits(server[u], before[u], u \in present, index, phase)
  BY Lengths DEF BatchInv, TypeOK, MailsOK
<1>2. CASE u \notin present BY <1>1, <1>2 DEF MailFits
<1>3. CASE u \in present
  <2>1. \A f \in Flags : f \in server[u].flags <=> f \in before[u].flags
    <3> TAKE f \in Flags
    <3>1. CASE \A k \in 1..L : Flag(k) # f BY <1>1, <3>1 DEF MailFits
    <3>2. CASE \E k \in 1..L : Flag(k) = f
      <4>1. PICK k \in 1..L : Flag(k) = f BY <3>2, Zenon
      <4>2. k \in 1..StepCount /\ k <= L BY <1>1
      <4> QED BY <1>3, <4>1, <4>2 DEF NoEffectOn
    <3> QED BY <3>1, <3>2
  <2>2. server[u].at = before[u].at
    <3>1. CASE plan.final = "none" BY <1>1, <3>1 DEF MailFits
    <3>2. CASE plan.final # "none"
      <4>1. L + 1 \in 1..StepCount /\ ~(L + 1 <= L) BY <1>1, <3>2
      <4> QED BY <1>3, <4>1 DEF NoEffectOn
    <3> QED BY <3>1, <3>2
  <2>3. server[u].flags = before[u].flags
    <3>1. server[u].flags \subseteq Flags /\ before[u].flags \subseteq Flags BY <1>1 DEF Mails
    <3> QED BY <2>1, <3>1
  <2> QED BY <1>1, <2>2, <2>3 DEF Mails
<1> QED BY <1>2, <1>3

\* The report is returned.
LEMMA ReturnStep == ASSUME BatchInv, Return PROVE BatchInv'
<1> USE DEF reportVars
<1> DEFINE sum == Aggregate(Reported)
<1>0. /\ phase = "report" /\ phase' = "done" /\ outcome' = sum
      /\ UNCHANGED <<serverVars, server, up, signalled, cached, index, reportVars, halted, wrote>>
  BY DEF Return
<1>1. /\ L' = L /\ plan' = plan /\ StepCount' = StepCount /\ StepCount \in Nat
      /\ StepCount <= L + 1 /\ L \in Nat
      /\ index \in Nat /\ present \subseteq Uids
  BY <1>0, SamePlan, Lengths DEF BatchInv, PhaseOK, TypeOK
<1>2. /\ sum \in {"success", "failed", "partial", "unknown"}
      /\ sum = "success" => /\ present = Uids
                            /\ \A u \in Uids : \A k \in 1..StepCount : steps[u][k] = "success"
      /\ sum = "failed" => \A u \in present : \A k \in 1..StepCount : steps[u][k] = "failed"
  BY Summed
<1> HIDE DEF sum
<1>3. \A u \in present : \A k \in 1..StepCount :
        StepFits(steps[u][k], server[u], before[u], k, FALSE)
  BY <1>0 DEF BatchInv, StepsOK, StepFits, Open
<1>4. sum = "success" => /\ present = Uids
                         /\ \A u \in Uids, k \in 1..StepCount : EffectOn(server[u], k)
  BY <1>2, <1>3 DEF StepFits
<1>5. sum = "failed" => server = before
  <2> SUFFICES ASSUME sum = "failed" PROVE server = before OBVIOUS
  <2>1. \A u \in present : \A k \in 1..StepCount : NoEffectOn(server[u], before[u], k)
    BY <1>2, <1>3 DEF StepFits
  <2>2. \A u \in Uids : server[u] = before[u] BY <1>0, <2>1, Untouched
  <2> QED BY <2>2 DEF BatchInv, TypeOK
<1>6. TypeOK' BY <1>0, <1>1, <1>2 DEF BatchInv, TypeOK, serverVars, Statuses
<1>7. PlanOK' BY <1>0, <1>1 DEF BatchInv, PlanOK, L, Flag
<1>8. PhaseOK' BY <1>0, <1>1, <1>2 DEF BatchInv, PhaseOK
<1>9. MailsOK' BY <1>0, <1>1, MailsStay
<1>10. StepsOK' BY <1>0, <1>1, <1>3, SamePlan DEF StepsOK, StepFits
<1>11. BeginOK' BY <1>0 DEF BeginOK
<1>12. SummaryIsTrue'
  <2>1. \A u, k : HasEffect(u, k)' = EffectOn(server[u], k)
    BY <1>0, <1>1 DEF HasEffect, EffectOn, L, Flag
  <2> QED BY <1>0, <1>1, <1>2, <1>4, <1>5, <2>1 DEF SummaryIsTrue, serverVars
<1> QED BY <1>6, <1>7, <1>8, <1>9, <1>10, <1>11, <1>12 DEF BatchInv

\* planFor() makes plans whose changes are of different flags.
LEMMA PlansFit == ASSUME plan \in Plans PROVE PlanOK
<1>1. ASSUME NEW f \in Flags, NEW a \in BOOLEAN,
             plan = [changes |-> <<[flag |-> f, add |-> a]>>, final |-> "none"]
      PROVE  PlanOK
  BY <1>1 DEF PlanOK, L, Flag, Changes
<1>2. ASSUME NEW a \in BOOLEAN, NEW b \in BOOLEAN,
             plan = [changes |-> <<[flag |-> "seen", add |-> a], [flag |-> "flagged", add |-> b]>>,
                 final |-> "none"]
      PROVE  PlanOK
  <2>1. plan.changes \in Seq(Changes) /\ plan.final = "none" /\ L = 2
    BY <1>2 DEF L, Changes, Flags
  <2>2. Flag(1) = "seen" /\ Flag(2) = "flagged"
    BY <1>2 DEF Flag
  <2>3. \A j, k \in 1..2 : Flag(j) = Flag(k) => j = k
    <3>1. \A j \in 1..2 : j = 1 \/ j = 2 OBVIOUS
    <3> QED BY <2>2, <3>1
  <2> QED BY <2>1, <2>3 DEF PlanOK
<1>3. ASSUME plan = [changes |-> <<[flag |-> "seen", add |-> TRUE]>>, final |-> "move"]
      PROVE  PlanOK
  BY <1>3 DEF PlanOK, L, Flag, Changes, Flags
<1>4. ASSUME NEW f \in {"move", "purge"}, plan = [changes |-> <<>>, final |-> f]
      PROVE  PlanOK
  BY <1>4 DEF PlanOK, L, Flag
<1> QED BY <1>1, <1>2, <1>3, <1>4 DEF Plans

\* The inductive invariant holds in the beginning.
LEMMA BatchBeginsWell == BatchInit => BatchInv
<1> SUFFICES ASSUME BatchInit PROVE BatchInv
  OBVIOUS
<1> USE DEF BatchInit
<1>1. PlanOK BY PlansFit
<1>2. L \in Nat /\ StepCount \in Nat BY <1>1, Lengths
<1>3. server \in [Uids -> Mails] BY DEF Mails
<1>4. TypeOK BY <1>3 DEF TypeOK
<1>5. PhaseOK BY DEF PhaseOK
<1>6. MailsOK BY <1>3 DEF MailsOK, MailFits, NoEffectOn
<1>7. StepsOK BY DEF StepsOK
<1>8. BeginOK BY DEF BeginOK
<1>9. SummaryIsTrue BY DEF SummaryIsTrue
<1> QED BY <1>1, <1>4, <1>5, <1>6, <1>7, <1>8, <1>9 DEF BatchInv

\* Every step keeps it.
LEMMA BatchKeeps == BatchInv /\ [BatchNext]_batchVars => BatchInv'
<1> SUFFICES ASSUME BatchInv, [BatchNext]_batchVars PROVE BatchInv'
  OBVIOUS
<1>1. CASE Reject \/ NotSupported \/ NoDestination
  BY <1>1, EndsAtOnce DEF Reject, NotSupported, NoDestination, Thrown
<1>2. CASE Canceled
  BY <1>2, EndsAtOnce DEF Canceled
<1>3. CASE Fetched BY <1>3, FetchedStep
<1>4. CASE Proceed BY <1>4, ProceedStep
<1>5. CASE Return BY <1>5, ReturnStep
<1>6. CASE LineDrops BY <1>6, LineDownStep DEF LineDrops
<1>7. CASE Cancels
  <2>1. /\ phase # "done" /\ up' = FALSE
        /\ UNCHANGED <<serverVars, server, cached, phase, index, reportVars, halted, wrote,
              outcome>>
    BY <1>7 DEF Cancels
  <2> QED BY <2>1, LineDownStep
<1>8. CASE Send("store", "storing") BY <1>8, SendStep
<1>9. CASE Send("move", "moving") BY <1>9, SendStep
<1>10. CASE Send("purge", "purging") BY <1>10, SendStep
<1>11. CASE \E S \in SUBSET present : StoreConfirmed(S) BY <1>11, StoreConfirmedStep
<1>12. CASE \E S \in SUBSET present : \E status \in Statuses : StoreLost(S, status)
  BY <1>12, StoreLostStep
<1>13. CASE \E S \in SUBSET present : \E status \in Statuses : LastLost(S, status)
  BY <1>13, LastLostStep
<1>14. CASE \E S \in SUBSET present : \E M \in SUBSET S : LastConfirmed(S, M)
  BY <1>14, LastConfirmedStep
<1>15. CASE StoreRefused BY <1>15, StoreRefusedStep
<1>16. CASE Verified BY <1>16, VerifiedStep
<1>17. CASE NotVerified BY <1>17, NotVerifiedStep
<1>18. CASE LastRefused BY <1>18, LastRefusedStep
<1>19. CASE Locate BY <1>19, LocateStep
<1>20. CASE NotLocated BY <1>20, NotLocatedStep
<1>21. CASE UNCHANGED batchVars
  <2>1. UNCHANGED <<serverVars, server, up, signalled, cached, phase, index, reportVars, halted,
            wrote, outcome>>
    BY <1>21 DEF batchVars
  <2>2. L' = L /\ plan' = plan /\ StepCount' = StepCount BY <2>1, SamePlan
  <2> USE DEF reportVars
  <2>3. TypeOK' BY <2>1, <2>2 DEF BatchInv, TypeOK, serverVars
  <2>4. PlanOK' BY <2>1, <2>2 DEF BatchInv, PlanOK, L, Flag
  <2>5. PhaseOK' BY <2>1, <2>2 DEF BatchInv, PhaseOK
  <2>6. MailsOK'
    <3>1. UNCHANGED <<serverVars, server, present, index, phase>> /\ index \in Nat
      BY <2>1 DEF BatchInv, PhaseOK
    <3> QED BY <3>1, MailsStay
  <2>7. StepsOK' BY <2>1, <2>2, StepsStay DEF Open
  <2>8. BeginOK' BY <2>1 DEF BatchInv, BeginOK, serverVars
  <2>9. SummaryIsTrue'
    <3>1. \A u, k : HasEffect(u, k)' = HasEffect(u, k)
      BY <2>1, <2>2 DEF HasEffect
    <3> QED BY <2>1, <2>2, <3>1 DEF BatchInv, SummaryIsTrue, serverVars
  <2> QED BY <2>3, <2>4, <2>5, <2>6, <2>7, <2>8, <2>9 DEF BatchInv
<1> QED
  BY <1>1, <1>2, <1>3, <1>4, <1>5, <1>6, <1>7, <1>8, <1>9, <1>10, <1>11, <1>12, <1>13, <1>14, <1>15,
     <1>16, <1>17, <1>18, <1>19, <1>20, <1>21 DEF BatchNext

\* What the invariant says of a call that is over.
LEMMA OverIsTrue == BatchInv => ReportIsTrue
<1> SUFFICES ASSUME BatchInv PROVE ReportIsTrue
  OBVIOUS
<1>1. TypeOK /\ SummaryIsTrue BY DEF BatchInv
<1>2. ASSUME phase = "done", NEW u \in Uids, NEW k \in DOMAIN steps[u]
      PROVE  /\ steps[u][k] = "success" => HasEffect(u, k)
             /\ steps[u][k] = "failed" => HasNoEffect(u, k)
  <2>1. u \in present /\ k \in 1..StepCount
    <3>1. CASE u \notin present
      <4>1. steps[u] = <<>> BY <3>1 DEF BatchInv, TypeOK
      <4>2. DOMAIN steps[u] = {} BY <4>1
      <4> QED BY <4>2, <1>2
    <3>2. CASE u \in present
      <4>1. steps[u] \in [1..StepCount -> Statuses] BY <3>2 DEF BatchInv, TypeOK
      <4> QED BY <4>1, <1>2, <3>2
    <3> QED BY <3>1, <3>2
  <2>2. ~Open(u, k) BY <1>2 DEF Open
  <2>3. StepFits(steps[u][k], server[u], before[u], k, FALSE)
    BY <2>1, <2>2 DEF BatchInv, StepsOK, StepFits
  <2>4. EffectOn(server[u], k) = HasEffect(u, k)
          /\ NoEffectOn(server[u], before[u], k) = HasNoEffect(u, k)
    BY DEF EffectOn, NoEffectOn, HasEffect, HasNoEffect, L, Flag
  <2> QED BY <2>3, <2>4 DEF StepFits
<1> QED BY <1>1, <1>2 DEF ReportIsTrue, StepsAreTrue

\* Whatever a cancellation, a dropped line or a refused command interrupts, the report the
\* user sees is true (mutations.ts:43-299).
THEOREM TrueReport == BatchSpec => []ReportIsTrue
<1>1. BatchInv => ReportIsTrue BY OverIsTrue
<1> QED BY <1>1, BatchBeginsWell, BatchKeeps, PTL DEF BatchSpec

\* Only a command that was sent changes the mailbox, and nothing is sent before the cache
\* was emptied.
LEMMA EmptiedStep == BatchInv /\ [BatchNext]_batchVars => [server' # server => ~cached]_batchVars
<1> SUFFICES ASSUME BatchInv, BatchNext, server' # server PROVE ~cached
  OBVIOUS
<1>1. phase \in {"storing", "moving", "purging"}
  BY DEF BatchNext, Reject, NotSupported, NoDestination, Thrown, Canceled, Fetched, Proceed,
     Return, LineDrops, Cancels, Send,
         StoreConfirmed, StoreRefused, StoreLost, Verified, NotVerified, LastConfirmed,
             LastRefused, LastLost,
         Locate, NotLocated, Writing
<1> QED BY <1>1 DEF BatchInv, PhaseOK

\* Nothing changes on the server while the cache may still hold what was read before
\* (mutations.ts:240-246).
THEOREM EmptiedFirst == BatchSpec => CacheEmptiedFirst
<1> QED BY BatchBeginsWell, BatchKeeps, EmptiedStep, PTL DEF BatchSpec, CacheEmptiedFirst
=================================================================================
