-------------------------------- MODULE BodyPage --------------------------------
(***************************************************************************)
(* Pages of a mail's text (email/body.ts: bodyPage). Offsets count UTF-16  *)
(* units, as JavaScript strings do; of a unit only matters whether it is   *)
(* the first or the second half of a surrogate pair. A reader asks for the *)
(* next page at nextOffset, which is where the last one ended.             *)
(*                                                                         *)
(* MailProofs has that no page begins or ends within a pair, that pages    *)
(* follow each other without a gap or an overlap, and that the reader who  *)
(* goes on to the last one has read the whole text.                        *)
(***************************************************************************)
EXTENDS Naturals, Sequences

Units == {"high", "low", "other"}

\* Is the place before unit number place + 1 in the middle of a pair?
SplitsPair(text, place) ==
  place \in 1..(Len(text) - 1) /\ text[place] = "high" /\ text[place + 1] = "low"

AtMost(a, b) == IF a <= b THEN a ELSE b

\* A page begins at the offset, or at the pair the offset points into.
PageStart(text, offset) ==
  LET start == AtMost(offset, Len(text)) IN IF SplitsPair(text, start) THEN start - 1 ELSE start

\* It has maxChars units at most; one less for a pair, or one more if that would be none.
PageEnd(text, offset, maxChars) ==
  LET start == PageStart(text, offset)
      end   == AtMost(Len(text), start + maxChars)
  IN IF ~SplitsPair(text, end) THEN end ELSE IF end - start = 1 THEN end + 1 ELSE end - 1

\* What a reader gets who begins at offset and follows nextOffset while there is one.
FromOffset(text, offset, maxChars) ==
  LET Rest[o \in 0..Len(text)] ==
        LET end == PageEnd(text, o, maxChars)
        IN SubSeq(text, PageStart(text, o) + 1, end) \o (IF end = Len(text) THEN <<>> ELSE Rest[end])
  IN Rest[offset]
=================================================================================
