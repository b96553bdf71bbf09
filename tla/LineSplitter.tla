----------------------------- MODULE LineSplitter -----------------------------
(***************************************************************************)
(* LineSplitter (src/out_of_proc/packet.rs) cuts the bytes of a server     *)
(* into lines, beside what the lines of a stream are.                      *)
(*                                                                         *)
(* A byte is "x" (text), "LF", "CR", or one of the two halves, "BO" and    *)
(* "M", of a byte order mark, which is no text when it is torn.            *)
(***************************************************************************)
EXTENDS Integers, SequencesExt

CONSTANT MaxLine   \* MAX_LINE_BYTES

Bytes == {"x", "LF", "CR", "BO", "M"}

\* new, and what push has returned so far.
NewSplitter == [buf |-> <<>>, seen_first_line |-> FALSE, lines |-> <<>>, failed |-> FALSE]

\* from_utf8
IsText(line) ==
  \A i \in DOMAIN line :
    /\ line[i] = "BO" => i < Len(line) /\ line[i + 1] = "M"
    /\ line[i] = "M"  => i > 1 /\ line[i - 1] = "BO"

WithoutCR(line)   == IF line # <<>> /\ Last(line) = "CR" THEN Front(line) ELSE line
WithoutMark(line) == IF IsPrefix(<<"BO", "M">>, line) THEN SubSeq(line, 3, Len(line)) ELSE line

\* finish_line
FinishLine(s, raw) ==
  LET line == WithoutCR(raw) IN
  IF Len(raw) > MaxLine \/ ~IsText(line) THEN [s EXCEPT !.failed = TRUE]
  ELSE [s EXCEPT !.buf = <<>>, !.seen_first_line = TRUE,
                 !.lines = Append(@, IF s.seen_first_line THEN line ELSE WithoutMark(line))]

\* The search for the next newline, byte by byte.
TakeByte(s, b) ==
  CASE s.failed               -> s
    [] ~s.failed /\ b = "LF"  -> FinishLine(s, s.buf)
    [] ~s.failed /\ b # "LF"  -> [s EXCEPT !.buf = Append(@, b)]

\* The bytes of a push, one after the other.
TakeBytes(s, bytes) ==
  LET taken[n \in 0..Len(bytes)] == IF n = 0 THEN s ELSE TakeByte(taken[n - 1], bytes[n])
  IN  taken[Len(bytes)]

\* Variant: the partial line of an earlier push is dropped.
PushForgetting(s, bytes) == TakeBytes([s EXCEPT !.buf = <<>>], bytes)

\* push: what is left over continues the partial line, if it is not too long.
Push(s, bytes) ==
  LET done == TakeBytes(s, bytes)
  IN  [done EXCEPT !.failed = @ \/ Len(done.buf) > MaxLine]

-----------------------------------------------------------------------------
(* The lines of a stream.                                                  *)

\* Where its newlines are, in order.
Ends(stream) ==
  LET ends[n \in 0..Len(stream)] ==
        IF n = 0 THEN <<>>
        ELSE IF stream[n] = "LF" THEN Append(ends[n - 1], n) ELSE ends[n - 1]
  IN  ends[Len(stream)]

\* The lines without their newline, and what follows the last newline.
Raws(stream) ==
  LET ends == Ends(stream)
  IN  [k \in 1..Len(ends) + 1 |->
         SubSeq(stream, IF k = 1 THEN 1 ELSE ends[k - 1] + 1,
                IF k \in DOMAIN ends THEN ends[k] - 1 ELSE Len(stream))]

\* A line is refused for its length or, once it is whole, for its text.
Refused(raws, k) ==
  \/ Len(raws[k]) > MaxLine
  \/ k < Len(raws) /\ ~IsText(WithoutCR(raws[k]))

\* The lines before the first that is refused, if one is.
LinesOf(stream) ==
  LET raws == Raws(stream)
      good == {k \in 1..Len(raws) - 1 : \A j \in 1..k : ~Refused(raws, j)}
  IN  [k \in good |-> IF k = 1 THEN WithoutMark(WithoutCR(raws[k])) ELSE WithoutCR(raws[k])]
IsRefused(stream) ==
  LET raws == Raws(stream) IN \E k \in DOMAIN raws : Refused(raws, k)
=============================================================================
