----------------------------- MODULE SseDecoder -----------------------------
(***************************************************************************)
(* The decoder of an upstream's event stream (sse.rs): bytes arrive in     *)
(* chunks cut anywhere, and leave as frames that end at a blank line,      *)
(* written LF LF or CR LF CR LF.                                           *)
(*                                                                         *)
(* The buffer is always a stretch of the stream, so it is kept as its two  *)
(* ends.  What a frame says (parse_frame) is a function of its bytes and   *)
(* left out; a frame without data is skipped by the caller's loop.         *)
(***************************************************************************)
EXTENDS Integers, Sequences

CONSTANTS
  Stream,     \* the bytes the upstream sends before it ends the stream
  CR, LF,
  MaxBuffer   \* 2 MiB

\* What the theorems about this module assume of them.
Parameters == Stream \in Seq(Int) /\ CR # LF /\ MaxBuffer \in Nat

VARIABLES
  taken, fed,  \* the buffer holds the bytes after the first taken of the fed
  complete,
  frames,      \* the frames decoded: their first and last byte, and where
               \* the next one begins
  outcome      \* "open", "ended" (next_event gives None) or an error

vars == <<taken, fed, complete, frames, outcome>>

Frame == [first : Nat, last : Nat, next : Nat]
Errors == {"FrameTooLarge", "ReadTimeout", "Transport"}

TypeOK ==
  /\ taken \in Nat /\ fed \in Nat /\ taken <= fed /\ fed <= Len(Stream)
  /\ complete \in BOOLEAN
  /\ frames \in Seq(Frame)
  /\ outcome \in {"open", "ended"} \cup Errors

Init ==
  /\ taken = 0 /\ fed = 0
  /\ complete = FALSE
  /\ frames = <<>>
  /\ outcome = "open"

-----------------------------------------------------------------------------
CrlfAt(i) ==
  /\ i \in 1..(Len(Stream) - 3)
  /\ Stream[i] = CR /\ Stream[i + 1] = LF /\ Stream[i + 2] = CR /\ Stream[i + 3] = LF
LfAt(i) == i \in 1..(Len(Stream) - 1) /\ Stream[i] = LF /\ Stream[i + 1] = LF

\* The separators of each kind the buffer holds whole.
CrlfsIn == {i \in (taken + 1)..(fed - 3) : CrlfAt(i)}
LfsIn == {i \in (taken + 1)..(fed - 1) : LfAt(i)}
FirstOf(i, S) == i \in S /\ \A j \in S : i <= j

\* find_separator: the first CR LF CR LF, or the first LF LF if there is none.
Found(i, length) ==
  \/ FirstOf(i, CrlfsIn) /\ length = 4
  \/ CrlfsIn = {} /\ FirstOf(i, LfsIn) /\ length = 2
NoneFound == CrlfsIn = {} /\ LfsIn = {}

TakeFrame(last, next) ==
  /\ frames' = Append(frames, [first |-> taken + 1, last |-> last, next |-> next])
  /\ taken' = next - 1

-----------------------------------------------------------------------------
(* The turns of the loop of next_event.                                    *)

Split ==
  /\ outcome = "open"
  /\ \E i \in DOMAIN Stream, length \in {2, 4} : Found(i, length) /\ TakeFrame(i - 1, i + length)
  /\ UNCHANGED <<fed, complete, outcome>>

Receive ==
  /\ outcome = "open" /\ NoneFound /\ ~complete
  /\ \E more \in (fed + 1)..Len(Stream) :
       /\ fed' = more
       /\ outcome' = IF more - taken > MaxBuffer THEN "FrameTooLarge" ELSE "open"
  /\ UNCHANGED <<taken, complete, frames>>

Break ==
  /\ outcome = "open" /\ NoneFound /\ ~complete
  /\ outcome' \in {"ReadTimeout", "Transport"}
  /\ UNCHANGED <<taken, fed, complete, frames>>

Close ==
  /\ outcome = "open" /\ NoneFound /\ ~complete
  /\ fed = Len(Stream)
  /\ complete' = TRUE
  /\ UNCHANGED <<taken, fed, frames, outcome>>

\* What is left when the stream ends is a frame too.
TakeRest ==
  /\ outcome = "open" /\ NoneFound /\ complete
  /\ taken < fed
  /\ TakeFrame(fed, fed + 1)
  /\ UNCHANGED <<fed, complete, outcome>>

End ==
  /\ outcome = "open" /\ complete
  /\ taken = fed
  /\ outcome' = "ended"
  /\ UNCHANGED <<taken, fed, complete, frames>>

Next == Split \/ Receive \/ Break \/ Close \/ TakeRest \/ End

Spec == Init /\ [][Next]_vars

-----------------------------------------------------------------------------
(* Properties.                                                             *)

\* How long the separator is that begins at byte i of the stream, 0 if none.
Separator(i) == IF CrlfAt(i) THEN 4 ELSE IF LfAt(i) THEN 2 ELSE 0

\* An upstream writes its blank lines in one way.
Uniform == (\A i \in DOMAIN Stream : ~CrlfAt(i)) \/ (\A i \in DOMAIN Stream : ~LfAt(i))

\* The frame ends where the stream has its next separator, and the next frame
\* begins behind it; the last one may end with the stream.
Sent(f) ==
  /\ \A i \in f.first..f.last : Separator(i) = 0
  /\ \/ Separator(f.last + 1) > 0 /\ f.next = f.last + 1 + Separator(f.last + 1)
     \/ f.last = Len(Stream) /\ f.next = f.last + 1

\* However the bytes were cut into chunks, the frames are those the upstream
\* sent, one after the other from the first byte; and a stream that ended has
\* been decoded to its last byte.
FramesAsSent ==
  Uniform =>
    /\ \A k \in DOMAIN frames :
         /\ Sent(frames[k])
         /\ frames[k].first = IF k = 1 THEN 1 ELSE frames[k - 1].next
    /\ outcome = "ended" =>
         taken = Len(Stream) /\ (frames # <<>> => frames[Len(frames)].next = taken + 1)

\* A frame that is passed on is within the limit, its separator included,
\* also if more than one came in a chunk.
LimitKept == \A k \in DOMAIN frames : frames[k].next - frames[k].first <= MaxBuffer

=============================================================================
