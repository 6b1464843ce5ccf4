---------------------------- MODULE AnswerProofs ----------------------------
(***************************************************************************)
(* Proofs that a relayed stream tells the answer it was given, that its    *)
(* frames balance and that its indices are orderly, for any pairs of       *)
(* protocols and any answer; and about SseDecoder, for every stream,       *)
(* however it is cut.                                                      *)
(*                                                                         *)
(* A stream is compared with what it says, its transcript.  What the       *)
(* provider has said is what has been heard of it, chunk by chunk, and a   *)
(* source knows the calls and blocks in that (Hearer).  A sink knows what  *)
(* it has opened, what of that is open and what comes next, and what it    *)
(* has sent says what has been heard (KnowsSink).  The two together are    *)
(* Underway, which every turn keeps.  Closing the stream repeats the       *)
(* pieces and closes what is open, which makes what was sent faithful      *)
(* (FaithfulTo); that it stays.  KInv is this in every state.              *)
(***************************************************************************)
EXTENDS StreamProofs

-----------------------------------------------------------------------------
(* An Anthropic sink, frame by frame.                                      *)

\* What its frames say.
LEMMA BlockFrames ==
  /\ \A tokens : SaidBy(MessageStart(tokens)) = <<>>
  /\ \A b, what : SaidBy(BlockStart(b, "text", what)) = <<Said("open", "text", b, what)>>
  /\ \A b, what : SaidBy(BlockStart(b, "tool_use", what)) = <<Said("open", "call", b, what)>>
  /\ \A b, piece : SaidBy(BlockDelta(b, "text", piece)) = <<Said("piece", "text", b, piece)>>
  /\ \A b, piece :
       SaidBy(BlockDelta(b, "tool_use", piece)) = <<Said("piece", "call", b, piece)>>
  /\ \A b : SaidBy(BlockStop(b)) = <<Said("close", None, b, None)>>
<1>1. KindOf("text") = "text" /\ KindOf("tool_use") = "call"
  BY DEF KindOf
<1> QED
  BY <1>1 DEF SaidBy, MessageStart, BlockStart, BlockDelta, BlockStop

\* What is known of its frames.
LEMMA AnthropicFacts ==
  ASSUME NEW s, NEW F, NEW h, NEW n, KnowsAnthropic(s, F, h, n),
         NEW x, x = Transcript(F)
  PROVE  /\ Sequence(F) /\ Sequence(x) /\ Well(x) /\ Well(h) /\ Sequence(h)
         /\ Agrees(x, h, FALSE) /\ Blocks(s, x, n) /\ s.block \in Nat
         /\ Sayings(F) /\ Framed(x, FALSE)
         /\ s.started = (F # <<>>) /\ (F # <<>> => F[1].type = "message_start")
BY DEF KnowsAnthropic, Agrees, Well, Sayings, Blocks

\* A frame is known, if the sink knows what it says.
LEMMA AnthropicFrame ==
  ASSUME NEW s, NEW F, NEW h, NEW n, KnowsAnthropic(s, F, h, n), F # <<>>,
         NEW x, x = Transcript(F), NEW f, NEW u, SaidBy(f) = <<u>>, MaySay(x, u, FALSE),
         NEW t, t.started = s.started, NEW i, NEW m, Agrees(x \o <<u>>, i, FALSE),
         Blocks(t, x \o <<u>>, m)
  PROVE  KnowsAnthropic(t, F \o <<f>>, i, m) /\ F \o <<f>> # <<>>
<1>1. /\ Sequence(F) /\ Sequence(x) /\ Sayings(F) /\ Framed(x, FALSE)
      /\ s.started = TRUE /\ F[1].type = "message_start"
  BY AnthropicFacts
<1>2. Sayings(F \o <<f>>) /\ Transcript(F \o <<f>>) = x \o <<u>>
  BY <1>1, FrameSays
<1>3. Framed(x \o <<u>>, FALSE)
  BY <1>1, FramedMore
<1>4. F \o <<f>> # <<>> /\ (F \o <<f>>)[1] = F[1]
  BY <1>1, FramePlace
<1> QED
  BY <1>1, <1>2, <1>3, <1>4 DEF KnowsAnthropic

\* What it knows is in these fields.
LEMMA AnthropicAlike ==
  ASSUME NEW s, NEW t, NEW F, NEW h, NEW n, KnowsAnthropic(s, F, h, n),
         t.started = s.started, t.block = s.block, t.open = s.open, t.calls = s.calls
  PROVE  KnowsAnthropic(t, F, h, n)
BY ZenonT(40) DEF KnowsAnthropic, Blocks

\* A text is started,
LEMMA StartsText ==
  ASSUME NEW s, NEW F, NEW h, NEW n, KnowsAnthropic(s, F, h, n), F # <<>>, ~s.open,
         NEW t, t.started = s.started, t.block = s.block, t.open = TRUE, t.calls = s.calls
  PROVE  LET f == BlockStart(s.block, "text", None) IN
         KnowsAnthropic(t, F \o <<f>>, h, n) /\ F \o <<f>> # <<>>
<1> DEFINE f == BlockStart(s.block, "text", None)
           u == Said("open", "text", s.block, None)
           x == Transcript(F)
<1>1. SaidBy(f) = <<u>> /\ u.act = "open" /\ u.kind = "text" /\ u.key = s.block
  BY BlockFrames DEF Said
<1>2. /\ Sequence(x) /\ Agrees(x, h, FALSE) /\ Blocks(s, x, n) /\ s.block \in Nat
      /\ x = Transcript(F)
  BY AnthropicFacts
<1> HIDE DEF f, u, x
<1>3. Agrees(x \o <<u>>, h, FALSE) /\ CallsIn(x \o <<u>>) = CallsIn(x)
  BY <1>1, <1>2, AgreeNoise
<1>4. Opened(x) = 0..(s.block - 1)
  BY <1>2 DEF Blocks
<1>5. Opened(x \o <<u>>) = Opened(x) \cup {s.block} /\ Closed(x \o <<u>>) = Closed(x)
  BY <1>1, <1>2, KeysSay
<1>6. MaySay(x, u, FALSE)
  BY <1>1, <1>2, <1>4 DEF MaySay
<1>7. Blocks(t, x \o <<u>>, n)
  <2>1. \A k \in 1..n : KeyOf(x \o <<u>>, k) = s.calls[k - 1]
    BY <1>2, <1>3 DEF Blocks, KeyOf
  <2>2. Opened(x \o <<u>>) = 0..(t.block - 1) \cup {t.block}
    BY <1>4, <1>5
  <2> DEFINE calls == {s.calls[i] : i \in 0..(n - 1)}
  <2>3. /\ Closed(x) \cup calls = 0..(s.block - 1) /\ Closed(x) \cap calls = {}
        /\ DOMAIN s.calls = 0..(n - 1)
    BY <1>2 DEF Blocks
  <2>4. calls = {t.calls[i] : i \in 0..(n - 1)}
    OBVIOUS
  <2> HIDE DEF calls
  <2> QED
    BY <1>2, <1>5, <2>1, <2>2, <2>3, <2>4 DEF Blocks
<1> QED
  BY <1>1, <1>2, <1>3, <1>6, <1>7, AnthropicFrame DEF f

\* spoken in,
LEMMA SaysText ==
  ASSUME NEW s, NEW F, NEW h, NEW n, KnowsAnthropic(s, F, h, n), F # <<>>, s.open,
         NEW t, t.started = s.started, t.block = s.block, t.open = s.open, t.calls = s.calls,
         NEW piece, NEW v, v.act = "piece", v.kind = "text", v.what = piece
  PROVE  LET f == BlockDelta(s.block, "text", piece) IN
         KnowsAnthropic(t, F \o <<f>>, h \o <<v>>, n) /\ F \o <<f>> # <<>>
<1> DEFINE f == BlockDelta(s.block, "text", piece)
           u == Said("piece", "text", s.block, piece)
           x == Transcript(F)
<1>1. /\ SaidBy(f) = <<u>> /\ u.act = "piece" /\ u.kind = "text" /\ u.key = s.block
      /\ u.what = v.what
  BY BlockFrames DEF Said
<1>2. /\ Sequence(x) /\ Agrees(x, h, FALSE) /\ Blocks(s, x, n) /\ s.block \in Nat
      /\ x = Transcript(F)
  BY AnthropicFacts
<1> HIDE DEF f, u, x
<1>3. Agrees(x \o <<u>>, h \o <<v>>, FALSE)
  BY <1>1, <1>2, AgreeText
<1>4. CallsIn(x \o <<u>>) = CallsIn(x)
  BY <1>1, <1>2, CallsMore
<1>5. s.block \in Opened(x) /\ s.block \notin Closed(x)
  BY <1>2 DEF Blocks
<1>6. Opened(x \o <<u>>) = Opened(x) /\ Closed(x \o <<u>>) = Closed(x)
  BY <1>1, <1>2, KeysSay
<1>7. MaySay(x, u, FALSE)
  BY <1>1, <1>5 DEF MaySay
<1>8. Blocks(t, x \o <<u>>, n)
  <2>1. PICK y : y = x \o <<u>>
    OBVIOUS
  <2>2. /\ Opened(y) = Opened(x) /\ Closed(y) = Closed(x)
        /\ \A j : KeyOf(y, j) = KeyOf(x, j)
    BY <1>4, <1>6, <2>1 DEF KeyOf
  <2>3. Blocks(s, x, n)
    BY <1>2
  <2>4. Blocks(t, y, n)
    BY <2>2, <2>3 DEF Blocks
  <2> QED
    BY <2>1, <2>4
<1> QED
  BY <1>1, <1>2, <1>3, <1>7, <1>8, AnthropicFrame DEF f

\* and stopped.
LEMMA StopsText ==
  ASSUME NEW s, NEW F, NEW h, NEW n, KnowsAnthropic(s, F, h, n), F # <<>>, s.open,
         NEW t, t.started = s.started, t.block = s.block + 1, t.open = FALSE,
         t.calls = s.calls
  PROVE  LET f == BlockStop(s.block) IN
         KnowsAnthropic(t, F \o <<f>>, h, n) /\ F \o <<f>> # <<>>
<1> DEFINE f == BlockStop(s.block)
           u == Said("close", None, s.block, None)
           x == Transcript(F)
<1>1. SaidBy(f) = <<u>> /\ u.act = "close" /\ u.key = s.block
  BY BlockFrames DEF Said
<1>2. /\ Sequence(x) /\ Agrees(x, h, FALSE) /\ Blocks(s, x, n) /\ s.block \in Nat
      /\ x = Transcript(F)
  BY AnthropicFacts
<1> HIDE DEF f, u, x
<1>3. Agrees(x \o <<u>>, h, FALSE) /\ CallsIn(x \o <<u>>) = CallsIn(x)
  BY <1>1, <1>2, AgreeNoise
<1> DEFINE calls == {s.calls[i] : i \in 0..(n - 1)}
<1>4. /\ Opened(x) = 0..(s.block - 1) \cup {s.block} /\ Closed(x) \cup calls = 0..(s.block - 1)
      /\ Closed(x) \cap calls = {}
  BY <1>2 DEF Blocks
<1>5. Opened(x \o <<u>>) = Opened(x) /\ Closed(x \o <<u>>) = Closed(x) \cup {s.block}
  BY <1>1, <1>2, KeysSay
<1>6. MaySay(x, u, FALSE)
  BY <1>1, <1>2, <1>4 DEF MaySay
<1>7. Blocks(t, x \o <<u>>, n)
  <2>1. DOMAIN s.calls = 0..(n - 1) /\ \A k \in 1..n : KeyOf(x, k) = s.calls[k - 1]
    BY <1>2 DEF Blocks
  <2>2. \A k \in 1..n : KeyOf(x \o <<u>>, k) = t.calls[k - 1]
    BY <1>3, <2>1 DEF KeyOf
  <2>3. calls = {t.calls[i] : i \in 0..(n - 1)}
    OBVIOUS
  <2> HIDE DEF calls
  <2>4. t.block \in Nat /\ 0..(t.block - 1) = 0..(s.block - 1) \cup {s.block}
    BY <1>2
  <2>5. Opened(x \o <<u>>) = 0..(t.block - 1)
    BY <1>4, <1>5, <2>4
  <2>6. s.block \notin calls
    BY <1>2, <1>4
  <2>7. /\ Closed(x \o <<u>>) \cup calls = 0..(t.block - 1)
        /\ Closed(x \o <<u>>) \cap calls = {}
    BY <1>4, <1>5, <2>4, <2>6
  <2> QED
    BY <2>1, <2>2, <2>3, <2>4, <2>5, <2>7 DEF Blocks
<1> QED
  BY <1>1, <1>2, <1>3, <1>6, <1>7, AnthropicFrame DEF f

\* A call is started,
LEMMA StartsCall ==
  ASSUME NEW s, NEW F, NEW h, NEW n, n \in Nat, KnowsAnthropic(s, F, h, n), F # <<>>, ~s.open,
         NEW t, t.started = s.started, t.block = s.block + 1, t.open = s.open,
         t.calls = With(s.calls, n, s.block),
         NEW call, NEW v, v.act = "open", v.kind = "call", v.what = call,
         v.key \notin Opened(h), Len(CallsIn(h)) = n
  PROVE  LET f == BlockStart(s.block, "tool_use", call) IN
         KnowsAnthropic(t, F \o <<f>>, h \o <<v>>, n + 1) /\ F \o <<f>> # <<>>
<1> DEFINE f == BlockStart(s.block, "tool_use", call)
           u == Said("open", "call", s.block, call)
           x == Transcript(F)
<1>1. /\ SaidBy(f) = <<u>> /\ u.act = "open" /\ u.kind = "call" /\ u.key = s.block
      /\ u.what = v.what
  BY BlockFrames DEF Said
<1>2. /\ Sequence(x) /\ Agrees(x, h, FALSE) /\ Blocks(s, x, n) /\ s.block \in Nat
      /\ x = Transcript(F)
  BY AnthropicFacts
<1> HIDE DEF f, u, x
<1> DEFINE calls == {s.calls[i] : i \in 0..(n - 1)}
<1>3. /\ Opened(x) = 0..(s.block - 1) /\ Closed(x) \cup calls = 0..(s.block - 1)
      /\ Closed(x) \cap calls = {}
  BY <1>2 DEF Blocks
<1>4. Agrees(x \o <<u>>, h \o <<v>>, FALSE)
  <2>1. u.key \notin Opened(x)
    BY <1>1, <1>2, <1>3
  <2> QED
    BY <1>1, <1>2, <2>1, AgreeOpen
<1>5. Opened(x \o <<u>>) = Opened(x) \cup {s.block} /\ Closed(x \o <<u>>) = Closed(x)
  BY <1>1, <1>2, KeysSay
<1>6. MaySay(x, u, FALSE)
  BY <1>1, <1>2, <1>3 DEF MaySay
<1>7. Blocks(t, x \o <<u>>, n + 1)
  <2>1. DOMAIN s.calls = 0..(n - 1) /\ \A k \in 1..n : KeyOf(x, k) = s.calls[k - 1]
    BY <1>2 DEF Blocks
  <2>2. /\ DOMAIN t.calls = 0..((n + 1) - 1) /\ t.calls[n] = s.block
        /\ \A i \in 0..(n - 1) : t.calls[i] = s.calls[i]
    BY <2>1 DEF With
  <2>3. Len(CallsIn(x)) = n
    BY <1>2 DEF Agrees
  <2>4. /\ CallsIn(x \o <<u>>)[n + 1] = u
        /\ \A k \in 1..n : CallsIn(x \o <<u>>)[k] = CallsIn(x)[k]
    BY <1>1, <1>2, <2>3, CallsMore
  <2>5. ASSUME NEW k \in 1..(n + 1) PROVE KeyOf(x \o <<u>>, k) = t.calls[k - 1]
    <3>1. CASE k = n + 1
      <4>1. k - 1 = n
        BY <3>1
      <4> QED
        BY <1>1, <2>2, <2>4, <3>1, <4>1 DEF KeyOf
    <3>2. CASE k \in 1..n
      <4>1. k - 1 \in 0..(n - 1)
        BY <3>2
      <4> QED
        BY <2>1, <2>2, <2>4, <3>2, <4>1 DEF KeyOf
    <3> QED
      BY <3>1, <3>2
  <2> DEFINE more == {t.calls[i] : i \in 0..((n + 1) - 1)}
  <2>6. more = calls \cup {s.block}
    <3>1. 0..((n + 1) - 1) = 0..(n - 1) \cup {n}
      OBVIOUS
    <3> QED
      BY <2>2, <3>1, ZenonT(40)
  <2> HIDE DEF calls, more
  <2>7. t.block \in Nat /\ 0..(t.block - 1) = 0..(s.block - 1) \cup {s.block}
    BY <1>2
  <2>8. Opened(x \o <<u>>) = 0..(t.block - 1)
    BY <1>3, <1>5, <2>7
  <2>9. s.block \notin Closed(x)
    BY <1>2, <1>3
  <2>10. /\ Closed(x \o <<u>>) \cup more = 0..(t.block - 1)
         /\ Closed(x \o <<u>>) \cap more = {}
    BY <1>3, <1>5, <2>6, <2>7, <2>9
  <2>11. t.open = FALSE
    BY <1>2 DEF Blocks
  <2> QED
    BY <2>2, <2>5, <2>7, <2>8, <2>10, <2>11 DEF Blocks, more
<1> QED
  BY <1>1, <1>2, <1>4, <1>6, <1>7, AnthropicFrame DEF f

\* and spoken in, before it is stopped at the end.
LEMMA SaysCall ==
  ASSUME NEW s, NEW F, NEW h, NEW n, n \in Nat, KnowsAnthropic(s, F, h, n), F # <<>>,
         NEW t, t.started = s.started, t.block = s.block, t.open = s.open, t.calls = s.calls,
         NEW i \in 0..(n - 1), NEW piece,
         NEW v, v.act = "piece", v.kind = "call", v.what = piece,
         v.key = KeyOf(h, i + 1), Len(CallsIn(h)) = n
  PROVE  LET f == BlockDelta(s.calls[i], "tool_use", piece) IN
         KnowsAnthropic(t, F \o <<f>>, h \o <<v>>, n) /\ F \o <<f>> # <<>>
<1> DEFINE f == BlockDelta(s.calls[i], "tool_use", piece)
           u == Said("piece", "call", s.calls[i], piece)
           x == Transcript(F)
<1>1. /\ SaidBy(f) = <<u>> /\ u.act = "piece" /\ u.kind = "call" /\ u.key = s.calls[i]
      /\ u.what = v.what
  BY BlockFrames DEF Said
<1>2. /\ Sequence(x) /\ Agrees(x, h, FALSE) /\ Blocks(s, x, n) /\ s.block \in Nat
      /\ x = Transcript(F)
  BY AnthropicFacts
<1> HIDE DEF f, u, x
<1> DEFINE calls == {s.calls[j] : j \in 0..(n - 1)}
<1>3. /\ 0..(s.block - 1) \subseteq Opened(x) /\ Closed(x) \cup calls = 0..(s.block - 1)
      /\ Closed(x) \cap calls = {}
  BY <1>2 DEF Blocks
<1>4. Agrees(x \o <<u>>, h \o <<v>>, FALSE) /\ CallsIn(x \o <<u>>) = CallsIn(x)
  <2>1. PICK k : k = i + 1
    OBVIOUS
  <2>2. k \in 1..n /\ k - 1 = i
    BY <2>1
  <2>3. KeyOf(x, k) = s.calls[i]
    BY <1>2, <2>2 DEF Blocks
  <2>4. u.key = KeyOf(x, k) /\ v.key = KeyOf(h, k) /\ k \in 1..Len(CallsIn(h))
    BY <1>1, <2>1, <2>2, <2>3
  <2>5. \A w \in BOOLEAN : Agrees(x, h, w) =>
          /\ Agrees(x \o <<u>>, h \o <<v>>, w)
          /\ CallsIn(x \o <<u>>) = CallsIn(x) /\ CallsIn(h \o <<v>>) = CallsIn(h)
    BY <1>1, <2>4, AgreePiece
  <2> QED
    BY <1>2, <2>5
<1>5. s.calls[i] \in Opened(x) /\ s.calls[i] \notin Closed(x)
  BY <1>3
<1>6. Opened(x \o <<u>>) = Opened(x) /\ Closed(x \o <<u>>) = Closed(x)
  BY <1>1, <1>2, KeysSay
<1>7. MaySay(x, u, FALSE)
  BY <1>1, <1>5 DEF MaySay
<1>8. Blocks(t, x \o <<u>>, n)
  <2>1. PICK y : y = x \o <<u>>
    OBVIOUS
  <2>2. /\ Opened(y) = Opened(x) /\ Closed(y) = Closed(x)
        /\ \A j : KeyOf(y, j) = KeyOf(x, j)
    BY <1>4, <1>6, <2>1 DEF KeyOf
  <2>3. Blocks(s, x, n)
    BY <1>2
  <2>4. Blocks(t, y, n)
    BY <2>2, <2>3 DEF Blocks
  <2> QED
    BY <2>1, <2>4
<1> QED
  BY <1>1, <1>2, <1>4, <1>7, <1>8, AnthropicFrame DEF f

-----------------------------------------------------------------------------
(* An Anthropic sink, piece by piece.                                      *)

\* One frame, and two, after those that were sent.
LEMMA OutOnce ==
  ASSUME NEW R, Sequence(R), NEW s, Sequence(s.out), NEW t, NEW f, t.out = s.out \o <<f>>
  PROVE  R \o t.out = (R \o s.out) \o <<f>> /\ Sequence(t.out)
<1>1. PICK o : o = s.out
  OBVIOUS
<1>2. Sequence(o) /\ t.out = o \o <<f>>
  BY <1>1
<1>3. R \o (o \o <<f>>) = (R \o o) \o <<f>>
  BY <1>2, OutMore, SMTT(30)
<1>4. Sequence(o \o <<f>>)
  BY <1>2, FramePlace
<1> QED
  BY <1>1, <1>2, <1>3, <1>4

\* A piece of text is told,
LEMMA TalkToldAnthropic ==
  ASSUME NEW s, AnthropicSink(s), NEW R, Sequence(R), NEW h, NEW n,
         KnowsAnthropic(s, R \o s.out, h, n), R \o s.out # <<>>, NEW piece, piece # None
  PROVE  LET t == TalkToAnthropic(s, piece) IN
         /\ KnowsAnthropic(t, R \o t.out, h \o Spoken("text", None, piece), n)
         /\ R \o t.out # <<>>
<1> DEFINE t == TalkToAnthropic(s, piece)
           f == BlockStart(s.block, "text", None)
           g == BlockDelta(s.block, "text", piece)
           v == Said("piece", "text", None, piece)
<1>1. /\ t.started = s.started /\ t.block = s.block /\ t.open = TRUE /\ t.calls = s.calls
      /\ t.out = s.out \o ((IF s.open THEN <<>> ELSE <<f>>) \o <<g>>)
  <2> HIDE DEF f, g
  <2> QED
    BY DEF TalkToAnthropic, Send, AnthropicSink, f, g
<1>2. PICK e : e = Send([s EXCEPT !.open = TRUE], IF s.open THEN <<>> ELSE <<f>>)
  OBVIOUS
<1>3. /\ e.started = s.started /\ e.block = s.block /\ e.open = TRUE /\ e.calls = s.calls
      /\ e.out = s.out \o (IF s.open THEN <<>> ELSE <<f>>)
  <2> HIDE DEF f
  <2> QED
    BY <1>2 DEF Send, AnthropicSink
<1>4. Spoken("text", None, piece) = <<v>>
  BY DEF Spoken
<1>5. v.act = "piece" /\ v.kind = "text" /\ v.what = piece
  BY DEF Said
<1>6. Sequence(s.out) /\ s.open \in BOOLEAN
  BY DEF AnthropicSink, Quiet, KnowsAnthropic, Blocks
<1> HIDE DEF t, f, g, v
<1>7. t.out = e.out \o <<g>>
  <2>1. PICK o : o = s.out
    OBVIOUS
  <2>2. PICK l : l = IF s.open THEN <<>> ELSE <<f>>
    OBVIOUS
  <2>3. Sequence(o) /\ Sequence(l) /\ Sequence(<<g>>)
    BY <1>6, <2>1, <2>2, Short
  <2>4. o \o (l \o <<g>>) = (o \o l) \o <<g>>
    BY <2>3, ThreeJoined
  <2> QED
    BY <1>1, <1>3, <2>1, <2>2, <2>4
<1>8. KnowsAnthropic(e, R \o e.out, h, n) /\ R \o e.out # <<>> /\ Sequence(e.out)
  <2>1. CASE s.open
    <3>1. PICK o : o = s.out
      OBVIOUS
    <3>2. Sequence(o) /\ e.out = o \o <<>>
      BY <1>3, <1>6, <2>1, <3>1
    <3>3. e.out = s.out
      BY <3>1, <3>2, NothingBefore
    <3>4. R \o e.out = R \o s.out
      BY <3>3
    <3>5. e.open = s.open
      BY <1>3, <2>1
    <3>6. KnowsAnthropic(e, R \o s.out, h, n)
      BY <1>3, <3>5, AnthropicAlike
    <3> QED
      BY <1>6, <3>3, <3>4, <3>6
  <2>2. CASE ~s.open
    <3>1. e.out = s.out \o <<f>>
      BY <1>3, <2>2
    <3>2. R \o e.out = (R \o s.out) \o <<f>> /\ Sequence(e.out)
      BY <1>6, <3>1, OutOnce
    <3> DEFINE F == R \o s.out
    <3>3. KnowsAnthropic(e, F \o <<f>>, h, n) /\ F \o <<f>> # <<>>
      <4>1. KnowsAnthropic(s, F, h, n) /\ F # <<>>
        OBVIOUS
      <4> HIDE DEF F
      <4> QED
        BY <1>3, <2>2, <4>1, StartsText DEF f
    <3> QED
      BY <3>2, <3>3
  <2> QED
    BY <1>6, <2>1, <2>2
<1>9. R \o t.out = (R \o e.out) \o <<g>>
  <2>1. PICK z : z = t
    OBVIOUS
  <2>2. z.out = e.out \o <<g>> /\ Sequence(e.out)
    BY <1>7, <1>8, <2>1
  <2>3. R \o z.out = (R \o e.out) \o <<g>> /\ Sequence(z.out)
    BY <2>2, OutOnce, ZenonT(40)
  <2> QED
    BY <2>1, <2>3
<1>10. KnowsAnthropic(t, (R \o e.out) \o <<g>>, h \o <<v>>, n) /\ (R \o e.out) \o <<g>> # <<>>
  <2>1. PICK F : F = R \o e.out
    OBVIOUS
  <2>2. KnowsAnthropic(e, F, h, n) /\ F # <<>> /\ e.open
    BY <1>3, <1>8, <2>1
  <2>3. t.started = e.started /\ t.block = e.block /\ t.open = e.open /\ t.calls = e.calls
    BY <1>1, <1>3
  <2>4. g = BlockDelta(e.block, "text", piece)
    BY <1>3 DEF g
  <2>5. KnowsAnthropic(t, F \o <<g>>, h \o <<v>>, n) /\ F \o <<g>> # <<>>
    BY <1>5, <2>2, <2>3, <2>4, SaysText
  <2> QED
    BY <2>1, <2>5
<1> QED
  BY <1>4, <1>9, <1>10 DEF t

\* the text is stopped,
LEMMA CloseToldAnthropic ==
  ASSUME NEW s, AnthropicSink(s), NEW R, Sequence(R), NEW h, NEW n,
         KnowsAnthropic(s, R \o s.out, h, n), R \o s.out # <<>>
  PROVE  LET t == CloseText(s) IN
         KnowsAnthropic(t, R \o t.out, h, n) /\ R \o t.out # <<>> /\ ~t.open
<1> DEFINE t == CloseText(s)
           f == BlockStop(s.block)
<1>1. s.open \in BOOLEAN /\ Sequence(s.out) /\ s.block \in Nat
  BY DEF KnowsAnthropic, Blocks, AnthropicSink, Quiet
<1>2. CASE ~s.open
  BY <1>2 DEF CloseText
<1>3. CASE s.open
  <2>1. /\ t.started = s.started /\ t.block = s.block + 1 /\ t.open = FALSE
        /\ t.calls = s.calls /\ t.out = s.out \o <<f>>
    <3> HIDE DEF f
    <3> QED
      BY <1>1, <1>3 DEF CloseText, Send, AnthropicSink, f
  <2> HIDE DEF t
  <2>2. R \o t.out = (R \o s.out) \o <<f>>
    <3> HIDE DEF f
    <3>1. PICK z : z = t
      OBVIOUS
    <3>2. z.out = s.out \o <<f>> /\ Sequence(s.out)
      BY <1>1, <2>1, <3>1
    <3>3. R \o z.out = (R \o s.out) \o <<f>> /\ Sequence(z.out)
      BY <3>2, OutOnce
    <3> QED
      BY <3>1, <3>3
  <2>3. PICK F : F = R \o s.out
    OBVIOUS
  <2>4. KnowsAnthropic(t, F \o <<f>>, h, n) /\ F \o <<f>> # <<>>
    <3>1. KnowsAnthropic(s, F, h, n) /\ F # <<>>
      BY <2>3
    <3> QED
      BY <1>3, <2>1, <3>1, StopsText
  <2> QED
    BY <2>1, <2>2, <2>3, <2>4 DEF t
<1> QED
  BY <1>1, <1>2, <1>3

\* and a part of a call is told.
LEMMA CallToldAnthropic ==
  ASSUME NEW s, AnthropicSink(s), NEW R, Sequence(R), NEW h, NEW n, Heeds(h, n),
         KnowsAnthropic(s, R \o s.out, h, n), R \o s.out # <<>>, ~s.open,
         NEW part, NEW m, Fits(part, n, m)
  PROVE  LET t == CallToAnthropic(s, part) IN
         /\ KnowsAnthropic(t, R \o t.out,
                           (h \o OpenedBy(part)) \o Spoken("call", part.index, part.args), m)
         /\ R \o t.out # <<>> /\ ~t.open
<1> DEFINE i == part.index
           f == BlockStart(s.block, "tool_use", part.call)
           v == Said("open", "call", i, part.call)
           w == Said("piece", "call", i, part.args)
           t == CallToAnthropic(s, part)
           l == h \o OpenedBy(part)
<1>1. PICK e : e = IF i \in DOMAIN s.calls THEN s
                   ELSE Send([s EXCEPT !.calls = With(@, i, s.block), !.block = @ + 1], <<f>>)
  OBVIOUS
<1>2. t = IF part.args = None THEN e
          ELSE Send(e, <<BlockDelta(e.calls[i], "tool_use", part.args)>>)
  BY <1>1 DEF CallToAnthropic
<1>3. /\ DOMAIN s.calls = 0..(n - 1) /\ Sequence(s.out) /\ s.block \in Nat
      /\ n \in Nat /\ Sequence(h) /\ Len(CallsIn(h)) = n
  BY DEF KnowsAnthropic, Blocks, AnthropicSink, Quiet, Heeds, Well
<1>4. Heeds(l, m) /\ i \in 0..(m - 1) /\ m \in Nat
  BY HeedsPart
<1>5. /\ KnowsAnthropic(e, R \o e.out, l, m) /\ R \o e.out # <<>> /\ ~e.open
      /\ DOMAIN e = DOMAIN s /\ Sequence(e.out)
  <2>1. CASE part.call = None
    <3>1. i \in DOMAIN s.calls /\ m = n /\ OpenedBy(part) = <<>>
      BY <1>3, <2>1 DEF Fits, OpenedBy
    <3>2. h \o <<>> = h
      BY <1>3, NothingBefore
    <3>3. e = s /\ l = h
      BY <1>1, <3>1, <3>2
    <3> QED
      BY <1>3, <3>1, <3>3
  <2>2. CASE part.call # None
    <3>1. i = n /\ m = n + 1 /\ OpenedBy(part) = <<v>>
      BY <2>2 DEF Fits, OpenedBy
    <3>2. i \notin DOMAIN s.calls
      BY <1>3, <3>1
    <3>3. /\ e.started = s.started /\ e.block = s.block + 1 /\ e.open = s.open
          /\ e.calls = With(s.calls, i, s.block) /\ e.out = s.out \o <<f>>
          /\ DOMAIN e = DOMAIN s
      <4> HIDE DEF f, i
      <4> QED
        BY <1>1, <3>2 DEF Send, AnthropicSink
    <3>4. v.act = "open" /\ v.kind = "call" /\ v.what = part.call /\ v.key = n
      BY <3>1 DEF Said
    <3> HIDE DEF v
    <3>5. v.key \notin Opened(h)
      BY <3>4, HeedsOpen
    <3>6. PICK F : F = R \o s.out
      OBVIOUS
    <3>7. KnowsAnthropic(s, F, h, n) /\ F # <<>>
      BY <3>6
    <3>8. e.calls = With(s.calls, n, s.block)
      BY <3>1, <3>3
    <3>9. KnowsAnthropic(e, F \o <<f>>, h \o <<v>>, n + 1) /\ F \o <<f>> # <<>>
      BY <1>3, <3>3, <3>4, <3>5, <3>7, <3>8, StartsCall
    <3>10. R \o e.out = F \o <<f>> /\ Sequence(e.out)
      <4> HIDE DEF f
      <4>1. R \o e.out = (R \o s.out) \o <<f>> /\ Sequence(e.out)
        <5>1. e.out = s.out \o <<f>> /\ Sequence(s.out)
          BY <1>3, <3>3
        <5> QED
          BY <5>1, OutOnce
      <4> QED
        BY <3>6, <4>1
    <3> HIDE DEF i, f
    <3> QED
      BY <3>1, <3>3, <3>9, <3>10 DEF l
  <2> QED
    BY <2>1, <2>2
<1> HIDE DEF l, t
<1>6. CASE part.args = None
  <2>1. Spoken("call", i, part.args) = <<>> /\ t = e
    BY <1>2, <1>6 DEF Spoken
  <2>2. l \o <<>> = l
    BY <1>4, NothingBefore DEF Heeds, Well
  <2> QED
    BY <1>5, <2>1, <2>2 DEF l, t
<1>7. CASE part.args # None
  <2> DEFINE g == BlockDelta(e.calls[i], "tool_use", part.args)
  <2>1. Spoken("call", i, part.args) = <<w>>
    BY <1>7 DEF Spoken
  <2>2. /\ t.started = e.started /\ t.block = e.block /\ t.open = e.open
        /\ t.calls = e.calls /\ t.out = e.out \o <<g>>
    <3>1. t = Send(e, <<g>>)
      BY <1>2, <1>7
    <3> HIDE DEF g
    <3> QED
      BY <1>5, <3>1 DEF Send, AnthropicSink
  <2>3. w.act = "piece" /\ w.kind = "call" /\ w.what = part.args /\ w.key = i
    BY DEF Said
  <2>4. Len(CallsIn(l)) = m /\ KeyOf(l, i + 1) = i
    <3>1. i + 1 \in 1..m /\ (i + 1) - 1 = i
      BY <1>4
    <3> QED
      BY <1>4, <3>1 DEF Heeds, KeyOf
  <2>5. PICK F : F = R \o e.out
    OBVIOUS
  <2>6. KnowsAnthropic(e, F, l, m) /\ F # <<>>
    BY <1>5, <2>5
  <2> HIDE DEF w
  <2>7. KnowsAnthropic(t, F \o <<g>>, l \o <<w>>, m) /\ F \o <<g>> # <<>>
    BY <1>4, <2>2, <2>3, <2>4, <2>6, SaysCall
  <2>8. R \o t.out = F \o <<g>>
    <3> HIDE DEF g
    <3>1. PICK z : z = t
      OBVIOUS
    <3>2. z.out = e.out \o <<g>> /\ Sequence(e.out)
      BY <1>5, <2>2, <3>1
    <3>3. R \o z.out = (R \o e.out) \o <<g>> /\ Sequence(z.out)
      BY <3>2, OutOnce
    <3> QED
      BY <2>5, <3>1, <3>3
  <2> QED
    BY <1>5, <2>1, <2>2, <2>7, <2>8 DEF l, t
<1> QED
  BY <1>6, <1>7

-----------------------------------------------------------------------------
(* What an Anthropic sink knows after a chunk.                             *)

\* The first chunk starts the message, and every chunk may count and say why
\* it ends.
BegunMessage(s) ==
  IF s.started THEN s ELSE Send([s EXCEPT !.started = TRUE], <<MessageStart(Tokens(0, 0))>>)
CountedMessage(s, c) ==
  [s EXCEPT !.usage = UsageOf(c, @),
            !.stop = IF c.finish = None THEN @ ELSE StopReason(c.finish)]
LEMMA BegunToldAnthropic ==
  ASSUME NEW s, AnthropicSink(s), s.out = <<>>, NEW R, Sequence(R), NEW h, NEW n,
         KnowsAnthropic(s, R, h, n), NEW c, Chunk(c)
  PROVE  LET t == CountedMessage(BegunMessage(s), c) IN
         /\ AnthropicSink(t) /\ R \o t.out # <<>>
         /\ KnowsAnthropic(t, R \o t.out, h, n)
<1> DEFINE b == BegunMessage(s)
           t == CountedMessage(b, c)
           f == MessageStart(Tokens(0, 0))
<1>1. AnthropicSink(b) /\ b.usage \in Count
  <2>1. Quiet(<<f>>)
    BY QuietShort, QuietFrames
  <2> DEFINE r == [s EXCEPT !.started = TRUE]
  <2>2. AnthropicSink(r)
    BY DEF AnthropicSink
  <2> HIDE DEF r, f
  <2>3. AnthropicSink(Send(r, <<f>>))
    BY <2>1, <2>2, SendAnthropic DEF StaysAnthropic
  <2> QED
    BY <2>3 DEF BegunMessage, AnthropicSink, r, f
<1>2. /\ t.started = b.started /\ t.block = b.block /\ t.open = b.open /\ t.calls = b.calls
      /\ t.out = b.out /\ DOMAIN t = DOMAIN b /\ t.usage = UsageOf(c, b.usage)
  <2> HIDE DEF b
  <2> QED
    BY <1>1 DEF CountedMessage, AnthropicSink
<1>3. AnthropicSink(t)
  <2>1. UsageOf(c, b.usage) \in Count
    BY <1>1, ChunkFacts
  <2> HIDE DEF b, t
  <2> QED
    BY <1>1, <1>2, <2>1 DEF AnthropicSink
<1>4. s.started = (R # <<>>)
  BY DEF KnowsAnthropic
<1>5. CASE s.started
  <2>1. b = s /\ R # <<>>
    BY <1>4, <1>5 DEF BegunMessage
  <2>2. R \o <<>> = R
    BY NothingBefore
  <2> HIDE DEF b, t
  <2>3. KnowsAnthropic(t, R, h, n)
    <3>1. t.started = s.started /\ t.block = s.block /\ t.open = s.open /\ t.calls = s.calls
      BY <1>2, <2>1
    <3> QED
      BY <3>1, AnthropicAlike
  <2> QED
    BY <1>2, <1>3, <2>1, <2>2, <2>3 DEF t, b
<1>6. CASE ~s.started
  <2>1. /\ b.started = TRUE /\ b.block = s.block /\ b.open = s.open /\ b.calls = s.calls
        /\ b.out = <<>> \o <<f>>
    <3> HIDE DEF f
    <3> QED
      BY <1>6 DEF BegunMessage, AnthropicSink, Send, f
  <2> DEFINE C == <<f>>
  <2>2. R = <<>> /\ <<>> \o C = C
    BY <1>4, <1>6, Short, NothingBefore
  <2>3. SaidBy(f) = <<>> /\ Sequence(<<>>) /\ f.type = "message_start"
    BY BlockFrames, Short DEF MessageStart
  <2> HIDE DEF f, b, t
  <2>4. C[1] = f /\ C # <<>>
    OBVIOUS
  <2>5. Transcript(C) = <<>> /\ Sayings(C)
    <3>1. Sequence(SaidBy(f))
      BY <2>3
    <3> QED
      BY <2>3, <3>1, TranscriptOne
  <2>6. Transcript(<<>>) = <<>>
    BY TranscriptNone
  <2> HIDE DEF C
  <2>7. KnowsAnthropic(t, C, h, n)
    <3>1. KnowsAnthropic(s, <<>>, h, n) /\ Transcript(C) = Transcript(<<>>)
      BY <2>2, <2>5, <2>6
    <3>2. t.started = TRUE /\ t.block = s.block /\ t.open = s.open /\ t.calls = s.calls
      BY <1>2, <2>1
    <3> DEFINE T == Transcript(<<>>)
    <3>3. Blocks(s, T, n) /\ Agrees(T, h, FALSE) /\ Framed(T, FALSE)
      BY <3>1 DEF KnowsAnthropic
    <3> HIDE DEF T
    <3>4. Blocks(t, T, n)
      BY <3>2, <3>3 DEF Blocks
    <3>5. Transcript(C) = T
      BY <3>1 DEF T
    <3> QED
      BY <2>3, <2>4, <2>5, <3>2, <3>3, <3>4, <3>5 DEF KnowsAnthropic
  <2>8. R \o t.out = C
    BY <1>2, <2>1, <2>2 DEF C
  <2> QED
    BY <1>3, <2>4, <2>7, <2>8 DEF t, b
<1> QED
  BY <1>5, <1>6

\* Its thought is kept back and its text told, if it has any.
LEMMA SpokenToldAnthropic ==
  ASSUME NEW s, AnthropicSink(s), NEW R, Sequence(R), NEW h, NEW n, Heeds(h, n),
         KnowsAnthropic(s, R \o s.out, h, n), R \o s.out # <<>>, NEW c
  PROVE  LET t == TalkToAnthropic(s, c.text) IN
         /\ AnthropicSink(t) /\ R \o t.out # <<>>
         /\ KnowsAnthropic(t, R \o t.out, Talks(h, c), n)
<1> DEFINE t == TalkToAnthropic(s, c.text)
           i == Thinks(h, c)
           v == Said("piece", "thought", None, c.thought)
<1>1. Heeds(i, n) /\ Sequence(h)
  <2>1. Heeds(h \o Spoken("thought", None, c.thought), n)
    BY HeedsSpoken
  <2>2. Sequence(h)
    BY DEF Heeds, Well
  <2> QED
    BY <2>1, <2>2 DEF Thinks
<1>2. AnthropicSink(t)
  BY TalksAnthropic DEF StaysAnthropic
<1>3. PICK F : F = R \o s.out
  OBVIOUS
<1>4. KnowsAnthropic(s, F, h, n) /\ F # <<>>
  BY <1>3
<1>5. KnowsAnthropic(s, F, i, n)
  <2>1. CASE c.thought = None
    <3>1. Spoken("thought", None, c.thought) = <<>> /\ h \o <<>> = h
      BY <1>1, <2>1, NothingBefore DEF Spoken
    <3> QED
      BY <1>4, <3>1 DEF Thinks
  <2>2. CASE c.thought # None
    <3>1. Spoken("thought", None, c.thought) = <<v>>
      BY <2>2 DEF Spoken
    <3>2. v.act = "piece" /\ v.kind = "thought"
      BY DEF Said
    <3> HIDE DEF v
    <3>3. Agrees(Transcript(F), h, FALSE)
      BY <1>4 DEF KnowsAnthropic
    <3>4. Agrees(Transcript(F), h \o <<v>>, FALSE)
      BY <3>2, <3>3, AgreeUntold
    <3> QED
      BY <1>4, <3>1, <3>4 DEF Thinks, KnowsAnthropic
  <2> QED
    BY <2>1, <2>2
<1> HIDE DEF i, v
<1>6. Talks(h, c) = i \o Spoken("text", None, c.text)
  BY DEF Talks, i
<1>7. KnowsAnthropic(s, R \o s.out, i, n)
  BY <1>3, <1>5
<1>8. CASE c.text = None
  <2>1. t = s /\ Spoken("text", None, c.text) = <<>>
    BY <1>8 DEF TalkToAnthropic, Spoken
  <2>2. i \o <<>> = i
    BY <1>1, NothingBefore DEF Heeds, Well
  <2> HIDE DEF t
  <2> QED
    BY <1>2, <1>6, <1>7, <2>1, <2>2 DEF t
<1>9. CASE c.text # None
  <2>1. LET u == TalkToAnthropic(s, c.text) IN
        /\ KnowsAnthropic(u, R \o u.out, i \o Spoken("text", None, c.text), n)
        /\ R \o u.out # <<>>
    BY <1>7, <1>9, TalkToldAnthropic
  <2> QED
    BY <1>2, <1>6, <2>1
<1> QED
  BY <1>8, <1>9

\* Its parts, one after the other.
LEMMA PartsToldAnthropic ==
  ASSUME NEW s, AnthropicSink(s), ~s.open, NEW R, Sequence(R), NEW h, Sequence(h),
         NEW c, Chunk(c), NEW counts, PartsFit(c.calls, counts),
         \A j \in 0..Len(c.calls) : Heeds(Hears(h, c, j), counts[j]),
         KnowsAnthropic(s, R \o s.out, Talks(h, c), counts[0]), R \o s.out # <<>>
  PROVE  LET t == FoldLeft(CallToAnthropic, s, c.calls) IN
         /\ KnowsAnthropic(t, R \o t.out, h \o SaidBy(c), counts[Len(c.calls)])
         /\ R \o t.out # <<>>
<1> DEFINE m == Len(c.calls)
           parts == c.calls
<1>1. Sequence(parts) /\ m \in Nat /\ DOMAIN parts = 1..m
  BY SequenceFacts DEF PartsFit
<1>2. IsFiniteSet(DOMAIN parts) /\ DOMAIN parts \subseteq Int
  BY ChunkFacts
<1>3. PICK fold : /\ FoldsOn("anthropic", fold, s, parts, DOMAIN parts)
                  /\ FoldLeft(CallToAnthropic, s, parts) = fold[DOMAIN parts]
  BY <1>2, FoldAnthropic
<1>4. c.type = "chunk"
  BY DEF Chunk
<1>5. /\ Hears(h, c, 0) = Talks(h, c) /\ h \o SaidBy(c) = Hears(h, c, m)
      /\ \A j \in Nat : LET part == parts[j + 1] IN
           Hears(h, c, j + 1)
             = (Hears(h, c, j) \o OpenedBy(part)) \o Spoken("call", part.index, part.args)
  BY <1>1, <1>4, HearsAll
<1> DEFINE K(j) == LET t == fold[1..j] IN
                   /\ AnthropicSink(t) /\ ~t.open /\ R \o t.out # <<>>
                   /\ KnowsAnthropic(t, R \o t.out, Hears(h, c, j), counts[j])
           S == {j \in 0..m : K(j)}
<1> HIDE DEF m, parts
<1>6. fold[{}] = s
  BY <1>3 DEF FoldsOn, StepOf
<1>7. 0 \in S
  <2>1. 1..0 = {}
    OBVIOUS
  <2>2. K(0)
    BY <1>5, <1>6, <2>1
  <2> QED
    BY <1>1, <2>2
<1>8. ASSUME NEW j \in S, j < m PROVE j + 1 \in S
  <2> DEFINE part == parts[j + 1]
             t == fold[1..j]
             u == fold[1..(j + 1)]
  <2>1. j \in Nat /\ j + 1 \in 1..m /\ j + 1 \in 0..m /\ K(j)
    BY <1>1, <1>8
  <2>2. u = CallToAnthropic(t, part)
    <3> DEFINE A == 1..(j + 1)
    <3>1. A \in SUBSET (DOMAIN parts) /\ A # {}
      <4>1. A \subseteq 1..m /\ j + 1 \in A
        BY <1>1, <2>1
      <4>2. DOMAIN parts = 1..m
        BY <1>1
      <4> QED
        BY <4>1, <4>2
    <3>2. j + 1 \in A /\ A \subseteq Int /\ \A k \in A : k <= j + 1
      BY <2>1
    <3>3. A \ {j + 1} = 1..j
      BY <2>1
    <3> HIDE DEF A
    <3>4. Max(A) = j + 1
      BY <3>2, MaxIs
    <3>5. fold[A] = Told("anthropic", fold[A \ {Max(A)}], parts[Max(A)])
      BY <1>3, <3>1 DEF FoldsOn, StepOf
    <3>6. fold[A] = Told("anthropic", fold[1..j], parts[j + 1])
      BY <3>3, <3>4, <3>5
    <3> QED
      BY <3>6 DEF Told, A
  <2>3. Fits(part, counts[j], counts[j + 1])
    <3>1. \A k \in 1..m : Fits(parts[k], counts[k - 1], counts[k])
      BY DEF PartsFit, m, parts
    <3>2. (j + 1) - 1 = j
      BY <2>1
    <3> QED
      BY <2>1, <3>1, <3>2
  <2>4. Heeds(Hears(h, c, j), counts[j])
    <3>1. j \in 0..Len(c.calls)
      BY <1>8 DEF m
    <3> QED
      BY <3>1
  <2>5. /\ AnthropicSink(t) /\ ~t.open /\ R \o t.out # <<>>
        /\ KnowsAnthropic(t, R \o t.out, Hears(h, c, j), counts[j])
    BY <2>1
  <2>6. Hears(h, c, j + 1)
          = (Hears(h, c, j) \o OpenedBy(part)) \o Spoken("call", part.index, part.args)
    BY <1>5, <2>1
  <2> HIDE DEF part, t, u
  <2>7. AnthropicSink(u)
    BY <2>2, <2>5, CallsAnthropic DEF StaysAnthropic
  <2> DEFINE i == Hears(h, c, j)
             n == counts[j]
             o == counts[j + 1]
  <2>8. Heeds(i, n) /\ KnowsAnthropic(t, R \o t.out, i, n) /\ Fits(part, n, o)
    BY <2>3, <2>4, <2>5
  <2> HIDE DEF i, n, o
  <2>9. LET v == CallToAnthropic(t, part) IN
        /\ KnowsAnthropic(v, R \o v.out,
                          (i \o OpenedBy(part)) \o Spoken("call", part.index, part.args), o)
        /\ R \o v.out # <<>> /\ ~v.open
    BY <2>5, <2>8, CallToldAnthropic
  <2>10. K(j + 1)
    BY <2>2, <2>6, <2>7, <2>9 DEF i, o, u
  <2> QED
    BY <2>1, <2>10
<1>9. m \in S
  <2> HIDE DEF S
  <2>1. \A j \in S : j \in Nat /\ j < m => j + 1 \in S
    BY <1>8
  <2> QED
    BY <1>1, <1>7, <2>1, UpTo
<1>10. K(m)
  BY <1>9
<1> HIDE DEF K
<1>11. FoldLeft(CallToAnthropic, s, c.calls) = fold[1..m]
  BY <1>1, <1>3 DEF parts
<1> QED
  BY <1>5, <1>10, <1>11 DEF K, m

\* A chunk whose parts fit is known to the sink.
LEMMA AnthropicKnown ==
  ASSUME NEW s, AnthropicSink(s), s.out = <<>>, NEW R, Sequence(R), NEW h,
         NEW c, Chunk(c), NEW counts, PartsFit(c.calls, counts), Heeds(h, counts[0]),
         KnowsAnthropic(s, R, h, counts[0])
  PROVE  LET t == ChatToAnthropic(s, c) IN
         /\ KnowsAnthropic(t, R \o t.out, h \o SaidBy(c), counts[Len(c.calls)])
         /\ R \o t.out # <<>>
<1>1. PICK d : d = CountedMessage(BegunMessage(s), c)
  OBVIOUS
<1>2. PICK n : n = counts[0]
  OBVIOUS
<1>3. Heeds(h, n) /\ KnowsAnthropic(s, R, h, n)
  BY <1>2
<1>4. /\ AnthropicSink(d) /\ R \o d.out # <<>> /\ KnowsAnthropic(d, R \o d.out, h, n)
  BY <1>1, <1>3, BegunToldAnthropic
<1>5. PICK u : u = TalkToAnthropic(d, c.text)
  OBVIOUS
<1>6. /\ AnthropicSink(u) /\ R \o u.out # <<>> /\ KnowsAnthropic(u, R \o u.out, Talks(h, c), n)
  BY <1>3, <1>4, <1>5, SpokenToldAnthropic
<1>7. c.type = "chunk" /\ Sequence(h) /\ Sequence(c.calls)
  BY <1>3 DEF Chunk, Heeds, Well, PartsFit
<1>8. ChatToAnthropic(s, c) = IF c.calls = <<>> THEN u
                              ELSE FoldLeft(CallToAnthropic, CloseText(u), c.calls)
  BY <1>1, <1>5 DEF ChatToAnthropic, BegunMessage, CountedMessage
<1>9. CASE c.calls = <<>>
  <2>1. Len(c.calls) = 0
    BY <1>9, Short
  <2>2. h \o SaidBy(c) = Talks(h, c)
    <3>1. Hears(h, c, 0) = Talks(h, c) /\ h \o SaidBy(c) = Hears(h, c, Len(c.calls))
      BY <1>7, HearsAll
    <3> QED
      BY <2>1, <3>1
  <2> QED
    BY <1>2, <1>6, <1>8, <1>9, <2>1, <2>2
<1>10. CASE c.calls # <<>>
  <2>1. PICK w : w = CloseText(u)
    OBVIOUS
  <2>2. /\ AnthropicSink(w) /\ KnowsAnthropic(w, R \o w.out, Talks(h, c), n)
        /\ R \o w.out # <<>> /\ ~w.open
    <3>1. AnthropicSink(w)
      BY <1>6, <2>1, ClosesAnthropic DEF StaysAnthropic
    <3>2. LET t == CloseText(u) IN
          KnowsAnthropic(t, R \o t.out, Talks(h, c), n) /\ R \o t.out # <<>> /\ ~t.open
      <4>1. PICK i : i = Talks(h, c)
        OBVIOUS
      <4>2. KnowsAnthropic(u, R \o u.out, i, n)
        BY <1>6, <4>1
      <4>3. LET t == CloseText(u) IN
            KnowsAnthropic(t, R \o t.out, i, n) /\ R \o t.out # <<>> /\ ~t.open
        BY <1>6, <4>2, CloseToldAnthropic
      <4> QED
        BY <4>1, <4>3
    <3> QED
      BY <2>1, <3>1, <3>2
  <2>3. KnowsAnthropic(w, R \o w.out, Talks(h, c), counts[0])
    BY <1>2, <2>2
  <2>4. \A j \in 0..Len(c.calls) : Heeds(Hears(h, c, j), counts[j])
    BY <1>7, HeedsChunk
  <2>5. LET v == FoldLeft(CallToAnthropic, w, c.calls) IN
        /\ KnowsAnthropic(v, R \o v.out, h \o SaidBy(c), counts[Len(c.calls)])
        /\ R \o v.out # <<>>
    BY <1>7, <2>2, <2>3, <2>4, PartsToldAnthropic
  <2>6. ChatToAnthropic(s, c) = FoldLeft(CallToAnthropic, w, c.calls)
    BY <1>8, <1>10, <2>1
  <2> QED
    BY <2>5, <2>6
<1> QED
  BY <1>9, <1>10

-----------------------------------------------------------------------------
(* What any sink knows after a chunk.                                      *)

\* A Chat client is told the chunk.
LEMMA ChatKnown ==
  ASSUME NEW R, Sequence(R), NEW h, NEW c, Chunk(c), Sequence(c.calls), KnowsChat(R, h)
  PROVE  KnowsChat(R \o <<c>>, h \o SaidBy(c)) /\ R \o <<c>> # <<>>
<1>1. c.type = "chunk" /\ Sayings(R) /\ Transcript(R) = h
  BY DEF Chunk, KnowsChat
<1>2. Sequence(SaidBy(c))
  BY <1>1, ChunkSays
<1>3. Append(R, c) = R \o <<c>>
  BY OneJoined
<1>4. Transcript(Append(R, c)) = Transcript(R) \o SaidBy(c) /\ Sayings(Append(R, c))
  BY <1>1, <1>2, TranscriptMore
<1>5. /\ R \o <<c>> # <<>> /\ (R # <<>> => (R \o <<c>>)[1] = R[1])
      /\ R = <<>> => R \o <<c>> = <<c>>
  BY FramePlace
<1>6. <<c>>[1] = c
  OBVIOUS
<1>7. (R \o <<c>>)[1].type = "chunk"
  BY <1>1, <1>5, <1>6 DEF KnowsChat
<1> QED
  BY <1>1, <1>3, <1>4, <1>5, <1>7 DEF KnowsChat

\* A chunk whose parts fit is known to the client.
LEMMA SinkKnown ==
  ASSUME ingress \in Protocols, NEW s, Sink(s), s.out = <<>>, NEW R, Sequence(R), NEW h,
         NEW c, Chunk(c), NEW counts, PartsFit(c.calls, counts), Heeds(h, counts[0]),
         KnowsSink(s, R, h, counts[0])
  PROVE  LET t == TellClient(s, c) IN
         /\ KnowsSink(t, R \o t.out, h \o SaidBy(c), counts[Len(c.calls)])
         /\ R \o t.out # <<>>
<1>1. CASE ingress = "responses"
  <2>1. ResponsesSink(s) /\ KnowsResponses(s, R, h, counts[0])
    BY <1>1 DEF Sink, KnowsSink
  <2>2. LET t == ChatToResponses(s, c) IN
        /\ KnowsResponses(t, R \o t.out, h \o SaidBy(c), counts[Len(c.calls)])
        /\ R \o t.out # <<>>
    BY <2>1, ResponsesKnown
  <2> QED
    BY <1>1, <2>2 DEF KnowsSink, TellClient
<1>2. CASE ingress = "anthropic"
  <2>1. AnthropicSink(s) /\ KnowsAnthropic(s, R, h, counts[0])
    BY <1>2 DEF Sink, KnowsSink
  <2>2. LET t == ChatToAnthropic(s, c) IN
        /\ KnowsAnthropic(t, R \o t.out, h \o SaidBy(c), counts[Len(c.calls)])
        /\ R \o t.out # <<>>
    BY <2>1, AnthropicKnown
  <2> QED
    BY <1>2, <2>2 DEF KnowsSink, TellClient
<1>3. CASE ingress = "chat"
  <2>1. KnowsChat(R, h) /\ DOMAIN s = {"out"}
    BY <1>3 DEF Sink, KnowsSink, ChatSink
  <2>2. TellClient(s, c).out = <<>> \o <<c>>
    BY <1>3, <2>1 DEF TellClient, Send
  <2>3. TellClient(s, c).out = <<c>>
    BY <2>2, Short, NothingBefore
  <2>4. KnowsChat(R \o <<c>>, h \o SaidBy(c)) /\ R \o <<c>> # <<>>
    BY <2>1, ChatKnown DEF PartsFit
  <2> QED
    BY <1>3, <2>3, <2>4 DEF KnowsSink
<1> QED
  BY <1>1, <1>2, <1>3 DEF Protocols

\* What it knows is not in the frames that have gone out.
LEMMA SinkAlike ==
  ASSUME ingress \in Protocols, NEW s, Sink(s), NEW t, SameBut(s, t),
         NEW F, NEW h, NEW n, KnowsSink(s, F, h, n)
  PROVE  KnowsSink(t, F, h, n)
<1>1. CASE ingress = "responses"
  <2>1. /\ t.started = s.started /\ t.thinking = s.thinking /\ t.talking = s.talking
        /\ t.thought = s.thought /\ t.text = s.text /\ t.calls = s.calls
    BY <1>1 DEF Sink, ResponsesSink, SameBut
  <2> QED
    BY <1>1, <2>1, KnownAlike DEF KnowsSink
<1>2. CASE ingress = "anthropic"
  <2>1. t.started = s.started /\ t.block = s.block /\ t.open = s.open /\ t.calls = s.calls
    BY <1>2 DEF Sink, AnthropicSink, SameBut
  <2> QED
    BY <1>2, <2>1, AnthropicAlike DEF KnowsSink
<1>3. CASE ingress = "chat"
  BY <1>3 DEF KnowsSink
<1> QED
  BY <1>1, <1>2, <1>3 DEF Protocols

-----------------------------------------------------------------------------
(* One more event of the provider's, and what is heard of it.              *)

\* An event that says nothing,
LEMMA HeedSilence ==
  ASSUME NEW E, NEW n, NEW h, Heeding(E, n, h), NEW e, SaidBy(e) = <<>>
  PROVE  Heeding(Append(E, e), n, h) /\ Transcript(Append(E, e)) = Transcript(E)
<1>1. Sayings(E) /\ Sequence(E)
  BY DEF Heeding, Sayings
<1>2. Append(E, e) = E \o <<e>>
  BY <1>1, OneJoined
<1>3. Sayings(E \o <<e>>) /\ Transcript(E \o <<e>>) = Transcript(E)
  BY <1>1, FrameSilent
<1> QED
  BY <1>2, <1>3 DEF Heeding

\* one that says one thing,
EventFacts(E, e, u, n, h, x) ==
  /\ Sayings(Append(E, e)) /\ Transcript(Append(E, e)) = x \o <<u>>
  /\ Sequence(x) /\ Sequence(h) /\ Well(x) /\ Heeds(h, n) /\ Agrees(x, h, TRUE)
  /\ KindsIn(h) \subseteq KindsIn(x) /\ (InOrder(x) => InOrder(h))
LEMMA EventSays ==
  ASSUME NEW E, NEW n, NEW h, Heeding(E, n, h), NEW e, NEW u, SaidBy(e) = <<u>>,
         NEW x, x = Transcript(E)
  PROVE  EventFacts(E, e, u, n, h, x)
<1>1. Sayings(E) /\ Sequence(E)
  BY DEF Heeding, Sayings
<1>2. Append(E, e) = E \o <<e>>
  BY <1>1, OneJoined
<1>3. /\ Sayings(E \o <<e>>) /\ Transcript(E \o <<e>>) = x \o <<u>>
      /\ Sequence(x)
  BY <1>1, FrameSays
<1> QED
  BY <1>2, <1>3 DEF EventFacts, Heeding, Heeds, Well, Agrees

\* that opens no call or closes something,
LEMMA HeedNoise ==
  ASSUME NEW E, NEW n, NEW h, Heeding(E, n, h), NEW e, NEW u, SaidBy(e) = <<u>>,
         u.act = "close" \/ (u.act = "open" /\ u.kind # "call"), NEW x, x = Transcript(E)
  PROVE  /\ Heeding(Append(E, e), n, h) /\ Transcript(Append(E, e)) = x \o <<u>>
         /\ CallsIn(x \o <<u>>) = CallsIn(x)
<1>a. EventFacts(E, e, u, n, h, x)
  BY EventSays
<1>1. /\ Sayings(Append(E, e)) /\ Transcript(Append(E, e)) = x \o <<u>>
      /\ Sequence(x) /\ Sequence(h) /\ Well(x) /\ Heeds(h, n) /\ Agrees(x, h, TRUE)
      /\ KindsIn(h) \subseteq KindsIn(x) /\ (InOrder(x) => InOrder(h))
  BY <1>a DEF EventFacts
<1>2. Agrees(x \o <<u>>, h, TRUE) /\ CallsIn(x \o <<u>>) = CallsIn(x)
  BY <1>1, AgreeNoise
<1>3. KindsIn(x) \subseteq KindsIn(x \o <<u>>)
  BY <1>1, KeysMore
<1>4. InOrder(x \o <<u>>) => InOrder(x)
  BY <1>1, OrderMore
<1> QED
  BY <1>1, <1>2, <1>3, <1>4 DEF Heeding

\* When what is said is heard, kinds and order are kept.
LEMMA HeardInOrder ==
  ASSUME NEW x, Sequence(x), NEW h, Sequence(h), KindsIn(h) \subseteq KindsIn(x),
         InOrder(x) => InOrder(h), NEW u, NEW v, u.kind = v.kind,
         u.act \in {"open", "piece"}, v.act \in {"open", "piece"}
  PROVE  /\ KindsIn(h \o <<v>>) \subseteq KindsIn(x \o <<u>>)
         /\ InOrder(x \o <<u>>) => InOrder(h \o <<v>>)
<1>1. KindsIn(h \o <<v>>) = KindsIn(h) \cup {v.kind}
  BY KeysSay
<1>2. KindsIn(x \o <<u>>) = KindsIn(x) \cup {u.kind}
  BY KeysSay
<1>3. u.act # "close" /\ v.act # "close"
  OBVIOUS
<1>4. InOrder(x \o <<u>>) => InOrder(x) /\ \A kind \in KindsIn(x) : Rank(kind) <= Rank(u.kind)
  BY <1>3, OrderMore
<1>5. InOrder(h) /\ (\A kind \in KindsIn(h) : Rank(kind) <= Rank(v.kind)) => InOrder(h \o <<v>>)
  BY <1>3, OrderMore
<1> QED
  BY <1>1, <1>2, <1>4, <1>5

\* a thought or a piece of text,
LEMMA HeedPiece ==
  ASSUME NEW E, NEW n, NEW h, Heeding(E, n, h), NEW e, NEW u, SaidBy(e) = <<u>>,
         NEW v, u.act = "piece", v.act = "piece", u.kind = v.kind,
         u.kind \in {"thought", "text"}, u.what = v.what, NEW x, x = Transcript(E)
  PROVE  /\ Heeding(Append(E, e), n, h \o <<v>>) /\ Transcript(Append(E, e)) = x \o <<u>>
         /\ CallsIn(x \o <<u>>) = CallsIn(x)
<1>a. EventFacts(E, e, u, n, h, x)
  BY EventSays
<1>1. /\ Sayings(Append(E, e)) /\ Transcript(Append(E, e)) = x \o <<u>>
      /\ Sequence(x) /\ Sequence(h) /\ Well(x) /\ Heeds(h, n) /\ Agrees(x, h, TRUE)
      /\ KindsIn(h) \subseteq KindsIn(x) /\ (InOrder(x) => InOrder(h))
  BY <1>a DEF EventFacts
<1>2. Agrees(x \o <<u>>, h \o <<v>>, TRUE)
  <2>1. CASE u.kind = "thought"
    BY <1>1, <2>1, AgreeThought
  <2>2. CASE u.kind = "text"
    <3>1. u.kind = "text" /\ v.kind = "text" /\ TRUE \in BOOLEAN
      BY <2>2
    <3>2. \A w \in BOOLEAN : Agrees(x, h, w) => Agrees(x \o <<u>>, h \o <<v>>, w)
      BY <3>1, AgreeText
    <3> QED
      BY <1>1, <3>1, <3>2
  <2> QED
    BY <2>1, <2>2
<1>3. CallsIn(x \o <<u>>) = CallsIn(x)
  BY <1>1, CallsMore
<1>4. Heeds(h \o <<v>>, n)
  BY <1>1, HeedsOther
<1>5. /\ KindsIn(h \o <<v>>) \subseteq KindsIn(x \o <<u>>)
      /\ InOrder(x \o <<u>>) => InOrder(h \o <<v>>)
  <2>1. u.act \in {"open", "piece"} /\ v.act \in {"open", "piece"}
    OBVIOUS
  <2> QED
    BY <1>1, <2>1, HeardInOrder
<1> QED
  BY <1>1, <1>2, <1>3, <1>4, <1>5 DEF Heeding

\* a call,
LEMMA HeedCall ==
  ASSUME NEW E, NEW n, NEW h, Heeding(E, n, h), NEW e, NEW u, SaidBy(e) = <<u>>,
         NEW v, u.act = "open", v.act = "open", u.kind = "call", v.kind = "call",
         v.key = n, u.what = v.what, NEW x, x = Transcript(E), u.key \notin Opened(x)
  PROVE  /\ Heeding(Append(E, e), n + 1, h \o <<v>>)
         /\ Transcript(Append(E, e)) = x \o <<u>>
         /\ n \in Nat /\ KeyOf(x \o <<u>>, n + 1) = u.key
         /\ \A k \in 1..n : KeyOf(x \o <<u>>, k) = KeyOf(x, k)
<1>a. EventFacts(E, e, u, n, h, x)
  BY EventSays
<1>1. /\ Sayings(Append(E, e)) /\ Transcript(Append(E, e)) = x \o <<u>>
      /\ Sequence(x) /\ Sequence(h) /\ Well(x) /\ Heeds(h, n) /\ Agrees(x, h, TRUE)
      /\ KindsIn(h) \subseteq KindsIn(x) /\ (InOrder(x) => InOrder(h))
  BY <1>a DEF EventFacts
<1>2. Heeds(h \o <<v>>, n + 1) /\ v.key \notin Opened(h)
  BY <1>1, HeedsOpen
<1>3. Agrees(x \o <<u>>, h \o <<v>>, TRUE)
  BY <1>1, <1>2, AgreeOpen
<1>4. /\ KindsIn(h \o <<v>>) \subseteq KindsIn(x \o <<u>>)
      /\ InOrder(x \o <<u>>) => InOrder(h \o <<v>>)
  <2>1. u.act \in {"open", "piece"} /\ v.act \in {"open", "piece"}
    OBVIOUS
  <2> QED
    BY <1>1, <2>1, HeardInOrder
<1>5. Len(CallsIn(x)) = n /\ n \in Nat
  BY <1>1 DEF Agrees, Heeds
<1>6. /\ CallsIn(x \o <<u>>)[n + 1] = u
      /\ \A k \in 1..n : CallsIn(x \o <<u>>)[k] = CallsIn(x)[k]
  BY <1>1, <1>5, CallsMore
<1> QED
  BY <1>1, <1>2, <1>3, <1>4, <1>5, <1>6 DEF Heeding, KeyOf

\* or a piece of one.
LEMMA HeedArgs ==
  ASSUME NEW E, NEW n, NEW h, Heeding(E, n, h), NEW e, NEW u, SaidBy(e) = <<u>>,
         NEW x, x = Transcript(E), NEW k \in 1..n,
         NEW v, u.act = "piece", v.act = "piece", u.kind = "call", v.kind = "call",
         u.key = KeyOf(x, k), v.key = k - 1, u.what = v.what
  PROVE  /\ Heeding(Append(E, e), n, h \o <<v>>) /\ Transcript(Append(E, e)) = x \o <<u>>
         /\ CallsIn(x \o <<u>>) = CallsIn(x) /\ Opened(x \o <<u>>) = Opened(x)
<1>a. EventFacts(E, e, u, n, h, x)
  BY EventSays
<1>1. /\ Sayings(Append(E, e)) /\ Transcript(Append(E, e)) = x \o <<u>>
      /\ Sequence(x) /\ Sequence(h) /\ Well(x) /\ Heeds(h, n) /\ Agrees(x, h, TRUE)
      /\ KindsIn(h) \subseteq KindsIn(x) /\ (InOrder(x) => InOrder(h))
  BY <1>a DEF EventFacts
<1>2. n \in Nat /\ Len(CallsIn(h)) = n /\ KeyOf(h, k) = k - 1
  BY <1>1 DEF Heeds, KeyOf
<1>3. Agrees(x \o <<u>>, h \o <<v>>, TRUE) /\ CallsIn(x \o <<u>>) = CallsIn(x)
  <2>1. k \in 1..Len(CallsIn(h)) /\ v.key = KeyOf(h, k)
    BY <1>2
  <2>2. \A w \in BOOLEAN : Agrees(x, h, w) =>
          /\ Agrees(x \o <<u>>, h \o <<v>>, w)
          /\ CallsIn(x \o <<u>>) = CallsIn(x) /\ CallsIn(h \o <<v>>) = CallsIn(h)
    BY <2>1, AgreePiece
  <2> QED
    BY <1>1, <2>2
<1>4. Heeds(h \o <<v>>, n)
  <2>1. v.key \in 0..(n - 1)
    BY <1>2
  <2> QED
    BY <1>1, <2>1, HeedsPiece
<1>5. /\ KindsIn(h \o <<v>>) \subseteq KindsIn(x \o <<u>>)
      /\ InOrder(x \o <<u>>) => InOrder(h \o <<v>>)
  <2>1. u.act \in {"open", "piece"} /\ v.act \in {"open", "piece"}
    OBVIOUS
  <2> QED
    BY <1>1, <2>1, HeardInOrder
<1>6. Opened(x \o <<u>>) = Opened(x)
  BY <1>1, KeysSay
<1> QED
  BY <1>1, <1>3, <1>4, <1>5, <1>6 DEF Heeding

-----------------------------------------------------------------------------
(* What the chunks say that the sources make.                              *)

\* A chunk whose parts go on from n calls to m.
ChunkFits(c, n, m) ==
  /\ Chunk(c)
  /\ \E counts : PartsFit(c.calls, counts) /\ counts[0] = n /\ counts[Len(c.calls)] = m

\* No part fits,
LEMMA NoPartFits ==
  ASSUME NEW c, Chunk(c), c.calls = <<>>, NEW n
  PROVE  ChunkFits(c, n, n)
<1> DEFINE counts == [j \in Nat |-> n]
<1>1. counts[0] = n
  OBVIOUS
<1>2. Sequence(<<>>) /\ Len(<<>>) = 0
  BY Short
<1> HIDE DEF counts
<1>3. PartsFit(c.calls, counts)
  BY <1>2 DEF PartsFit
<1> QED
  BY <1>1, <1>2, <1>3 DEF ChunkFits

\* and one does that opens a call or speaks in one.
LEMMA OnePartFits ==
  ASSUME NEW c, Chunk(c), NEW part, c.calls = <<part>>, NEW n, NEW m, Fits(part, n, m)
  PROVE  ChunkFits(c, n, m)
<1> DEFINE counts == [j \in Nat |-> IF j = 0 THEN n ELSE m]
<1>1. counts[0] = n /\ counts[1] = m
  OBVIOUS
<1>2. Sequence(<<part>>) /\ Len(<<part>>) = 1 /\ <<part>>[1] = part
  BY Short
<1> HIDE DEF counts
<1>3. PartsFit(c.calls, counts)
  <2>1. SUFFICES ASSUME NEW j \in 1..Len(c.calls)
                 PROVE  Fits(c.calls[j], counts[j - 1], counts[j])
    BY <1>2 DEF PartsFit
  <2>2. j = 1 /\ j - 1 = 0
    BY <1>2
  <2> QED
    BY <1>1, <1>2, <2>2
<1> QED
  BY <1>1, <1>2, <1>3 DEF ChunkFits

\* What a chunk says that has no part, or one.
LEMMA ChunkSaysLittle ==
  ASSUME NEW c, Chunk(c)
  PROVE  /\ c.calls = <<>> =>
              SaidBy(c) = Spoken("thought", None, c.thought) \o Spoken("text", None, c.text)
         /\ \A part : c.calls = <<part>> =>
              SaidBy(c) = (Spoken("thought", None, c.thought) \o Spoken("text", None, c.text))
                          \o SpokenPart(part)
<1> DEFINE spoken == Spoken("thought", None, c.thought) \o Spoken("text", None, c.text)
<1>1. /\ Sequence(Spoken("thought", None, c.thought)) /\ Sequence(Spoken("text", None, c.text))
      /\ \A part : Sequence(SpokenPart(part))
  BY SpokenFacts
<1>2. Sequence(spoken)
  BY <1>1, Joined
<1>3. c.type = "chunk"
  BY DEF Chunk
<1>4. ASSUME c.calls = <<>>
      PROVE  SaidBy(c) = spoken
  <2>1. Sequence(c.calls) /\ Len(c.calls) = 0
    BY <1>4, Short
  <2>2. SpokenParts(c.calls, 0) = <<>>
    BY PartsMore
  <2>3. SaidBy(c) = spoken \o SpokenParts(c.calls, Len(c.calls))
    <3>1. SaidBy(c) = Spoken("thought", None, c.thought) \o Spoken("text", None, c.text)
                      \o SpokenParts(c.calls, Len(c.calls))
      BY <1>3, <2>1, ChunkSays
    <3> QED
      BY <3>1
  <2>4. SaidBy(c) = spoken \o <<>>
    BY <2>1, <2>2, <2>3
  <2>5. spoken \o <<>> = spoken
    BY <1>2, NothingBefore
  <2> QED
    BY <2>4, <2>5
<1>5. ASSUME NEW part, c.calls = <<part>>
      PROVE  SaidBy(c) = spoken \o SpokenPart(part)
  <2>1. Sequence(c.calls) /\ Len(c.calls) = 1 /\ c.calls[1] = part
    BY <1>5, Short
  <2>2. /\ SpokenParts(c.calls, 0) = <<>>
        /\ SpokenParts(c.calls, 1) = SpokenParts(c.calls, 0) \o SpokenPart(c.calls[1])
    <3>1. 0 \in Nat /\ 0 + 1 = 1
      OBVIOUS
    <3>2. SpokenParts(c.calls, 0 + 1) = SpokenParts(c.calls, 0) \o SpokenPart(c.calls[0 + 1])
      BY <3>1, PartsMore
    <3> QED
      BY <3>1, <3>2, PartsMore
  <2>3. SpokenParts(c.calls, 1) = <<>> \o SpokenPart(part)
    BY <2>1, <2>2
  <2>4. <<>> \o SpokenPart(part) = SpokenPart(part)
    BY <1>1, NothingBefore
  <2>5. SaidBy(c) = spoken \o SpokenParts(c.calls, Len(c.calls))
    <3>1. SaidBy(c) = Spoken("thought", None, c.thought) \o Spoken("text", None, c.text)
                      \o SpokenParts(c.calls, Len(c.calls))
      BY <1>3, <2>1, ChunkSays
    <3> QED
      BY <3>1
  <2> QED
    BY <2>1, <2>3, <2>4, <2>5
<1> QED
  BY <1>4, <1>5

\* The chunks of the sources: nothing, a thought, a text, the opening of a call
\* and a piece of one.
LEMMA SourceChunks ==
  /\ SaidBy(Blank) = <<>> /\ \A n : ChunkFits(Blank, n, n)
  /\ \A finish : \A u \in [input : Nat, output : Nat] :
       LET c == [Blank EXCEPT !.finish = finish, !.usage = u] IN
       SaidBy(c) = <<>> /\ \A n : ChunkFits(c, n, n)
  /\ \A p : p # None =>
       LET c == [Blank EXCEPT !.thought = p] IN
       SaidBy(c) = <<Said("piece", "thought", None, p)>> /\ \A n : ChunkFits(c, n, n)
  /\ \A p : p # None =>
       LET c == [Blank EXCEPT !.text = p] IN
       SaidBy(c) = <<Said("piece", "text", None, p)>> /\ \A n : ChunkFits(c, n, n)
<1>1. Spoken("thought", None, None) = <<>> /\ Spoken("text", None, None) = <<>>
  BY DEF Spoken
<1>2. Sequence(<<>>) /\ <<>> \o <<>> = <<>>
  BY Short, NothingBefore
<1>3. ASSUME NEW c, Chunk(c), c.calls = <<>>, c.thought = None, c.text = None
      PROVE  SaidBy(c) = <<>> /\ \A n : ChunkFits(c, n, n)
  <2>1. SaidBy(c) = Spoken("thought", None, None) \o Spoken("text", None, None)
    BY <1>3, ChunkSaysLittle
  <2> QED
    BY <1>1, <1>2, <1>3, <2>1, NoPartFits
<1>4. Chunk(Blank) /\ Blank.calls = <<>> /\ Blank.thought = None /\ Blank.text = None
  BY Chunks DEF Blank
<1>5. ASSUME NEW finish, NEW u \in [input : Nat, output : Nat]
      PROVE  LET c == [Blank EXCEPT !.finish = finish, !.usage = u] IN
             SaidBy(c) = <<>> /\ \A n : ChunkFits(c, n, n)
  <2> DEFINE c == [Blank EXCEPT !.finish = finish, !.usage = u]
  <2>1. Chunk(c)
    BY <1>5, Chunks
  <2>2. c.calls = <<>> /\ c.thought = None /\ c.text = None
    BY DEF Blank
  <2> HIDE DEF c
  <2>3. SaidBy(c) = <<>> /\ \A n : ChunkFits(c, n, n)
    BY <1>3, <2>1, <2>2
  <2> QED
    BY <2>3 DEF c
<1>6. ASSUME NEW p, p # None
      PROVE  LET c == [Blank EXCEPT !.thought = p] IN
             SaidBy(c) = <<Said("piece", "thought", None, p)>> /\ \A n : ChunkFits(c, n, n)
  <2> DEFINE c == [Blank EXCEPT !.thought = p]
  <2>1. Chunk(c)
    BY Chunks
  <2>2. c.calls = <<>> /\ c.thought = p /\ c.text = None
    BY DEF Blank
  <2> HIDE DEF c
  <2>3. SaidBy(c) = Spoken("thought", None, p) \o Spoken("text", None, None)
    BY <2>1, <2>2, ChunkSaysLittle
  <2>4. Spoken("thought", None, p) = <<Said("piece", "thought", None, p)>>
    BY <1>6 DEF Spoken
  <2>5. Spoken("thought", None, p) \o <<>> = Spoken("thought", None, p)
    BY SpokenFacts, NothingBefore
  <2>6. SaidBy(c) = <<Said("piece", "thought", None, p)>>
    BY <1>1, <2>3, <2>4, <2>5
  <2>7. \A n : ChunkFits(c, n, n)
    BY <2>1, <2>2, NoPartFits
  <2> QED
    BY <2>6, <2>7 DEF c
<1>7. ASSUME NEW p, p # None
      PROVE  LET c == [Blank EXCEPT !.text = p] IN
             SaidBy(c) = <<Said("piece", "text", None, p)>> /\ \A n : ChunkFits(c, n, n)
  <2> DEFINE c == [Blank EXCEPT !.text = p]
  <2>1. Chunk(c)
    BY Chunks
  <2>2. c.calls = <<>> /\ c.thought = None /\ c.text = p
    BY DEF Blank
  <2> HIDE DEF c
  <2>3. SaidBy(c) = Spoken("thought", None, None) \o Spoken("text", None, p)
    BY <2>1, <2>2, ChunkSaysLittle
  <2>4. Spoken("text", None, p) = <<Said("piece", "text", None, p)>>
    BY <1>7 DEF Spoken
  <2>5. <<>> \o Spoken("text", None, p) = Spoken("text", None, p)
    BY SpokenFacts, NothingBefore
  <2>6. SaidBy(c) = <<Said("piece", "text", None, p)>>
    BY <1>1, <2>3, <2>4, <2>5
  <2>7. \A n : ChunkFits(c, n, n)
    BY <2>1, <2>2, NoPartFits
  <2> QED
    BY <2>6, <2>7 DEF c
<1> QED
  BY <1>3, <1>4, <1>5, <1>6, <1>7

\* A part alone in its chunk.
LEMMA SourceParts ==
  /\ \A n \in Nat : \A call : call # None =>
       LET c == [Blank EXCEPT !.calls = <<CallPart(n, call, None)>>] IN
       SaidBy(c) = <<Said("open", "call", n, call)>> /\ ChunkFits(c, n, n + 1)
  /\ \A n \in Nat : \A k \in 0..(n - 1) : \A p : p # None =>
       LET c == [Blank EXCEPT !.calls = <<CallPart(k, None, p)>>] IN
       SaidBy(c) = <<Said("piece", "call", k, p)>> /\ ChunkFits(c, n, n)
<1>1. Spoken("thought", None, None) = <<>> /\ Spoken("text", None, None) = <<>>
      /\ \A key : Spoken("call", key, None) = <<>>
  BY DEF Spoken
<1>2. Sequence(<<>>) /\ <<>> \o <<>> = <<>>
  BY Short, NothingBefore
<1>3. ASSUME NEW part
      PROVE  LET c == [Blank EXCEPT !.calls = <<part>>] IN
             Chunk(c) /\ c.calls = <<part>> /\ SaidBy(c) = SpokenPart(part)
  <2> DEFINE c == [Blank EXCEPT !.calls = <<part>>]
  <2>1. Chunk(c)
    BY Chunks
  <2>2. c.calls = <<part>> /\ c.thought = None /\ c.text = None
    BY DEF Blank
  <2> HIDE DEF c
  <2>3. SaidBy(c) = (Spoken("thought", None, None) \o Spoken("text", None, None))
                    \o SpokenPart(part)
    BY <2>1, <2>2, ChunkSaysLittle
  <2>4. <<>> \o SpokenPart(part) = SpokenPart(part)
    BY SpokenFacts, NothingBefore
  <2>5. SaidBy(c) = SpokenPart(part)
    BY <1>1, <1>2, <2>3, <2>4
  <2> QED
    BY <2>1, <2>2, <2>5 DEF c
<1>4. ASSUME NEW n \in Nat, NEW call, call # None
      PROVE  LET c == [Blank EXCEPT !.calls = <<CallPart(n, call, None)>>] IN
             SaidBy(c) = <<Said("open", "call", n, call)>> /\ ChunkFits(c, n, n + 1)
  <2>1. PICK part : part = CallPart(n, call, None)
    OBVIOUS
  <2>2. part.index = n /\ part.call = call /\ part.args = None
    BY <2>1 DEF CallPart
  <2>3. Fits(part, n, n + 1)
    BY <1>4, <2>2 DEF Fits
  <2>4. PICK c : c = [Blank EXCEPT !.calls = <<part>>]
    OBVIOUS
  <2>5. Chunk(c) /\ c.calls = <<part>> /\ SaidBy(c) = SpokenPart(part)
    BY <1>3, <2>4
  <2>6. ChunkFits(c, n, n + 1)
    BY <2>3, <2>5, OnePartFits
  <2>7. SpokenPart(part) = OpenedBy(part) \o Spoken("call", part.index, part.args)
    BY SpokenFacts
  <2>8. OpenedBy(part) = <<Said("open", "call", n, call)>>
    BY <1>4, <2>2 DEF OpenedBy
  <2>9. OpenedBy(part) \o <<>> = OpenedBy(part)
    BY SpokenFacts, NothingBefore
  <2>10. SaidBy(c) = <<Said("open", "call", n, call)>>
    BY <1>1, <2>2, <2>5, <2>7, <2>8, <2>9
  <2> QED
    BY <2>1, <2>4, <2>6, <2>10
<1>5. ASSUME NEW n \in Nat, NEW k \in 0..(n - 1), NEW p, p # None
      PROVE  LET c == [Blank EXCEPT !.calls = <<CallPart(k, None, p)>>] IN
             SaidBy(c) = <<Said("piece", "call", k, p)>> /\ ChunkFits(c, n, n)
  <2>1. PICK part : part = CallPart(k, None, p)
    OBVIOUS
  <2>2. part.index = k /\ part.call = None /\ part.args = p
    BY <2>1 DEF CallPart
  <2>3. Fits(part, n, n)
    BY <1>5, <2>2 DEF Fits
  <2>4. PICK c : c = [Blank EXCEPT !.calls = <<part>>]
    OBVIOUS
  <2>5. Chunk(c) /\ c.calls = <<part>> /\ SaidBy(c) = SpokenPart(part)
    BY <1>3, <2>4
  <2>6. ChunkFits(c, n, n)
    BY <2>3, <2>5, OnePartFits
  <2>7. SpokenPart(part) = OpenedBy(part) \o Spoken("call", part.index, part.args)
    BY SpokenFacts
  <2>8. OpenedBy(part) = <<>>
    BY <2>2 DEF OpenedBy
  <2>9. <<>> \o Spoken("call", part.index, part.args) = Spoken("call", part.index, part.args)
    BY SpokenFacts, NothingBefore
  <2>10. Spoken("call", part.index, part.args) = <<Said("piece", "call", k, p)>>
    BY <1>5, <2>2 DEF Spoken
  <2>11. SaidBy(c) = <<Said("piece", "call", k, p)>>
    BY <2>5, <2>7, <2>8, <2>9, <2>10
  <2> QED
    BY <2>1, <2>4, <2>6, <2>11
<1> QED
  BY <1>4, <1>5

-----------------------------------------------------------------------------
(* What the relay hears of a Responses provider.                           *)

\* The chunks of the sources, and a source that knows of one more call.
ThoughtChunk(piece) == [Blank EXCEPT !.thought = piece]
TextChunk(piece) == [Blank EXCEPT !.text = piece]
OpenChunk(n, call) == [Blank EXCEPT !.calls = <<CallPart(n, call, None)>>]
ArgsChunk(k, piece) == [Blank EXCEPT !.calls = <<CallPart(k, None, piece)>>]
EndChunk(finish, tokens) == [Blank EXCEPT !.finish = finish, !.usage = tokens]
Opens(src, item, n) == [src EXCEPT !.calls = With(@, item, n)]

\* After the provider's events E, the last of which has made these chunks.
ChunksHeard(E, src, sp, n, chunks, h) ==
  \/ chunks = <<>> /\ sp.calls = n /\ Hearer(E, src, sp, h)
  \/ \E c : /\ chunks = <<c>> /\ ChunkFits(c, n, sp.calls)
            /\ Hearer(E, src, sp, h \o SaidBy(c))

\* A chunk that says nothing is no more than no chunk.
LEMMA SilentChunk ==
  ASSUME NEW E, NEW src, NEW sp, NEW n, NEW h, sp.calls = n, Hearer(E, src, sp, h),
         NEW c, SaidBy(c) = <<>>, ChunkFits(c, n, n)
  PROVE  ChunksHeard(E, src, sp, n, <<c>>, h)
<1>1. Sequence(h)
  BY DEF Hearer, Heeding, Heeds, Well
<1>2. h \o SaidBy(c) = h
  BY <1>1, NothingBefore
<1> QED
  BY <1>2 DEF ChunksHeard

\* One that says one thing.
LEMMA SpokenChunk ==
  ASSUME NEW E, NEW src, NEW sp, NEW n, NEW h, NEW v, Hearer(E, src, sp, h \o <<v>>),
         NEW c, SaidBy(c) = <<v>>, ChunkFits(c, n, sp.calls)
  PROVE  ChunksHeard(E, src, sp, n, <<c>>, h)
<1>1. h \o SaidBy(c) = h \o <<v>>
  OBVIOUS
<1> QED
  BY <1>1 DEF ChunksHeard

\* An item the provider opens, and what the source makes of it,
LEMMA AddedEvents ==
  ASSUME NEW item, NEW index, NEW call, NEW e, e = ItemAdded(item, index, call)
  PROVE  /\ SaidBy(e) = <<Said("open", KindOf(item.kind), item, call)>>
         /\ \A src : item.kind # "function_call" => ResponsesToChat(src, e) = Heard(src, <<>>)
         /\ \A src, n : item.kind = "function_call" /\ n = Cardinality(DOMAIN src.calls) =>
              ResponsesToChat(src, e)
                = Heard(Opens(src, item, n),
                        <<OpenChunk(n, call)>>)
<1>1. e.type = "item.added" /\ e.item = item /\ e.call = call
  BY DEF ItemAdded
<1>2. SaidBy(e) = <<Said("open", KindOf(item.kind), item, call)>>
  BY <1>1 DEF SaidBy
<1>3. \A src : item.kind # "function_call" => ResponsesToChat(src, e) = Heard(src, <<>>)
  BY <1>1 DEF ResponsesToChat, ThoughtChunk, TextChunk, OpenChunk, ArgsChunk, EndChunk, Opens
<1>4. \A src, n : item.kind = "function_call" /\ n = Cardinality(DOMAIN src.calls) =>
        ResponsesToChat(src, e)
          = Heard(Opens(src, item, n),
                  <<OpenChunk(n, call)>>)
  BY <1>1 DEF ResponsesToChat, ThoughtChunk, TextChunk, OpenChunk, ArgsChunk, EndChunk, Opens
<1> QED
  BY <1>2, <1>3, <1>4

\* one it closes,
LEMMA DoneEvents ==
  ASSUME NEW item, NEW index, NEW pieces, NEW e, e = ItemDone(item, index, pieces)
  PROVE  /\ SaidBy(e) = <<Said("close", KindOf(item.kind), item, pieces)>>
         /\ \A src : ResponsesToChat(src, e) = Heard(src, <<>>)
<1>1. e.type = "item.done" /\ e.item = item /\ e.pieces = pieces
  BY DEF ItemDone
<1>2. SaidBy(e) = <<Said("close", KindOf(item.kind), item, pieces)>>
  BY <1>1 DEF SaidBy
<1>3. \A src : ResponsesToChat(src, e) = Heard(src, <<>>)
  BY <1>1 DEF ResponsesToChat, ThoughtChunk, TextChunk, OpenChunk, ArgsChunk, EndChunk, Opens
<1> QED
  BY <1>2, <1>3

\* and a piece of one:
LEMMA PieceEvents ==
  ASSUME NEW item, NEW index, NEW piece
  PROVE  SaidBy(ItemDelta(item, index, piece))
           = <<Said("piece", KindOf(item.kind), item, piece)>>
<1>1. PICK e : e = ItemDelta(item, index, piece)
  OBVIOUS
<1>2. e.type = "item.delta" /\ e.item = item /\ e.piece = piece
  BY <1>1 DEF ItemDelta
<1>3. SaidBy(e) = <<Said("piece", KindOf(item.kind), item, piece)>>
  BY <1>2 DEF SaidBy
<1> QED
  BY <1>1, <1>3

\* of a thought,
LEMMA ThoughtEvents ==
  ASSUME NEW src, NEW item, item.kind = "reasoning", NEW index, NEW piece
  PROVE  ResponsesToChat(src, ItemDelta(item, index, piece))
           = Heard(src, <<ThoughtChunk(piece)>>)
<1>1. PICK e : e = ItemDelta(item, index, piece)
  OBVIOUS
<1>2. e.type = "item.delta" /\ e.item = item /\ e.piece = piece
  BY <1>1 DEF ItemDelta
<1>3. ResponsesToChat(src, e) = Heard(src, <<ThoughtChunk(piece)>>)
  BY <1>2 DEF ResponsesToChat, ThoughtChunk
<1> QED
  BY <1>1, <1>3

\* of a text
LEMMA TextEvents ==
  ASSUME NEW src, NEW item, item.kind = "message", NEW index, NEW piece
  PROVE  ResponsesToChat(src, ItemDelta(item, index, piece))
           = Heard(src, <<TextChunk(piece)>>)
<1>1. PICK e : e = ItemDelta(item, index, piece)
  OBVIOUS
<1>2. e.type = "item.delta" /\ e.item = item /\ e.piece = piece
  BY <1>1 DEF ItemDelta
<1>3. ResponsesToChat(src, e) = Heard(src, <<TextChunk(piece)>>)
  BY <1>2 DEF ResponsesToChat, TextChunk
<1> QED
  BY <1>1, <1>3

\* and of a call.
LEMMA ArgsEvents ==
  ASSUME NEW src, NEW item, item.kind = "function_call", NEW index, NEW piece
  PROVE  ResponsesToChat(src, ItemDelta(item, index, piece))
           = Heard(src, <<ArgsChunk(CallOf(src, item), piece)>>)
<1>1. PICK e : e = ItemDelta(item, index, piece)
  OBVIOUS
<1>2. e.type = "item.delta" /\ e.item = item /\ e.piece = piece
  BY <1>1 DEF ItemDelta
<1>3. ResponsesToChat(src, e) = Heard(src, <<ArgsChunk(CallOf(src, item), piece)>>)
  BY <1>2 DEF ResponsesToChat, ArgsChunk
<1> QED
  BY <1>1, <1>3

\* The events that say nothing, at the start and at the end.
LEMMA SilentEvents ==
  /\ SaidBy(Created) = <<>> /\ \A src : ResponsesToChat(src, Created) = Heard(src, <<>>)
  /\ \A type \in {"response.completed", "response.incomplete"} :
       \A tokens : SaidBy(Ended(type, tokens)) = <<>>
  /\ \A type \in {"response.completed", "response.incomplete"} :
       \A tokens, src :
         ResponsesToChat(src, Ended(type, tokens))
           = Heard(src, <<EndChunk(ResponsesFinish(src, type), tokens)>>)
<1>1. SaidBy(Created) = <<>>
  BY ItemFrames
<1>2. \A src : ResponsesToChat(src, Created) = Heard(src, <<>>)
  BY DEF ResponsesToChat, ThoughtChunk, TextChunk, OpenChunk, ArgsChunk, EndChunk, Opens, Created
<1>3. ASSUME NEW type \in {"response.completed", "response.incomplete"}, NEW tokens
      PROVE  SaidBy(Ended(type, tokens)) = <<>>
  BY <1>3 DEF SaidBy, Ended
<1>4. ASSUME NEW type \in {"response.completed", "response.incomplete"}, NEW tokens, NEW src
      PROVE  ResponsesToChat(src, Ended(type, tokens))
               = Heard(src, <<EndChunk(ResponsesFinish(src, type), tokens)>>)
  <2>1. Ended(type, tokens).type = type /\ Ended(type, tokens).usage = tokens
    BY DEF Ended
  <2> QED
    BY <1>4, <2>1 DEF ResponsesToChat, ThoughtChunk, TextChunk, OpenChunk, ArgsChunk, EndChunk, Opens
<1> QED
  BY <1>1, <1>2, <1>3, <1>4

\* What is known of the items while none is opened,
LEMMA ItemsStay ==
  ASSUME NEW x, NEW y, CallsIn(y) = CallsIn(x), Opened(y) = Opened(x),
         NEW src, NEW sp, KnowsItems(x, src, sp), NEW next, next.calls = sp.calls,
         next.parts = sp.parts, next.open = sp.open \/ next.open = None
  PROVE  KnowsItems(y, src, next)
  BY DEF KnowsItems, KeyOf

\* when one is opened that is no call,
LEMMA ItemOpens ==
  ASSUME NEW x, NEW y, NEW src, NEW sp, KnowsItems(x, src, sp), sp.parts \in Nat,
         CallsIn(y) = CallsIn(x), NEW kind \in {"reasoning", "message"},
         NEW item, item = Item(kind, sp.parts), Opened(y) = Opened(x) \cup {item},
         NEW next, next.calls = sp.calls, next.parts = sp.parts + 1, next.open = item
  PROVE  KnowsItems(y, src, next)
<1>1. item.n = sp.parts /\ item.kind = kind
  BY DEF Item
<1>2. /\ \A k \in 1..next.calls :
           KeyOf(y, k) \in DOMAIN src.calls /\ src.calls[KeyOf(y, k)] = k - 1
      /\ \A i \in DOMAIN src.calls : \E k \in 1..next.calls : KeyOf(y, k) = i
      /\ IsFiniteSet(DOMAIN src.calls) /\ Cardinality(DOMAIN src.calls) = next.calls
  BY DEF KnowsItems, KeyOf
<1>3. \A o \in Opened(y) : o.n \in 0..(next.parts - 1)
  <2>1. \A o \in Opened(x) : o.n \in 0..(sp.parts - 1)
    BY DEF KnowsItems
  <2> QED
    BY <1>1, <2>1
<1>4. next.parts > 0 /\ next.open = Item(kind, next.parts - 1) /\ kind \in ItemKinds
  BY DEF ItemKinds
<1>5. next.open.kind # "function_call"
  BY <1>1
<1> QED
  BY <1>2, <1>3, <1>4, <1>5 DEF KnowsItems

\* and when a call is.
LEMMA CallOpens ==
  ASSUME NEW x, NEW y, Well(x), NEW src, Source(src), NEW sp, KnowsItems(x, src, sp),
         sp.parts \in Nat, NEW n, n = sp.calls, n \in Nat, Len(CallsIn(x)) = n,
         NEW item, item = Item("function_call", sp.parts), Opened(y) = Opened(x) \cup {item},
         KeyOf(y, n + 1) = item, \A k \in 1..n : KeyOf(y, k) = KeyOf(x, k),
         NEW next, next.calls = n + 1, next.parts = sp.parts + 1, next.open = item,
         NEW src2, src2.calls = With(src.calls, item, n)
  PROVE  KnowsItems(y, src2, next)
<1>1. item.n = sp.parts /\ item.kind = "function_call"
  BY DEF Item
<1>2. /\ \A k \in 1..n : KeyOf(x, k) \in DOMAIN src.calls /\ src.calls[KeyOf(x, k)] = k - 1
      /\ \A i \in DOMAIN src.calls : \E k \in 1..n : KeyOf(x, k) = i
      /\ IsFiniteSet(DOMAIN src.calls) /\ Cardinality(DOMAIN src.calls) = n
      /\ \A o \in Opened(x) : o.n \in 0..(sp.parts - 1)
  BY DEF KnowsItems
<1>3. item \notin Opened(x)
  BY <1>1, <1>2
<1>4. \A k \in 1..n : KeyOf(x, k) \in Opened(x)
  <2>1. DOMAIN CallsIn(x) = 1..n
    BY CallsFacts DEF Well
  <2> QED
    BY <2>1 DEF Well, KeyOf
<1>5. item \notin DOMAIN src.calls
  BY <1>2, <1>3, <1>4
<1>6. /\ DOMAIN src2.calls = DOMAIN src.calls \cup {item} /\ src2.calls[item] = n
      /\ \A i \in DOMAIN src.calls : src2.calls[i] = src.calls[i]
  BY <1>5 DEF With
<1>7. \A k \in 1..(n + 1) :
        KeyOf(y, k) \in DOMAIN src2.calls /\ src2.calls[KeyOf(y, k)] = k - 1
  <2>1. SUFFICES ASSUME NEW k \in 1..(n + 1)
                 PROVE  KeyOf(y, k) \in DOMAIN src2.calls /\ src2.calls[KeyOf(y, k)] = k - 1
    OBVIOUS
  <2>2. CASE k = n + 1
    BY <1>6, <2>2
  <2>3. CASE k # n + 1
    <3>1. k \in 1..n
      BY <2>3
    <3>2. KeyOf(y, k) = KeyOf(x, k) /\ KeyOf(x, k) \in DOMAIN src.calls
          /\ src.calls[KeyOf(x, k)] = k - 1
      BY <1>2, <3>1
    <3> QED
      BY <1>6, <3>2
  <2> QED
    BY <2>2, <2>3
<1>8. \A i \in DOMAIN src2.calls : \E k \in 1..(n + 1) : KeyOf(y, k) = i
  <2>1. SUFFICES ASSUME NEW i \in DOMAIN src2.calls
                 PROVE  \E k \in 1..(n + 1) : KeyOf(y, k) = i
    OBVIOUS
  <2>2. CASE i = item
    <3>1. n + 1 \in 1..(n + 1)
      OBVIOUS
    <3> QED
      BY <2>2, <3>1
  <2>3. CASE i # item
    <3>1. PICK k \in 1..n : KeyOf(x, k) = i
      BY <1>2, <1>6, <2>3
    <3>2. k \in 1..(n + 1) /\ KeyOf(y, k) = i
      BY <3>1
    <3> QED
      BY <3>2
  <2> QED
    BY <2>2, <2>3
<1>9. IsFiniteSet(DOMAIN src2.calls) /\ Cardinality(DOMAIN src2.calls) = n + 1
  BY <1>2, <1>5, <1>6, FS_AddElement
<1>10. \A o \in Opened(y) : o.n \in 0..(next.parts - 1)
  BY <1>1, <1>2
<1>11. next.parts > 0 /\ next.open = Item("function_call", next.parts - 1)
       /\ "function_call" \in ItemKinds
  BY DEF ItemKinds
<1>12. next.open \in DOMAIN src2.calls
  BY <1>6
<1> QED
  BY <1>7, <1>8, <1>9, <1>10, <1>11, <1>12 DEF KnowsItems

\* What the relay has heard of a Responses provider's events.
HeardSoFar(E, src, sp, h) ==
  /\ Hearer(E, src, sp, h) /\ Source(src)
  /\ sp.parts \in Nat /\ sp.calls \in Nat
HeardNext(E, e, heard, sp, next, h) ==
  ChunksHeard(Append(E, e), heard.source, next, sp.calls, heard.chunks, h)

\* It is what has been said, and the source knows it.
LEMMA HeardItems ==
  ASSUME egress = "responses", NEW E, NEW src, NEW sp, NEW h, HeardSoFar(E, src, sp, h),
         NEW x, x = Transcript(E)
  PROVE  /\ Heeding(E, sp.calls, h) /\ KnowsItems(x, src, sp)
         /\ Well(x) /\ Sequence(x) /\ Sequence(h) /\ Len(CallsIn(x)) = sp.calls
<1>1. Heeding(E, sp.calls, h) /\ KnowsItems(x, src, sp)
  BY DEF HeardSoFar, Hearer
<1>2. Heeds(h, sp.calls) /\ Agrees(x, h, TRUE)
  BY <1>1 DEF Heeding
<1> QED
  BY <1>1, <1>2 DEF Heeds, Agrees, Well

\* And it will be, of its next event.
LEMMA HearerOfItems ==
  ASSUME egress = "responses", NEW E, NEW src, NEW sp, NEW h, Heeding(E, sp.calls, h),
         NEW y, Transcript(E) = y, KnowsItems(y, src, sp)
  PROVE  Hearer(E, src, sp, h)
  BY DEF Hearer

\* The response is created,
LEMMA HearsCreated ==
  ASSUME egress = "responses", NEW E, NEW src, NEW sp, NEW h, HeardSoFar(E, src, sp, h),
         NEW next, next.calls = sp.calls, next.parts = sp.parts, next.open = sp.open
  PROVE  HeardNext(E, Created, ResponsesToChat(src, Created), sp, next, h)
<1>1. PICK x : x = Transcript(E)
  OBVIOUS
<1>2. Heeding(E, sp.calls, h) /\ KnowsItems(x, src, sp)
  BY <1>1, HeardItems
<1>3. SaidBy(Created) = <<>> /\ ResponsesToChat(src, Created) = Heard(src, <<>>)
  BY SilentEvents
<1>4. /\ Heeding(Append(E, Created), sp.calls, h)
      /\ Transcript(Append(E, Created)) = Transcript(E)
  BY <1>2, <1>3, HeedSilence
<1>5. KnowsItems(x, src, next)
  BY <1>2, ItemsStay
<1>6. Hearer(Append(E, Created), src, next, h)
  BY <1>1, <1>4, <1>5, HearerOfItems
<1> QED
  BY <1>3, <1>6 DEF HeardNext, ChunksHeard, Heard

\* and it ends.
LEMMA HearsEnded ==
  ASSUME egress = "responses", NEW E, NEW src, NEW sp, NEW h, HeardSoFar(E, src, sp, h),
         NEW next, next.calls = sp.calls, next.parts = sp.parts, next.open = sp.open,
         NEW type \in {"response.completed", "response.incomplete"},
         NEW tokens \in [input : Nat, output : Nat], NEW e, e = Ended(type, tokens)
  PROVE  HeardNext(E, e, ResponsesToChat(src, e), sp, next, h)
<1>1. PICK x : x = Transcript(E)
  OBVIOUS
<1>2. Heeding(E, sp.calls, h) /\ KnowsItems(x, src, sp)
  BY <1>1, HeardItems
<1>3. PICK c : c = EndChunk(ResponsesFinish(src, type), tokens)
  OBVIOUS
<1>4. SaidBy(e) = <<>> /\ ResponsesToChat(src, e) = Heard(src, <<c>>)
  BY <1>3, SilentEvents
<1>5. SaidBy(c) = <<>> /\ \A n : ChunkFits(c, n, n)
  BY <1>3, SourceChunks DEF ThoughtChunk, TextChunk, EndChunk
<1>6. Heeding(Append(E, e), sp.calls, h) /\ Transcript(Append(E, e)) = Transcript(E)
  BY <1>2, <1>4, HeedSilence
<1>7. KnowsItems(x, src, next)
  BY <1>2, ItemsStay
<1>8. Hearer(Append(E, e), src, next, h)
  BY <1>1, <1>6, <1>7, HearerOfItems
<1>9. ChunksHeard(Append(E, e), src, next, sp.calls, <<c>>, h)
  BY <1>5, <1>8, SilentChunk
<1> QED
  BY <1>4, <1>9 DEF HeardNext, Heard

\* An item is opened that is no call,
LEMMA HearsItem ==
  ASSUME egress = "responses", NEW E, NEW src, NEW sp, NEW h, HeardSoFar(E, src, sp, h),
         NEW kind \in {"reasoning", "message"}, NEW item, item = Item(kind, sp.parts),
         NEW next, next.calls = sp.calls, next.parts = sp.parts + 1, next.open = item,
         NEW index, NEW call, NEW e, e = ItemAdded(item, index, call)
  PROVE  HeardNext(E, e, ResponsesToChat(src, e), sp, next, h)
<1>1. PICK x : x = Transcript(E)
  OBVIOUS
<1>2. Heeding(E, sp.calls, h) /\ KnowsItems(x, src, sp) /\ Sequence(x)
  BY <1>1, HeardItems
<1>3. item.kind = kind /\ item.kind # "function_call"
  BY DEF Item
<1>4. PICK u : u = Said("open", KindOf(item.kind), item, call)
  OBVIOUS
<1>5. SaidBy(e) = <<u>> /\ ResponsesToChat(src, e) = Heard(src, <<>>)
  BY <1>3, <1>4, AddedEvents
<1>6. u.act = "open" /\ u.kind # "call" /\ u.key = item
  BY <1>3, <1>4 DEF Said, KindOf
<1>7. /\ Heeding(Append(E, e), sp.calls, h) /\ Transcript(Append(E, e)) = x \o <<u>>
      /\ CallsIn(x \o <<u>>) = CallsIn(x)
  BY <1>1, <1>2, <1>5, <1>6, HeedNoise
<1>8. Opened(x \o <<u>>) = Opened(x) \cup {item}
  BY <1>2, <1>6, KeysSay
<1>9. sp.parts \in Nat
  BY DEF HeardSoFar
<1>10. KnowsItems(x \o <<u>>, src, next)
  BY <1>2, <1>7, <1>8, <1>9, ItemOpens
<1>11. Hearer(Append(E, e), src, next, h)
  BY <1>7, <1>10, HearerOfItems
<1> QED
  BY <1>5, <1>11 DEF HeardNext, ChunksHeard, Heard

\* or one that is,
LEMMA HearsCall ==
  ASSUME egress = "responses", NEW E, NEW src, NEW sp, NEW h, HeardSoFar(E, src, sp, h),
         NEW item, item = Item("function_call", sp.parts), NEW call, call # None,
         NEW next, next.calls = sp.calls + 1, next.parts = sp.parts + 1, next.open = item,
         NEW index, NEW e, e = ItemAdded(item, index, call)
  PROVE  HeardNext(E, e, ResponsesToChat(src, e), sp, next, h)
<1>1. PICK x : x = Transcript(E)
  OBVIOUS
<1>2. /\ Heeding(E, sp.calls, h) /\ KnowsItems(x, src, sp)
      /\ Well(x) /\ Sequence(x) /\ Len(CallsIn(x)) = sp.calls
  BY <1>1, HeardItems
<1>3. PICK n : n = sp.calls
  OBVIOUS
<1>4. n = Cardinality(DOMAIN src.calls) /\ n \in Nat /\ sp.parts \in Nat /\ Source(src)
  BY <1>2, <1>3 DEF KnowsItems, HeardSoFar
<1>5. item.kind = "function_call" /\ item.n = sp.parts
  BY DEF Item
<1>6. PICK u : u = Said("open", KindOf(item.kind), item, call)
  OBVIOUS
<1>7. u.act = "open" /\ u.kind = "call" /\ u.key = item /\ u.what = call
  BY <1>5, <1>6 DEF Said, KindOf
<1>8. PICK v : v = Said("open", "call", n, call)
  OBVIOUS
<1>9. v.act = "open" /\ v.kind = "call" /\ v.key = n /\ u.what = v.what
  BY <1>7, <1>8 DEF Said
<1>10. PICK c : c = OpenChunk(n, call)
  OBVIOUS
<1>11. SaidBy(c) = <<v>> /\ ChunkFits(c, n, n + 1)
  BY <1>4, <1>8, <1>10, SourceParts DEF OpenChunk, ArgsChunk
<1>12. PICK src2 : src2 = Opens(src, item, n)
  OBVIOUS
<1>13. SaidBy(e) = <<u>> /\ ResponsesToChat(src, e) = Heard(src2, <<c>>)
  <2>1. ResponsesToChat(src, e)
          = Heard(Opens(src, item, n),
                  <<OpenChunk(n, call)>>)
    BY <1>4, <1>5, AddedEvents
  <2>2. SaidBy(e) = <<u>>
    BY <1>6, AddedEvents
  <2> QED
    BY <1>10, <1>12, <2>1, <2>2
<1>14. src2.calls = With(src.calls, item, n)
  BY <1>4, <1>12 DEF Source, Opens
<1>15. u.key \notin Opened(x)
  BY <1>2, <1>4, <1>5, <1>7 DEF KnowsItems
<1>16. Heeding(E, n, h)
  BY <1>2, <1>3
<1>17. /\ Heeding(Append(E, e), n + 1, h \o <<v>>)
       /\ Transcript(Append(E, e)) = x \o <<u>>
       /\ n \in Nat /\ KeyOf(x \o <<u>>, n + 1) = u.key
       /\ \A k \in 1..n : KeyOf(x \o <<u>>, k) = KeyOf(x, k)
  BY <1>1, <1>7, <1>9, <1>13, <1>15, <1>16, HeedCall, SMTT(30)
<1>18. Opened(x \o <<u>>) = Opened(x) \cup {item}
  BY <1>2, <1>7, KeysSay
<1>19. KnowsItems(x \o <<u>>, src2, next)
  <2>1. Len(CallsIn(x)) = n /\ next.calls = n + 1 /\ KeyOf(x \o <<u>>, n + 1) = item
    BY <1>2, <1>3, <1>7, <1>17
  <2> QED
    BY <1>2, <1>3, <1>4, <1>14, <1>17, <1>18, <2>1, CallOpens
<1>20. Hearer(Append(E, e), src2, next, h \o <<v>>)
  <2>1. Heeding(Append(E, e), next.calls, h \o <<v>>)
    BY <1>3, <1>17
  <2> QED
    BY <1>17, <1>19, <2>1, HearerOfItems
<1>21. ChunksHeard(Append(E, e), src2, next, n, <<c>>, h)
  <2>1. ChunkFits(c, n, next.calls)
    BY <1>3, <1>11
  <2> QED
    BY <1>11, <1>20, <2>1, SpokenChunk
<1> QED
  BY <1>3, <1>13, <1>21 DEF HeardNext, Heard

\* it is spoken in,
LEMMA HearsItemPiece ==
  ASSUME egress = "responses", NEW E, NEW src, NEW sp, NEW h, HeardSoFar(E, src, sp, h),
         NEW kind \in {"reasoning", "message"}, NEW item, item.kind = kind,
         NEW next, next.calls = sp.calls, next.parts = sp.parts, next.open = sp.open,
         NEW index, NEW piece, piece # None, NEW e, e = ItemDelta(item, index, piece)
  PROVE  HeardNext(E, e, ResponsesToChat(src, e), sp, next, h)
<1>1. PICK x : x = Transcript(E)
  OBVIOUS
<1>2. Heeding(E, sp.calls, h) /\ KnowsItems(x, src, sp) /\ Sequence(x)
  BY <1>1, HeardItems
<1>3. PICK u : u = Said("piece", KindOf(item.kind), item, piece)
  OBVIOUS
<1>4. PICK v : v = Said("piece", KindOf(item.kind), None, piece)
  OBVIOUS
<1>5. /\ u.act = "piece" /\ v.act = "piece" /\ u.kind = v.kind /\ u.what = v.what
      /\ u.kind \in {"thought", "text"}
  BY <1>3, <1>4 DEF Said, KindOf
<1>6. SaidBy(e) = <<u>>
  BY <1>3, PieceEvents
<1>7. \E c : /\ ResponsesToChat(src, e) = Heard(src, <<c>>) /\ SaidBy(c) = <<v>>
             /\ \A n : ChunkFits(c, n, n)
  <2>1. CASE kind = "reasoning"
    <3>1. PICK c : c = ThoughtChunk(piece)
      OBVIOUS
    <3>2. v = Said("piece", "thought", None, piece)
      BY <1>4, <2>1 DEF KindOf
    <3>3. ResponsesToChat(src, e) = Heard(src, <<c>>)
      <4>1. ResponsesToChat(src, e) = Heard(src, <<ThoughtChunk(piece)>>)
        BY <2>1, ThoughtEvents
      <4> QED
        BY <3>1, <4>1
    <3>4. SaidBy(c) = <<v>> /\ \A n : ChunkFits(c, n, n)
      BY <3>1, <3>2, SourceChunks DEF ThoughtChunk, TextChunk, EndChunk
    <3> QED
      BY <3>3, <3>4
  <2>2. CASE kind = "message"
    <3>1. PICK c : c = TextChunk(piece)
      OBVIOUS
    <3>2. v = Said("piece", "text", None, piece)
      BY <1>4, <2>2 DEF KindOf
    <3>3. ResponsesToChat(src, e) = Heard(src, <<c>>)
      <4>1. ResponsesToChat(src, e) = Heard(src, <<TextChunk(piece)>>)
        BY <2>2, TextEvents
      <4> QED
        BY <3>1, <4>1
    <3>4. SaidBy(c) = <<v>> /\ \A n : ChunkFits(c, n, n)
      BY <3>1, <3>2, SourceChunks DEF ThoughtChunk, TextChunk, EndChunk
    <3> QED
      BY <3>3, <3>4
  <2> QED
    BY <2>1, <2>2
<1>8. PICK c : /\ ResponsesToChat(src, e) = Heard(src, <<c>>) /\ SaidBy(c) = <<v>>
               /\ \A n : ChunkFits(c, n, n)
  BY <1>7
<1>9. /\ Heeding(Append(E, e), sp.calls, h \o <<v>>)
      /\ Transcript(Append(E, e)) = x \o <<u>>
      /\ CallsIn(x \o <<u>>) = CallsIn(x)
  BY <1>1, <1>2, <1>5, <1>6, HeedPiece
<1>10. Opened(x \o <<u>>) = Opened(x)
  BY <1>2, <1>5, KeysSay
<1>11. KnowsItems(x \o <<u>>, src, next)
  BY <1>2, <1>9, <1>10, ItemsStay
<1>12. Hearer(Append(E, e), src, next, h \o <<v>>)
  BY <1>9, <1>11, HearerOfItems
<1>13. ChunksHeard(Append(E, e), src, next, sp.calls, <<c>>, h)
  <2>1. ChunkFits(c, sp.calls, next.calls)
    BY <1>8
  <2> QED
    BY <1>8, <1>12, <2>1, SpokenChunk
<1> QED
  BY <1>8, <1>13 DEF HeardNext, Heard

\* also when it is a call,
LEMMA HearsCallPiece ==
  ASSUME egress = "responses", NEW E, NEW src, NEW sp, NEW h, HeardSoFar(E, src, sp, h),
         NEW item, item.kind = "function_call", item \in DOMAIN src.calls,
         NEW next, next.calls = sp.calls, next.parts = sp.parts, next.open = sp.open,
         NEW index, NEW piece, piece # None, NEW e, e = ItemDelta(item, index, piece)
  PROVE  HeardNext(E, e, ResponsesToChat(src, e), sp, next, h)
<1>1. PICK x : x = Transcript(E)
  OBVIOUS
<1>2. Heeding(E, sp.calls, h) /\ KnowsItems(x, src, sp) /\ Sequence(x)
  BY <1>1, HeardItems
<1>3. PICK n : n = sp.calls
  OBVIOUS
<1>4. n \in Nat /\ Heeding(E, n, h)
  BY <1>2, <1>3 DEF HeardSoFar
<1>5. PICK k \in 1..n : KeyOf(x, k) = item
  BY <1>2, <1>3 DEF KnowsItems
<1>6. CallOf(src, item) = k - 1
  BY <1>2, <1>3, <1>5 DEF KnowsItems, CallOf
<1>7. PICK i : i = k - 1
  OBVIOUS
<1>8. i \in 0..(n - 1) /\ i = k - 1
  BY <1>4, <1>5, <1>7
<1>9. PICK u : u = Said("piece", KindOf(item.kind), item, piece)
  OBVIOUS
<1>10. PICK v : v = Said("piece", "call", i, piece)
  OBVIOUS
<1>11. /\ u.act = "piece" /\ v.act = "piece" /\ u.kind = "call" /\ v.kind = "call"
       /\ u.what = v.what /\ u.key = KeyOf(x, k) /\ v.key = k - 1
  BY <1>5, <1>8, <1>9, <1>10 DEF Said, KindOf
<1>12. PICK c : c = ArgsChunk(i, piece)
  OBVIOUS
<1>13. SaidBy(c) = <<v>> /\ ChunkFits(c, n, n)
  BY <1>4, <1>8, <1>10, <1>12, SourceParts DEF OpenChunk, ArgsChunk
<1>14. SaidBy(e) = <<u>> /\ ResponsesToChat(src, e) = Heard(src, <<c>>)
  <2>1. ResponsesToChat(src, e)
          = Heard(src, <<ArgsChunk(CallOf(src, item), piece)>>)
    BY ArgsEvents
  <2>2. SaidBy(e) = <<u>>
    BY <1>9, PieceEvents
  <2>3. CallOf(src, item) = i
    BY <1>6, <1>7
  <2> QED
    BY <1>12, <2>1, <2>2, <2>3
<1>15. /\ Heeding(Append(E, e), n, h \o <<v>>) /\ Transcript(Append(E, e)) = x \o <<u>>
       /\ CallsIn(x \o <<u>>) = CallsIn(x) /\ Opened(x \o <<u>>) = Opened(x)
  BY <1>1, <1>4, <1>11, <1>14, HeedArgs
<1>16. KnowsItems(x \o <<u>>, src, next)
  BY <1>2, <1>15, ItemsStay
<1>17. Hearer(Append(E, e), src, next, h \o <<v>>)
  <2>1. Heeding(Append(E, e), next.calls, h \o <<v>>)
    BY <1>3, <1>15
  <2> QED
    BY <1>15, <1>16, <2>1, HearerOfItems
<1>18. ChunksHeard(Append(E, e), src, next, n, <<c>>, h)
  <2>1. ChunkFits(c, n, next.calls)
    BY <1>3, <1>13
  <2> QED
    BY <1>13, <1>17, <2>1, SpokenChunk
<1> QED
  BY <1>3, <1>14, <1>18 DEF HeardNext, Heard

\* and it is closed.
LEMMA HearsItemDone ==
  ASSUME egress = "responses", NEW E, NEW src, NEW sp, NEW h, HeardSoFar(E, src, sp, h),
         NEW item, NEW next, next.calls = sp.calls, next.parts = sp.parts, next.open = None,
         NEW index, NEW pieces, NEW e, e = ItemDone(item, index, pieces)
  PROVE  HeardNext(E, e, ResponsesToChat(src, e), sp, next, h)
<1>1. PICK x : x = Transcript(E)
  OBVIOUS
<1>2. Heeding(E, sp.calls, h) /\ KnowsItems(x, src, sp) /\ Sequence(x)
  BY <1>1, HeardItems
<1>3. PICK u : u = Said("close", KindOf(item.kind), item, pieces)
  OBVIOUS
<1>4. u.act = "close"
  BY <1>3 DEF Said
<1>5. SaidBy(e) = <<u>> /\ ResponsesToChat(src, e) = Heard(src, <<>>)
  BY <1>3, DoneEvents
<1>6. /\ Heeding(Append(E, e), sp.calls, h) /\ Transcript(Append(E, e)) = x \o <<u>>
      /\ CallsIn(x \o <<u>>) = CallsIn(x)
  BY <1>1, <1>2, <1>4, <1>5, HeedNoise
<1>7. Opened(x \o <<u>>) = Opened(x)
  BY <1>2, <1>4, KeysSay
<1>8. KnowsItems(x \o <<u>>, src, next)
  BY <1>2, <1>6, <1>7, ItemsStay
<1>9. Hearer(Append(E, e), src, next, h)
  BY <1>6, <1>8, HearerOfItems
<1> QED
  BY <1>5, <1>9 DEF HeardNext, ChunksHeard, Heard

-----------------------------------------------------------------------------
(* What the relay hears of an Anthropic provider.                          *)

\* A source that has seen the usage of an event, and one that knows of one
\* more block.
Observes(src, e) == [src EXCEPT !.usage = ObserveAnthropic(e, @)]
OpensBlock(src, index, kind) ==
  [src EXCEPT !.blocks = With(@, index, [kind |-> kind, call |-> src.next])]
OpensCallBlock(src, index, kind) == [OpensBlock(src, index, kind) EXCEPT !.next = @ + 1]

\* They keep the rest.
LEMMA ObservesFacts ==
  ASSUME NEW src, Source(src), NEW e
  PROVE  /\ DOMAIN Observes(src, e) = DOMAIN src
         /\ Observes(src, e).usage = ObserveAnthropic(e, src.usage)
         /\ Observes(src, e).next = src.next /\ Observes(src, e).blocks = src.blocks
  BY DEF Observes, Source

\* A block is known, and counted if it is a call's.
LEMMA OpensBlockFacts ==
  ASSUME NEW src, NEW s, Source(src), DOMAIN s = DOMAIN src,
         s.next = src.next, s.blocks = src.blocks, NEW index, NEW kind
  PROVE  /\ OpensBlock(s, index, kind).next = src.next
         /\ OpensBlock(s, index, kind).blocks
              = With(src.blocks, index, [kind |-> kind, call |-> src.next])
         /\ OpensCallBlock(s, index, kind).next = src.next + 1
         /\ OpensCallBlock(s, index, kind).blocks
              = With(src.blocks, index, [kind |-> kind, call |-> src.next])
  BY DEF OpensBlock, OpensCallBlock, Source

\* The start of a message,
LEMMA MessageStartEvents ==
  ASSUME NEW src, NEW tokens
  PROVE  LET e == MessageStart(tokens) IN
         SaidBy(e) = <<>> /\ AnthropicToChat(src, e) = Heard(Observes(src, e), <<Blank>>)
<1>1. PICK e : e = MessageStart(tokens)
  OBVIOUS
<1>2. e.type = "message_start"
  BY <1>1 DEF MessageStart
<1>3. SaidBy(e) = <<>>
  BY <1>2 DEF SaidBy
<1>4. AnthropicToChat(src, e) = Heard(Observes(src, e), <<Blank>>)
  BY <1>2 DEF AnthropicToChat, Observes
<1> QED
  BY <1>1, <1>3, <1>4

\* its count,
LEMMA MessageDeltaEvents ==
  ASSUME NEW src, NEW stop, NEW tokens
  PROVE  LET e == MessageDelta(stop, tokens) IN
         /\ SaidBy(e) = <<>>
         /\ AnthropicToChat(src, e)
              = Heard(Observes(src, e),
                      <<EndChunk(ChatFinish(stop), TokensOf(Observes(src, e).usage))>>)
<1>1. PICK e : e = MessageDelta(stop, tokens)
  OBVIOUS
<1>2. e.type = "message_delta" /\ e.stop = stop
  BY <1>1 DEF MessageDelta
<1>3. SaidBy(e) = <<>>
  BY <1>2 DEF SaidBy
<1>4. AnthropicToChat(src, e)
        = Heard(Observes(src, e),
                <<EndChunk(ChatFinish(stop), TokensOf(Observes(src, e).usage))>>)
  BY <1>2 DEF AnthropicToChat, Observes, EndChunk
<1> QED
  BY <1>1, <1>3, <1>4

\* and its end;
LEMMA MessageStopEvents ==
  ASSUME NEW src
  PROVE  LET e == MessageStop IN
         SaidBy(e) = <<>> /\ AnthropicToChat(src, e) = Heard(Observes(src, e), <<>>)
<1>1. PICK e : e = MessageStop
  OBVIOUS
<1>2. e.type = "message_stop"
  BY <1>1 DEF MessageStop
<1>3. SaidBy(e) = <<>>
  BY <1>2 DEF SaidBy
<1>4. AnthropicToChat(src, e) = Heard(Observes(src, e), <<>>)
  BY <1>2 DEF AnthropicToChat, Observes
<1> QED
  BY <1>1, <1>3, <1>4

\* a block that is opened,
LEMMA BlockStartSaid ==
  ASSUME NEW index, NEW kind, NEW call
  PROVE  SaidBy(BlockStart(index, kind, call)) = <<Said("open", KindOf(kind), index, call)>>
<1>1. PICK e : e = BlockStart(index, kind, call)
  OBVIOUS
<1>2. e.type = "block_start" /\ e.index = index /\ e.kind = kind /\ e.call = call
  BY <1>1 DEF BlockStart
<1>3. SaidBy(e) = <<Said("open", KindOf(kind), index, call)>>
  BY <1>2 DEF SaidBy
<1> QED
  BY <1>1, <1>3

\* that of a call
LEMMA CallBlockEvents ==
  ASSUME NEW src, Source(src), NEW index, NEW kind, kind = "tool_use", NEW call
  PROVE  LET e == BlockStart(index, kind, call) IN
         AnthropicToChat(src, e)
           = Heard(OpensCallBlock(Observes(src, e), index, kind), <<OpenChunk(src.next, call)>>)
<1>1. PICK e : e = BlockStart(index, kind, call)
  OBVIOUS
<1>2. e.type = "block_start" /\ e.index = index /\ e.kind = kind /\ e.call = call
  BY <1>1 DEF BlockStart
<1>3. PICK s : s = Observes(src, e)
  OBVIOUS
<1>4. s.next = src.next
  BY <1>3, ObservesFacts
<1>5. AnthropicToChat(src, e) = AnthropicBlock(s, e)
  BY <1>2, <1>3 DEF AnthropicToChat, Observes
<1>6. AnthropicBlock(s, e)
        = Heard(OpensCallBlock(s, index, kind), <<OpenChunk(s.next, call)>>)
  BY <1>2 DEF AnthropicBlock, OpensBlock, OpensCallBlock, OpenChunk
<1> QED
  BY <1>1, <1>3, <1>4, <1>5, <1>6

\* or another;
LEMMA BlockStartEvents ==
  ASSUME NEW src, NEW index, NEW kind, kind # "tool_use", NEW call
  PROVE  LET e == BlockStart(index, kind, call) IN
         AnthropicToChat(src, e) = Heard(OpensBlock(Observes(src, e), index, kind), <<>>)
<1>1. PICK e : e = BlockStart(index, kind, call)
  OBVIOUS
<1>2. e.type = "block_start" /\ e.index = index /\ e.kind = kind /\ e.call = call
  BY <1>1 DEF BlockStart
<1>3. PICK s : s = Observes(src, e)
  OBVIOUS
<1>4. AnthropicToChat(src, e) = AnthropicBlock(s, e)
  BY <1>2, <1>3 DEF AnthropicToChat, Observes
<1>5. AnthropicBlock(s, e) = Heard(OpensBlock(s, index, kind), <<>>)
  BY <1>2 DEF AnthropicBlock, OpensBlock
<1> QED
  BY <1>1, <1>3, <1>4, <1>5

\* one that is stopped,
LEMMA BlockStopEvents ==
  ASSUME NEW src, NEW index
  PROVE  LET e == BlockStop(index) IN
         /\ SaidBy(e) = <<Said("close", None, index, None)>>
         /\ AnthropicToChat(src, e) = Heard(Observes(src, e), <<>>)
<1>1. PICK e : e = BlockStop(index)
  OBVIOUS
<1>2. e.type = "block_stop" /\ e.index = index
  BY <1>1 DEF BlockStop
<1>3. SaidBy(e) = <<Said("close", None, index, None)>>
  BY <1>2 DEF SaidBy
<1>4. AnthropicToChat(src, e) = Heard(Observes(src, e), <<>>)
  BY <1>2 DEF AnthropicToChat, Observes
<1> QED
  BY <1>1, <1>3, <1>4

\* and a piece of one:
LEMMA BlockDeltaSaid ==
  ASSUME NEW index, NEW kind, NEW piece
  PROVE  SaidBy(BlockDelta(index, kind, piece)) = <<Said("piece", KindOf(kind), index, piece)>>
<1>1. PICK e : e = BlockDelta(index, kind, piece)
  OBVIOUS
<1>2. e.type = "block_delta" /\ e.index = index /\ e.kind = kind /\ e.piece = piece
  BY <1>1 DEF BlockDelta
<1>3. SaidBy(e) = <<Said("piece", KindOf(kind), index, piece)>>
  BY <1>2 DEF SaidBy
<1> QED
  BY <1>1, <1>3

\* the chunk is what the source knows the block to be.
BlockChunk(block, piece) ==
  CASE block.kind = "thinking" -> ThoughtChunk(piece)
    [] block.kind = "text" -> TextChunk(piece)
    [] block.kind = "tool_use" -> ArgsChunk(block.call, piece)
LEMMA BlockDeltaEvents ==
  ASSUME NEW src, Source(src), NEW index \in DOMAIN src.blocks, NEW kind, NEW piece
  PROVE  LET e == BlockDelta(index, kind, piece) IN
         AnthropicToChat(src, e)
           = Heard(Observes(src, e), <<BlockChunk(src.blocks[index], piece)>>)
<1>1. PICK e : e = BlockDelta(index, kind, piece)
  OBVIOUS
<1>2. e.type = "block_delta" /\ e.index = index /\ e.piece = piece
  BY <1>1 DEF BlockDelta
<1>3. PICK s : s = Observes(src, e)
  OBVIOUS
<1>4. s.blocks = src.blocks
  BY <1>3, ObservesFacts
<1>5. AnthropicToChat(src, e) = AnthropicDelta(s, e)
  BY <1>2, <1>3 DEF AnthropicToChat, Observes
<1>6. src.blocks[index].kind \in BlockKinds
  BY DEF Source
<1>7. AnthropicDelta(s, e) = Heard(s, <<BlockChunk(src.blocks[index], piece)>>)
  <2>1. PICK block : block = src.blocks[index]
    OBVIOUS
  <2>2. s.blocks[e.index] = block /\ e.index \in DOMAIN s.blocks
    BY <1>2, <1>4, <2>1
  <2>3. CASE block.kind = "thinking"
    BY <1>2, <2>1, <2>2, <2>3 DEF AnthropicDelta, BlockChunk, ThoughtChunk
  <2>4. CASE block.kind = "text"
    BY <1>2, <2>1, <2>2, <2>4 DEF AnthropicDelta, BlockChunk, TextChunk
  <2>5. CASE block.kind = "tool_use"
    BY <1>2, <2>1, <2>2, <2>5 DEF AnthropicDelta, BlockChunk, ArgsChunk
  <2> QED
    BY <1>6, <2>1, <2>3, <2>4, <2>5 DEF BlockKinds
<1> QED
  BY <1>1, <1>3, <1>5, <1>7

\* What is known of the blocks while none is opened,
LEMMA BlocksStay ==
  ASSUME NEW x, NEW y, CallsIn(y) = CallsIn(x), Opened(y) = Opened(x),
         NEW src, NEW sp, KnowsBlocks(x, src, sp), NEW next, next.calls = sp.calls,
         next.parts = sp.parts, next.open = sp.open \/ next.open = None,
         NEW src2, src2.next = src.next, src2.blocks = src.blocks
  PROVE  KnowsBlocks(y, src2, next)
  BY ZenonT(40) DEF KnowsBlocks, KeyOf

\* when one is opened that is no call's,
LEMMA BlockOpens ==
  ASSUME NEW x, NEW y, NEW src, NEW sp, KnowsBlocks(x, src, sp), sp.parts \in Nat,
         CallsIn(y) = CallsIn(x), Opened(y) = Opened(x) \cup {sp.parts},
         NEW kind, kind # "tool_use", NEW i,
         NEW next, next.calls = sp.calls, next.parts = sp.parts + 1, next.open = kind,
         NEW src2, src2.next = src.next,
         src2.blocks = With(src.blocks, sp.parts, [kind |-> kind, call |-> i])
  PROVE  KnowsBlocks(y, src2, next)
<1>1. PICK p : p = sp.parts
  OBVIOUS
<1>2. /\ p \in Nat /\ DOMAIN src.blocks = 0..(p - 1) /\ src.next = sp.calls
      /\ \A k \in 1..sp.calls :
           /\ KeyOf(x, k) \in DOMAIN src.blocks
           /\ src.blocks[KeyOf(x, k)].kind = "tool_use"
           /\ src.blocks[KeyOf(x, k)].call = k - 1
      /\ \A b \in DOMAIN src.blocks :
           src.blocks[b].kind = "tool_use" => \E k \in 1..sp.calls : KeyOf(x, k) = b
      /\ Opened(x) \subseteq 0..(p - 1)
  BY <1>1 DEF KnowsBlocks
<1>3. \A k : KeyOf(y, k) = KeyOf(x, k)
  BY DEF KeyOf
<1>4. p \notin DOMAIN src.blocks
  BY <1>2
<1>5. /\ DOMAIN src2.blocks = 0..p /\ src2.blocks[p].kind = kind
      /\ \A b \in DOMAIN src.blocks : src2.blocks[b] = src.blocks[b]
  <2>1. src2.blocks = With(src.blocks, p, [kind |-> kind, call |-> i])
    BY <1>1
  <2>2. DOMAIN src2.blocks = DOMAIN src.blocks \cup {p}
    BY <2>1 DEF With
  <2>3. src2.blocks[p].kind = kind
    BY <2>1 DEF With
  <2>4. \A b \in DOMAIN src.blocks : src2.blocks[b] = src.blocks[b]
    BY <1>4, <2>1 DEF With
  <2>5. 0..(p - 1) \cup {p} = 0..p
    BY <1>2
  <2> QED
    BY <1>2, <2>2, <2>3, <2>4, <2>5
<1>6. \A k \in 1..next.calls :
        /\ KeyOf(y, k) \in DOMAIN src2.blocks
        /\ src2.blocks[KeyOf(y, k)].kind = "tool_use"
        /\ src2.blocks[KeyOf(y, k)].call = k - 1
  <2>1. SUFFICES ASSUME NEW k \in 1..sp.calls
                 PROVE  /\ KeyOf(x, k) \in DOMAIN src2.blocks
                        /\ src2.blocks[KeyOf(x, k)].kind = "tool_use"
                        /\ src2.blocks[KeyOf(x, k)].call = k - 1
    BY <1>3
  <2>2. KeyOf(x, k) \in DOMAIN src.blocks
    BY <1>2
  <2>3. src2.blocks[KeyOf(x, k)] = src.blocks[KeyOf(x, k)]
    BY <1>5, <2>2
  <2>4. KeyOf(x, k) \in 0..p
    BY <1>2, <2>2
  <2> QED
    BY <1>2, <1>5, <2>3, <2>4
<1>7. ASSUME NEW b \in DOMAIN src2.blocks, src2.blocks[b].kind = "tool_use"
      PROVE  \E k \in 1..next.calls : KeyOf(y, k) = b
  <2>1. b # p
    BY <1>5, <1>7
  <2>2. b \in DOMAIN src.blocks
    BY <1>2, <1>5, <2>1
  <2>3. src.blocks[b].kind = "tool_use"
    BY <1>5, <1>7, <2>2
  <2> QED
    BY <1>2, <1>3, <2>2, <2>3
<1>8. Opened(y) \subseteq 0..(next.parts - 1) /\ DOMAIN src2.blocks = 0..(next.parts - 1)
  BY <1>1, <1>2, <1>5
<1>9. next.parts > 0 /\ next.open = src2.blocks[next.parts - 1].kind
  BY <1>1, <1>2, <1>5
<1> QED
  BY <1>2, <1>6, <1>7, <1>8, <1>9 DEF KnowsBlocks

\* and when a call's is.
LEMMA CallBlockOpens ==
  ASSUME NEW x, NEW y, NEW src, NEW sp, KnowsBlocks(x, src, sp), sp.parts \in Nat,
         NEW n, n = sp.calls, n \in Nat, Opened(y) = Opened(x) \cup {sp.parts},
         KeyOf(y, n + 1) = sp.parts, \A k \in 1..n : KeyOf(y, k) = KeyOf(x, k),
         NEW next, next.calls = n + 1, next.parts = sp.parts + 1, next.open = "tool_use",
         NEW src2, src2.next = src.next + 1,
         src2.blocks = With(src.blocks, sp.parts, [kind |-> "tool_use", call |-> src.next])
  PROVE  KnowsBlocks(y, src2, next)
<1>1. PICK p : p = sp.parts
  OBVIOUS
<1>2. /\ p \in Nat /\ DOMAIN src.blocks = 0..(p - 1) /\ src.next = n
      /\ \A k \in 1..n :
           /\ KeyOf(x, k) \in DOMAIN src.blocks
           /\ src.blocks[KeyOf(x, k)].kind = "tool_use"
           /\ src.blocks[KeyOf(x, k)].call = k - 1
      /\ \A b \in DOMAIN src.blocks :
           src.blocks[b].kind = "tool_use" => \E k \in 1..n : KeyOf(x, k) = b
      /\ Opened(x) \subseteq 0..(p - 1)
  BY <1>1 DEF KnowsBlocks
<1>3. p \notin DOMAIN src.blocks
  BY <1>2
<1>4. /\ DOMAIN src2.blocks = 0..p /\ src2.blocks[p].kind = "tool_use"
      /\ src2.blocks[p].call = n
      /\ \A b \in DOMAIN src.blocks : src2.blocks[b] = src.blocks[b]
  <2>1. src2.blocks = With(src.blocks, p, [kind |-> "tool_use", call |-> n])
    BY <1>1, <1>2
  <2>2. DOMAIN src2.blocks = DOMAIN src.blocks \cup {p}
    BY <2>1 DEF With
  <2>3. src2.blocks[p].kind = "tool_use" /\ src2.blocks[p].call = n
    BY <2>1 DEF With
  <2>4. \A b \in DOMAIN src.blocks : src2.blocks[b] = src.blocks[b]
    BY <1>3, <2>1 DEF With
  <2>5. 0..(p - 1) \cup {p} = 0..p
    BY <1>2
  <2> QED
    BY <1>2, <2>2, <2>3, <2>4, <2>5
<1>5. ASSUME NEW k \in 1..(n + 1)
      PROVE  /\ KeyOf(y, k) \in DOMAIN src2.blocks
             /\ src2.blocks[KeyOf(y, k)].kind = "tool_use"
             /\ src2.blocks[KeyOf(y, k)].call = k - 1
  <2>1. CASE k = n + 1
    <3>1. KeyOf(y, k) = p /\ p \in 0..p
      BY <1>1, <1>2, <2>1
    <3>2. n = k - 1
      BY <2>1
    <3> QED
      BY <1>4, <3>1, <3>2
  <2>2. CASE k # n + 1
    <3>1. k \in 1..n
      BY <2>2
    <3>2. KeyOf(y, k) = KeyOf(x, k) /\ KeyOf(x, k) \in DOMAIN src.blocks
      BY <1>2, <3>1
    <3>3. src2.blocks[KeyOf(y, k)] = src.blocks[KeyOf(x, k)]
      BY <1>4, <3>2
    <3>4. KeyOf(y, k) \in 0..p
      BY <1>2, <3>2
    <3> QED
      BY <1>2, <1>4, <3>1, <3>3, <3>4
  <2> QED
    BY <2>1, <2>2
<1>6. ASSUME NEW b \in DOMAIN src2.blocks, src2.blocks[b].kind = "tool_use"
      PROVE  \E k \in 1..(n + 1) : KeyOf(y, k) = b
  <2>1. CASE b = p
    <3>1. n + 1 \in 1..(n + 1) /\ KeyOf(y, n + 1) = b
      BY <1>1, <2>1
    <3> QED
      BY <3>1
  <2>2. CASE b # p
    <3>1. b \in DOMAIN src.blocks
      BY <1>2, <1>4, <2>2
    <3>2. src.blocks[b].kind = "tool_use"
      BY <1>4, <1>6, <3>1
    <3>3. PICK k \in 1..n : KeyOf(x, k) = b
      BY <1>2, <3>1, <3>2
    <3>4. k \in 1..(n + 1) /\ KeyOf(y, k) = b
      BY <3>3
    <3> QED
      BY <3>4
  <2> QED
    BY <2>1, <2>2
<1>7. Opened(y) \subseteq 0..(next.parts - 1) /\ DOMAIN src2.blocks = 0..(next.parts - 1)
  BY <1>1, <1>2, <1>4
<1>8. next.parts > 0 /\ next.open = src2.blocks[next.parts - 1].kind
  BY <1>1, <1>2, <1>4
<1>9. src2.next = next.calls
  BY <1>2
<1> QED
  BY <1>5, <1>6, <1>7, <1>8, <1>9 DEF KnowsBlocks

\* What has been heard is what has been said, and the source knows it.
LEMMA HeardBlocks ==
  ASSUME egress = "anthropic", NEW E, NEW src, NEW sp, NEW h, HeardSoFar(E, src, sp, h),
         NEW x, x = Transcript(E)
  PROVE  /\ Heeding(E, sp.calls, h) /\ KnowsBlocks(x, src, sp)
         /\ Well(x) /\ Sequence(x) /\ Sequence(h) /\ Len(CallsIn(x)) = sp.calls
<1>1. Heeding(E, sp.calls, h) /\ KnowsBlocks(x, src, sp)
  BY DEF HeardSoFar, Hearer
<1>2. Heeds(h, sp.calls) /\ Agrees(x, h, TRUE)
  BY <1>1 DEF Heeding
<1> QED
  BY <1>1, <1>2 DEF Heeds, Agrees, Well

\* And it will be, of its next event.
LEMMA HearerOfBlocks ==
  ASSUME egress = "anthropic", NEW E, NEW src, NEW sp, NEW h, Heeding(E, sp.calls, h),
         NEW y, Transcript(E) = y, KnowsBlocks(y, src, sp)
  PROVE  Hearer(E, src, sp, h)
  BY DEF Hearer

\* An event that says nothing, and makes a chunk that says nothing or no chunk.
LEMMA HearsNothing ==
  ASSUME egress = "anthropic", NEW E, NEW src, NEW sp, NEW h, HeardSoFar(E, src, sp, h),
         NEW next, next.calls = sp.calls, next.parts = sp.parts, next.open = sp.open,
         NEW e, SaidBy(e) = <<>>, NEW src2, src2.next = src.next, src2.blocks = src.blocks,
         NEW chunks, AnthropicToChat(src, e) = Heard(src2, chunks),
         \/ chunks = <<>>
         \/ \E c : chunks = <<c>> /\ SaidBy(c) = <<>> /\ \A n : ChunkFits(c, n, n)
  PROVE  HeardNext(E, e, AnthropicToChat(src, e), sp, next, h)
<1>1. PICK x : x = Transcript(E)
  OBVIOUS
<1>2. Heeding(E, sp.calls, h) /\ KnowsBlocks(x, src, sp)
  BY <1>1, HeardBlocks
<1>3. Heeding(Append(E, e), sp.calls, h) /\ Transcript(Append(E, e)) = Transcript(E)
  BY <1>2, HeedSilence
<1>4. KnowsBlocks(x, src2, next)
  BY <1>2, BlocksStay
<1>5. Hearer(Append(E, e), src2, next, h)
  BY <1>1, <1>3, <1>4, HearerOfBlocks
<1>6. ChunksHeard(Append(E, e), src2, next, sp.calls, chunks, h)
  <2>1. CASE chunks = <<>>
    BY <1>5, <2>1 DEF ChunksHeard
  <2>2. ASSUME NEW c, chunks = <<c>>, SaidBy(c) = <<>>, \A n : ChunkFits(c, n, n)
        PROVE  ChunksHeard(Append(E, e), src2, next, sp.calls, chunks, h)
    BY <1>5, <2>2, SilentChunk
  <2> QED
    BY <2>1, <2>2
<1> QED
  BY <1>6 DEF HeardNext, Heard

\* So is a message started, counted and stopped.
LEMMA HearsMessage ==
  ASSUME egress = "anthropic", NEW E, NEW src, NEW sp, NEW h, HeardSoFar(E, src, sp, h),
         NEW next, next.calls = sp.calls, next.parts = sp.parts, next.open = sp.open,
         NEW e, AnthropicEvent(e),
         \/ \E tokens : e = MessageStart(tokens)
         \/ \E stop, tokens : e = MessageDelta(stop, tokens)
         \/ e = MessageStop
  PROVE  HeardNext(E, e, AnthropicToChat(src, e), sp, next, h)
<1>1. PICK src2 : src2 = Observes(src, e)
  OBVIOUS
<1>2. Source(src) /\ src.usage \in Count
  BY DEF HeardSoFar, Source
<1>3. src2.next = src.next /\ src2.blocks = src.blocks
      /\ src2.usage = ObserveAnthropic(e, src.usage)
  BY <1>1, <1>2, ObservesFacts
<1>4. CASE \E tokens : e = MessageStart(tokens)
  <2>1. PICK tokens : e = MessageStart(tokens)
    BY <1>4
  <2>2. SaidBy(e) = <<>> /\ AnthropicToChat(src, e) = Heard(src2, <<Blank>>)
    BY <1>1, <2>1, MessageStartEvents
  <2>3. SaidBy(Blank) = <<>> /\ \A n : ChunkFits(Blank, n, n)
    BY SourceChunks
  <2>4. \E c : <<Blank>> = <<c>> /\ SaidBy(c) = <<>> /\ \A n : ChunkFits(c, n, n)
    BY <2>3
  <2> QED
    BY <1>3, <2>2, <2>4, HearsNothing
<1>5. CASE \E stop, tokens : e = MessageDelta(stop, tokens)
  <2>1. PICK stop, tokens : e = MessageDelta(stop, tokens)
    BY <1>5
  <2>2. PICK c : c = EndChunk(ChatFinish(stop), TokensOf(src2.usage))
    OBVIOUS
  <2>3. SaidBy(e) = <<>> /\ AnthropicToChat(src, e) = Heard(src2, <<c>>)
    BY <1>1, <2>1, <2>2, MessageDeltaEvents
  <2>4. src2.usage \in Count
    BY <1>2, <1>3, ObservedUsage
  <2>5. TokensOf(src2.usage) \in [input : Nat, output : Nat]
    BY <2>4, CountReports
  <2>6. SaidBy(c) = <<>> /\ \A n : ChunkFits(c, n, n)
    BY <2>2, <2>5, SourceChunks DEF EndChunk
  <2>7. \E d : <<c>> = <<d>> /\ SaidBy(d) = <<>> /\ \A n : ChunkFits(d, n, n)
    BY <2>6
  <2> QED
    BY <1>3, <2>3, <2>7, HearsNothing
<1>6. CASE e = MessageStop
  <2>1. SaidBy(e) = <<>> /\ AnthropicToChat(src, e) = Heard(src2, <<>>)
    BY <1>1, <1>6, MessageStopEvents
  <2> QED
    BY <1>3, <2>1, HearsNothing
<1> QED
  BY <1>4, <1>5, <1>6

\* A block is started that is no call's,
LEMMA HearsBlock ==
  ASSUME egress = "anthropic", NEW E, NEW src, NEW sp, NEW h, HeardSoFar(E, src, sp, h),
         NEW kind \in {"thinking", "text"}, NEW call,
         NEW next, next.calls = sp.calls, next.parts = sp.parts + 1, next.open = kind,
         NEW e, e = BlockStart(sp.parts, kind, call)
  PROVE  HeardNext(E, e, AnthropicToChat(src, e), sp, next, h)
<1>1. PICK x : x = Transcript(E)
  OBVIOUS
<1>2. Heeding(E, sp.calls, h) /\ KnowsBlocks(x, src, sp) /\ Sequence(x)
  BY <1>1, HeardBlocks
<1>3. PICK s : s = Observes(src, e)
  OBVIOUS
<1>4. Source(src) /\ sp.parts \in Nat
  BY DEF HeardSoFar
<1>5. DOMAIN s = DOMAIN src /\ s.next = src.next /\ s.blocks = src.blocks
  BY <1>3, <1>4, ObservesFacts
<1>6. PICK src2 : src2 = OpensBlock(s, sp.parts, kind)
  OBVIOUS
<1>7. /\ src2.next = src.next
      /\ src2.blocks = With(src.blocks, sp.parts, [kind |-> kind, call |-> src.next])
  BY <1>4, <1>5, <1>6, OpensBlockFacts
<1>8. PICK u : u = Said("open", KindOf(kind), sp.parts, call)
  OBVIOUS
<1>9. u.act = "open" /\ u.kind # "call" /\ u.key = sp.parts
  BY <1>8 DEF Said, KindOf
<1>10. SaidBy(e) = <<u>>
  BY <1>8, BlockStartSaid
<1>11. kind # "tool_use"
  OBVIOUS
<1>12. AnthropicToChat(src, e) = Heard(src2, <<>>)
  BY <1>3, <1>6, <1>11, BlockStartEvents
<1>13. /\ Heeding(Append(E, e), sp.calls, h) /\ Transcript(Append(E, e)) = x \o <<u>>
       /\ CallsIn(x \o <<u>>) = CallsIn(x)
  BY <1>1, <1>2, <1>9, <1>10, HeedNoise
<1>14. Opened(x \o <<u>>) = Opened(x) \cup {sp.parts}
  BY <1>2, <1>9, KeysSay
<1>15. KnowsBlocks(x \o <<u>>, src2, next)
  BY <1>2, <1>4, <1>7, <1>11, <1>13, <1>14, BlockOpens
<1>16. Hearer(Append(E, e), src2, next, h)
  BY <1>13, <1>15, HearerOfBlocks
<1> QED
  BY <1>12, <1>16 DEF HeardNext, ChunksHeard, Heard

\* or that is,
LEMMA HearsCallBlock ==
  ASSUME egress = "anthropic", NEW E, NEW src, NEW sp, NEW h, HeardSoFar(E, src, sp, h),
         NEW kind, kind = "tool_use", NEW call, call # None,
         NEW next, next.calls = sp.calls + 1, next.parts = sp.parts + 1, next.open = kind,
         NEW e, e = BlockStart(sp.parts, kind, call)
  PROVE  HeardNext(E, e, AnthropicToChat(src, e), sp, next, h)
<1>1. PICK x : x = Transcript(E)
  OBVIOUS
<1>2. Heeding(E, sp.calls, h) /\ KnowsBlocks(x, src, sp) /\ Sequence(x)
  BY <1>1, HeardBlocks
<1>3. PICK n : n = sp.calls
  OBVIOUS
<1>4. PICK s : s = Observes(src, e)
  OBVIOUS
<1>5. Source(src) /\ sp.parts \in Nat /\ n \in Nat /\ src.next = n
  BY <1>2, <1>3 DEF HeardSoFar, KnowsBlocks
<1>6. DOMAIN s = DOMAIN src /\ s.next = src.next /\ s.blocks = src.blocks
  BY <1>4, <1>5, ObservesFacts
<1>7. PICK src2 : src2 = OpensCallBlock(s, sp.parts, kind)
  OBVIOUS
<1>8. /\ src2.next = src.next + 1
      /\ src2.blocks = With(src.blocks, sp.parts, [kind |-> kind, call |-> src.next])
  BY <1>5, <1>6, <1>7, OpensBlockFacts
<1>9. PICK u : u = Said("open", KindOf(kind), sp.parts, call)
  OBVIOUS
<1>10. u.act = "open" /\ u.kind = "call" /\ u.key = sp.parts /\ u.what = call
  BY <1>9 DEF Said, KindOf
<1>11. PICK v : v = Said("open", "call", n, call)
  OBVIOUS
<1>12. v.act = "open" /\ v.kind = "call" /\ v.key = n /\ u.what = v.what
  BY <1>10, <1>11 DEF Said
<1>13. PICK c : c = OpenChunk(n, call)
  OBVIOUS
<1>14. SaidBy(c) = <<v>> /\ ChunkFits(c, n, n + 1)
  BY <1>5, <1>11, <1>13, SourceParts DEF OpenChunk
<1>15. SaidBy(e) = <<u>>
  BY <1>9, BlockStartSaid
<1>16. AnthropicToChat(src, e) = Heard(src2, <<c>>)
  <2>1. AnthropicToChat(src, e)
          = Heard(OpensCallBlock(Observes(src, e), sp.parts, kind), <<OpenChunk(src.next, call)>>)
    BY <1>5, CallBlockEvents
  <2> QED
    BY <1>4, <1>5, <1>7, <1>13, <2>1
<1>17. u.key \notin Opened(x)
  BY <1>2, <1>5, <1>10 DEF KnowsBlocks
<1>18. Heeding(E, n, h)
  BY <1>2, <1>3
<1>19. /\ Heeding(Append(E, e), n + 1, h \o <<v>>)
       /\ Transcript(Append(E, e)) = x \o <<u>>
       /\ n \in Nat /\ KeyOf(x \o <<u>>, n + 1) = u.key
       /\ \A k \in 1..n : KeyOf(x \o <<u>>, k) = KeyOf(x, k)
  BY <1>1, <1>10, <1>12, <1>15, <1>17, <1>18, HeedCall
<1>20. Opened(x \o <<u>>) = Opened(x) \cup {sp.parts}
  BY <1>2, <1>10, KeysSay
<1>21. KnowsBlocks(x \o <<u>>, src2, next)
  <2>1. PICK y : y = x \o <<u>>
    OBVIOUS
  <2>2. /\ KnowsBlocks(x, src, sp) /\ sp.parts \in Nat /\ n = sp.calls /\ n \in Nat
        /\ src2.next = src.next + 1
    BY <1>2, <1>3, <1>5, <1>8
  <2>3. next.calls = n + 1 /\ next.parts = sp.parts + 1 /\ next.open = "tool_use"
    BY <1>3
  <2>4. src2.blocks = With(src.blocks, sp.parts, [kind |-> "tool_use", call |-> src.next])
    BY <1>8
  <2>5. /\ KeyOf(y, n + 1) = sp.parts /\ \A k \in 1..n : KeyOf(y, k) = KeyOf(x, k)
        /\ Opened(y) = Opened(x) \cup {sp.parts}
    BY <1>10, <1>19, <1>20, <2>1
  <2>6. KnowsBlocks(y, src2, next)
    BY <2>2, <2>3, <2>4, <2>5, CallBlockOpens
  <2> QED
    BY <2>1, <2>6
<1>22. Hearer(Append(E, e), src2, next, h \o <<v>>)
  <2>1. Heeding(Append(E, e), next.calls, h \o <<v>>)
    BY <1>3, <1>19
  <2> QED
    BY <1>19, <1>21, <2>1, HearerOfBlocks
<1>23. ChunksHeard(Append(E, e), src2, next, n, <<c>>, h)
  <2>1. ChunkFits(c, n, next.calls)
    BY <1>3, <1>14
  <2> QED
    BY <1>14, <1>22, <2>1, SpokenChunk
<1> QED
  BY <1>3, <1>16, <1>23 DEF HeardNext, Heard

\* it is spoken in,
LEMMA HearsBlockPiece ==
  ASSUME egress = "anthropic", NEW E, NEW src, NEW sp, NEW h, HeardSoFar(E, src, sp, h),
         sp.open # None, NEW index, index = sp.parts - 1, NEW piece, piece # None,
         NEW next, next.calls = sp.calls, next.parts = sp.parts, next.open = sp.open,
         NEW e, e = BlockDelta(index, sp.open, piece)
  PROVE  HeardNext(E, e, AnthropicToChat(src, e), sp, next, h)
<1>1. PICK x : x = Transcript(E)
  OBVIOUS
<1>2. Heeding(E, sp.calls, h) /\ KnowsBlocks(x, src, sp) /\ Sequence(x)
  BY <1>1, HeardBlocks
<1>3. PICK n : n = sp.calls
  OBVIOUS
<1>4. Source(src) /\ sp.parts \in Nat /\ n \in Nat /\ Heeding(E, n, h)
  BY <1>2, <1>3 DEF HeardSoFar
<1>5. PICK kind : kind = sp.open
  OBVIOUS
<1>6. index \in DOMAIN src.blocks /\ src.blocks[index].kind = kind
  BY <1>2, <1>4, <1>5 DEF KnowsBlocks
<1>7. kind \in BlockKinds
  BY <1>4, <1>6 DEF Source
<1>8. PICK src2 : src2 = Observes(src, e)
  OBVIOUS
<1>9. src2.next = src.next /\ src2.blocks = src.blocks
  BY <1>4, <1>8, ObservesFacts
<1>10. PICK c : c = BlockChunk(src.blocks[index], piece)
  OBVIOUS
<1>11. AnthropicToChat(src, e) = Heard(src2, <<c>>)
  BY <1>4, <1>6, <1>8, <1>10, BlockDeltaEvents
<1>12. PICK u : u = Said("piece", KindOf(kind), index, piece)
  OBVIOUS
<1>13. SaidBy(e) = <<u>>
  <2>1. e = BlockDelta(index, kind, piece)
    BY <1>5
  <2> QED
    BY <1>12, <2>1, BlockDeltaSaid
<1>14. u.act = "piece" /\ u.kind = KindOf(kind) /\ u.key = index /\ u.what = piece
  BY <1>12 DEF Said
<1>15. \E v : /\ Heeding(Append(E, e), n, h \o <<v>>) /\ Transcript(Append(E, e)) = x \o <<u>>
              /\ CallsIn(x \o <<u>>) = CallsIn(x)
              /\ SaidBy(c) = <<v>> /\ ChunkFits(c, n, n)
  <2>1. ASSUME kind \in {"thinking", "text"}
        PROVE  \E v : /\ Heeding(Append(E, e), n, h \o <<v>>)
                      /\ Transcript(Append(E, e)) = x \o <<u>>
                      /\ CallsIn(x \o <<u>>) = CallsIn(x)
                      /\ SaidBy(c) = <<v>> /\ ChunkFits(c, n, n)
    <3>1. PICK v : v = Said("piece", KindOf(kind), None, piece)
      OBVIOUS
    <3>2. /\ u.act = "piece" /\ v.act = "piece" /\ u.kind = v.kind /\ u.what = v.what
          /\ u.kind \in {"thought", "text"}
      BY <1>14, <2>1, <3>1 DEF Said, KindOf
    <3>3. /\ Heeding(Append(E, e), n, h \o <<v>>) /\ Transcript(Append(E, e)) = x \o <<u>>
          /\ CallsIn(x \o <<u>>) = CallsIn(x)
      BY <1>1, <1>4, <1>13, <3>2, HeedPiece, SMTT(30)
    <3>4. SaidBy(c) = <<v>> /\ ChunkFits(c, n, n)
      <4>1. CASE kind = "thinking"
        <5>1. c = ThoughtChunk(piece)
          BY <1>6, <1>10, <4>1 DEF BlockChunk
        <5>2. v = Said("piece", "thought", None, piece)
          BY <3>1, <4>1 DEF KindOf
        <5> QED
          BY <5>1, <5>2, SourceChunks DEF ThoughtChunk
      <4>2. CASE kind = "text"
        <5>1. c = TextChunk(piece)
          BY <1>6, <1>10, <4>2 DEF BlockChunk
        <5>2. v = Said("piece", "text", None, piece)
          BY <3>1, <4>2 DEF KindOf
        <5> QED
          BY <5>1, <5>2, SourceChunks DEF TextChunk
      <4> QED
        BY <2>1, <4>1, <4>2
    <3> QED
      BY <3>3, <3>4
  <2>2. ASSUME kind = "tool_use"
        PROVE  \E v : /\ Heeding(Append(E, e), n, h \o <<v>>)
                      /\ Transcript(Append(E, e)) = x \o <<u>>
                      /\ CallsIn(x \o <<u>>) = CallsIn(x)
                      /\ SaidBy(c) = <<v>> /\ ChunkFits(c, n, n)
    <3>1. PICK k \in 1..n : KeyOf(x, k) = index
      BY <1>2, <1>3, <1>6, <2>2 DEF KnowsBlocks
    <3>2. src.blocks[index].call = k - 1
      BY <1>2, <1>3, <3>1 DEF KnowsBlocks
    <3>3. PICK i : i = k - 1
      OBVIOUS
    <3>4. i \in 0..(n - 1)
      BY <1>4, <3>1, <3>3
    <3>5. PICK v : v = Said("piece", "call", i, piece)
      OBVIOUS
    <3>6. /\ u.act = "piece" /\ v.act = "piece" /\ u.kind = "call" /\ v.kind = "call"
          /\ u.what = v.what /\ u.key = KeyOf(x, k) /\ v.key = k - 1
      BY <1>14, <2>2, <3>1, <3>3, <3>5 DEF Said, KindOf
    <3>7. /\ Heeding(Append(E, e), n, h \o <<v>>) /\ Transcript(Append(E, e)) = x \o <<u>>
          /\ CallsIn(x \o <<u>>) = CallsIn(x) /\ Opened(x \o <<u>>) = Opened(x)
      BY <1>1, <1>4, <1>13, <3>1, <3>6, HeedArgs
    <3>8. c = ArgsChunk(i, piece)
      BY <1>6, <1>10, <2>2, <3>2, <3>3 DEF BlockChunk
    <3>9. SaidBy(c) = <<v>> /\ ChunkFits(c, n, n)
      BY <1>4, <3>4, <3>5, <3>8, SourceParts DEF ArgsChunk
    <3> QED
      BY <3>7, <3>9
  <2> QED
    BY <1>7, <2>1, <2>2 DEF BlockKinds
<1>16. PICK v : /\ Heeding(Append(E, e), n, h \o <<v>>)
                /\ Transcript(Append(E, e)) = x \o <<u>>
                /\ CallsIn(x \o <<u>>) = CallsIn(x)
                /\ SaidBy(c) = <<v>> /\ ChunkFits(c, n, n)
  BY <1>15
<1>17. Opened(x \o <<u>>) = Opened(x)
  BY <1>2, <1>14, KeysSay
<1>18. KnowsBlocks(x \o <<u>>, src2, next)
  BY <1>2, <1>9, <1>16, <1>17, BlocksStay
<1>19. Hearer(Append(E, e), src2, next, h \o <<v>>)
  <2>1. Heeding(Append(E, e), next.calls, h \o <<v>>)
    BY <1>3, <1>16
  <2> QED
    BY <1>16, <1>18, <2>1, HearerOfBlocks
<1>20. ChunksHeard(Append(E, e), src2, next, n, <<c>>, h)
  <2>1. ChunkFits(c, n, next.calls)
    BY <1>3, <1>16
  <2> QED
    BY <1>16, <1>19, <2>1, SpokenChunk
<1> QED
  BY <1>3, <1>11, <1>20 DEF HeardNext, Heard

\* and it is stopped.
LEMMA HearsBlockStop ==
  ASSUME egress = "anthropic", NEW E, NEW src, NEW sp, NEW h, HeardSoFar(E, src, sp, h),
         NEW next, next.calls = sp.calls, next.parts = sp.parts, next.open = None,
         NEW index, NEW e, e = BlockStop(index)
  PROVE  HeardNext(E, e, AnthropicToChat(src, e), sp, next, h)
<1>1. PICK x : x = Transcript(E)
  OBVIOUS
<1>2. Heeding(E, sp.calls, h) /\ KnowsBlocks(x, src, sp) /\ Sequence(x)
  BY <1>1, HeardBlocks
<1>3. PICK src2 : src2 = Observes(src, e)
  OBVIOUS
<1>4. src2.next = src.next /\ src2.blocks = src.blocks
  BY <1>3, ObservesFacts DEF HeardSoFar
<1>5. PICK u : u = Said("close", None, index, None)
  OBVIOUS
<1>6. u.act = "close"
  BY <1>5 DEF Said
<1>7. SaidBy(e) = <<u>> /\ AnthropicToChat(src, e) = Heard(src2, <<>>)
  BY <1>3, <1>5, BlockStopEvents
<1>8. /\ Heeding(Append(E, e), sp.calls, h) /\ Transcript(Append(E, e)) = x \o <<u>>
      /\ CallsIn(x \o <<u>>) = CallsIn(x)
  BY <1>1, <1>2, <1>6, <1>7, HeedNoise
<1>9. Opened(x \o <<u>>) = Opened(x)
  BY <1>2, <1>6, KeysSay
<1>10. KnowsBlocks(x \o <<u>>, src2, next)
  BY <1>2, <1>4, <1>8, <1>9, BlocksStay
<1>11. Hearer(Append(E, e), src2, next, h)
  BY <1>8, <1>10, HearerOfBlocks
<1> QED
  BY <1>7, <1>11 DEF HeardNext, ChunksHeard, Heard

-----------------------------------------------------------------------------
(* What the relay hears of a Chat provider: the chunks themselves.         *)

\* A transcript agrees with itself.
LEMMA AgreesWithItself ==
  ASSUME NEW x, Well(x)
  PROVE  Agrees(x, x, TRUE)
<1>1. \A k \in 1..Len(CallsIn(x)) : SameCall(x, k, x)
  BY DEF SameCall
<1> QED
  BY <1>1 DEF Agrees

\* A chunk whose parts fit.
LEMMA HearsChunk ==
  ASSUME egress = "chat", NEW E, NEW src, NEW sp, NEW h, Hearer(E, src, sp, h),
         NEW next, NEW c, ChunkFits(c, sp.calls, next.calls)
  PROVE  ChunksHeard(Append(E, c), src, next, sp.calls, <<c>>, h)
<1>1. PICK counts : /\ PartsFit(c.calls, counts) /\ counts[0] = sp.calls
                    /\ counts[Len(c.calls)] = next.calls
  BY DEF ChunkFits
<1>2. Chunk(c) /\ c.type = "chunk" /\ Sequence(c.calls)
  BY <1>1 DEF ChunkFits, Chunk, PartsFit
<1>3. Heeding(E, sp.calls, h) /\ Transcript(E) = h
  BY DEF Hearer
<1>4. Sayings(E) /\ Heeds(h, counts[0]) /\ Sequence(h)
  BY <1>1, <1>3 DEF Heeding, Heeds, Well
<1>5. Len(c.calls) \in Nat
  BY <1>2, SequenceFacts
<1>6. Len(c.calls) \in 0..Len(c.calls)
  BY <1>5
<1>7. Heeds(Hears(h, c, Len(c.calls)), counts[Len(c.calls)])
  BY <1>1, <1>2, <1>4, <1>6, HeedsChunk
<1>8. h \o SaidBy(c) = Hears(h, c, Len(c.calls))
  BY <1>2, <1>4, HearsAll
<1>9. Sequence(SaidBy(c))
  BY <1>2, ChunkSays
<1>10. PICK y : y = h \o SaidBy(c)
  OBVIOUS
<1>11. Heeds(y, next.calls)
  BY <1>1, <1>7, <1>8, <1>10
<1>12. Sayings(Append(E, c)) /\ Transcript(Append(E, c)) = y
  BY <1>3, <1>4, <1>9, <1>10, TranscriptMore
<1>13. Agrees(y, y, TRUE)
  BY <1>11, AgreesWithItself DEF Heeds
<1>14. Heeding(Append(E, c), next.calls, y)
  BY <1>11, <1>12, <1>13 DEF Heeding
<1>15. Hearer(Append(E, c), src, next, y)
  BY <1>12, <1>14 DEF Hearer
<1> QED
  BY <1>10, <1>15 DEF ChunksHeard

-----------------------------------------------------------------------------
(* What is said next is heard.                                             *)

\* Whatever has been heard of the provider so far.
Hearable(e, next) ==
  \A h : HeardSoFar(received, source, speech, h) =>
           HeardNext(received, e, HearProvider(e), speech, next, h)

\* What is told apart is not absent.
LEMMA NotAbsent ==
  ASSUME Types
  PROVE  /\ Piece("thought") # None /\ Piece("text") # None /\ Piece("args") # None
         /\ Piece("piece") # None /\ \A n \in Nat : Name(n) # None
<1>1. Len(received) + 1 \in Nat
  <2>1. Len(received) \in Nat
    BY SequenceFacts DEF Types
  <2> QED
    BY <2>1
<1>2. \A field \in {"thought", "text", "args", "piece"} :
        <<Len(received) + 1, field>> \in Nat \X {"thought", "text", "args", "piece"}
  BY <1>1
<1>3. \A n \in Nat : <<"call", n>> \in {"call"} \X Nat
  OBVIOUS
<1> QED
  BY <1>2, <1>3, NoneAssumption DEF Piece, Name

\* The parts a Chat provider sends fit:
LEMMA NewPartsFit ==
  ASSUME Types, NEW new \in Nat, NEW calls \in NewParts(new)
  PROVE  \E counts : /\ PartsFit(calls, counts) /\ counts[0] = speech.calls
                     /\ counts[Len(calls)] = speech.calls + new
<1>1. speech.calls \in Nat
  BY PairsAssumption DEF Types, Speech
<1>2. PICK args : calls = [k \in 1..new |->
                   CallPart(speech.calls + k - 1, Name(speech.calls + k - 1), args)]
  BY DEF NewParts
<1>3. calls = [k \in 1..new |-> calls[k]]
  BY <1>2
<1>4. Sequence(calls) /\ Len(calls) = new /\ DOMAIN calls = 1..new
  BY <1>3, Numbered
<1> DEFINE counts == [j \in Nat |-> speech.calls + j]
<1>5. \A j \in Nat : counts[j] = speech.calls + j
  OBVIOUS
<1> HIDE DEF counts
<1>6. ASSUME NEW j \in 1..new
      PROVE  Fits(calls[j], counts[j - 1], counts[j])
  <2>1. j \in Nat /\ j - 1 \in Nat
    OBVIOUS
  <2>2. counts[j - 1] = speech.calls + j - 1 /\ counts[j] = speech.calls + j
    BY <1>1, <1>5, <2>1
  <2>3. calls[j] = CallPart(speech.calls + j - 1, Name(speech.calls + j - 1), args)
    BY <1>2
  <2>4. /\ calls[j].index = speech.calls + j - 1
        /\ calls[j].call = Name(speech.calls + j - 1)
    BY <2>3 DEF CallPart
  <2>5. speech.calls + j - 1 \in Nat
    BY <1>1
  <2>6. calls[j].call # None
    BY <2>4, <2>5, NotAbsent
  <2>7. calls[j].index = counts[j - 1] /\ counts[j] = counts[j - 1] + 1
    BY <1>1, <2>2, <2>4
  <2> QED
    BY <2>6, <2>7 DEF Fits
<1>7. PartsFit(calls, counts)
  BY <1>4, <1>6 DEF PartsFit
<1>8. counts[0] = speech.calls /\ counts[Len(calls)] = speech.calls + new
  BY <1>1, <1>4, <1>5
<1> QED
  BY <1>7, <1>8

\* calls that are new, and a piece of one that is not.
LEMMA ChatPartsFit ==
  ASSUME Types, NEW new \in Nat,
         NEW calls \in IF new = 0 THEN {<<>>} \cup OldParts ELSE NewParts(new),
         NEW c, Chunk(c), c.calls = calls
  PROVE  ChunkFits(c, speech.calls, speech.calls + new)
<1>1. speech.calls \in Nat
  BY PairsAssumption DEF Types, Speech
<1>2. CASE new # 0
  <2>1. calls \in NewParts(new)
    BY <1>2
  <2>2. \E counts : /\ PartsFit(calls, counts) /\ counts[0] = speech.calls
                    /\ counts[Len(calls)] = speech.calls + new
    BY <2>1, NewPartsFit
  <2> QED
    BY <2>2 DEF ChunkFits
<1>3. CASE new = 0
  <2>1. speech.calls + new = speech.calls
    BY <1>1, <1>3
  <2>2. CASE calls = <<>>
    <3>1. ChunkFits(c, speech.calls, speech.calls)
      BY <2>2, NoPartFits
    <3> QED
      BY <2>1, <3>1
  <2>3. CASE calls \in OldParts
    <3>1. PICK i \in 0..(speech.calls - 1) : calls = <<CallPart(i, None, Piece("args"))>>
      BY <2>3 DEF OldParts
    <3>2. PICK part : part = CallPart(i, None, Piece("args"))
      OBVIOUS
    <3>3. part.call = None /\ part.index = i
      BY <3>2 DEF CallPart
    <3>4. Fits(part, speech.calls, speech.calls)
      BY <3>3 DEF Fits
    <3>5. c.calls = <<part>>
      BY <3>1, <3>2
    <3>6. ChunkFits(c, speech.calls, speech.calls)
      BY <3>4, <3>5, OnePartFits
    <3> QED
      BY <2>1, <3>6
  <2> QED
    BY <1>3, <2>2, <2>3
<1> QED
  BY <1>2, <1>3

\* A Chat provider's chunk is heard as it is,
LEMMA ChatHearable ==
  ASSUME egress = "chat", NEW e, NEW next, ChunkFits(e, speech.calls, next.calls)
  PROVE  Hearable(e, next)
<1> SUFFICES ASSUME NEW h, HeardSoFar(received, source, speech, h)
             PROVE  HeardNext(received, e, HearProvider(e), speech, next, h)
  BY DEF Hearable
<1>1. Hearer(received, source, speech, h)
  BY DEF HeardSoFar
<1>2. ChunksHeard(Append(received, e), source, next, speech.calls, <<e>>, h)
  BY <1>1, HearsChunk
<1>3. HearProvider(e).source = source /\ HearProvider(e).chunks = <<e>>
  BY DEF HearProvider, Heard
<1> QED
  BY <1>2, <1>3 DEF HeardNext

\* an item's event as its source has it,
LEMMA ItemHearable ==
  ASSUME egress = "responses", NEW e, NEW next,
         \A h : HeardSoFar(received, source, speech, h) =>
                  HeardNext(received, e, ResponsesToChat(source, e), speech, next, h)
  PROVE  Hearable(e, next)
<1>1. HearProvider(e) = ResponsesToChat(source, e)
  BY DEF HearProvider
<1> QED
  BY <1>1 DEF Hearable

\* and a block's.
LEMMA BlockHearable ==
  ASSUME egress = "anthropic", NEW e, NEW next,
         \A h : HeardSoFar(received, source, speech, h) =>
                  HeardNext(received, e, AnthropicToChat(source, e), speech, next, h)
  PROVE  Hearable(e, next)
<1>1. HearProvider(e) = AnthropicToChat(source, e)
  BY DEF HearProvider
<1> QED
  BY <1>1 DEF Hearable

-----------------------------------------------------------------------------
(* Every action of the provider says what may follow and is heard.         *)
Utters(e, next) ==
  Follows(e, next) /\ Say(e, next) /\ (Speaks(e) => Hearable(e, next))

\* A Chat provider goes on,
LEMMA SayChatUtters ==
  ASSUME Types, SayChat
  PROVE  \E e, next : Utters(e, next)
<1>1. Types /\ Speech(speech)
  BY DEF Types
<1>2. PICK thought, text, new, calls :
        /\ new \in 0..(MaxCalls - speech.calls)
        /\ calls \in IF new = 0 THEN {<<>>} \cup OldParts ELSE NewParts(new)
        /\ Say([Blank EXCEPT !.thought = thought, !.text = text, !.calls = calls,
                             !.usage = IF nulls THEN Null ELSE None],
               [speech EXCEPT !.calls = @ + new])
  BY DEF SayChat
<1> DEFINE e == [Blank EXCEPT !.thought = thought, !.text = text, !.calls = calls,
                              !.usage = IF nulls THEN Null ELSE None]
           next == [speech EXCEPT !.calls = @ + new]
<1>3. egress = "chat" /\ ~speech.ended
  BY DEF SayChat, MayGoOn
<1>4. \E n \in Nat : DOMAIN calls = 1..n
  <2>1. CASE new = 0
    <3>1. calls = <<>> \/ \E x : calls = <<x>>
      BY <1>2, <2>1 DEF OldParts
    <3>2. DOMAIN <<>> = 1..0 /\ 0 \in Nat /\ \A x : DOMAIN <<x>> = 1..1 /\ 1 \in Nat
      OBVIOUS
    <3> QED
      BY <3>1, <3>2
  <2>2. CASE new # 0
    <3>1. calls \in NewParts(new)
      BY <1>2, <2>2
    <3>2. DOMAIN calls = 1..new
      BY <3>1 DEF NewParts
    <3>3. new \in Nat
      BY <1>2, <1>1, PairsAssumption DEF Speech
    <3> QED
      BY <3>2, <3>3
  <2> QED
    BY <2>1, <2>2
<1>5. Chunk(e) /\ e.usage \in {None, Null} /\ e.calls = calls
  BY <1>4 DEF Chunk, Blank
<1>6. /\ Speech(next) /\ next.begun = speech.begun /\ next.ended = speech.ended
      /\ next.calls = speech.calls + new /\ new \in Nat
  BY <1>1, <1>2, PairsAssumption DEF Speech
<1>7. Say(e, next)
  BY <1>2
<1> HIDE DEF e, next
<1>8. Follows(e, next)
  BY <1>3, <1>5, <1>6 DEF Follows, Speaks, Reports
<1>9. ChunkFits(e, speech.calls, speech.calls + new)
  BY <1>1, <1>2, <1>5, <1>6, ChatPartsFit
<1>10. ChunkFits(e, speech.calls, next.calls)
  BY <1>9, <1>6
<1>11. Hearable(e, next)
  BY <1>3, <1>10, ChatHearable
<1> QED
  BY <1>7, <1>8, <1>11 DEF Utters

\* finishes, counts and ends.
LEMMA EndsChatUtters ==
  ASSUME Types, FinishChat \/ CountChat \/ EndChat
  PROVE  \E e, next : Utters(e, next)
<1>1. Types /\ Speech(speech)
  BY DEF Types
<1>2. DOMAIN <<>> = 1..0 /\ 0 \in Nat
  OBVIOUS
<1>3. CASE FinishChat
  <2>1. PICK finish \in {"stop", "length"}, tokens \in {None, Tokens(1, 1)} :
          Say([Blank EXCEPT !.finish = IF finish = "stop" /\ speech.calls > 0
                                       THEN "tool_calls" ELSE finish,
                            !.usage = IF tokens = None /\ nulls THEN Null ELSE tokens],
              [speech EXCEPT !.ended = TRUE])
    BY <1>3 DEF FinishChat
  <2> DEFINE e == [Blank EXCEPT !.finish = IF finish = "stop" /\ speech.calls > 0
                                           THEN "tool_calls" ELSE finish,
                                !.usage = IF tokens = None /\ nulls THEN Null ELSE tokens]
             next == [speech EXCEPT !.ended = TRUE]
  <2>2. egress = "chat" /\ ~speech.ended
    BY <1>3 DEF FinishChat
  <2>3. Tokens(1, 1) \in [input : Nat, output : Nat]
    BY DEF Tokens
  <2>4. Chunk(e) /\ e.calls = <<>>
    BY <1>2, <2>3 DEF Chunk, Blank
  <2>5. Speech(next) /\ next.begun = speech.begun /\ next.ended /\ next.calls = speech.calls
    BY <1>1, SpeechKept DEF Speech
  <2>6. Say(e, next)
    BY <2>1
  <2> HIDE DEF e, next
  <2>7. Follows(e, next)
    BY <2>2, <2>4, <2>5 DEF Follows, Speaks
  <2>8. ChunkFits(e, speech.calls, next.calls)
    BY <2>4, <2>5, NoPartFits
  <2>9. Hearable(e, next)
    BY <2>2, <2>8, ChatHearable
  <2> QED
    BY <2>6, <2>7, <2>9 DEF Utters
<1>4. CASE CountChat
  <2> DEFINE e == [Blank EXCEPT !.usage = Tokens(1, 2)]
  <2>1. egress = "chat" /\ speech.ended /\ Say(e, speech)
    BY <1>4 DEF CountChat
  <2>2. Tokens(1, 2) \in [input : Nat, output : Nat]
    BY DEF Tokens
  <2>3. Chunk(e) /\ e.usage = Tokens(1, 2) /\ e.calls = <<>>
    BY <1>2, <2>2 DEF Chunk, Blank
  <2> HIDE DEF e
  <2>4. e.usage # Null
    BY <2>2, <2>3, ReportedFacts
  <2>5. Follows(e, speech)
    BY <1>1, <2>1, <2>3, <2>4 DEF Follows, Speaks
  <2>6. ChunkFits(e, speech.calls, speech.calls)
    BY <2>3, NoPartFits
  <2>7. Hearable(e, speech)
    BY <2>1, <2>6, ChatHearable
  <2> QED
    BY <2>1, <2>5, <2>7 DEF Utters
<1>5. CASE EndChat
  <2>1. egress = "chat" /\ Say(Done, speech)
    BY <1>5 DEF EndChat
  <2>2. ~Speaks(Done)
    BY SilentEnds, SpeaksNoError
  <2>3. Follows(Done, speech)
    BY <1>1, <2>1, <2>2, SilentEnds DEF Follows
  <2> QED
    BY <2>1, <2>2, <2>3 DEF Utters
<1> QED
  BY <1>3, <1>4, <1>5

\* A Responses provider starts and ends,
LEMMA ResponseUtters ==
  ASSUME Types, StartResponse \/ EndResponse
  PROVE  \E e, next : Utters(e, next)
<1>1. Types /\ Speech(speech)
  BY DEF Types
<1>2. ASSUME NEW e, NEW next, egress = "responses", ResponsesEvent(e) \/ Trouble(e),
             Speech(next), speech.begun => next.begun, speech.ended => next.ended
      PROVE  Follows(e, next)
  BY <1>2 DEF Follows, Speaks
<1>3. CASE StartResponse
  <2>1. ResponsesEvent(Created)
    BY DEF ResponsesEvent, Created, ItemEvents, Endings
  <2> DEFINE next == [speech EXCEPT !.begun = TRUE]
  <2>2. /\ Speech(next) /\ next.begun /\ next.ended = speech.ended
        /\ next.calls = speech.calls /\ next.parts = speech.parts /\ next.open = speech.open
    BY <1>1, SpeechKept DEF Speech
  <2>3. egress = "responses" /\ Say(Created, next)
    BY <1>3 DEF StartResponse
  <2> HIDE DEF next
  <2>4. Follows(Created, next)
    BY <1>2, <2>1, <2>2, <2>3
  <2>5. ASSUME NEW h, HeardSoFar(received, source, speech, h)
        PROVE  HeardNext(received, Created, ResponsesToChat(source, Created), speech, next, h)
    BY <2>2, <2>3, <2>5, HearsCreated
  <2>6. Hearable(Created, next)
    BY <2>3, <2>5, ItemHearable
  <2> QED
    BY <2>3, <2>4, <2>6 DEF Utters
<1>4. CASE EndResponse
  <2> DEFINE failed == Ended("response.failed", None)
             next == [speech EXCEPT !.ended = TRUE]
  <2>1. /\ Speech(next) /\ next.begun = speech.begun /\ next.ended
        /\ next.calls = speech.calls /\ next.parts = speech.parts /\ next.open = speech.open
    BY <1>1, SpeechKept DEF Speech
  <2>2. egress = "responses"
    BY <1>4 DEF EndResponse
  <2>3. CASE \E type \in {"response.completed", "response.incomplete"} :
               Say(Ended(type, Tokens(1, 2)), next)
    <3>1. PICK type \in {"response.completed", "response.incomplete"} :
                 Say(Ended(type, Tokens(1, 2)), next)
      BY <2>3
    <3>2. Tokens(1, 2) \in [input : Nat, output : Nat]
      BY DEF Tokens
    <3>3. ResponsesEvent(Ended(type, Tokens(1, 2)))
      BY <3>2 DEF ResponsesEvent, Ended, ItemEvents, Endings
    <3> HIDE DEF next
    <3>4. PICK e : e = Ended(type, Tokens(1, 2))
      OBVIOUS
    <3>5. Follows(e, next)
      BY <1>2, <2>1, <2>2, <3>3, <3>4
    <3>6. ASSUME NEW h, HeardSoFar(received, source, speech, h)
          PROVE  HeardNext(received, e, ResponsesToChat(source, e), speech, next, h)
      BY <2>1, <2>2, <3>2, <3>4, <3>6, HearsEnded
    <3>7. Hearable(e, next)
      BY <2>2, <3>6, ItemHearable
    <3> QED
      BY <3>1, <3>4, <3>5, <3>7 DEF Utters
  <2>4. CASE Say(failed, next)
    <3>1. Trouble(failed)
      BY DEF Trouble, IsStreamError, Ended
    <3> HIDE DEF next, failed
    <3>2. Follows(failed, next)
      BY <1>2, <2>1, <2>2, <3>1
    <3>3. ~Speaks(failed)
      BY <3>1, SpeaksNoError DEF Trouble
    <3> QED
      BY <2>4, <3>2, <3>3 DEF Utters
  <2> QED
    BY <1>4, <2>3, <2>4 DEF EndResponse
<1> QED
  BY <1>3, <1>4

\* opens an item
LEMMA OpenItemUtters ==
  ASSUME Types, OpenItem
  PROVE  \E e, next : Utters(e, next)
<1>1. Types /\ Speech(speech)
  BY DEF Types
<1>2. PICK kind \in {"reasoning", "message", "function_call"} :
        /\ kind = "function_call" => speech.calls < MaxCalls
        /\ LET item == Item(kind, speech.parts) IN
           Say(ItemAdded(item, speech.parts,
                         IF kind = "function_call" THEN Name(speech.calls) ELSE None),
               [speech EXCEPT !.open = item, !.parts = @ + 1,
                              !.calls = IF kind = "function_call" THEN @ + 1 ELSE @])
  BY DEF OpenItem
<1> DEFINE item == Item(kind, speech.parts)
           call == IF kind = "function_call" THEN Name(speech.calls) ELSE None
           e == ItemAdded(item, speech.parts, call)
           next == [speech EXCEPT !.open = item, !.parts = @ + 1,
                                  !.calls = IF kind = "function_call" THEN @ + 1 ELSE @]
<1>3. egress = "responses" /\ Say(e, next)
  BY <1>2 DEF OpenItem
<1>4. /\ Speech(next) /\ next.begun = speech.begun /\ next.ended = speech.ended
      /\ next.parts = speech.parts + 1 /\ next.open = item
      /\ kind = "function_call" => next.calls = speech.calls + 1
      /\ kind # "function_call" => next.calls = speech.calls
  BY <1>1, <1>2, PairsAssumption DEF Speech
<1>5. item.kind = "function_call" => item \in [kind : {"function_call"}, n : Nat]
  BY <1>1 DEF Item, Speech
<1>6. e.type = "item.added" /\ "usage" \notin DOMAIN e /\ e.item = item
  BY DEF ItemAdded
<1>7. kind = "function_call" => call # None
  <2>1. speech.calls \in Nat
    BY <1>1, PairsAssumption DEF Speech
  <2> QED
    BY <1>1, <2>1, NotAbsent
<1> HIDE DEF next, call
<1>8. ASSUME NEW h, HeardSoFar(received, source, speech, h)
      PROVE  HeardNext(received, e, ResponsesToChat(source, e), speech, next, h)
  <2>1. CASE kind = "function_call"
    <3>1. item = Item("function_call", speech.parts)
      BY <2>1
    <3> HIDE DEF item
    <3> QED
      BY <1>3, <1>4, <1>7, <1>8, <2>1, <3>1, HearsCall
  <2>2. CASE kind # "function_call"
    <3>1. kind \in {"reasoning", "message"}
      BY <2>2
    <3>2. item = Item(kind, speech.parts)
      OBVIOUS
    <3> HIDE DEF item
    <3> QED
      BY <1>3, <1>4, <1>8, <2>2, <3>1, <3>2, HearsItem
  <2> QED
    BY <2>1, <2>2
<1> HIDE DEF e, item
<1>9. ResponsesEvent(e)
  BY <1>5, <1>6 DEF ResponsesEvent, ItemEvents, Endings
<1>10. Follows(e, next)
  BY <1>3, <1>4, <1>9 DEF Follows, Speaks
<1>11. Hearable(e, next)
  BY <1>3, <1>8, ItemHearable
<1> QED
  BY <1>3, <1>10, <1>11 DEF Utters

\* and speaks in one.
LEMMA SayItemUtters ==
  ASSUME Types, SayItem
  PROVE  \E e, next : Utters(e, next)
<1>1. Types /\ Speech(speech) /\ egress = "responses" /\ speech.open # None
  BY DEF Types, SayItem
<1> DEFINE item == speech.open
           index == speech.parts - 1
           piece == Piece("piece")
           delta == ItemDelta(item, index, piece)
           end == ItemDone(item, index, PiecesOf(item))
           next == [speech EXCEPT !.open = None]
<1>2. Say(delta, speech) \/ Say(end, next)
  BY DEF SayItem
<1>3. \A i, n, p : ResponsesEvent(ItemDelta(i, n, p))
  BY DEF ResponsesEvent, ItemDelta, ItemEvents, Endings
<1>4. \A i, n, p : ResponsesEvent(ItemDone(i, n, p))
  BY DEF ResponsesEvent, ItemDone, ItemEvents, Endings
<1>5. /\ Speech(next) /\ next.begun = speech.begun /\ next.ended = speech.ended
      /\ next.parts = speech.parts /\ next.calls = speech.calls /\ next.open = None
  BY <1>1, SpeechKept DEF Speech
<1>6. ResponsesEvent(delta) /\ ResponsesEvent(end)
  BY <1>3, <1>4
<1>7. piece # None
  BY <1>1, NotAbsent
<1> HIDE DEF next, piece, index
<1>8. ASSUME NEW h, HeardSoFar(received, source, speech, h)
      PROVE  HeardNext(received, delta, ResponsesToChat(source, delta), speech, speech, h)
  <2>1. KnowsItems(Transcript(received), source, speech)
    BY <1>1, <1>8 DEF HeardSoFar, Hearer
  <2>2. PICK kind \in ItemKinds : item = Item(kind, speech.parts - 1)
    BY <1>1, <2>1 DEF KnowsItems
  <2>3. item.kind = kind /\ (item.kind = "function_call" => item \in DOMAIN source.calls)
    BY <1>1, <2>1, <2>2 DEF KnowsItems, Item
  <2> HIDE DEF item
  <2>4. CASE kind = "function_call"
    BY <1>1, <1>7, <1>8, <2>3, <2>4, HearsCallPiece
  <2>5. CASE kind # "function_call"
    <3>1. kind \in {"reasoning", "message"}
      BY <2>5 DEF ItemKinds
    <3> QED
      BY <1>1, <1>7, <1>8, <2>3, <3>1, HearsItemPiece
  <2> QED
    BY <2>4, <2>5
<1>9. ASSUME NEW h, HeardSoFar(received, source, speech, h)
      PROVE  HeardNext(received, end, ResponsesToChat(source, end), speech, next, h)
  <2> HIDE DEF item
  <2>1. PICK pieces : pieces = PiecesOf(item)
    OBVIOUS
  <2>2. end = ItemDone(item, index, pieces)
    BY <2>1
  <2> HIDE DEF end
  <2> QED
    BY <1>1, <1>5, <1>9, <2>2, HearsItemDone
<1> HIDE DEF delta, end
<1>10. Follows(delta, speech) /\ Follows(end, next)
  BY <1>1, <1>5, <1>6 DEF Follows, Speaks
<1>11. Hearable(delta, speech) /\ Hearable(end, next)
  BY <1>1, <1>8, <1>9, ItemHearable
<1> QED
  BY <1>2, <1>10, <1>11 DEF Utters

\* An Anthropic provider starts and ends,
LEMMA MessageUtters ==
  ASSUME Types, StartMessage \/ EndMessage
  PROVE  \E e, next : Utters(e, next)
<1>1. Types /\ Speech(speech)
  BY DEF Types
<1>2. CASE StartMessage
  <2> DEFINE e == MessageStart(Tokens(1, 1))
             next == [speech EXCEPT !.begun = TRUE]
  <2>1. egress = "anthropic" /\ ~speech.begun /\ Say(e, next)
    BY <1>2 DEF StartMessage
  <2>2. /\ Speech(next) /\ next.begun /\ next.ended = speech.ended
        /\ next.calls = speech.calls /\ next.parts = speech.parts /\ next.open = speech.open
    BY <1>1, SpeechKept DEF Speech
  <2>3. e.type = "message_start" /\ "usage" \in DOMAIN e /\ e.usage = Tokens(1, 1)
    BY DEF MessageStart
  <2>4. /\ Tokens(1, 1) \in [input : Nat \cup {None}, output : Nat]
        /\ Tokens(1, 1).input \in Nat
    BY DEF Tokens
  <2>5. \E tokens : e = MessageStart(tokens)
    OBVIOUS
  <2> HIDE DEF e, next
  <2>6. AnthropicEvent(e)
    BY <2>3, <2>4 DEF AnthropicEvent, BlockEvents, TellsUsage
  <2>7. Follows(e, next)
    BY <2>1, <2>2, <2>3, <2>4, <2>6 DEF Follows, Speaks
  <2>8. ASSUME NEW h, HeardSoFar(received, source, speech, h)
        PROVE  HeardNext(received, e, AnthropicToChat(source, e), speech, next, h)
    BY <2>1, <2>2, <2>5, <2>6, <2>8, HearsMessage
  <2>9. Hearable(e, next)
    BY <2>1, <2>8, BlockHearable
  <2> QED
    BY <2>1, <2>7, <2>9 DEF Utters
<1>3. CASE EndMessage
  <2>1. egress = "anthropic" /\ speech.begun
    BY <1>3 DEF EndMessage
  <2>2. CASE speech.ended /\ Say(MessageStop, speech)
    <3>1. AnthropicEvent(MessageStop) /\ MessageStop.type = "message_stop"
      BY DEF AnthropicEvent, MessageStop, BlockEvents, TellsUsage
    <3>2. PICK e : e = MessageStop
      OBVIOUS
    <3>3. Follows(e, speech)
      BY <1>1, <2>1, <2>2, <3>1, <3>2 DEF Follows, Speaks
    <3>4. ASSUME NEW h, HeardSoFar(received, source, speech, h)
          PROVE  HeardNext(received, e, AnthropicToChat(source, e), speech, speech, h)
      BY <2>1, <3>1, <3>2, <3>4, HearsMessage
    <3>5. Hearable(e, speech)
      BY <2>1, <3>4, BlockHearable
    <3> QED
      BY <2>2, <3>2, <3>3, <3>5 DEF Utters
  <2>3. CASE /\ ~speech.ended
             /\ \E stop \in {"end_turn", "max_tokens"}, input \in {None, 2} :
                  Say(MessageDelta(IF stop = "end_turn" /\ speech.calls > 0
                                   THEN "tool_use" ELSE stop, Tokens(input, 2)),
                      [speech EXCEPT !.ended = TRUE])
    <3>1. PICK reason \in {"end_turn", "max_tokens"}, input \in {None, 2} :
            Say(MessageDelta(IF reason = "end_turn" /\ speech.calls > 0
                             THEN "tool_use" ELSE reason, Tokens(input, 2)),
                [speech EXCEPT !.ended = TRUE])
      BY <2>3
    <3> DEFINE stop == IF reason = "end_turn" /\ speech.calls > 0
                       THEN "tool_use" ELSE reason
               e == MessageDelta(stop, Tokens(input, 2))
               next == [speech EXCEPT !.ended = TRUE]
    <3>2. Say(e, next)
      BY <3>1
    <3>3. /\ Speech(next) /\ next.begun = speech.begun /\ next.ended
          /\ next.calls = speech.calls /\ next.parts = speech.parts /\ next.open = speech.open
      BY <1>1, SpeechKept DEF Speech
    <3>4. e.type = "message_delta" /\ "usage" \in DOMAIN e /\ e.usage = Tokens(input, 2)
      BY DEF MessageDelta
    <3>5. Tokens(input, 2) \in [input : Nat \cup {None}, output : Nat]
      BY <3>1 DEF Tokens
    <3>6. \E s, tokens : e = MessageDelta(s, tokens)
      OBVIOUS
    <3> HIDE DEF e, next
    <3>7. AnthropicEvent(e)
      BY <3>4, <3>5 DEF AnthropicEvent, BlockEvents
    <3>8. Follows(e, next)
      BY <2>1, <2>3, <3>3, <3>4, <3>7 DEF Follows, Speaks
    <3>9. ASSUME NEW h, HeardSoFar(received, source, speech, h)
          PROVE  HeardNext(received, e, AnthropicToChat(source, e), speech, next, h)
      BY <2>1, <3>3, <3>6, <3>7, <3>9, HearsMessage
    <3>10. Hearable(e, next)
      BY <2>1, <3>9, BlockHearable
    <3> QED
      BY <3>2, <3>8, <3>10 DEF Utters
  <2> QED
    BY <1>3, <2>2, <2>3 DEF EndMessage
<1> QED
  BY <1>2, <1>3

\* opens a block
LEMMA OpenBlockUtters ==
  ASSUME Types, OpenBlock
  PROVE  \E e, next : Utters(e, next)
<1>1. Types /\ Speech(speech)
  BY DEF Types
<1>2. PICK kind \in {"thinking", "text", "tool_use"} :
        /\ kind = "tool_use" => speech.calls < MaxCalls
        /\ Say(BlockStart(speech.parts, kind,
                          IF kind = "tool_use" THEN Name(speech.calls) ELSE None),
               [speech EXCEPT !.open = kind, !.parts = @ + 1,
                              !.calls = IF kind = "tool_use" THEN @ + 1 ELSE @])
  BY DEF OpenBlock
<1> DEFINE call == IF kind = "tool_use" THEN Name(speech.calls) ELSE None
           e == BlockStart(speech.parts, kind, call)
           next == [speech EXCEPT !.open = kind, !.parts = @ + 1,
                                  !.calls = IF kind = "tool_use" THEN @ + 1 ELSE @]
<1>3. egress = "anthropic" /\ Say(e, next)
  BY <1>2 DEF OpenBlock
<1>4. /\ Speech(next) /\ next.begun = speech.begun /\ next.ended = speech.ended
      /\ next.parts = speech.parts + 1 /\ next.open = kind
      /\ kind = "tool_use" => next.calls = speech.calls + 1
      /\ kind # "tool_use" => next.calls = speech.calls
  BY <1>1, <1>2, PairsAssumption DEF Speech
<1>5. /\ e.type = "block_start" /\ "usage" \notin DOMAIN e
      /\ e.index = speech.parts /\ e.kind = kind
  BY DEF BlockStart
<1>6. speech.parts \in Nat /\ kind \in BlockKinds
  BY <1>1 DEF Speech, BlockKinds
<1>7. kind = "tool_use" => call # None
  <2>1. speech.calls \in Nat
    BY <1>1, PairsAssumption DEF Speech
  <2> QED
    BY <1>1, <2>1, NotAbsent
<1>8. e = BlockStart(speech.parts, kind, call)
  OBVIOUS
<1> HIDE DEF next, call, e
<1>9. ASSUME NEW h, HeardSoFar(received, source, speech, h)
      PROVE  HeardNext(received, e, AnthropicToChat(source, e), speech, next, h)
  <2>1. CASE kind = "tool_use"
    BY <1>3, <1>4, <1>7, <1>8, <1>9, <2>1, HearsCallBlock
  <2>2. CASE kind # "tool_use"
    <3>1. kind \in {"thinking", "text"}
      BY <2>2
    <3> QED
      BY <1>3, <1>4, <1>8, <1>9, <2>2, <3>1, HearsBlock
  <2> QED
    BY <2>1, <2>2
<1>10. AnthropicEvent(e)
  BY <1>5, <1>6 DEF AnthropicEvent, BlockEvents, TellsUsage
<1>11. Follows(e, next)
  BY <1>3, <1>4, <1>5, <1>10 DEF Follows, Speaks
<1>12. Hearable(e, next)
  BY <1>3, <1>9, BlockHearable
<1> QED
  BY <1>3, <1>11, <1>12 DEF Utters

\* and speaks in one.
LEMMA SayBlockUtters ==
  ASSUME Types, SayBlock
  PROVE  \E e, next : Utters(e, next)
<1>1. Types /\ Speech(speech) /\ egress = "anthropic" /\ speech.open # None
  BY DEF Types, SayBlock
<1> DEFINE index == speech.parts - 1
           piece == Piece("piece")
           delta == BlockDelta(index, speech.open, piece)
           stop == BlockStop(index)
           next == [speech EXCEPT !.open = None]
<1>2. Say(delta, speech) \/ Say(stop, next)
  BY DEF SayBlock
<1>3. /\ Speech(next) /\ next.begun = speech.begun /\ next.ended = speech.ended
      /\ next.parts = speech.parts /\ next.calls = speech.calls /\ next.open = None
  BY <1>1, SpeechKept DEF Speech
<1>4. /\ AnthropicEvent(delta) /\ AnthropicEvent(stop)
      /\ delta.type = "block_delta" /\ stop.type = "block_stop"
  BY DEF AnthropicEvent, BlockEvents, TellsUsage, BlockDelta, BlockStop
<1>5. piece # None /\ index = speech.parts - 1
  BY <1>1, NotAbsent
<1>6. delta = BlockDelta(index, speech.open, piece) /\ stop = BlockStop(index)
  OBVIOUS
<1> HIDE DEF next, piece, index, delta, stop
<1>7. ASSUME NEW h, HeardSoFar(received, source, speech, h)
      PROVE  HeardNext(received, delta, AnthropicToChat(source, delta), speech, speech, h)
  BY <1>1, <1>5, <1>6, <1>7, HearsBlockPiece
<1>8. ASSUME NEW h, HeardSoFar(received, source, speech, h)
      PROVE  HeardNext(received, stop, AnthropicToChat(source, stop), speech, next, h)
  BY <1>1, <1>3, <1>6, <1>8, HearsBlockStop
<1>9. Follows(delta, speech) /\ Follows(stop, next)
  BY <1>1, <1>3, <1>4 DEF Follows, Speaks
<1>10. Hearable(delta, speech) /\ Hearable(stop, next)
  BY <1>1, <1>7, <1>8, BlockHearable
<1> QED
  BY <1>2, <1>9, <1>10 DEF Utters

\* Any of them may fail; nothing else is said.
LEMMA AllUtter ==
  ASSUME Types, Next
  PROVE  Cut \/ \E e, next : Utters(e, next)
<1>1. CASE SayError
  <2>1. Say([type |-> "error"], speech) /\ Speech(speech)
    BY <1>1 DEF SayError, Types
  <2>2. Trouble([type |-> "error"]) /\ [type |-> "error"].type = "error"
    BY DEF Trouble, IsStreamError
  <2>3. ~Speaks([type |-> "error"])
    BY <2>2, SpeaksNoError DEF Trouble
  <2>4. Follows([type |-> "error"], speech)
    BY <2>1, <2>2, <2>3, SilentEnds DEF Follows
  <2> QED
    BY <2>1, <2>3, <2>4 DEF Utters
<1>2. CASE SayChat \/ FinishChat \/ CountChat \/ EndChat
  BY <1>2, SayChatUtters, EndsChatUtters
<1>3. CASE StartResponse \/ OpenItem \/ SayItem \/ EndResponse
  BY <1>3, ResponseUtters, OpenItemUtters, SayItemUtters
<1>4. CASE StartMessage \/ OpenBlock \/ SayBlock \/ EndMessage
  BY <1>4, MessageUtters, OpenBlockUtters, SayBlockUtters
<1> QED
  BY <1>1, <1>2, <1>3, <1>4 DEF Next

-----------------------------------------------------------------------------
(* The end of a stream.                                                    *)

\* The calls are closed in their order.
LEMMA SortedIs ==
  ASSUME NEW n \in Nat, NEW S, S = 0..(n - 1)
  PROVE  DOMAIN Sorted(S) = 1..n /\ \A k \in 1..n : Sorted(S)[k] = k - 1
<1>1. \A a \in Nat : Cardinality(0..(a - 1)) = a
  <2> TAKE a \in Nat
  <2>1. 0 \in Int /\ a - 1 \in Int
    OBVIOUS
  <2>2. Cardinality(0..(a - 1)) = IF 0 > a - 1 THEN 0 ELSE (a - 1) - 0 + 1
    BY <2>1, FS_Interval
  <2> QED
    BY <2>2
<1>2. Cardinality(S) = n
  BY <1>1
<1>3. \A i \in S : Cardinality({j \in S : j < i}) = i
  <2> TAKE i \in S
  <2>1. {j \in S : j < i} = 0..(i - 1) /\ i \in Nat
    OBVIOUS
  <2> QED
    BY <1>1, <2>1
<1>4. ASSUME NEW k \in 1..n
      PROVE  (CHOOSE i \in S : Cardinality({j \in S : j < i}) = k - 1) = k - 1
  <2>1. k - 1 \in S /\ Cardinality({j \in S : j < k - 1}) = k - 1
    BY <1>3
  <2>2. \A i \in S : Cardinality({j \in S : j < i}) = k - 1 => i = k - 1
    BY <1>3
  <2> QED
    BY <2>1, <2>2
<1> QED
  BY <1>2, <1>4 DEF Sorted

\* Frames that each close what is open,
Shuts(w, x) ==
  /\ Sequence(w)
  /\ \A k \in 1..Len(w) :
       w[k].act = "close" /\ w[k].key \in Opened(x) /\ w[k].key \notin Closed(x)
  /\ \A k, l \in 1..Len(w) : w[k].key = w[l].key => k = l

\* leave what is read as it is,
LEMMA ShutReads ==
  ASSUME NEW x, Sequence(x), NEW w, Shuts(w, x), NEW by \in Ways, NEW of
  PROVE  ReadOf(by, of, x \o w) = ReadOf(by, of, x)
<1>1. Sequence(w) /\ DOMAIN w = 1..Len(w)
  BY SequenceFacts DEF Shuts
<1>2. \A k \in DOMAIN w : Reads(by, of, w[k]) = <<>>
  BY <1>1 DEF Shuts, Reads, Ways
<1>3. ReadOf(by, of, w) = <<>>
  BY <1>1, <1>2, ReadNothing
<1>4. ReadOf(by, of, x \o w) = ReadOf(by, of, x) \o ReadOf(by, of, w)
  BY <1>1, ReadJoined
<1>5. Sequence(ReadOf(by, of, x))
  BY ReadSequence
<1> QED
  BY <1>3, <1>4, <1>5, NothingBefore

\* open nothing and close that,
LEMMA ShutKeys ==
  ASSUME NEW x, Sequence(x), NEW w, Shuts(w, x)
  PROVE  /\ Opened(x \o w) = Opened(x)
         /\ Closed(x \o w) = Closed(x) \cup {w[k].key : k \in 1..Len(w)}
<1>1. Sequence(w) /\ Len(w) \in Nat /\ DOMAIN w = 1..Len(w)
  BY SequenceFacts DEF Shuts
<1>2. Len(x) \in Nat /\ DOMAIN x = 1..Len(x)
  BY SequenceFacts
<1> DEFINE y == x \o w
<1>3. /\ Sequence(y) /\ Len(y) = Len(x) + Len(w)
      /\ \A k \in 1..(Len(x) + Len(w)) : y[k] = IF k <= Len(x) THEN x[k] ELSE w[k - Len(x)]
  BY <1>1, Joined
<1>4. DOMAIN y = 1..(Len(x) + Len(w))
  BY <1>3, SequenceFacts
<1> HIDE DEF y
<1>5. \A k \in 1..Len(w) : w[k].act = "close"
  BY DEF Shuts
<1>6. \A k \in 1..Len(x) : k \in DOMAIN y /\ y[k] = x[k]
  BY <1>1, <1>2, <1>3, <1>4
<1>7. \A k \in 1..Len(w) : Len(x) + k \in DOMAIN y /\ y[Len(x) + k] = w[k]
  BY <1>1, <1>2, <1>3, <1>4, SMTT(30)
<1>8. \A k \in DOMAIN y : k \in 1..Len(x) \/ \E l \in 1..Len(w) : k = Len(x) + l
  <2> TAKE k \in DOMAIN y
  <2>1. k \in Int /\ 1 <= k /\ k <= Len(x) + Len(w)
    BY <1>1, <1>2, <1>4
  <2>2. CASE k > Len(x)
    <3>1. k - Len(x) \in 1..Len(w) /\ k = Len(x) + (k - Len(x))
      BY <1>1, <1>2, <2>1, <2>2
    <3> QED
      BY <3>1
  <2> QED
    BY <1>2, <2>1, <2>2
<1>9. \A k \in DOMAIN y : k \notin 1..Len(x) => y[k].act = "close"
  BY <1>5, <1>7, <1>8
<1>10. Opened(y) = Opened(x)
  BY <1>2, <1>6, <1>9 DEF Opened, KeysIn
<1>11. Closed(y) \subseteq Closed(x) \cup {w[k].key : k \in 1..Len(w)}
  BY <1>2, <1>6, <1>7, <1>8 DEF Closed, KeysIn
<1>12. Closed(x) \subseteq Closed(y)
  BY <1>2, <1>6 DEF Closed, KeysIn
<1>13. {w[k].key : k \in 1..Len(w)} \subseteq Closed(y)
  BY <1>5, <1>7 DEF Closed, KeysIn
<1> QED
  BY <1>10, <1>11, <1>12, <1>13 DEF y

\* and keep it framed.
LEMMA ShutFramed ==
  ASSUME NEW x, Sequence(x), Framed(x, FALSE), NEW w, Shuts(w, x)
  PROVE  Framed(x \o w, FALSE)
<1>1. Sequence(w) /\ Len(w) \in Nat /\ DOMAIN w = 1..Len(w)
  BY SequenceFacts DEF Shuts
<1>2. Len(x) \in Nat /\ DOMAIN x = 1..Len(x)
  BY SequenceFacts
<1> DEFINE y == x \o w
<1>3. /\ Sequence(y) /\ Len(y) = Len(x) + Len(w)
      /\ \A k \in 1..(Len(x) + Len(w)) : y[k] = IF k <= Len(x) THEN x[k] ELSE w[k - Len(x)]
  BY <1>1, Joined
<1>4. DOMAIN y = 1..(Len(x) + Len(w))
  BY <1>3, SequenceFacts
<1> HIDE DEF y
<1>5. SUFFICES ASSUME NEW i \in DOMAIN y
               PROVE  \/ y[i].act = "open" /\ Unopened(y, i)
                      \/ y[i].act # "open" /\ ~Unopened(y, i) /\ Unclosed(y, i)
  BY DEF Framed, y
<1>6. i \in Int /\ 1 <= i /\ i <= Len(x) + Len(w)
  BY <1>1, <1>2, <1>4, <1>5
<1>7. \A k \in 1..Len(x) : y[k] = x[k]
  BY <1>1, <1>2, <1>3
<1>8. CASE i <= Len(x)
  <2>1. i \in DOMAIN x /\ \A j \in 1..i : y[j] = x[j]
    BY <1>2, <1>6, <1>7, <1>8
  <2>2. \/ x[i].act = "open" /\ Unopened(x, i)
        \/ x[i].act # "open" /\ ~Unopened(x, i) /\ Unclosed(x, i)
    BY <2>1 DEF Framed
  <2>3. (\A j \in 1..(i - 1) : y[j] = x[j]) /\ y[i] = x[i]
    BY <1>6, <2>1
  <2>4. (Unopened(y, i) <=> Unopened(x, i)) /\ (Unclosed(y, i) <=> Unclosed(x, i))
    BY <2>3 DEF Unopened, Unclosed
  <2> QED
    BY <2>2, <2>3, <2>4
<1>9. CASE i > Len(x)
  <2> DEFINE m == i - Len(x)
  <2>1. m \in 1..Len(w) /\ y[i] = w[m]
    BY <1>1, <1>2, <1>3, <1>6, <1>9
  <2>2. /\ y[i].act = "close" /\ y[i].key \in Opened(x) /\ y[i].key \notin Closed(x)
        /\ \A l \in 1..Len(w) : w[m].key = w[l].key => m = l
    BY <2>1 DEF Shuts
  <2>3. PICK j \in DOMAIN x : x[j].act = "open" /\ x[j].key = y[i].key
    BY <2>2 DEF Opened, KeysIn
  <2>4. j \in 1..(i - 1) /\ y[j] = x[j]
    BY <1>2, <1>6, <1>7, <1>9
  <2>5. ~Unopened(y, i)
    BY <2>3, <2>4 DEF Unopened
  <2>6. ASSUME NEW l \in 1..(i - 1), y[l].act = "close"
        PROVE  y[l].key # y[i].key
    <3>1. CASE l <= Len(x)
      <4>1. l \in DOMAIN x /\ y[l] = x[l]
        BY <1>2, <1>6, <1>7, <3>1
      <4>2. x[l].key \in Closed(x)
        BY <2>6, <4>1 DEF Closed, KeysIn
      <4> QED
        BY <2>2, <4>1, <4>2
    <3>2. CASE l > Len(x)
      <4>1. l - Len(x) \in 1..Len(w) /\ y[l] = w[l - Len(x)] /\ l - Len(x) # m
        BY <1>1, <1>2, <1>3, <1>6, <3>2
      <4> QED
        BY <2>1, <2>2, <4>1
    <3> QED
      BY <1>2, <1>6, <3>1, <3>2
  <2>7. Unclosed(y, i)
    BY <2>6 DEF Unclosed
  <2> QED
    BY <2>2, <2>5, <2>7
<1> QED
  BY <1>2, <1>6, <1>8, <1>9

\* Whatever such frames follow, the answer is the same.
LEMMA ShutAgrees ==
  ASSUME NEW x, Sequence(x), NEW h, NEW thinks \in BOOLEAN, Agrees(x, h, thinks),
         NEW w, Shuts(w, x)
  PROVE  Agrees(x \o w, h, thinks)
<1>1. Sequence(w)
  BY DEF Shuts
<1> DEFINE y == x \o w
<1>2. Sequence(y)
  BY <1>1, Joined
<1>3. \A by \in Ways : \A of : ReadOf(by, of, y) = ReadOf(by, of, x)
  BY ShutReads
<1>4. Opened(y) = Opened(x)
  BY ShutKeys
<1> HIDE DEF y
<1>5. /\ CallsIn(y) = CallsIn(x)
      /\ \A of : ReadOf("call", of, y) = ReadOf("call", of, x)
      /\ \A of : ReadOf("kind", of, y) = ReadOf("kind", of, x)
  BY <1>3, ReadsOf DEF CallsIn
<1>6. Well(x) /\ Well(h)
  BY DEF Agrees
<1>7. Well(y)
  BY <1>2, <1>4, <1>5, <1>6 DEF Well
<1>8. ReadOf("kind", "thought", y) = IF thinks THEN ReadOf("kind", "thought", h) ELSE <<>>
  BY <1>5 DEF Agrees
<1>9. ReadOf("kind", "text", y) = ReadOf("kind", "text", h)
  BY <1>5 DEF Agrees
<1>10. Agrees(y, h, thinks)
  BY <1>5, <1>6, <1>7, <1>8, <1>9, AgreeOther
<1> QED
  BY <1>10 DEF y

\* What the frames say that close a stream.
LEMMA ShutFrames ==
  ASSUME NEW F, Sayings(F), NEW T, Sequence(T), NEW w, Sequence(w), Len(w) = Len(T),
         \A k \in 1..Len(T) : SaidBy(T[k]) = <<w[k]>>
  PROVE  Sayings(F \o T) /\ Transcript(F \o T) = Transcript(F) \o w
<1>1. Len(T) \in Nat /\ DOMAIN T = 1..Len(T)
  BY SequenceFacts
<1>2. \A k \in DOMAIN T : Sequence(SaidBy(T[k]))
  BY <1>1, Short
<1>3. Sayings(T)
  BY <1>2 DEF Sayings
<1> DEFINE f == [k \in DOMAIN T |-> SaidBy(T[k])]
<1>4. /\ f = [k \in 1..Len(T) |-> f[k]] /\ DOMAIN f = 1..Len(T)
      /\ \A k \in DOMAIN f : f[k] = <<w[k]>>
  BY <1>1
<1>5. Transcript(T) = FlattenSeq(f)
  BY DEF Transcript, Each
<1> HIDE DEF f
<1>6. Sequence(f) /\ Len(f) = Len(T)
  BY <1>1, <1>4, Numbered
<1>7. FlattenSeq(f) = w
  BY <1>4, <1>6, FlattenSingles
<1>8. Sayings(F \o T) /\ Transcript(F \o T) = Transcript(F) \o Transcript(T)
  BY <1>3, TranscriptJoined
<1> QED
  BY <1>5, <1>7, <1>8

-----------------------------------------------------------------------------
(* What the client has been told is faithful to what the provider said.    *)
FirstFrame ==
  CASE ingress = "chat" -> "chunk"
    [] ingress = "responses" -> "response.created"
    [] ingress = "anthropic" -> "message_start"
ToldAnswer(said) ==
  IF ingress = "anthropic" THEN [AnswerIn(said) EXCEPT !.thought = <<>>] ELSE AnswerIn(said)
Repeats(said) ==
  \A i \in DOMAIN said :
    said[i].act = "close" => said[i].what = ReadOf("key", said[i].key, said)
ItemsInPlace(frames) ==
  \A i, j \in DOMAIN frames :
    "item" \in DOMAIN frames[i] /\ "item" \in DOMAIN frames[j] =>
      (frames[i].item = frames[j].item) <=> (frames[i].index = frames[j].index)

\* The answer, the frames of a stream, which may be whole, and their indices.
FaithfulTo(events, frames, whole) ==
  LET said == Transcript(frames) IN
  /\ AnswerIn(said) = ToldAnswer(Transcript(events))
  /\ frames # <<>> /\ events[1] # Done => frames[1].type = FirstFrame
  /\ Framed(said, ingress = "chat")
  /\ ingress = "responses" => Repeats(said)
  /\ whole /\ ingress # "chat" => Opened(said) \subseteq Closed(said)
  /\ ingress = "responses" /\ InOrder(Transcript(events)) => ItemsInPlace(frames)

\* That is what the properties say of it.
LEMMA FaithfulIs ==
  translated /\ FaithfulTo(received, relayed, verdict = "completed") => Faithful
<1> SUFFICES ASSUME translated, FaithfulTo(received, relayed, verdict = "completed")
             PROVE  Faithful
  OBVIOUS
<1> DEFINE said == Transcript(relayed)
<1>1. AnswerPreserved
  <2>1. Answer(relayed) = AnswerIn(said) /\ Answer(received) = AnswerIn(Transcript(received))
    BY AnswerIs
  <2>2. AnswerIn(said) = ToldAnswer(Transcript(received))
    BY DEF FaithfulTo
  <2> QED
    BY <2>1, <2>2 DEF AnswerPreserved, ToldAnswer
<1>2. StartsRight
  BY DEF FaithfulTo, StartsRight, FirstFrame
<1>3. \A i \in DOMAIN said :
        \/ said[i].act = "open" /\ Unopened(said, i)
        \/ said[i].act # "open" /\ ~Unopened(said, i) /\ Unclosed(said, i)
        \/ ingress = "chat" /\ said[i].kind # "call"
  BY DEF FaithfulTo, Framed
<1>4. \A i \in DOMAIN said : said[i].act = "close" /\ ingress = "responses" =>
        said[i].what = PiecesIn(said, LAMBDA u : u.key = said[i].key)
  <2>1. SUFFICES ASSUME NEW i \in DOMAIN said, said[i].act = "close", ingress = "responses"
                 PROVE  said[i].what = PiecesIn(said, LAMBDA u : u.key = said[i].key)
    OBVIOUS
  <2>2. said[i].what = ReadOf("key", said[i].key, said)
    BY <2>1 DEF FaithfulTo, Repeats
  <2> HIDE DEF said
  <2>3. PICK key : key = said[i].key
    OBVIOUS
  <2>4. PiecesIn(said, LAMBDA u : u.key = key) = ReadOf("key", key, said)
    BY DEF PiecesIn, Each, ReadOf, Reads
  <2> QED
    BY <2>2, <2>3, <2>4
<1>5. verdict = "completed" /\ ingress # "chat" =>
        \A i \in DOMAIN said : said[i].act = "open" =>
          \E j \in DOMAIN said : said[j].act = "close" /\ said[j].key = said[i].key
  <2>1. SUFFICES ASSUME verdict = "completed", ingress # "chat",
                        NEW i \in DOMAIN said, said[i].act = "open"
                 PROVE  \E j \in DOMAIN said :
                          said[j].act = "close" /\ said[j].key = said[i].key
    OBVIOUS
  <2>2. Opened(said) \subseteq Closed(said)
    BY <2>1 DEF FaithfulTo
  <2>3. said[i].key \in Opened(said)
    BY <2>1 DEF Opened, KeysIn
  <2> HIDE DEF said
  <2>4. said[i].key \in Closed(said)
    BY <2>2, <2>3
  <2> QED
    BY <2>4 DEF Closed, KeysIn
<1>6. FramesBalanced
  BY <1>2, <1>3, <1>4, <1>5 DEF FramesBalanced
<1>7. OrderlyIndices
  BY DEF FaithfulTo, OrderlyIndices, ItemsInPlace
<1> QED
  BY <1>1, <1>6, <1>7 DEF Faithful

\* A stream that agrees with what was heard of another gives its answer.
LEMMA AnswerAsHeard ==
  ASSUME NEW E, NEW n, NEW h, Heeding(E, n, h), NEW y,
         Agrees(y, h, ingress # "anthropic")
  PROVE  AnswerIn(y) = ToldAnswer(Transcript(E))
<1>1. Agrees(Transcript(E), h, TRUE)
  BY DEF Heeding
<1>2. \A thinks \in BOOLEAN : Agrees(y, h, thinks) =>
        AnswerIn(y) = IF thinks THEN AnswerIn(Transcript(E))
                      ELSE [AnswerIn(Transcript(E)) EXCEPT !.thought = <<>>]
  BY <1>1, AgreeAnswer, ZenonT(40)
<1>3. (ingress # "anthropic") \in BOOLEAN
  OBVIOUS
<1> QED
  BY <1>2, <1>3 DEF ToldAnswer

\* An item and its index tell each other.
LEMMA IndexApart ==
  ASSUME NEW s, DOMAIN s.calls \subseteq Nat,
         NEW i \in Items(s), NEW j \in Items(s), IndexOf(s, i) = IndexOf(s, j)
  PROVE  i = j
<1>1. \A item \in Items(s) :
        \/ item = TheThought /\ s.thinking
        \/ item = TheMessage /\ s.talking
        \/ \E k \in DOMAIN s.calls : item = TheCall(k)
  BY DEF Items
<1>2. IndexOf(s, TheThought) = 0 /\ IndexOf(s, TheMessage) = MessageIndex(s)
  BY ItemsApart DEF IndexOf
<1>3. \A k \in DOMAIN s.calls : IndexOf(s, TheCall(k)) = CallIndex(s, k)
  BY ItemsApart DEF IndexOf
<1>4. MessageIndex(s) \in {0, 1} /\ (s.thinking => MessageIndex(s) = 1)
  BY DEF MessageIndex
<1>5. \A k \in DOMAIN s.calls :
        /\ k \in Nat /\ CallIndex(s, k) \in Nat /\ CallIndex(s, k) >= MessageIndex(s) + k
        /\ s.talking => CallIndex(s, k) = MessageIndex(s) + 1 + k
        /\ ~s.talking => CallIndex(s, k) = MessageIndex(s) + k
  BY <1>4 DEF CallIndex
<1>6. /\ s.thinking => IndexOf(s, TheThought) # IndexOf(s, TheMessage)
      /\ \A k \in DOMAIN s.calls :
           /\ s.thinking => IndexOf(s, TheCall(k)) # IndexOf(s, TheThought)
           /\ s.talking => IndexOf(s, TheCall(k)) # IndexOf(s, TheMessage)
  <2>1. s.thinking => IndexOf(s, TheThought) # IndexOf(s, TheMessage)
    BY <1>2, <1>4
  <2>2. ASSUME NEW k \in DOMAIN s.calls
        PROVE  /\ s.thinking => CallIndex(s, k) # 0
               /\ s.talking => CallIndex(s, k) # MessageIndex(s)
    BY <1>4, <1>5
  <2> QED
    BY <1>2, <1>3, <2>1, <2>2
<1>7. \A k, l \in DOMAIN s.calls : IndexOf(s, TheCall(k)) = IndexOf(s, TheCall(l)) => k = l
  <2>1. \A k, l \in DOMAIN s.calls : CallIndex(s, k) = CallIndex(s, l) => k = l
    BY <1>4, <1>5
  <2> QED
    BY <1>3, <2>1
<1>8. IndexOf(s, i) = IndexOf(s, j)
  OBVIOUS
<1> QED
  BY <1>1, <1>6, <1>7, <1>8

\* So the frames of a sink that has indexed them are in their places.
LEMMA IndexedInPlace ==
  ASSUME NEW s, DOMAIN s.calls \subseteq Nat, NEW F, Indexed(s, F)
  PROVE  ItemsInPlace(F)
<1> SUFFICES ASSUME NEW i \in DOMAIN F, NEW j \in DOMAIN F,
                    "item" \in DOMAIN F[i], "item" \in DOMAIN F[j]
             PROVE  (F[i].item = F[j].item) <=> (F[i].index = F[j].index)
  BY DEF ItemsInPlace
<1>1. /\ F[i].item \in Items(s) /\ F[i].index = IndexOf(s, F[i].item)
      /\ F[j].item \in Items(s) /\ F[j].index = IndexOf(s, F[j].item)
  BY DEF Indexed
<1> QED
  BY <1>1, IndexApart

\* As long as the stream goes on, or if it breaks off.
LEMMA StreamingFaithful ==
  ASSUME ingress \in Protocols, NEW E, NEW n, NEW h, Heeding(E, n, h),
         NEW s, NEW F, KnowsSink(s, F, h, n)
  PROVE  FaithfulTo(E, F, FALSE)
<1> DEFINE said == Transcript(F)
<1>1. Heeds(h, n) /\ (InOrder(Transcript(E)) => InOrder(h)) /\ n \in Nat
  BY DEF Heeding, Heeds
<1>2. CASE ingress = "responses"
  <2>1. KnowsResponses(s, F, h, n)
    BY <1>2 DEF KnowsSink
  <2>2. Agrees(said, h, TRUE) /\ Framed(said, FALSE) /\ Closed(said) = {}
    BY <2>1 DEF KnowsResponses, Tracks
  <2>3. DOMAIN s.calls = 0..(n - 1) /\ (F # <<>> => F[1] = Created)
    BY <2>1 DEF KnowsResponses, Tracks
  <2>4. F # <<>> => F[1].type = FirstFrame
    BY <1>2, <2>3 DEF FirstFrame, Created
  <2>5. InOrder(Transcript(E)) => ItemsInPlace(F)
    <3>1. DOMAIN s.calls \subseteq Nat
      BY <1>1, <2>3
    <3> QED
      BY <1>1, <2>1, <3>1, IndexedInPlace DEF KnowsResponses
  <2>6. Agrees(said, h, ingress # "anthropic")
    <3>1. (ingress # "anthropic") = TRUE
      BY <1>2
    <3> QED
      BY <2>2, <3>1
  <2>7. AnswerIn(said) = ToldAnswer(Transcript(E))
    BY <2>6, AnswerAsHeard
  <2> HIDE DEF said
  <2>8. Repeats(said)
    BY <2>2 DEF Repeats, Closed, KeysIn
  <2>9. Framed(said, ingress = "chat")
    BY <1>2, <2>2 DEF Framed
  <2> QED
    BY <1>2, <2>4, <2>5, <2>7, <2>8, <2>9 DEF FaithfulTo, said
<1>3. CASE ingress = "anthropic"
  <2>1. KnowsAnthropic(s, F, h, n)
    BY <1>3 DEF KnowsSink
  <2>2. Agrees(said, h, FALSE) /\ Framed(said, FALSE)
    BY <2>1 DEF KnowsAnthropic
  <2>3. F # <<>> => F[1].type = FirstFrame
    BY <1>3, <2>1 DEF FirstFrame, KnowsAnthropic
  <2>4. Agrees(said, h, ingress # "anthropic")
    <3>1. (ingress # "anthropic") = FALSE
      BY <1>3
    <3> QED
      BY <2>2, <3>1
  <2>5. AnswerIn(said) = ToldAnswer(Transcript(E))
    BY <2>4, AnswerAsHeard
  <2> HIDE DEF said
  <2>6. Framed(said, ingress = "chat")
    BY <1>3, <2>2 DEF Framed
  <2> QED
    BY <1>3, <2>3, <2>5, <2>6 DEF FaithfulTo, said
<1>4. CASE ingress = "chat"
  <2>1. said = h /\ (F # <<>> => F[1].type = "chunk")
    BY <1>4 DEF KnowsSink, KnowsChat
  <2>2. Agrees(h, h, TRUE)
    BY <1>1, AgreesWithItself DEF Heeds
  <2>3. Agrees(said, h, ingress # "anthropic")
    <3>1. (ingress # "anthropic") = TRUE
      BY <1>4
    <3> QED
      BY <2>1, <2>2, <3>1
  <2>4. AnswerIn(said) = ToldAnswer(Transcript(E))
    BY <2>3, AnswerAsHeard
  <2>5. Framed(said, TRUE)
    BY <1>1, <2>1 DEF Heeds
  <2> HIDE DEF said
  <2>6. Framed(said, ingress = "chat")
    <3>1. (ingress = "chat") = TRUE
      BY <1>4
    <3> QED
      BY <2>5, <3>1
  <2>7. F # <<>> => F[1].type = FirstFrame
    BY <1>4, <2>1 DEF FirstFrame
  <2> QED
    BY <1>4, <2>4, <2>6, <2>7 DEF FaithfulTo, said
<1> QED
  BY <1>2, <1>3, <1>4 DEF Protocols

-----------------------------------------------------------------------------
(* A Responses stream is closed.                                           *)
ThoughtDone(s) == IF s.thinking THEN <<ItemDone(TheThought, 0, s.thought)>> ELSE <<>>
MessageDone(s) ==
  IF s.talking THEN <<ItemDone(TheMessage, MessageIndex(s), s.text)>> ELSE <<>>
CallDone(s, i) == ItemDone(TheCall(i), CallIndex(s, i), s.calls[i].args)
CallsDone(s) ==
  LET calls == Sorted(DOMAIN s.calls) IN [k \in DOMAIN calls |-> CallDone(s, calls[k])]
ItemsDone(s) == ThoughtDone(s) \o MessageDone(s) \o CallsDone(s)

\* What is sent then: the items that were opened, one after the other.
NthDone(s, k) ==
  LET a == Len(ThoughtDone(s))
      b == Len(MessageDone(s)) IN
  IF k <= a THEN ItemDone(TheThought, 0, s.thought)
  ELSE IF k <= a + b THEN ItemDone(TheMessage, MessageIndex(s), s.text)
  ELSE CallDone(s, k - a - b - 1)
LEMMA ItemsDoneAre ==
  ASSUME NEW s, s.thinking \in BOOLEAN, s.talking \in BOOLEAN,
         NEW n \in Nat, DOMAIN s.calls = 0..(n - 1)
  PROVE  /\ Len(ThoughtDone(s)) = (IF s.thinking THEN 1 ELSE 0)
         /\ Len(MessageDone(s)) = (IF s.talking THEN 1 ELSE 0)
         /\ Sequence(ItemsDone(s))
         /\ Len(ItemsDone(s)) = Len(ThoughtDone(s)) + Len(MessageDone(s)) + n
         /\ \A k \in 1..Len(ItemsDone(s)) : ItemsDone(s)[k] = NthDone(s, k)
<1> DEFINE A == ThoughtDone(s)
           B == MessageDone(s)
           C == CallsDone(s)
           a == Len(A)
           b == Len(B)
<1>1. /\ Sequence(A) /\ a \in {0, 1} /\ (s.thinking <=> a = 1)
      /\ a = 1 => A[1] = ItemDone(TheThought, 0, s.thought)
  BY Short DEF ThoughtDone
<1>2. /\ Sequence(B) /\ b \in {0, 1} /\ (s.talking <=> b = 1)
      /\ b = 1 => B[1] = ItemDone(TheMessage, MessageIndex(s), s.text)
  BY Short DEF MessageDone
<1>3. PICK calls : calls = Sorted(DOMAIN s.calls)
  OBVIOUS
<1>4. DOMAIN calls = 1..n /\ \A k \in 1..n : calls[k] = k - 1
  BY <1>3, SortedIs
<1>5. C = [k \in 1..n |-> CallDone(s, calls[k])]
  BY <1>3, <1>4 DEF CallsDone
<1> HIDE DEF C
<1>6. C = [k \in 1..n |-> C[k]] /\ \A k \in 1..n : C[k] = CallDone(s, k - 1)
  BY <1>4, <1>5
<1>7. Sequence(C) /\ Len(C) = n
  BY <1>6, Numbered
<1> HIDE DEF A, B
<1>8. /\ Sequence(A \o B) /\ Len(A \o B) = a + b
      /\ \A k \in 1..(a + b) : (A \o B)[k] = IF k <= a THEN A[k] ELSE B[k - a]
  BY <1>1, <1>2, Joined
<1> DEFINE D == A \o B
<1>9. /\ Sequence(D \o C) /\ Len(D \o C) = Len(D) + n
      /\ \A k \in 1..(Len(D) + n) : (D \o C)[k] = IF k <= Len(D) THEN D[k] ELSE C[k - Len(D)]
  BY <1>7, <1>8, Joined
<1>10. ItemsDone(s) = D \o C
  BY DEF ItemsDone, A, B, C
<1>11. Len(D) = a + b /\ \A k \in 1..(a + b) : D[k] = IF k <= a THEN A[k] ELSE B[k - a]
  BY <1>8
<1> DEFINE T == D \o C
<1> HIDE DEF D
<1>12. Len(T) = a + b + n
  BY <1>9, <1>11
<1>13. ASSUME NEW k \in 1..Len(T)
       PROVE  T[k] = NthDone(s, k)
  <2>1. /\ T[k] = IF k <= a + b THEN D[k] ELSE C[k - (a + b)]
        /\ k \in 1..(a + b + n)
    BY <1>9, <1>11, <1>12
  <2>2. NthDone(s, k) = IF k <= a THEN ItemDone(TheThought, 0, s.thought)
                        ELSE IF k <= a + b THEN ItemDone(TheMessage, MessageIndex(s), s.text)
                        ELSE CallDone(s, k - a - b - 1)
    BY DEF NthDone, A, B
  <2> HIDE DEF T, a, b
  <2>3. CASE k <= a
    <3>1. k = 1 /\ a = 1 /\ k <= a + b /\ k \in 1..(a + b)
      BY <1>1, <1>2, <2>1, <2>3
    <3>2. D[k] = A[1]
      BY <1>11, <3>1
    <3> QED
      BY <1>1, <2>1, <2>2, <3>1, <3>2
  <2>4. CASE k > a /\ k <= a + b
    <3>1. b = 1 /\ k - a = 1 /\ k \in 1..(a + b) /\ ~(k <= a)
      BY <1>1, <1>2, <2>1, <2>4
    <3>2. D[k] = B[1]
      BY <1>11, <3>1
    <3> QED
      BY <1>2, <2>1, <2>2, <2>4, <3>1, <3>2
  <2>5. CASE k > a + b
    <3>1. k - (a + b) \in 1..n /\ (k - (a + b)) - 1 = k - a - b - 1 /\ ~(k <= a + b) /\ ~(k <= a)
      BY <1>1, <1>2, <2>1, <2>5
    <3>2. C[k - (a + b)] = CallDone(s, k - a - b - 1)
      BY <1>6, <3>1
    <3> QED
      BY <2>1, <2>2, <3>1, <3>2
  <2> QED
    BY <1>1, <1>2, <2>1, <2>3, <2>4, <2>5
<1>14. Len(A) = (IF s.thinking THEN 1 ELSE 0) /\ Len(B) = (IF s.talking THEN 1 ELSE 0)
  BY <1>1, <1>2
<1> QED
  BY <1>9, <1>10, <1>12, <1>13, <1>14 DEF A, B

\* Each item that was opened is closed once, under its index and with all that
\* was said in it.
ItemAt(s, k) ==
  LET a == Len(ThoughtDone(s))
      b == Len(MessageDone(s)) IN
  IF k <= a THEN TheThought ELSE IF k <= a + b THEN TheMessage ELSE TheCall(k - a - b - 1)
ClosesItems(s, x, T) ==
  /\ Sequence(T)
  /\ \A k \in 1..Len(T) :
       /\ ItemAt(s, k) \in Items(s)
       /\ T[k] = ItemDone(ItemAt(s, k), IndexOf(s, ItemAt(s, k)), ReadOf("key", ItemAt(s, k), x))
  /\ \A k, l \in 1..Len(T) : ItemAt(s, k) = ItemAt(s, l) => k = l
  /\ \A item \in Items(s) : \E k \in 1..Len(T) : ItemAt(s, k) = item
LEMMA ItemsClosed ==
  ASSUME NEW s, NEW F, NEW h, NEW n \in Nat, Tracks(s, F, h, n), NEW x, x = Transcript(F)
  PROVE  ClosesItems(s, x, ItemsDone(s))
<1> DEFINE T == ItemsDone(s)
           a == Len(ThoughtDone(s))
           b == Len(MessageDone(s))
<1>1. /\ s.thinking \in BOOLEAN /\ s.talking \in BOOLEAN /\ DOMAIN s.calls = 0..(n - 1)
      /\ Pieces(s, x)
  BY DEF Tracks
<1>2. /\ a = (IF s.thinking THEN 1 ELSE 0) /\ b = (IF s.talking THEN 1 ELSE 0)
      /\ Sequence(T) /\ Len(T) = a + b + n
      /\ \A k \in 1..Len(T) : T[k] = NthDone(s, k)
  BY <1>1, ItemsDoneAre
<1>3. \A k : NthDone(s, k) = IF k <= a THEN ItemDone(TheThought, 0, s.thought)
                             ELSE IF k <= a + b
                             THEN ItemDone(TheMessage, MessageIndex(s), s.text)
                             ELSE CallDone(s, k - a - b - 1)
  BY DEF NthDone
<1>4. \A k : ItemAt(s, k) = IF k <= a THEN TheThought
                            ELSE IF k <= a + b THEN TheMessage ELSE TheCall(k - a - b - 1)
  BY DEF ItemAt
<1> HIDE DEF T, a, b
<1>5. /\ a \in {0, 1} /\ b \in {0, 1} /\ (a = 1 <=> s.thinking) /\ (b = 1 <=> s.talking)
  BY <1>1, <1>2
<1>6. ASSUME NEW k \in 1..Len(T)
      PROVE  /\ ItemAt(s, k) \in Items(s)
             /\ T[k] = ItemDone(ItemAt(s, k), IndexOf(s, ItemAt(s, k)),
                                ReadOf("key", ItemAt(s, k), x))
  <2>1. T[k] = NthDone(s, k) /\ k \in 1..(a + b + n)
    BY <1>2
  <2>2. CASE k <= a
    <3>1. s.thinking /\ ItemAt(s, k) = TheThought /\ NthDone(s, k) = ItemDone(TheThought, 0, s.thought)
      BY <1>3, <1>4, <1>5, <2>1, <2>2
    <3>2. TheThought \in Items(s) /\ IndexOf(s, TheThought) = 0
      <4>1. TheThought \in Items(s)
        BY <3>1 DEF Items
      <4>2. IndexOf(s, TheThought) = 0
        BY ItemsApart DEF IndexOf
      <4> QED
        BY <4>1, <4>2
    <3>3. ReadOf("key", TheThought, x) = s.thought
      BY <1>1 DEF Pieces
    <3> QED
      BY <2>1, <3>1, <3>2, <3>3
  <2>3. CASE k > a /\ k <= a + b
    <3>1. /\ s.talking /\ ItemAt(s, k) = TheMessage
          /\ NthDone(s, k) = ItemDone(TheMessage, MessageIndex(s), s.text)
      BY <1>3, <1>4, <1>5, <2>1, <2>3
    <3>2. TheMessage \in Items(s) /\ IndexOf(s, TheMessage) = MessageIndex(s)
      BY <3>1, ItemsApart DEF Items, IndexOf
    <3>3. ReadOf("key", TheMessage, x) = s.text
      BY <1>1 DEF Pieces
    <3> QED
      BY <2>1, <3>1, <3>2, <3>3
  <2>4. CASE k > a + b
    <3> DEFINE i == k - a - b - 1
    <3>1. i \in 0..(n - 1) /\ ~(k <= a) /\ ~(k <= a + b)
      BY <1>5, <2>1, <2>4
    <3>2. ItemAt(s, k) = TheCall(i) /\ NthDone(s, k) = CallDone(s, i)
      BY <1>3, <1>4, <3>1
    <3> HIDE DEF i
    <3>3. TheCall(i) \in Items(s) /\ IndexOf(s, TheCall(i)) = CallIndex(s, i)
      BY <1>1, <3>1, ItemsApart DEF Items, IndexOf
    <3>4. ReadOf("key", TheCall(i), x) = s.calls[i].args
      BY <1>1, <3>1 DEF Pieces
    <3> QED
      BY <2>1, <3>2, <3>3, <3>4 DEF CallDone
  <2> QED
    BY <1>5, <2>1, <2>2, <2>3, <2>4
<1>7. ASSUME NEW k \in 1..Len(T), NEW l \in 1..Len(T), ItemAt(s, k) = ItemAt(s, l)
      PROVE  k = l
  <2>1. k \in 1..(a + b + n) /\ l \in 1..(a + b + n)
    BY <1>2
  <2>2. \A m \in 1..(a + b + n) :
          \/ m = 1 /\ a = 1 /\ ItemAt(s, m) = TheThought
          \/ m = a + 1 /\ b = 1 /\ ItemAt(s, m) = TheMessage
          \/ m > a + b /\ ItemAt(s, m) = TheCall(m - a - b - 1)
    BY <1>4, <1>5
  <2>3. \A i, j : TheCall(i) = TheCall(j) => i = j
    BY ItemsApart
  <2>4. k > a + b /\ l > a + b /\ TheCall(k - a - b - 1) = TheCall(l - a - b - 1) => k = l
    <3>1. TheCall(k - a - b - 1) = TheCall(l - a - b - 1) => k - a - b - 1 = l - a - b - 1
      BY <2>3
    <3> QED
      BY <1>5, <2>1, <3>1
  <2> QED
    BY <1>7, <2>1, <2>2, <2>4, ItemsApart
<1>8. ASSUME NEW item \in Items(s)
      PROVE  \E k \in 1..Len(T) : ItemAt(s, k) = item
  <2>1. CASE item = TheThought /\ s.thinking
    <3>1. 1 \in 1..Len(T) /\ ItemAt(s, 1) = TheThought
      BY <1>2, <1>4, <1>5, <2>1
    <3> QED
      BY <2>1, <3>1
  <2>2. CASE item = TheMessage /\ s.talking
    <3>1. a + 1 \in 1..Len(T) /\ ItemAt(s, a + 1) = TheMessage
      BY <1>2, <1>4, <1>5, <2>2
    <3> QED
      BY <2>2, <3>1
  <2>3. CASE \E i \in DOMAIN s.calls : item = TheCall(i)
    <3>1. PICK i \in 0..(n - 1) : item = TheCall(i)
      BY <1>1, <2>3
    <3> DEFINE k == a + b + i + 1
    <3>2. k \in 1..Len(T) /\ ~(k <= a) /\ ~(k <= a + b) /\ k - a - b - 1 = i
      BY <1>2, <1>5
    <3>3. ItemAt(s, k) = TheCall(i)
      BY <1>4, <3>2
    <3> QED
      BY <3>1, <3>2, <3>3
  <2> QED
    BY <2>1, <2>2, <2>3 DEF Items
<1>9. ClosesItems(s, x, T)
  BY <1>2, <1>6, <1>7, <1>8 DEF ClosesItems
<1> QED
  BY <1>9 DEF T

\* What is sent at the end of a Responses stream is faithful, too.
LEMMA ResponsesFaithful ==
  ASSUME ingress = "responses", NEW E, NEW n, NEW h, Heeding(E, n, h),
         NEW s, NEW F, KnowsResponses(s, F, h, n), F # <<>> \/ E[1] = Done, NEW tokens
  PROVE  FaithfulTo(E, F \o (ItemsDone(s) \o <<Ended("response.completed", tokens)>>), TRUE)
<1> DEFINE x == Transcript(F)
           T == ItemsDone(s)
           end == Ended("response.completed", tokens)
           w == [k \in 1..Len(T) |->
                   Said("close", KindOf(ItemAt(s, k).kind), ItemAt(s, k),
                        ReadOf("key", ItemAt(s, k), x))]
<1>1. n \in Nat /\ (InOrder(Transcript(E)) => InOrder(h))
  BY DEF Heeding, Heeds
<1>2. /\ Sayings(F) /\ Agrees(x, h, TRUE) /\ Framed(x, FALSE)
      /\ Opened(x) = Items(s) /\ Closed(x) = {} /\ (F # <<>> => F[1] = Created)
      /\ DOMAIN s.calls = 0..(n - 1) /\ Tracks(s, F, h, n)
  BY DEF KnowsResponses, Tracks
<1>3. ClosesItems(s, x, T)
  BY <1>1, <1>2, ItemsClosed
<1> HIDE DEF T
<1>4. Sequence(T) /\ Len(T) \in Nat /\ DOMAIN T = 1..Len(T)
  BY <1>3, SequenceFacts DEF ClosesItems
<1>5. Sequence(w) /\ Len(w) = Len(T) /\ DOMAIN w = 1..Len(T)
  <2>1. PICK g : g = w
    OBVIOUS
  <2>2. g = [k \in 1..Len(T) |-> g[k]]
    BY <2>1
  <2> QED
    BY <1>4, <2>1, <2>2, Numbered
<1>6. \A k \in 1..Len(T) :
        /\ w[k].act = "close" /\ w[k].key = ItemAt(s, k)
        /\ w[k].what = ReadOf("key", ItemAt(s, k), x)
        /\ w[k] = Said("close", KindOf(ItemAt(s, k).kind), ItemAt(s, k),
                       ReadOf("key", ItemAt(s, k), x))
  BY DEF Said
<1> HIDE DEF w
<1>7. \A k \in 1..Len(T) : SaidBy(T[k]) = <<w[k]>>
  <2> TAKE k \in 1..Len(T)
  <2>1. PICK item, index, pieces :
          /\ item = ItemAt(s, k) /\ pieces = ReadOf("key", ItemAt(s, k), x)
          /\ T[k] = ItemDone(item, index, pieces)
    BY <1>3 DEF ClosesItems
  <2>2. SaidBy(T[k]) = <<Said("close", KindOf(item.kind), item, pieces)>>
    BY <2>1, DoneEvents
  <2> QED
    BY <1>6, <2>1, <2>2
<1>8. Shuts(w, x)
  <2>1. \A k \in 1..Len(T) : w[k].key \in Opened(x) /\ w[k].key \notin Closed(x)
    BY <1>2, <1>3, <1>6 DEF ClosesItems
  <2>2. \A k, l \in 1..Len(T) : w[k].key = w[l].key => k = l
    BY <1>3, <1>6 DEF ClosesItems
  <2> QED
    BY <1>5, <1>6, <2>1, <2>2 DEF Shuts
<1>9. Sequence(x) /\ Sequence(F)
  BY <1>2, TranscriptSequence DEF Sayings
<1> DEFINE y == x \o w
<1>10. Sayings(F \o T) /\ Transcript(F \o T) = y
  BY <1>2, <1>4, <1>5, <1>7, ShutFrames
<1>11. Framed(y, FALSE) /\ Agrees(y, h, TRUE) /\ Opened(y) = Opened(x)
  BY <1>2, <1>8, <1>9, ShutFramed, ShutAgrees, ShutKeys
<1>12. Opened(y) \subseteq Closed(y)
  <2>1. Closed(y) = Closed(x) \cup {w[k].key : k \in 1..Len(w)}
    BY <1>8, <1>9, ShutKeys
  <2> HIDE DEF y
  <2>2. \A item \in Items(s) : \E k \in 1..Len(w) : w[k].key = item
    BY <1>3, <1>5, <1>6 DEF ClosesItems
  <2> QED
    BY <1>2, <1>11, <2>1, <2>2
<1>13. Repeats(y)
  <2>1. \A of : ReadOf("key", of, y) = ReadOf("key", of, x)
    BY <1>8, <1>9, ReadsOf, ShutReads
  <2>2. /\ Len(x) \in Nat /\ DOMAIN x = 1..Len(x) /\ DOMAIN y = 1..(Len(x) + Len(w))
        /\ \A k \in 1..(Len(x) + Len(w)) : y[k] = IF k <= Len(x) THEN x[k] ELSE w[k - Len(x)]
    BY <1>5, <1>9, Joined, SequenceFacts
  <2> HIDE DEF x, y
  <2>3. ASSUME NEW i \in DOMAIN y, y[i].act = "close"
        PROVE  y[i].what = ReadOf("key", y[i].key, y)
    <3>1. CASE i <= Len(x)
      <4>1. i \in DOMAIN x /\ y[i] = x[i]
        BY <2>2, <3>1
      <4>2. x[i].key \in Closed(x)
        BY <2>3, <4>1 DEF Closed, KeysIn
      <4> QED
        BY <1>2, <4>2
    <3>2. CASE i > Len(x)
      <4>1. i - Len(x) \in 1..Len(T) /\ y[i] = w[i - Len(x)]
        BY <1>4, <1>5, <2>2, <3>2
      <4>2. y[i].what = ReadOf("key", y[i].key, x)
        BY <1>6, <4>1
      <4> QED
        BY <2>1, <4>2
    <3> QED
      BY <2>2, <3>1, <3>2
  <2> QED
    BY <2>3 DEF Repeats
<1> HIDE DEF y, x
<1> DEFINE G == (F \o T) \o <<end>>
<1>14. SaidBy(end) = <<>> /\ "item" \notin DOMAIN end
  BY SilentEvents DEF Ended
<1> HIDE DEF end
<1>15. Transcript(G) = y /\ Sequence(F \o T)
  BY <1>10, <1>14, FrameSilent
<1>16. G = F \o (T \o <<end>>)
  BY <1>4, <1>9, Short, ThreeJoined, SMTT(30)
<1>17. E[1] # Done => G # <<>> /\ G[1] = Created
  <2>1. ASSUME E[1] # Done
        PROVE  F \o T # <<>> /\ (F \o T)[1] = Created
    <3>1. F # <<>> /\ F[1] = Created
      BY <1>2, <2>1
    <3>2. Len(F) \in Nat \ {0}
      BY <1>9, <3>1, SequenceFacts
    <3>3. /\ Len(F \o T) = Len(F) + Len(T)
          /\ \A k \in 1..(Len(F) + Len(T)) : (F \o T)[k] = IF k <= Len(F) THEN F[k] ELSE T[k - Len(F)]
      BY <1>4, <1>9, Joined
    <3>4. 1 \in 1..(Len(F) + Len(T)) /\ 1 <= Len(F)
      BY <1>4, <3>2
    <3>5. (F \o T)[1] = F[1] /\ Len(F \o T) > 0
      BY <1>4, <3>2, <3>3, <3>4
    <3> QED
      BY <3>1, <3>5, Short
  <2> QED
    BY <1>15, <2>1, FramePlace
<1>18. InOrder(Transcript(E)) => ItemsInPlace(G)
  <2>1. ASSUME InOrder(Transcript(E))
        PROVE  Indexed(s, G)
    <3>1. Indexed(s, F)
      BY <1>1, <2>1 DEF KnowsResponses
    <3>2. \A k \in 1..Len(T) : T[k].item \in Items(s) /\ T[k].index = IndexOf(s, T[k].item)
      <4> TAKE k \in 1..Len(T)
      <4>1. PICK item, index, pieces :
              /\ item \in Items(s) /\ index = IndexOf(s, item)
              /\ T[k] = ItemDone(item, index, pieces)
        BY <1>3 DEF ClosesItems
      <4>2. T[k].item = item /\ T[k].index = index
        BY <4>1 DEF ItemDone
      <4> QED
        BY <4>1, <4>2
    <3>3. /\ Len(F) \in Nat /\ DOMAIN F = 1..Len(F)
          /\ DOMAIN (F \o T) = 1..(Len(F) + Len(T))
          /\ \A k \in 1..(Len(F) + Len(T)) : (F \o T)[k] = IF k <= Len(F) THEN F[k] ELSE T[k - Len(F)]
      BY <1>4, <1>9, Joined, SequenceFacts
    <3>4. Indexed(s, F \o T)
      <4> SUFFICES ASSUME NEW k \in DOMAIN (F \o T), "item" \in DOMAIN (F \o T)[k]
                   PROVE  /\ (F \o T)[k].item \in Items(s)
                          /\ (F \o T)[k].index = IndexOf(s, (F \o T)[k].item)
        BY DEF Indexed
      <4>1. CASE k <= Len(F)
        <5>1. k \in DOMAIN F /\ (F \o T)[k] = F[k]
          BY <3>3, <4>1
        <5> QED
          BY <3>1, <5>1 DEF Indexed
      <4>2. CASE k > Len(F)
        <5>1. k - Len(F) \in 1..Len(T) /\ (F \o T)[k] = T[k - Len(F)]
          BY <1>4, <3>3, <4>2
        <5> QED
          BY <3>2, <5>1
      <4> QED
        BY <3>3, <4>1, <4>2
    <3> DEFINE H == F \o T
    <3> HIDE DEF H
    <3>5. \A k \in DOMAIN (H \o <<end>>) :
            \/ k \in DOMAIN H /\ (H \o <<end>>)[k] = H[k]
            \/ (H \o <<end>>)[k] = end
      BY <1>15, FramePlace DEF H
    <3>6. Indexed(s, H)
      BY <3>4 DEF H
    <3>7. Indexed(s, H \o <<end>>)
      BY <1>14, <3>5, <3>6 DEF Indexed
    <3> QED
      BY <3>7 DEF H
  <2>2. DOMAIN s.calls \subseteq Nat
    BY <1>1, <1>2
  <2> QED
    BY <2>1, <2>2, IndexedInPlace
<1> HIDE DEF G
<1>19. AnswerIn(y) = ToldAnswer(Transcript(E))
  <2>1. (ingress # "anthropic") = TRUE
    OBVIOUS
  <2>2. Agrees(y, h, ingress # "anthropic")
    BY <1>11, <2>1
  <2> QED
    BY <2>2, AnswerAsHeard
<1>20. Framed(y, ingress = "chat")
  BY <1>11 DEF Framed
<1>21. G # <<>> /\ E[1] # Done => G[1].type = FirstFrame
  BY <1>17 DEF FirstFrame, Created
<1>22. FaithfulTo(E, G, TRUE)
  BY <1>12, <1>13, <1>15, <1>18, <1>19, <1>20, <1>21 DEF FaithfulTo
<1> QED
  BY <1>16, <1>22 DEF end, T

-----------------------------------------------------------------------------
(* An Anthropic stream is closed.                                          *)
TextStopped(s) == IF s.open THEN <<BlockStop(s.block)>> ELSE <<>>
CallsStopped(s) ==
  LET calls == Sorted(DOMAIN s.calls) IN
  [k \in DOMAIN calls |-> BlockStop(s.calls[calls[k]])]
BlocksStopped(s) == TextStopped(s) \o CallsStopped(s)

\* Each block that is open is stopped once.
BlockAt(s, k) ==
  LET a == Len(TextStopped(s)) IN IF k <= a THEN s.block ELSE s.calls[k - a - 1]
StopsBlocks(s, x, T) ==
  /\ Sequence(T)
  /\ \A k \in 1..Len(T) :
       /\ BlockAt(s, k) \in Opened(x) /\ BlockAt(s, k) \notin Closed(x)
       /\ T[k] = BlockStop(BlockAt(s, k))
  /\ \A k, l \in 1..Len(T) : BlockAt(s, k) = BlockAt(s, l) => k = l
  /\ \A b \in Opened(x) : b \in Closed(x) \/ \E k \in 1..Len(T) : BlockAt(s, k) = b
LEMMA BlocksClosed ==
  ASSUME NEW s, NEW x, NEW n \in Nat, Well(x), Len(CallsIn(x)) = n, Blocks(s, x, n)
  PROVE  StopsBlocks(s, x, BlocksStopped(s))
<1> DEFINE A == TextStopped(s)
           C == CallsStopped(s)
           T == BlocksStopped(s)
           a == Len(A)
<1>1. /\ s.block \in Nat /\ s.open \in BOOLEAN /\ DOMAIN s.calls = 0..(n - 1)
      /\ Opened(x) = 0..(s.block - 1) \cup (IF s.open THEN {s.block} ELSE {})
      /\ \A k \in 1..n : KeyOf(x, k) = s.calls[k - 1]
  BY DEF Blocks
<1>2. \A i \in 0..(n - 1) : s.calls[i] \in 0..(s.block - 1) /\ s.calls[i] \notin Closed(x)
  BY DEF Blocks
<1>3. /\ \A b \in 0..(s.block - 1) : b \in Closed(x) \/ \E i \in 0..(n - 1) : b = s.calls[i]
      /\ s.block \notin Closed(x)
  <2>1. /\ Closed(x) \subseteq 0..(s.block - 1)
        /\ \A b \in 0..(s.block - 1) : b \in Closed(x) \cup {s.calls[i] : i \in 0..(n - 1)}
    BY DEF Blocks
  <2>2. s.block \notin 0..(s.block - 1)
    BY <1>1
  <2> QED
    BY <2>1, <2>2
<1>4. \A i, j \in 0..(n - 1) : s.calls[i] = s.calls[j] => i = j
  <2> TAKE i, j \in 0..(n - 1)
  <2>1. DOMAIN CallsIn(x) = 1..n
    BY CallsFacts DEF Well
  <2>2. \A k, l \in 1..n : CallsIn(x)[k].key = CallsIn(x)[l].key => k = l
    BY <2>1 DEF Well, Apart
  <2>3. \A k \in 1..n : CallsIn(x)[k].key = s.calls[k - 1]
    BY <1>1 DEF KeyOf
  <2>4. /\ i + 1 \in 1..n /\ j + 1 \in 1..n /\ (i + 1) - 1 = i /\ (j + 1) - 1 = j
        /\ (i + 1 = j + 1 => i = j)
    OBVIOUS
  <2>5. CallsIn(x)[i + 1].key = s.calls[i] /\ CallsIn(x)[j + 1].key = s.calls[j]
    BY <2>3, <2>4
  <2> QED
    BY <2>2, <2>4, <2>5
<1>5. /\ Sequence(A) /\ a \in {0, 1} /\ (s.open <=> a = 1)
      /\ a = 1 => A[1] = BlockStop(s.block)
  BY <1>1, Short DEF TextStopped
<1>6. PICK calls : calls = Sorted(DOMAIN s.calls)
  OBVIOUS
<1>7. DOMAIN calls = 1..n /\ \A k \in 1..n : calls[k] = k - 1
  BY <1>1, <1>6, SortedIs
<1>8. C = [k \in 1..n |-> BlockStop(s.calls[calls[k]])]
  BY <1>6, <1>7 DEF CallsStopped
<1> HIDE DEF C
<1>9. C = [k \in 1..n |-> C[k]] /\ \A k \in 1..n : C[k] = BlockStop(s.calls[k - 1])
  BY <1>7, <1>8
<1>10. Sequence(C) /\ Len(C) = n
  BY <1>9, Numbered
<1>11. \A k : BlockAt(s, k) = IF k <= a THEN s.block ELSE s.calls[k - a - 1]
  BY DEF BlockAt
<1> HIDE DEF A
<1>12. /\ Sequence(A \o C) /\ Len(A \o C) = a + n
       /\ \A k \in 1..(a + n) : (A \o C)[k] = IF k <= a THEN A[k] ELSE C[k - a]
  BY <1>5, <1>10, Joined
<1>13. T = A \o C
  BY DEF BlocksStopped, A, C
<1> HIDE DEF T
<1>14. Sequence(T) /\ Len(T) = a + n
       /\ \A k \in 1..(a + n) : T[k] = IF k <= a THEN A[k] ELSE C[k - a]
  BY <1>12, <1>13
<1>15. \A k \in 1..(a + n) :
         \/ k = 1 /\ a = 1 /\ k <= a
         \/ k > a /\ k - a - 1 \in 0..(n - 1) /\ k - a \in 1..n /\ (k - a) - 1 = k - a - 1
  <2> HIDE DEF a
  <2>1. TAKE k \in 1..(a + n)
  <2>2. CASE k <= a
    <3>1. a = 1 /\ k = 1
      BY <1>5, <2>2
    <3> QED
      BY <2>2, <3>1
  <2>3. CASE ~(k <= a)
    <3>1. a \in Nat
      BY <1>5
    <3> QED
      BY <2>3, <3>1
  <2> QED
    BY <2>2, <2>3
<1> HIDE DEF a
<1>16. ASSUME NEW k \in 1..Len(T)
       PROVE  /\ BlockAt(s, k) \in Opened(x) /\ BlockAt(s, k) \notin Closed(x)
              /\ T[k] = BlockStop(BlockAt(s, k))
  <2>1. k \in 1..(a + n)
    BY <1>14
  <2>2. CASE k <= a
    <3>1. k = 1 /\ a = 1 /\ s.open /\ BlockAt(s, k) = s.block /\ T[k] = A[1]
      BY <1>5, <1>11, <1>14, <1>15, <2>1, <2>2
    <3> QED
      BY <1>1, <1>3, <1>5, <3>1
  <2>3. CASE ~(k <= a)
    <3>1. /\ k - a - 1 \in 0..(n - 1) /\ BlockAt(s, k) = s.calls[k - a - 1]
          /\ T[k] = C[k - a] /\ C[k - a] = BlockStop(s.calls[k - a - 1])
      BY <1>9, <1>11, <1>14, <1>15, <2>1, <2>3
    <3> QED
      BY <1>1, <1>2, <3>1
  <2> QED
    BY <2>2, <2>3
<1>17. ASSUME NEW k \in 1..Len(T), NEW l \in 1..Len(T), BlockAt(s, k) = BlockAt(s, l)
       PROVE  k = l
  <2>1. k \in 1..(a + n) /\ l \in 1..(a + n)
    BY <1>14
  <2>2. \A m \in 1..(a + n) :
          \/ m = 1 /\ a = 1 /\ BlockAt(s, m) = s.block
          \/ m - a - 1 \in 0..(n - 1) /\ BlockAt(s, m) = s.calls[m - a - 1]
    BY <1>11, <1>15, <1>5
  <2>3. \A i \in 0..(n - 1) : s.calls[i] # s.block
    BY <1>1, <1>2
  <2>4. k - a - 1 = l - a - 1 => k = l
    BY <1>5, <2>1
  <2> QED
    BY <1>4, <1>17, <2>1, <2>2, <2>3, <2>4
<1>18. ASSUME NEW b \in Opened(x), b \notin Closed(x)
       PROVE  \E k \in 1..Len(T) : BlockAt(s, k) = b
  <2>1. CASE b \in 0..(s.block - 1)
    <3>1. PICK i \in 0..(n - 1) : b = s.calls[i]
      BY <1>3, <1>18, <2>1
    <3>2. a + i + 1 \in 1..Len(T) /\ ~(a + i + 1 <= a) /\ (a + i + 1) - a - 1 = i
      BY <1>5, <1>14
    <3>3. BlockAt(s, a + i + 1) = s.calls[i]
      BY <1>11, <3>2
    <3> QED
      BY <3>1, <3>2, <3>3
  <2>2. CASE b \notin 0..(s.block - 1)
    <3>1. s.open /\ b = s.block
      BY <1>1, <1>18, <2>2
    <3>2. 1 \in 1..Len(T) /\ BlockAt(s, 1) = s.block
      BY <1>5, <1>11, <1>14, <3>1
    <3> QED
      BY <3>1, <3>2
  <2> QED
    BY <2>1, <2>2
<1>19. StopsBlocks(s, x, T)
  BY <1>14, <1>16, <1>17, <1>18 DEF StopsBlocks
<1> QED
  BY <1>19 DEF T

\* What is sent at the end of an Anthropic stream is faithful, too.
LEMMA AnthropicFaithful ==
  ASSUME ingress = "anthropic", NEW E, NEW n, NEW h, Heeding(E, n, h),
         NEW s, NEW F, KnowsAnthropic(s, F, h, n), F # <<>> \/ E[1] = Done,
         NEW stop, NEW tokens
  PROVE  FaithfulTo(E, F \o (BlocksStopped(s) \o <<MessageDelta(stop, tokens), MessageStop>>),
                    TRUE)
<1> DEFINE x == Transcript(F)
           T == BlocksStopped(s)
           delta == MessageDelta(stop, tokens)
           w == [k \in 1..Len(T) |-> Said("close", None, BlockAt(s, k), None)]
<1>1. n \in Nat /\ Len(CallsIn(h)) = n
  BY DEF Heeding, Heeds
<1>2. /\ Sayings(F) /\ Agrees(x, h, FALSE) /\ Framed(x, FALSE) /\ Blocks(s, x, n)
      /\ F # <<>> => F[1].type = "message_start"
  BY DEF KnowsAnthropic
<1>3. Well(x) /\ Len(CallsIn(x)) = n
  BY <1>1, <1>2 DEF Agrees
<1>4. StopsBlocks(s, x, T)
  BY <1>1, <1>2, <1>3, BlocksClosed
<1> HIDE DEF T
<1>5. Sequence(T) /\ Len(T) \in Nat /\ DOMAIN T = 1..Len(T)
  BY <1>4, SequenceFacts DEF StopsBlocks
<1>6. Sequence(w) /\ Len(w) = Len(T) /\ DOMAIN w = 1..Len(T)
  <2>1. PICK g : g = w
    OBVIOUS
  <2>2. g = [k \in 1..Len(T) |-> g[k]]
    BY <2>1
  <2> QED
    BY <1>5, <2>1, <2>2, Numbered
<1>7. \A k \in 1..Len(T) :
        /\ w[k].act = "close" /\ w[k].key = BlockAt(s, k)
        /\ w[k] = Said("close", None, BlockAt(s, k), None)
  BY DEF Said
<1> HIDE DEF w
<1>8. \A k \in 1..Len(T) : SaidBy(T[k]) = <<w[k]>>
  BY <1>4, <1>7, BlockFrames DEF StopsBlocks
<1>9. Shuts(w, x)
  <2>1. \A k \in 1..Len(T) : w[k].key \in Opened(x) /\ w[k].key \notin Closed(x)
    BY <1>4, <1>7 DEF StopsBlocks
  <2>2. \A k, l \in 1..Len(T) : w[k].key = w[l].key => k = l
    BY <1>4, <1>7 DEF StopsBlocks
  <2> QED
    BY <1>6, <1>7, <2>1, <2>2 DEF Shuts
<1>10. Sequence(x) /\ Sequence(F)
  BY <1>2, TranscriptSequence DEF Sayings
<1> DEFINE y == x \o w
<1>11. Sayings(F \o T) /\ Transcript(F \o T) = y
  BY <1>2, <1>5, <1>6, <1>8, ShutFrames
<1>12. Framed(y, FALSE) /\ Agrees(y, h, FALSE) /\ Opened(y) = Opened(x)
  BY <1>2, <1>9, <1>10, ShutFramed, ShutAgrees, ShutKeys
<1>13. Opened(y) \subseteq Closed(y)
  <2>1. Closed(y) = Closed(x) \cup {w[k].key : k \in 1..Len(w)}
    BY <1>9, <1>10, ShutKeys
  <2> HIDE DEF y
  <2>2. \A b \in Opened(x) : b \in Closed(x) \/ \E k \in 1..Len(w) : w[k].key = b
    BY <1>4, <1>6, <1>7 DEF StopsBlocks
  <2> QED
    BY <1>12, <2>1, <2>2
<1> HIDE DEF y, x
<1> DEFINE H == (F \o T) \o <<delta>>
           G == H \o <<MessageStop>>
<1>14. SaidBy(delta) = <<>> /\ SaidBy(MessageStop) = <<>>
  BY DEF SaidBy, MessageDelta, MessageStop
<1> HIDE DEF delta
<1>15. Sayings(H) /\ Transcript(H) = y /\ Sequence(F \o T)
  BY <1>11, <1>14, FrameSilent
<1>16. Sequence(H) /\ H # <<>>
  BY <1>15, FramePlace
<1>17. G = F \o (T \o <<delta, MessageStop>>)
  <2>1. H = F \o (T \o <<delta>>)
    BY <1>5, <1>10, Short, ThreeJoined, SMTT(30)
  <2>2. Sequence(T \o <<delta>>)
    BY <1>5, Short, Joined
  <2>3. G = F \o ((T \o <<delta>>) \o <<MessageStop>>)
    <3>1. PICK u : u = T \o <<delta>>
      OBVIOUS
    <3>2. Sequence(u) /\ Sequence(F)
      BY <1>10, <2>2, <3>1
    <3>3. PICK v : v = <<MessageStop>>
      OBVIOUS
    <3>4. Sequence(v)
      BY <3>3, Short
    <3>5. (F \o u) \o v = F \o (u \o v)
      BY <3>2, <3>4, ThreeJoined
    <3> QED
      BY <2>1, <3>1, <3>3, <3>5
  <2>4. (T \o <<delta>>) \o <<MessageStop>> = T \o (<<delta>> \o <<MessageStop>>)
    BY <1>5, Short, ThreeJoined
  <2>5. <<delta>> \o <<MessageStop>> = <<delta, MessageStop>>
    <3>1. PICK p : p = delta
      OBVIOUS
    <3>2. PICK q : q = MessageStop
      OBVIOUS
    <3>3. PICK u, v, r : u = <<p>> /\ v = <<q>> /\ r = <<p, q>>
      OBVIOUS
    <3>4. /\ Sequence(u) /\ Len(u) = 1 /\ u[1] = p /\ Sequence(v) /\ Len(v) = 1 /\ v[1] = q
          /\ Sequence(r) /\ Len(r) = 2 /\ r[1] = p /\ r[2] = q
      BY <3>3, Short
    <3>5. /\ Sequence(u \o v) /\ Len(u \o v) = 1 + 1
          /\ \A k \in 1..(1 + 1) : (u \o v)[k] = IF k <= 1 THEN u[k] ELSE v[k - 1]
      BY <3>4, Joined
    <3>6. u \o v = r
      <4>1. PICK z : z = u \o v
        OBVIOUS
      <4>2. /\ Sequence(z) /\ Len(z) = Len(r)
            /\ \A k \in 1..2 : z[k] = IF k <= 1 THEN u[k] ELSE v[k - 1]
        BY <3>4, <3>5, <4>1
      <4>3. \A k \in 1..Len(z) : z[k] = r[k]
        BY <3>4, <4>2
      <4>4. z = r
        BY <3>4, <4>2, <4>3, SameSequence
      <4> QED
        BY <4>1, <4>4
    <3> QED
      BY <3>1, <3>2, <3>3, <3>6
  <2> QED
    BY <2>3, <2>4, <2>5
<1>18. E[1] # Done => G # <<>> /\ G[1].type = "message_start"
  <2>1. ASSUME E[1] # Done
        PROVE  F \o T # <<>> /\ (F \o T)[1].type = "message_start"
    <3>1. F # <<>> /\ F[1].type = "message_start"
      BY <1>2, <2>1
    <3>2. Len(F) \in Nat \ {0}
      BY <1>10, <3>1, SequenceFacts
    <3>3. /\ Len(F \o T) = Len(F) + Len(T)
          /\ \A k \in 1..(Len(F) + Len(T)) : (F \o T)[k] = IF k <= Len(F) THEN F[k] ELSE T[k - Len(F)]
      BY <1>5, <1>10, Joined
    <3>4. 1 \in 1..(Len(F) + Len(T)) /\ 1 <= Len(F)
      BY <1>5, <3>2
    <3>5. (F \o T)[1] = F[1] /\ Len(F \o T) > 0
      BY <1>5, <3>2, <3>3, <3>4
    <3> QED
      BY <3>1, <3>5, Short
  <2>2. E[1] # Done => H[1].type = "message_start"
    BY <1>15, <2>1, FramePlace
  <2> HIDE DEF H
  <2> QED
    BY <1>16, <2>2, FramePlace
<1>19. Transcript(G) = y
  <2> HIDE DEF H
  <2> QED
    BY <1>14, <1>15, FrameSilent
<1> HIDE DEF G
<1>20. AnswerIn(y) = ToldAnswer(Transcript(E))
  <2>1. (ingress # "anthropic") = FALSE
    OBVIOUS
  <2>2. Agrees(y, h, ingress # "anthropic")
    BY <1>12, <2>1
  <2> QED
    BY <2>2, AnswerAsHeard
<1>21. Framed(y, ingress = "chat")
  BY <1>12 DEF Framed
<1>22. G # <<>> /\ E[1] # Done => G[1].type = FirstFrame
  BY <1>18 DEF FirstFrame
<1>23. FaithfulTo(E, G, TRUE)
  BY <1>13, <1>19, <1>20, <1>21, <1>22 DEF FaithfulTo
<1> QED
  BY <1>17, <1>23 DEF delta, T

\* Both sinks close their streams like this.
LEMMA FinishTells ==
  ASSUME NEW s
  PROVE  /\ FinishResponses(s)
              = Send(s, ItemsDone(s) \o <<Ended("response.completed", TokensOf(s.usage))>>)
         /\ FinishAnthropic(s)
              = Send(s, BlocksStopped(s)
                        \o <<MessageDelta(s.stop, TokensOf(s.usage)), MessageStop>>)
<1>1. FinishResponses(s)
        = Send(s, ItemsDone(s) \o <<Ended("response.completed", TokensOf(s.usage))>>)
  BY DEF FinishResponses, ItemsDone, ThoughtDone, MessageDone, CallsDone, CallDone
<1>2. FinishAnthropic(s)
        = Send(s, BlocksStopped(s)
                  \o <<MessageDelta(s.stop, TokensOf(s.usage)), MessageStop>>)
  BY DEF FinishAnthropic, BlocksStopped, TextStopped, CallsStopped
<1> QED
  BY <1>1, <1>2

\* A stream that its sink closes is faithful.
LEMMA TailFaithful ==
  ASSUME ingress \in Protocols, ingress # "chat", NEW E, NEW n, NEW h, Heeding(E, n, h),
         NEW s, Sink(s), NEW R, Sequence(R), KnowsSink(s, R \o s.out, h, n),
         R \o s.out # <<>> \/ E[1] = Done
  PROVE  FaithfulTo(E, R \o TailAfterDone(s).out, TRUE)
<1> DEFINE F == R \o s.out
<1>1. n \in Nat
  BY DEF Heeding, Heeds
<1>2. CASE ingress = "responses"
  <2>1. KnowsResponses(s, F, h, n) /\ ResponsesSink(s)
    BY <1>2 DEF KnowsSink, Sink
  <2> DEFINE tail == ItemsDone(s) \o <<Ended("response.completed", TokensOf(s.usage))>>
  <2>2. Sequence(s.out) /\ DOMAIN s = {"started", "thinking", "talking", "thought", "text",
                                       "calls", "usage", "out"}
    BY <2>1 DEF ResponsesSink, Quiet
  <2>3. TailAfterDone(s) = Send(s, tail)
    BY <1>2, FinishTells DEF TailAfterDone
  <2>4. Sequence(ItemsDone(s))
    <3>1. s.thinking \in BOOLEAN /\ s.talking \in BOOLEAN /\ DOMAIN s.calls = 0..(n - 1)
      BY <2>1 DEF KnowsResponses, Tracks
    <3> QED
      BY <1>1, <3>1, ItemsDoneAre
  <2>5. Sequence(tail)
    BY <2>4, Short, Joined
  <2>6. FaithfulTo(E, F \o tail, TRUE)
    <3>1. F # <<>> \/ E[1] = Done
      OBVIOUS
    <3>2. PICK tokens : tokens = TokensOf(s.usage)
      OBVIOUS
    <3> HIDE DEF F
    <3>3. FaithfulTo(E, F \o (ItemsDone(s) \o <<Ended("response.completed", tokens)>>), TRUE)
      BY <1>2, <2>1, <3>1, ResponsesFaithful
    <3> QED
      BY <3>2, <3>3
  <2> HIDE DEF tail
  <2>7. TailAfterDone(s).out = s.out \o tail
    BY <2>2, <2>3 DEF Send
  <2>8. R \o (s.out \o tail) = F \o tail
    <3>1. PICK o : o = s.out
      OBVIOUS
    <3>2. R \o (o \o tail) = (R \o o) \o tail
      BY <2>2, <2>5, <3>1, ThreeJoined
    <3> QED
      BY <3>1, <3>2
  <2> QED
    BY <2>6, <2>7, <2>8
<1>3. CASE ingress = "anthropic"
  <2>1. KnowsAnthropic(s, F, h, n) /\ AnthropicSink(s)
    BY <1>3 DEF KnowsSink, Sink
  <2> DEFINE tail == BlocksStopped(s) \o <<MessageDelta(s.stop, TokensOf(s.usage)), MessageStop>>
  <2>2. Sequence(s.out) /\ DOMAIN s = {"started", "block", "open", "calls", "usage", "stop",
                                       "out"}
    BY <2>1 DEF AnthropicSink, Quiet
  <2>3. TailAfterDone(s) = Send(s, tail)
    BY <1>3, FinishTells DEF TailAfterDone
  <2>4. Sequence(BlocksStopped(s))
    <3>1. PICK x : x = Transcript(F)
      OBVIOUS
    <3>2. Agrees(x, h, FALSE) /\ Blocks(s, x, n)
      BY <2>1, <3>1 DEF KnowsAnthropic
    <3>3. Well(x) /\ Len(CallsIn(x)) = n
      BY <1>1, <3>2 DEF Agrees, Heeding, Heeds
    <3> QED
      BY <1>1, <3>2, <3>3, BlocksClosed DEF StopsBlocks
  <2>5. Sequence(tail)
    <3>1. PICK u, v : u = MessageDelta(s.stop, TokensOf(s.usage)) /\ v = MessageStop
      OBVIOUS
    <3>2. Sequence(<<u, v>>)
      BY Short
    <3>3. Sequence(BlocksStopped(s) \o <<u, v>>)
      BY <2>4, <3>2, Joined
    <3> QED
      BY <3>1, <3>3
  <2>6. FaithfulTo(E, F \o tail, TRUE)
    <3>1. F # <<>> \/ E[1] = Done
      OBVIOUS
    <3>2. PICK tokens, stop : tokens = TokensOf(s.usage) /\ stop = s.stop
      OBVIOUS
    <3> HIDE DEF F
    <3>3. FaithfulTo(E, F \o (BlocksStopped(s) \o <<MessageDelta(stop, tokens), MessageStop>>),
                     TRUE)
      BY <1>3, <2>1, <3>1, AnthropicFaithful
    <3> QED
      BY <3>2, <3>3
  <2> HIDE DEF tail
  <2>7. TailAfterDone(s).out = s.out \o tail
    BY <2>2, <2>3 DEF Send
  <2>8. R \o (s.out \o tail) = F \o tail
    <3>1. PICK o : o = s.out
      OBVIOUS
    <3>2. R \o (o \o tail) = (R \o o) \o tail
      BY <2>2, <2>5, <3>1, ThreeJoined
    <3> QED
      BY <3>1, <3>2
  <2> QED
    BY <2>6, <2>7, <2>8
<1> QED
  BY <1>2, <1>3 DEF Protocols

\* And so is a Chat client's, with its [DONE].
LEMMA ChatEndFaithful ==
  ASSUME ingress = "chat", NEW E, NEW F, Sayings(F), FaithfulTo(E, F, FALSE),
         F # <<>> \/ E[1] = Done
  PROVE  FaithfulTo(E, F \o <<Done>>, TRUE)
<1>1. SaidBy(Done) = <<>>
  BY DEF SaidBy, Done
<1>2. PICK d : d = Done
  OBVIOUS
<1>3. Transcript(F \o <<d>>) = Transcript(F) /\ Sequence(F)
  BY <1>1, <1>2, FrameSilent
<1>4. F # <<>> => (F \o <<d>>)[1] = F[1]
  BY <1>3, FramePlace
<1>5. FaithfulTo(E, F \o <<d>>, TRUE)
  BY <1>3, <1>4 DEF FaithfulTo
<1> QED
  BY <1>2, <1>5

-----------------------------------------------------------------------------
(* One turn of a translated stream.                                        *)

\* What has been heard of an event is told.
ToldOf(E, src, next, chunks, told, g) ==
  /\ Hearer(E, src, next, g) /\ KnowsSink(told, relayed \o told.out, g, next.calls)
  /\ Sink(told) /\ Sequence(relayed \o told.out)
  /\ chunks # <<>> \/ relayed # <<>> => relayed \o told.out # <<>>
LEMMA ToldNext ==
  ASSUME Types, NEW h, Hearer(received, source, speech, h),
         KnowsSink(sink, relayed, h, speech.calls),
         NEW E, NEW src, NEW next, NEW chunks,
         ChunksHeard(E, src, next, speech.calls, chunks, h),
         NEW told, told = FoldLeft(TellClient, sink, chunks)
  PROVE  \E g : ToldOf(E, src, next, chunks, told, g)
<1>1. ingress \in Protocols /\ Sink(sink) /\ sink.out = <<>> /\ Sequence(relayed)
  BY DEF Types
<1>2. CASE chunks = <<>> /\ next.calls = speech.calls /\ Hearer(E, src, next, h)
  <2>1. told = sink
    <3>1. OneOrNone(chunks, 0)
      BY <1>2 DEF OneOrNone
    <3> QED
      BY <1>2, <3>1, ChunksTold
  <2>2. relayed \o told.out = relayed
    BY <1>1, <2>1, NothingBefore
  <2>3. ToldOf(E, src, next, chunks, told, h)
    BY <1>1, <1>2, <2>1, <2>2 DEF ToldOf
  <2> QED
    BY <2>3
<1>3. ASSUME NEW c, chunks = <<c>>, ChunkFits(c, speech.calls, next.calls),
             Hearer(E, src, next, h \o SaidBy(c))
      PROVE  \E g : ToldOf(E, src, next, chunks, told, g)
  <2>1. told = TellClient(sink, c)
    <3>1. OneOrNone(chunks, c) /\ chunks # <<>>
      BY <1>3 DEF OneOrNone
    <3> QED
      BY <3>1, ChunksTold
  <2>2. PICK counts : /\ PartsFit(c.calls, counts) /\ counts[0] = speech.calls
                      /\ counts[Len(c.calls)] = next.calls
    BY <1>3 DEF ChunkFits
  <2>3. Chunk(c) /\ Heeds(h, counts[0]) /\ KnowsSink(sink, relayed, h, counts[0])
    BY <1>3, <2>2 DEF ChunkFits, Hearer, Heeding
  <2>4. /\ KnowsSink(told, relayed \o told.out, h \o SaidBy(c), next.calls)
        /\ relayed \o told.out # <<>>
    BY <1>1, <2>1, <2>2, <2>3, SinkKnown
  <2>5. Sink(told)
    BY <1>1, <2>1, <2>3, TellOne
  <2>6. Sequence(told.out)
    BY <1>1, <2>5 DEF Sink, ResponsesSink, AnthropicSink, ChatSink, Quiet, Protocols
  <2>7. Sequence(relayed \o told.out)
    BY <1>1, <2>6, Joined
  <2>8. ToldOf(E, src, next, chunks, told, h \o SaidBy(c))
    BY <1>3, <2>4, <2>5, <2>7 DEF ToldOf
  <2> QED
    BY <2>8
<1> QED
  BY <1>2, <1>3 DEF ChunksHeard

\* Before a stream is closed something has been told.
LEMMA WillTell ==
  ASSUME Types, ReportsInOrder, HasBegun => relayed # <<>>,
         NEW e, NEW next, Follows(e, next), Speaks(e),
         NEW chunks, chunks = HearProvider(e).chunks
  PROVE  /\ UpstreamTerminal(e) => chunks # <<>> \/ relayed # <<>>
         /\ egress = "chat" => chunks # <<>>
         /\ egress = "anthropic" /\ next.begun => chunks # <<>> \/ relayed # <<>>
<1>1. egress \in Protocols
  BY DEF Types
<1>2. CASE egress = "chat"
  <2>1. chunks = <<e>>
    BY <1>2 DEF HearProvider, Heard
  <2> QED
    BY <1>2, <2>1 DEF UpstreamTerminal
<1>3. CASE egress = "responses"
  <2>1. ASSUME e.type \in {"response.completed", "response.incomplete"}
        PROVE  chunks # <<>>
    <3>1. ResponsesToChat(source, e)
            = Heard(source, <<[Blank EXCEPT !.finish = ResponsesFinish(source, e.type),
                                            !.usage = e.usage]>>)
      BY <2>1 DEF ResponsesToChat
    <3>2. PICK c : ResponsesToChat(source, e) = Heard(source, <<c>>)
      BY <3>1
    <3>3. chunks = <<c>>
      BY <1>3, <3>2 DEF HearProvider, Heard
    <3> QED
      BY <3>3
  <2> QED
    BY <1>3, <2>1 DEF UpstreamTerminal
<1>4. CASE egress = "anthropic"
  <2>1. ASSUME e.type = "message_start"
        PROVE  chunks # <<>>
    <3>1. PICK s : AnthropicToChat(source, e) = Heard(s, <<Blank>>)
      BY <2>1 DEF AnthropicToChat
    <3>2. chunks = <<Blank>>
      BY <1>4, <3>1 DEF HearProvider, Heard
    <3> QED
      BY <3>2
  <2>2. speech.begun => relayed # <<>>
    BY <1>4 DEF HasBegun
  <2>3. /\ next.begun => speech.begun \/ e.type = "message_start"
        /\ e.type = "message_stop" => speech.ended
    BY <1>4 DEF Follows
  <2>4. speech.ended => speech.begun
    BY <1>4 DEF ReportsInOrder
  <2> QED
    BY <1>4, <2>1, <2>2, <2>3, <2>4 DEF UpstreamTerminal
<1> QED
  BY <1>1, <1>2, <1>3, <1>4 DEF Protocols

\* What is always so of what the provider has said and what the client has
\* been told.
KInv ==
  IF ~translated THEN Answer(relayed) = Answer(received)
  ELSE IF verdict = "streaming" THEN Underway
  ELSE FaithfulTo(received, relayed, verdict = "completed")

\* So is what has been told when the stream is over.
LEMMA FaithfulNext ==
  ASSUME translated', ingress' = ingress, verdict' # "streaming",
         NEW whole, whole = (verdict' = "completed"), FaithfulTo(received', relayed', whole)
  PROVE  KInv'
<1>1. (FaithfulTo(received, relayed, verdict = "completed"))'
  BY DEF FaithfulTo, ToldAnswer, FirstFrame
<1> QED
  BY <1>1 DEF KInv

\* The stream goes on: it is under way as before.
LEMMA GoesOn ==
  ASSUME Types, translated, verdict = "streaming",
         NEW e, NEW next, speech' = next, received' = Append(received, e),
         ingress' = ingress, egress' = egress, ~UpstreamTerminal(e), verdict' = verdict,
         NEW chunks, NEW told, NEW g, ToldOf(received', source', next, chunks, told, g),
         HasBegun' => chunks # <<>> \/ relayed # <<>>, Yield(told)
  PROVE  KInv'
<1>1. ingress \in Protocols
  BY DEF Types
<1>2. relayed' = relayed \o told.out /\ sink' = [told EXCEPT !.out = <<>>]
  BY DEF Yield
<1>3. SameBut(told, sink')
  BY <1>2 DEF SameBut
<1>4. KnowsSink(sink', relayed', g, next.calls)
  <2>1. KnowsSink(told, relayed', g, next.calls) /\ Sink(told)
    BY <1>2 DEF ToldOf
  <2>2. PICK t : t = sink'
    OBVIOUS
  <2>3. PICK F : F = relayed'
    OBVIOUS
  <2>4. PICK n : n = next.calls
    OBVIOUS
  <2>5. SameBut(told, t) /\ KnowsSink(told, F, g, n)
    BY <1>3, <2>1, <2>2, <2>3, <2>4
  <2>6. KnowsSink(t, F, g, n)
    BY <1>1, <2>1, <2>5, SinkAlike
  <2> QED
    BY <2>2, <2>3, <2>4, <2>6
<1>5. Hearer(received', source', speech', g)
  BY DEF ToldOf
<1>6. HasBegun' => relayed' # <<>>
  BY <1>2 DEF ToldOf
<1>7. \E h : /\ (Hearer(received, source, speech, h))'
             /\ (KnowsSink(sink, relayed, h, speech.calls))'
  <2>1. (Hearer(received, source, speech, g))'
    BY <1>5 DEF Hearer
  <2>2. (KnowsSink(sink, relayed, g, speech.calls))'
    BY <1>4 DEF KnowsSink
  <2> QED
    BY <2>1, <2>2
<1>8. Underway'
  BY <1>6, <1>7 DEF Underway
<1>9. translated' /\ verdict' = "streaming"
  BY DEF translated
<1> QED
  BY <1>8, <1>9 DEF KInv

\* It completes: what closes it is faithful, too.
LEMMA Completes ==
  ASSUME Types, translated,
         NEW next, NEW chunks, NEW told, NEW g,
         ToldOf(received', source', next, chunks, told, g),
         chunks # <<>> \/ relayed # <<>>,
         ingress' = ingress, egress' = egress, verdict' = "completed",
         Yield(TailAfterTerminal(told))
  PROVE  KInv'
<1>1. ingress \in Protocols /\ Sequence(relayed)
  BY DEF Types
<1>2. /\ Hearer(received', source', next, g) /\ KnowsSink(told, relayed \o told.out, g, next.calls)
      /\ Sink(told) /\ relayed \o told.out # <<>>
  BY DEF ToldOf
<1>3. Heeding(received', next.calls, g)
  BY <1>2 DEF Hearer
<1>4. PICK E, n, F : E = received' /\ n = next.calls /\ F = relayed \o told.out
  OBVIOUS
<1>5. relayed' = relayed \o TailAfterTerminal(told).out
  BY DEF Yield
<1>6. FaithfulTo(E, relayed', TRUE)
  <2>1. CASE ingress = "chat"
    <3>1. TailAfterTerminal(told) = Send(told, <<Done>>)
      BY <2>1 DEF TailAfterTerminal
    <3>2. DOMAIN told = {"out"} /\ Sequence(told.out)
      BY <1>2, <2>1 DEF Sink, ChatSink, Quiet
    <3>3. TailAfterTerminal(told).out = told.out \o <<Done>>
      BY <3>1, <3>2 DEF Send
    <3>4. relayed' = F \o <<Done>>
      <4>1. PICK o, d : o = told.out /\ d = Done
        OBVIOUS
      <4>2. Sequence(<<d>>)
        BY Short
      <4>3. relayed \o (o \o <<d>>) = (relayed \o o) \o <<d>>
        BY <1>1, <3>2, <4>1, <4>2, ThreeJoined
      <4> QED
        BY <1>4, <1>5, <3>3, <4>1, <4>3
    <3>5. Heeding(E, n, g) /\ KnowsSink(told, F, g, n)
      BY <1>2, <1>3, <1>4
    <3>6. FaithfulTo(E, F, FALSE)
      BY <1>1, <3>5, StreamingFaithful
    <3>7. Sayings(F)
      BY <2>1, <3>5 DEF KnowsSink, KnowsChat
    <3>8. F # <<>>
      BY <1>2, <1>4
    <3>9. FaithfulTo(E, F \o <<Done>>, TRUE)
      BY <2>1, <3>6, <3>7, <3>8, ChatEndFaithful
    <3> QED
      BY <3>4, <3>9
  <2>2. CASE ingress # "chat"
    <3>1. TailAfterTerminal(told) = TailAfterDone(told)
      BY <2>2 DEF TailAfterTerminal
    <3>2. /\ Heeding(E, n, g) /\ KnowsSink(told, relayed \o told.out, g, n)
          /\ relayed \o told.out # <<>>
      BY <1>2, <1>3, <1>4
    <3>3. FaithfulTo(E, relayed \o TailAfterDone(told).out, TRUE)
      BY <1>1, <1>2, <2>2, <3>2, TailFaithful
    <3> QED
      BY <1>5, <3>1, <3>3
  <2> QED
    BY <2>1, <2>2
<1>7. translated'
  BY DEF translated
<1> QED
  BY <1>4, <1>6, <1>7, FaithfulNext

\* A turn that relays an event.
LEMMA RelayUnderway ==
  ASSUME Types, ReportsInOrder, translated, verdict = "streaming", Underway,
         NEW e, NEW next, Utters(e, next), Speaks(e), Relay(e)
  PROVE  KInv'
<1>1. Follows(e, next) /\ Say(e, next) /\ Hearable(e, next)
  BY DEF Utters
<1>2. /\ speech' = next /\ received' = Append(received, e)
      /\ ingress' = ingress /\ egress' = egress
  BY <1>1, OrderKept
<1>3. PICK h : Hearer(received, source, speech, h) /\ KnowsSink(sink, relayed, h, speech.calls)
  BY DEF Underway
<1>4. HeardSoFar(received, source, speech, h)
  <2>1. Source(source) /\ speech.parts \in Nat /\ speech.calls \in 0..MaxCalls
    BY DEF Types, Speech
  <2>2. speech.calls \in Nat
    BY <2>1
  <2> QED
    BY <1>3, <2>1, <2>2 DEF HeardSoFar
<1>5. HeardNext(received, e, HearProvider(e), speech, next, h)
  BY <1>1, <1>4 DEF Hearable
<1>6. PICK chunks : chunks = HearProvider(e).chunks
  OBVIOUS
<1>7. PICK told : told = FoldLeft(TellClient, sink, chunks)
  OBVIOUS
<1>8. /\ source' = HearProvider(e).source
      /\ Yield(IF UpstreamTerminal(e) THEN TailAfterTerminal(told) ELSE told)
      /\ verdict' = IF UpstreamTerminal(e) THEN "completed" ELSE verdict
  BY <1>6, <1>7 DEF Relay
<1>9. ChunksHeard(received', source', next, speech.calls, chunks, h)
  BY <1>2, <1>5, <1>6, <1>8 DEF HeardNext
<1>10. PICK g : ToldOf(received', source', next, chunks, told, g)
  BY <1>3, <1>7, <1>9, ToldNext
<1>11. /\ UpstreamTerminal(e) => chunks # <<>> \/ relayed # <<>>
       /\ egress = "chat" => chunks # <<>>
       /\ egress = "anthropic" /\ next.begun => chunks # <<>> \/ relayed # <<>>
  <2>1. HasBegun => relayed # <<>>
    BY DEF Underway
  <2> QED
    BY <1>1, <1>6, <2>1, WillTell
<1>12. HasBegun' => chunks # <<>> \/ relayed # <<>>
  BY <1>2, <1>11 DEF HasBegun
<1>13. CASE UpstreamTerminal(e)
  <2>1. Yield(TailAfterTerminal(told)) /\ verdict' = "completed"
    BY <1>8, <1>13
  <2> QED
    BY <1>2, <1>10, <1>11, <1>13, <2>1, Completes
<1>14. CASE ~UpstreamTerminal(e)
  <2>1. Yield(told) /\ verdict' = verdict
    BY <1>8, <1>14
  <2> QED
    BY <1>2, <1>10, <1>12, <1>14, <2>1, GoesOn
<1> QED
  BY <1>13, <1>14

\* [DONE] closes the client's stream.
LEMMA DoneUnderway ==
  ASSUME Types, translated, egress = "chat", Underway,
         received' = Append(received, Done), ingress' = ingress, egress' = egress,
         CloseAfterDone
  PROVE  KInv'
<1>1. PICK h : Hearer(received, source, speech, h) /\ KnowsSink(sink, relayed, h, speech.calls)
  BY DEF Underway
<1>2. /\ ingress \in Protocols /\ ingress # "chat" /\ Sink(sink) /\ sink.out = <<>>
      /\ Sequence(relayed) /\ Sequence(received)
  BY DEF Types, translated
<1>3. relayed' = relayed \o TailAfterDone(sink).out /\ verdict' = "completed"
  BY DEF CloseAfterDone, Yield
<1>4. relayed \o sink.out = relayed
  BY <1>2, NothingBefore
<1>5. PICK E, n, s, d : E = received' /\ n = speech.calls /\ s = sink /\ d = Done
  OBVIOUS
<1>6. SaidBy(d) = <<>>
  BY <1>5 DEF SaidBy, Done
<1>7. Heeding(received, n, h)
  BY <1>1, <1>5 DEF Hearer
<1>8. Heeding(E, n, h)
  <2>1. Heeding(Append(received, d), n, h)
    BY <1>6, <1>7, HeedSilence
  <2> QED
    BY <1>5, <2>1
<1>9. relayed # <<>> \/ E[1] = Done
  <2>1. CASE received = <<>>
    <3>1. Len(received) = 0
      BY <2>1
    <3>2. Append(received, d)[Len(received) + 1] = d
      BY <1>2, Appended
    <3>3. Len(received) + 1 = 1
      BY <3>1
    <3> QED
      BY <1>5, <3>2, <3>3
  <2>2. CASE received # <<>>
    BY <2>2 DEF Underway, HasBegun
  <2> QED
    BY <2>1, <2>2
<1>10. FaithfulTo(E, relayed \o TailAfterDone(s).out, TRUE)
  <2>1. KnowsSink(s, relayed \o s.out, h, n) /\ (relayed \o s.out # <<>> \/ E[1] = Done)
    BY <1>1, <1>4, <1>5, <1>9
  <2> QED
    BY <1>2, <1>5, <1>8, <2>1, TailFaithful
<1>11. FaithfulTo(E, relayed', TRUE) /\ translated'
  BY <1>3, <1>5, <1>10 DEF translated
<1> QED
  BY <1>3, <1>5, <1>11, FaithfulNext

\* An event that says nothing stops the stream, or the upstream ends early.
LEMMA StopsUnderway ==
  ASSUME Types, translated, Underway, ingress' = ingress, egress' = egress,
         relayed' = relayed, verdict' \in {"refused", "broken"},
         \/ received' = received
         \/ \E e : SaidBy(e) = <<>> /\ received' = Append(received, e)
  PROVE  KInv'
<1>1. PICK h : Hearer(received, source, speech, h) /\ KnowsSink(sink, relayed, h, speech.calls)
  BY DEF Underway
<1>2. PICK E, n : E = received' /\ n = speech.calls
  OBVIOUS
<1>3. Heeding(received, n, h) /\ KnowsSink(sink, relayed, h, n)
  BY <1>1, <1>2 DEF Hearer
<1>4. Heeding(E, n, h)
  <2>1. \A e : SaidBy(e) = <<>> => Heeding(Append(received, e), n, h)
    BY <1>3, HeedSilence
  <2> QED
    BY <1>2, <1>3, <2>1
<1>5. ingress \in Protocols
  BY DEF Types
<1>6. FaithfulTo(E, relayed, FALSE)
  BY <1>3, <1>4, <1>5, StreamingFaithful
<1>7. /\ FaithfulTo(E, relayed', FALSE) /\ translated'
      /\ verdict' # "completed" /\ verdict' # "streaming"
  BY <1>6 DEF translated
<1> QED
  BY <1>2, <1>7, FaithfulNext

-----------------------------------------------------------------------------
(* The invariant of what is said and told.                                 *)

\* Between equal protocols what is told is what is said, or nothing was.
LEMMA NativeNext ==
  ASSUME IInv', ~translated',
         verdict' = "refused" => Transcript(received') = <<>>
  PROVE  KInv'
<1>1. relayed' = received' \/ (relayed' = <<>> /\ Transcript(received') = <<>>)
  <2>1. verdict' # "refused" => relayed' = received'
    <3>1. (~translated /\ verdict # "refused" => relayed = received)'
      BY DEF IInv, Tells
    <3> QED
      BY <3>1 DEF translated
  <2>2. verdict' = "refused" => relayed' = <<>>
    BY DEF IInv, EndShown
  <2>3. CASE verdict' = "refused"
    <3>1. relayed' = <<>>
      BY <2>2, <2>3
    <3>2. Transcript(received') = <<>>
      BY <2>3
    <3> QED
      BY <3>1, <3>2
  <2>4. CASE verdict' # "refused"
    BY <2>1, <2>4
  <2> QED
    BY <2>3, <2>4
<1>2. Answer(relayed') = Answer(received')
  <2>1. CASE relayed' = received'
    BY <2>1
  <2>2. CASE relayed' = <<>> /\ Transcript(received') = <<>>
    <3>1. Answer(relayed') = AnswerIn(Transcript(relayed'))
      BY AnswerIs
    <3>2. Answer(received') = AnswerIn(Transcript(received'))
      BY AnswerIs
    <3> QED
      BY <2>2, <3>1, <3>2, TranscriptNone
  <2> QED
    BY <1>1, <2>1, <2>2
<1> QED
  BY <1>2 DEF KInv

\* Errors say nothing.
LEMMA TroubleSilent ==
  ASSUME NEW e, IsStreamError(e)
  PROVE  SaidBy(e) = <<>> /\ Transcript(Append(<<>>, e)) = <<>>
<1>1. SaidBy(e) = <<>>
  BY DEF IsStreamError, SaidBy
<1>2. Transcript(Append(<<>>, e)) = Transcript(<<>>) \o SaidBy(e)
  BY <1>1, TranscriptNone, TranscriptMore, Short
<1>3. Transcript(Append(<<>>, e)) = <<>> \o <<>>
  BY <1>1, <1>2, TranscriptNone
<1> QED
  BY <1>1, <1>3, NothingBefore, Short

\* Whatever is said is told.
LEMMA UtterTold ==
  ASSUME IInv, KInv, IInv', NEW e, NEW next, Utters(e, next)
  PROVE  KInv'
<1>1. Follows(e, next) /\ Say(e, next) /\ Handle(e)
  BY DEF Utters, Say
<1>2. Types /\ ReportsInOrder /\ (received = <<>> => relayed = <<>>)
  BY DEF IInv, Tells
<1>3. /\ verdict = "streaming" /\ received' = Append(received, e)
      /\ ingress' = ingress /\ egress' = egress /\ translated' = translated
  BY <1>1, <1>2, OrderKept DEF translated
<1>4. CASE e = Done /\ egress = "chat"
  <2>1. CloseAfterDone
    BY <1>1, <1>4, SilentEnds DEF Handle, IsStreamError
  <2>2. CASE translated
    <3>1. Underway
      BY <1>3, <2>2 DEF KInv
    <3>2. received' = Append(received, Done)
      BY <1>3, <1>4
    <3> QED
      BY <1>2, <1>3, <1>4, <2>1, <2>2, <3>1, <3>2, DoneUnderway
  <2>3. CASE ~translated
    <3>1. verdict' # "refused" /\ ~translated'
      BY <1>3, <2>1, <2>3 DEF CloseAfterDone
    <3> QED
      BY <3>1, NativeNext
  <2> QED
    BY <2>2, <2>3
<1>5. CASE Trouble(e)
  <2>1. IsStreamError(e) /\ e.type # "[DONE]"
    BY <1>5, SilentEnds DEF Trouble
  <2>2. SaidBy(e) = <<>>
    BY <2>1, TroubleSilent
  <2>3. CASE translated
    <3>1. relayed' = relayed /\ verdict' \in {"refused", "broken"}
      BY <1>1, <2>1, <2>3 DEF Handle
    <3>2. Underway
      BY <1>3, <2>3 DEF KInv
    <3> QED
      BY <1>2, <1>3, <2>2, <2>3, <3>1, <3>2, StopsUnderway
  <2>4. CASE ~translated
    <3>1. verdict' = "refused" => received = <<>>
      BY <1>1, <1>3, <2>1, <2>4 DEF Handle, Forward
    <3>2. verdict' = "refused" => Transcript(received') = <<>>
      BY <1>3, <2>1, <3>1, TroubleSilent
    <3>3. ~translated'
      BY <1>3, <2>4
    <3> QED
      BY <3>2, <3>3, NativeNext
  <2> QED
    BY <2>3, <2>4
<1>6. CASE Speaks(e)
  <2>1. ~IsStreamError(e) /\ e.type # "[DONE]"
    BY <1>6, SpeaksNoError
  <2>2. IF translated THEN Relay(e) ELSE Forward(e)
    BY <1>1, <2>1 DEF Handle
  <2>3. CASE translated
    <3>1. Underway
      BY <1>3, <2>3 DEF KInv
    <3> QED
      BY <1>2, <1>3, <1>6, <2>2, <2>3, <3>1, RelayUnderway
  <2>4. CASE ~translated
    <3>1. verdict' # "refused" /\ ~translated'
      BY <1>3, <2>2, <2>4 DEF Forward
    <3> QED
      BY <3>1, NativeNext
  <2> QED
    BY <2>3, <2>4
<1> QED
  BY <1>1, <1>4, <1>5, <1>6 DEF Follows

\* So is what has been said when the upstream ends early.
LEMMA CutTold ==
  ASSUME IInv, KInv, IInv', Cut
  PROVE  KInv'
<1>1. /\ verdict = "streaming" /\ received' = received /\ relayed' = relayed
      /\ ingress' = ingress /\ egress' = egress /\ translated' = translated
      /\ verdict' = IF received = <<>> THEN "refused" ELSE "broken"
  BY DEF Cut, provider, translated
<1>2. CASE translated
  <2>1. Underway /\ Types /\ verdict' \in {"refused", "broken"}
    BY <1>1, <1>2 DEF KInv, IInv
  <2> QED
    BY <1>1, <1>2, <2>1, StopsUnderway
<1>3. CASE ~translated
  <2>1. verdict' = "refused" => Transcript(received') = <<>>
    BY <1>1, TranscriptNone
  <2>2. ~translated'
    BY <1>1, <1>3
  <2> QED
    BY <2>1, <2>2, NativeNext
<1> QED
  BY <1>2, <1>3

\* The invariant is inductive.
LEMMA NextTold ==
  ASSUME IInv, KInv, IInv', [Next]_vars
  PROVE  KInv'
<1>1. CASE Next
  <2>1. Types
    BY DEF IInv
  <2>2. Cut \/ \E e, next : Utters(e, next)
    BY <1>1, <2>1, AllUtter
  <2> QED
    BY <2>2, CutTold, UtterTold
<1>2. CASE UNCHANGED vars
  <2>1. /\ ingress' = ingress /\ egress' = egress /\ speech' = speech
        /\ received' = received /\ source' = source /\ sink' = sink
        /\ relayed' = relayed /\ verdict' = verdict /\ translated' = translated
    BY <1>2 DEF vars, provider, relay, translated
  <2>2. Underway => Underway'
    BY <2>1 DEF Underway, Hearer, KnowsSink, HasBegun
  <2>3. FaithfulTo(received, relayed, verdict = "completed")
          => (FaithfulTo(received, relayed, verdict = "completed"))'
    BY <2>1 DEF FaithfulTo, ToldAnswer, FirstFrame
  <2> QED
    BY <2>1, <2>2, <2>3 DEF KInv
<1> QED
  BY <1>1, <1>2

\* Nothing has been said.
LEMMA NothingSaid ==
  ASSUME NEW z, z = <<>>
  PROVE  /\ Sequence(z) /\ DOMAIN z = {} /\ Sayings(z) /\ Transcript(z) = z
         /\ Opened(z) = {} /\ Closed(z) = {} /\ KindsIn(z) = {}
         /\ CallsIn(z) = z /\ Len(z) = 0 /\ \A by, of : ReadOf(by, of, z) = z
<1>1. Sequence(z) /\ Len(z) = 0 /\ DOMAIN z = {}
  BY Short
<1>2. Sayings(z) /\ Transcript(z) = z /\ \A by, of : ReadOf(by, of, z) = z
  BY TranscriptNone, ReadNone
<1>3. CallsIn(z) = z
  BY <1>2 DEF CallsIn
<1>4. Opened(z) = {} /\ Closed(z) = {} /\ KindsIn(z) = {}
  BY <1>1 DEF Opened, Closed, KeysIn, KindsIn
<1> QED
  BY <1>1, <1>2, <1>3, <1>4

\* The sources and the sinks know of nothing.
LEMMA NothingHeard ==
  ASSUME NEW z, z = <<>>
  PROVE  /\ Well(z) /\ Heeding(z, 0, z)
         /\ \A thinks \in BOOLEAN : Agrees(z, z, thinks)
         /\ \A loose \in BOOLEAN : Framed(z, loose)
<1>1. /\ Sequence(z) /\ DOMAIN z = {} /\ Sayings(z) /\ Transcript(z) = z
      /\ Opened(z) = {} /\ Closed(z) = {} /\ KindsIn(z) = {}
      /\ CallsIn(z) = z /\ Len(z) = 0 /\ \A by, of : ReadOf(by, of, z) = z
  BY NothingSaid
<1>2. Well(z)
  BY <1>1 DEF Well, Apart
<1>3. 1..0 = {} /\ 0..(0 - 1) = {}
  OBVIOUS
<1>4. \A thinks \in BOOLEAN : Agrees(z, z, thinks)
  BY <1>1, <1>2, <1>3 DEF Agrees
<1>5. \A loose \in BOOLEAN : Framed(z, loose)
  BY <1>1 DEF Framed
<1>6. Heeds(z, 0)
  <2>1. Well(z) /\ Framed(z, TRUE) /\ Opened(z) = 0..(0 - 1) /\ Closed(z) = {}
    BY <1>1, <1>2, <1>3, <1>5
  <2>2. 0 \in Nat /\ Len(CallsIn(z)) = 0 /\ ~(0 > 0)
    BY <1>1
  <2>3. \A k \in 1..0 : CallsIn(z)[k].key = k - 1
    BY <1>3
  <2> QED
    BY <2>1, <2>2, <2>3 DEF Heeds
<1>7. Heeding(z, 0, z)
  BY <1>1, <1>4, <1>6 DEF Heeding
<1> QED
  BY <1>2, <1>4, <1>5, <1>7

\* The invariant holds at first.
LEMMA InitTold ==
  ASSUME Init
  PROVE  KInv
<1>1. PICK z : z = <<>>
  OBVIOUS
<1>2. /\ received = z /\ relayed = z /\ source = NewSource /\ sink = NewSink
      /\ speech = [begun |-> FALSE, open |-> None, parts |-> 0, calls |-> 0, ended |-> FALSE]
      /\ verdict = "streaming"
  BY <1>1 DEF Init
<1>3. ingress \in Protocols /\ egress \in Protocols
  BY InitInv DEF IInv, Types
<1>4. speech.begun = FALSE /\ speech.open = None /\ speech.parts = 0 /\ speech.calls = 0
  BY <1>2
<1>5. /\ Sequence(z) /\ DOMAIN z = {} /\ Sayings(z) /\ Transcript(z) = z
      /\ Opened(z) = {} /\ Closed(z) = {} /\ KindsIn(z) = {}
      /\ CallsIn(z) = z /\ Len(z) = 0 /\ \A by, of : ReadOf(by, of, z) = z
  BY <1>1, NothingSaid
<1>6. /\ Heeding(z, 0, z) /\ Agrees(z, z, TRUE) /\ Agrees(z, z, FALSE)
      /\ Framed(z, TRUE) /\ Framed(z, FALSE)
  BY <1>1, NothingHeard
<1>7. 1..0 = {} /\ 0..(0 - 1) = {}
  OBVIOUS
<1>8. Hearer(received, source, speech, z)
  <2>1. source.calls = z /\ source.blocks = z /\ source.next = 0
    BY <1>1, <1>2 DEF NewSource
  <2>2. KnowsItems(z, source, speech)
    <3>1. IsFiniteSet({}) /\ Cardinality({}) = 0
      BY FS_EmptySet
    <3> QED
      BY <1>4, <1>5, <1>7, <2>1, <3>1 DEF KnowsItems
  <2>3. KnowsBlocks(z, source, speech)
    BY <1>4, <1>5, <1>7, <2>1 DEF KnowsBlocks
  <2> QED
    BY <1>2, <1>4, <1>5, <1>6, <2>2, <2>3 DEF Hearer
<1>9. KnowsSink(sink, relayed, z, speech.calls)
  <2>1. CASE ingress = "responses"
    <3>1. /\ sink.started = FALSE /\ sink.thinking = FALSE /\ sink.talking = FALSE
          /\ sink.thought = z /\ sink.text = z /\ sink.calls = z
      BY <1>1, <1>2, <2>1 DEF NewSink, NewResponses
    <3>2. Items(sink) = {}
      BY <1>5, <3>1 DEF Items
    <3>3. Pieces(sink, z)
      BY <1>5, <3>1 DEF Pieces
    <3>4. Tracks(sink, z, z, 0)
      BY <1>1, <1>5, <1>6, <1>7, <3>1, <3>2, <3>3 DEF Tracks
    <3>5. KnowsResponses(sink, z, z, 0)
      BY <1>5, <3>1, <3>4 DEF KnowsResponses, Indexed
    <3> QED
      BY <1>2, <1>4, <2>1, <3>5 DEF KnowsSink
  <2>2. CASE ingress = "anthropic"
    <3>1. sink.started = FALSE /\ sink.block = 0 /\ sink.open = FALSE /\ sink.calls = z
      BY <1>1, <1>2, <2>2 DEF NewSink, NewAnthropic
    <3>2. Blocks(sink, z, 0)
      <4>1. {sink.calls[i] : i \in 0..(0 - 1)} = {}
        BY <1>7
      <4>2. /\ sink.block \in Nat /\ sink.open \in BOOLEAN
            /\ 0..(sink.block - 1) = {} /\ ~sink.open
        <5>1. PICK b, o : b = sink.block /\ o = sink.open
          OBVIOUS
        <5>2. b = 0 /\ o = FALSE
          BY <3>1, <5>1
        <5>3. b \in Nat /\ 0..(b - 1) = {}
          BY <5>2
        <5> QED
          BY <5>1, <5>2, <5>3
      <4>3. \A k \in 1..0 : KeyOf(z, k) = sink.calls[k - 1]
        BY <1>7
      <4>4. DOMAIN sink.calls = 0..(0 - 1)
        BY <1>5, <1>7, <3>1
      <4> QED
        BY <1>5, <4>1, <4>2, <4>3, <4>4 DEF Blocks
    <3>3. KnowsAnthropic(sink, z, z, 0)
      BY <1>1, <1>5, <1>6, <3>1, <3>2 DEF KnowsAnthropic
    <3> QED
      BY <1>2, <1>4, <2>2, <3>3 DEF KnowsSink
  <2>3. CASE ingress = "chat"
    <3>1. KnowsChat(z, z)
      BY <1>1, <1>5 DEF KnowsChat
    <3> QED
      BY <1>2, <2>3, <3>1 DEF KnowsSink
  <2> QED
    BY <1>3, <2>1, <2>2, <2>3 DEF Protocols
<1>10. ~HasBegun
  BY <1>1, <1>2, <1>4 DEF HasBegun
<1>11. Underway
  BY <1>8, <1>9, <1>10 DEF Underway
<1>12. Answer(relayed) = Answer(received)
  BY <1>2
<1> QED
  BY <1>2, <1>11, <1>12 DEF KInv

\* It always holds.
LEMMA AlwaysTold == Spec => []KInv
<1>1. Init => KInv
  BY InitTold
<1>2. IInv /\ KInv /\ IInv' /\ [Next]_vars => KInv'
  BY NextTold
<1> QED
  BY <1>1, <1>2, AlwaysInv, PTL DEF Spec

\* Whether the stream goes on or is over, what has been told is faithful.
LEMMA ToldFaithful ==
  ASSUME IInv, KInv
  PROVE  Faithful
<1>1. ingress \in Protocols
  BY DEF IInv, Types
<1>2. CASE ~translated
  <2>1. AnswerPreserved
    BY <1>2 DEF KInv, AnswerPreserved
  <2>2. FramesBalanced /\ OrderlyIndices
    BY <1>2 DEF FramesBalanced, OrderlyIndices
  <2> QED
    BY <2>1, <2>2 DEF Faithful
<1>3. CASE translated /\ verdict = "streaming"
  <2>1. PICK h : Hearer(received, source, speech, h) /\ KnowsSink(sink, relayed, h, speech.calls)
    BY <1>3 DEF KInv, Underway
  <2>2. Heeding(received, speech.calls, h)
    BY <2>1 DEF Hearer
  <2>3. FaithfulTo(received, relayed, FALSE)
    BY <1>1, <2>1, <2>2, StreamingFaithful
  <2>4. FaithfulTo(received, relayed, verdict = "completed")
    <3>1. (verdict = "completed") = FALSE
      BY <1>3
    <3> QED
      BY <2>3, <3>1
  <2> QED
    BY <1>3, <2>4, FaithfulIs
<1>4. CASE translated /\ verdict # "streaming"
  BY <1>4, FaithfulIs DEF KInv
<1> QED
  BY <1>2, <1>3, <1>4

-----------------------------------------------------------------------------
(* Theorems.                                                               *)

\* At every moment the client has been told what the provider has said: the
\* same text and thoughts, and the same calls with the same arguments, in the
\* same order, whatever the two protocols and the length of the answer.
THEOREM AnswerIsPreserved == Spec => []AnswerPreserved
<1>1. IInv /\ KInv => AnswerPreserved
  BY ToldFaithful DEF Faithful
<1> QED
  BY <1>1, AlwaysInv, AlwaysTold, PTL

\* A translated stream is well formed for its reader: what is spoken in has been
\* opened and not closed, and all of it is closed when the stream completes.
THEOREM FramesAreBalanced == Spec => []FramesBalanced
<1>1. IInv /\ KInv => FramesBalanced
  BY ToldFaithful DEF Faithful
<1> QED
  BY <1>1, AlwaysInv, AlwaysTold, PTL

\* A Responses client whose provider thinks before it talks and talks before it
\* calls sees every item under one output index of its own.
THEOREM IndicesAreOrderly == Spec => []OrderlyIndices
<1>1. IInv /\ KInv => OrderlyIndices
  BY ToldFaithful DEF Faithful
<1> QED
  BY <1>1, AlwaysInv, AlwaysTold, PTL

-----------------------------------------------------------------------------
(* The decoder, an instance of its own.                                    *)

CONSTANTS Stream, CR, LF, MaxBuffer
VARIABLES taken, fed, complete, frames, outcome

Decoder == INSTANCE SseDecoder

\* The frames so far are those of the stream, they join up to the buffer, and
\* an open decoder has no more than the limit in it.
DecoderInv ==
  /\ Decoder!TypeOK
  /\ complete => fed = Len(Stream)
  /\ outcome = "open" => fed - taken <= MaxBuffer
  /\ outcome = "ended" => taken = Len(Stream)
  /\ \A k \in DOMAIN frames :
       /\ frames[k].next - frames[k].first <= MaxBuffer
       /\ frames[k].first = IF k = 1 THEN 1 ELSE frames[k - 1].next
       /\ Decoder!Uniform => Decoder!Sent(frames[k])
  /\ taken = IF frames = <<>> THEN 0 ELSE frames[Len(frames)].next - 1

-----------------------------------------------------------------------------
\* Bytes are CR or LF, not both, so a separator of one kind does not begin
\* where one of the other does; separators that end in the buffer are seen.
LEMMA LengthOfCrlf ==
  ASSUME NEW i, Decoder!CrlfAt(i)
  PROVE  Decoder!Separator(i) = 4
BY DEF Decoder!Separator

LEMMA LengthOfLf ==
  ASSUME CR # LF, NEW i, Decoder!LfAt(i)
  PROVE  Decoder!Separator(i) = 2
BY DEF Decoder!Separator, Decoder!LfAt, Decoder!CrlfAt

LEMMA NoSeparator ==
  ASSUME NEW i, ~Decoder!CrlfAt(i), ~Decoder!LfAt(i)
  PROVE  Decoder!Separator(i) = 0
BY DEF Decoder!Separator

\* find_separator finds the next separator of the whole stream, although it
\* sees only the buffer, if the stream has one kind.
LEMMA FoundIsNext ==
  ASSUME Decoder!Parameters, Decoder!TypeOK, Decoder!Uniform,
         NEW i \in DOMAIN Stream, NEW length \in {2, 4}, Decoder!Found(i, length)
  PROVE  /\ Decoder!Separator(i) = length
         /\ \A j \in (taken + 1)..(i - 1) : Decoder!Separator(j) = 0
<1>1. Len(Stream) \in Nat /\ DOMAIN Stream = 1..Len(Stream)
  BY DEF Decoder!Parameters
<1>2. CASE Decoder!FirstOf(i, Decoder!CrlfsIn) /\ length = 4
  <2>1. Decoder!CrlfAt(i) /\ i <= fed - 3
    BY <1>2 DEF Decoder!FirstOf, Decoder!CrlfsIn
  <2>2. \A j \in DOMAIN Stream : ~Decoder!LfAt(j)
    BY <2>1 DEF Decoder!Uniform
  <2>3. ASSUME NEW j \in (taken + 1)..(i - 1) PROVE Decoder!Separator(j) = 0
    <3>1. j \in DOMAIN Stream /\ j \in (taken + 1)..(fed - 3)
      BY <1>1, <2>1 DEF Decoder!TypeOK
    <3>2. ~Decoder!CrlfAt(j)
      BY <1>2, <3>1 DEF Decoder!FirstOf, Decoder!CrlfsIn, Decoder!TypeOK
    <3> QED BY <2>2, <3>1, <3>2, NoSeparator
  <2> QED BY <1>2, <2>1, <2>3, LengthOfCrlf
<1>3. CASE Decoder!CrlfsIn = {} /\ Decoder!FirstOf(i, Decoder!LfsIn) /\ length = 2
  <2>1. Decoder!LfAt(i) /\ i <= fed - 1
    BY <1>3 DEF Decoder!FirstOf, Decoder!LfsIn
  <2>2. \A j \in DOMAIN Stream : ~Decoder!CrlfAt(j)
    BY <2>1 DEF Decoder!Uniform
  <2>3. ASSUME NEW j \in (taken + 1)..(i - 1) PROVE Decoder!Separator(j) = 0
    <3>1. j \in DOMAIN Stream /\ j \in (taken + 1)..(fed - 1)
      BY <1>1, <2>1 DEF Decoder!TypeOK
    <3>2. ~Decoder!LfAt(j)
      BY <1>3, <3>1 DEF Decoder!FirstOf, Decoder!LfsIn, Decoder!TypeOK
    <3> QED BY <2>2, <3>1, <3>2, NoSeparator
  <2> QED BY <1>3, <2>1, <2>3, LengthOfLf DEF Decoder!Parameters
<1> QED BY <1>2, <1>3 DEF Decoder!Found

\* Where a separator that was found ends is in the buffer.
LEMMA FoundInBuffer ==
  ASSUME Decoder!Parameters, Decoder!TypeOK,
         NEW i \in DOMAIN Stream, NEW length \in {2, 4}, Decoder!Found(i, length)
  PROVE  i \in Int /\ taken < i /\ i + length - 1 <= fed
BY DEF Decoder!Found, Decoder!FirstOf, Decoder!CrlfsIn, Decoder!LfsIn,
       Decoder!TypeOK, Decoder!Parameters

\* A frame that joins up to those before it and is as the stream has it
\* keeps the invariant.
LEMMA AnotherFrame ==
  ASSUME Decoder!Parameters, DecoderInv, outcome = "open",
         NEW last \in Nat, NEW next \in Nat, Decoder!TakeFrame(last, next),
         taken < next, next - 1 <= fed,
         UNCHANGED <<fed, complete, outcome>>,
         Decoder!Uniform => Decoder!Sent([first |-> taken + 1, last |-> last, next |-> next])
  PROVE  DecoderInv'
<1> DEFINE f == [first |-> taken + 1, last |-> last, next |-> next]
<1>1. /\ frames' = Append(frames, f) /\ taken' = next - 1
      /\ frames \in Seq(Decoder!Frame) /\ f \in Decoder!Frame
      /\ fed \in Nat /\ taken \in Nat /\ Len(Stream) \in Nat
  <2>1. frames' = Append(frames, f) /\ taken' = next - 1
    BY DEF Decoder!TakeFrame
  <2>2. frames \in Seq(Decoder!Frame) /\ fed \in Nat /\ taken \in Nat
    BY DEF DecoderInv, Decoder!TypeOK
  <2>3. f \in Decoder!Frame
    BY <2>2 DEF Decoder!Frame
  <2>4. Len(Stream) \in Nat
    BY DEF Decoder!Parameters
  <2> QED BY <2>1, <2>2, <2>3, <2>4
<1>2. f.first = taken + 1 /\ f.next = next /\ (Decoder!Uniform => Decoder!Sent(f))
  OBVIOUS
<1> HIDE DEF f
<1>4. Decoder!TypeOK'
  BY <1>1 DEF DecoderInv, Decoder!TypeOK
<1>3. /\ Len(frames') = Len(frames) + 1
      /\ frames'[Len(frames')] = f
      /\ \A k \in DOMAIN frames : frames'[k] = frames[k]
      /\ DOMAIN frames' = DOMAIN frames \cup {Len(frames')}
      /\ DOMAIN frames = 1..Len(frames) /\ Len(frames) \in Nat
      /\ frames' # <<>>
  BY <1>1
<1>5. ASSUME NEW k \in DOMAIN frames'
      PROVE  /\ frames'[k].next - frames'[k].first <= MaxBuffer
             /\ frames'[k].first = IF k = 1 THEN 1 ELSE frames'[k - 1].next
             /\ Decoder!Uniform => Decoder!Sent(frames'[k])
  <2>1. CASE k \in DOMAIN frames
    <3>1. k # 1 => k - 1 \in DOMAIN frames
      BY <1>3, <2>1
    <3> QED BY <1>3, <2>1, <3>1 DEF DecoderInv
  <2>2. CASE k = Len(frames')
    <3>1. frames'[k] = f
      BY <1>3, <2>2
    <3>2. f.next - f.first <= MaxBuffer
      BY <1>1, <1>2, SMTT(30) DEF DecoderInv, Decoder!Parameters
    <3>3. CASE frames = <<>>
      <4>1. k = 1 /\ taken = 0
        BY <1>3, <2>2, <3>3 DEF DecoderInv
      <4> QED BY <1>2, <3>1, <3>2, <4>1
    <3>4. CASE frames # <<>>
      <4>1. Len(frames) \in DOMAIN frames /\ k # 1 /\ k - 1 = Len(frames)
        BY <1>1, <1>3, <2>2, <3>4
      <4>2. frames'[k - 1].next = taken + 1
        <5>1. frames[Len(frames)] \in Decoder!Frame
          BY <1>1, <4>1
        <5>2. taken = frames[Len(frames)].next - 1
          BY <3>4 DEF DecoderInv
        <5>3. frames[Len(frames)].next \in Nat
          BY <5>1 DEF Decoder!Frame
        <5>4. frames'[k - 1] = frames[Len(frames)]
          BY <1>3, <4>1
        <5> QED BY <5>2, <5>3, <5>4
      <4> QED BY <1>2, <3>1, <3>2, <4>1, <4>2
    <3> QED BY <3>3, <3>4
  <2> QED BY <1>3, <2>1, <2>2
<1>6. taken' = frames'[Len(frames')].next - 1
  BY <1>1, <1>2, <1>3
<1>7. outcome' = "open" => fed' - taken' <= MaxBuffer
  BY <1>1, SMTT(30) DEF DecoderInv, Decoder!Parameters
<1> QED BY <1>3, <1>4, <1>5, <1>6, <1>7 DEF DecoderInv

-----------------------------------------------------------------------------
\* The invariant holds in every behaviour.
THEOREM DecoderInvariant ==
  ASSUME Decoder!Parameters
  PROVE  Decoder!Spec => []DecoderInv
<1>1. Decoder!Init => DecoderInv
  <2> SUFFICES ASSUME Decoder!Init PROVE DecoderInv
    OBVIOUS
  <2>1. Len(Stream) \in Nat /\ MaxBuffer \in Nat
    BY DEF Decoder!Parameters
  <2>2. Decoder!TypeOK
    <3>1. frames \in Seq(Decoder!Frame)
      BY DEF Decoder!Init
    <3>2. taken \in Nat /\ fed \in Nat /\ taken <= fed /\ fed <= Len(Stream)
      BY <2>1 DEF Decoder!Init
    <3>3. complete \in BOOLEAN /\ outcome = "open"
      BY DEF Decoder!Init
    <3> QED BY <3>1, <3>2, <3>3 DEF Decoder!TypeOK
  <2>3. DOMAIN frames = {}
    BY DEF Decoder!Init
  <2> QED BY <2>1, <2>2, <2>3 DEF Decoder!Init, DecoderInv
<1>2. DecoderInv /\ [Decoder!Next]_(Decoder!vars) => DecoderInv'
  <2> SUFFICES ASSUME DecoderInv, [Decoder!Next]_(Decoder!vars) PROVE DecoderInv'
    OBVIOUS
  <2> USE DEF Decoder!Parameters
  <2>1. CASE Decoder!Split
    <3>1. PICK i \in DOMAIN Stream, length \in {2, 4} :
            Decoder!Found(i, length) /\ Decoder!TakeFrame(i - 1, i + length)
      BY <2>1 DEF Decoder!Split
    <3>2. i \in Int /\ taken < i /\ i + length - 1 <= fed
      BY <3>1, FoundInBuffer DEF DecoderInv
    <3>3. i - 1 \in Nat /\ i + length \in Nat /\ taken < i + length
      <4>1. taken \in Nat /\ length \in {2, 4}
        BY DEF DecoderInv, Decoder!TypeOK
      <4> QED BY <3>2, <4>1, SMTT(30)
    <3>4. Decoder!Uniform => Decoder!Sent([first |-> taken + 1, last |-> i - 1, next |-> i + length])
      <4>1. SUFFICES ASSUME Decoder!Uniform
                     PROVE  Decoder!Sent([first |-> taken + 1, last |-> i - 1, next |-> i + length])
        OBVIOUS
      <4>2. Decoder!Separator(i) = length /\ \A j \in (taken + 1)..(i - 1) : Decoder!Separator(j) = 0
        BY <3>1, <4>1, FoundIsNext DEF DecoderInv
      <4>3. (i - 1) + 1 = i
        BY <3>2
      <4> QED BY <3>2, <4>2, <4>3 DEF Decoder!Sent
    <3> QED BY <2>1, <3>1, <3>2, <3>3, <3>4, AnotherFrame DEF Decoder!Split
  <2>2. CASE Decoder!Receive
    BY <2>2, SMTT(30) DEF Decoder!Receive, DecoderInv, Decoder!TypeOK, Decoder!Errors
  <2>3. CASE Decoder!Break
    BY <2>3 DEF Decoder!Break, DecoderInv, Decoder!TypeOK, Decoder!Errors
  <2>4. CASE Decoder!Close
    BY <2>4 DEF Decoder!Close, DecoderInv, Decoder!TypeOK
  <2>5. CASE Decoder!TakeRest
    <3>1. fed = Len(Stream) /\ taken < fed /\ fed \in Nat /\ taken \in Nat
      BY <2>5 DEF Decoder!TakeRest, DecoderInv, Decoder!TypeOK
    <3>2. \A j \in (taken + 1)..fed : Decoder!Separator(j) = 0
      <4> TAKE j \in (taken + 1)..fed
      <4>1. ~Decoder!CrlfAt(j)
        <5>1. Decoder!CrlfAt(j) => j \in (taken + 1)..(fed - 3)
          BY <3>1 DEF Decoder!CrlfAt
        <5> QED BY <2>5, <5>1 DEF Decoder!TakeRest, Decoder!NoneFound, Decoder!CrlfsIn
      <4>2. ~Decoder!LfAt(j)
        <5>1. Decoder!LfAt(j) => j \in (taken + 1)..(fed - 1)
          BY <3>1 DEF Decoder!LfAt
        <5> QED BY <2>5, <5>1 DEF Decoder!TakeRest, Decoder!NoneFound, Decoder!LfsIn
      <4> QED BY <4>1, <4>2, NoSeparator
    <3>3. Decoder!Sent([first |-> taken + 1, last |-> fed, next |-> fed + 1])
      BY <3>1, <3>2 DEF Decoder!Sent
    <3> QED BY <2>5, <3>1, <3>3, AnotherFrame DEF Decoder!TakeRest
  <2>6. CASE Decoder!End
    BY <2>6 DEF Decoder!End, DecoderInv, Decoder!TypeOK
  <2>7. CASE UNCHANGED Decoder!vars
    BY <2>7 DEF Decoder!vars, DecoderInv, Decoder!TypeOK
  <2> QED BY <2>1, <2>2, <2>3, <2>4, <2>5, <2>6, <2>7 DEF Decoder!Next
<1> QED BY <1>1, <1>2, PTL DEF Decoder!Spec

\* However a stream is cut into chunks, what is decoded are the frames it has
\* (FramesAsSent), of every stream that writes its blank lines in one way.
THEOREM CutsDoNotMatter ==
  ASSUME Decoder!Parameters
  PROVE  Decoder!Spec => []Decoder!FramesAsSent
<1>1. DecoderInv => Decoder!FramesAsSent
  <2> SUFFICES ASSUME DecoderInv, Decoder!Uniform PROVE Decoder!FramesAsSent
    BY DEF Decoder!FramesAsSent
  <2>1. ASSUME frames # <<>> PROVE frames[Len(frames)].next = taken + 1
    <3>1. Len(frames) \in DOMAIN frames /\ frames[Len(frames)] \in Decoder!Frame
      BY <2>1 DEF DecoderInv, Decoder!TypeOK
    <3> QED BY <2>1, <3>1 DEF DecoderInv, Decoder!Frame
  <2> QED BY <2>1 DEF DecoderInv, Decoder!FramesAsSent
<1> QED BY <1>1, DecoderInvariant, PTL

\* No frame is longer than the limit (LimitKept), whatever came with it.
THEOREM FramesWithinLimit ==
  ASSUME Decoder!Parameters
  PROVE  Decoder!Spec => []Decoder!LimitKept
<1>1. DecoderInv => Decoder!LimitKept
  BY DEF DecoderInv, Decoder!LimitKept
<1> QED BY <1>1, DecoderInvariant, PTL

=============================================================================
