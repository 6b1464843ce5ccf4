---------------------------- MODULE StreamProofs ----------------------------
(***************************************************************************)
(* Proofs about StreamRelay, for any pairs of protocols and any answer:    *)
(* types, how a stream ends, and the usage that is told and recorded.      *)
(* A turn tells one chunk or none and counts it, the frames before the end *)
(* are quiet, and what closes a stream tells the total that has been       *)
(* counted (IInv).                                                         *)
(*                                                                         *)
(* The second half is about what a stream says: what is read of a          *)
(* transcript that says one thing more is what was read, and what is read  *)
(* of that (ReadMore), and, last, about a Responses sink: what it knows of *)
(* what it has sent (KnowsSink).  AnswerProofs does the same for the other *)
(* sinks and proves from it that the answer arrives as it was given.       *)
(***************************************************************************)
EXTENDS StreamRelay, FiniteSetTheorems, SequenceTheorems, WellFoundedInduction,
        TLAPS

-----------------------------------------------------------------------------
(* The invariant of the relay.                                             *)

\* A sequence, of whatever elements.
Sequence(s) == s \in Seq(ToSet(s))

\* What a client is sent before its stream ends.
Quiet(frames) ==
  Sequence(frames) /\ \A k \in DOMAIN frames : ~Terminal(frames[k])

Count == [input : Nat, output : Nat, reported : BOOLEAN]

\* The states of the two sinks, also in the middle of a turn.
ResponsesSink(s) ==
  /\ DOMAIN s = {"started", "thinking", "talking", "thought", "text", "calls", "usage",
                 "out"}
  /\ IsFiniteSet(DOMAIN s.calls) /\ s.usage \in Count /\ Quiet(s.out)
AnthropicSink(s) ==
  /\ DOMAIN s = {"started", "block", "open", "calls", "usage", "stop", "out"}
  /\ IsFiniteSet(DOMAIN s.calls) /\ s.usage \in Count /\ Quiet(s.out)
ChatSink(s) == DOMAIN s = {"out"} /\ Quiet(s.out)
Sink(s) ==
  CASE ingress = "responses" -> ResponsesSink(s)
    [] ingress = "anthropic" -> AnthropicSink(s)
    [] ingress = "chat" -> ChatSink(s)

BlockKinds == {"thinking", "text", "tool_use"}
Source(s) ==
  /\ DOMAIN s = {"calls", "blocks", "next", "usage"}
  /\ DOMAIN s.calls \subseteq [kind : {"function_call"}, n : Nat]
  /\ DOMAIN s.blocks \subseteq Nat /\ s.next \in Nat /\ s.usage \in Count
  /\ \A i \in DOMAIN s.blocks : s.blocks[i].kind \in BlockKinds

Speech(s) ==
  /\ DOMAIN s = {"begun", "open", "parts", "calls", "ended"}
  /\ s.begun \in BOOLEAN /\ s.ended \in BOOLEAN
  /\ s.parts \in Nat /\ s.calls \in 0..MaxCalls

Types ==
  /\ <<ingress, egress>> \in Pairs /\ ingress \in Protocols /\ egress \in Protocols
  /\ nulls \in BOOLEAN /\ (nulls => egress = "chat")
  /\ Speech(speech) /\ Source(source) /\ Sink(sink) /\ sink.out = <<>>
  /\ Sequence(received) /\ Sequence(relayed)
  /\ usage \in Count /\ verdict \in Verdicts

\* Nothing is told before something is heard, and between equal protocols
\* the client is told what the provider says.
Tells ==
  /\ received = <<>> => relayed = <<>>
  /\ ~translated /\ verdict # "refused" => relayed = received

\* What has been reported says how many tokens went in.
TellInput(events) == \E k \in DOMAIN events : ReportsInput(events[k])

\* Reports come in order.
ReportsInOrder ==
  /\ TellUsage(received) => TellInput(received)
  /\ egress = "anthropic" /\ speech.begun => TellUsage(received)
  /\ egress = "anthropic" /\ speech.ended => speech.begun
  /\ egress = "chat" /\ TellUsage(received) => speech.ended

\* What the provider has reported is known to the relay: to the source of an
\* Anthropic stream that is translated, which passes it on at the end, and
\* otherwise to the record.
Known == IF translated /\ egress = "anthropic" THEN source.usage ELSE usage
Records ==
  /\ (translated \/ ingress # "responses") /\ TellUsage(received) =>
       Known = Reported(LastUsage(received))
  /\ translated /\ egress = "anthropic" /\ speech.ended => usage = source.usage

\* And to the sink, which passes it on at the end, or to the Chat client.
Passes ==
  /\ translated /\ ingress # "chat" /\ verdict = "streaming" => sink.usage = usage
  /\ translated /\ ingress = "chat" /\ TellUsage(relayed) =>
       TellInput(relayed) /\ usage = Reported(LastUsage(relayed))
  /\ translated /\ ingress = "chat" /\ egress = "anthropic" /\ speech.ended =>
       TellUsage(relayed)

IInv ==
  Types /\ Tells /\ EndShown /\ ReportsInOrder /\ Records /\ Passes /\ UsageKept
-----------------------------------------------------------------------------
(* Sequences.                                                              *)

\* Sequences over any set are sequences.
LEMMA SequenceOf ==
  ASSUME NEW S, NEW s \in Seq(S)
  PROVE  Sequence(s)
<1>1. Len(s) \in Nat /\ s \in [1..Len(s) -> S] /\ DOMAIN s = 1..Len(s)
  BY LenProperties
<1>2. s \in [1..Len(s) -> ToSet(s)]
  BY <1>1 DEF ToSet
<1> QED
  BY <1>1, <1>2, SeqDef DEF Sequence

\* Their places are numbered.
LEMMA SequenceFacts ==
  ASSUME NEW s, Sequence(s)
  PROVE  Len(s) \in Nat /\ DOMAIN s = 1..Len(s)
BY LenProperties DEF Sequence

\* Two sequences are sequences over one set.
LEMMA InCommon ==
  ASSUME NEW s, NEW t, Sequence(s), Sequence(t)
  PROVE  \E S : s \in Seq(S) /\ t \in Seq(S)
<1> DEFINE S == ToSet(s) \cup ToSet(t)
<1>1. s \in Seq(S)
  BY SeqMonotonic DEF Sequence
<1>2. t \in Seq(S)
  BY SeqMonotonic DEF Sequence
<1> QED
  BY <1>1, <1>2

\* Sequences in a row are a sequence.
LEMMA Joined ==
  ASSUME NEW s, NEW t, Sequence(s), Sequence(t)
  PROVE  /\ Sequence(s \o t) /\ Len(s \o t) = Len(s) + Len(t)
         /\ \A k \in 1..(Len(s) + Len(t)) :
              (s \o t)[k] = IF k <= Len(s) THEN s[k] ELSE t[k - Len(s)]
<1>1. PICK S : s \in Seq(S) /\ t \in Seq(S)
  BY InCommon
<1>2. /\ s \o t \in Seq(S) /\ Len(s \o t) = Len(s) + Len(t)
      /\ \A k \in 1..(Len(s) + Len(t)) :
           (s \o t)[k] = IF k <= Len(s) THEN s[k] ELSE t[k - Len(s)]
  BY <1>1, ConcatProperties
<1> QED
  BY <1>2, SequenceOf

\* One, two or no elements are a sequence.
LEMMA Short ==
  /\ Sequence(<<>>) /\ Len(<<>>) = 0
  /\ \A x : Sequence(<<x>>) /\ Len(<<x>>) = 1 /\ <<x>>[1] = x /\ DOMAIN <<x>> = {1}
  /\ \A x, y : /\ Sequence(<<x, y>>) /\ Len(<<x, y>>) = 2
               /\ <<x, y>>[1] = x /\ <<x, y>>[2] = y
<1>1. <<>> \in Seq({}) /\ Len(<<>>) = 0
  OBVIOUS
<1>2. ASSUME NEW x
      PROVE  <<x>> \in Seq({x}) /\ Len(<<x>>) = 1 /\ <<x>>[1] = x /\ DOMAIN <<x>> = {1}
  OBVIOUS
<1>3. ASSUME NEW x, NEW y
      PROVE  /\ <<x, y>> \in Seq({x, y}) /\ Len(<<x, y>>) = 2
             /\ <<x, y>>[1] = x /\ <<x, y>>[2] = y
  OBVIOUS
<1>4. Sequence(<<>>)
  BY <1>1, SequenceOf
<1>5. ASSUME NEW x PROVE Sequence(<<x>>)
  BY <1>2, SequenceOf
<1>6. ASSUME NEW x, NEW y PROVE Sequence(<<x, y>>)
  BY <1>3, SequenceOf
<1> QED
  BY <1>1, <1>2, <1>3, <1>4, <1>5, <1>6

\* Appending is joining one element.
LEMMA Appended ==
  ASSUME NEW s, Sequence(s), NEW e
  PROVE  /\ Sequence(Append(s, e)) /\ Len(Append(s, e)) = Len(s) + 1
         /\ Append(s, e)[Len(s) + 1] = e /\ Append(s, e) # <<>>
         /\ \A k \in 1..Len(s) : Append(s, e)[k] = s[k]
<1> DEFINE S == ToSet(s) \cup {e}
<1>1. s \in Seq(S)
  BY SeqMonotonic DEF Sequence
<1>2. /\ Append(s, e) \in Seq(S) /\ Len(Append(s, e)) = Len(s) + 1
      /\ Append(s, e)[Len(s) + 1] = e /\ Append(s, e) # <<>>
      /\ \A k \in 1..Len(s) : Append(s, e)[k] = s[k]
  BY <1>1, LenProperties
<1> QED
  BY <1>2, SequenceOf

\* Nothing before nothing is nothing.
LEMMA NothingBefore ==
  ASSUME NEW s, Sequence(s)
  PROVE  <<>> \o s = s /\ s \o <<>> = s
BY ConcatEmptySeq DEF Sequence

\* Quiet frames in a row are quiet.
LEMMA QuietJoined ==
  ASSUME NEW s, NEW t, Quiet(s), Quiet(t)
  PROVE  Quiet(s \o t)
<1>1. /\ Sequence(s) /\ Sequence(t)
      /\ \A k \in 1..Len(s) : ~Terminal(s[k])
      /\ \A k \in 1..Len(t) : ~Terminal(t[k])
      /\ Len(s) \in Nat /\ Len(t) \in Nat
  BY SequenceFacts DEF Quiet
<1>2. /\ Sequence(s \o t) /\ DOMAIN (s \o t) = 1..(Len(s) + Len(t))
      /\ \A k \in 1..(Len(s) + Len(t)) :
           (s \o t)[k] = IF k <= Len(s) THEN s[k] ELSE t[k - Len(s)]
  BY <1>1, Joined, SequenceFacts
<1>3. ASSUME NEW k \in 1..(Len(s) + Len(t))
      PROVE  ~Terminal((s \o t)[k])
  <2>1. CASE k <= Len(s)
    BY <1>1, <1>2, <1>3, <2>1
  <2>2. CASE ~(k <= Len(s))
    <3>1. k - Len(s) \in 1..Len(t)
      BY <1>1, <1>3, <2>2
    <3> QED
      BY <1>1, <1>2, <1>3, <2>2, <3>1
  <2> QED
    BY <2>1, <2>2
<1> QED
  BY <1>2, <1>3 DEF Quiet

\* No frame is quiet, and so is one that ends nothing.
LEMMA QuietShort ==
  Quiet(<<>>) /\ \A x : ~Terminal(x) => Quiet(<<x>>)
BY Short DEF Quiet
-----------------------------------------------------------------------------
(* Folds over the chunks of an event and the calls of a chunk.             *)

\* Of any sets of elements of a finite one, some contains no other.
LEMMA LeastSet ==
  ASSUME NEW S, IsFiniteSet(S), NEW Wrong \in SUBSET (SUBSET S), Wrong # {}
  PROVE  \E s \in Wrong : IsFiniteSet(s) /\ \A t \in SUBSET s : t # s => t \notin Wrong
<1>1. Wrong \subseteq FiniteSubsetsOf(S)
  BY FS_Subset DEF FiniteSubsetsOf
<1>2. PICK s \in Wrong : \A t \in Wrong : ~ (<<t, s>> \in StrictSubsetOrdering(S))
  BY <1>1, FS_StrictSubsetOrderingWellFounded, WFMin
<1>3. \A t \in SUBSET s : t # s => t \notin Wrong
  BY <1>2 DEF StrictSubsetOrdering
<1> QED
  BY <1>1, <1>2, <1>3 DEF FiniteSubsetsOf

\* A finite set of numbers that is not empty has a largest.
LEMMA Largest ==
  ASSUME NEW S, IsFiniteSet(S), S # {}, S \subseteq Int
  PROVE  Max(S) \in S /\ \A k \in S : k <= Max(S)
<1>1. \E k \in S : \A j \in S : j <= k
  <2> DEFINE Above(k) == {j \in S : j > k}
             Wrong == {Above(k) : k \in S}
  <2>1. Wrong \in SUBSET (SUBSET S) /\ Wrong # {}
    OBVIOUS
  <2> HIDE DEF Wrong
  <2>2. PICK s \in Wrong : \A t \in SUBSET s : t # s => t \notin Wrong
    BY <2>1, LeastSet
  <2>3. PICK k \in S : s = Above(k)
    BY <2>2 DEF Wrong
  <2>4. ASSUME NEW j \in S, ~(j <= k)
        PROVE  FALSE
    <3>3. j \in Int /\ k \in Int /\ j > k
      BY <2>4, <2>3
    <3>4. ASSUME NEW i \in Above(j)
          PROVE  i \in Above(k)
      <4>1. i \in Int /\ i > j /\ i \in S
        OBVIOUS
      <4>2. i > k
        BY <3>3, <4>1
      <4> QED
        BY <4>1, <4>2
    <3>5. j \in Above(k) /\ ~(j \in Above(j))
      BY <2>4, <3>3
    <3>1. Above(j) \in SUBSET Above(k) /\ j \in Above(k) /\ j \notin Above(j)
      <4> HIDE DEF Above
      <4> QED
        BY <3>4, <3>5
    <3>2. Above(j) # Above(k) /\ Above(j) \in Wrong
      BY <3>1, <2>4 DEF Wrong
    <3> QED
      BY <2>2, <2>3, <3>1, <3>2
  <2> QED
    BY <2>4
<1> QED
  BY <1>1 DEF Max

\* There is one.
LEMMA MaxIs ==
  ASSUME NEW S, S \subseteq Int, NEW m \in S, \A k \in S : k <= m
  PROVE  Max(S) = m
<1>1. m \in Int /\ \A k \in S : k \in Int
  OBVIOUS
<1>2. \E x \in S : \A y \in S : x >= y
  BY <1>1
<1>3. Max(S) \in S /\ \A y \in S : Max(S) >= y
  BY <1>2 DEF Max
<1>4. Max(S) \in Int /\ Max(S) >= m /\ Max(S) <= m
  BY <1>1, <1>3
<1> QED
  BY <1>1, <1>4

\* The operators that are folded, and what a fold asks of the function of sets
\* of places that it defines.
Told(kind, s, x) ==
  CASE kind = "chunk" -> TellClient(s, x)
    [] kind = "usage" -> UsageOf(x, s)
    [] kind = "responses" -> CallToResponses(s, x)
    [] kind = "anthropic" -> CallToAnthropic(s, x)
StepOf(kind, fold, base, list, s) ==
  IF s = {} THEN base ELSE Told(kind, fold[s \ {Max(s)}], list[Max(s)])
FoldsOn(kind, fold, base, list, S) ==
  fold = [s \in SUBSET S |-> StepOf(kind, fold, base, list, s)]

\* There is such a function.
LEMMA FoldExists ==
  ASSUME NEW kind, NEW base, NEW list, NEW S, IsFiniteSet(S), S \subseteq Int
  PROVE  \E fold : FoldsOn(kind, fold, base, list, S)
<1> DEFINE Wrong == {s \in SUBSET S : ~(\E fold : FoldsOn(kind, fold, base, list, s))}
<1>1. ASSUME Wrong # {}
      PROVE  FALSE
  <2>1. PICK s \in Wrong : IsFiniteSet(s) /\ \A t \in SUBSET s : t # s => t \notin Wrong
    <3>1. Wrong \in SUBSET (SUBSET S)
      OBVIOUS
    <3> HIDE DEF Wrong
    <3> QED
      BY <3>1, <1>1, LeastSet
  <2>2. CASE s = {}
    <3>1. FoldsOn(kind, [t \in SUBSET s |-> base], base, list, s)
      BY <2>2 DEF FoldsOn, StepOf
    <3> QED
      BY <2>1, <3>1
  <2>3. CASE s # {}
    <3> DEFINE m == Max(s)
               rest == s \ {m}
    <3>1. m \in s /\ \A k \in s : k <= m
      BY <2>1, <2>3, Largest
    <3>2. rest \in SUBSET s /\ rest # s /\ rest \in SUBSET S
      BY <3>1
    <3>3. PICK old : FoldsOn(kind, old, base, list, rest)
      BY <2>1, <3>2
    <3> DEFINE fold == [t \in SUBSET s |->
                          IF m \in t THEN Told(kind, old[t \ {m}], list[m]) ELSE old[t]]
    <3>4. \A t \in SUBSET rest : fold[t] = old[t]
      BY <3>2
    <3>5. ASSUME NEW t \in SUBSET s
          PROVE  fold[t] = StepOf(kind, fold, base, list, t)
      <4>1. CASE m \in t
        <5>1. IsFiniteSet(t) /\ t \subseteq Int /\ t # {}
          BY <2>1, <4>1, FS_Subset
        <5>2. Max(t) = m
          <6>1. Max(t) \in t /\ \A k \in t : k <= Max(t)
            BY <5>1, Largest
          <6>2. Max(t) \in Int /\ m \in Int /\ Max(t) \in s /\ s \subseteq Int
            BY <6>1, <5>1, <3>1, <3>5, <2>1
          <6>3. Max(t) <= m /\ m <= Max(t)
            BY <6>1, <6>2, <3>1, <4>1
          <6> HIDE DEF m
          <6> QED
            BY <6>2, <6>3
        <5>3. t \ {m} \in SUBSET rest /\ t # {}
          BY <4>1, <3>5
        <5>4. fold[t \ {m}] = old[t \ {m}]
          BY <3>4, <5>3
        <5>5. fold[t] = Told(kind, old[t \ {m}], list[m])
          BY <4>1
        <5> HIDE DEF fold, m, rest
        <5> QED
          BY <5>2, <5>3, <5>4, <5>5 DEF StepOf
      <4>2. CASE m \notin t
        <5>1. t \in SUBSET rest /\ IsFiniteSet(t) /\ t \subseteq Int
          BY <2>1, <4>2, FS_Subset
        <5>2. fold[t] = old[t] /\ old[t] = StepOf(kind, old, base, list, t)
          BY <4>2, <5>1, <3>3 DEF FoldsOn
        <5>3. t # {} => t \ {Max(t)} \in SUBSET rest
          BY <5>1
        <5>4. t # {} => fold[t \ {Max(t)}] = old[t \ {Max(t)}]
          BY <3>4, <5>3
        <5> HIDE DEF fold, m, rest
        <5> QED
          BY <5>2, <5>4 DEF StepOf
      <4> QED
        BY <4>1, <4>2
    <3>6. FoldsOn(kind, fold, base, list, s)
      BY <3>5 DEF FoldsOn
    <3> QED
      BY <2>1, <3>6
  <2> QED
    BY <2>2, <2>3
<1> QED
  BY <1>1

\* A fold over a list is the value of one.
LEMMA FoldResponses ==
  ASSUME NEW base, NEW list, IsFiniteSet(DOMAIN list), DOMAIN list \subseteq Int
  PROVE  \E fold : /\ FoldsOn("responses", fold, base, list, DOMAIN list)
                   /\ FoldLeft(CallToResponses, base, list) = fold[DOMAIN list]
<1> DEFINE S == DOMAIN list
           Is(fold) == fold = [s \in SUBSET S |->
                         IF s = {} THEN base
                         ELSE CallToResponses(fold[s \ {Max(s)}], list[Max(s)])]
<1>1. FoldLeft(CallToResponses, base, list) = (CHOOSE fold : Is(fold))[S]
  BY DEF FoldLeft, MapThenFoldSet
<1>2. \A fold : Is(fold) <=> FoldsOn("responses", fold, base, list, S)
  BY DEF FoldsOn, StepOf, Told
<1>3. \E fold : Is(fold)
  BY <1>2, FoldExists
<1> DEFINE chosen == CHOOSE fold : Is(fold)
<1>4. Is(chosen)
  BY <1>3
<1> HIDE DEF Is
<1> QED
  BY <1>1, <1>2, <1>4

\* So is the Anthropic sink's,
LEMMA FoldAnthropic ==
  ASSUME NEW base, NEW list, IsFiniteSet(DOMAIN list), DOMAIN list \subseteq Int
  PROVE  \E fold : /\ FoldsOn("anthropic", fold, base, list, DOMAIN list)
                   /\ FoldLeft(CallToAnthropic, base, list) = fold[DOMAIN list]
<1> DEFINE S == DOMAIN list
           Is(fold) == fold = [s \in SUBSET S |->
                         IF s = {} THEN base
                         ELSE CallToAnthropic(fold[s \ {Max(s)}], list[Max(s)])]
<1>1. FoldLeft(CallToAnthropic, base, list) = (CHOOSE fold : Is(fold))[S]
  BY DEF FoldLeft, MapThenFoldSet
<1>2. \A fold : Is(fold) <=> FoldsOn("anthropic", fold, base, list, S)
  BY DEF FoldsOn, StepOf, Told
<1>3. \E fold : Is(fold)
  BY <1>2, FoldExists
<1> DEFINE chosen == CHOOSE fold : Is(fold)
<1>4. Is(chosen)
  BY <1>3
<1> HIDE DEF Is
<1> QED
  BY <1>1, <1>2, <1>4

\* a fold over the chunks of an event,
LEMMA FoldChunks ==
  ASSUME NEW base, NEW list, IsFiniteSet(DOMAIN list), DOMAIN list \subseteq Int
  PROVE  \E fold : /\ FoldsOn("chunk", fold, base, list, DOMAIN list)
                   /\ FoldLeft(TellClient, base, list) = fold[DOMAIN list]
<1> DEFINE S == DOMAIN list
           Is(fold) == fold = [s \in SUBSET S |->
                         IF s = {} THEN base
                         ELSE TellClient(fold[s \ {Max(s)}], list[Max(s)])]
<1>1. FoldLeft(TellClient, base, list) = (CHOOSE fold : Is(fold))[S]
  BY DEF FoldLeft, MapThenFoldSet
<1>2. \A fold : Is(fold) <=> FoldsOn("chunk", fold, base, list, S)
  BY DEF FoldsOn, StepOf, Told
<1>3. \E fold : Is(fold)
  BY <1>2, FoldExists
<1> DEFINE chosen == CHOOSE fold : Is(fold)
<1>4. Is(chosen)
  BY <1>3
<1> HIDE DEF Is
<1> QED
  BY <1>1, <1>2, <1>4

\* and one that counts them.
LEMMA FoldUsage ==
  ASSUME NEW base, NEW list, IsFiniteSet(DOMAIN list), DOMAIN list \subseteq Int
  PROVE  \E fold : /\ FoldsOn("usage", fold, base, list, DOMAIN list)
                   /\ FoldLeft(LAMBDA u, chunk : UsageOf(chunk, u), base, list) = fold[DOMAIN list]
<1> DEFINE S == DOMAIN list
           Is(fold) == fold = [s \in SUBSET S |->
                         IF s = {} THEN base
                         ELSE UsageOf(list[Max(s)], fold[s \ {Max(s)}])]
<1>1. FoldLeft(LAMBDA u, chunk : UsageOf(chunk, u), base, list) = (CHOOSE fold : Is(fold))[S]
  BY DEF FoldLeft, MapThenFoldSet
<1>2. \A fold : Is(fold) <=> FoldsOn("usage", fold, base, list, S)
  BY DEF FoldsOn, StepOf, Told
<1>3. \E fold : Is(fold)
  BY <1>2, FoldExists
<1> DEFINE chosen == CHOOSE fold : Is(fold)
<1>4. Is(chosen)
  BY <1>3
<1> HIDE DEF Is
<1> QED
  BY <1>1, <1>2, <1>4

\* An event makes one chunk or none.
OneOrNone(list, c) == list = <<>> \/ list = <<c>>
\* A function that folds over one element takes one step.
LEMMA ToldOnce ==
  ASSUME NEW base, NEW c, NEW list, OneOrNone(list, c)
  PROVE  \A kind, fold :
           FoldsOn(kind, fold, base, list, DOMAIN list) =>
             fold[DOMAIN list] = IF list = <<>> THEN base ELSE Told(kind, base, c)
<1> SUFFICES ASSUME NEW kind, NEW fold, FoldsOn(kind, fold, base, list, DOMAIN list)
             PROVE  fold[DOMAIN list] = IF list = <<>> THEN base ELSE Told(kind, base, c)
  OBVIOUS
<1>1. CASE list = <<>>
  <2>1. DOMAIN list = {}
    BY <1>1
  <2> QED
    BY <1>1, <2>1 DEF FoldsOn, StepOf
<1>2. CASE list = <<c>>
  <2>1. DOMAIN list = {1} /\ list[1] = c /\ list # <<>>
    BY <1>2
  <2>2. Max({1}) = 1
    BY DEF Max
  <2>3. fold[{}] = base /\ fold[{1}] = Told(kind, fold[{1} \ {1}], list[1])
    BY <2>1, <2>2 DEF FoldsOn, StepOf
  <2> QED
    BY <2>1, <2>3
<1> QED
  BY <1>1, <1>2 DEF OneOrNone

\* So a chunk is told and counted once.
LEMMA ChunksTold ==
  ASSUME NEW base, NEW c, NEW list, OneOrNone(list, c)
  PROVE  /\ FoldLeft(TellClient, base, list)
              = IF list = <<>> THEN base ELSE TellClient(base, c)
         /\ FoldLeft(LAMBDA u, chunk : UsageOf(chunk, u), base, list)
              = IF list = <<>> THEN base ELSE UsageOf(c, base)
<1>1. IsFiniteSet(DOMAIN list) /\ DOMAIN list \subseteq Int
  <2>1. DOMAIN <<>> = {} /\ DOMAIN <<c>> = {1}
    OBVIOUS
  <2>2. DOMAIN list = {} \/ DOMAIN list = {1}
    BY <2>1 DEF OneOrNone
  <2>3. IsFiniteSet({}) /\ IsFiniteSet({1})
    BY FS_EmptySet, FS_Singleton
  <2> QED
    BY <2>2, <2>3
<1>2. Told("chunk", base, c) = TellClient(base, c) /\ Told("usage", base, c) = UsageOf(c, base)
  BY DEF Told
<1>3. FoldLeft(TellClient, base, list) = IF list = <<>> THEN base ELSE TellClient(base, c)
  <2>1. PICK fold : /\ FoldsOn("chunk", fold, base, list, DOMAIN list)
                    /\ FoldLeft(TellClient, base, list) = fold[DOMAIN list]
    BY <1>1, FoldChunks
  <2>2. fold[DOMAIN list] = IF list = <<>> THEN base ELSE Told("chunk", base, c)
    BY <2>1, ToldOnce
  <2> QED
    BY <1>2, <2>1, <2>2
<1>4. FoldLeft(LAMBDA u, chunk : UsageOf(chunk, u), base, list)
        = IF list = <<>> THEN base ELSE UsageOf(c, base)
  <2> DEFINE value == FoldLeft(LAMBDA u, chunk : UsageOf(chunk, u), base, list)
  <2>1. PICK fold : FoldsOn("usage", fold, base, list, DOMAIN list) /\ value = fold[DOMAIN list]
    BY <1>1, FoldUsage
  <2> HIDE DEF value
  <2>2. fold[DOMAIN list] = IF list = <<>> THEN base ELSE Told("usage", base, c)
    BY <2>1, ToldOnce
  <2>3. value = IF list = <<>> THEN base ELSE UsageOf(c, base)
    BY <1>2, <2>1, <2>2
  <2> QED
    BY <2>3 DEF value
<1> QED
  BY <1>3, <1>4

-----------------------------------------------------------------------------
(* The sinks.                                                              *)

\* A kind of frame that ends no stream.
LEMMA QuietFrames ==
  /\ ~Terminal(Created)
  /\ \A item, index, what : ~Terminal(ItemAdded(item, index, what))
  /\ \A item, index, piece : ~Terminal(ItemDelta(item, index, piece))
  /\ \A item, index, pieces : ~Terminal(ItemDone(item, index, pieces))
  /\ \A tokens : ~Terminal(MessageStart(tokens))
  /\ \A index, kind, call : ~Terminal(BlockStart(index, kind, call))
  /\ \A index, kind, piece : ~Terminal(BlockDelta(index, kind, piece))
  /\ \A index : ~Terminal(BlockStop(index))
  /\ \A stop, tokens : ~Terminal(MessageDelta(stop, tokens))
BY DEF Terminal, Created, ItemAdded, ItemDelta, ItemDone, MessageStart,
       BlockStart, BlockDelta, BlockStop, MessageDelta

\* What a map holds after an insertion.
LEMMA WithFacts ==
  ASSUME NEW f, NEW key, NEW value
  PROVE  DOMAIN With(f, key, value) = DOMAIN f \cup {key}
BY DEF With

\* A turn of a Responses sink: it stays one, with its usage.
StaysResponses(s, t) == ResponsesSink(t) /\ t.usage = s.usage

\* Quiet frames may be sent.
LEMMA SendResponses ==
  ASSUME NEW s, ResponsesSink(s), NEW frames, Quiet(frames)
  PROVE  StaysResponses(s, Send(s, frames))
<1>1. Quiet(s.out \o frames)
  BY QuietJoined DEF ResponsesSink
<1> QED
  BY <1>1 DEF StaysResponses, ResponsesSink, Send

\* Each field but the usage may change.
LEMMA ChangeResponses ==
  ASSUME NEW s, ResponsesSink(s)
  PROVE  /\ StaysResponses(s, [s EXCEPT !.started = TRUE])
         /\ StaysResponses(s, [s EXCEPT !.thinking = TRUE])
         /\ StaysResponses(s, [s EXCEPT !.talking = TRUE])
         /\ \A x : StaysResponses(s, [s EXCEPT !.thought = x])
         /\ \A x : StaysResponses(s, [s EXCEPT !.text = x])
         /\ \A x : IsFiniteSet(DOMAIN x) => StaysResponses(s, [s EXCEPT !.calls = x])
BY DEF StaysResponses, ResponsesSink

\* Two turns are a turn.
LEMMA StayTwice ==
  ASSUME NEW s, NEW t, NEW u, StaysResponses(s, t), StaysResponses(t, u)
  PROVE  StaysResponses(s, u)
BY DEF StaysResponses

\* An item may be opened.
LEMMA Ensured ==
  ASSUME NEW s, ResponsesSink(s)
  PROVE  /\ StaysResponses(s, s)
         /\ StaysResponses(s, EnsureReasoning(s)) /\ StaysResponses(s, EnsureMessage(s))
         /\ \A part : StaysResponses(s, EnsureCall(s, part))
<1>1. StaysResponses(s, s)
  BY DEF StaysResponses
<1>2. StaysResponses(s, EnsureReasoning(s))
  <2> DEFINE t == [s EXCEPT !.thinking = TRUE]
             added == <<ItemAdded(TheThought, 0, None)>>
  <2>1. StaysResponses(s, t) /\ ResponsesSink(t)
    BY ChangeResponses DEF StaysResponses
  <2>2. Quiet(added)
    BY QuietFrames, QuietShort
  <2>3. StaysResponses(s, Send(t, added))
    BY <2>1, <2>2, SendResponses, StayTwice
  <2> QED
    BY <1>1, <2>3 DEF EnsureReasoning
<1>3. StaysResponses(s, EnsureMessage(s))
  <2> DEFINE t == [s EXCEPT !.talking = TRUE]
             added == <<ItemAdded(TheMessage, MessageIndex(s), None)>>
  <2>1. StaysResponses(s, t) /\ ResponsesSink(t)
    BY ChangeResponses DEF StaysResponses
  <2>2. Quiet(added)
    BY QuietFrames, QuietShort
  <2>3. StaysResponses(s, Send(t, added))
    BY <2>1, <2>2, SendResponses, StayTwice
  <2> QED
    BY <1>1, <2>3 DEF EnsureMessage
<1>4. ASSUME NEW part
      PROVE  StaysResponses(s, EnsureCall(s, part))
  <2> DEFINE calls == With(s.calls, part.index, [call |-> part.call, args |-> <<>>])
             t == [s EXCEPT !.calls = calls]
             added == <<ItemAdded(TheCall(part.index), CallIndex(s, part.index), part.call)>>
  <2>1. IsFiniteSet(DOMAIN calls)
    <3>1. DOMAIN calls = DOMAIN s.calls \cup {part.index} /\ IsFiniteSet(DOMAIN s.calls)
      BY WithFacts DEF ResponsesSink
    <3> HIDE DEF calls
    <3> QED
      BY <3>1, FS_AddElement
  <2> HIDE DEF calls
  <2>2. StaysResponses(s, t) /\ ResponsesSink(t)
    BY <2>1, ChangeResponses DEF StaysResponses
  <2>3. Quiet(added)
    BY QuietFrames, QuietShort
  <2>4. StaysResponses(s, Send(t, added))
    BY <2>2, <2>3, SendResponses, StayTwice
  <2> QED
    BY <1>1, <2>4 DEF EnsureCall, calls
<1> QED
  BY <1>1, <1>2, <1>3, <1>4

\* A thought, a text and a part of a call are told in a turn.
LEMMA ThinksResponses ==
  ASSUME NEW s, ResponsesSink(s), NEW piece
  PROVE  StaysResponses(s, ThinkToResponses(s, piece))
<1> DEFINE t == EnsureReasoning(s)
           u == [t EXCEPT !.thought = Append(t.thought, piece)]
           delta == <<ItemDelta(TheThought, 0, piece)>>
<1>1. StaysResponses(s, s) /\ StaysResponses(s, t)
  BY Ensured
<1> HIDE DEF t
<1>2. StaysResponses(t, u)
  BY <1>1, ChangeResponses DEF StaysResponses
<1>3. ThinkToResponses(s, piece) = IF piece = None THEN s ELSE Send(u, delta)
  BY DEF ThinkToResponses, t
<1> HIDE DEF u
<1>4. StaysResponses(s, u) /\ ResponsesSink(u)
  BY <1>1, <1>2, StayTwice DEF StaysResponses
<1>5. StaysResponses(u, Send(u, delta))
  BY <1>4, QuietFrames, QuietShort, SendResponses
<1> QED
  BY <1>1, <1>3, <1>4, <1>5, StayTwice

\* A piece of text is.
LEMMA TalksResponses ==
  ASSUME NEW s, ResponsesSink(s), NEW piece
  PROVE  StaysResponses(s, TalkToResponses(s, piece))
<1> DEFINE t == EnsureMessage(s)
           u == [t EXCEPT !.text = Append(t.text, piece)]
           delta == <<ItemDelta(TheMessage, MessageIndex(t), piece)>>
<1>1. StaysResponses(s, s) /\ StaysResponses(s, t)
  BY Ensured
<1> HIDE DEF t
<1>2. StaysResponses(t, u)
  BY <1>1, ChangeResponses DEF StaysResponses
<1>3. TalkToResponses(s, piece) = IF piece = None THEN s ELSE Send(u, delta)
  BY DEF TalkToResponses, t
<1> HIDE DEF u
<1>4. StaysResponses(s, u) /\ ResponsesSink(u)
  BY <1>1, <1>2, StayTwice DEF StaysResponses
<1>5. StaysResponses(u, Send(u, delta))
  BY <1>4, QuietFrames, QuietShort, SendResponses
<1> QED
  BY <1>1, <1>3, <1>4, <1>5, StayTwice

\* And so is a part of a call.
LEMMA CallsResponses ==
  ASSUME NEW s, ResponsesSink(s), NEW part
  PROVE  StaysResponses(s, CallToResponses(s, part))
<1> DEFINE t == EnsureCall(s, part)
           calls == [t.calls EXCEPT ![part.index].args = Append(@, part.args)]
           u == [t EXCEPT !.calls[part.index].args = Append(@, part.args)]
           delta == <<ItemDelta(TheCall(part.index), CallIndex(t, part.index), part.args)>>
<1>1. StaysResponses(s, s) /\ StaysResponses(s, t)
  BY Ensured
<1> HIDE DEF t
<1>2. u = [t EXCEPT !.calls = calls]
  OBVIOUS
<1>3. IsFiniteSet(DOMAIN calls)
  BY <1>1 DEF StaysResponses, ResponsesSink
<1>4. CallToResponses(s, part) = IF part.args = None THEN t ELSE Send(u, delta)
  BY DEF CallToResponses, t
<1> HIDE DEF u, calls
<1>5. StaysResponses(t, u)
  BY <1>1, <1>2, <1>3, ChangeResponses DEF StaysResponses
<1>6. StaysResponses(s, u) /\ ResponsesSink(u)
  BY <1>1, <1>5, StayTwice DEF StaysResponses
<1>7. StaysResponses(u, Send(u, delta))
  BY <1>6, QuietFrames, QuietShort, SendResponses
<1> QED
  BY <1>1, <1>4, <1>6, <1>7, StayTwice

\* A fold over the parts of a chunk, part by part.
LEMMA PartsResponses ==
  ASSUME NEW s, ResponsesSink(s), NEW list, IsFiniteSet(DOMAIN list), DOMAIN list \subseteq Int
  PROVE  StaysResponses(s, FoldLeft(CallToResponses, s, list))
<1>1. PICK fold : /\ FoldsOn("responses", fold, s, list, DOMAIN list)
                  /\ FoldLeft(CallToResponses, s, list) = fold[DOMAIN list]
  BY FoldResponses
<1> DEFINE S == DOMAIN list
           Wrong == {t \in SUBSET S : ~StaysResponses(s, fold[t])}
<1>2. ASSUME Wrong # {}
      PROVE  FALSE
  <2>1. PICK t \in Wrong : IsFiniteSet(t) /\ \A r \in SUBSET t : r # t => r \notin Wrong
    <3>1. Wrong \in SUBSET (SUBSET S)
      OBVIOUS
    <3> HIDE DEF Wrong
    <3> QED
      BY <3>1, <1>2, LeastSet
  <2>2. t \in SUBSET S /\ ~StaysResponses(s, fold[t])
    BY <2>1
  <2>3. fold[t] = StepOf("responses", fold, s, list, t)
    BY <1>1, <2>2 DEF FoldsOn
  <2>4. CASE t = {}
    BY <2>2, <2>3, <2>4 DEF StepOf, StaysResponses
  <2>5. CASE t # {}
    <3> DEFINE m == Max(t)
               rest == t \ {m}
    <3>1. m \in t
      BY <2>1, <2>2, <2>5, Largest
    <3>2. rest \in SUBSET t /\ rest # t /\ rest \in SUBSET S
      BY <2>2, <3>1
    <3>3. StaysResponses(s, fold[rest])
      BY <2>1, <3>2
    <3>4. fold[t] = CallToResponses(fold[rest], list[m])
      BY <2>3, <2>5 DEF StepOf, Told
    <3> HIDE DEF rest, m
    <3> QED
      BY <2>2, <3>3, <3>4, CallsResponses, StayTwice DEF StaysResponses
  <2> QED
    BY <2>4, <2>5
<1>3. StaysResponses(s, fold[S])
  BY <1>2
<1> QED
  BY <1>1, <1>3

\* A chunk, as the sinks take it.
Chunk(c) ==
  /\ DOMAIN c = DOMAIN Blank /\ c.type = "chunk"
  /\ c.usage \in {None, Null} \cup [input : Nat, output : Nat]
  /\ \E n \in Nat : DOMAIN c.calls = 1..n

\* A chunk's parts can be folded over; it counts, and ends nothing.
LEMMA ChunkFacts ==
  ASSUME NEW c, Chunk(c)
  PROVE  /\ IsFiniteSet(DOMAIN c.calls) /\ DOMAIN c.calls \subseteq Int
         /\ \A u \in Count : UsageOf(c, u) \in Count
         /\ ~Terminal(c)
<1>1. PICK n \in Nat : DOMAIN c.calls = 1..n
  BY DEF Chunk
<1>2. 1 \in Int /\ n \in Int
  OBVIOUS
<1>3. IsFiniteSet(1..n)
  BY <1>2, FS_Interval
<1>4. \A u \in Count : UsageOf(c, u) \in Count
  BY DEF Chunk, UsageOf, Count, Reported
<1> QED
  BY <1>1, <1>3, <1>4 DEF Chunk, Terminal

\* A Responses sink has counted what the chunk reports, and told something.
LEMMA ChunkToResponses ==
  ASSUME NEW s, ResponsesSink(s), NEW c, Chunk(c)
  PROVE  /\ ResponsesSink(ChatToResponses(s, c))
         /\ ChatToResponses(s, c).usage = UsageOf(c, s.usage)
<1> DEFINE begun == IF s.started THEN s
                    ELSE Send([s EXCEPT !.started = TRUE], <<Created>>)
           counted == [begun EXCEPT !.usage = UsageOf(c, begun.usage)]
           thought == ThinkToResponses(counted, c.thought)
           talked == TalkToResponses(thought, c.text)
<1>1. StaysResponses(s, begun)
  <2>1. StaysResponses(s, [s EXCEPT !.started = TRUE])
    BY ChangeResponses
  <2>2. StaysResponses([s EXCEPT !.started = TRUE], Send([s EXCEPT !.started = TRUE], <<Created>>))
    BY <2>1, QuietFrames, QuietShort, SendResponses DEF StaysResponses
  <2> QED
    BY <2>1, <2>2, StayTwice DEF StaysResponses
<1>2. ChatToResponses(s, c) = FoldLeft(CallToResponses, talked, c.calls)
  BY DEF ChatToResponses
<1> HIDE DEF begun
<1>3. ResponsesSink(counted) /\ counted.usage = UsageOf(c, s.usage)
  BY <1>1, ChunkFacts DEF StaysResponses, ResponsesSink
<1> HIDE DEF counted
<1>4. StaysResponses(counted, thought)
  BY <1>3, ThinksResponses
<1> HIDE DEF thought
<1>5. StaysResponses(thought, talked)
  BY <1>4, TalksResponses DEF StaysResponses
<1> HIDE DEF talked
<1>6. StaysResponses(talked, FoldLeft(CallToResponses, talked, c.calls))
  BY <1>5, ChunkFacts, PartsResponses DEF StaysResponses
<1> QED
  BY <1>2, <1>3, <1>4, <1>5, <1>6 DEF StaysResponses

-----------------------------------------------------------------------------
\* The Anthropic sink keeps its usage through a turn as well.
StaysAnthropic(s, t) == AnthropicSink(t) /\ t.usage = s.usage

\* Quiet frames may be sent.
LEMMA SendAnthropic ==
  ASSUME NEW s, AnthropicSink(s), NEW frames, Quiet(frames)
  PROVE  StaysAnthropic(s, Send(s, frames))
<1>1. Quiet(s.out \o frames)
  BY QuietJoined DEF AnthropicSink
<1> QED
  BY <1>1 DEF StaysAnthropic, AnthropicSink, Send

\* Two turns are a turn.
LEMMA StayLonger ==
  ASSUME NEW s, NEW t, NEW u, StaysAnthropic(s, t), StaysAnthropic(t, u)
  PROVE  StaysAnthropic(s, u)
BY DEF StaysAnthropic

\* A text is told in a turn,
LEMMA TalksAnthropic ==
  ASSUME NEW s, AnthropicSink(s), NEW piece
  PROVE  StaysAnthropic(s, TalkToAnthropic(s, piece))
<1> DEFINE t == [s EXCEPT !.open = TRUE]
           start == IF s.open THEN <<>> ELSE <<BlockStart(s.block, "text", None)>>
           delta == <<BlockDelta(s.block, "text", piece)>>
<1>1. StaysAnthropic(s, s) /\ StaysAnthropic(s, t) /\ AnthropicSink(t)
  BY DEF StaysAnthropic, AnthropicSink
<1>2. Quiet(start) /\ Quiet(delta)
  BY QuietFrames, QuietShort
<1>3. TalkToAnthropic(s, piece) = IF piece = None THEN s ELSE Send(t, start \o delta)
  BY DEF TalkToAnthropic
<1> HIDE DEF t, start, delta
<1>4. StaysAnthropic(t, Send(t, start \o delta))
  BY <1>1, <1>2, QuietJoined, SendAnthropic
<1> QED
  BY <1>1, <1>3, <1>4, StayLonger

\* its block is closed in one,
LEMMA ClosesAnthropic ==
  ASSUME NEW s, AnthropicSink(s)
  PROVE  StaysAnthropic(s, CloseText(s))
<1> DEFINE t == [s EXCEPT !.open = FALSE, !.block = s.block + 1]
           stop == <<BlockStop(s.block)>>
<1>1. StaysAnthropic(s, s) /\ StaysAnthropic(s, t) /\ AnthropicSink(t)
  BY DEF StaysAnthropic, AnthropicSink
<1>2. Quiet(stop)
  BY QuietFrames, QuietShort
<1>3. CloseText(s) = IF s.open THEN Send(t, stop) ELSE s
  BY DEF CloseText
<1> HIDE DEF t, stop
<1>4. StaysAnthropic(t, Send(t, stop))
  BY <1>1, <1>2, SendAnthropic
<1> QED
  BY <1>1, <1>3, <1>4, StayLonger

\* and a part of a call is told in one.
LEMMA CallsAnthropic ==
  ASSUME NEW s, AnthropicSink(s), NEW part
  PROVE  StaysAnthropic(s, CallToAnthropic(s, part))
<1> DEFINE calls == With(s.calls, part.index, s.block)
           opened == [s EXCEPT !.calls = calls, !.block = s.block + 1]
           start == <<BlockStart(s.block, "tool_use", part.call)>>
           t == IF part.index \in DOMAIN s.calls THEN s ELSE Send(opened, start)
           delta == <<BlockDelta(t.calls[part.index], "tool_use", part.args)>>
<1>1. IsFiniteSet(DOMAIN calls)
  <2>1. DOMAIN calls = DOMAIN s.calls \cup {part.index} /\ IsFiniteSet(DOMAIN s.calls)
    BY WithFacts DEF AnthropicSink
  <2> HIDE DEF calls
  <2> QED
    BY <2>1, FS_AddElement
<1>2. CallToAnthropic(s, part) = IF part.args = None THEN t ELSE Send(t, delta)
  BY DEF CallToAnthropic
<1>3. StaysAnthropic(s, s)
  BY DEF StaysAnthropic
<1> HIDE DEF calls
<1>4. StaysAnthropic(s, opened) /\ AnthropicSink(opened)
  BY <1>1 DEF StaysAnthropic, AnthropicSink
<1>5. Quiet(start)
  BY QuietFrames, QuietShort
<1> HIDE DEF opened, start
<1>6. StaysAnthropic(opened, Send(opened, start))
  BY <1>4, <1>5, SendAnthropic
<1>7. StaysAnthropic(s, t) /\ AnthropicSink(t)
  BY <1>3, <1>4, <1>6, StayLonger DEF StaysAnthropic
<1> HIDE DEF t
<1>8. StaysAnthropic(t, Send(t, delta))
  BY <1>7, QuietFrames, QuietShort, SendAnthropic
<1> QED
  BY <1>2, <1>7, <1>8, StayLonger

\* So are all the parts of a chunk,
LEMMA PartsAnthropic ==
  ASSUME NEW s, AnthropicSink(s), NEW list, IsFiniteSet(DOMAIN list), DOMAIN list \subseteq Int
  PROVE  StaysAnthropic(s, FoldLeft(CallToAnthropic, s, list))
<1>1. PICK fold : /\ FoldsOn("anthropic", fold, s, list, DOMAIN list)
                  /\ FoldLeft(CallToAnthropic, s, list) = fold[DOMAIN list]
  BY FoldAnthropic
<1> DEFINE S == DOMAIN list
           Wrong == {t \in SUBSET S : ~StaysAnthropic(s, fold[t])}
<1>2. ASSUME Wrong # {}
      PROVE  FALSE
  <2>1. PICK t \in Wrong : IsFiniteSet(t) /\ \A r \in SUBSET t : r # t => r \notin Wrong
    <3>1. Wrong \in SUBSET (SUBSET S)
      OBVIOUS
    <3> HIDE DEF Wrong
    <3> QED
      BY <3>1, <1>2, LeastSet
  <2>2. t \in SUBSET S /\ ~StaysAnthropic(s, fold[t])
    BY <2>1
  <2>3. fold[t] = StepOf("anthropic", fold, s, list, t)
    BY <1>1, <2>2 DEF FoldsOn
  <2>4. CASE t = {}
    BY <2>2, <2>3, <2>4 DEF StepOf, StaysAnthropic
  <2>5. CASE t # {}
    <3> DEFINE m == Max(t)
               rest == t \ {m}
    <3>1. m \in t
      BY <2>1, <2>2, <2>5, Largest
    <3>2. rest \in SUBSET t /\ rest # t /\ rest \in SUBSET S
      BY <2>2, <3>1
    <3>3. StaysAnthropic(s, fold[rest])
      BY <2>1, <3>2
    <3>4. fold[t] = CallToAnthropic(fold[rest], list[m])
      BY <2>3, <2>5 DEF StepOf, Told
    <3> HIDE DEF rest, m
    <3> QED
      BY <2>2, <3>3, <3>4, CallsAnthropic, StayLonger DEF StaysAnthropic
  <2> QED
    BY <2>4, <2>5
<1>3. StaysAnthropic(s, fold[S])
  BY <1>2
<1> QED
  BY <1>1, <1>3

\* and a chunk, whose report is counted.
LEMMA ChunkToAnthropic ==
  ASSUME NEW s, AnthropicSink(s), NEW c, Chunk(c)
  PROVE  /\ AnthropicSink(ChatToAnthropic(s, c))
         /\ ChatToAnthropic(s, c).usage = UsageOf(c, s.usage)
<1> DEFINE started == [s EXCEPT !.started = TRUE]
           begun == IF s.started THEN s ELSE Send(started, <<MessageStart(Tokens(0, 0))>>)
           stop == IF c.finish = None THEN begun.stop ELSE StopReason(c.finish)
           counted == [begun EXCEPT !.usage = UsageOf(c, begun.usage), !.stop = stop]
           spoken == TalkToAnthropic(counted, c.text)
           closed == CloseText(spoken)
<1>1. StaysAnthropic(s, begun)
  <2>1. StaysAnthropic(s, s) /\ StaysAnthropic(s, started) /\ AnthropicSink(started)
    BY DEF StaysAnthropic, AnthropicSink
  <2> HIDE DEF started
  <2>2. StaysAnthropic(started, Send(started, <<MessageStart(Tokens(0, 0))>>))
    BY <2>1, QuietFrames, QuietShort, SendAnthropic
  <2> QED
    BY <2>1, <2>2, StayLonger
<1>2. ChatToAnthropic(s, c)
        = IF c.calls = <<>> THEN spoken ELSE FoldLeft(CallToAnthropic, closed, c.calls)
  BY DEF ChatToAnthropic
<1> HIDE DEF begun, stop
<1>3. AnthropicSink(counted) /\ counted.usage = UsageOf(c, s.usage)
  BY <1>1, ChunkFacts DEF StaysAnthropic, AnthropicSink
<1> HIDE DEF counted
<1>4. StaysAnthropic(counted, spoken)
  BY <1>3, TalksAnthropic
<1> HIDE DEF spoken
<1>5. StaysAnthropic(spoken, closed)
  BY <1>4, ClosesAnthropic DEF StaysAnthropic
<1> HIDE DEF closed
<1>6. StaysAnthropic(closed, FoldLeft(CallToAnthropic, closed, c.calls))
  BY <1>5, ChunkFacts, PartsAnthropic DEF StaysAnthropic
<1> QED
  BY <1>2, <1>3, <1>4, <1>5, <1>6 DEF StaysAnthropic

-----------------------------------------------------------------------------
(* The end of a stream.                                                    *)

\* The last frame and no other ends it.
Closing(frames) ==
  /\ Sequence(frames) /\ frames # <<>>
  /\ \A k \in DOMAIN frames : Terminal(frames[k]) <=> k = Len(frames)

\* Quiet frames may come before.
LEMMA QuietThenClosing ==
  ASSUME NEW s, NEW t, Quiet(s), Closing(t)
  PROVE  Closing(s \o t)
<1>1. /\ Sequence(s) /\ Sequence(t) /\ Len(s) \in Nat /\ Len(t) \in Nat \ {0}
      /\ \A k \in 1..Len(s) : ~Terminal(s[k])
      /\ \A k \in 1..Len(t) : Terminal(t[k]) <=> k = Len(t)
  <2>1. Sequence(s) /\ Sequence(t) /\ t # <<>>
    BY DEF Quiet, Closing
  <2>2. Len(t) # 0
    BY <2>1, EmptySeq DEF Sequence
  <2> QED
    BY <2>1, <2>2, SequenceFacts DEF Quiet, Closing
<1>2. /\ Sequence(s \o t) /\ Len(s \o t) = Len(s) + Len(t)
      /\ DOMAIN (s \o t) = 1..(Len(s) + Len(t))
      /\ \A k \in 1..(Len(s) + Len(t)) :
           (s \o t)[k] = IF k <= Len(s) THEN s[k] ELSE t[k - Len(s)]
  BY <1>1, Joined, SequenceFacts
<1>3. ASSUME NEW k \in 1..(Len(s) + Len(t))
      PROVE  Terminal((s \o t)[k]) <=> k = Len(s) + Len(t)
  <2>1. CASE k <= Len(s)
    BY <1>1, <1>2, <1>3, <2>1
  <2>2. CASE ~(k <= Len(s))
    <3>1. k - Len(s) \in 1..Len(t)
      BY <1>1, <1>3, <2>2
    <3>2. Terminal(t[k - Len(s)]) <=> k - Len(s) = Len(t)
      BY <1>1, <3>1
    <3> QED
      BY <1>1, <1>2, <1>3, <2>2, <3>1, <3>2
  <2> QED
    BY <2>1, <2>2
<1>4. s \o t # <<>>
  BY <1>1, <1>2
<1> QED
  BY <1>2, <1>3, <1>4 DEF Closing

\* Many frames of one kind are quiet.
LEMMA ManyQuiet ==
  ASSUME NEW n \in Nat, NEW frames, DOMAIN frames = 1..n, frames = [k \in 1..n |-> frames[k]],
         \A k \in 1..n : ~Terminal(frames[k])
  PROVE  Quiet(frames)
<1>1. frames \in [1..n -> ToSet(frames)]
  BY DEF ToSet
<1>2. frames \in Seq(ToSet(frames))
  BY <1>1, SeqDef
<1> QED
  BY <1>2 DEF Quiet, Sequence

\* The last usage that is reported, and the last with its input.
Lasts(events, i, j) ==
  /\ i \in DOMAIN events /\ ReportsInput(events[i])
  /\ \A k \in DOMAIN events : ReportsInput(events[k]) => k <= i
  /\ j \in DOMAIN events /\ Reports(events[j])
  /\ \A k \in DOMAIN events : Reports(events[k]) => k <= j

\* They are what is told last.
LEMMA LastUsageIs ==
  ASSUME NEW events, Sequence(events), NEW i, NEW j, Lasts(events, i, j)
  PROVE  LastUsage(events) = Tokens(events[i].usage.input, events[j].usage.output)
<1>1. DOMAIN events = 1..Len(events) /\ Len(events) \in Nat
  BY SequenceFacts
<1> DEFINE I == {k \in 1..Len(events) : ReportsInput(events[k])}
           J == {k \in 1..Len(events) : Reports(events[k])}
<1>2. i \in I /\ (\A k \in I : k <= i) /\ j \in J /\ \A k \in J : k <= j
  BY <1>1 DEF Lasts
<1>3. I \subseteq Int /\ J \subseteq Int
  BY <1>1
<1>4. SelectLastInSeq(events, ReportsInput) = IF I # {} THEN Max(I) ELSE 0
  BY DEF SelectLastInSeq
<1>5. SelectLastInSeq(events, Reports) = IF J # {} THEN Max(J) ELSE 0
  BY DEF SelectLastInSeq
<1> HIDE DEF I, J
<1>6. Max(I) = i
  BY <1>2, <1>3, MaxIs
<1>7. Max(J) = j
  BY <1>2, <1>3, MaxIs
<1> QED
  BY <1>2, <1>4, <1>5, <1>6, <1>7 DEF LastUsage

\* If an input has been reported there are such.
LEMMA LastsExist ==
  ASSUME NEW events, Sequence(events), TellInput(events)
  PROVE  \E i, j : Lasts(events, i, j)
<1>1. DOMAIN events = 1..Len(events) /\ Len(events) \in Nat
  BY SequenceFacts
<1> DEFINE I == {k \in 1..Len(events) : ReportsInput(events[k])}
           J == {k \in 1..Len(events) : Reports(events[k])}
<1>2. IsFiniteSet(1..Len(events))
  <2>1. 1 \in Int /\ Len(events) \in Int
    BY <1>1
  <2> QED
    BY <2>1, FS_Interval
<1>3. I # {} /\ J # {} /\ I \subseteq Int /\ J \subseteq Int
  BY <1>1 DEF TellInput, ReportsInput
<1>4. IsFiniteSet(I) /\ IsFiniteSet(J)
  BY <1>2, FS_Subset
<1>5. /\ Max(I) \in I /\ (\A k \in I : k <= Max(I))
      /\ Max(J) \in J /\ \A k \in J : k <= Max(J)
  <2> HIDE DEF I, J
  <2> QED
    BY <1>3, <1>4, Largest
<1>6. Lasts(events, Max(I), Max(J))
  BY <1>1, <1>5 DEF Lasts
<1> QED
  BY <1>6

\* One more event, and what it does to the usage.
LEMMA OneMoreEvent ==
  ASSUME NEW events, Sequence(events), NEW e
  PROVE  /\ TellUsage(Append(events, e)) <=> TellUsage(events) \/ Reports(e)
         /\ TellInput(Append(events, e)) <=> TellInput(events) \/ ReportsInput(e)
         /\ ReportsInput(e) =>
              LastUsage(Append(events, e)) = Tokens(e.usage.input, e.usage.output)
         /\ TellInput(events) /\ Reports(e) /\ ~ReportsInput(e) =>
              LastUsage(Append(events, e))
                = Tokens(LastUsage(events).input, e.usage.output)
         /\ TellInput(events) /\ ~Reports(e) =>
              LastUsage(Append(events, e)) = LastUsage(events)
<1> DEFINE n == Len(events)
           after == Append(events, e)
<1>1. n \in Nat /\ DOMAIN events = 1..n
  BY SequenceFacts
<1>2. /\ Sequence(after) /\ Len(after) = n + 1 /\ after[n + 1] = e
      /\ \A k \in 1..n : after[k] = events[k]
  BY Appended
<1>3. DOMAIN after = 1..(n + 1)
  BY <1>2, SequenceFacts
<1>4. 1..(n + 1) = 1..n \cup {n + 1}
  BY <1>1
<1> HIDE DEF n, after
<1>5. TellUsage(after) <=> TellUsage(events) \/ Reports(e)
  BY <1>1, <1>2, <1>3, <1>4 DEF TellUsage
<1>6. TellInput(after) <=> TellInput(events) \/ ReportsInput(e)
  BY <1>1, <1>2, <1>3, <1>4 DEF TellInput
<1>7. ASSUME ReportsInput(e)
      PROVE  LastUsage(after) = Tokens(e.usage.input, e.usage.output)
  <2>1. Lasts(after, n + 1, n + 1)
    BY <1>1, <1>2, <1>3, <1>7 DEF Lasts, ReportsInput
  <2> QED
    BY <1>2, <2>1, LastUsageIs
<1>8. ASSUME TellInput(events), ~ReportsInput(e)
      PROVE  LastUsage(after)
               = IF Reports(e) THEN Tokens(LastUsage(events).input, e.usage.output)
                 ELSE LastUsage(events)
  <2>1. PICK i, j : Lasts(events, i, j)
    BY <1>8, LastsExist
  <2>2. LastUsage(events) = Tokens(events[i].usage.input, events[j].usage.output)
    BY <2>1, LastUsageIs
  <2>3. i \in 1..n /\ j \in 1..n
    BY <1>1, <2>1 DEF Lasts
  <2>4. CASE Reports(e)
    <3>1. Lasts(after, i, n + 1)
      BY <1>1, <1>2, <1>3, <1>4, <1>8, <2>1, <2>3, <2>4 DEF Lasts
    <3>2. LastUsage(after) = Tokens(events[i].usage.input, e.usage.output)
      BY <1>2, <2>3, <3>1, LastUsageIs
    <3> QED
      BY <2>2, <2>4, <3>2 DEF Tokens
  <2>5. CASE ~Reports(e)
    <3>1. Lasts(after, i, j)
      BY <1>1, <1>2, <1>3, <1>4, <1>8, <2>1, <2>3, <2>5 DEF Lasts
    <3> QED
      BY <1>2, <2>2, <2>3, <2>5, <3>1, LastUsageIs
  <2> QED
    BY <2>4, <2>5
<1>9. Reports(e) \/ ~ReportsInput(e)
  BY DEF ReportsInput
<1> QED
  BY <1>5, <1>6, <1>7, <1>8, <1>9 DEF after

\* The frames that close a stream report what its sink has counted.
Totals(frames, tokens) ==
  /\ Closing(frames)
  /\ \E k \in DOMAIN frames :
       /\ ReportsInput(frames[k])
       /\ Tokens(frames[k].usage.input, frames[k].usage.output) = tokens
       /\ \A j \in DOMAIN frames : Reports(frames[j]) => j <= k

\* They are what is told last, whatever came before.
LEMMA TotalsLast ==
  ASSUME NEW s, Sequence(s), NEW t, NEW tokens, Totals(t, tokens)
  PROVE  TellUsage(s \o t) /\ LastUsage(s \o t) = tokens
<1>1. /\ Sequence(t) /\ Len(s) \in Nat /\ Len(t) \in Nat /\ DOMAIN t = 1..Len(t)
  BY SequenceFacts DEF Totals, Closing
<1>2. /\ Sequence(s \o t) /\ DOMAIN (s \o t) = 1..(Len(s) + Len(t))
      /\ \A k \in 1..(Len(s) + Len(t)) :
           (s \o t)[k] = IF k <= Len(s) THEN s[k] ELSE t[k - Len(s)]
  BY <1>1, Joined, SequenceFacts
<1>3. PICK k \in 1..Len(t) :
        /\ ReportsInput(t[k])
        /\ Tokens(t[k].usage.input, t[k].usage.output) = tokens
        /\ \A j \in 1..Len(t) : Reports(t[j]) => j <= k
  BY <1>1 DEF Totals
<1> DEFINE m == Len(s) + k
           all == s \o t
<1>4. m \in 1..(Len(s) + Len(t)) /\ all[m] = t[k]
  BY <1>1, <1>2, <1>3
<1>5. ASSUME NEW j \in 1..(Len(s) + Len(t)), Reports(all[j])
      PROVE  j <= m
  <2>1. CASE j <= Len(s)
    BY <1>1, <2>1
  <2>2. CASE ~(j <= Len(s))
    <3>1. j - Len(s) \in 1..Len(t) /\ all[j] = t[j - Len(s)]
      BY <1>1, <1>2, <1>5, <2>2
    <3>2. j - Len(s) <= k
      BY <1>3, <1>5, <3>1
    <3> QED
      BY <1>1, <1>5, <3>1, <3>2
  <2> QED
    BY <2>1, <2>2
<1> HIDE DEF m, all
<1>6. Lasts(all, m, m)
  BY <1>2, <1>3, <1>4, <1>5 DEF Lasts, ReportsInput, all
<1>7. LastUsage(all) = tokens
  <2>1. Sequence(all)
    BY <1>2 DEF all
  <2>2. LastUsage(all) = Tokens(all[m].usage.input, all[m].usage.output)
    BY <1>6, <2>1, LastUsageIs
  <2> QED
    BY <1>3, <1>4, <2>2
<1>8. m \in DOMAIN all /\ Reports(all[m])
  BY <1>6 DEF Lasts
<1>9. TellUsage(all)
  BY <1>8 DEF TellUsage
<1> QED
  BY <1>7, <1>9 DEF all

\* What is recorded is a report.
LEMMA CountReports ==
  ASSUME NEW u \in Count
  PROVE  /\ TokensOf(u) \in [input : Nat, output : Nat]
         /\ TokensOf(u) \notin {None, Null} /\ TokensOf(u).input # None
         /\ Tokens(TokensOf(u).input, TokensOf(u).output) = TokensOf(u)
<1>1. u.input \in Nat /\ u.output \in Nat
  BY DEF Count
<1>2. /\ TokensOf(u) \in [input : Nat, output : Nat] /\ TokensOf(u).input \in Nat
      /\ TokensOf(u) \in [input : Nat \cup {None}, output : Nat]
      /\ Tokens(TokensOf(u).input, TokensOf(u).output) = TokensOf(u)
  BY <1>1 DEF TokensOf, Tokens
<1> QED
  BY <1>2, NullAssumption

\* The frames after quiet ones: the total, and what may follow it.
LEMMA OneTotal ==
  ASSUME NEW u \in Count, NEW quiet, Quiet(quiet)
  PROVE  Totals(quiet \o <<Ended("response.completed", TokensOf(u))>>, TokensOf(u))
<1> DEFINE end == Ended("response.completed", TokensOf(u))
           all == quiet \o <<end>>
<1>1. /\ ReportsInput(end) /\ Tokens(end.usage.input, end.usage.output) = TokensOf(u)
      /\ Terminal(end)
  BY CountReports DEF Ended, ReportsInput, Reports, Terminal
<1> HIDE DEF end
<1>2. /\ Sequence(<<end>>) /\ Len(<<end>>) = 1 /\ <<end>>[1] = end /\ DOMAIN <<end>> = {1}
      /\ <<end>> # <<>>
  BY Short
<1>3. Closing(<<end>>)
  BY <1>1, <1>2 DEF Closing
<1>4. Closing(all)
  BY <1>3, QuietThenClosing
<1>5. Sequence(quiet) /\ Len(quiet) \in Nat /\ DOMAIN quiet = 1..Len(quiet)
  BY SequenceFacts DEF Quiet
<1>6. /\ Sequence(all) /\ DOMAIN all = 1..(Len(quiet) + 1)
      /\ all[Len(quiet) + 1] = end
  BY <1>2, <1>5, Joined, SequenceFacts
<1>7. Len(quiet) + 1 \in DOMAIN all /\ \A j \in DOMAIN all : j <= Len(quiet) + 1
  BY <1>5, <1>6
<1> HIDE DEF all
<1> QED
  BY <1>1, <1>4, <1>6, <1>7 DEF Totals, all, end

\* A total with a frame that stops the message after it.
LEMMA TotalThenStop ==
  ASSUME NEW u \in Count, NEW quiet, Quiet(quiet), NEW stop
  PROVE  Totals(quiet \o <<MessageDelta(stop, TokensOf(u)), MessageStop>>, TokensOf(u))
<1> DEFINE total == MessageDelta(stop, TokensOf(u))
           last == MessageStop
           all == quiet \o <<total, last>>
<1>1. /\ ReportsInput(total) /\ Tokens(total.usage.input, total.usage.output) = TokensOf(u)
      /\ ~Terminal(total) /\ Terminal(last) /\ ~Reports(last)
  BY CountReports
  DEF MessageDelta, MessageStop, ReportsInput, Reports, Terminal
<1> HIDE DEF total, last
<1>2. /\ Sequence(<<total, last>>) /\ Len(<<total, last>>) = 2
      /\ <<total, last>>[1] = total /\ <<total, last>>[2] = last
      /\ DOMAIN <<total, last>> = 1..2 /\ <<total, last>> # <<>>
  BY Short, SequenceFacts
<1>3. Closing(<<total, last>>)
  BY <1>1, <1>2 DEF Closing
<1>4. Closing(all)
  BY <1>3, QuietThenClosing
<1>5. Sequence(quiet) /\ Len(quiet) \in Nat /\ DOMAIN quiet = 1..Len(quiet)
  BY SequenceFacts DEF Quiet
<1>6. /\ Sequence(all) /\ DOMAIN all = 1..(Len(quiet) + 2)
      /\ all[Len(quiet) + 1] = total /\ all[Len(quiet) + 2] = last
  BY <1>2, <1>5, Joined, SequenceFacts
<1> HIDE DEF all
<1>7. Len(quiet) + 1 \in DOMAIN all
  BY <1>5, <1>6
<1>8. ASSUME NEW j \in DOMAIN all, Reports(all[j])
      PROVE  j <= Len(quiet) + 1
  <2>1. j \in Nat /\ j <= Len(quiet) + 2 /\ j # Len(quiet) + 2
    BY <1>1, <1>5, <1>6, <1>8
  <2> QED
    BY <1>5, <2>1
<1> QED
  BY <1>1, <1>4, <1>6, <1>7, <1>8 DEF Totals, all, total, last

\* A sink that has finished: it has told the total.
Finished(s, f) ==
  /\ DOMAIN f = DOMAIN s
  /\ \A field \in DOMAIN s : field # "out" => f[field] = s[field]
  /\ \E tail : f.out = s.out \o tail /\ Totals(tail, TokensOf(s.usage))

\* A Responses sink finishes like this,
LEMMA FinishedResponses ==
  ASSUME NEW s, ResponsesSink(s)
  PROVE  Finished(s, FinishResponses(s))
<1> DEFINE thought == IF s.thinking THEN <<ItemDone(TheThought, 0, s.thought)>> ELSE <<>>
           message == IF s.talking
                      THEN <<ItemDone(TheMessage, MessageIndex(s), s.text)>> ELSE <<>>
           calls == Sorted(DOMAIN s.calls)
           n == Cardinality(DOMAIN s.calls)
           closed == [k \in DOMAIN calls |->
                        ItemDone(TheCall(calls[k]), CallIndex(s, calls[k]),
                                 s.calls[calls[k]].args)]
           quiet == thought \o message \o closed
           end == <<Ended("response.completed", TokensOf(s.usage))>>
<1>1. Quiet(thought) /\ Quiet(message)
  BY QuietFrames, QuietShort
<1>2. n \in Nat /\ DOMAIN calls = 1..n
  BY FS_CardinalityType DEF ResponsesSink, Sorted
<1>3. Quiet(closed)
  <2>1. DOMAIN closed = 1..n /\ \A k \in 1..n : ~Terminal(closed[k])
    BY <1>2, QuietFrames
  <2>2. closed = [k \in 1..n |-> closed[k]]
    BY <1>2
  <2> HIDE DEF closed, n
  <2> QED
    BY <1>2, <2>1, <2>2, ManyQuiet
<1>4. FinishResponses(s) = Send(s, quiet \o end)
  BY DEF FinishResponses
<1> HIDE DEF thought, message, closed, calls, n
<1>5. Quiet(quiet)
  BY <1>1, <1>3, QuietJoined
<1> HIDE DEF quiet
<1>6. Totals(quiet \o end, TokensOf(s.usage))
  BY <1>5, OneTotal DEF ResponsesSink
<1> HIDE DEF end
<1> QED
  BY <1>4, <1>6 DEF Finished, Send, ResponsesSink

\* and so does an Anthropic one.
LEMMA FinishedAnthropic ==
  ASSUME NEW s, AnthropicSink(s)
  PROVE  Finished(s, FinishAnthropic(s))
<1> DEFINE text == IF s.open THEN <<BlockStop(s.block)>> ELSE <<>>
           calls == Sorted(DOMAIN s.calls)
           n == Cardinality(DOMAIN s.calls)
           closed == [k \in DOMAIN calls |-> BlockStop(s.calls[calls[k]])]
           quiet == text \o closed
           end == <<MessageDelta(s.stop, TokensOf(s.usage)), MessageStop>>
<1>1. Quiet(text)
  BY QuietFrames, QuietShort
<1>2. n \in Nat /\ DOMAIN calls = 1..n
  BY FS_CardinalityType DEF AnthropicSink, Sorted
<1>3. Quiet(closed)
  <2>1. DOMAIN closed = 1..n /\ \A k \in 1..n : ~Terminal(closed[k])
    BY <1>2, QuietFrames
  <2>2. closed = [k \in 1..n |-> closed[k]]
    BY <1>2
  <2> HIDE DEF closed, n
  <2> QED
    BY <1>2, <2>1, <2>2, ManyQuiet
<1>4. FinishAnthropic(s) = Send(s, quiet \o end)
  BY DEF FinishAnthropic
<1> HIDE DEF text, closed, calls, n
<1>5. Quiet(quiet)
  BY <1>1, <1>3, QuietJoined
<1> HIDE DEF quiet
<1>6. Totals(quiet \o end, TokensOf(s.usage))
  BY <1>5, TotalThenStop DEF AnthropicSink
<1> HIDE DEF end
<1> QED
  BY <1>4, <1>6 DEF Finished, Send, AnthropicSink

-----------------------------------------------------------------------------
(* What is heard of an event.                                              *)

\* The events of a Responses and of an Anthropic stream, but for errors.
ItemEvents == {"response.created", "item.added", "item.delta", "item.done"}
Endings == {"response.completed", "response.incomplete"}
ResponsesEvent(e) ==
  /\ e.type \in ItemEvents \cup Endings
  /\ e.type = "item.added" /\ e.item.kind = "function_call" =>
       e.item \in [kind : {"function_call"}, n : Nat]
  /\ e.type \in Endings => "usage" \in DOMAIN e /\ e.usage \in [input : Nat, output : Nat]
  /\ e.type \in ItemEvents => "usage" \notin DOMAIN e
BlockEvents == {"block_start", "block_delta", "block_stop", "message_stop"}
AnthropicEvent(e) ==
  /\ e.type \in BlockEvents \cup {"message_start", "message_delta"}
  /\ e.type = "block_start" => e.index \in Nat /\ e.kind \in BlockKinds
  /\ e.type \in BlockEvents => "usage" \notin DOMAIN e
  /\ TellsUsage(e) =>
       "usage" \in DOMAIN e /\ e.usage \in [input : Nat \cup {None}, output : Nat]

\* A chunk with a thought, a text, a part of a call or an end.
LEMMA Chunks ==
  /\ Chunk(Blank) /\ Blank.usage = None
  /\ \A x : Chunk([Blank EXCEPT !.thought = x]) /\ [Blank EXCEPT !.thought = x].usage = None
  /\ \A x : Chunk([Blank EXCEPT !.text = x]) /\ [Blank EXCEPT !.text = x].usage = None
  /\ \A x : Chunk([Blank EXCEPT !.calls = <<x>>]) /\ [Blank EXCEPT !.calls = <<x>>].usage = None
  /\ \A x : \A u \in [input : Nat, output : Nat] :
       /\ Chunk([Blank EXCEPT !.finish = x, !.usage = u])
       /\ [Blank EXCEPT !.finish = x, !.usage = u].usage = u
<1>1. DOMAIN <<>> = 1..0 /\ \A x : DOMAIN <<x>> = 1..1
  OBVIOUS
<1>2. 0 \in Nat /\ 1 \in Nat
  OBVIOUS
<1> QED
  BY <1>1, <1>2 DEF Chunk, Blank

\* A source that has heard an event, and the chunk it may have made of it.
HeardOf(e, h, c) ==
  Source(h.source) /\ Chunk(c) /\ OneOrNone(h.chunks, c)

\* What is heard of a Responses event: its count at the end.
LEMMA HeardResponses ==
  ASSUME NEW s, Source(s), NEW e, ResponsesEvent(e)
  PROVE  \E c : /\ HeardOf(e, ResponsesToChat(s, e), c)
                /\ IF e.type \in Endings
                   THEN ResponsesToChat(s, e).chunks = <<c>> /\ c.usage = e.usage
                   ELSE c.usage = None
<1> DEFINE h == ResponsesToChat(s, e)
<1>1. CASE e.type = "item.added" /\ e.item.kind = "function_call"
  <2> DEFINE index == Cardinality(DOMAIN s.calls)
             t == [s EXCEPT !.calls = With(s.calls, e.item, index)]
             c == [Blank EXCEPT !.calls = <<CallPart(index, e.call, None)>>]
  <2>1. h = Heard(t, <<c>>)
    BY <1>1 DEF ResponsesToChat
  <2>2. Chunk(c) /\ c.usage = None
    BY Chunks
  <2> HIDE DEF index
  <2>3. Source(t)
    <3>1. e.item \in [kind : {"function_call"}, n : Nat]
      BY <1>1 DEF ResponsesEvent
    <3>2. DOMAIN With(s.calls, e.item, index) = DOMAIN s.calls \cup {e.item}
      BY WithFacts
    <3> QED
      BY <3>1, <3>2 DEF Source
  <2> HIDE DEF t, c, h
  <2>4. h.source = t /\ h.chunks = <<c>>
    BY <2>1 DEF Heard
  <2>5. e.type \notin Endings
    BY <1>1 DEF Endings
  <2> QED
    BY <2>2, <2>3, <2>4, <2>5 DEF HeardOf, OneOrNone, h
<1>2. ASSUME NEW c, Chunk(c), c.usage = None, e.type \notin Endings,
             h = Heard(s, <<c>>) \/ h = Heard(s, <<>>)
      PROVE  \E d : HeardOf(e, h, d) /\ d.usage = None
  BY <1>2 DEF HeardOf, OneOrNone, Heard
<1>3. CASE e.type = "item.delta"
  <2>1. e.type \notin Endings
    BY <1>3 DEF Endings
  <2>2. CASE e.item.kind = "reasoning"
    <3>1. h = Heard(s, <<[Blank EXCEPT !.thought = e.piece]>>)
      BY <1>3, <2>2 DEF ResponsesToChat
    <3> HIDE DEF h
    <3> QED
      BY <1>2, <2>1, <3>1, Chunks DEF h
  <2>3. CASE e.item.kind = "message"
    <3>1. h = Heard(s, <<[Blank EXCEPT !.text = e.piece]>>)
      BY <1>3, <2>3 DEF ResponsesToChat
    <3> HIDE DEF h
    <3> QED
      BY <1>2, <2>1, <3>1, Chunks DEF h
  <2>4. CASE e.item.kind = "function_call"
    <3>1. h = Heard(s, <<[Blank EXCEPT !.calls =
                            <<CallPart(CallOf(s, e.item), None, e.piece)>>]>>)
      BY <1>3, <2>4 DEF ResponsesToChat
    <3> HIDE DEF h
    <3> QED
      BY <1>2, <2>1, <3>1, Chunks DEF h
  <2>5. CASE e.item.kind \notin {"reasoning", "message", "function_call"}
    <3>1. h = Heard(s, <<>>)
      BY <1>3, <2>5 DEF ResponsesToChat
    <3> HIDE DEF h
    <3> QED
      BY <1>2, <2>1, <3>1, Chunks DEF h
  <2> QED
    BY <2>2, <2>3, <2>4, <2>5
<1>4. CASE e.type \in Endings
  <2> DEFINE c == [Blank EXCEPT !.finish = ResponsesFinish(s, e.type), !.usage = e.usage]
  <2>1. h = Heard(s, <<c>>)
    BY <1>4 DEF ResponsesToChat, Endings
  <2>2. Chunk(c) /\ c.usage = e.usage
    BY <1>4, Chunks DEF ResponsesEvent
  <2> HIDE DEF c, h
  <2> QED
    BY <1>4, <2>1, <2>2 DEF HeardOf, OneOrNone, Heard, h
<1>5. CASE \/ e.type \in {"response.created", "item.done"}
           \/ e.type = "item.added" /\ e.item.kind # "function_call"
  <2>1. h = Heard(s, <<>>)
    BY <1>5 DEF ResponsesToChat
  <2>2. e.type \notin Endings
    BY <1>5 DEF Endings
  <2> HIDE DEF h
  <2> QED
    BY <1>2, <2>1, <2>2, Chunks DEF h
<1>6. \/ e.type \in Endings \/ e.type = "item.delta"
      \/ e.type \in {"response.created", "item.done"} \/ e.type = "item.added"
  BY DEF ResponsesEvent, ItemEvents
<1> QED
  BY <1>1, <1>3, <1>4, <1>5, <1>6

\* What an Anthropic event leaves known is a count.
LEMMA ObservedUsage ==
  ASSUME NEW e, AnthropicEvent(e), NEW u \in Count
  PROVE  ObserveAnthropic(e, u) \in Count
BY DEF ObserveAnthropic, AnthropicEvent, Count

\* What is heard of an Anthropic event: the count of its message_delta.
LEMMA HeardAnthropic ==
  ASSUME NEW source0, Source(source0), NEW e, AnthropicEvent(e)
  PROVE  \E c : /\ HeardOf(e, AnthropicToChat(source0, e), c)
                /\ AnthropicToChat(source0, e).source.usage
                     = ObserveAnthropic(e, source0.usage)
                /\ IF e.type = "message_delta"
                   THEN /\ AnthropicToChat(source0, e).chunks = <<c>>
                        /\ c.usage = TokensOf(ObserveAnthropic(e, source0.usage))
                   ELSE c.usage = None
<1> DEFINE h == AnthropicToChat(source0, e)
           u == ObserveAnthropic(e, source0.usage)
           s == [source0 EXCEPT !.usage = u]
<1>1. u \in Count
  BY ObservedUsage DEF Source
<1> HIDE DEF u
<1>2. Source(s) /\ s.usage = u
  BY <1>1 DEF Source
<1>3. TokensOf(u) \in [input : Nat, output : Nat]
  BY <1>1, CountReports
<1>4. ASSUME NEW t, Source(t), t.usage = u, NEW c, Chunk(c), c.usage = None,
             e.type # "message_delta", h = Heard(t, <<c>>) \/ h = Heard(t, <<>>)
      PROVE  \E d : HeardOf(e, h, d) /\ h.source.usage = u /\ d.usage = None
  BY <1>4 DEF HeardOf, OneOrNone, Heard
<1>5. CASE e.type = "message_start"
  <2>1. h = Heard(s, <<Blank>>)
    BY <1>5 DEF AnthropicToChat, u
  <2> HIDE DEF h, s
  <2> QED
    BY <1>2, <1>4, <1>5, <2>1, Chunks DEF h, u
<1>6. CASE e.type = "block_start"
  <2> DEFINE opened == [s EXCEPT !.blocks =
                          With(s.blocks, e.index, [kind |-> e.kind, call |-> s.next])]
             called == [opened EXCEPT !.next = opened.next + 1]
             c == [Blank EXCEPT !.calls = <<CallPart(s.next, e.call, None)>>]
  <2>1. h = IF e.kind # "tool_use" THEN Heard(opened, <<>>) ELSE Heard(called, <<c>>)
    BY <1>6 DEF AnthropicToChat, AnthropicBlock, u
  <2>2. Source(opened) /\ opened.usage = u
    <3> DEFINE block == [kind |-> e.kind, call |-> s.next]
               blocks == With(s.blocks, e.index, block)
    <3>1. e.index \in Nat /\ block.kind \in BlockKinds
      BY <1>6 DEF AnthropicEvent
    <3> HIDE DEF s, block
    <3>2. /\ DOMAIN blocks = DOMAIN s.blocks \cup {e.index}
          /\ \A i \in DOMAIN blocks : blocks[i] = IF i = e.index THEN block ELSE s.blocks[i]
      BY DEF With
    <3>3. \A i \in DOMAIN blocks : blocks[i].kind \in BlockKinds
      BY <1>2, <3>1, <3>2 DEF Source
    <3> HIDE DEF blocks
    <3>4. Source([s EXCEPT !.blocks = blocks]) /\ [s EXCEPT !.blocks = blocks].usage = u
      BY <1>2, <3>1, <3>2, <3>3 DEF Source
    <3> QED
      BY <3>4 DEF blocks, block
  <2> HIDE DEF opened
  <2>3. Source(called) /\ called.usage = u
    BY <2>2 DEF Source
  <2>4. Chunk(c) /\ c.usage = None
    BY Chunks
  <2> HIDE DEF h, s, called, c
  <2> QED
    BY <1>4, <1>6, <2>1, <2>2, <2>3, <2>4 DEF h, u
<1>7. CASE e.type = "block_delta"
  <2> DEFINE block == s.blocks[e.index]
             say == [Blank EXCEPT !.thought = e.piece]
             text == [Blank EXCEPT !.text = e.piece]
             part == [Blank EXCEPT !.calls = <<CallPart(block.call, None, e.piece)>>]
  <2>1. h = AnthropicDelta(s, e)
    BY <1>7 DEF AnthropicToChat, u
  <2>2. CASE e.index \notin DOMAIN s.blocks
    <3>1. h = Heard(s, <<>>)
      BY <2>1, <2>2 DEF AnthropicDelta
    <3> HIDE DEF h, s
    <3> QED
      BY <1>2, <1>4, <1>7, <3>1, Chunks DEF h, u
  <2>3. CASE e.index \in DOMAIN s.blocks
    <3>1. block.kind \in BlockKinds
      BY <1>2, <2>3 DEF Source
    <3>2. CASE block.kind = "thinking"
      <4>1. h = Heard(s, <<say>>)
        BY <2>1, <2>3, <3>2 DEF AnthropicDelta
      <4>2. Chunk(say) /\ say.usage = None
        BY Chunks
      <4> HIDE DEF h, s, say
      <4> QED
        BY <1>2, <1>4, <1>7, <4>1, <4>2 DEF h, u
    <3>3. CASE block.kind = "text"
      <4>1. h = Heard(s, <<text>>)
        BY <2>1, <2>3, <3>3 DEF AnthropicDelta
      <4>2. Chunk(text) /\ text.usage = None
        BY Chunks
      <4> HIDE DEF h, s, text
      <4> QED
        BY <1>2, <1>4, <1>7, <4>1, <4>2 DEF h, u
    <3>4. CASE block.kind = "tool_use"
      <4>1. h = Heard(s, <<part>>)
        BY <2>1, <2>3, <3>4 DEF AnthropicDelta
      <4>2. Chunk(part) /\ part.usage = None
        BY Chunks
      <4> HIDE DEF h, s, part
      <4> QED
        BY <1>2, <1>4, <1>7, <4>1, <4>2 DEF h, u
    <3> QED
      BY <3>1, <3>2, <3>3, <3>4 DEF BlockKinds
  <2> QED
    BY <2>2, <2>3
<1>8. CASE e.type = "message_delta"
  <2> DEFINE c == [Blank EXCEPT !.finish = ChatFinish(e.stop), !.usage = TokensOf(u)]
  <2>1. h = Heard(s, <<c>>)
    BY <1>8, <1>2 DEF AnthropicToChat, u
  <2>2. Chunk(c) /\ c.usage = TokensOf(u)
    BY <1>3, Chunks
  <2> HIDE DEF c, h, s
  <2> QED
    BY <1>2, <1>8, <2>1, <2>2 DEF HeardOf, OneOrNone, Heard, h, u
<1>9. CASE e.type \in {"block_stop", "message_stop"}
  <2>1. h = Heard(s, <<>>)
    BY <1>9 DEF AnthropicToChat, u
  <2> HIDE DEF h, s
  <2> QED
    BY <1>2, <1>4, <1>9, <2>1, Chunks DEF h, u
<1>10. \/ e.type = "message_start" \/ e.type = "block_start" \/ e.type = "block_delta"
       \/ e.type = "message_delta" \/ e.type \in {"block_stop", "message_stop"}
  BY DEF AnthropicEvent, BlockEvents
<1> QED
  BY <1>5, <1>6, <1>7, <1>8, <1>9, <1>10

\* A quiet start changes no total.
LEMMA TotalsAfterQuiet ==
  ASSUME NEW s, Quiet(s), NEW t, NEW tokens, Totals(t, tokens)
  PROVE  Totals(s \o t, tokens)
<1>1. /\ Sequence(s) /\ Sequence(t) /\ Len(s) \in Nat /\ Len(t) \in Nat /\ DOMAIN t = 1..Len(t)
      /\ Closing(t)
  BY SequenceFacts DEF Totals, Closing, Quiet
<1>2. /\ Sequence(s \o t) /\ DOMAIN (s \o t) = 1..(Len(s) + Len(t))
      /\ \A k \in 1..(Len(s) + Len(t)) :
           (s \o t)[k] = IF k <= Len(s) THEN s[k] ELSE t[k - Len(s)]
  BY <1>1, Joined, SequenceFacts
<1>3. PICK k \in 1..Len(t) :
        /\ ReportsInput(t[k])
        /\ Tokens(t[k].usage.input, t[k].usage.output) = tokens
        /\ \A j \in 1..Len(t) : Reports(t[j]) => j <= k
  BY <1>1 DEF Totals
<1> DEFINE m == Len(s) + k
           all == s \o t
<1>4. m \in 1..(Len(s) + Len(t)) /\ all[m] = t[k]
  BY <1>1, <1>2, <1>3
<1>5. ASSUME NEW j \in 1..(Len(s) + Len(t)), Reports(all[j])
      PROVE  j <= m
  <2>1. CASE j <= Len(s)
    BY <1>1, <2>1
  <2>2. CASE ~(j <= Len(s))
    <3>1. j - Len(s) \in 1..Len(t) /\ all[j] = t[j - Len(s)]
      BY <1>1, <1>2, <1>5, <2>2
    <3>2. j - Len(s) <= k
      BY <1>3, <1>5, <3>1
    <3> QED
      BY <1>1, <1>5, <3>1, <3>2
  <2> QED
    BY <2>1, <2>2
<1>6. Closing(all)
  BY <1>1, QuietThenClosing
<1>7. DOMAIN all = 1..(Len(s) + Len(t))
  BY <1>2
<1> HIDE DEF m, all
<1>8. /\ m \in DOMAIN all /\ ReportsInput(all[m])
      /\ Tokens(all[m].usage.input, all[m].usage.output) = tokens
      /\ \A j \in DOMAIN all : Reports(all[j]) => j <= m
  BY <1>3, <1>4, <1>5, <1>7
<1>9. Totals(all, tokens)
  BY <1>6, <1>8 DEF Totals
<1> QED
  BY <1>9 DEF all

-----------------------------------------------------------------------------
(* One turn of a translated stream.                                        *)

\* The client is told of a chunk.
LEMMA TellOne ==
  ASSUME NEW s, Sink(s), NEW c, Chunk(c), ingress \in Protocols
  PROVE  /\ Sink(TellClient(s, c))
         /\ ingress # "chat" => TellClient(s, c).usage = UsageOf(c, s.usage)
         /\ ingress = "chat" => TellClient(s, c).out = s.out \o <<c>>
<1>1. CASE ingress = "responses"
  BY <1>1, ChunkToResponses DEF Sink, TellClient
<1>2. CASE ingress = "anthropic"
  BY <1>2, ChunkToAnthropic DEF Sink, TellClient
<1>3. CASE ingress = "chat"
  <2>1. ChatSink(s)
    BY <1>3 DEF Sink
  <2>2. TellClient(s, c) = Send(s, <<c>>)
    BY <1>3 DEF TellClient
  <2>3. Quiet(s.out \o <<c>>)
    BY <2>1, ChunkFacts, QuietShort, QuietJoined DEF ChatSink
  <2>4. ChatSink(Send(s, <<c>>)) /\ Send(s, <<c>>).out = s.out \o <<c>>
    BY <2>1, <2>3 DEF Send, ChatSink
  <2> QED
    BY <1>3, <2>2, <2>4 DEF Sink
<1> QED
  BY <1>1, <1>2, <1>3 DEF Protocols

\* The events a provider sends, but for errors and the end of a Chat stream.
Speaks(e) ==
  \/ egress = "chat" /\ Chunk(e)
  \/ egress = "responses" /\ ResponsesEvent(e)
  \/ egress = "anthropic" /\ AnthropicEvent(e)

\* What a chunk says of an event's usage.
Counts(e, c, chunks) ==
  /\ egress = "chat" => c = e /\ chunks = <<c>>
  /\ egress = "responses" =>
       IF e.type \in Endings THEN chunks = <<c>> /\ c.usage = e.usage ELSE c.usage = None
  /\ egress = "anthropic" =>
       /\ source'.usage = ObserveAnthropic(e, source.usage)
       /\ IF e.type = "message_delta"
          THEN chunks = <<c>> /\ c.usage = TokensOf(source'.usage) ELSE c.usage = None

\* A turn: one chunk or none is told, and counted in the record and the sink.
Turn(e, c, chunks, t) ==
  /\ Chunk(c) /\ OneOrNone(chunks, c) /\ Source(source') /\ Counts(e, c, chunks)
  /\ usage' = UsageOf(c, usage)
  /\ Sink(t)
  /\ ingress # "chat" => t.usage = UsageOf(c, sink.usage)
  /\ ingress = "chat" => t.out = chunks
  /\ Yield(IF UpstreamTerminal(e) THEN TailAfterTerminal(t) ELSE t)
  /\ verdict' = IF UpstreamTerminal(e) THEN "completed" ELSE verdict

\* Whatever the protocol, one chunk or none is heard.
LEMMA HeardFacts ==
  ASSUME Source(source), NEW e, Speaks(e), source' = HearProvider(e).source
  PROVE  \E c : /\ Chunk(c) /\ OneOrNone(HearProvider(e).chunks, c)
                /\ Source(source') /\ Counts(e, c, HearProvider(e).chunks)
                /\ HearProvider(e).chunks = <<>> => c.usage = None
<1>1. CASE egress = "chat" /\ Chunk(e)
  <2>1. HearProvider(e) = Heard(source, <<e>>)
    BY <1>1 DEF HearProvider
  <2>2. HearProvider(e).source = source /\ HearProvider(e).chunks = <<e>> /\ <<e>> # <<>>
    BY <2>1 DEF Heard
  <2>3. Counts(e, e, HearProvider(e).chunks)
    BY <1>1, <2>2 DEF Counts
  <2> QED
    BY <1>1, <2>2, <2>3 DEF OneOrNone
<1>2. CASE egress = "responses" /\ ResponsesEvent(e)
  <2>1. HearProvider(e) = ResponsesToChat(source, e)
    BY <1>2 DEF HearProvider
  <2>2. PICK c : /\ HeardOf(e, ResponsesToChat(source, e), c)
                 /\ IF e.type \in Endings
                    THEN ResponsesToChat(source, e).chunks = <<c>> /\ c.usage = e.usage
                    ELSE c.usage = None
    BY <1>2, HeardResponses
  <2> DEFINE chunks == HearProvider(e).chunks
  <2>3. Chunk(c) /\ OneOrNone(chunks, c) /\ Source(source') /\ chunks = <<>> => c.usage = None
    BY <2>1, <2>2 DEF HeardOf
  <2>4. Counts(e, c, chunks)
    BY <1>2, <2>1, <2>2 DEF Counts
  <2> HIDE DEF chunks
  <2>5. Chunk(c) /\ OneOrNone(chunks, c) /\ Source(source')
    BY <2>1, <2>2 DEF HeardOf, chunks
  <2> QED
    BY <2>3, <2>4, <2>5 DEF chunks
<1>3. CASE egress = "anthropic" /\ AnthropicEvent(e)
  <2>1. HearProvider(e) = AnthropicToChat(source, e)
    BY <1>3 DEF HearProvider
  <2>2. PICK c : /\ HeardOf(e, AnthropicToChat(source, e), c)
                 /\ AnthropicToChat(source, e).source.usage = ObserveAnthropic(e, source.usage)
                 /\ IF e.type = "message_delta"
                    THEN /\ AnthropicToChat(source, e).chunks = <<c>>
                         /\ c.usage = TokensOf(ObserveAnthropic(e, source.usage))
                    ELSE c.usage = None
    BY <1>3, HeardAnthropic
  <2> DEFINE chunks == HearProvider(e).chunks
  <2>3. chunks = <<>> => c.usage = None
    BY <2>1, <2>2
  <2>4. Counts(e, c, chunks)
    BY <1>3, <2>1, <2>2 DEF Counts
  <2> HIDE DEF chunks
  <2>5. Chunk(c) /\ OneOrNone(chunks, c) /\ Source(source')
    BY <2>1, <2>2 DEF HeardOf, chunks
  <2> QED
    BY <2>3, <2>4, <2>5 DEF chunks
<1> QED
  BY <1>1, <1>2, <1>3 DEF Speaks

\* Relaying an event is a turn.
LEMMA RelayTurns ==
  ASSUME Types, NEW e, Speaks(e), Relay(e)
  PROVE  \E c, chunks, t : Turn(e, c, chunks, t)
<1> DEFINE chunks == HearProvider(e).chunks
           t == FoldLeft(TellClient, sink, chunks)
           counted == FoldLeft(LAMBDA u, chunk : UsageOf(chunk, u), usage, chunks)
<1>1. /\ source' = HearProvider(e).source /\ usage' = counted
      /\ Yield(IF UpstreamTerminal(e) THEN TailAfterTerminal(t) ELSE t)
      /\ verdict' = IF UpstreamTerminal(e) THEN "completed" ELSE verdict
  BY DEF Relay
<1>2. PICK c : /\ Chunk(c) /\ OneOrNone(chunks, c)
               /\ Source(source') /\ Counts(e, c, chunks)
               /\ chunks = <<>> => c.usage = None
  BY <1>1, HeardFacts DEF Types
<1> HIDE DEF chunks
<1>3. counted = IF chunks = <<>> THEN usage ELSE UsageOf(c, usage)
  BY <1>2, ChunksTold
<1>4. t = IF chunks = <<>> THEN sink ELSE TellClient(sink, c)
  BY <1>2, ChunksTold
<1> HIDE DEF counted, t
<1>5. usage' = UsageOf(c, usage)
  BY <1>1, <1>2, <1>3 DEF UsageOf
<1>6. ingress \in Protocols /\ Sink(sink) /\ sink.out = <<>>
  BY DEF Types
<1>7. /\ Sink(t)
      /\ ingress # "chat" => t.usage = UsageOf(c, sink.usage)
      /\ ingress = "chat" => t.out = chunks
  <2>1. CASE chunks = <<>>
    BY <1>2, <1>4, <1>6, <2>1 DEF UsageOf
  <2>2. CASE chunks = <<c>> /\ chunks # <<>>
    <3>1. <<>> \o <<c>> = <<c>>
      BY Short, NothingBefore
    <3> QED
      BY <1>2, <1>4, <1>6, <2>2, <3>1, TellOne
  <2> QED
    BY <1>2, <2>1, <2>2 DEF OneOrNone
<1> QED
  BY <1>1, <1>2, <1>5, <1>7 DEF Turn

-----------------------------------------------------------------------------
(* What is reported, event by event.                                       *)

\* What u knows of the reports among events.
Reckoned(events, u) ==
  TellUsage(events) => TellInput(events) /\ u = Reported(LastUsage(events))

\* One more event makes v of u.
Updates(events, e, u, v) ==
  \/ ~Reports(e) /\ v = u
  \/ ReportsInput(e) /\ v = Reported(e.usage)
  \/ /\ Reports(e) /\ ~ReportsInput(e) /\ TellUsage(events)
     /\ v = [input |-> u.input, output |-> e.usage.output, reported |-> TRUE]

\* Numbers that are reported are numbers.
LEMMA ReportedFacts ==
  /\ \A u \in [input : Nat \cup {None}, output : Nat] : u \notin {None, Null}
  /\ \A u \in [input : Nat, output : Nat] :
       /\ u \notin {None, Null} /\ u.input # None
       /\ Tokens(u.input, u.output) = u /\ TokensOf(Reported(u)) = u /\ Reported(u) \in Count
  /\ \A i, o : /\ TokensOf(Reported(Tokens(i, o))) = Tokens(i, o)
               /\ Reported(Tokens(i, o)).input = i
               /\ Reported(Tokens(i, o)) = [input |-> i, output |-> o, reported |-> TRUE]
<1>1. \A u \in [input : Nat \cup {None}, output : Nat] : u \notin {None, Null}
  BY NullAssumption
<1>2. [input : Nat, output : Nat] \subseteq [input : Nat \cup {None}, output : Nat]
  OBVIOUS
<1>3. \A u \in [input : Nat, output : Nat] : u.input # None
  BY NullAssumption
<1>4. \A u \in [input : Nat, output : Nat] :
        Tokens(u.input, u.output) = u /\ TokensOf(Reported(u)) = u /\ Reported(u) \in Count
  BY DEF Tokens, TokensOf, Reported, Count
<1>5. \A i, o : /\ TokensOf(Reported(Tokens(i, o))) = Tokens(i, o)
                /\ Reported(Tokens(i, o)).input = i
                /\ Reported(Tokens(i, o)) = [input |-> i, output |-> o, reported |-> TRUE]
  BY DEF Tokens, TokensOf, Reported
<1> QED
  BY <1>1, <1>2, <1>3, <1>4, <1>5

\* It reckons as before.
LEMMA ReckonsOn ==
  ASSUME NEW events, Sequence(events), NEW e, NEW u, NEW v,
         Reckoned(events, u), Updates(events, e, u, v)
  PROVE  Reckoned(Append(events, e), v)
<1> DEFINE all == Append(events, e)
<1>1. /\ TellUsage(all) <=> TellUsage(events) \/ Reports(e)
      /\ TellInput(all) <=> TellInput(events) \/ ReportsInput(e)
      /\ ReportsInput(e) => LastUsage(all) = Tokens(e.usage.input, e.usage.output)
      /\ TellInput(events) /\ Reports(e) /\ ~ReportsInput(e) =>
           LastUsage(all) = Tokens(LastUsage(events).input, e.usage.output)
      /\ TellInput(events) /\ ~Reports(e) => LastUsage(all) = LastUsage(events)
  BY OneMoreEvent
<1> HIDE DEF all
<1>2. ASSUME ~Reports(e), v = u
      PROVE  Reckoned(all, v)
  BY <1>1, <1>2 DEF Reckoned
<1>3. ASSUME ReportsInput(e), v = Reported(e.usage)
      PROVE  Reckoned(all, v)
  <2>1. TellInput(all) /\ LastUsage(all) = Tokens(e.usage.input, e.usage.output)
    BY <1>1, <1>3
  <2>2. v = Reported(Tokens(e.usage.input, e.usage.output))
    BY <1>3, ReportedFacts DEF Reported
  <2> QED
    BY <2>1, <2>2 DEF Reckoned
<1>4. ASSUME Reports(e), ~ReportsInput(e), TellUsage(events),
             v = [input |-> u.input, output |-> e.usage.output, reported |-> TRUE]
      PROVE  Reckoned(all, v)
  <2>1. TellInput(events) /\ u = Reported(LastUsage(events))
    BY <1>4 DEF Reckoned
  <2>2. u.input = LastUsage(events).input
    BY <2>1 DEF Reported
  <2>3. LastUsage(all) = Tokens(u.input, e.usage.output)
    BY <1>1, <1>4, <2>1, <2>2
  <2> QED
    BY <1>1, <1>4, <2>1, <2>3, ReportedFacts DEF Reckoned
<1>5. Reckoned(all, v)
  BY <1>2, <1>3, <1>4 DEF Updates
<1> QED
  BY <1>5 DEF all

\* A chunk, and an event of an Anthropic stream, are counted like this.
LEMMA ChunkUpdates ==
  ASSUME NEW events, NEW c, Chunk(c), NEW u
  PROVE  Updates(events, c, u, UsageOf(c, u))
<1>1. "usage" \in DOMAIN c /\ c.usage \in {None, Null} \cup [input : Nat, output : Nat]
  BY DEF Chunk, Blank
<1>2. CASE c.usage \in {None, Null}
  BY <1>1, <1>2 DEF Updates, UsageOf, Reports
<1>3. CASE c.usage \in [input : Nat, output : Nat]
  <2>1. c.usage \notin {None, Null} /\ c.usage.input # None
    BY <1>3, ReportedFacts
  <2> QED
    BY <1>1, <2>1 DEF Updates, UsageOf, Reports, ReportsInput
<1> QED
  BY <1>1, <1>2, <1>3

\* An event of an Anthropic stream is counted like this, too.
LEMMA AnthropicUpdates ==
  ASSUME NEW events, NEW e, AnthropicEvent(e), NEW u,
         e.type = "message_start" => e.usage.input \in Nat,
         e.type = "message_delta" => TellUsage(events)
  PROVE  Updates(events, e, u, ObserveAnthropic(e, u))
<1>1. CASE ~TellsUsage(e)
  <2>1. "usage" \notin DOMAIN e
    BY <1>1 DEF AnthropicEvent, TellsUsage
  <2> QED
    BY <1>1, <2>1 DEF Updates, Reports, ObserveAnthropic
<1>2. CASE TellsUsage(e)
  <2>1. "usage" \in DOMAIN e /\ e.usage \in [input : Nat \cup {None}, output : Nat]
    BY <1>2 DEF AnthropicEvent
  <2>2. Reports(e)
    BY <2>1, ReportedFacts DEF Reports
  <2>3. CASE e.usage.input # None
    BY <1>2, <2>2, <2>3 DEF Updates, ReportsInput, ObserveAnthropic, Reported
  <2>4. CASE e.usage.input = None
    <3>1. e.type = "message_delta"
      BY <1>2, <2>4, NullAssumption DEF TellsUsage
    <3> QED
      BY <1>2, <2>2, <2>4, <3>1 DEF Updates, ReportsInput, ObserveAnthropic
  <2> QED
    BY <2>3, <2>4
<1> QED
  BY <1>1, <1>2

-----------------------------------------------------------------------------
(* What a provider says next.                                              *)

\* An error, without a count.
Trouble(e) == IsStreamError(e) /\ ("usage" \in DOMAIN e => e.usage = None)

\* What may be said, and where the provider is then.
Follows(e, next) ==
  /\ Speech(next) /\ (speech.begun => next.begun) /\ (speech.ended => next.ended)
  /\ Speaks(e) \/ Trouble(e) \/ (egress = "chat" /\ e = Done)
  /\ egress = "chat" =>
       /\ Reports(e) => next.ended
       /\ Speaks(e) /\ e.usage = Null => ~speech.ended
  /\ egress = "anthropic" =>
       /\ next.begun => speech.begun \/ e.type = "message_start"
       /\ next.ended => speech.ended \/ e.type = "message_delta"
       /\ e.type = "message_start" => ~speech.begun /\ e.usage.input \in Nat
       /\ e.type = "message_delta" => speech.begun /\ ~speech.ended
       /\ e.type = "message_stop" => speech.ended

\* Errors and [DONE] report nothing and are no other events.
LEMMA SilentEnds ==
  /\ \A e : Trouble(e) => ~Reports(e) /\ ~Terminal(e) /\ e.type # "[DONE]"
                            /\ ~TellsUsage(e)
  /\ ~Reports(Done) /\ ~ReportsInput(Done) /\ Terminal(Done) /\ Done.type = "[DONE]"
  /\ "usage" \notin DOMAIN Done /\ ~TellsUsage(Done)
BY DEF Trouble, IsStreamError, Reports, ReportsInput, Terminal, Done,
       TellsUsage

\* Other events are neither.
LEMMA SpeaksNoError ==
  ASSUME NEW e, Speaks(e)
  PROVE  ~IsStreamError(e) /\ e.type # "[DONE]"
BY DEF Speaks, Chunk, ResponsesEvent, ItemEvents, Endings, AnthropicEvent,
       BlockEvents, IsStreamError

\* The reports go on in their order.
LEMMA OrderKept ==
  ASSUME Types, ReportsInOrder, NEW e, NEW next, Follows(e, next), Say(e, next)
  PROVE  /\ verdict = "streaming" /\ speech' = next
         /\ received' = Append(received, e) /\ Sequence(received') /\ received' # <<>>
         /\ ingress' = ingress /\ egress' = egress /\ nulls' = nulls
         /\ ReportsInOrder'
<1>1. /\ verdict = "streaming" /\ speech' = next /\ received' = Append(received, e)
      /\ ingress' = ingress /\ egress' = egress /\ nulls' = nulls
  BY DEF Say, Handle
<1>2. Sequence(received)
  BY DEF Types
<1>3. Sequence(received') /\ received' # <<>>
  BY <1>1, <1>2, Appended
<1>4. /\ TellUsage(received') <=> TellUsage(received) \/ Reports(e)
      /\ TellInput(received') <=> TellInput(received) \/ ReportsInput(e)
  BY <1>1, <1>2, OneMoreEvent
<1>5. CASE egress = "chat"
  <2>1. Reports(e) => Speaks(e)
    BY <1>5, SilentEnds DEF Follows
  <2>2. Speaks(e) /\ Reports(e) => ReportsInput(e)
    <3>1. ASSUME Speaks(e), Reports(e) PROVE ReportsInput(e)
      <4>1. Chunk(e)
        BY <1>5, <3>1 DEF Speaks
      <4>2. e.usage \in [input : Nat, output : Nat]
        BY <3>1, <4>1 DEF Chunk, Reports
      <4> QED
        BY <3>1, <4>2, ReportedFacts DEF ReportsInput
    <3> QED
      BY <3>1
  <2>3. Reports(e) => next.ended
    BY <1>5 DEF Follows
  <2>4. TellUsage(received) => next.ended
    BY <1>5 DEF Follows, ReportsInOrder
  <2> QED
    BY <1>1, <1>3, <1>4, <1>5, <2>1, <2>2, <2>3, <2>4 DEF ReportsInOrder
<1>6. CASE egress = "responses"
  <2>1. Reports(e) => ReportsInput(e)
    <3>1. ASSUME Reports(e) PROVE ReportsInput(e)
      <4>1. ResponsesEvent(e)
        BY <1>6, <3>1, SilentEnds DEF Follows, Speaks
      <4>2. e.usage \in [input : Nat, output : Nat]
        BY <3>1, <4>1 DEF ResponsesEvent, Reports
      <4> QED
        BY <3>1, <4>2, ReportedFacts DEF ReportsInput
    <3> QED
      BY <3>1
  <2> QED
    BY <1>1, <1>3, <1>4, <1>6, <2>1 DEF ReportsInOrder
<1>7. CASE egress = "anthropic"
  <2>1. /\ next.begun => speech.begun \/ e.type = "message_start"
        /\ next.ended => speech.ended \/ e.type = "message_delta"
        /\ e.type = "message_start" => e.usage.input \in Nat
        /\ e.type = "message_delta" => speech.begun /\ ~speech.ended
        /\ speech.begun => next.begun
    BY <1>7 DEF Follows
  <2>2. Reports(e) => AnthropicEvent(e) /\ TellsUsage(e)
    <3>1. Reports(e) => AnthropicEvent(e)
      BY <1>7, SilentEnds DEF Follows, Speaks
    <3> QED
      BY <3>1 DEF AnthropicEvent, Reports, TellsUsage
  <2>3. e.type = "message_start" => ReportsInput(e)
    <3>1. e.type = "message_start" => AnthropicEvent(e)
      BY <1>7 DEF Follows, Speaks, Trouble, IsStreamError
    <3>2. e.type = "message_start" =>
            "usage" \in DOMAIN e /\ e.usage \in [input : Nat \cup {None}, output : Nat]
      BY <3>1 DEF AnthropicEvent, TellsUsage
    <3> QED
      BY <2>1, <3>2, ReportedFacts, NullAssumption DEF ReportsInput, Reports
  <2>4. Reports(e) => ReportsInput(e) \/ TellUsage(received)
    BY <1>7, <2>1, <2>2, <2>3 DEF TellsUsage, ReportsInOrder
  <2>5. ReportsInput(e) => Reports(e)
    BY DEF ReportsInput
  <2>6. TellUsage(received') => TellInput(received')
    BY <1>4, <2>4 DEF ReportsInOrder
  <2>7. next.begun => TellUsage(received')
    BY <1>4, <1>7, <2>1, <2>3, <2>5 DEF ReportsInOrder
  <2>8. next.ended => next.begun
    BY <1>7, <2>1 DEF ReportsInOrder
  <2> QED
    BY <1>1, <1>3, <1>7, <2>6, <2>7, <2>8 DEF ReportsInOrder
<1> QED
  BY <1>5, <1>6, <1>7 DEF Types, Protocols

-----------------------------------------------------------------------------
(* One event.                                                              *)

\* A stream that has not completed is quiet; the end is shown as it is told.
LEMMA QuietSoFar ==
  ASSUME Sequence(relayed), EndShown, verdict # "completed"
  PROVE  Quiet(relayed)
BY DEF EndShown, Quiet

\* Quiet frames show no end.
LEMMA ShownQuiet ==
  ASSUME Quiet(relayed'), verdict' # "completed", verdict' = "refused" => relayed' = <<>>
  PROVE  EndShown'
BY DEF EndShown, Quiet

\* Closed ones show one, when the stream is complete.
LEMMA ShownClosing ==
  ASSUME Closing(relayed'), verdict' = "completed"
  PROVE  EndShown'
<1>1. Sequence(relayed') /\ relayed' # <<>>
      /\ \A k \in DOMAIN relayed' : Terminal(relayed'[k]) <=> k = Len(relayed')
  BY DEF Closing
<1>2. Len(relayed') \in Nat /\ DOMAIN relayed' = 1..Len(relayed')
  BY <1>1, SequenceFacts
<1>3. Len(relayed') # 0
  BY <1>1, EmptySeq DEF Sequence
<1>4. Len(relayed') \in DOMAIN relayed'
  BY <1>2, <1>3
<1>5. {k \in DOMAIN relayed' : Terminal(relayed'[k])} = {Len(relayed')}
  BY <1>1, <1>4
<1> QED
  BY <1>5 DEF EndShown

\* What is recorded can be told.
LEMMA TokensBack ==
  \A events : TokensOf(Reported(LastUsage(events))) = LastUsage(events)
BY ReportedFacts DEF LastUsage

\* Appending, as joining.
LEMMA OneJoined ==
  ASSUME NEW s, Sequence(s), NEW e
  PROVE  Append(s, e) = s \o <<e>>
<1>1. \E S : s \in Seq(S) /\ <<e>> \in Seq(S)
  BY Short, InCommon
<1>2. PICK S : s \in Seq(S) /\ <<e>> \in Seq(S)
  BY <1>1
<1>3. e \in S
  <2>1. <<e>>[1] \in S
    BY <1>2, Short, ElementOfSeq
  <2> QED
    BY <2>1, Short
<1> QED
  BY <1>2, <1>3, AppendIsConcat

\* Joining three.
LEMMA ThreeJoined ==
  ASSUME NEW s, NEW t, NEW u, Sequence(s), Sequence(t), Sequence(u)
  PROVE  s \o (t \o u) = (s \o t) \o u
<1> DEFINE S == ToSet(s) \cup ToSet(t) \cup ToSet(u)
<1>1. s \in Seq(S) /\ t \in Seq(S) /\ u \in Seq(S)
  BY DEF Sequence
<1> HIDE DEF S
<1> QED
  BY <1>1, ConcatAssociative

\* One that ends is a closing; the end of a Chat stream is one.
LEMMA ClosingOne ==
  \A e : Terminal(e) => Closing(<<e>>)
BY Short DEF Closing

\* A sink that has been drained is one, with the same usage.
SameBut(s, f) ==
  DOMAIN f = DOMAIN s /\ \A field \in DOMAIN s : field # "out" => f[field] = s[field]

\* A sink whose frames go out keeps the rest.
LEMMA Drained ==
  ASSUME ingress \in Protocols, NEW s, Sink(s), NEW f, SameBut(s, f), Yield(f)
  PROVE  /\ Sink(sink') /\ sink'.out = <<>> /\ relayed' = relayed \o f.out
         /\ ingress # "chat" => sink'.usage = s.usage
<1> DEFINE g == [f EXCEPT !.out = <<>>]
<1>1. sink' = g /\ relayed' = relayed \o f.out
  BY DEF Yield
<1>2. Quiet(<<>>)
  BY QuietShort
<1>3. /\ DOMAIN g = DOMAIN s
      /\ \A field \in DOMAIN s : field # "out" => g[field] = s[field]
      /\ "out" \in DOMAIN s => g.out = <<>>
  BY DEF SameBut
<1> HIDE DEF g
<1>4. CASE ingress = "responses"
  <2>1. ResponsesSink(s)
    BY <1>4 DEF Sink
  <2>2. ResponsesSink(g) /\ g.usage = s.usage /\ g.out = <<>>
    BY <1>2, <1>3, <2>1 DEF ResponsesSink
  <2> QED
    BY <1>1, <1>4, <2>2 DEF Sink
<1>5. CASE ingress = "anthropic"
  <2>1. AnthropicSink(s)
    BY <1>5 DEF Sink
  <2>2. AnthropicSink(g) /\ g.usage = s.usage /\ g.out = <<>>
    BY <1>2, <1>3, <2>1 DEF AnthropicSink
  <2> QED
    BY <1>1, <1>5, <2>2 DEF Sink
<1>6. CASE ingress = "chat"
  <2>1. ChatSink(s)
    BY <1>6 DEF Sink
  <2>2. ChatSink(g) /\ g.out = <<>>
    BY <1>2, <1>3, <2>1 DEF ChatSink
  <2> QED
    BY <1>1, <1>6, <2>2 DEF Sink
<1> QED
  BY <1>4, <1>5, <1>6 DEF Protocols

\* How a translated stream is closed, but for a Chat client's.
LEMMA TailFacts ==
  ASSUME ingress \in Protocols, ingress # "chat", NEW s, Sink(s)
  PROVE  /\ TailAfterTerminal(s) = TailAfterDone(s)
         /\ Finished(s, TailAfterDone(s)) /\ SameBut(s, TailAfterDone(s))
         /\ s.usage \in Count /\ Quiet(s.out)
<1>1. TailAfterTerminal(s) = TailAfterDone(s)
  BY DEF TailAfterTerminal
<1>2. CASE ingress = "responses"
  <2>1. ResponsesSink(s) /\ TailAfterDone(s) = FinishResponses(s)
    BY <1>2 DEF Sink, TailAfterDone
  <2> QED
    BY <1>1, <2>1, FinishedResponses DEF Finished, SameBut, ResponsesSink
<1>3. CASE ingress = "anthropic"
  <2>1. AnthropicSink(s) /\ TailAfterDone(s) = FinishAnthropic(s)
    BY <1>3 DEF Sink, TailAfterDone
  <2> QED
    BY <1>1, <2>1, FinishedAnthropic DEF Finished, SameBut, AnthropicSink
<1> QED
  BY <1>2, <1>3 DEF Protocols

\* The types are kept if the variables of the relay are.
LEMMA TypesKept ==
  ASSUME Types, NEW e, NEW next, Follows(e, next), speech' = next,
         ingress' = ingress, egress' = egress, nulls' = nulls,
         Source(source'), Sink(sink'), sink'.out = <<>>,
         Sequence(received'), Sequence(relayed'), usage' \in Count, verdict' \in Verdicts
  PROVE  Types'
<1>1. Speech(speech')
  BY DEF Follows
<1>2. Sink(sink)'
  BY DEF Sink
<1>3. Speech(speech)' /\ Source(source)' /\ Sequence(received)' /\ Sequence(relayed)'
  BY <1>1 DEF Speech, Source
<1> QED
  BY <1>2, <1>3 DEF Types

-----------------------------------------------------------------------------
(* An error before the client has been told of anything, or of a           *)
(* translated stream; and the end of the upstream.                         *)

\* The attempt fails, and the client is told of nothing more.
LEMMA StopKeeps ==
  ASSUME IInv, NEW e, NEW next, Follows(e, next), Say(e, next), Trouble(e),
         UNCHANGED <<source, sink, relayed, usage>>,
         verdict' = IF received = <<>> THEN "refused" ELSE "broken",
         translated \/ received = <<>>
  PROVE  IInv'
<1>1. Types /\ Tells /\ EndShown /\ ReportsInOrder /\ Records /\ Passes
  BY DEF IInv
<1>2. /\ verdict = "streaming" /\ speech' = next
      /\ received' = Append(received, e) /\ Sequence(received') /\ received' # <<>>
      /\ ingress' = ingress /\ egress' = egress /\ nulls' = nulls
      /\ ReportsInOrder'
  BY <1>1, OrderKept
<1>3. /\ source' = source /\ sink' = sink /\ relayed' = relayed /\ usage' = usage
      /\ verdict' \in {"refused", "broken"} /\ translated' = translated
  BY <1>2 DEF translated
<1>4. Types'
  BY <1>1, <1>2, <1>3, TypesKept DEF Types, Verdicts
<1>5. Tells'
  BY <1>1, <1>2, <1>3 DEF Tells
<1>6. EndShown'
  <2>1. Quiet(relayed')
    BY <1>1, <1>2, <1>3, QuietSoFar DEF Types
  <2>2. verdict' = "refused" => relayed' = <<>>
    BY <1>1, <1>3 DEF Tells
  <2> QED
    BY <1>3, <2>1, <2>2, ShownQuiet
<1>7. Records'
  <2>1. Sequence(received) /\ ~Reports(e)
    BY <1>1, SilentEnds DEF Types
  <2>2. TellUsage(received') <=> TellUsage(received)
    BY <1>2, <2>1, OneMoreEvent
  <2>3. TellUsage(received) => LastUsage(received') = LastUsage(received)
    BY <1>1, <1>2, <2>1, OneMoreEvent DEF ReportsInOrder
  <2>4. Known' = Known
    BY <1>2, <1>3 DEF Known
  <2>5. egress = "anthropic" /\ next.ended => speech.ended
    BY SilentEnds DEF Follows, TellsUsage
  <2> QED
    BY <1>1, <1>2, <1>3, <2>2, <2>3, <2>4, <2>5 DEF Records
<1>8. Passes'
  <2>1. egress = "anthropic" /\ next.ended => speech.ended
    BY SilentEnds DEF Follows, TellsUsage
  <2> QED
    BY <1>1, <1>2, <1>3, <2>1 DEF Passes
<1>9. UsageKept'
  BY <1>3 DEF UsageKept
<1> QED
  BY <1>2, <1>4, <1>5, <1>6, <1>7, <1>8, <1>9 DEF IInv

\* So it does when the upstream ends early.
LEMMA CutKeeps ==
  ASSUME IInv, Cut
  PROVE  IInv'
<1>1. Types /\ Tells /\ EndShown /\ ReportsInOrder /\ Records /\ Passes
  BY DEF IInv
<1>2. /\ verdict = "streaming" /\ speech' = speech /\ received' = received
      /\ ingress' = ingress /\ egress' = egress /\ nulls' = nulls
      /\ source' = source /\ sink' = sink /\ relayed' = relayed /\ usage' = usage
      /\ verdict' = IF received = <<>> THEN "refused" ELSE "broken"
  BY DEF Cut, provider
<1>3. verdict' \in {"refused", "broken"} /\ translated' = translated
  BY <1>2 DEF translated
<1>4. Types'
  BY <1>1, <1>2, <1>3 DEF Types, Verdicts, Speech, Source, Sink
<1>5. Tells'
  BY <1>1, <1>2, <1>3 DEF Tells
<1>6. EndShown'
  <2>1. Quiet(relayed')
    BY <1>1, <1>2, <1>3, QuietSoFar DEF Types
  <2>2. verdict' = "refused" => relayed' = <<>>
    BY <1>1, <1>2 DEF Tells
  <2> QED
    BY <1>3, <2>1, <2>2, ShownQuiet
<1>7. Records' /\ ReportsInOrder'
  BY <1>1, <1>2, <1>3 DEF Records, Known, ReportsInOrder
<1>8. Passes'
  BY <1>1, <1>2, <1>3 DEF Passes
<1>9. UsageKept'
  BY <1>3 DEF UsageKept
<1> QED
  BY <1>4, <1>5, <1>6, <1>7, <1>8, <1>9 DEF IInv

-----------------------------------------------------------------------------
(* Between equal protocols.                                                *)

\* What a Chat client's, and an Anthropic client's, native stream records.
LEMMA ObservedNative ==
  ASSUME Types, ReportsInOrder, Records, ~translated,
         NEW e, NEW next, Follows(e, next), Speaks(e) \/ Trouble(e),
         usage' = ObserveStreamUsage(e)
  PROVE  /\ usage' \in Count
         /\ ingress # "responses" => Reckoned(Append(received, e), usage')
<1>1. ingress = egress /\ ingress \in Protocols /\ usage \in Count /\ Sequence(received)
  BY DEF Types, translated
<1>2. ingress # "responses" => Reckoned(received, usage)
  BY <1>1 DEF Records, Known, ReportsInOrder, Reckoned
<1>3. CASE ingress = "responses"
  BY <1>1, <1>3 DEF ObserveStreamUsage
<1>4. CASE ingress = "chat"
  <2>1. usage' = IF "usage" \notin DOMAIN e \/ e.usage = None THEN usage
                 ELSE Reported(IF e.usage = Null THEN Tokens(0, 0) ELSE e.usage)
    BY <1>4 DEF ObserveStreamUsage
  <2>2. CASE "usage" \notin DOMAIN e \/ e.usage = None
    <3>1. usage' = usage /\ ~Reports(e)
      BY <2>1, <2>2 DEF Reports
    <3>2. Updates(received, e, usage, usage')
      BY <3>1 DEF Updates
    <3> QED
      BY <1>1, <1>2, <1>4, <3>1, <3>2, ReckonsOn
  <2>3. CASE "usage" \in DOMAIN e /\ e.usage # None
    <3>1. Chunk(e) /\ Speaks(e)
      BY <1>1, <1>4, <2>3 DEF Speaks, Trouble
    <3>2. CASE e.usage = Null
      <4>1. usage' = Reported(Tokens(0, 0))
        BY <2>1, <2>3, <3>2
      <4>2. usage' \in Count
        BY <4>1 DEF Count, Reported, Tokens
      <4>3. ~TellUsage(received)
        BY <1>1, <1>4, <3>1, <3>2 DEF Follows, ReportsInOrder
      <4>4. ~Reports(e)
        BY <3>2 DEF Reports
      <4>5. ~TellUsage(Append(received, e))
        BY <1>1, <4>3, <4>4, OneMoreEvent
      <4> QED
        BY <4>2, <4>5 DEF Reckoned
    <3>3. CASE e.usage # Null
      <4>1. usage' = Reported(e.usage) /\ e.usage \in [input : Nat, output : Nat]
        BY <2>1, <2>3, <3>1, <3>3 DEF Chunk
      <4>2. usage' = UsageOf(e, usage)
        BY <2>3, <3>3, <4>1 DEF UsageOf
      <4>3. Updates(received, e, usage, usage')
        BY <3>1, <4>2, ChunkUpdates
      <4> QED
        BY <1>1, <1>2, <1>4, <4>1, <4>3, ReckonsOn, ReportedFacts
    <3> QED
      BY <3>2, <3>3
  <2> QED
    BY <2>2, <2>3
<1>5. CASE ingress = "anthropic"
  <2>1. usage' = ObserveAnthropic(e, usage)
    BY <1>5 DEF ObserveStreamUsage
  <2>2. CASE Trouble(e)
    <3>1. ~TellsUsage(e) /\ ~Reports(e)
      BY <2>2, SilentEnds
    <3>2. usage' = usage
      BY <2>1, <3>1 DEF ObserveAnthropic
    <3>3. Updates(received, e, usage, usage')
      BY <3>1, <3>2 DEF Updates
    <3> QED
      BY <1>1, <1>2, <1>5, <3>2, <3>3, ReckonsOn
  <2>3. CASE Speaks(e)
    <3>1. AnthropicEvent(e)
      BY <1>1, <1>5, <2>3 DEF Speaks
    <3>2. /\ e.type = "message_start" => e.usage.input \in Nat
          /\ e.type = "message_delta" => TellUsage(received)
      BY <1>1, <1>5 DEF Follows, ReportsInOrder
    <3>3. Updates(received, e, usage, usage')
      BY <2>1, <3>1, <3>2, AnthropicUpdates
    <3>4. usage' \in Count
      BY <1>1, <2>1, <3>1, ObservedUsage
    <3> QED
      BY <1>1, <1>2, <1>5, <3>3, <3>4, ReckonsOn
  <2> QED
    BY <2>2, <2>3
<1> QED
  BY <1>1, <1>3, <1>4, <1>5 DEF Protocols

\* The client is told the event as it is.
LEMMA ForwardKeeps ==
  ASSUME IInv, NEW e, NEW next, Follows(e, next), Say(e, next), Speaks(e) \/ Trouble(e),
         ~translated, Forward(e)
  PROVE  IInv'
<1>1. Types /\ Tells /\ EndShown /\ ReportsInOrder /\ Records /\ Passes
  BY DEF IInv
<1>2. /\ verdict = "streaming" /\ speech' = next
      /\ received' = Append(received, e) /\ Sequence(received') /\ received' # <<>>
      /\ ingress' = ingress /\ egress' = egress /\ nulls' = nulls
      /\ ReportsInOrder'
  BY <1>1, OrderKept
<1>3. /\ relayed' = Append(relayed, e) /\ source' = source /\ sink' = sink
      /\ usage' = ObserveStreamUsage(e)
      /\ verdict' = IF IsStreamError(e) THEN "broken"
                    ELSE IF UpstreamTerminal(e) THEN "completed" ELSE verdict
      /\ ~translated' /\ ingress = egress
  BY <1>2 DEF Forward, translated
<1>4. relayed' = received'
  BY <1>1, <1>2, <1>3 DEF Tells
<1>5. verdict' \in Verdicts /\ verdict' # "refused"
  BY <1>2, <1>3 DEF Verdicts
<1>6. usage' \in Count /\ (ingress # "responses" => Reckoned(received', usage'))
  BY <1>1, <1>2, <1>3, ObservedNative
<1>7. Types'
  BY <1>1, <1>2, <1>3, <1>4, <1>5, <1>6, TypesKept DEF Types
<1>8. Tells'
  BY <1>2, <1>4 DEF Tells
<1>9. Terminal(e) <=> verdict' = "completed"
  <2>1. ingress \in Protocols
    BY <1>1 DEF Types
  <2>2. CASE Trouble(e)
    BY <1>3, <2>2, SilentEnds DEF Trouble
  <2>3. CASE Speaks(e)
    <3>1. ~IsStreamError(e)
      BY <2>3, SpeaksNoError
    <3>2. verdict' = "completed" <=> UpstreamTerminal(e)
      BY <1>2, <1>3, <3>1
    <3>3. UpstreamTerminal(e) <=> Terminal(e)
      BY <1>3, <2>1, <2>3
      DEF Protocols, UpstreamTerminal, Terminal, Speaks, Chunk, ResponsesEvent,
          ItemEvents, Endings, AnthropicEvent, BlockEvents
    <3> QED
      BY <3>2, <3>3
  <2> QED
    BY <2>2, <2>3
<1>10. EndShown'
  <2>1. Quiet(relayed) /\ Sequence(relayed)
    BY <1>1, <1>2, QuietSoFar DEF Types
  <2>2. relayed' = relayed \o <<e>>
    BY <1>3, <2>1, OneJoined
  <2>3. CASE Terminal(e)
    BY <1>9, <2>1, <2>2, <2>3, ClosingOne, QuietThenClosing, ShownClosing
  <2>4. CASE ~Terminal(e)
    <3>1. Quiet(relayed')
      BY <2>1, <2>2, <2>4, QuietShort, QuietJoined
    <3> QED
      BY <1>5, <1>9, <2>4, <3>1, ShownQuiet
  <2> QED
    BY <2>3, <2>4
<1>11. Records'
  BY <1>2, <1>3, <1>6 DEF Records, Known, Reckoned
<1>12. Passes'
  BY <1>3 DEF Passes
<1>13. UsageKept'
  BY <1>3, <1>4, <1>2, <1>6 DEF UsageKept, Reckoned
<1> QED
  BY <1>2, <1>7, <1>8, <1>10, <1>11, <1>12, <1>13 DEF IInv

-----------------------------------------------------------------------------
(* The end of a Chat stream.                                               *)

\* The client's stream is closed.
LEMMA DoneKeeps ==
  ASSUME IInv, NEW next, Follows(Done, next), Say(Done, next), egress = "chat",
         CloseAfterDone
  PROVE  IInv'
<1>1. Types /\ Tells /\ EndShown /\ ReportsInOrder /\ Records /\ Passes
  BY DEF IInv
<1>2. /\ verdict = "streaming" /\ speech' = next
      /\ received' = Append(received, Done) /\ Sequence(received') /\ received' # <<>>
      /\ ingress' = ingress /\ egress' = egress /\ nulls' = nulls
      /\ ReportsInOrder'
  BY <1>1, OrderKept
<1>3. /\ source' = source /\ usage' = usage /\ verdict' = "completed"
      /\ translated' = translated
  BY <1>2 DEF CloseAfterDone, translated
<1>4. /\ ingress \in Protocols /\ usage \in Count /\ Sequence(received)
      /\ Sink(sink) /\ sink.out = <<>> /\ Sequence(relayed)
  BY <1>1 DEF Types
<1>5. Reckoned(received', usage') \/ ~(translated \/ ingress # "responses")
  <2>1. ASSUME translated \/ ingress # "responses"
        PROVE  Reckoned(received', usage')
    <3>1. Reckoned(received, usage)
      BY <1>1, <2>1 DEF Records, Known, ReportsInOrder, Reckoned
    <3>2. Updates(received, Done, usage, usage)
      BY SilentEnds DEF Updates
    <3> QED
      BY <1>2, <1>3, <1>4, <3>1, <3>2, ReckonsOn
  <2> QED
    BY <2>1
<1>6. Records'
  BY <1>2, <1>3, <1>5 DEF Records, Known, Reckoned, translated
<1>7. Quiet(relayed)
  BY <1>1, <1>2, <1>4, QuietSoFar
<1>8. Passes'
  BY <1>2, <1>3 DEF Passes, translated
<1>9. CASE translated
  <2>1. ingress # "chat" /\ Yield(TailAfterDone(sink))
    BY <1>9 DEF CloseAfterDone, translated
  <2> DEFINE f == TailAfterDone(sink)
  <2>2. Finished(sink, f) /\ SameBut(sink, f)
    BY <1>4, <2>1, TailFacts
  <2>3. sink.usage = usage
    BY <1>1, <1>2, <1>9, <2>1 DEF Passes
  <2> HIDE DEF f
  <2>4. Sink(sink') /\ sink'.out = <<>> /\ relayed' = relayed \o f.out
    BY <1>4, <2>1, <2>2, Drained DEF f
  <2>5. PICK tail : f.out = <<>> \o tail /\ Totals(tail, TokensOf(usage))
    BY <1>4, <2>2, <2>3 DEF Finished
  <2>6. Sequence(tail) /\ Closing(tail)
    BY <2>5 DEF Totals, Closing
  <2>7. relayed' = relayed \o tail
    BY <2>4, <2>5, <2>6, NothingBefore
  <2>8. Closing(relayed') /\ Sequence(relayed')
    BY <1>7, <2>6, <2>7, QuietThenClosing DEF Closing
  <2>9. LastUsage(relayed') = TokensOf(usage)
    BY <1>4, <2>5, <2>7, TotalsLast
  <2>10. EndShown'
    BY <1>3, <2>8, ShownClosing
  <2>11. Types'
    BY <1>1, <1>2, <1>3, <2>4, <2>8, TypesKept DEF Types, Verdicts
  <2>12. Tells'
    BY <1>2, <1>3, <1>9 DEF Tells
  <2>13. UsageKept'
    BY <1>3, <1>5, <1>9, <2>9, TokensBack DEF UsageKept, Reckoned
  <2> QED
    BY <1>2, <1>6, <1>8, <2>10, <2>11, <2>12, <2>13 DEF IInv
<1>10. CASE ~translated
  <2>1. ingress = "chat" /\ relayed' = Append(relayed, Done) /\ sink' = sink
    BY <1>10 DEF CloseAfterDone, translated
  <2>2. relayed' = received'
    BY <1>1, <1>2, <1>10, <2>1 DEF Tells
  <2>3. relayed' = relayed \o <<Done>>
    BY <1>4, <2>1, OneJoined
  <2>4. Closing(relayed')
    BY <1>7, <2>3, SilentEnds, ClosingOne, QuietThenClosing
  <2>5. EndShown'
    BY <1>3, <2>4, ShownClosing
  <2>6. Types'
    BY <1>1, <1>2, <1>3, <2>1, <2>2, TypesKept DEF Types, Verdicts
  <2>7. Tells'
    BY <1>2, <2>2 DEF Tells
  <2>8. UsageKept'
    BY <1>3, <1>5, <2>1, <2>2 DEF UsageKept, Reckoned
  <2> QED
    BY <1>2, <1>6, <1>8, <2>5, <2>6, <2>7, <2>8 DEF IInv
<1> QED
  BY <1>9, <1>10

-----------------------------------------------------------------------------
(* Between protocols.                                                      *)

\* After a turn the relay knows what has been reported.
LEMMA KnownKept ==
  ASSUME Types, ReportsInOrder, Records, translated,
         NEW e, NEW next, Follows(e, next), Speaks(e), speech' = next,
         ingress' = ingress, egress' = egress, received' = Append(received, e),
         NEW c, NEW chunks, NEW t, Turn(e, c, chunks, t)
  PROVE  Records' /\ Reckoned(received', Known')
<1>1. /\ egress \in Protocols /\ Sequence(received) /\ usage \in Count
      /\ Source(source) /\ translated'
  BY DEF Types, translated
<1>2. Reckoned(received, Known)
  BY DEF Records, ReportsInOrder, Reckoned
<1>3. Chunk(c) /\ Counts(e, c, chunks) /\ usage' = UsageOf(c, usage)
  BY DEF Turn
<1>4. CASE egress = "chat"
  <2>1. Known = usage /\ Known' = usage' /\ c = e
    BY <1>3, <1>4 DEF Known, Counts
  <2>2. Reckoned(received', Known')
    BY <1>1, <1>2, <1>3, <2>1, ChunkUpdates, ReckonsOn
  <2> QED
    BY <1>4, <2>2 DEF Records, Reckoned
<1>5. CASE egress = "responses"
  <2>1. Known = usage /\ Known' = usage' /\ ResponsesEvent(e)
    BY <1>5 DEF Known, Speaks
  <2>2. Updates(received, e, usage, usage')
    <3>1. CASE e.type \in Endings
      <4>1. "usage" \in DOMAIN e /\ e.usage \in [input : Nat, output : Nat] /\ c.usage = e.usage
        BY <1>3, <1>5, <2>1, <3>1 DEF Counts, ResponsesEvent
      <4>2. e.usage \notin {None, Null} /\ e.usage.input # None
        BY <4>1, ReportedFacts
      <4> QED
        BY <1>3, <4>1, <4>2 DEF Updates, ReportsInput, Reports, UsageOf
    <3>2. CASE e.type \notin Endings
      <4>1. c.usage = None /\ "usage" \notin DOMAIN e
        BY <1>3, <1>5, <2>1, <3>2 DEF Counts, ResponsesEvent
      <4> QED
        BY <1>3, <4>1 DEF Updates, Reports, UsageOf
    <3> QED
      BY <3>1, <3>2
  <2>3. Reckoned(received', Known')
    BY <1>1, <1>2, <2>1, <2>2, ReckonsOn
  <2> QED
    BY <1>5, <2>3 DEF Records, Reckoned
<1>6. CASE egress = "anthropic"
  <2>1. Known = source.usage /\ Known' = source'.usage /\ AnthropicEvent(e)
    BY <1>1, <1>6 DEF Known, Speaks
  <2>2. source'.usage = ObserveAnthropic(e, source.usage)
    BY <1>3, <1>6 DEF Counts
  <2>3. /\ e.type = "message_start" => e.usage.input \in Nat /\ ~speech.begun
        /\ e.type = "message_delta" => TellUsage(received)
        /\ next.ended => speech.ended \/ e.type = "message_delta"
        /\ e.type = "message_delta" => ~speech.ended
        /\ speech.ended => speech.begun
    BY <1>6 DEF Follows, ReportsInOrder
  <2>4. Updates(received, e, source.usage, source'.usage)
    BY <2>1, <2>2, <2>3, AnthropicUpdates
  <2>5. Reckoned(received', Known')
    BY <1>1, <1>2, <2>1, <2>4, ReckonsOn
  <2>6. next.ended => usage' = source'.usage
    <3>1. CASE e.type = "message_delta"
      <4>1. c.usage = TokensOf(source'.usage) /\ source'.usage \in Count
        BY <1>3, <1>6, <3>1, <2>1, <2>2, <1>1, ObservedUsage DEF Counts, Source
      <4>2. source'.usage.reported = TRUE
        BY <2>2, <3>1 DEF ObserveAnthropic, TellsUsage
      <4>3. usage' = Reported(TokensOf(source'.usage))
        BY <1>3, <4>1, CountReports DEF UsageOf
      <4>4. Reported(TokensOf(source'.usage)) = source'.usage
        BY <4>1, <4>2 DEF Reported, TokensOf, Tokens, Count
      <4> QED
        BY <4>3, <4>4
    <3>2. CASE e.type # "message_delta"
      <4>1. c.usage = None /\ usage' = usage
        BY <1>3, <1>6, <3>2 DEF Counts, UsageOf
      <4>2. ASSUME speech.ended PROVE usage' = source'.usage
        <5>1. ~TellsUsage(e)
          BY <2>3, <3>2, <4>2 DEF TellsUsage
        <5>2. source'.usage = source.usage
          BY <2>2, <5>1 DEF ObserveAnthropic
        <5> QED
          BY <1>6, <4>1, <4>2, <5>2 DEF Records
      <4> QED
        BY <2>3, <3>2, <4>2
    <3> QED
      BY <3>1, <3>2
  <2> QED
    BY <1>6, <2>5, <2>6 DEF Records, Reckoned
<1> QED
  BY <1>1, <1>4, <1>5, <1>6 DEF Protocols

\* What a Chat client is told in a turn, but for the [DONE] at its end.
LEMMA ChatTold ==
  ASSUME Types, Passes, translated, ingress = "chat",
         NEW e, NEW next, Follows(e, next), Speaks(e),
         NEW c, NEW chunks, NEW t, Turn(e, c, chunks, t)
  PROVE  /\ Quiet(chunks) /\ Sequence(relayed \o chunks)
         /\ Reckoned(relayed \o chunks, usage')
         /\ TellUsage(relayed) => TellUsage(relayed \o chunks)
         /\ egress = "responses" /\ e.type \in Endings => TellUsage(relayed \o chunks)
         /\ egress = "anthropic" /\ e.type = "message_delta" => TellUsage(relayed \o chunks)
<1>1. /\ Sequence(relayed) /\ Chunk(c) /\ OneOrNone(chunks, c) /\ Counts(e, c, chunks)
      /\ usage' = UsageOf(c, usage) /\ Source(source')
  BY DEF Types, Turn
<1>2. Reckoned(relayed, usage)
  BY DEF Passes, Reckoned
<1>3. egress = "chat" => FALSE
  BY DEF translated
<1>4. CASE chunks = <<c>>
  <2>1. relayed \o chunks = Append(relayed, c)
    BY <1>1, <1>4, OneJoined
  <2>2. Reckoned(Append(relayed, c), usage')
    BY <1>1, <1>2, ChunkUpdates, ReckonsOn
  <2>3. Quiet(chunks)
    BY <1>1, <1>4, ChunkFacts, QuietShort
  <2>4. TellUsage(Append(relayed, c)) <=> TellUsage(relayed) \/ Reports(c)
    BY <1>1, OneMoreEvent
  <2>5. egress = "responses" /\ e.type \in Endings => Reports(c)
    <3>1. ASSUME egress = "responses", e.type \in Endings PROVE Reports(c)
      <4>1. c.usage = e.usage /\ e.usage \in [input : Nat, output : Nat]
        BY <1>1, <3>1 DEF Counts, Speaks, ResponsesEvent
      <4> QED
        BY <1>1, <4>1, ReportedFacts DEF Reports, Chunk, Blank
    <3> QED
      BY <3>1
  <2>6. egress = "anthropic" /\ e.type = "message_delta" => Reports(c)
    <3>1. ASSUME egress = "anthropic", e.type = "message_delta" PROVE Reports(c)
      <4>1. c.usage = TokensOf(source'.usage) /\ source'.usage \in Count
        BY <1>1, <3>1 DEF Counts, Source
      <4>2. c.usage \notin {None, Null}
        BY <4>1, CountReports
      <4> QED
        BY <1>1, <4>2 DEF Reports, Chunk, Blank
    <3> QED
      BY <3>1
  <2>7. Sequence(Append(relayed, c))
    BY <1>1, Appended
  <2> QED
    BY <2>1, <2>2, <2>3, <2>4, <2>5, <2>6, <2>7
<1>5. CASE chunks = <<>> /\ chunks # <<c>>
  <2>1. relayed \o chunks = relayed /\ Quiet(chunks)
    BY <1>1, <1>5, NothingBefore, QuietShort
  <2>2. c.usage = None /\ ~(egress = "responses" /\ e.type \in Endings)
        /\ ~(egress = "anthropic" /\ e.type = "message_delta")
    BY <1>1, <1>3, <1>5 DEF Counts, Speaks
  <2>3. usage' = usage
    BY <1>1, <2>2 DEF UsageOf
  <2> QED
    BY <1>1, <1>2, <2>1, <2>2, <2>3
<1> QED
  BY <1>1, <1>4, <1>5 DEF OneOrNone

\* The client is told the event in its own protocol.
LEMMA RelayKeeps ==
  ASSUME IInv, NEW e, NEW next, Follows(e, next), Say(e, next), Speaks(e),
         translated, Relay(e)
  PROVE  IInv'
<1>1. Types /\ Tells /\ EndShown /\ ReportsInOrder /\ Records /\ Passes
  BY DEF IInv
<1>2. /\ verdict = "streaming" /\ speech' = next
      /\ received' = Append(received, e) /\ Sequence(received') /\ received' # <<>>
      /\ ingress' = ingress /\ egress' = egress /\ nulls' = nulls
      /\ ReportsInOrder'
  BY <1>1, OrderKept
<1>3. \E c, chunks, t : Turn(e, c, chunks, t)
  BY <1>1, RelayTurns
<1>4. PICK c, chunks, t : Turn(e, c, chunks, t)
  BY <1>3
<1>5. /\ Chunk(c) /\ Counts(e, c, chunks) /\ usage' = UsageOf(c, usage) /\ Source(source')
      /\ Sink(t)
      /\ ingress # "chat" => t.usage = UsageOf(c, sink.usage)
      /\ ingress = "chat" => t.out = chunks
      /\ verdict' = IF UpstreamTerminal(e) THEN "completed" ELSE "streaming"
      /\ Yield(IF UpstreamTerminal(e) THEN TailAfterTerminal(t) ELSE t)
  BY <1>2, <1>4 DEF Turn
<1>6. /\ ingress \in Protocols /\ egress \in Protocols /\ usage \in Count
      /\ Sequence(relayed) /\ Sequence(received)
  BY <1>1 DEF Types
<1>7. translated' /\ usage' \in Count /\ verdict' \in Verdicts /\ verdict' # "refused"
  BY <1>2, <1>5, <1>6, ChunkFacts DEF translated, Verdicts
<1>8. Quiet(relayed)
  BY <1>1, <1>2, <1>6, QuietSoFar
<1>9. Records' /\ Reckoned(received', Known')
  BY <1>1, <1>2, <1>4, KnownKept
<1>10. Tells'
  BY <1>2, <1>7 DEF Tells
<1>11. ingress # "chat" => t.usage = usage'
  BY <1>1, <1>2, <1>5 DEF Passes
<1>12. SameBut(t, t)
  BY DEF SameBut
<1>13. Quiet(t.out)
  BY <1>5, <1>6 DEF Sink, ResponsesSink, AnthropicSink, ChatSink, Protocols
<1>14. ingress = "chat" =>
         /\ Quiet(chunks) /\ Sequence(relayed \o chunks)
         /\ Reckoned(relayed \o chunks, usage')
         /\ TellUsage(relayed) => TellUsage(relayed \o chunks)
         /\ egress = "responses" /\ e.type \in Endings => TellUsage(relayed \o chunks)
         /\ egress = "anthropic" /\ e.type = "message_delta" => TellUsage(relayed \o chunks)
  BY <1>1, <1>4, ChatTold
<1>15. egress = "anthropic" /\ next.ended => speech.ended \/ e.type = "message_delta"
  BY DEF Follows
\* The stream goes on.
<1>16. CASE ~UpstreamTerminal(e)
  <2>1. Yield(t) /\ verdict' = "streaming"
    BY <1>5, <1>16
  <2>2. Sink(sink') /\ sink'.out = <<>> /\ relayed' = relayed \o t.out
        /\ (ingress # "chat" => sink'.usage = t.usage)
    BY <1>5, <1>6, <1>12, <2>1, Drained
  <2>3. Quiet(relayed')
    BY <1>8, <1>13, <2>2, QuietJoined
  <2>4. EndShown'
    BY <2>1, <2>3, ShownQuiet
  <2>5. Sequence(relayed')
    BY <2>3 DEF Quiet
  <2>6. Types'
    BY <1>1, <1>2, <1>5, <1>7, <2>2, <2>5, TypesKept
  <2>7. ingress = "chat" => relayed' = relayed \o chunks
    BY <1>5, <2>2
  <2>8. Passes'
    <3>1. ingress # "chat" => sink'.usage = usage'
      BY <1>11, <2>2
    <3>2. ingress = "chat" => Reckoned(relayed', usage')
      BY <1>14, <2>7
    <3>3. ingress = "chat" /\ egress = "anthropic" /\ next.ended => TellUsage(relayed')
      BY <1>1, <1>14, <1>15, <2>7, translated DEF Passes
    <3> QED
      BY <1>2, <3>1, <3>2, <3>3 DEF Passes, Reckoned
  <2>9. UsageKept'
    BY <2>1 DEF UsageKept
  <2> QED
    BY <1>2, <1>9, <1>10, <2>4, <2>6, <2>8, <2>9 DEF IInv
\* It completes.
<1>17. CASE UpstreamTerminal(e)
  <2>1. Yield(TailAfterTerminal(t)) /\ verdict' = "completed"
    BY <1>5, <1>17
  <2>2. \/ egress = "responses" /\ e.type \in Endings
        \/ egress = "anthropic" /\ e.type = "message_stop" /\ speech.ended /\ next.ended
    BY <1>6, <1>17 DEF UpstreamTerminal, Endings, Protocols, Follows
  <2>3. Reckoned(received', usage')
    <3>1. usage' = Known'
      BY <1>2, <1>7, <1>9, <2>2 DEF Known, Records
    <3> QED
      BY <1>9, <3>1
  <2>4. CASE ingress # "chat"
    <3> DEFINE f == TailAfterDone(t)
    <3>1. Yield(f) /\ Finished(t, f) /\ SameBut(t, f)
      BY <1>5, <1>6, <2>1, <2>4, TailFacts
    <3> HIDE DEF f
    <3>2. Sink(sink') /\ sink'.out = <<>> /\ relayed' = relayed \o f.out
      BY <1>5, <1>6, <3>1, Drained
    <3>3. PICK tail : f.out = t.out \o tail /\ Totals(tail, TokensOf(usage'))
      BY <1>11, <2>4, <3>1 DEF Finished
    <3>4. Totals(f.out, TokensOf(usage'))
      BY <1>13, <3>3, TotalsAfterQuiet
    <3>5. Closing(f.out)
      BY <3>4 DEF Totals
    <3>6. Closing(relayed') /\ Sequence(relayed')
      BY <1>8, <3>2, <3>5, QuietThenClosing DEF Closing
    <3>7. LastUsage(relayed') = TokensOf(usage')
      BY <1>6, <3>2, <3>4, TotalsLast
    <3>8. EndShown'
      BY <2>1, <3>6, ShownClosing
    <3>9. Types'
      BY <1>1, <1>2, <1>5, <1>7, <3>2, <3>6, TypesKept
    <3>10. Passes'
      BY <1>2, <2>1, <2>4 DEF Passes
    <3>11. UsageKept'
      BY <2>3, <3>7, TokensBack DEF UsageKept, Reckoned
    <3> QED
      BY <1>2, <1>9, <1>10, <3>8, <3>9, <3>10, <3>11 DEF IInv
  <2>5. CASE ingress = "chat"
    <3> DEFINE f == Send(t, <<Done>>)
               told == relayed \o chunks
    <3>1. Yield(f)
      BY <2>1, <2>5 DEF TailAfterTerminal
    <3>2. ChatSink(t)
      BY <1>5, <2>5 DEF Sink
    <3>3. SameBut(t, f) /\ f.out = chunks \o <<Done>>
      BY <1>5, <2>5, <3>2 DEF Send, SameBut, ChatSink
    <3> HIDE DEF f
    <3>4. Sink(sink') /\ sink'.out = <<>> /\ relayed' = relayed \o f.out
      BY <1>5, <1>6, <3>1, <3>3, Drained
    <3>5. Quiet(chunks) /\ Sequence(chunks) /\ Sequence(<<Done>>)
      BY <1>14, <2>5, Short DEF Quiet
    <3>6. relayed' = told \o <<Done>>
      BY <1>6, <3>3, <3>4, <3>5, ThreeJoined
    <3>7. Quiet(told) /\ Sequence(told)
      BY <1>8, <1>14, <2>5, <3>5, QuietJoined
    <3>8. Reckoned(told, usage') /\ TellUsage(told)
      BY <1>1, <1>14, <2>2, <2>5 DEF Passes, translated
    <3> HIDE DEF told
    <3>9. Closing(relayed') /\ Sequence(relayed')
      BY <3>6, <3>7, SilentEnds, ClosingOne, QuietThenClosing DEF Closing
    <3>10. relayed' = Append(told, Done)
      BY <3>6, <3>7, OneJoined
    <3>11. Updates(told, Done, usage', usage')
      BY SilentEnds DEF Updates
    <3>12. Reckoned(relayed', usage')
      BY <3>7, <3>8, <3>10, <3>11, ReckonsOn
    <3>13. TellUsage(relayed')
      BY <3>7, <3>8, <3>10, OneMoreEvent
    <3>14. EndShown'
      BY <2>1, <3>9, ShownClosing
    <3>15. Types'
      BY <1>1, <1>2, <1>5, <1>7, <3>4, <3>9, TypesKept
    <3>16. Passes'
      BY <1>2, <2>1, <2>5, <3>12, <3>13 DEF Passes, Reckoned
    <3>17. UsageKept'
      <4>1. LastUsage(relayed') = TokensOf(usage')
        BY <3>12, <3>13, TokensBack DEF Reckoned
      <4> QED
        BY <2>3, <4>1, TokensBack DEF UsageKept, Reckoned
    <3> QED
      BY <1>2, <1>9, <1>10, <3>14, <3>15, <3>16, <3>17 DEF IInv
  <2> QED
    BY <2>4, <2>5
<1> QED
  BY <1>16, <1>17

\* Whatever the provider says, the invariant holds afterwards.
LEMMA SayKeeps ==
  ASSUME IInv, NEW e, NEW next, Follows(e, next), Say(e, next)
  PROVE  IInv'
<1>1. Handle(e)
  BY DEF Say
<1>2. CASE e = Done /\ egress = "chat"
  <2>1. CloseAfterDone
    BY <1>1, <1>2, SilentEnds DEF Handle, IsStreamError
  <2> QED
    BY <1>2, <2>1, DoneKeeps
<1>3. CASE Trouble(e)
  <2>1. IsStreamError(e) /\ e.type # "[DONE]"
    BY <1>3, SilentEnds DEF Trouble
  <2>2. CASE translated \/ received = <<>>
    <3>1. /\ UNCHANGED <<source, sink, relayed, usage>>
          /\ verdict' = IF received = <<>> THEN "refused" ELSE "broken"
      BY <1>1, <2>1, <2>2 DEF Handle
    <3> QED
      BY <1>3, <2>2, <3>1, StopKeeps
  <2>3. CASE ~translated /\ received # <<>>
    <3>1. Forward(e)
      BY <1>1, <2>1, <2>3 DEF Handle
    <3> QED
      BY <1>3, <2>3, <3>1, ForwardKeeps
  <2> QED
    BY <2>2, <2>3
<1>4. CASE Speaks(e)
  <2>1. ~IsStreamError(e) /\ e.type # "[DONE]"
    BY <1>4, SpeaksNoError
  <2>2. IF translated THEN Relay(e) ELSE Forward(e)
    BY <1>1, <2>1 DEF Handle
  <2> QED
    BY <1>4, <2>2, RelayKeeps, ForwardKeeps
<1> QED
  BY <1>2, <1>3, <1>4 DEF Follows

-----------------------------------------------------------------------------
(* Every action of the provider says what may follow.                      *)

\* What only changes where the provider is keeps it somewhere.
LEMMA SpeechKept ==
  ASSUME Types
  PROVE  /\ Speech(speech) /\ Speech([speech EXCEPT !.ended = TRUE])
         /\ Speech([speech EXCEPT !.begun = TRUE])
         /\ \A x : Speech([speech EXCEPT !.open = x])
BY DEF Types, Speech

\* A Chat provider speaks in chunks.
LEMMA ChatKeeps ==
  ASSUME IInv, SayChat \/ FinishChat \/ CountChat \/ EndChat
  PROVE  IInv'
<1>1. Types /\ Speech(speech)
  BY DEF IInv, Types
<1>2. DOMAIN <<>> = 1..0 /\ 0 \in Nat /\ \A x : DOMAIN <<x>> = 1..1 /\ 1 \in Nat
  OBVIOUS
<1>3. CASE SayChat
  <2>1. PICK thought, text, new, calls :
          /\ new \in 0..(MaxCalls - speech.calls)
          /\ calls \in IF new = 0 THEN {<<>>} \cup OldParts ELSE NewParts(new)
          /\ Say([Blank EXCEPT !.thought = thought, !.text = text, !.calls = calls,
                               !.usage = IF nulls THEN Null ELSE None],
                 [speech EXCEPT !.calls = @ + new])
    BY <1>3 DEF SayChat
  <2> DEFINE e == [Blank EXCEPT !.thought = thought, !.text = text, !.calls = calls,
                                !.usage = IF nulls THEN Null ELSE None]
             next == [speech EXCEPT !.calls = @ + new]
  <2>2. egress = "chat" /\ ~speech.ended
    BY <1>3 DEF SayChat, MayGoOn
  <2>3. \E n \in Nat : DOMAIN calls = 1..n
    <3>1. CASE new = 0
      BY <1>2, <2>1, <3>1 DEF OldParts
    <3>2. CASE new # 0
      <4>1. calls \in NewParts(new)
        BY <2>1, <3>2
      <4>2. DOMAIN calls = 1..new
        BY <4>1 DEF NewParts
      <4>3. new \in Nat
        BY <2>1, <1>1, PairsAssumption DEF Speech
      <4> QED
        BY <4>2, <4>3
    <3> QED
      BY <3>1, <3>2
  <2>4. Chunk(e) /\ e.usage \in {None, Null}
    BY <2>3 DEF Chunk, Blank
  <2>5. Speech(next) /\ next.begun = speech.begun /\ next.ended = speech.ended
    BY <1>1, <2>1, PairsAssumption DEF Speech
  <2>6. Say(e, next)
    BY <2>1
  <2> HIDE DEF e, next
  <2>7. Follows(e, next)
    BY <2>2, <2>4, <2>5 DEF Follows, Speaks, Reports
  <2> QED
    BY <2>6, <2>7, SayKeeps
<1>4. CASE FinishChat
  <2>1. PICK finish \in {"stop", "length"}, tokens \in {None, Tokens(1, 1)} :
          Say([Blank EXCEPT !.finish = IF finish = "stop" /\ speech.calls > 0
                                       THEN "tool_calls" ELSE finish,
                            !.usage = IF tokens = None /\ nulls THEN Null ELSE tokens],
              [speech EXCEPT !.ended = TRUE])
    BY <1>4 DEF FinishChat
  <2> DEFINE e == [Blank EXCEPT !.finish = IF finish = "stop" /\ speech.calls > 0
                                           THEN "tool_calls" ELSE finish,
                                !.usage = IF tokens = None /\ nulls THEN Null ELSE tokens]
             next == [speech EXCEPT !.ended = TRUE]
  <2>2. egress = "chat" /\ ~speech.ended
    BY <1>4 DEF FinishChat
  <2>3. Tokens(1, 1) \in [input : Nat, output : Nat]
    BY DEF Tokens
  <2>4. Chunk(e)
    BY <1>2, <2>3 DEF Chunk, Blank
  <2>5. Speech(next) /\ next.begun = speech.begun /\ next.ended
    BY <1>1, SpeechKept DEF Speech
  <2>6. Say(e, next)
    BY <2>1
  <2> HIDE DEF e, next
  <2>7. Follows(e, next)
    BY <2>2, <2>4, <2>5 DEF Follows, Speaks
  <2> QED
    BY <2>6, <2>7, SayKeeps
<1>5. CASE CountChat
  <2> DEFINE e == [Blank EXCEPT !.usage = Tokens(1, 2)]
  <2>1. egress = "chat" /\ speech.ended /\ Say(e, speech)
    BY <1>5 DEF CountChat
  <2>2. Tokens(1, 2) \in [input : Nat, output : Nat]
    BY DEF Tokens
  <2>3. Chunk(e) /\ e.usage = Tokens(1, 2)
    BY <1>2, <2>2 DEF Chunk, Blank
  <2> HIDE DEF e
  <2>4. e.usage # Null
    BY <2>2, <2>3, ReportedFacts
  <2>5. Follows(e, speech)
    BY <1>1, <2>1, <2>3, <2>4 DEF Follows, Speaks
  <2> QED
    BY <2>1, <2>5, SayKeeps
<1>6. CASE EndChat
  <2>1. egress = "chat" /\ Say(Done, speech)
    BY <1>6 DEF EndChat
  <2>2. ~Speaks(Done)
    BY SilentEnds, SpeaksNoError
  <2>3. Follows(Done, speech)
    BY <1>1, <2>1, <2>2, SilentEnds DEF Follows
  <2> QED
    BY <2>1, <2>3, SayKeeps
<1> QED
  BY <1>3, <1>4, <1>5, <1>6

\* A Responses provider speaks in items.
LEMMA ResponsesKeeps ==
  ASSUME IInv, StartResponse \/ OpenItem \/ SayItem \/ EndResponse
  PROVE  IInv'
<1>1. Types /\ Speech(speech)
  BY DEF IInv, Types
<1>2. ASSUME NEW e, NEW next, egress = "responses", ResponsesEvent(e) \/ Trouble(e),
             Speech(next), speech.begun => next.begun, speech.ended => next.ended,
             Say(e, next)
      PROVE  IInv'
  <2>1. Follows(e, next)
    BY <1>2 DEF Follows, Speaks
  <2> QED
    BY <1>2, <2>1, SayKeeps
<1>3. CASE StartResponse
  <2>1. ResponsesEvent(Created)
    BY DEF ResponsesEvent, Created, ItemEvents, Endings
  <2> DEFINE next == [speech EXCEPT !.begun = TRUE]
  <2>2. Speech(next) /\ next.begun /\ next.ended = speech.ended
    BY <1>1, SpeechKept DEF Speech
  <2>3. egress = "responses" /\ Say(Created, next)
    BY <1>3 DEF StartResponse
  <2> HIDE DEF next
  <2> QED
    BY <1>2, <2>1, <2>2, <2>3
<1>4. CASE OpenItem
  <2>1. PICK kind \in {"reasoning", "message", "function_call"} :
          /\ kind = "function_call" => speech.calls < MaxCalls
          /\ LET item == Item(kind, speech.parts) IN
             Say(ItemAdded(item, speech.parts,
                           IF kind = "function_call" THEN Name(speech.calls) ELSE None),
                 [speech EXCEPT !.open = item, !.parts = @ + 1,
                                !.calls = IF kind = "function_call" THEN @ + 1 ELSE @])
    BY <1>4 DEF OpenItem
  <2> DEFINE item == Item(kind, speech.parts)
             e == ItemAdded(item, speech.parts,
                            IF kind = "function_call" THEN Name(speech.calls) ELSE None)
             next == [speech EXCEPT !.open = item, !.parts = @ + 1,
                                    !.calls = IF kind = "function_call" THEN @ + 1 ELSE @]
  <2>2. egress = "responses" /\ Say(e, next)
    BY <1>4, <2>1 DEF OpenItem
  <2>3. Speech(next) /\ next.begun = speech.begun /\ next.ended = speech.ended
    BY <1>1, <2>1, PairsAssumption DEF Speech
  <2>4. item.kind = "function_call" => item \in [kind : {"function_call"}, n : Nat]
    BY <1>1 DEF Item, Speech
  <2>5. e.type = "item.added" /\ "usage" \notin DOMAIN e /\ e.item = item
    BY DEF ItemAdded
  <2> HIDE DEF e, next, item
  <2>6. ResponsesEvent(e)
    BY <2>4, <2>5 DEF ResponsesEvent, ItemEvents, Endings
  <2> QED
    BY <1>2, <2>2, <2>3, <2>6
<1>5. CASE SayItem
  <2>1. \A item, n, piece : ResponsesEvent(ItemDelta(item, n, piece))
    BY DEF ResponsesEvent, ItemDelta, ItemEvents, Endings
  <2>2. \A item, n, pieces : ResponsesEvent(ItemDone(item, n, pieces))
    BY DEF ResponsesEvent, ItemDone, ItemEvents, Endings
  <2> DEFINE delta == ItemDelta(speech.open, speech.parts - 1, Piece("piece"))
             end == ItemDone(speech.open, speech.parts - 1, PiecesOf(speech.open))
             next == [speech EXCEPT !.open = None]
  <2>3. egress = "responses" /\ (Say(delta, speech) \/ Say(end, next))
    BY <1>5 DEF SayItem
  <2>4. Speech(next) /\ next.begun = speech.begun /\ next.ended = speech.ended
    BY <1>1, SpeechKept DEF Speech
  <2>5. ResponsesEvent(delta) /\ ResponsesEvent(end)
    BY <2>1, <2>2
  <2> HIDE DEF delta, end, next
  <2> QED
    BY <1>1, <1>2, <2>3, <2>4, <2>5
<1>6. CASE EndResponse
  <2> DEFINE failed == Ended("response.failed", None)
             next == [speech EXCEPT !.ended = TRUE]
  <2>1. Speech(next) /\ next.begun = speech.begun /\ next.ended
    BY <1>1, SpeechKept DEF Speech
  <2>2. egress = "responses"
    BY <1>6 DEF EndResponse
  <2>3. CASE \E type \in {"response.completed", "response.incomplete"} :
               Say(Ended(type, Tokens(1, 2)), next)
    <3>1. PICK type \in {"response.completed", "response.incomplete"} :
                 Say(Ended(type, Tokens(1, 2)), next)
      BY <2>3
    <3>2. Tokens(1, 2) \in [input : Nat, output : Nat]
      BY DEF Tokens
    <3>3. ResponsesEvent(Ended(type, Tokens(1, 2)))
      BY <3>2 DEF ResponsesEvent, Ended, ItemEvents, Endings
    <3> HIDE DEF next
    <3> QED
      BY <1>2, <2>1, <2>2, <3>1, <3>3
  <2>4. CASE Say(failed, next)
    <3>1. Trouble(failed)
      BY DEF Trouble, IsStreamError, Ended
    <3> HIDE DEF next, failed
    <3> QED
      BY <1>2, <2>1, <2>2, <2>4, <3>1
  <2> QED
    BY <1>6, <2>3, <2>4 DEF EndResponse
<1> QED
  BY <1>3, <1>4, <1>5, <1>6

\* And an Anthropic provider in blocks.
LEMMA AnthropicKeeps ==
  ASSUME IInv, StartMessage \/ OpenBlock \/ SayBlock \/ EndMessage
  PROVE  IInv'
<1>1. Types /\ Speech(speech)
  BY DEF IInv, Types
<1>2. ASSUME NEW e, NEW next, egress = "anthropic", AnthropicEvent(e),
             e.type \notin {"message_start", "message_delta"},
             e.type = "message_stop" => speech.ended,
             Speech(next), next.begun = speech.begun, next.ended = speech.ended,
             Say(e, next)
      PROVE  IInv'
  <2>1. Follows(e, next)
    BY <1>2 DEF Follows, Speaks
  <2> QED
    BY <1>2, <2>1, SayKeeps
<1>3. CASE StartMessage
  <2> DEFINE e == MessageStart(Tokens(1, 1))
             next == [speech EXCEPT !.begun = TRUE]
  <2>1. egress = "anthropic" /\ ~speech.begun /\ Say(e, next)
    BY <1>3 DEF StartMessage
  <2>2. Speech(next) /\ next.begun /\ next.ended = speech.ended
    BY <1>1, SpeechKept DEF Speech
  <2>3. e.type = "message_start" /\ "usage" \in DOMAIN e /\ e.usage = Tokens(1, 1)
    BY DEF MessageStart
  <2>4. /\ Tokens(1, 1) \in [input : Nat \cup {None}, output : Nat]
        /\ Tokens(1, 1).input \in Nat
    BY DEF Tokens
  <2> HIDE DEF e, next
  <2>5. AnthropicEvent(e)
    BY <2>3, <2>4 DEF AnthropicEvent, BlockEvents, TellsUsage
  <2>6. Follows(e, next)
    BY <2>1, <2>2, <2>3, <2>4, <2>5 DEF Follows, Speaks
  <2> QED
    BY <2>1, <2>6, SayKeeps
<1>4. CASE OpenBlock
  <2>1. PICK kind \in {"thinking", "text", "tool_use"} :
          /\ kind = "tool_use" => speech.calls < MaxCalls
          /\ Say(BlockStart(speech.parts, kind,
                            IF kind = "tool_use" THEN Name(speech.calls) ELSE None),
                 [speech EXCEPT !.open = kind, !.parts = @ + 1,
                                !.calls = IF kind = "tool_use" THEN @ + 1 ELSE @])
    BY <1>4 DEF OpenBlock
  <2> DEFINE e == BlockStart(speech.parts, kind,
                             IF kind = "tool_use" THEN Name(speech.calls) ELSE None)
             next == [speech EXCEPT !.open = kind, !.parts = @ + 1,
                                    !.calls = IF kind = "tool_use" THEN @ + 1 ELSE @]
  <2>2. egress = "anthropic" /\ Say(e, next)
    BY <1>4, <2>1 DEF OpenBlock
  <2>3. Speech(next) /\ next.begun = speech.begun /\ next.ended = speech.ended
    BY <1>1, <2>1, PairsAssumption DEF Speech
  <2>4. /\ e.type = "block_start" /\ "usage" \notin DOMAIN e
        /\ e.index = speech.parts /\ e.kind = kind
    BY DEF BlockStart
  <2>5. speech.parts \in Nat /\ kind \in BlockKinds
    BY <1>1 DEF Speech, BlockKinds
  <2> HIDE DEF e, next
  <2>6. AnthropicEvent(e)
    BY <2>4, <2>5 DEF AnthropicEvent, BlockEvents, TellsUsage
  <2> QED
    BY <1>2, <2>2, <2>3, <2>4, <2>6
<1>5. CASE SayBlock
  <2> DEFINE delta == BlockDelta(speech.parts - 1, speech.open, Piece("piece"))
             stop == BlockStop(speech.parts - 1)
             next == [speech EXCEPT !.open = None]
  <2>1. egress = "anthropic" /\ (Say(delta, speech) \/ Say(stop, next))
    BY <1>5 DEF SayBlock
  <2>2. Speech(next) /\ next.begun = speech.begun /\ next.ended = speech.ended
    BY <1>1, SpeechKept DEF Speech
  <2>3. /\ AnthropicEvent(delta) /\ AnthropicEvent(stop)
        /\ delta.type = "block_delta" /\ stop.type = "block_stop"
    BY DEF AnthropicEvent, BlockEvents, TellsUsage, BlockDelta, BlockStop
  <2> HIDE DEF delta, stop, next
  <2> QED
    BY <1>1, <1>2, <2>1, <2>2, <2>3
<1>6. CASE EndMessage
  <2>1. egress = "anthropic" /\ speech.begun
    BY <1>6 DEF EndMessage
  <2>2. CASE speech.ended /\ Say(MessageStop, speech)
    <3>1. AnthropicEvent(MessageStop) /\ MessageStop.type = "message_stop"
      BY DEF AnthropicEvent, MessageStop, BlockEvents, TellsUsage
    <3> QED
      BY <1>1, <1>2, <2>1, <2>2, <3>1
  <2>3. CASE /\ ~speech.ended
             /\ \E stop \in {"end_turn", "max_tokens"}, input \in {None, 2} :
                  Say(MessageDelta(IF stop = "end_turn" /\ speech.calls > 0
                                   THEN "tool_use" ELSE stop, Tokens(input, 2)),
                      [speech EXCEPT !.ended = TRUE])
    <3>1. PICK reason \in {"end_turn", "max_tokens"}, input \in {None, 2} :
            Say(MessageDelta(IF reason = "end_turn" /\ speech.calls > 0
                             THEN "tool_use" ELSE reason, Tokens(input, 2)),
                [speech EXCEPT !.ended = TRUE])
      BY <2>3
    <3> DEFINE stop == IF reason = "end_turn" /\ speech.calls > 0
                       THEN "tool_use" ELSE reason
               e == MessageDelta(stop, Tokens(input, 2))
               next == [speech EXCEPT !.ended = TRUE]
    <3>2. Say(e, next)
      BY <3>1
    <3>3. Speech(next) /\ next.begun = speech.begun /\ next.ended
      BY <1>1, SpeechKept DEF Speech
    <3>4. e.type = "message_delta" /\ "usage" \in DOMAIN e /\ e.usage = Tokens(input, 2)
      BY DEF MessageDelta
    <3>5. Tokens(input, 2) \in [input : Nat \cup {None}, output : Nat]
      BY <3>1 DEF Tokens
    <3> HIDE DEF e, next
    <3>6. AnthropicEvent(e)
      BY <3>4, <3>5 DEF AnthropicEvent, BlockEvents
    <3>7. Follows(e, next)
      BY <2>1, <2>3, <3>3, <3>4, <3>6 DEF Follows, Speaks
    <3> QED
      BY <3>2, <3>7, SayKeeps
  <2> QED
    BY <1>6, <2>2, <2>3 DEF EndMessage
<1> QED
  BY <1>3, <1>4, <1>5, <1>6

\* Any of them may fail.
LEMMA ErrorKeeps ==
  ASSUME IInv, SayError
  PROVE  IInv'
<1> DEFINE e == [type |-> "error"]
<1>1. Speech(speech) /\ Say(e, speech)
  BY DEF IInv, Types, SayError
<1>2. Trouble(e) /\ "usage" \notin DOMAIN e /\ e.type = "error"
  BY DEF Trouble, IsStreamError
<1> HIDE DEF e
<1>3. ~Speaks(e) /\ ~Reports(e)
  BY <1>2, SilentEnds, SpeaksNoError DEF Trouble
<1>4. Follows(e, speech)
  BY <1>1, <1>2, <1>3 DEF Follows
<1> QED
  BY <1>1, <1>4, SayKeeps

-----------------------------------------------------------------------------
(* Theorems.                                                               *)

\* The invariant holds at first,
LEMMA InitInv ==
  ASSUME Init
  PROVE  IInv
<1>1. PICK pair \in Pairs : ingress = pair[1] /\ egress = pair[2]
  BY DEF Init
<1>2. <<ingress, egress>> \in Pairs /\ ingress \in Protocols /\ egress \in Protocols
  BY <1>1, PairsAssumption
<1>3. nulls \in BOOLEAN /\ (nulls => egress = "chat")
  BY DEF Init
<1>4. /\ speech = [begun |-> FALSE, open |-> None, parts |-> 0, calls |-> 0, ended |-> FALSE]
      /\ received = <<>> /\ relayed = <<>> /\ source = NewSource /\ sink = NewSink
      /\ usage = NoUsage /\ verdict = "streaming"
  BY DEF Init
<1>5. Speech(speech) /\ ~speech.begun /\ ~speech.ended
  BY <1>4, PairsAssumption DEF Speech
<1>6. DOMAIN <<>> = {} /\ IsFiniteSet({}) /\ NoUsage \in Count /\ Quiet(<<>>)
  BY QuietShort, FS_EmptySet DEF NoUsage, Count
<1>7. Source(source)
  BY <1>4, <1>6 DEF Source, NewSource
<1>8. Sink(sink) /\ sink.out = <<>> /\ (ingress # "chat" => sink.usage = usage)
  <2>1. CASE ingress = "responses"
    BY <1>4, <1>6, <2>1 DEF Sink, NewSink, ResponsesSink, NewResponses
  <2>2. CASE ingress = "anthropic"
    BY <1>4, <1>6, <2>2 DEF Sink, NewSink, AnthropicSink, NewAnthropic
  <2>3. CASE ingress = "chat"
    BY <1>4, <1>6, <2>3 DEF Sink, NewSink, ChatSink
  <2> QED
    BY <1>2, <2>1, <2>2, <2>3 DEF Protocols
<1>9. Types
  BY <1>2, <1>3, <1>4, <1>5, <1>6, <1>7, <1>8, Short DEF Types, Verdicts
<1>10. ~TellUsage(received) /\ ~TellUsage(relayed)
  BY <1>4, <1>6 DEF TellUsage
<1>11. EndShown
  BY <1>4, <1>6 DEF EndShown
<1> QED
  BY <1>4, <1>5, <1>8, <1>9, <1>10, <1>11
     DEF IInv, Tells, ReportsInOrder, Records, Passes, UsageKept

\* it is inductive,
LEMMA NextInv ==
  ASSUME IInv, [Next]_vars
  PROVE  IInv'
<1>1. CASE Next
  BY <1>1, ChatKeeps, ResponsesKeeps, AnthropicKeeps, ErrorKeeps, CutKeeps
  DEF Next
<1>2. CASE UNCHANGED vars
  <2>1. /\ ingress' = ingress /\ egress' = egress /\ nulls' = nulls /\ speech' = speech
        /\ received' = received /\ source' = source /\ sink' = sink
        /\ relayed' = relayed /\ usage' = usage /\ verdict' = verdict
        /\ translated' = translated
    BY <1>2 DEF vars, provider, relay, translated
  <2>2. Types'
    BY <2>1 DEF IInv, Types, Speech, Source, Sink
  <2>3. Tells' /\ EndShown' /\ UsageKept'
    BY <2>1 DEF IInv, Tells, EndShown, UsageKept
  <2>4. ReportsInOrder' /\ Records' /\ Passes'
    BY <2>1 DEF IInv, ReportsInOrder, Records, Known, Passes
  <2> QED
    BY <2>2, <2>3, <2>4 DEF IInv
<1> QED
  BY <1>1, <1>2

\* and always holds.
LEMMA AlwaysInv == Spec => []IInv
<1>1. Init => IInv
  BY InitInv
<1>2. IInv /\ [Next]_vars => IInv'
  BY NextInv
<1> QED
  BY <1>1, <1>2, PTL DEF Spec

\* The relay's variables stay within their types, whatever is said.
THEOREM TypeCorrect == Spec => []TypeOK
<1>1. IInv => TypeOK
  BY DEF IInv, Types, Speech, Source, TypeOK, Count
<1> QED
  BY <1>1, AlwaysInv, PTL

\* A client of any protocol sees the end of a stream exactly when its provider
\* has come to it, as the last event, and nothing of an attempt that failed
\* before its first.
THEOREM EndsWhenWhole == Spec => []EndShown
<1>1. IInv => EndShown
  BY DEF IInv
<1> QED
  BY <1>1, AlwaysInv, PTL

\* Of a stream that completes, the client is told the usage that was reported
\* last, and the same usage is recorded.
THEOREM UsageIsKept == Spec => []UsageKept
<1>1. IInv => UsageKept
  BY DEF IInv
<1> QED
  BY <1>1, AlwaysInv, PTL

-----------------------------------------------------------------------------
(* Sequences in a row.                                                     *)

\* Of any numbers one is the least.
LEMMA LeastNumber ==
  ASSUME NEW S \in SUBSET Nat, S # {}
  PROVE  \E n \in S : \A m \in S : n <= m
<1> DEFINE Below == {pair \in Nat \X Nat : pair[1] < pair[2]}
<1>1. IsWellFoundedOn(Below, Nat)
  BY NatLessThanWellFounded DEF OpToRel
<1> HIDE DEF Below
<1>2. PICK n \in S : \A m \in S : ~ (<<m, n>> \in Below)
  BY <1>1, WFMin
<1>3. \A m \in S : ~ (m < n)
  BY <1>2 DEF Below
<1> QED
  BY <1>3

\* The function that FlattenSeq is computed by.
Chain(f, g, n) == g = [i \in 1..n |-> IF i = 1 THEN f[i] ELSE g[i - 1] \o f[i]]

\* There is one,
LEMMA ChainExists ==
  ASSUME NEW f, NEW n \in Nat
  PROVE  \E g : Chain(f, g, n)
<1> DEFINE Wrong == {m \in Nat : ~(\E g : Chain(f, g, m))}
<1>1. ASSUME Wrong # {} PROVE FALSE
  <2>1. PICK m \in Wrong : \A k \in Wrong : m <= k
    <3>1. Wrong \in SUBSET Nat
      OBVIOUS
    <3> HIDE DEF Wrong
    <3> QED
      BY <3>1, <1>1, LeastNumber
  <2>2. CASE m = 0
    <3>1. Chain(f, [i \in 1..m |-> f[i]], m)
      BY <2>2 DEF Chain
    <3> QED
      BY <2>1, <3>1
  <2>3. CASE m # 0
    <3>1. m - 1 \in Nat /\ m - 1 \notin Wrong
      BY <2>1, <2>3
    <3>2. PICK g : Chain(f, g, m - 1)
      BY <3>1
    <3> DEFINE h == [i \in 1..m |->
                       IF i < m THEN g[i] ELSE IF m = 1 THEN f[m] ELSE g[m - 1] \o f[m]]
    <3>3. ASSUME NEW i \in 1..m
          PROVE  h[i] = IF i = 1 THEN f[i] ELSE h[i - 1] \o f[i]
      <4>1. CASE i < m
        <5>1. i \in 1..(m - 1) /\ (i # 1 => i - 1 \in 1..m /\ i - 1 < m)
          BY <2>1, <4>1
        <5>2. g[i] = IF i = 1 THEN f[i] ELSE g[i - 1] \o f[i]
          BY <3>2, <5>1 DEF Chain
        <5> QED
          BY <4>1, <5>1, <5>2
      <4>2. CASE i = m
        <5>1. m # 1 => m - 1 \in 1..m /\ m - 1 < m
          BY <2>1, <2>3
        <5> QED
          BY <4>2, <5>1
      <4> QED
        BY <2>1, <4>1, <4>2
    <3>4. Chain(f, h, m)
      BY <3>3 DEF Chain
    <3> HIDE DEF h
    <3> QED
      BY <2>1, <3>4
  <2> QED
    BY <2>2, <2>3
<1> QED
  BY <1>1

\* and a longer one says the same of what they have in common.
LEMMA ChainsAgree ==
  ASSUME NEW f, NEW g, NEW n \in Nat, Chain(f, g, n),
         NEW e, NEW h, NEW m \in Nat, Chain(e, h, m), n <= m,
         \A i \in 1..n : f[i] = e[i]
  PROVE  \A i \in 1..n : g[i] = h[i]
<1> DEFINE Wrong == {i \in 1..n : g[i] # h[i]}
<1>1. ASSUME Wrong # {} PROVE FALSE
  <2>1. PICK i \in Wrong : \A k \in Wrong : i <= k
    <3>1. Wrong \in SUBSET Nat
      OBVIOUS
    <3> HIDE DEF Wrong
    <3> QED
      BY <3>1, <1>1, LeastNumber
  <2>2. i \in 1..n /\ i \in 1..m /\ g[i] # h[i] /\ i \in Int
    BY <2>1
  <2>3. /\ g[i] = IF i = 1 THEN f[i] ELSE g[i - 1] \o f[i]
        /\ h[i] = IF i = 1 THEN e[i] ELSE h[i - 1] \o e[i]
    BY <2>2 DEF Chain
  <2>4. i # 1 => i - 1 \in 1..n /\ i - 1 \notin Wrong
    BY <2>1, <2>2
  <2>5. i # 1 => g[i - 1] = h[i - 1]
    BY <2>4
  <2> QED
    BY <2>2, <2>3, <2>5
<1> QED
  BY <1>1

\* What FlattenSeq gives.
LEMMA FlattenIs ==
  ASSUME NEW f, Sequence(f), NEW g, Chain(f, g, Len(f))
  PROVE  FlattenSeq(f) = IF Len(f) = 0 THEN f ELSE g[Len(f)]
<1> DEFINE chosen == CHOOSE h : Chain(f, h, Len(f))
<1>1. FlattenSeq(f) = IF Len(f) = 0 THEN f ELSE chosen[Len(f)]
  BY DEF FlattenSeq, Chain
<1>2. Chain(f, chosen, Len(f))
  OBVIOUS
<1>3. Len(f) \in Nat
  BY SequenceFacts
<1> HIDE DEF chosen
<1>4. \A i \in 1..Len(f) : g[i] = chosen[i]
  BY <1>2, <1>3, ChainsAgree
<1>5. Len(f) # 0 => Len(f) \in 1..Len(f)
  BY <1>3
<1> QED
  BY <1>1, <1>4, <1>5

\* A sequence of sequences.
Lists(f) == Sequence(f) /\ \A k \in DOMAIN f : Sequence(f[k])

\* Nothing in a row is nothing, and one more is joined at the end.
LEMMA FlattenNone == FlattenSeq(<<>>) = <<>>
BY DEF FlattenSeq

LEMMA FlattenMore ==
  ASSUME NEW f, Sequence(f), NEW x, Sequence(x)
  PROVE  FlattenSeq(Append(f, x)) = FlattenSeq(f) \o x
<1> DEFINE n == Len(f)
           e == Append(f, x)
<1>1. /\ n \in Nat /\ Sequence(e) /\ Len(e) = n + 1 /\ e[n + 1] = x
      /\ \A k \in 1..n : e[k] = f[k]
  BY Appended, SequenceFacts
<1>2. PICK g : Chain(f, g, n)
  BY <1>1, ChainExists
<1>3. PICK h : Chain(e, h, n + 1)
  BY <1>1, ChainExists
<1>4. FlattenSeq(f) = IF n = 0 THEN f ELSE g[n]
  BY <1>2, FlattenIs
<1>5. FlattenSeq(e) = h[n + 1]
  <2> HIDE DEF e
  <2>1. Chain(e, h, Len(e))
    BY <1>1, <1>3
  <2> QED
    BY <1>1, <2>1, FlattenIs
<1> HIDE DEF e
<1>6. \A i \in 1..n : g[i] = h[i]
  <2>1. n <= n + 1 /\ n + 1 \in Nat
    BY <1>1
  <2> HIDE DEF n
  <2> QED
    BY <1>1, <1>2, <1>3, <2>1, ChainsAgree
<1>7. h[n + 1] = IF n + 1 = 1 THEN e[n + 1] ELSE h[n] \o e[n + 1]
  <2>1. n + 1 \in 1..(n + 1) /\ (n + 1) - 1 = n
    BY <1>1
  <2> HIDE DEF n
  <2> QED
    BY <1>3, <2>1 DEF Chain
<1>8. CASE n = 0
  <2>1. f = <<>>
    BY <1>8 DEF Sequence
  <2> QED
    BY <1>1, <1>4, <1>5, <1>7, <1>8, <2>1, NothingBefore DEF e
<1>9. CASE n # 0
  <2>1. n \in 1..n /\ n + 1 # 1
    BY <1>1, <1>9
  <2> QED
    BY <1>1, <1>4, <1>5, <1>6, <1>7, <1>9, <2>1 DEF e
<1> QED
  BY <1>8, <1>9 DEF e

\* One alone is itself.
LEMMA FlattenOne ==
  ASSUME NEW x, Sequence(x)
  PROVE  FlattenSeq(<<x>>) = x
<1>1. <<x>> = Append(<<>>, x)
  OBVIOUS
<1>2. Sequence(<<>>)
  BY Short
<1>3. FlattenSeq(Append(<<>>, x)) = FlattenSeq(<<>>) \o x
  BY <1>2, FlattenMore
<1>4. <<>> \o x = x
  BY NothingBefore
<1> QED
  BY <1>1, <1>3, <1>4, FlattenNone

\* A sequence without its last element, and the element.
LEMMA LastOff ==
  ASSUME NEW s, Sequence(s), s # <<>>
  PROVE  \E t : /\ Sequence(t) /\ s = Append(t, s[Len(s)]) /\ Len(t) = Len(s) - 1
                /\ \A k \in 1..Len(t) : t[k] = s[k]
<1> DEFINE S == ToSet(s)
<1>1. s \in Seq(S)
  BY DEF Sequence
<1> HIDE DEF S
<1>2. PICK t \in Seq(S), x \in S : s = Append(t, x)
  BY <1>1, SequenceEmptyOrAppend
<1>3. /\ Len(s) = Len(t) + 1 /\ s[Len(t) + 1] = x /\ Len(t) \in Nat
      /\ \A k \in 1..Len(t) : s[k] = t[k]
  BY <1>2
<1>4. Sequence(t)
  BY <1>2, SequenceOf
<1> QED
  BY <1>2, <1>3, <1>4

\* Sequences in a row are a sequence,
LEMMA FlattenSequence ==
  ASSUME NEW f, Lists(f)
  PROVE  Sequence(FlattenSeq(f))
<1> DEFINE P(n) == \A e : Lists(e) /\ Len(e) = n => Sequence(FlattenSeq(e))
           Wrong == {n \in Nat : ~P(n)}
<1>1. ASSUME Wrong # {} PROVE FALSE
  <2>1. PICK n \in Wrong : \A k \in Wrong : n <= k
    <3>1. Wrong \in SUBSET Nat
      OBVIOUS
    <3> HIDE DEF Wrong
    <3> QED
      BY <3>1, <1>1, LeastNumber
  <2>2. PICK e : Lists(e) /\ Len(e) = n /\ ~Sequence(FlattenSeq(e))
    BY <2>1
  <2>3. e # <<>>
    BY <2>2, FlattenNone, Short
  <2>4. PICK t : /\ Sequence(t) /\ e = Append(t, e[Len(e)]) /\ Len(t) = Len(e) - 1
                 /\ \A k \in 1..Len(t) : t[k] = e[k]
    BY <2>2, <2>3, LastOff DEF Lists
  <2>5. /\ DOMAIN e = 1..n /\ DOMAIN t = 1..(n - 1) /\ n \in Nat /\ n - 1 \in Nat
        /\ n \in DOMAIN e
    BY <2>1, <2>2, <2>4, SequenceFacts DEF Lists
  <2>6. Lists(t) /\ Sequence(e[n])
    BY <2>2, <2>4, <2>5 DEF Lists
  <2>7. Sequence(FlattenSeq(t))
    <3>1. n - 1 \notin Wrong
      BY <2>1, <2>5
    <3> QED
      BY <2>2, <2>4, <2>5, <2>6, <3>1
  <2>8. FlattenSeq(e) = FlattenSeq(t) \o e[n]
    BY <2>2, <2>4, <2>6, FlattenMore DEF Lists
  <2> QED
    BY <2>2, <2>6, <2>7, <2>8, Joined
<1>2. Len(f) \in Nat
  BY SequenceFacts DEF Lists
<1> QED
  BY <1>1, <1>2

\* and rows of them are joined.
LEMMA FlattenJoined ==
  ASSUME NEW f, Lists(f), NEW g, Lists(g)
  PROVE  FlattenSeq(f \o g) = FlattenSeq(f) \o FlattenSeq(g)
<1> DEFINE P(n) == \A e : Lists(e) /\ Len(e) = n =>
                            FlattenSeq(f \o e) = FlattenSeq(f) \o FlattenSeq(e)
           Wrong == {n \in Nat : ~P(n)}
<1>1. ASSUME Wrong # {} PROVE FALSE
  <2>1. PICK n \in Wrong : \A k \in Wrong : n <= k
    <3>1. Wrong \in SUBSET Nat
      OBVIOUS
    <3> HIDE DEF Wrong
    <3> QED
      BY <3>1, <1>1, LeastNumber
  <2>2. PICK e : /\ Lists(e) /\ Len(e) = n
                 /\ FlattenSeq(f \o e) # FlattenSeq(f) \o FlattenSeq(e)
    BY <2>1
  <2>3. Sequence(FlattenSeq(f)) /\ Sequence(f)
    BY FlattenSequence DEF Lists
  <2>4. e # <<>>
    BY <2>2, <2>3, FlattenNone, NothingBefore
  <2>5. PICK t : /\ Sequence(t) /\ e = Append(t, e[Len(e)]) /\ Len(t) = Len(e) - 1
                 /\ \A k \in 1..Len(t) : t[k] = e[k]
    BY <2>2, <2>4, LastOff DEF Lists
  <2>6. /\ DOMAIN e = 1..n /\ DOMAIN t = 1..(n - 1) /\ n \in Nat /\ n - 1 \in Nat
        /\ n \in DOMAIN e
    BY <2>1, <2>2, <2>5, SequenceFacts DEF Lists
  <2>7. Lists(t) /\ Sequence(e[n])
    BY <2>2, <2>5, <2>6 DEF Lists
  <2> DEFINE x == e[n]
  <2>8. FlattenSeq(f \o t) = FlattenSeq(f) \o FlattenSeq(t)
    <3>1. n - 1 \notin Wrong
      BY <2>1, <2>6
    <3> QED
      BY <2>2, <2>5, <2>6, <2>7, <3>1
  <2>9. FlattenSeq(e) = FlattenSeq(t) \o x
    BY <2>2, <2>5, <2>7, FlattenMore DEF Lists
  <2>10. e = Append(t, x) /\ Sequence(x)
    BY <2>2, <2>5, <2>7
  <2> HIDE DEF x
  <2>11. f \o e = Append(f \o t, x) /\ Sequence(f \o t)
    <3>1. Sequence(f \o t) /\ Sequence(<<x>>)
      BY <2>3, <2>5, Joined, Short
    <3>2. e = t \o <<x>> /\ Append(f \o t, x) = (f \o t) \o <<x>>
      BY <2>5, <2>10, <3>1, OneJoined
    <3> QED
      BY <2>3, <2>5, <3>1, <3>2, ThreeJoined, SMTT(30)
  <2>12. FlattenSeq(f \o e) = FlattenSeq(f \o t) \o x
    BY <2>10, <2>11, FlattenMore
  <2>13. Sequence(FlattenSeq(t))
    BY <2>7, FlattenSequence
  <2> QED
    BY <2>2, <2>3, <2>8, <2>9, <2>10, <2>12, <2>13, ThreeJoined, SMTT(30)
<1>2. Len(g) \in Nat
  BY SequenceFacts DEF Lists
<1> QED
  BY <1>1, <1>2

\* A row of nothing is nothing,
LEMMA FlattenNothing ==
  ASSUME NEW f, Sequence(f), \A k \in DOMAIN f : f[k] = <<>>
  PROVE  FlattenSeq(f) = <<>>
<1> DEFINE P(n) == \A e : Sequence(e) /\ (\A k \in DOMAIN e : e[k] = <<>>) /\ Len(e) = n
                            => FlattenSeq(e) = <<>>
           Wrong == {n \in Nat : ~P(n)}
<1>1. ASSUME Wrong # {} PROVE FALSE
  <2>1. PICK n \in Wrong : \A k \in Wrong : n <= k
    <3>1. Wrong \in SUBSET Nat
      OBVIOUS
    <3> HIDE DEF Wrong
    <3> QED
      BY <3>1, <1>1, LeastNumber
  <2>2. PICK e : /\ Sequence(e) /\ (\A k \in DOMAIN e : e[k] = <<>>) /\ Len(e) = n
                 /\ FlattenSeq(e) # <<>>
    BY <2>1
  <2>3. e # <<>>
    BY <2>2, FlattenNone
  <2>4. PICK t : /\ Sequence(t) /\ e = Append(t, e[Len(e)]) /\ Len(t) = Len(e) - 1
                 /\ \A k \in 1..Len(t) : t[k] = e[k]
    BY <2>2, <2>3, LastOff
  <2>5. /\ DOMAIN e = 1..n /\ DOMAIN t = 1..(n - 1) /\ n \in Nat /\ n - 1 \in Nat
        /\ n \in DOMAIN e
    BY <2>1, <2>2, <2>4, SequenceFacts
  <2>6. (\A k \in DOMAIN t : t[k] = <<>>) /\ e[n] = <<>>
    BY <2>2, <2>4, <2>5
  <2>7. FlattenSeq(t) = <<>>
    <3>1. n - 1 \notin Wrong
      BY <2>1, <2>5
    <3> QED
      BY <2>2, <2>4, <2>5, <2>6, <3>1
  <2>8. FlattenSeq(e) = FlattenSeq(t) \o <<>>
    <3> DEFINE x == e[n]
    <3>1. Sequence(x) /\ e = Append(t, x) /\ x = <<>>
      BY <2>2, <2>4, <2>6, Short
    <3> HIDE DEF x
    <3> QED
      BY <2>4, <3>1, FlattenMore
  <2> QED
    BY <2>2, <2>7, <2>8, NothingBefore, Short
<1>2. Len(f) \in Nat
  BY SequenceFacts
<1> QED
  BY <1>1, <1>2

\* and a row of single elements is the sequence of them.
LEMMA FlattenSingles ==
  ASSUME NEW f, Sequence(f), NEW s, Sequence(s), Len(s) = Len(f),
         \A k \in DOMAIN f : f[k] = <<s[k]>>
  PROVE  FlattenSeq(f) = s
<1> DEFINE P(n) == \A e, r : /\ Sequence(e) /\ Sequence(r) /\ Len(e) = n /\ Len(r) = n
                             /\ \A k \in DOMAIN e : e[k] = <<r[k]>>
                             => FlattenSeq(e) = r
           Wrong == {n \in Nat : ~P(n)}
<1>1. ASSUME Wrong # {} PROVE FALSE
  <2>1. PICK n \in Wrong : \A k \in Wrong : n <= k
    <3>1. Wrong \in SUBSET Nat
      OBVIOUS
    <3> HIDE DEF Wrong
    <3> QED
      BY <3>1, <1>1, LeastNumber
  <2>2. PICK e, r : /\ Sequence(e) /\ Sequence(r) /\ Len(e) = n /\ Len(r) = n
                    /\ \A k \in DOMAIN e : e[k] = <<r[k]>>
                    /\ FlattenSeq(e) # r
    BY <2>1
  <2>3. e # <<>> /\ r # <<>>
    <3>1. ASSUME n = 0 PROVE FALSE
      <4>1. e = <<>> /\ r = <<>>
        BY <2>2, <3>1 DEF Sequence
      <4> QED
        BY <2>2, <4>1, FlattenNone
    <3> QED
      BY <2>2, <3>1, Short
  <2>4. PICK t : /\ Sequence(t) /\ e = Append(t, e[Len(e)]) /\ Len(t) = Len(e) - 1
                 /\ \A k \in 1..Len(t) : t[k] = e[k]
    BY <2>2, <2>3, LastOff
  <2>5. PICK q : /\ Sequence(q) /\ r = Append(q, r[Len(r)]) /\ Len(q) = Len(r) - 1
                 /\ \A k \in 1..Len(q) : q[k] = r[k]
    BY <2>2, <2>3, LastOff
  <2>6. /\ DOMAIN e = 1..n /\ DOMAIN t = 1..(n - 1) /\ n \in Nat /\ n - 1 \in Nat
        /\ n \in DOMAIN e /\ Len(q) = n - 1 /\ Len(t) = n - 1
    <3>1. Len(t) \in Nat /\ DOMAIN t = 1..Len(t) /\ DOMAIN e = 1..Len(e)
      BY <2>2, <2>4, SequenceFacts
    <3> QED
      BY <2>1, <2>2, <2>4, <2>5, <3>1
  <2>7. (\A k \in DOMAIN t : t[k] = <<q[k]>>) /\ e[n] = <<r[n]>>
    BY <2>2, <2>4, <2>5, <2>6
  <2>8. FlattenSeq(t) = q
    <3>1. n - 1 \notin Wrong
      BY <2>1, <2>6
    <3> QED
      BY <2>4, <2>5, <2>6, <2>7, <3>1
  <2>9. FlattenSeq(e) = FlattenSeq(t) \o <<r[n]>>
    <3> DEFINE x == e[n]
    <3>1. Sequence(x) /\ e = Append(t, x) /\ x = <<r[n]>>
      BY <2>2, <2>4, <2>7, Short
    <3> HIDE DEF x
    <3> QED
      BY <2>4, <3>1, FlattenMore
  <2> QED
    BY <2>2, <2>5, <2>8, <2>9, OneJoined
<1>2. Len(f) \in Nat
  BY SequenceFacts
<1> QED
  BY <1>1, <1>2

-----------------------------------------------------------------------------
(* Transcripts, and what is read of them.                                  *)

\* Two sequences of the same elements are the same.
LEMMA SameSequence ==
  ASSUME NEW s, NEW t, Sequence(s), Sequence(t), Len(s) = Len(t),
         \A k \in 1..Len(s) : s[k] = t[k]
  PROVE  s = t
<1>1. PICK S : s \in Seq(S) /\ t \in Seq(S)
  BY InCommon
<1> QED
  BY <1>1, SeqEqual

\* What is numbered is a sequence.
LEMMA Numbered ==
  ASSUME NEW f, NEW n \in Nat, f = [k \in 1..n |-> f[k]]
  PROVE  Sequence(f) /\ Len(f) = n /\ DOMAIN f = 1..n
<1>1. f \in [1..n -> ToSet(f)]
  BY DEF ToSet
<1>2. f \in Seq(ToSet(f))
  BY <1>1, SeqDef
<1>3. Sequence(f)
  BY <1>2 DEF Sequence
<1>4. DOMAIN f = 1..n /\ DOMAIN f = 1..Len(f) /\ Len(f) \in Nat
  BY <1>3, SequenceFacts
<1> QED
  BY <1>3, <1>4

\* What is one sequence and then the other is the two in a row.
LEMMA MadeOfBoth ==
  ASSUME NEW f, NEW g, NEW h, Sequence(f), Sequence(g), Sequence(h),
         Len(h) = Len(f) + Len(g),
         \A k \in 1..Len(f) : h[k] = f[k],
         \A k \in 1..Len(g) : h[Len(f) + k] = g[k]
  PROVE  h = f \o g
<1>1. Len(f) \in Nat /\ Len(g) \in Nat
  BY SequenceFacts
<1>2. /\ Sequence(f \o g) /\ Len(f \o g) = Len(f) + Len(g)
      /\ \A k \in 1..(Len(f) + Len(g)) :
           (f \o g)[k] = IF k <= Len(f) THEN f[k] ELSE g[k - Len(f)]
  BY Joined
<1>3. ASSUME NEW k \in 1..(Len(f) + Len(g))
      PROVE  h[k] = (f \o g)[k]
  <2>1. CASE k <= Len(f)
    <3>1. k \in 1..Len(f) /\ (f \o g)[k] = f[k]
      BY <1>1, <1>2, <2>1
    <3> QED
      BY <3>1
  <2>2. CASE ~(k <= Len(f))
    <3>1. k - Len(f) \in 1..Len(g) /\ Len(f) + (k - Len(f)) = k
      BY <1>1, <2>2
    <3>2. h[Len(f) + (k - Len(f))] = g[k - Len(f)]
      BY <3>1
    <3>3. (f \o g)[k] = g[k - Len(f)]
      BY <1>2, <2>2
    <3> QED
      BY <3>1, <3>2, <3>3
  <2> QED
    BY <2>1, <2>2
<1>4. \A k \in 1..Len(h) : h[k] = (f \o g)[k]
  BY <1>3
<1> QED
  BY <1>2, <1>4, SameSequence

\* Events whose transcript can be put together.
Sayings(events) ==
  Sequence(events) /\ \A k \in DOMAIN events : Sequence(SaidBy(events[k]))

\* The transcript of nothing, of one event and of events in a row.
LEMMA TranscriptNone == Transcript(<<>>) = <<>> /\ Sayings(<<>>)
BY FlattenNone, Short DEF Transcript, Each, Sayings

LEMMA TranscriptSequence ==
  ASSUME NEW events, Sayings(events)
  PROVE  Sequence(Transcript(events))
<1> DEFINE f == [k \in DOMAIN events |-> SaidBy(events[k])]
<1>1. Len(events) \in Nat /\ DOMAIN events = 1..Len(events)
  BY SequenceFacts DEF Sayings
<1>2. f = [k \in 1..Len(events) |-> f[k]] /\ \A k \in DOMAIN f : Sequence(f[k])
  BY <1>1 DEF Sayings
<1>3. Transcript(events) = FlattenSeq(f)
  BY DEF Transcript, Each
<1> HIDE DEF f
<1>4. Lists(f)
  BY <1>1, <1>2, Numbered DEF Lists
<1> QED
  BY <1>3, <1>4, FlattenSequence

LEMMA TranscriptOne ==
  ASSUME NEW e, Sequence(SaidBy(e))
  PROVE  Transcript(<<e>>) = SaidBy(e) /\ Sayings(<<e>>)
<1>1. Sayings(<<e>>)
  BY Short DEF Sayings
<1>2. [k \in DOMAIN <<e>> |-> SaidBy(<<e>>[k])] = <<SaidBy(e)>>
  <2> DEFINE f == [k \in DOMAIN <<e>> |-> SaidBy(<<e>>[k])]
             x == SaidBy(e)
  <2>1. DOMAIN <<e>> = 1..1 /\ <<e>>[1] = e /\ 1 \in Nat
    OBVIOUS
  <2>2. f = [k \in 1..1 |-> f[k]] /\ f[1] = x
    BY <2>1
  <2> HIDE DEF f, x
  <2>3. Sequence(f) /\ Len(f) = 1
    BY <2>1, <2>2, Numbered
  <2>4. Sequence(<<x>>) /\ Len(<<x>>) = 1 /\ <<x>>[1] = x
    BY Short
  <2>5. \A k \in 1..Len(f) : f[k] = <<x>>[k]
    BY <2>2, <2>3, <2>4
  <2>6. f = <<x>>
    BY <2>3, <2>4, <2>5, SameSequence
  <2> QED
    BY <2>6 DEF f, x
<1>3. FlattenSeq(<<SaidBy(e)>>) = SaidBy(e)
  BY FlattenOne
<1> QED
  BY <1>1, <1>2, <1>3 DEF Transcript, Each

LEMMA TranscriptJoined ==
  ASSUME NEW s, NEW t, Sayings(s), Sayings(t)
  PROVE  Transcript(s \o t) = Transcript(s) \o Transcript(t) /\ Sayings(s \o t)
<1> DEFINE f == [k \in DOMAIN s |-> SaidBy(s[k])]
           g == [k \in DOMAIN t |-> SaidBy(t[k])]
           h == [k \in DOMAIN (s \o t) |-> SaidBy((s \o t)[k])]
<1>1. /\ Sequence(s) /\ Sequence(t) /\ Sequence(s \o t)
      /\ Len(s) \in Nat /\ DOMAIN s = 1..Len(s) /\ Len(t) \in Nat /\ DOMAIN t = 1..Len(t)
      /\ DOMAIN (s \o t) = 1..(Len(s) + Len(t))
      /\ \A k \in 1..(Len(s) + Len(t)) :
           (s \o t)[k] = IF k <= Len(s) THEN s[k] ELSE t[k - Len(s)]
  BY SequenceFacts, Joined DEF Sayings
<1>2. \A k \in DOMAIN s : h[k] = f[k]
  BY <1>1
<1>3. ASSUME NEW k \in DOMAIN t PROVE h[Len(s) + k] = g[k]
  <2>1. /\ Len(s) + k \in 1..(Len(s) + Len(t)) /\ ~(Len(s) + k <= Len(s))
        /\ (Len(s) + k) - Len(s) = k
    BY <1>1
  <2>2. (s \o t)[Len(s) + k] = t[k]
    BY <1>1, <2>1
  <2> QED
    BY <1>1, <2>1, <2>2
<1>4. /\ f = [k \in DOMAIN s |-> f[k]] /\ g = [k \in DOMAIN t |-> g[k]]
      /\ h = [k \in DOMAIN (s \o t) |-> h[k]]
  OBVIOUS
<1>5. (\A k \in DOMAIN f : Sequence(f[k])) /\ (\A k \in DOMAIN g : Sequence(g[k]))
  BY DEF Sayings
<1>6. /\ Transcript(s) = FlattenSeq(f) /\ Transcript(t) = FlattenSeq(g)
      /\ Transcript(s \o t) = FlattenSeq(h)
  BY DEF Transcript, Each
<1>7. Sayings(s \o t)
  <2>1. ASSUME NEW k \in DOMAIN (s \o t) PROVE Sequence(SaidBy((s \o t)[k]))
    <3>1. CASE k <= Len(s)
      <4>1. k \in DOMAIN s /\ (s \o t)[k] = s[k]
        BY <1>1, <3>1
      <4> QED
        BY <4>1 DEF Sayings
    <3>2. CASE ~(k <= Len(s))
      <4>1. k - Len(s) \in DOMAIN t /\ (s \o t)[k] = t[k - Len(s)]
        BY <1>1, <3>2
      <4> QED
        BY <4>1 DEF Sayings
    <3> QED
      BY <3>1, <3>2
  <2> QED
    BY <1>1, <2>1 DEF Sayings
<1> HIDE DEF f, g, h
<1>8. h = f \o g /\ Sequence(f) /\ Sequence(g)
  <2>1. Len(s) + Len(t) \in Nat /\ h = [k \in 1..(Len(s) + Len(t)) |-> h[k]]
    BY <1>1, <1>4
  <2>2. f = [k \in 1..Len(s) |-> f[k]] /\ g = [k \in 1..Len(t) |-> g[k]]
    BY <1>1, <1>4
  <2>3. Sequence(f) /\ Len(f) = Len(s) /\ Sequence(g) /\ Len(g) = Len(t)
    BY <1>1, <2>2, Numbered
  <2>4. Sequence(h) /\ Len(h) = Len(f) + Len(g)
    BY <2>1, <2>3, Numbered
  <2>5. \A k \in 1..Len(f) : h[k] = f[k]
    BY <1>1, <1>2, <2>3
  <2>6. \A k \in 1..Len(g) : h[Len(f) + k] = g[k]
    BY <1>1, <1>3, <2>3
  <2> QED
    BY <2>3, <2>4, <2>5, <2>6, MadeOfBoth
<1>9. Lists(f) /\ Lists(g)
  BY <1>5, <1>8 DEF Lists
<1> QED
  BY <1>6, <1>7, <1>8, <1>9, FlattenJoined

LEMMA TranscriptMore ==
  ASSUME NEW s, Sayings(s), NEW e, Sequence(SaidBy(e))
  PROVE  Transcript(Append(s, e)) = Transcript(s) \o SaidBy(e) /\ Sayings(Append(s, e))
<1>1. Append(s, e) = s \o <<e>>
  BY OneJoined DEF Sayings
<1>2. Transcript(<<e>>) = SaidBy(e) /\ Sayings(<<e>>)
  BY TranscriptOne
<1> QED
  BY <1>1, <1>2, TranscriptJoined

\* What is read of a transcript: the pieces of one kind, of one call, under
\* one key, and what of a kind has been opened.
Ways == {"kind", "call", "key", "open"}
Reads(by, of, u) ==
  CASE by = "kind" -> IF u.act = "piece" /\ u.kind = of THEN <<u.what>> ELSE <<>>
    [] by = "call" ->
         IF u.act = "piece" /\ u.kind = "call" /\ u.key = of THEN <<u.what>> ELSE <<>>
    [] by = "key" -> IF u.act = "piece" /\ u.key = of THEN <<u.what>> ELSE <<>>
    [] by = "open" -> IF u.act = "open" /\ u.kind = of THEN <<u>> ELSE <<>>
ReadOf(by, of, said) == FlattenSeq([k \in DOMAIN said |-> Reads(by, of, said[k])])

\* Little is read of each element.
LEMMA ReadsLittle ==
  ASSUME NEW by \in Ways, NEW of, NEW u
  PROVE  Sequence(Reads(by, of, u))
<1>1. \/ Reads(by, of, u) = <<>>
      \/ Reads(by, of, u) = <<u.what>>
      \/ Reads(by, of, u) = <<u>>
  BY DEF Reads, Ways
<1> QED
  BY <1>1, Short

\* What is read of nothing, and of more.
LEMMA ReadNone == \A by, of : ReadOf(by, of, <<>>) = <<>>
BY FlattenNone DEF ReadOf

LEMMA ReadSequence ==
  ASSUME NEW by \in Ways, NEW of, NEW said, Sequence(said)
  PROVE  Sequence(ReadOf(by, of, said))
<1> DEFINE f == [k \in DOMAIN said |-> Reads(by, of, said[k])]
<1>1. Len(said) \in Nat /\ DOMAIN said = 1..Len(said)
  BY SequenceFacts
<1>2. f = [k \in 1..Len(said) |-> f[k]] /\ \A k \in DOMAIN f : Sequence(f[k])
  BY <1>1, ReadsLittle
<1>3. ReadOf(by, of, said) = FlattenSeq(f)
  BY DEF ReadOf
<1> HIDE DEF f
<1>4. Lists(f)
  BY <1>1, <1>2, Numbered DEF Lists
<1> QED
  BY <1>3, <1>4, FlattenSequence

LEMMA ReadJoined ==
  ASSUME NEW by \in Ways, NEW of, NEW s, NEW t, Sequence(s), Sequence(t)
  PROVE  ReadOf(by, of, s \o t) = ReadOf(by, of, s) \o ReadOf(by, of, t)
<1> DEFINE f == [k \in DOMAIN s |-> Reads(by, of, s[k])]
           g == [k \in DOMAIN t |-> Reads(by, of, t[k])]
           h == [k \in DOMAIN (s \o t) |-> Reads(by, of, (s \o t)[k])]
<1>1. /\ Len(s) \in Nat /\ DOMAIN s = 1..Len(s) /\ Len(t) \in Nat /\ DOMAIN t = 1..Len(t)
      /\ Sequence(s \o t) /\ DOMAIN (s \o t) = 1..(Len(s) + Len(t))
      /\ \A k \in 1..(Len(s) + Len(t)) :
           (s \o t)[k] = IF k <= Len(s) THEN s[k] ELSE t[k - Len(s)]
  BY SequenceFacts, Joined
<1>2. \A k \in DOMAIN s : h[k] = f[k]
  BY <1>1
<1>3. ASSUME NEW k \in DOMAIN t PROVE h[Len(s) + k] = g[k]
  <2>1. /\ Len(s) + k \in 1..(Len(s) + Len(t)) /\ ~(Len(s) + k <= Len(s))
        /\ (Len(s) + k) - Len(s) = k
    BY <1>1
  <2>2. (s \o t)[Len(s) + k] = t[k]
    BY <1>1, <2>1
  <2> QED
    BY <1>1, <2>1, <2>2
<1>4. /\ f = [k \in DOMAIN s |-> f[k]] /\ g = [k \in DOMAIN t |-> g[k]]
      /\ h = [k \in DOMAIN (s \o t) |-> h[k]]
  OBVIOUS
<1>5. (\A k \in DOMAIN f : Sequence(f[k])) /\ (\A k \in DOMAIN g : Sequence(g[k]))
  BY ReadsLittle
<1>6. /\ ReadOf(by, of, s) = FlattenSeq(f) /\ ReadOf(by, of, t) = FlattenSeq(g)
      /\ ReadOf(by, of, s \o t) = FlattenSeq(h)
  BY DEF ReadOf
<1> HIDE DEF f, g, h
<1>7. h = f \o g /\ Sequence(f) /\ Sequence(g)
  <2>1. Len(s) + Len(t) \in Nat /\ h = [k \in 1..(Len(s) + Len(t)) |-> h[k]]
    BY <1>1, <1>4
  <2>2. f = [k \in 1..Len(s) |-> f[k]] /\ g = [k \in 1..Len(t) |-> g[k]]
    BY <1>1, <1>4
  <2>3. Sequence(f) /\ Len(f) = Len(s) /\ Sequence(g) /\ Len(g) = Len(t)
    BY <1>1, <2>2, Numbered
  <2>4. Sequence(h) /\ Len(h) = Len(f) + Len(g)
    BY <2>1, <2>3, Numbered
  <2>5. \A k \in 1..Len(f) : h[k] = f[k]
    BY <1>1, <1>2, <2>3
  <2>6. \A k \in 1..Len(g) : h[Len(f) + k] = g[k]
    BY <1>1, <1>3, <2>3
  <2> QED
    BY <2>3, <2>4, <2>5, <2>6, MadeOfBoth
<1>8. Lists(f) /\ Lists(g)
  BY <1>5, <1>7 DEF Lists
<1> QED
  BY <1>6, <1>7, <1>8, FlattenJoined

LEMMA ReadOne ==
  ASSUME NEW by \in Ways, NEW of, NEW u
  PROVE  ReadOf(by, of, <<u>>) = Reads(by, of, u)
<1> DEFINE f == [k \in DOMAIN <<u>> |-> Reads(by, of, <<u>>[k])]
           x == Reads(by, of, u)
<1>1. DOMAIN <<u>> = 1..1 /\ <<u>>[1] = u /\ 1 \in Nat
  OBVIOUS
<1>2. f = [k \in 1..1 |-> f[k]] /\ f[1] = x
  BY <1>1
<1>3. ReadOf(by, of, <<u>>) = FlattenSeq(f)
  BY DEF ReadOf
<1>4. Sequence(x)
  BY ReadsLittle
<1> HIDE DEF f, x
<1>5. Sequence(f) /\ Len(f) = 1
  BY <1>1, <1>2, Numbered
<1>6. Sequence(<<x>>) /\ Len(<<x>>) = 1 /\ <<x>>[1] = x
  BY Short
<1>7. \A k \in 1..Len(f) : f[k] = <<x>>[k]
  BY <1>2, <1>5, <1>6
<1>8. f = <<x>>
  BY <1>5, <1>6, <1>7, SameSequence
<1>9. FlattenSeq(<<x>>) = x
  BY <1>4, FlattenOne
<1> QED
  BY <1>3, <1>8, <1>9 DEF x

LEMMA ReadMore ==
  ASSUME NEW by \in Ways, NEW of, NEW said, Sequence(said), NEW u
  PROVE  ReadOf(by, of, said \o <<u>>) = ReadOf(by, of, said) \o Reads(by, of, u)
<1>1. Sequence(<<u>>)
  BY Short
<1> QED
  BY <1>1, ReadJoined, ReadOne

\* Nothing is read of what says nothing of it.
LEMMA ReadNothing ==
  ASSUME NEW by \in Ways, NEW of, NEW said, Sequence(said),
         \A k \in DOMAIN said : Reads(by, of, said[k]) = <<>>
  PROVE  ReadOf(by, of, said) = <<>>
<1> DEFINE f == [k \in DOMAIN said |-> Reads(by, of, said[k])]
<1>1. Len(said) \in Nat /\ DOMAIN said = 1..Len(said)
  BY SequenceFacts
<1>2. f = [k \in 1..Len(said) |-> f[k]] /\ \A k \in DOMAIN f : f[k] = <<>>
  BY <1>1
<1>3. ReadOf(by, of, said) = FlattenSeq(f)
  BY DEF ReadOf
<1> HIDE DEF f
<1>4. Sequence(f)
  BY <1>1, <1>2, Numbered
<1> QED
  BY <1>2, <1>3, <1>4, FlattenNothing

\* The answer in a stream is read of its transcript.
CallsIn(said) == ReadOf("open", "call", said)
AnswerIn(said) ==
  [ thought |-> ReadOf("kind", "thought", said),
    text |-> ReadOf("kind", "text", said),
    calls |-> [k \in DOMAIN CallsIn(said) |->
                 <<CallsIn(said)[k].what, ReadOf("call", CallsIn(said)[k].key, said)>>] ]
LEMMA AnswerIs ==
  ASSUME NEW events
  PROVE  Answer(events) = AnswerIn(Transcript(events))
<1> DEFINE said == Transcript(events)
           calls == Each(said, LAMBDA u :
                           IF u.act = "open" /\ u.kind = "call" THEN <<u>> ELSE <<>>)
<1>1. calls = CallsIn(said)
  BY DEF CallsIn, ReadOf, Reads, Each
<1>2. PiecesIn(said, LAMBDA u : u.kind = "thought") = ReadOf("kind", "thought", said)
  BY DEF PiecesIn, ReadOf, Reads, Each
<1>3. PiecesIn(said, LAMBDA u : u.kind = "text") = ReadOf("kind", "text", said)
  BY DEF PiecesIn, ReadOf, Reads, Each
<1>4. ASSUME NEW c
      PROVE  PiecesIn(said, LAMBDA u : u.kind = "call" /\ u.key = c) = ReadOf("call", c, said)
  BY DEF PiecesIn, ReadOf, Reads, Each
<1>5. Answer(events) =
        [ thought |-> PiecesIn(said, LAMBDA u : u.kind = "thought"),
          text |-> PiecesIn(said, LAMBDA u : u.kind = "text"),
          calls |-> [k \in DOMAIN calls |->
                       <<calls[k].what,
                         PiecesIn(said, LAMBDA u : u.kind = "call" /\ u.key = calls[k].key)>>] ]
  BY DEF Answer
<1>6. [k \in DOMAIN calls |->
         <<calls[k].what,
           PiecesIn(said, LAMBDA u : u.kind = "call" /\ u.key = calls[k].key)>>]
      = [k \in DOMAIN calls |-> <<calls[k].what, ReadOf("call", calls[k].key, said)>>]
  BY <1>4
<1> HIDE DEF said, calls
<1> QED
  BY <1>1, <1>2, <1>3, <1>5, <1>6 DEF AnswerIn, said

-----------------------------------------------------------------------------
(* What a transcript opens and closes, and what it says.                   *)

\* The keys it opens and closes, and the kinds of what it says.
KeysIn(act, said) == {said[k].key : k \in {k \in DOMAIN said : said[k].act = act}}
Opened(said) == KeysIn("open", said)
Closed(said) == KeysIn("close", said)
KindsIn(said) == {said[k].kind : k \in {k \in DOMAIN said : said[k].act # "close"}}

\* What may be said after it, in a stream that opens and closes what it speaks
\* in; a loose one, Chat's, opens calls alone.
MaySay(said, u, loose) ==
  \/ u.act = "open" /\ u.key \notin Opened(said)
  \/ u.act # "open" /\ u.key \in Opened(said) /\ u.key \notin Closed(said)
  \/ loose /\ u.kind # "call"
Framed(said, loose) ==
  \A i \in DOMAIN said :
    \/ said[i].act = "open" /\ Unopened(said, i)
    \/ said[i].act # "open" /\ ~Unopened(said, i) /\ Unclosed(said, i)
    \/ loose /\ said[i].kind # "call"

\* Calls are opened under keys of their own before they are spoken in.
Apart(calls) == \A k, l \in DOMAIN calls : calls[k].key = calls[l].key => k = l
Well(said) ==
  /\ Sequence(said) /\ Apart(CallsIn(said))
  /\ \A k \in DOMAIN CallsIn(said) : CallsIn(said)[k].key \in Opened(said)
  /\ \A key : key \notin Opened(said) => ReadOf("call", key, said) = <<>>

\* Two transcripts give the same answer, but perhaps for its thoughts.
SameCall(said, k, heard) ==
  /\ CallsIn(said)[k].what = CallsIn(heard)[k].what
  /\ ReadOf("call", CallsIn(said)[k].key, said) = ReadOf("call", CallsIn(heard)[k].key, heard)
Agrees(said, heard, thinks) ==
  /\ Well(said) /\ Well(heard)
  /\ ReadOf("kind", "thought", said)
       = IF thinks THEN ReadOf("kind", "thought", heard) ELSE <<>>
  /\ ReadOf("kind", "text", said) = ReadOf("kind", "text", heard)
  /\ Len(CallsIn(said)) = Len(CallsIn(heard))
  /\ \A k \in 1..Len(CallsIn(heard)) : SameCall(said, k, heard)

-----------------------------------------------------------------------------
(* What the relay has heard, as chunks would say it: h.                    *)

\* Its n calls are numbered.
Heeds(h, n) ==
  /\ Well(h) /\ Framed(h, TRUE) /\ Opened(h) = 0..(n - 1) /\ Closed(h) = {}
  /\ n \in Nat /\ Len(CallsIn(h)) = n
  /\ \A k \in 1..n : CallsIn(h)[k].key = k - 1
  /\ n > 0 => "call" \in KindsIn(h)

\* The source knows which call an item or a block is.
ItemKinds == {"reasoning", "message", "function_call"}
KeyOf(said, k) == CallsIn(said)[k].key
KnowsItems(said, src, sp) ==
  LET n == sp.calls IN
  /\ \A k \in 1..n : KeyOf(said, k) \in DOMAIN src.calls /\ src.calls[KeyOf(said, k)] = k - 1
  /\ \A i \in DOMAIN src.calls : \E k \in 1..n : KeyOf(said, k) = i
  /\ IsFiniteSet(DOMAIN src.calls) /\ Cardinality(DOMAIN src.calls) = n
  /\ \A o \in Opened(said) : o.n \in 0..(sp.parts - 1)
  /\ sp.open # None =>
       /\ sp.parts > 0 /\ \E kind \in ItemKinds : sp.open = Item(kind, sp.parts - 1)
       /\ sp.open.kind = "function_call" => sp.open \in DOMAIN src.calls
KnowsBlocks(said, src, sp) ==
  LET n == sp.calls IN
  /\ src.next = n /\ DOMAIN src.blocks = 0..(sp.parts - 1)
  /\ \A k \in 1..n :
       /\ KeyOf(said, k) \in DOMAIN src.blocks
       /\ src.blocks[KeyOf(said, k)].kind = "tool_use"
       /\ src.blocks[KeyOf(said, k)].call = k - 1
  /\ \A b \in DOMAIN src.blocks :
       src.blocks[b].kind = "tool_use" => \E k \in 1..n : KeyOf(said, k) = b
  /\ Opened(said) \subseteq 0..(sp.parts - 1)
  /\ sp.open # None => sp.parts > 0 /\ sp.open = src.blocks[sp.parts - 1].kind

\* What has been heard of the provider's events is what it has said in them.
Heeding(events, n, h) ==
  LET said == Transcript(events) IN
  /\ Sayings(events) /\ Heeds(h, n) /\ Agrees(said, h, TRUE)
  /\ KindsIn(h) \subseteq KindsIn(said) /\ (InOrder(said) => InOrder(h))
Hearer(events, src, sp, h) ==
  /\ Heeding(events, sp.calls, h)
  /\ egress = "chat" => Transcript(events) = h
  /\ egress = "responses" => KnowsItems(Transcript(events), src, sp)
  /\ egress = "anthropic" => KnowsBlocks(Transcript(events), src, sp)

\* A Responses sink knows what the frames it has sent have opened and said.
Items(s) ==
  (IF s.thinking THEN {TheThought} ELSE {}) \cup (IF s.talking THEN {TheMessage} ELSE {})
  \cup {TheCall(i) : i \in DOMAIN s.calls}
IndexOf(s, item) ==
  CASE item = TheThought -> 0
    [] item = TheMessage -> MessageIndex(s)
    [] OTHER -> CallIndex(s, item.n)
Indexed(s, frames) ==
  \A k \in DOMAIN frames : "item" \in DOMAIN frames[k] =>
    frames[k].item \in Items(s) /\ frames[k].index = IndexOf(s, frames[k].item)
Pieces(s, said) ==
  /\ ReadOf("key", TheThought, said) = s.thought
  /\ ReadOf("key", TheMessage, said) = s.text
  /\ \A i \in DOMAIN s.calls : ReadOf("key", TheCall(i), said) = s.calls[i].args
  /\ \A key : key \notin Opened(said) => ReadOf("key", key, said) = <<>>
Tracks(s, frames, h, n) ==
  LET said == Transcript(frames) IN
  /\ Sayings(frames) /\ Agrees(said, h, TRUE) /\ Framed(said, FALSE)
  /\ s.thinking \in BOOLEAN /\ s.talking \in BOOLEAN
  /\ Opened(said) = Items(s) /\ Closed(said) = {} /\ Pieces(s, said)
  /\ DOMAIN s.calls = 0..(n - 1) /\ \A k \in 1..n : KeyOf(said, k) = TheCall(k - 1)
  /\ \A i \in DOMAIN s.calls : DOMAIN s.calls[i] = {"call", "args"}
  /\ s.started = (frames # <<>>) /\ (frames # <<>> => frames[1] = Created)
KnowsResponses(s, frames, h, n) ==
  /\ Tracks(s, frames, h, n)
  /\ s.talking => "text" \in KindsIn(h)
  /\ InOrder(h) => Indexed(s, frames)

\* And so does an Anthropic one: the blocks that are no calls' are stopped,
\* but perhaps for the last.
Blocks(s, said, n) ==
  LET calls == {s.calls[i] : i \in 0..(n - 1)} IN
  /\ s.block \in Nat /\ s.open \in BOOLEAN
  /\ Opened(said) = 0..(s.block - 1) \cup (IF s.open THEN {s.block} ELSE {})
  /\ Closed(said) \cup calls = 0..(s.block - 1) /\ Closed(said) \cap calls = {}
  /\ DOMAIN s.calls = 0..(n - 1) /\ \A k \in 1..n : KeyOf(said, k) = s.calls[k - 1]
KnowsAnthropic(s, frames, h, n) ==
  LET said == Transcript(frames) IN
  /\ Sayings(frames) /\ Agrees(said, h, FALSE) /\ Framed(said, FALSE)
  /\ Blocks(s, said, n)
  /\ s.started = (frames # <<>>) /\ (frames # <<>> => frames[1].type = "message_start")

\* A Chat client is told the chunks themselves.
KnowsChat(frames, h) ==
  /\ Sayings(frames) /\ Transcript(frames) = h
  /\ frames # <<>> => frames[1].type = "chunk"

KnowsSink(s, frames, h, n) ==
  CASE ingress = "responses" -> KnowsResponses(s, frames, h, n)
    [] ingress = "anthropic" -> KnowsAnthropic(s, frames, h, n)
    [] ingress = "chat" -> KnowsChat(frames, h)

\* A stream that is under way: what the provider has said is what has been
\* heard, and what has been heard is what the client has been told; and
\* something has been told of an event that makes a chunk.
HasBegun ==
  \/ egress = "chat" /\ received # <<>>
  \/ egress = "anthropic" /\ speech.begun
Underway ==
  /\ \E h : Hearer(received, source, speech, h) /\ KnowsSink(sink, relayed, h, speech.calls)
  /\ HasBegun => relayed # <<>>

Faithful == AnswerPreserved /\ FramesBalanced /\ OrderlyIndices

-----------------------------------------------------------------------------
(* One more thing said.                                                    *)

\* Its place is the last; the places before it are as they were.
LEMMA SaidLast ==
  ASSUME NEW x, Sequence(x), NEW u
  PROVE  /\ Sequence(x \o <<u>>) /\ Len(x) \in Nat /\ DOMAIN x = 1..Len(x)
         /\ DOMAIN (x \o <<u>>) = 1..(Len(x) + 1) /\ Len(x \o <<u>>) = Len(x) + 1
         /\ (x \o <<u>>)[Len(x) + 1] = u
         /\ \A k \in 1..Len(x) : (x \o <<u>>)[k] = x[k]
<1>1. Sequence(<<u>>) /\ Len(<<u>>) = 1 /\ <<u>>[1] = u
  BY Short
<1>2. Len(x) \in Nat /\ DOMAIN x = 1..Len(x)
  BY SequenceFacts
<1>3. /\ Sequence(x \o <<u>>) /\ Len(x \o <<u>>) = Len(x) + 1
      /\ \A k \in 1..(Len(x) + 1) :
           (x \o <<u>>)[k] = IF k <= Len(x) THEN x[k] ELSE <<u>>[k - Len(x)]
  BY <1>1, Joined
<1>4. DOMAIN (x \o <<u>>) = 1..(Len(x) + 1)
  BY <1>3, SequenceFacts
<1>5. Len(x) + 1 \in 1..(Len(x) + 1) /\ ~(Len(x) + 1 <= Len(x)) /\ (Len(x) + 1) - Len(x) = 1
  BY <1>2
<1>6. (x \o <<u>>)[Len(x) + 1] = u
  BY <1>1, <1>3, <1>5
<1>7. ASSUME NEW k \in 1..Len(x) PROVE (x \o <<u>>)[k] = x[k]
  <2>1. k \in 1..(Len(x) + 1) /\ k <= Len(x)
    BY <1>2
  <2> QED
    BY <1>3, <2>1
<1> QED
  BY <1>2, <1>3, <1>4, <1>6, <1>7

\* What has been opened, closed and said, with it.
LEMMA KeysMore ==
  ASSUME NEW x, Sequence(x), NEW u
  PROVE  /\ Opened(x \o <<u>>) = Opened(x) \cup (IF u.act = "open" THEN {u.key} ELSE {})
         /\ Closed(x \o <<u>>) = Closed(x) \cup (IF u.act = "close" THEN {u.key} ELSE {})
         /\ KindsIn(x \o <<u>>) = KindsIn(x) \cup (IF u.act = "close" THEN {} ELSE {u.kind})
<1> DEFINE y == x \o <<u>>
<1>1. /\ Len(x) \in Nat /\ DOMAIN x = 1..Len(x) /\ DOMAIN y = 1..(Len(x) + 1)
      /\ y[Len(x) + 1] = u /\ \A k \in 1..Len(x) : y[k] = x[k]
  BY SaidLast
<1> HIDE DEF y
<1>2. ASSUME NEW act
      PROVE  KeysIn(act, y) = KeysIn(act, x) \cup (IF u.act = act THEN {u.key} ELSE {})
  <2>1. ASSUME NEW o \in KeysIn(act, y)
        PROVE  o \in KeysIn(act, x) \cup (IF u.act = act THEN {u.key} ELSE {})
    <3>1. PICK k \in DOMAIN y : y[k].act = act /\ o = y[k].key
      BY DEF KeysIn
    <3>2. CASE k = Len(x) + 1
      BY <1>1, <3>1, <3>2
    <3>3. CASE k \in DOMAIN x
      BY <1>1, <3>1, <3>3 DEF KeysIn
    <3> QED
      BY <1>1, <3>2, <3>3
  <2>2. ASSUME NEW o \in KeysIn(act, x)
        PROVE  o \in KeysIn(act, y)
    <3>1. PICK k \in DOMAIN x : x[k].act = act /\ o = x[k].key
      BY DEF KeysIn
    <3>2. k \in DOMAIN y /\ y[k] = x[k]
      BY <1>1
    <3> QED
      BY <3>1, <3>2 DEF KeysIn
  <2>3. u.act = act => u.key \in KeysIn(act, y)
    <3>1. Len(x) + 1 \in DOMAIN y
      BY <1>1
    <3> QED
      BY <1>1, <3>1 DEF KeysIn
  <2> QED
    BY <2>1, <2>2, <2>3
<1>3. KindsIn(y) = KindsIn(x) \cup (IF u.act = "close" THEN {} ELSE {u.kind})
  <2>1. ASSUME NEW o \in KindsIn(y)
        PROVE  o \in KindsIn(x) \cup (IF u.act = "close" THEN {} ELSE {u.kind})
    <3>1. PICK k \in DOMAIN y : y[k].act # "close" /\ o = y[k].kind
      BY DEF KindsIn
    <3>2. CASE k = Len(x) + 1
      BY <1>1, <3>1, <3>2
    <3>3. CASE k \in DOMAIN x
      BY <1>1, <3>1, <3>3 DEF KindsIn
    <3> QED
      BY <1>1, <3>2, <3>3
  <2>2. ASSUME NEW o \in KindsIn(x)
        PROVE  o \in KindsIn(y)
    <3>1. PICK k \in DOMAIN x : x[k].act # "close" /\ o = x[k].kind
      BY DEF KindsIn
    <3>2. k \in DOMAIN y /\ y[k] = x[k]
      BY <1>1
    <3> QED
      BY <3>1, <3>2 DEF KindsIn
  <2>3. u.act # "close" => u.kind \in KindsIn(y)
    <3>1. Len(x) + 1 \in DOMAIN y
      BY <1>1
    <3> QED
      BY <1>1, <3>1 DEF KindsIn
  <2> QED
    BY <2>1, <2>2, <2>3
<1> QED
  BY <1>2, <1>3 DEF Opened, Closed, y

\* What each way of saying does.
LEMMA KeysSay ==
  ASSUME NEW x, Sequence(x), NEW u
  PROVE  /\ u.act = "piece" =>
              /\ Opened(x \o <<u>>) = Opened(x) /\ Closed(x \o <<u>>) = Closed(x)
              /\ KindsIn(x \o <<u>>) = KindsIn(x) \cup {u.kind}
         /\ u.act = "open" =>
              /\ Opened(x \o <<u>>) = Opened(x) \cup {u.key} /\ Closed(x \o <<u>>) = Closed(x)
              /\ KindsIn(x \o <<u>>) = KindsIn(x) \cup {u.kind}
         /\ u.act = "close" =>
              /\ Opened(x \o <<u>>) = Opened(x) /\ Closed(x \o <<u>>) = Closed(x) \cup {u.key}
              /\ KindsIn(x \o <<u>>) = KindsIn(x)
<1> DEFINE o == Opened(x \o <<u>>)
           c == Closed(x \o <<u>>)
           k == KindsIn(x \o <<u>>)
<1>1. /\ o = Opened(x) \cup (IF u.act = "open" THEN {u.key} ELSE {})
      /\ c = Closed(x) \cup (IF u.act = "close" THEN {u.key} ELSE {})
      /\ k = KindsIn(x) \cup (IF u.act = "close" THEN {} ELSE {u.kind})
  BY KeysMore
<1> HIDE DEF o, c, k
<1>2. /\ u.act = "piece" => o = Opened(x) /\ c = Closed(x) /\ k = KindsIn(x) \cup {u.kind}
      /\ u.act = "open" =>
           o = Opened(x) \cup {u.key} /\ c = Closed(x) /\ k = KindsIn(x) \cup {u.kind}
      /\ u.act = "close" => o = Opened(x) /\ c = Closed(x) \cup {u.key} /\ k = KindsIn(x)
  BY <1>1
<1> QED
  BY <1>2 DEF o, c, k

\* It keeps a transcript framed, if it may be said.
LEMMA FramedMore ==
  ASSUME NEW x, Sequence(x), NEW u, NEW loose, Framed(x, loose), MaySay(x, u, loose)
  PROVE  Framed(x \o <<u>>, loose)
<1> DEFINE y == x \o <<u>>
<1>1. /\ Len(x) \in Nat /\ DOMAIN x = 1..Len(x) /\ DOMAIN y = 1..(Len(x) + 1)
      /\ y[Len(x) + 1] = u /\ \A k \in 1..Len(x) : y[k] = x[k]
  BY SaidLast
<1> HIDE DEF y
<1>2. ASSUME NEW i \in 1..Len(x)
      PROVE  Unopened(y, i) = Unopened(x, i) /\ Unclosed(y, i) = Unclosed(x, i) /\ y[i] = x[i]
  <2>1. \A j \in 1..(i - 1) : j \in 1..Len(x)
    BY <1>1
  <2>2. y[i] = x[i] /\ \A j \in 1..(i - 1) : y[j] = x[j]
    BY <1>1, <2>1
  <2> QED
    BY <2>2 DEF Unopened, Unclosed
<1>3. LET n == Len(x) + 1 IN
      /\ Unopened(y, n) <=> u.key \notin Opened(x)
      /\ Unclosed(y, n) <=> u.key \notin Closed(x)
  <2>1. 1..((Len(x) + 1) - 1) = DOMAIN x
    BY <1>1
  <2>2. /\ Unopened(y, Len(x) + 1) <=> \A j \in DOMAIN x : x[j].act = "open" => x[j].key # u.key
        /\ Unclosed(y, Len(x) + 1) <=> \A j \in DOMAIN x : x[j].act = "close" => x[j].key # u.key
    BY <1>1, <2>1 DEF Unopened, Unclosed
  <2>3. /\ u.key \notin Opened(x) <=> \A j \in DOMAIN x : x[j].act = "open" => x[j].key # u.key
        /\ u.key \notin Closed(x) <=> \A j \in DOMAIN x : x[j].act = "close" => x[j].key # u.key
    BY DEF Opened, Closed, KeysIn
  <2> QED
    BY <2>2, <2>3
<1>4. ASSUME NEW i \in DOMAIN y
      PROVE  \/ y[i].act = "open" /\ Unopened(y, i)
             \/ y[i].act # "open" /\ ~Unopened(y, i) /\ Unclosed(y, i)
             \/ loose /\ y[i].kind # "call"
  <2>1. CASE i = Len(x) + 1
    BY <1>1, <1>3, <2>1 DEF MaySay
  <2>2. CASE i \in DOMAIN x
    BY <1>1, <1>2, <2>2 DEF Framed
  <2> QED
    BY <1>1, <2>1, <2>2
<1> QED
  BY <1>4 DEF Framed, y

\* What is said in order was in order before it, and ranks no lower.
LEMMA OrderMore ==
  ASSUME NEW x, Sequence(x), NEW u
  PROVE  InOrder(x \o <<u>>) <=>
           /\ InOrder(x)
           /\ u.act # "close" => \A kind \in KindsIn(x) : Rank(kind) <= Rank(u.kind)
<1> DEFINE y == x \o <<u>>
<1>1. /\ Len(x) \in Nat /\ DOMAIN x = 1..Len(x) /\ DOMAIN y = 1..(Len(x) + 1)
      /\ y[Len(x) + 1] = u /\ \A k \in 1..Len(x) : y[k] = x[k]
  BY SaidLast
<1> HIDE DEF y
<1>2. ASSUME InOrder(y)
      PROVE  /\ InOrder(x)
             /\ u.act # "close" => \A kind \in KindsIn(x) : Rank(kind) <= Rank(u.kind)
  <2>1. ASSUME NEW i \in DOMAIN x, NEW j \in DOMAIN x, i < j,
               "close" \notin {x[i].act, x[j].act}
        PROVE  Rank(x[i].kind) <= Rank(x[j].kind)
    <3>1. i \in DOMAIN y /\ j \in DOMAIN y /\ y[i] = x[i] /\ y[j] = x[j]
      BY <1>1
    <3> QED
      BY <1>2, <2>1, <3>1 DEF InOrder
  <2>2. ASSUME u.act # "close", NEW kind \in KindsIn(x)
        PROVE  Rank(kind) <= Rank(u.kind)
    <3>1. PICK k \in DOMAIN x : x[k].act # "close" /\ kind = x[k].kind
      BY DEF KindsIn
    <3>2. /\ k \in DOMAIN y /\ y[k] = x[k] /\ Len(x) + 1 \in DOMAIN y /\ k < Len(x) + 1
      BY <1>1
    <3> QED
      BY <1>1, <1>2, <2>2, <3>1, <3>2 DEF InOrder
  <2> QED
    BY <2>1, <2>2 DEF InOrder
<1>3. ASSUME InOrder(x),
             u.act # "close" => \A kind \in KindsIn(x) : Rank(kind) <= Rank(u.kind)
      PROVE  InOrder(y)
  <2>1. ASSUME NEW i \in DOMAIN y, NEW j \in DOMAIN y, i < j,
               "close" \notin {y[i].act, y[j].act}
        PROVE  Rank(y[i].kind) <= Rank(y[j].kind)
    <3>1. i \in DOMAIN x /\ y[i] = x[i]
      BY <1>1, <2>1
    <3>2. CASE j = Len(x) + 1
      <4>1. y[i].kind \in KindsIn(x)
        BY <2>1, <3>1 DEF KindsIn
      <4> QED
        BY <1>1, <1>3, <2>1, <3>2, <4>1
    <3>3. CASE j \in DOMAIN x
      BY <1>1, <1>3, <2>1, <3>1, <3>3 DEF InOrder
    <3> QED
      BY <1>1, <3>2, <3>3
  <2> QED
    BY <2>1 DEF InOrder
<1> QED
  BY <1>2, <1>3 DEF y

-----------------------------------------------------------------------------
(* What is read of one more thing said.                                    *)

\* Nothing, of what says nothing of it.
LEMMA ReadSame ==
  ASSUME NEW by \in Ways, NEW of, NEW x, Sequence(x), NEW u, Reads(by, of, u) = <<>>
  PROVE  ReadOf(by, of, x \o <<u>>) = ReadOf(by, of, x)
<1>1. ReadOf(by, of, x \o <<u>>) = ReadOf(by, of, x) \o Reads(by, of, u)
  BY ReadMore
<1>2. Sequence(ReadOf(by, of, x))
  BY ReadSequence
<1>3. ReadOf(by, of, x) \o <<>> = ReadOf(by, of, x)
  BY <1>2, NothingBefore
<1> QED
  BY <1>1, <1>3

\* The calls that are opened are a sequence.
LEMMA CallsFacts ==
  ASSUME NEW x, Sequence(x)
  PROVE  /\ Sequence(CallsIn(x)) /\ Len(CallsIn(x)) \in Nat
         /\ DOMAIN CallsIn(x) = 1..Len(CallsIn(x))
<1>1. "open" \in Ways
  BY DEF Ways
<1>2. Sequence(CallsIn(x))
  BY <1>1, ReadSequence DEF CallsIn
<1> QED
  BY <1>2, SequenceFacts

\* A call that is opened is the last.
LEMMA CallsMore ==
  ASSUME NEW x, Sequence(x), NEW u
  PROVE  /\ u.act = "open" /\ u.kind = "call" =>
              /\ Len(CallsIn(x \o <<u>>)) = Len(CallsIn(x)) + 1
              /\ CallsIn(x \o <<u>>)[Len(CallsIn(x)) + 1] = u
              /\ \A k \in 1..Len(CallsIn(x)) : CallsIn(x \o <<u>>)[k] = CallsIn(x)[k]
         /\ ~(u.act = "open" /\ u.kind = "call") => CallsIn(x \o <<u>>) = CallsIn(x)
<1>1. "open" \in Ways
  BY DEF Ways
<1>2. Sequence(CallsIn(x))
  BY CallsFacts
<1>3. CASE u.act = "open" /\ u.kind = "call"
  <2>1. Reads("open", "call", u) = <<u>>
    BY <1>3 DEF Reads
  <2>2. CallsIn(x \o <<u>>) = CallsIn(x) \o <<u>>
    BY <1>1, <2>1, ReadMore, ZenonT(40) DEF CallsIn
  <2>3. /\ Len(CallsIn(x) \o <<u>>) = Len(CallsIn(x)) + 1
        /\ (CallsIn(x) \o <<u>>)[Len(CallsIn(x)) + 1] = u
        /\ \A k \in 1..Len(CallsIn(x)) : (CallsIn(x) \o <<u>>)[k] = CallsIn(x)[k]
    BY <1>2, SaidLast
  <2> QED
    BY <1>3, <2>2, <2>3
<1>4. CASE ~(u.act = "open" /\ u.kind = "call")
  <2>1. Reads("open", "call", u) = <<>>
    BY <1>4 DEF Reads
  <2> QED
    BY <1>1, <1>4, <2>1, ReadSame DEF CallsIn
<1> QED
  BY <1>3, <1>4

\* What is read of each way of reading.
LEMMA ReadsOf ==
  /\ "kind" \in Ways /\ "call" \in Ways /\ "key" \in Ways /\ "open" \in Ways
  /\ \A u, of : u.act # "piece" =>
       Reads("kind", of, u) = <<>> /\ Reads("call", of, u) = <<>> /\ Reads("key", of, u) = <<>>
  /\ \A u, of : u.act = "piece" =>
       /\ Reads("kind", of, u) = IF u.kind = of THEN <<u.what>> ELSE <<>>
       /\ Reads("key", of, u) = IF u.key = of THEN <<u.what>> ELSE <<>>
       /\ Reads("call", of, u) = IF u.kind = "call" /\ u.key = of THEN <<u.what>> ELSE <<>>
BY DEF Reads, Ways

\* What neither opens a call nor speaks in one leaves the calls as they are.
LEMMA WellOther ==
  ASSUME NEW x, Well(x), NEW u, u.kind # "call" \/ u.act \notin {"open", "piece"}
  PROVE  /\ Well(x \o <<u>>) /\ CallsIn(x \o <<u>>) = CallsIn(x)
         /\ \A key : ReadOf("call", key, x \o <<u>>) = ReadOf("call", key, x)
<1>1. Sequence(x) /\ Sequence(x \o <<u>>)
  BY SaidLast DEF Well
<1>2. CallsIn(x \o <<u>>) = CallsIn(x)
  BY <1>1, CallsMore
<1>3. ASSUME NEW key
      PROVE  ReadOf("call", key, x \o <<u>>) = ReadOf("call", key, x)
  <2>1. "call" \in Ways /\ Reads("call", key, u) = <<>>
    BY ReadsOf
  <2> QED
    BY <1>1, <2>1, ReadSame
<1>4. Opened(x) \subseteq Opened(x \o <<u>>)
  BY <1>1, KeysMore
<1> QED
  BY <1>1, <1>2, <1>3, <1>4 DEF Well

\* A call is opened under a key of its own.
LEMMA WellOpen ==
  ASSUME NEW x, Well(x), NEW u, u.act = "open", u.kind = "call", u.key \notin Opened(x)
  PROVE  /\ Well(x \o <<u>>)
         /\ \A key : ReadOf("call", key, x \o <<u>>) = ReadOf("call", key, x)
         /\ ReadOf("call", u.key, x) = <<>>
<1> DEFINE y == x \o <<u>>
<1>1. Sequence(x) /\ Sequence(y)
  BY SaidLast DEF Well
<1>2. /\ Len(CallsIn(y)) = Len(CallsIn(x)) + 1 /\ CallsIn(y)[Len(CallsIn(x)) + 1] = u
      /\ \A k \in 1..Len(CallsIn(x)) : CallsIn(y)[k] = CallsIn(x)[k]
  BY <1>1, CallsMore
<1>3. ASSUME NEW key
      PROVE  ReadOf("call", key, y) = ReadOf("call", key, x)
  <2>1. "call" \in Ways /\ Reads("call", key, u) = <<>>
    BY ReadsOf
  <2> QED
    BY <1>1, <2>1, ReadSame
<1>4. Opened(y) = Opened(x) \cup {u.key}
  BY <1>1, KeysMore
<1>5. /\ Len(CallsIn(x)) \in Nat /\ DOMAIN CallsIn(x) = 1..Len(CallsIn(x))
      /\ DOMAIN CallsIn(y) = 1..Len(CallsIn(y))
  BY <1>1, CallsFacts
<1> HIDE DEF y
<1>6. ASSUME NEW k \in DOMAIN CallsIn(y), NEW l \in DOMAIN CallsIn(y),
             CallsIn(y)[k].key = CallsIn(y)[l].key
      PROVE  k = l
  <2>1. ASSUME NEW m \in DOMAIN CallsIn(x)
        PROVE  CallsIn(y)[m] = CallsIn(x)[m] /\ CallsIn(y)[m].key # u.key
    <3>1. CallsIn(y)[m] = CallsIn(x)[m]
      BY <1>2, <1>5
    <3> QED
      BY <3>1 DEF Well
  <2>2. \A m \in DOMAIN CallsIn(y) : m \in DOMAIN CallsIn(x) \/ m = Len(CallsIn(x)) + 1
    BY <1>2, <1>5
  <2>3. CASE k \in DOMAIN CallsIn(x) /\ l \in DOMAIN CallsIn(x)
    BY <1>6, <2>1, <2>3 DEF Well, Apart
  <2>4. CASE k \in DOMAIN CallsIn(x) /\ l = Len(CallsIn(x)) + 1
    BY <1>2, <1>6, <2>1, <2>4
  <2>5. CASE k = Len(CallsIn(x)) + 1 /\ l \in DOMAIN CallsIn(x)
    BY <1>2, <1>6, <2>1, <2>5
  <2> QED
    BY <2>2, <2>3, <2>4, <2>5
<1>7. ASSUME NEW k \in DOMAIN CallsIn(y) PROVE CallsIn(y)[k].key \in Opened(y)
  <2>1. CASE k \in DOMAIN CallsIn(x)
    BY <1>2, <1>4, <1>5, <2>1 DEF Well
  <2>2. CASE k = Len(CallsIn(x)) + 1
    BY <1>2, <1>4, <2>2
  <2> QED
    BY <1>2, <1>5, <2>1, <2>2
<1>8. Apart(CallsIn(y))
  BY <1>6 DEF Apart
<1>9. \A key : key \notin Opened(y) => ReadOf("call", key, y) = <<>>
  BY <1>3, <1>4 DEF Well
<1> QED
  BY <1>1, <1>3, <1>7, <1>8, <1>9 DEF Well, y

\* A call that is open is spoken in.
LEMMA WellPiece ==
  ASSUME NEW x, Well(x), NEW u, u.act = "piece", u.kind = "call", u.key \in Opened(x)
  PROVE  /\ Well(x \o <<u>>) /\ CallsIn(x \o <<u>>) = CallsIn(x)
         /\ ReadOf("call", u.key, x \o <<u>>) = ReadOf("call", u.key, x) \o <<u.what>>
         /\ \A key : key # u.key => ReadOf("call", key, x \o <<u>>) = ReadOf("call", key, x)
<1>1. Sequence(x) /\ Sequence(x \o <<u>>)
  BY SaidLast DEF Well
<1>2. CallsIn(x \o <<u>>) = CallsIn(x)
  BY <1>1, CallsMore
<1>3. ReadOf("call", u.key, x \o <<u>>) = ReadOf("call", u.key, x) \o <<u.what>>
  <2>1. "call" \in Ways /\ Reads("call", u.key, u) = <<u.what>>
    BY ReadsOf
  <2>2. ReadOf("call", u.key, x \o <<u>>) = ReadOf("call", u.key, x) \o Reads("call", u.key, u)
    BY <1>1, <2>1, ReadMore
  <2> QED
    BY <2>1, <2>2
<1>4. ASSUME NEW key, key # u.key
      PROVE  ReadOf("call", key, x \o <<u>>) = ReadOf("call", key, x)
  <2>1. "call" \in Ways /\ Reads("call", key, u) = <<>>
    BY <1>4, ReadsOf
  <2> QED
    BY <1>1, <2>1, ReadSame
<1>5. Opened(x) = Opened(x \o <<u>>)
  BY <1>1, KeysMore
<1> QED
  BY <1>1, <1>2, <1>3, <1>4, <1>5 DEF Well

\* What is read by kind.
LEMMA KindMore ==
  ASSUME NEW x, Sequence(x), NEW u, NEW of
  PROVE  ReadOf("kind", of, x \o <<u>>)
           = IF u.act = "piece" /\ u.kind = of THEN ReadOf("kind", of, x) \o <<u.what>>
             ELSE ReadOf("kind", of, x)
<1>1. "kind" \in Ways
  BY ReadsOf
<1>2. CASE u.act = "piece" /\ u.kind = of
  <2>1. Reads("kind", of, u) = <<u.what>>
    BY <1>2, ReadsOf
  <2>2. ReadOf("kind", of, x \o <<u>>) = ReadOf("kind", of, x) \o Reads("kind", of, u)
    BY <1>1, ReadMore
  <2> QED
    BY <1>2, <2>1, <2>2
<1>3. CASE ~(u.act = "piece" /\ u.kind = of)
  <2>1. Reads("kind", of, u) = <<>>
    BY <1>3, ReadsOf
  <2> QED
    BY <1>1, <1>3, <2>1, ReadSame
<1> QED
  BY <1>2, <1>3

\* What is read by key.
LEMMA KeyMore ==
  ASSUME NEW x, Sequence(x), NEW u, NEW of
  PROVE  ReadOf("key", of, x \o <<u>>)
           = IF u.act = "piece" /\ u.key = of THEN ReadOf("key", of, x) \o <<u.what>>
             ELSE ReadOf("key", of, x)
<1>1. "key" \in Ways
  BY ReadsOf
<1>2. CASE u.act = "piece" /\ u.key = of
  <2>1. Reads("key", of, u) = <<u.what>>
    BY <1>2, ReadsOf
  <2>2. ReadOf("key", of, x \o <<u>>) = ReadOf("key", of, x) \o Reads("key", of, u)
    BY <1>1, ReadMore
  <2> QED
    BY <1>2, <2>1, <2>2
<1>3. CASE ~(u.act = "piece" /\ u.key = of)
  <2>1. Reads("key", of, u) = <<>>
    BY <1>3, ReadsOf
  <2> QED
    BY <1>1, <1>3, <2>1, ReadSame
<1> QED
  BY <1>2, <1>3

\* A piece of a kind is read last.
LEMMA KindSays ==
  ASSUME NEW x, Sequence(x), NEW u, NEW of, u.act = "piece", u.kind = of
  PROVE  ReadOf("kind", of, x \o <<u>>) = ReadOf("kind", of, x) \o <<u.what>>
<1> DEFINE joined == ReadOf("kind", of, x) \o <<u.what>>
<1>1. ReadOf("kind", of, x \o <<u>>)
        = IF u.act = "piece" /\ u.kind = of THEN joined ELSE ReadOf("kind", of, x)
  BY KindMore
<1> HIDE DEF joined
<1> QED
  BY <1>1 DEF joined

-----------------------------------------------------------------------------
(* The same thing said in two transcripts.                                 *)

\* What is neither a call nor a piece of one, in both: thoughts and text agree
\* as before or by the same piece.
LEMMA AgreeOther ==
  ASSUME NEW x, NEW h, NEW thinks \in BOOLEAN, Agrees(x, h, thinks),
         NEW y, NEW i, Well(y), Well(i), CallsIn(y) = CallsIn(x), CallsIn(i) = CallsIn(h),
         \A key : ReadOf("call", key, y) = ReadOf("call", key, x),
         \A key : ReadOf("call", key, i) = ReadOf("call", key, h),
         ReadOf("kind", "thought", y) = IF thinks THEN ReadOf("kind", "thought", i) ELSE <<>>,
         ReadOf("kind", "text", y) = ReadOf("kind", "text", i)
  PROVE  Agrees(y, i, thinks)
<1>1. ASSUME NEW k \in 1..Len(CallsIn(i)) PROVE SameCall(y, k, i)
  BY DEF Agrees, SameCall
<1> QED
  BY <1>1 DEF Agrees

\* A thought, that is told or kept,
LEMMA AgreeThought ==
  ASSUME NEW x, NEW h, Agrees(x, h, TRUE), NEW u, NEW v,
         u.act = "piece", u.kind = "thought", v.act = "piece", v.kind = "thought",
         u.what = v.what
  PROVE  Agrees(x \o <<u>>, h \o <<v>>, TRUE)
<1>1. Well(x) /\ Well(h) /\ Sequence(x) /\ Sequence(h)
  BY DEF Agrees, Well
<1>2. /\ Well(x \o <<u>>) /\ CallsIn(x \o <<u>>) = CallsIn(x)
      /\ \A key : ReadOf("call", key, x \o <<u>>) = ReadOf("call", key, x)
  BY <1>1, WellOther
<1>3. /\ Well(h \o <<v>>) /\ CallsIn(h \o <<v>>) = CallsIn(h)
      /\ \A key : ReadOf("call", key, h \o <<v>>) = ReadOf("call", key, h)
  BY <1>1, WellOther
<1>4. /\ ReadOf("kind", "thought", x \o <<u>>) = ReadOf("kind", "thought", x) \o <<u.what>>
      /\ ReadOf("kind", "thought", h \o <<v>>) = ReadOf("kind", "thought", h) \o <<v.what>>
  BY <1>1, KindSays
<1>5. /\ ReadOf("kind", "text", x \o <<u>>) = ReadOf("kind", "text", x)
      /\ ReadOf("kind", "text", h \o <<v>>) = ReadOf("kind", "text", h)
  BY <1>1, KindMore
<1>6. /\ ReadOf("kind", "thought", x) = ReadOf("kind", "thought", h)
      /\ ReadOf("kind", "text", x) = ReadOf("kind", "text", h)
  BY DEF Agrees
<1>7. /\ ReadOf("kind", "thought", x \o <<u>>) = ReadOf("kind", "thought", h \o <<v>>)
      /\ ReadOf("kind", "text", x \o <<u>>) = ReadOf("kind", "text", h \o <<v>>)
  BY <1>4, <1>5, <1>6
<1> DEFINE y == x \o <<u>>
           i == h \o <<v>>
<1> HIDE DEF y, i
<1>8. Agrees(y, i, TRUE)
  BY <1>2, <1>3, <1>7, AgreeOther DEF y, i
<1> QED
  BY <1>8 DEF y, i

\* kept from the reader of the first,
LEMMA AgreeUntold ==
  ASSUME NEW x, NEW h, Agrees(x, h, FALSE), NEW v, v.act = "piece", v.kind = "thought"
  PROVE  Agrees(x, h \o <<v>>, FALSE)
<1>1. Well(x) /\ Well(h) /\ Sequence(h)
  BY DEF Agrees, Well
<1>2. /\ Well(h \o <<v>>) /\ CallsIn(h \o <<v>>) = CallsIn(h)
      /\ \A key : ReadOf("call", key, h \o <<v>>) = ReadOf("call", key, h)
  BY <1>1, WellOther
<1>3. ReadOf("kind", "text", h \o <<v>>) = ReadOf("kind", "text", h)
  BY <1>1, KindMore
<1>4. /\ ReadOf("kind", "thought", x) = <<>>
      /\ ReadOf("kind", "text", x) = ReadOf("kind", "text", h)
  BY DEF Agrees
<1> DEFINE i == h \o <<v>>
<1> HIDE DEF i
<1>5. Agrees(x, i, FALSE)
  BY <1>1, <1>2, <1>3, <1>4, AgreeOther DEF i
<1> QED
  BY <1>5 DEF i

\* a piece of text,
LEMMA AgreeText ==
  ASSUME NEW x, NEW h, NEW thinks \in BOOLEAN, Agrees(x, h, thinks), NEW u, NEW v,
         u.act = "piece", u.kind = "text", v.act = "piece", v.kind = "text",
         u.what = v.what
  PROVE  Agrees(x \o <<u>>, h \o <<v>>, thinks)
<1>1. Well(x) /\ Well(h) /\ Sequence(x) /\ Sequence(h)
  BY DEF Agrees, Well
<1>2. /\ Well(x \o <<u>>) /\ CallsIn(x \o <<u>>) = CallsIn(x)
      /\ \A key : ReadOf("call", key, x \o <<u>>) = ReadOf("call", key, x)
  BY <1>1, WellOther
<1>3. /\ Well(h \o <<v>>) /\ CallsIn(h \o <<v>>) = CallsIn(h)
      /\ \A key : ReadOf("call", key, h \o <<v>>) = ReadOf("call", key, h)
  BY <1>1, WellOther
<1>4. /\ ReadOf("kind", "text", x \o <<u>>) = ReadOf("kind", "text", x) \o <<u.what>>
      /\ ReadOf("kind", "text", h \o <<v>>) = ReadOf("kind", "text", h) \o <<v.what>>
  BY <1>1, KindSays
<1>5. /\ ReadOf("kind", "thought", x \o <<u>>) = ReadOf("kind", "thought", x)
      /\ ReadOf("kind", "thought", h \o <<v>>) = ReadOf("kind", "thought", h)
  BY <1>1, KindMore
<1>6. /\ ReadOf("kind", "thought", x) = IF thinks THEN ReadOf("kind", "thought", h) ELSE <<>>
      /\ ReadOf("kind", "text", x) = ReadOf("kind", "text", h)
  BY DEF Agrees
<1>7. /\ ReadOf("kind", "thought", x \o <<u>>)
           = IF thinks THEN ReadOf("kind", "thought", h \o <<v>>) ELSE <<>>
      /\ ReadOf("kind", "text", x \o <<u>>) = ReadOf("kind", "text", h \o <<v>>)
  BY <1>4, <1>5, <1>6
<1> DEFINE y == x \o <<u>>
           i == h \o <<v>>
<1> HIDE DEF y, i
<1>8. Agrees(y, i, thinks)
  BY <1>2, <1>3, <1>7, AgreeOther DEF y, i
<1> QED
  BY <1>8 DEF y, i

\* and what the first alone opens or closes, but no call.
LEMMA AgreeNoise ==
  ASSUME NEW x, NEW h, NEW thinks \in BOOLEAN, Agrees(x, h, thinks), NEW u,
         u.act = "close" \/ (u.act = "open" /\ u.kind # "call")
  PROVE  Agrees(x \o <<u>>, h, thinks) /\ CallsIn(x \o <<u>>) = CallsIn(x)
<1>1. Well(x) /\ Well(h) /\ Sequence(x) /\ Sequence(h)
  BY DEF Agrees, Well
<1>2. /\ Well(x \o <<u>>) /\ CallsIn(x \o <<u>>) = CallsIn(x)
      /\ \A key : ReadOf("call", key, x \o <<u>>) = ReadOf("call", key, x)
  BY <1>1, WellOther
<1>3. /\ ReadOf("kind", "text", x \o <<u>>) = ReadOf("kind", "text", x)
      /\ ReadOf("kind", "thought", x \o <<u>>) = ReadOf("kind", "thought", x)
  BY <1>1, KindMore
<1>4. /\ ReadOf("kind", "thought", x) = IF thinks THEN ReadOf("kind", "thought", h) ELSE <<>>
      /\ ReadOf("kind", "text", x) = ReadOf("kind", "text", h)
  BY DEF Agrees
<1> DEFINE y == x \o <<u>>
<1> HIDE DEF y
<1>5. Agrees(y, h, thinks)
  BY <1>1, <1>2, <1>3, <1>4, AgreeOther DEF y
<1> QED
  BY <1>2, <1>5 DEF y

\* A call is opened in both, under a key of its own in each.
LEMMA AgreeOpen ==
  ASSUME NEW x, NEW h, NEW thinks \in BOOLEAN, Agrees(x, h, thinks), NEW u, NEW v,
         u.act = "open", u.kind = "call", u.key \notin Opened(x),
         v.act = "open", v.kind = "call", v.key \notin Opened(h), u.what = v.what
  PROVE  Agrees(x \o <<u>>, h \o <<v>>, thinks)
<1> DEFINE y == x \o <<u>>
           i == h \o <<v>>
           n == Len(CallsIn(h))
<1>1. Well(x) /\ Well(h) /\ Sequence(x) /\ Sequence(h) /\ n = Len(CallsIn(x)) /\ n \in Nat
  BY CallsFacts DEF Agrees, Well
<1>2. /\ Well(y) /\ \A key : ReadOf("call", key, y) = ReadOf("call", key, x)
      /\ ReadOf("call", u.key, x) = <<>>
  BY <1>1, WellOpen
<1>3. /\ Well(i) /\ \A key : ReadOf("call", key, i) = ReadOf("call", key, h)
      /\ ReadOf("call", v.key, h) = <<>>
  BY <1>1, WellOpen
<1>4. /\ ReadOf("kind", "thought", y) = ReadOf("kind", "thought", x)
      /\ ReadOf("kind", "thought", i) = ReadOf("kind", "thought", h)
      /\ ReadOf("kind", "text", y) = ReadOf("kind", "text", x)
      /\ ReadOf("kind", "text", i) = ReadOf("kind", "text", h)
  BY <1>1, KindMore, ZenonT(40)
<1>5. /\ Len(CallsIn(y)) = n + 1 /\ CallsIn(y)[n + 1] = u
      /\ \A k \in 1..n : CallsIn(y)[k] = CallsIn(x)[k]
  BY <1>1, CallsMore
<1>6. /\ Len(CallsIn(i)) = n + 1 /\ CallsIn(i)[n + 1] = v
      /\ \A k \in 1..n : CallsIn(i)[k] = CallsIn(h)[k]
  BY <1>1, CallsMore
<1> HIDE DEF y, i
<1>7. ASSUME NEW k \in 1..(n + 1) PROVE SameCall(y, k, i)
  <2>1. CASE k = n + 1
    BY <1>2, <1>3, <1>5, <1>6, <2>1 DEF SameCall
  <2>2. CASE k \in 1..n
    <3>1. SameCall(x, k, h)
      BY <2>2 DEF Agrees
    <3> QED
      BY <1>2, <1>3, <1>5, <1>6, <2>2, <3>1 DEF SameCall
  <2> QED
    BY <1>1, <2>1, <2>2
<1>8. /\ ReadOf("kind", "thought", x) = IF thinks THEN ReadOf("kind", "thought", h) ELSE <<>>
      /\ ReadOf("kind", "text", x) = ReadOf("kind", "text", h)
  BY DEF Agrees
<1> QED
  BY <1>2, <1>3, <1>4, <1>5, <1>6, <1>7, <1>8 DEF Agrees, y, i

\* The same call is spoken in.
LEMMA AgreePiece ==
  ASSUME NEW x, NEW h, NEW thinks \in BOOLEAN, Agrees(x, h, thinks), NEW u, NEW v,
         NEW k \in 1..Len(CallsIn(h)),
         u.act = "piece", u.kind = "call", u.key = KeyOf(x, k),
         v.act = "piece", v.kind = "call", v.key = KeyOf(h, k), u.what = v.what
  PROVE  /\ Agrees(x \o <<u>>, h \o <<v>>, thinks)
         /\ CallsIn(x \o <<u>>) = CallsIn(x) /\ CallsIn(h \o <<v>>) = CallsIn(h)
<1> DEFINE y == x \o <<u>>
           i == h \o <<v>>
           n == Len(CallsIn(h))
<1>1. /\ Well(x) /\ Well(h) /\ Sequence(x) /\ Sequence(h) /\ n = Len(CallsIn(x)) /\ n \in Nat
      /\ DOMAIN CallsIn(x) = 1..n /\ DOMAIN CallsIn(h) = 1..n
  BY CallsFacts DEF Agrees, Well
<1>2. u.key \in Opened(x) /\ v.key \in Opened(h)
  BY <1>1 DEF Well, KeyOf
<1>3. /\ Well(y) /\ CallsIn(y) = CallsIn(x)
      /\ ReadOf("call", u.key, y) = ReadOf("call", u.key, x) \o <<u.what>>
      /\ \A key : key # u.key => ReadOf("call", key, y) = ReadOf("call", key, x)
  BY <1>1, <1>2, WellPiece
<1>4. /\ Well(i) /\ CallsIn(i) = CallsIn(h)
      /\ ReadOf("call", v.key, i) = ReadOf("call", v.key, h) \o <<v.what>>
      /\ \A key : key # v.key => ReadOf("call", key, i) = ReadOf("call", key, h)
  BY <1>1, <1>2, WellPiece
<1>5. /\ ReadOf("kind", "thought", y) = ReadOf("kind", "thought", x)
      /\ ReadOf("kind", "thought", i) = ReadOf("kind", "thought", h)
      /\ ReadOf("kind", "text", y) = ReadOf("kind", "text", x)
      /\ ReadOf("kind", "text", i) = ReadOf("kind", "text", h)
  BY <1>1, KindMore, ZenonT(40)
<1> HIDE DEF y, i
<1>6. ASSUME NEW l \in 1..n PROVE SameCall(y, l, i)
  <2>1. SameCall(x, l, h)
    BY DEF Agrees
  <2>2. CASE l = k
    <3>1. CallsIn(x)[k].key = u.key /\ CallsIn(h)[k].key = v.key
      BY DEF KeyOf
    <3>2. ReadOf("call", u.key, x) = ReadOf("call", v.key, h)
      BY <2>1, <2>2, <3>1 DEF SameCall
    <3>3. ReadOf("call", u.key, y) = ReadOf("call", v.key, i)
      BY <1>3, <1>4, <3>2
    <3> QED
      BY <1>3, <1>4, <2>1, <2>2, <3>1, <3>3 DEF SameCall
  <2>3. CASE l # k
    <3>1. CallsIn(x)[l].key # u.key /\ CallsIn(h)[l].key # v.key
      BY <1>1, <2>3 DEF Well, Apart, KeyOf
    <3> QED
      BY <1>3, <1>4, <2>1, <3>1 DEF SameCall
  <2> QED
    BY <2>2, <2>3
<1>7. /\ ReadOf("kind", "thought", x) = IF thinks THEN ReadOf("kind", "thought", h) ELSE <<>>
      /\ ReadOf("kind", "text", x) = ReadOf("kind", "text", h)
  BY DEF Agrees
<1>8. Agrees(y, i, thinks)
  BY <1>1, <1>3, <1>4, <1>5, <1>6, <1>7 DEF Agrees
<1> QED
  BY <1>3, <1>4, <1>8 DEF y, i

\* Transcripts that agree give the same answer.
LEMMA AgreeAnswer ==
  ASSUME NEW x, NEW y, NEW h, NEW thinks \in BOOLEAN, Agrees(x, h, TRUE), Agrees(y, h, thinks)
  PROVE  AnswerIn(y) = IF thinks THEN AnswerIn(x) ELSE [AnswerIn(x) EXCEPT !.thought = <<>>]
<1> DEFINE C(s) == [k \in DOMAIN CallsIn(s) |->
                      <<CallsIn(s)[k].what, ReadOf("call", CallsIn(s)[k].key, s)>>]
<1>1. /\ Len(CallsIn(x)) = Len(CallsIn(y)) /\ Len(CallsIn(x)) = Len(CallsIn(h))
      /\ DOMAIN CallsIn(x) = 1..Len(CallsIn(h)) /\ DOMAIN CallsIn(y) = 1..Len(CallsIn(h))
  BY CallsFacts DEF Agrees, Well
<1>2. \A k \in 1..Len(CallsIn(h)) :
        /\ CallsIn(x)[k].what = CallsIn(y)[k].what
        /\ ReadOf("call", CallsIn(x)[k].key, x) = ReadOf("call", CallsIn(y)[k].key, y)
  BY DEF Agrees, SameCall
<1>3. C(x) = C(y)
  BY <1>1, <1>2
<1>4. /\ ReadOf("kind", "text", x) = ReadOf("kind", "text", y)
      /\ ReadOf("kind", "thought", y) = IF thinks THEN ReadOf("kind", "thought", x) ELSE <<>>
  BY DEF Agrees
<1>5. \A s : AnswerIn(s) = [ thought |-> ReadOf("kind", "thought", s),
                             text |-> ReadOf("kind", "text", s), calls |-> C(s) ]
  BY DEF AnswerIn
<1> HIDE DEF C
<1> QED
  BY <1>3, <1>4, <1>5

-----------------------------------------------------------------------------
(* What is heard, piece by piece.                                          *)

\* A thought or a text,
LEMMA HeedsOther ==
  ASSUME NEW h, NEW n, Heeds(h, n), NEW v, v.act = "piece", v.kind # "call"
  PROVE  Heeds(h \o <<v>>, n) /\ CallsIn(h \o <<v>>) = CallsIn(h)
<1>1. Well(h) /\ Sequence(h)
  BY DEF Heeds, Well
<1>2. Well(h \o <<v>>) /\ CallsIn(h \o <<v>>) = CallsIn(h)
  BY <1>1, WellOther
<1>3. /\ Opened(h \o <<v>>) = Opened(h) /\ Closed(h \o <<v>>) = Closed(h)
      /\ KindsIn(h \o <<v>>) = KindsIn(h) \cup {v.kind}
  BY <1>1, KeysSay
<1>4. MaySay(h, v, TRUE)
  BY DEF MaySay
<1>5. Framed(h \o <<v>>, TRUE)
  BY <1>1, <1>4, FramedMore DEF Heeds
<1> QED
  BY <1>2, <1>3, <1>5 DEF Heeds

\* a call that is opened under the next number,
LEMMA HeedsOpen ==
  ASSUME NEW h, NEW n, Heeds(h, n), NEW v, v.act = "open", v.kind = "call", v.key = n
  PROVE  /\ Heeds(h \o <<v>>, n + 1) /\ v.key \notin Opened(h)
         /\ CallsIn(h \o <<v>>)[n + 1] = v
         /\ \A k \in 1..n : CallsIn(h \o <<v>>)[k] = CallsIn(h)[k]
<1> DEFINE i == h \o <<v>>
<1>1. /\ Well(h) /\ Sequence(h) /\ n \in Nat /\ Len(CallsIn(h)) = n
      /\ Opened(h) = 0..(n - 1) /\ Closed(h) = {} /\ Framed(h, TRUE)
      /\ \A k \in 1..n : CallsIn(h)[k].key = k - 1
  BY DEF Heeds, Well
<1>2. v.key \notin Opened(h)
  BY <1>1
<1>3. Well(i)
  BY <1>1, <1>2, WellOpen
<1>4. /\ Len(CallsIn(i)) = n + 1 /\ CallsIn(i)[n + 1] = v
      /\ \A k \in 1..n : CallsIn(i)[k] = CallsIn(h)[k]
  BY <1>1, CallsMore
<1>5. Opened(i) = Opened(h) \cup {n} /\ Closed(i) = Closed(h) /\ "call" \in KindsIn(i)
  BY <1>1, KeysSay
<1>6. MaySay(h, v, TRUE)
  BY <1>2 DEF MaySay
<1>7. Framed(i, TRUE)
  BY <1>1, <1>6, FramedMore
<1> HIDE DEF i
<1>8. Opened(i) = 0..((n + 1) - 1)
  BY <1>1, <1>5
<1>9. ASSUME NEW k \in 1..(n + 1) PROVE CallsIn(i)[k].key = k - 1
  <2>1. CASE k = n + 1
    BY <1>1, <1>4, <2>1
  <2>2. CASE k \in 1..n
    BY <1>1, <1>4, <2>2
  <2> QED
    BY <1>1, <2>1, <2>2
<1>10. Heeds(i, n + 1)
  <2>1. n + 1 \in Nat /\ Closed(i) = {}
    BY <1>1, <1>5
  <2> QED
    BY <1>3, <1>4, <1>5, <1>7, <1>8, <1>9, <2>1 DEF Heeds
<1> QED
  BY <1>2, <1>4, <1>10 DEF i

\* and a call that is spoken in.
LEMMA HeedsPiece ==
  ASSUME NEW h, NEW n, Heeds(h, n), NEW v, v.act = "piece", v.kind = "call", v.key \in 0..(n - 1)
  PROVE  Heeds(h \o <<v>>, n) /\ CallsIn(h \o <<v>>) = CallsIn(h)
<1>1. /\ Well(h) /\ Sequence(h) /\ Opened(h) = 0..(n - 1) /\ Closed(h) = {} /\ Framed(h, TRUE)
  BY DEF Heeds, Well
<1>2. Well(h \o <<v>>) /\ CallsIn(h \o <<v>>) = CallsIn(h)
  BY <1>1, WellPiece
<1>3. /\ Opened(h \o <<v>>) = Opened(h) /\ Closed(h \o <<v>>) = Closed(h)
      /\ KindsIn(h \o <<v>>) = KindsIn(h) \cup {v.kind}
  BY <1>1, KeysSay
<1>4. MaySay(h, v, TRUE)
  BY <1>1 DEF MaySay
<1>5. Framed(h \o <<v>>, TRUE)
  BY <1>1, <1>4, FramedMore
<1> QED
  BY <1>2, <1>3, <1>5 DEF Heeds

-----------------------------------------------------------------------------
(* The parts of a chunk.                                                   *)

\* A part opens the next call or speaks in one that is open; m calls are open
\* after it.
OpenedBy(part) ==
  IF part.call = None THEN <<>> ELSE <<Said("open", "call", part.index, part.call)>>
Fits(part, n, m) ==
  IF part.call = None THEN part.index \in 0..(n - 1) /\ m = n
  ELSE part.index = n /\ m = n + 1

\* So do the parts of a list, from counts[0] calls to counts[Len(parts)].
PartsFit(parts, counts) ==
  /\ Sequence(parts)
  /\ \A j \in 1..Len(parts) : Fits(parts[j], counts[j - 1], counts[j])
SpokenParts(parts, j) == FlattenSeq([k \in 1..j |-> SpokenPart(parts[k])])

\* A statement of numbers that goes on as far as m holds of m.
LEMMA UpTo ==
  ASSUME NEW m \in Nat, NEW S, 0 \in S, \A j \in S : j \in Nat /\ j < m => j + 1 \in S
  PROVE  m \in S
<1> SUFFICES ASSUME m \notin S
             PROVE  FALSE
  OBVIOUS
<1> DEFINE Wrong == {j \in Nat : j \notin S}
<1>1. PICK j \in Wrong : \A k \in Wrong : j <= k
  <2>1. Wrong \in SUBSET Nat /\ m \in Wrong
    OBVIOUS
  <2> HIDE DEF Wrong
  <2> QED
    BY <2>1, LeastNumber
<1>2. j # 0 /\ j \in Nat /\ j <= m
  BY <1>1
<1>3. j - 1 \in Nat /\ j - 1 < m /\ (j - 1) + 1 = j /\ ~(j <= j - 1)
  BY <1>2
<1>4. j - 1 \in S
  BY <1>1, <1>3
<1> QED
  BY <1>1, <1>3, <1>4

\* What is spoken of a part is a sequence: perhaps an opening, perhaps a piece.
LEMMA SpokenFacts ==
  /\ \A kind, key, piece : Sequence(Spoken(kind, key, piece))
  /\ \A part : /\ Sequence(OpenedBy(part)) /\ Sequence(SpokenPart(part))
               /\ SpokenPart(part) = OpenedBy(part) \o Spoken("call", part.index, part.args)
<1>1. \A kind, key, piece : Sequence(Spoken(kind, key, piece))
  BY Short DEF Spoken
<1>2. \A part : Sequence(OpenedBy(part))
  BY Short DEF OpenedBy
<1>3. \A part : SpokenPart(part) = OpenedBy(part) \o Spoken("call", part.index, part.args)
  BY DEF SpokenPart, OpenedBy
<1>4. ASSUME NEW part PROVE Sequence(SpokenPart(part))
  <2> DEFINE s == OpenedBy(part)
             t == Spoken("call", part.index, part.args)
  <2>1. Sequence(s) /\ Sequence(t) /\ SpokenPart(part) = s \o t
    BY <1>1, <1>2, <1>3
  <2> HIDE DEF s, t
  <2> QED
    BY <2>1, Joined
<1> QED
  BY <1>1, <1>2, <1>3, <1>4

\* What is made of one more number is made of it last.
LEMMA NumberedMore ==
  ASSUME NEW j \in Nat, NEW f, NEW g, f = [k \in 1..(j + 1) |-> f[k]], g = [k \in 1..j |-> f[k]]
  PROVE  Sequence(g) /\ f = Append(g, f[j + 1])
<1>1. g = [k \in 1..j |-> g[k]] /\ j + 1 \in Nat
  OBVIOUS
<1>2. Sequence(f) /\ Len(f) = j + 1
  BY <1>1, Numbered
<1>3. Sequence(g) /\ Len(g) = j
  BY <1>1, Numbered
<1> DEFINE e == Append(g, f[j + 1])
<1>4. /\ Sequence(e) /\ Len(e) = j + 1 /\ e[j + 1] = f[j + 1]
      /\ \A k \in 1..j : e[k] = g[k]
  BY <1>3, Appended
<1> HIDE DEF e
<1>5. ASSUME NEW k \in 1..Len(f) PROVE f[k] = e[k]
  <2>1. CASE k = j + 1
    BY <1>4, <2>1
  <2>2. CASE k \in 1..j
    BY <1>4, <2>2
  <2> QED
    BY <1>2, <2>1, <2>2
<1>6. f = e
  BY <1>2, <1>4, <1>5, SameSequence
<1> QED
  BY <1>3, <1>6 DEF e

\* What is spoken of no part, and of one more.
LEMMA PartsMore ==
  ASSUME NEW parts
  PROVE  /\ SpokenParts(parts, 0) = <<>>
         /\ \A j \in Nat :
              /\ Sequence(SpokenParts(parts, j))
              /\ SpokenParts(parts, j + 1) = SpokenParts(parts, j) \o SpokenPart(parts[j + 1])
<1> DEFINE f(j) == [k \in 1..j |-> SpokenPart(parts[k])]
<1>1. SpokenParts(parts, 0) = <<>>
  <2>1. 1..0 = {} /\ f(0) = [k \in 1..0 |-> f(0)[k]] /\ 0 \in Nat
    OBVIOUS
  <2>2. \A k \in DOMAIN f(0) : f(0)[k] = <<>>
    BY <2>1
  <2>3. SpokenParts(parts, 0) = FlattenSeq(f(0))
    BY DEF SpokenParts
  <2> HIDE DEF f
  <2>4. Sequence(f(0))
    BY <2>1, Numbered
  <2> QED
    BY <2>2, <2>3, <2>4, FlattenNothing
<1>2. ASSUME NEW j \in Nat
      PROVE  /\ Sequence(SpokenParts(parts, j))
             /\ SpokenParts(parts, j + 1) = SpokenParts(parts, j) \o SpokenPart(parts[j + 1])
  <2>1. /\ f(j + 1) = [k \in 1..(j + 1) |-> f(j + 1)[k]] /\ f(j) = [k \in 1..j |-> f(j + 1)[k]]
        /\ f(j + 1)[j + 1] = SpokenPart(parts[j + 1])
    OBVIOUS
  <2>2. \A k \in DOMAIN f(j) : Sequence(f(j)[k])
    BY SpokenFacts
  <2>3. /\ SpokenParts(parts, j) = FlattenSeq(f(j))
        /\ SpokenParts(parts, j + 1) = FlattenSeq(f(j + 1))
    BY DEF SpokenParts
  <2> DEFINE x == SpokenPart(parts[j + 1])
  <2>4. Sequence(x)
    BY SpokenFacts
  <2> HIDE DEF f, x
  <2>5. Sequence(f(j)) /\ f(j + 1) = Append(f(j), f(j + 1)[j + 1])
    BY <2>1, NumberedMore
  <2>6. Lists(f(j))
    BY <2>2, <2>5 DEF Lists
  <2>7. Sequence(FlattenSeq(f(j)))
    BY <2>6, FlattenSequence
  <2>8. FlattenSeq(Append(f(j), x)) = FlattenSeq(f(j)) \o x
    BY <2>4, <2>5, FlattenMore
  <2>9. f(j + 1) = Append(f(j), x)
    BY <2>1, <2>5 DEF x
  <2> QED
    BY <2>3, <2>7, <2>8, <2>9 DEF x
<1> QED
  BY <1>1, <1>2

\* A chunk says its thought, its text and its parts.
LEMMA ChunkSays ==
  ASSUME NEW c, c.type = "chunk", Sequence(c.calls)
  PROVE  /\ SaidBy(c) = Spoken("thought", None, c.thought) \o Spoken("text", None, c.text)
                        \o SpokenParts(c.calls, Len(c.calls))
         /\ Sequence(SaidBy(c))
<1> DEFINE s == Spoken("thought", None, c.thought)
           t == Spoken("text", None, c.text)
           u == SpokenParts(c.calls, Len(c.calls))
<1>1. Len(c.calls) \in Nat /\ DOMAIN c.calls = 1..Len(c.calls)
  BY SequenceFacts
<1>2. SaidBy(c) = s \o t \o Each(c.calls, SpokenPart)
  BY DEF SaidBy
<1>3. Each(c.calls, SpokenPart) = u
  BY <1>1 DEF Each, SpokenParts
<1>4. Sequence(s) /\ Sequence(t) /\ Sequence(u)
  BY <1>1, SpokenFacts, PartsMore
<1> HIDE DEF s, t, u
<1>5. Sequence(s \o t)
  BY <1>4, Joined
<1>6. Sequence((s \o t) \o u)
  BY <1>4, <1>5, Joined
<1> QED
  BY <1>2, <1>3, <1>6 DEF s, t, u

-----------------------------------------------------------------------------
(* What is heard of a chunk: its thought, its text and then its parts.     *)

Thinks(h, c) == h \o Spoken("thought", None, c.thought)
Talks(h, c) == Thinks(h, c) \o Spoken("text", None, c.text)
Hears(h, c, j) == Talks(h, c) \o SpokenParts(c.calls, j)

\* All of them are what it says.
LEMMA HearsAll ==
  ASSUME NEW h, Sequence(h), NEW c, c.type = "chunk", Sequence(c.calls)
  PROVE  /\ Sequence(Thinks(h, c)) /\ Sequence(Talks(h, c))
         /\ Hears(h, c, 0) = Talks(h, c) /\ h \o SaidBy(c) = Hears(h, c, Len(c.calls))
         /\ \A j \in Nat : LET part == c.calls[j + 1] IN
              Hears(h, c, j + 1)
                = (Hears(h, c, j) \o OpenedBy(part)) \o Spoken("call", part.index, part.args)
<1> DEFINE s == Spoken("thought", None, c.thought)
           t == Spoken("text", None, c.text)
           u(j) == SpokenParts(c.calls, j)
<1>1. Len(c.calls) \in Nat
  BY SequenceFacts
<1>2. Sequence(s) /\ Sequence(t) /\ \A j \in Nat : Sequence(u(j))
  BY SpokenFacts, PartsMore
<1>3. SaidBy(c) = s \o t \o u(Len(c.calls))
  BY ChunkSays
<1>4. u(0) = <<>> /\ \A j \in Nat : u(j + 1) = u(j) \o SpokenPart(c.calls[j + 1])
  BY PartsMore
<1>5. /\ Thinks(h, c) = h \o s /\ Talks(h, c) = (h \o s) \o t
      /\ \A j : Hears(h, c, j) = ((h \o s) \o t) \o u(j)
  BY DEF Thinks, Talks, Hears
<1> HIDE DEF s, t, u
<1>6. Sequence(h \o s)
  BY <1>2, Joined
<1>7. Sequence((h \o s) \o t) /\ Sequence(s \o t)
  BY <1>2, <1>6, Joined
<1>8. ((h \o s) \o t) \o <<>> = (h \o s) \o t
  BY <1>7, NothingBefore
<1>9. h \o ((s \o t) \o u(Len(c.calls))) = ((h \o s) \o t) \o u(Len(c.calls))
  <2>1. Sequence(u(Len(c.calls)))
    BY <1>1, <1>2
  <2>2. h \o ((s \o t) \o u(Len(c.calls))) = (h \o (s \o t)) \o u(Len(c.calls))
    BY <1>7, <2>1, ThreeJoined, SMTT(30)
  <2>3. Sequence(h) /\ Sequence(s) /\ Sequence(t)
    BY <1>2
  <2>4. h \o (s \o t) = (h \o s) \o t
    BY <2>3, ThreeJoined
  <2> QED
    BY <2>2, <2>4
<1>10. ASSUME NEW j \in Nat
       PROVE  Hears(h, c, j + 1)
                = (Hears(h, c, j) \o OpenedBy(c.calls[j + 1]))
                  \o Spoken("call", c.calls[j + 1].index, c.calls[j + 1].args)
  <2> DEFINE part == c.calls[j + 1]
             o == OpenedBy(part)
             p == Spoken("call", part.index, part.args)
             g == Hears(h, c, j)
  <2>1. Sequence(o) /\ Sequence(p) /\ SpokenPart(part) = o \o p
    BY SpokenFacts
  <2>2. g = ((h \o s) \o t) \o u(j) /\ Sequence(u(j))
    BY <1>2, <1>5
  <2>3. Hears(h, c, j + 1) = ((h \o s) \o t) \o (u(j) \o SpokenPart(part))
    BY <1>4, <1>5
  <2> HIDE DEF part, o, p, g
  <2>4. Sequence(g) /\ Sequence(o \o p)
    BY <1>7, <2>1, <2>2, Joined
  <2>5. ((h \o s) \o t) \o (u(j) \o (o \o p)) = g \o (o \o p)
    <3> DEFINE a == (h \o s) \o t
               b == u(j)
               d == o \o p
    <3>1. Sequence(a) /\ Sequence(b) /\ Sequence(d) /\ g = a \o b
      BY <1>7, <2>2, <2>4
    <3> HIDE DEF a, b, d
    <3>2. a \o (b \o d) = (a \o b) \o d
      BY <3>1, ThreeJoined, SMTT(30)
    <3> QED
      BY <3>1, <3>2 DEF a, b, d
  <2>6. g \o (o \o p) = (g \o o) \o p
    BY <2>1, <2>4, ThreeJoined, SMTT(30)
  <2> QED
    BY <2>1, <2>3, <2>5, <2>6 DEF part, o, p, g
<1> QED
  BY <1>3, <1>4, <1>5, <1>6, <1>7, <1>8, <1>9, <1>10

\* A thought and a text may be absent; they are heeded.
LEMMA HeedsSpoken ==
  ASSUME NEW h, NEW n, Heeds(h, n), NEW kind, kind # "call", NEW key, NEW piece
  PROVE  Heeds(h \o Spoken(kind, key, piece), n)
<1>1. Sequence(h)
  BY DEF Heeds, Well
<1>2. CASE piece = None
  <2>1. Spoken(kind, key, piece) = <<>> /\ h \o <<>> = h
    BY <1>1, <1>2, NothingBefore DEF Spoken
  <2> QED
    BY <2>1
<1>3. CASE piece # None
  <2> DEFINE v == Said("piece", kind, key, piece)
  <2>1. Spoken(kind, key, piece) = <<v>> /\ v.act = "piece" /\ v.kind # "call"
    BY <1>3 DEF Spoken, Said
  <2> HIDE DEF v
  <2>2. Heeds(h \o <<v>>, n)
    BY <2>1, HeedsOther
  <2> QED
    BY <2>1, <2>2
<1> QED
  BY <1>2, <1>3

\* So is a part that fits.
LEMMA HeedsPart ==
  ASSUME NEW h, NEW n, Heeds(h, n), NEW part, NEW m, Fits(part, n, m)
  PROVE  /\ Heeds(h \o OpenedBy(part), m) /\ part.index \in 0..(m - 1) /\ m \in Nat
         /\ Heeds((h \o OpenedBy(part)) \o Spoken("call", part.index, part.args), m)
<1>1. Sequence(h) /\ n \in Nat
  BY DEF Heeds, Well
<1>2. part.index \in 0..(m - 1) /\ m \in Nat
  BY <1>1 DEF Fits
<1>3. Heeds(h \o OpenedBy(part), m)
  <2>1. CASE part.call = None
    <3>1. OpenedBy(part) = <<>> /\ h \o <<>> = h /\ m = n
      BY <1>1, <2>1, NothingBefore DEF OpenedBy, Fits
    <3> QED
      BY <3>1
  <2>2. CASE part.call # None
    <3> DEFINE v == Said("open", "call", part.index, part.call)
    <3>1. /\ OpenedBy(part) = <<v>> /\ v.act = "open" /\ v.kind = "call" /\ v.key = n
          /\ m = n + 1
      BY <2>2 DEF OpenedBy, Said, Fits
    <3> HIDE DEF v
    <3>2. Heeds(h \o <<v>>, n + 1)
      BY <3>1, HeedsOpen
    <3> QED
      BY <3>1, <3>2
  <2> QED
    BY <2>1, <2>2
<1>4. Heeds((h \o OpenedBy(part)) \o Spoken("call", part.index, part.args), m)
  <2> DEFINE g == h \o OpenedBy(part)
  <2>1. Heeds(g, m) /\ Sequence(g)
    BY <1>3 DEF Heeds, Well
  <2> HIDE DEF g
  <2>2. CASE part.args = None
    <3>1. Spoken("call", part.index, part.args) = <<>> /\ g \o <<>> = g
      BY <2>1, <2>2, NothingBefore DEF Spoken
    <3> QED
      BY <2>1, <3>1 DEF g
  <2>3. CASE part.args # None
    <3> DEFINE v == Said("piece", "call", part.index, part.args)
    <3>1. /\ Spoken("call", part.index, part.args) = <<v>> /\ v.act = "piece" /\ v.kind = "call"
          /\ v.key \in 0..(m - 1)
      BY <1>2, <2>3 DEF Spoken, Said
    <3> HIDE DEF v
    <3>2. Heeds(g \o <<v>>, m)
      BY <2>1, <3>1, HeedsPiece
    <3> QED
      BY <3>1, <3>2 DEF g
  <2> QED
    BY <2>2, <2>3
<1> QED
  BY <1>2, <1>3, <1>4

\* And so is a chunk whose parts fit.
LEMMA HeedsChunk ==
  ASSUME NEW h, NEW c, c.type = "chunk", NEW counts, PartsFit(c.calls, counts),
         Heeds(h, counts[0])
  PROVE  /\ Heeds(Thinks(h, c), counts[0])
         /\ \A j \in 0..Len(c.calls) : Heeds(Hears(h, c, j), counts[j])
<1>1. Sequence(h) /\ Sequence(c.calls) /\ Len(c.calls) \in Nat
  BY SequenceFacts DEF Heeds, Well, PartsFit
<1>2. Heeds(Thinks(h, c), counts[0])
  BY HeedsSpoken DEF Thinks
<1>3. Heeds(Talks(h, c), counts[0])
  BY <1>2, HeedsSpoken DEF Talks
<1>4. /\ Hears(h, c, 0) = Talks(h, c)
      /\ \A j \in Nat : LET part == c.calls[j + 1] IN
           Hears(h, c, j + 1)
             = (Hears(h, c, j) \o OpenedBy(part)) \o Spoken("call", part.index, part.args)
  BY <1>1, HearsAll
<1>5. ASSUME NEW m \in 0..Len(c.calls)
      PROVE  Heeds(Hears(h, c, m), counts[m])
  <2> DEFINE S == {j \in Nat : j <= m => Heeds(Hears(h, c, j), counts[j])}
  <2>1. 0 \in S
    BY <1>3, <1>4
  <2>2. ASSUME NEW j \in S, j \in Nat, j < m
        PROVE  j + 1 \in S
    <3> DEFINE part == c.calls[j + 1]
    <3>1. j + 1 \in 1..Len(c.calls) /\ j <= m /\ (j + 1) - 1 = j
      BY <1>1, <2>2
    <3>2. Heeds(Hears(h, c, j), counts[j])
      BY <2>2, <3>1
    <3>3. Fits(part, counts[(j + 1) - 1], counts[j + 1])
      BY <3>1 DEF PartsFit
    <3>4. Fits(part, counts[j], counts[j + 1])
      BY <3>1, <3>3
    <3>5. Hears(h, c, j + 1)
            = (Hears(h, c, j) \o OpenedBy(part)) \o Spoken("call", part.index, part.args)
      BY <1>4
    <3> HIDE DEF part
    <3>6. Heeds((Hears(h, c, j) \o OpenedBy(part)) \o Spoken("call", part.index, part.args),
                counts[j + 1])
      BY <3>2, <3>4, HeedsPart
    <3>7. Heeds(Hears(h, c, j + 1), counts[j + 1])
      BY <3>5, <3>6
    <3> QED
      BY <2>2, <3>7
  <2>3. m \in Nat
    BY <1>1
  <2> HIDE DEF S
  <2>4. m \in S
    BY <2>1, <2>2, <2>3, UpTo
  <2> QED
    BY <2>4 DEF S
<1> QED
  BY <1>2, <1>5

-----------------------------------------------------------------------------
(* One more frame.                                                         *)

\* It says one thing or nothing.
LEMMA FrameSays ==
  ASSUME NEW F, Sayings(F), NEW f, NEW u, SaidBy(f) = <<u>>
  PROVE  /\ Sayings(F \o <<f>>) /\ Transcript(F \o <<f>>) = Transcript(F) \o <<u>>
         /\ Sequence(F) /\ Sequence(Transcript(F))
<1>1. Sequence(F) /\ Sequence(Transcript(F))
  BY TranscriptSequence DEF Sayings
<1>2. Append(F, f) = F \o <<f>>
  BY <1>1, OneJoined
<1>3. Sequence(SaidBy(f))
  BY Short
<1>4. Transcript(Append(F, f)) = Transcript(F) \o SaidBy(f) /\ Sayings(Append(F, f))
  BY <1>3, TranscriptMore
<1> QED
  BY <1>1, <1>2, <1>4

\* One that says nothing adds nothing.
LEMMA FrameSilent ==
  ASSUME NEW F, Sayings(F), NEW f, SaidBy(f) = <<>>
  PROVE  /\ Sayings(F \o <<f>>) /\ Transcript(F \o <<f>>) = Transcript(F)
         /\ Sequence(F) /\ Sequence(Transcript(F))
<1>1. Sequence(F) /\ Sequence(Transcript(F))
  BY TranscriptSequence DEF Sayings
<1>2. Append(F, f) = F \o <<f>>
  BY <1>1, OneJoined
<1>3. Sequence(SaidBy(f))
  BY Short
<1>4. Transcript(Append(F, f)) = Transcript(F) \o SaidBy(f) /\ Sayings(Append(F, f))
  BY <1>3, TranscriptMore
<1>5. Transcript(F) \o <<>> = Transcript(F)
  BY <1>1, NothingBefore
<1> QED
  BY <1>1, <1>2, <1>4, <1>5

\* Its place is the last, and the first frame stays the first.
LEMMA FramePlace ==
  ASSUME NEW F, Sequence(F), NEW f
  PROVE  /\ Sequence(F \o <<f>>) /\ F \o <<f>> # <<>>
         /\ F # <<>> => (F \o <<f>>)[1] = F[1]
         /\ F = <<>> => F \o <<f>> = <<f>>
         /\ \A k \in DOMAIN (F \o <<f>>) :
              \/ k \in DOMAIN F /\ (F \o <<f>>)[k] = F[k]
              \/ (F \o <<f>>)[k] = f
<1>1. /\ Sequence(F \o <<f>>) /\ Len(F) \in Nat /\ DOMAIN F = 1..Len(F)
      /\ DOMAIN (F \o <<f>>) = 1..(Len(F) + 1) /\ (F \o <<f>>)[Len(F) + 1] = f
      /\ \A k \in 1..Len(F) : (F \o <<f>>)[k] = F[k]
  BY SaidLast
<1>2. F \o <<f>> # <<>>
  <2>1. Len(<<>>) = 0 /\ Len(F \o <<f>>) = Len(F) + 1
    BY SaidLast
  <2> QED
    BY <1>1, <2>1
<1>3. F # <<>> => Len(F) # 0
  BY <1>1, SameSequence, Short
<1>4. F # <<>> => (F \o <<f>>)[1] = F[1]
  BY <1>1, <1>3
<1>5. F = <<>> => F \o <<f>> = <<f>>
  <2>1. Sequence(<<f>>)
    BY Short
  <2>2. <<>> \o <<f>> = <<f>>
    BY <2>1, NothingBefore
  <2> QED
    BY <2>2
<1>6. ASSUME NEW k \in DOMAIN (F \o <<f>>)
      PROVE  \/ k \in DOMAIN F /\ (F \o <<f>>)[k] = F[k]
             \/ (F \o <<f>>)[k] = f
  <2>1. k \in 1..Len(F) \/ k = Len(F) + 1
    BY <1>1
  <2> QED
    BY <1>1, <2>1
<1> QED
  BY <1>1, <1>2, <1>4, <1>5, <1>6

-----------------------------------------------------------------------------
(* A Responses sink, frame by frame.                                       *)

\* Its items are different things.
LEMMA ItemsApart ==
  /\ TheThought # TheMessage
  /\ \A i : TheCall(i) # TheThought /\ TheCall(i) # TheMessage /\ TheCall(i).n = i
  /\ \A i, j : TheCall(i) = TheCall(j) => i = j
BY DEF TheThought, TheMessage, TheCall, Item

\* What its frames say.
LEMMA ItemFrames ==
  /\ SaidBy(Created) = <<>>
  /\ \A index, what :
       SaidBy(ItemAdded(TheThought, index, what)) = <<Said("open", "thought", TheThought, what)>>
  /\ \A index, what :
       SaidBy(ItemAdded(TheMessage, index, what)) = <<Said("open", "text", TheMessage, what)>>
  /\ \A i, index, what :
       SaidBy(ItemAdded(TheCall(i), index, what)) = <<Said("open", "call", TheCall(i), what)>>
  /\ \A index, piece :
       SaidBy(ItemDelta(TheThought, index, piece)) = <<Said("piece", "thought", TheThought, piece)>>
  /\ \A index, piece :
       SaidBy(ItemDelta(TheMessage, index, piece)) = <<Said("piece", "text", TheMessage, piece)>>
  /\ \A i, index, piece :
       SaidBy(ItemDelta(TheCall(i), index, piece)) = <<Said("piece", "call", TheCall(i), piece)>>
BY DEF SaidBy, Created, ItemAdded, ItemDelta, TheThought, TheMessage, TheCall, Item, KindOf

\* A frame is tracked, if the sink knows what it says.
LEMMA TracksFrame ==
  ASSUME NEW s, NEW F, NEW h, NEW n, Tracks(s, F, h, n), F # <<>>,
         NEW x, x = Transcript(F), NEW f, NEW u, SaidBy(f) = <<u>>,
         u.act \in {"open", "piece"}, MaySay(x, u, FALSE),
         NEW t, NEW i, NEW m, Agrees(x \o <<u>>, i, TRUE),
         t.thinking \in BOOLEAN, t.talking \in BOOLEAN, t.started = TRUE,
         Opened(x \o <<u>>) = Items(t), Pieces(t, x \o <<u>>),
         DOMAIN t.calls = 0..(m - 1),
         \A j \in DOMAIN t.calls : DOMAIN t.calls[j] = {"call", "args"},
         \A k \in 1..m : KeyOf(x \o <<u>>, k) = TheCall(k - 1)
  PROVE  Tracks(t, F \o <<f>>, i, m)
<1> DEFINE G == F \o <<f>>
<1>1. /\ Sayings(F) /\ Framed(x, FALSE) /\ Closed(x) = {} /\ F[1] = Created
  BY DEF Tracks
<1>2. /\ Sayings(G) /\ Transcript(G) = x \o <<u>> /\ Sequence(F) /\ Sequence(x)
  <2>1. /\ Sayings(F \o <<f>>) /\ Transcript(F \o <<f>>) = Transcript(F) \o <<u>>
        /\ Sequence(F) /\ Sequence(Transcript(F))
    BY <1>1, FrameSays
  <2> QED
    BY <2>1
<1>3. G # <<>> /\ G[1] = Created
  BY <1>1, <1>2, FramePlace
<1>4. Framed(x \o <<u>>, FALSE)
  BY <1>1, <1>2, FramedMore
<1>5. Closed(x \o <<u>>) = {}
  BY <1>1, <1>2, KeysSay
<1> HIDE DEF G
<1>6. Tracks(t, G, i, m)
  BY <1>2, <1>3, <1>4, <1>5 DEF Tracks
<1> QED
  BY <1>6 DEF G

\* What the sink holds of the pieces, after an item is opened,
LEMMA PiecesOpened ==
  ASSUME NEW x, Sequence(x), NEW u, u.act = "open", NEW s, Pieces(s, x),
         NEW t, t.thought = s.thought, t.text = s.text,
         \A i \in DOMAIN t.calls :
           \/ i \in DOMAIN s.calls /\ t.calls[i].args = s.calls[i].args
           \/ TheCall(i) \notin Opened(x) /\ t.calls[i].args = <<>>
  PROVE  Pieces(t, x \o <<u>>)
<1>1. \A key : ReadOf("key", key, x \o <<u>>) = ReadOf("key", key, x)
  BY KeyMore
<1>2. Opened(x \o <<u>>) = Opened(x) \cup {u.key}
  BY KeysSay
<1>3. \A i \in DOMAIN t.calls : ReadOf("key", TheCall(i), x) = t.calls[i].args
  BY DEF Pieces
<1> QED
  BY <1>1, <1>2, <1>3 DEF Pieces

\* and after a piece of one.
LEMMA PiecesSaid ==
  ASSUME NEW x, Sequence(x), NEW u, u.act = "piece", u.key \in Opened(x), NEW s, Pieces(s, x),
         NEW t, DOMAIN t.calls = DOMAIN s.calls,
         t.thought = IF u.key = TheThought THEN s.thought \o <<u.what>> ELSE s.thought,
         t.text = IF u.key = TheMessage THEN s.text \o <<u.what>> ELSE s.text,
         \A i \in DOMAIN s.calls :
           t.calls[i].args = IF u.key = TheCall(i) THEN s.calls[i].args \o <<u.what>>
                             ELSE s.calls[i].args
  PROVE  Pieces(t, x \o <<u>>)
<1> DEFINE more(key) == ReadOf("key", key, x) \o <<u.what>>
<1>1. \A key : ReadOf("key", key, x \o <<u>>)
                 = IF u.act = "piece" /\ u.key = key THEN more(key) ELSE ReadOf("key", key, x)
  BY KeyMore
<1>2. Opened(x \o <<u>>) = Opened(x)
  BY KeysSay
<1>3. /\ more(TheThought) = s.thought \o <<u.what>> /\ more(TheMessage) = s.text \o <<u.what>>
      /\ \A i \in DOMAIN s.calls : more(TheCall(i)) = s.calls[i].args \o <<u.what>>
  BY DEF Pieces
<1> HIDE DEF more
<1> QED
  BY <1>1, <1>2, <1>3 DEF Pieces

-----------------------------------------------------------------------------
(* A Responses sink, piece by piece.                                       *)

\* Frames that are sent come after those that were.
LEMMA OutMore ==
  ASSUME NEW R, Sequence(R), NEW out, Sequence(out), NEW f
  PROVE  R \o (out \o <<f>>) = (R \o out) \o <<f>>
<1>1. Sequence(<<f>>)
  BY Short
<1> QED
  BY <1>1, ThreeJoined

\* What a turn changes in the sink, field by field.
LEMMA ReasoningFields ==
  ASSUME NEW s, ResponsesSink(s)
  PROVE  LET e == EnsureReasoning(s) IN
         /\ e.thinking = TRUE /\ e.talking = s.talking /\ e.started = s.started
         /\ e.thought = s.thought /\ e.text = s.text /\ e.calls = s.calls
         /\ e.out = IF s.thinking THEN s.out ELSE s.out \o <<ItemAdded(TheThought, 0, None)>>
         /\ s.thinking => e = s
<1>1. CASE ~s.thinking
  BY <1>1 DEF EnsureReasoning, Send, ResponsesSink
<1>2. CASE s.thinking
  BY <1>2 DEF EnsureReasoning
<1> QED
  BY <1>1, <1>2

\* Opening the message,
LEMMA MessageFields ==
  ASSUME NEW s, ResponsesSink(s)
  PROVE  LET e == EnsureMessage(s) IN
         /\ e.talking = TRUE /\ e.thinking = s.thinking /\ e.started = s.started
         /\ e.thought = s.thought /\ e.text = s.text /\ e.calls = s.calls
         /\ e.out = IF s.talking THEN s.out
                    ELSE s.out \o <<ItemAdded(TheMessage, MessageIndex(s), None)>>
         /\ s.talking => e = s
<1>1. CASE ~s.talking
  BY <1>1 DEF EnsureMessage, Send, ResponsesSink
<1>2. CASE s.talking
  BY <1>2 DEF EnsureMessage
<1> QED
  BY <1>1, <1>2

\* opening a call,
LEMMA CallFields ==
  ASSUME NEW s, ResponsesSink(s), NEW part
  PROVE  LET e == EnsureCall(s, part) IN
         /\ e.talking = s.talking /\ e.thinking = s.thinking /\ e.started = s.started
         /\ e.thought = s.thought /\ e.text = s.text
         /\ part.index \in DOMAIN s.calls => e = s
         /\ part.index \notin DOMAIN s.calls =>
              /\ e.calls = With(s.calls, part.index, [call |-> part.call, args |-> <<>>])
              /\ e.out = s.out \o <<ItemAdded(TheCall(part.index), CallIndex(s, part.index),
                                              part.call)>>
<1>1. CASE part.index \notin DOMAIN s.calls
  BY <1>1 DEF EnsureCall, Send, ResponsesSink
<1>2. CASE part.index \in DOMAIN s.calls
  BY <1>2 DEF EnsureCall
<1> QED
  BY <1>1, <1>2

\* a piece of the thought,
LEMMA ThoughtFields ==
  ASSUME NEW s, ResponsesSink(s), NEW piece, piece # None
  PROVE  LET e == EnsureReasoning(s)
             t == ThinkToResponses(s, piece)
         IN /\ t.thinking = e.thinking /\ t.talking = e.talking /\ t.started = e.started
            /\ t.thought = Append(e.thought, piece) /\ t.text = e.text /\ t.calls = e.calls
            /\ t.out = e.out \o <<ItemDelta(TheThought, 0, piece)>>
<1> DEFINE e == EnsureReasoning(s)
<1>1. ResponsesSink(e)
  BY Ensured DEF StaysResponses
<1>2. ThinkToResponses(s, piece)
        = Send([e EXCEPT !.thought = Append(@, piece)], <<ItemDelta(TheThought, 0, piece)>>)
  BY DEF ThinkToResponses
<1> HIDE DEF e
<1> QED
  BY <1>1, <1>2 DEF Send, ResponsesSink, e

\* one of the text,
LEMMA TextFields ==
  ASSUME NEW s, ResponsesSink(s), NEW piece, piece # None
  PROVE  LET e == EnsureMessage(s)
             t == TalkToResponses(s, piece)
         IN /\ t.thinking = e.thinking /\ t.talking = e.talking /\ t.started = e.started
            /\ t.text = Append(e.text, piece) /\ t.thought = e.thought /\ t.calls = e.calls
            /\ t.out = e.out \o <<ItemDelta(TheMessage, MessageIndex(e), piece)>>
<1> DEFINE e == EnsureMessage(s)
<1>1. ResponsesSink(e)
  BY Ensured DEF StaysResponses
<1>2. TalkToResponses(s, piece)
        = Send([e EXCEPT !.text = Append(@, piece)],
               <<ItemDelta(TheMessage, MessageIndex(e), piece)>>)
  BY SMTT(30) DEF TalkToResponses
<1> HIDE DEF e
<1> QED
  BY <1>1, <1>2 DEF Send, ResponsesSink, e

\* and one of a call.
LEMMA ArgsFields ==
  ASSUME NEW s, ResponsesSink(s), NEW part, NEW e, e = EnsureCall(s, part)
  PROVE  /\ part.args = None => CallToResponses(s, part) = e
         /\ part.args # None /\ part.index \in DOMAIN e.calls
              /\ DOMAIN e.calls[part.index] = {"call", "args"} =>
            LET t == CallToResponses(s, part) IN
            /\ t.thinking = e.thinking /\ t.talking = e.talking /\ t.started = e.started
            /\ t.text = e.text /\ t.thought = e.thought /\ DOMAIN t.calls = DOMAIN e.calls
            /\ \A i \in DOMAIN e.calls : i # part.index => t.calls[i] = e.calls[i]
            /\ t.calls[part.index].args = Append(e.calls[part.index].args, part.args)
            /\ DOMAIN t.calls[part.index] = {"call", "args"}
            /\ t.out = e.out \o <<ItemDelta(TheCall(part.index), CallIndex(e, part.index),
                                            part.args)>>
<1>1. ResponsesSink(e)
  BY Ensured DEF StaysResponses
<1>2. CallToResponses(s, part)
        = IF part.args = None THEN e
          ELSE Send([e EXCEPT !.calls[part.index].args = Append(@, part.args)],
                    <<ItemDelta(TheCall(part.index), CallIndex(e, part.index), part.args)>>)
  BY SMTT(30) DEF CallToResponses
<1>3. ASSUME part.args # None, part.index \in DOMAIN e.calls,
             DOMAIN e.calls[part.index] = {"call", "args"}
      PROVE  LET t == CallToResponses(s, part) IN
             /\ t.thinking = e.thinking /\ t.talking = e.talking /\ t.started = e.started
             /\ t.text = e.text /\ t.thought = e.thought /\ DOMAIN t.calls = DOMAIN e.calls
             /\ \A i \in DOMAIN e.calls : i # part.index => t.calls[i] = e.calls[i]
             /\ t.calls[part.index].args = Append(e.calls[part.index].args, part.args)
             /\ DOMAIN t.calls[part.index] = {"call", "args"}
             /\ t.out = e.out \o <<ItemDelta(TheCall(part.index), CallIndex(e, part.index),
                                             part.args)>>
  <2> DEFINE t == CallToResponses(s, part)
             u == [e EXCEPT !.calls[part.index].args = Append(@, part.args)]
  <2>1. /\ u.thinking = e.thinking /\ u.talking = e.talking /\ u.started = e.started
        /\ u.text = e.text /\ u.thought = e.thought /\ u.out = e.out
        /\ DOMAIN u = DOMAIN e
    BY <1>1 DEF ResponsesSink
  <2>2. u.calls = [e.calls EXCEPT ![part.index]
                     = [e.calls[part.index] EXCEPT !.args = Append(@, part.args)]]
    BY <1>1 DEF ResponsesSink
  <2>3. /\ DOMAIN u.calls = DOMAIN e.calls
        /\ \A i \in DOMAIN e.calls : i # part.index => u.calls[i] = e.calls[i]
        /\ u.calls[part.index].args = Append(e.calls[part.index].args, part.args)
        /\ DOMAIN u.calls[part.index] = {"call", "args"}
    BY <1>3, <2>2
  <2>4. t = Send(u, <<ItemDelta(TheCall(part.index), CallIndex(e, part.index), part.args)>>)
    BY <1>2, <1>3
  <2> HIDE DEF t, u
  <2>5. /\ t.thinking = u.thinking /\ t.talking = u.talking /\ t.started = u.started
        /\ t.text = u.text /\ t.thought = u.thought /\ t.calls = u.calls
        /\ t.out = u.out \o <<ItemDelta(TheCall(part.index), CallIndex(e, part.index), part.args)>>
    BY <1>1, <2>1, <2>4 DEF Send, ResponsesSink
  <2> QED
    BY <2>1, <2>3, <2>5 DEF t
<1> QED
  BY <1>2, <1>3

-----------------------------------------------------------------------------
(* A Responses sink tracks what it says.                                   *)

\* What is tracked.
LEMMA TracksFacts ==
  ASSUME NEW s, NEW F, NEW h, NEW n, Tracks(s, F, h, n)
  PROVE  /\ Sequence(F) /\ Sequence(Transcript(F)) /\ Sayings(F)
         /\ Well(Transcript(F)) /\ Well(h) /\ Sequence(h) /\ Agrees(Transcript(F), h, TRUE)
         /\ Sequence(s.thought) /\ Sequence(s.text)
         /\ \A i \in DOMAIN s.calls : Sequence(s.calls[i].args)
<1>1. Sayings(F) /\ Agrees(Transcript(F), h, TRUE) /\ Pieces(s, Transcript(F))
  BY DEF Tracks
<1>2. Well(Transcript(F)) /\ Well(h) /\ Sequence(h) /\ Sequence(Transcript(F))
  BY <1>1 DEF Agrees, Well
<1>3. \A key : Sequence(ReadOf("key", key, Transcript(F)))
  BY <1>2, ReadSequence, ReadsOf
<1>4. /\ Sequence(s.thought) /\ Sequence(s.text)
      /\ \A i \in DOMAIN s.calls : Sequence(s.calls[i].args)
  BY <1>1, <1>3 DEF Pieces
<1> QED
  BY <1>1, <1>2, <1>4 DEF Sayings

\* It opens the thought,
LEMMA OpensThought ==
  ASSUME NEW s, ResponsesSink(s), NEW R, Sequence(R), NEW h, NEW n,
         Tracks(s, R \o s.out, h, n), R \o s.out # <<>>
  PROVE  LET e == EnsureReasoning(s) IN Tracks(e, R \o e.out, h, n) /\ R \o e.out # <<>>
<1> DEFINE e == EnsureReasoning(s)
           f == ItemAdded(TheThought, 0, None)
           u == Said("open", "thought", TheThought, None)
           F == R \o s.out
           x == Transcript(F)
<1>1. /\ e.thinking = TRUE /\ e.talking = s.talking /\ e.started = s.started
      /\ e.thought = s.thought /\ e.text = s.text /\ e.calls = s.calls
      /\ e.out = IF s.thinking THEN s.out ELSE s.out \o <<f>>
      /\ s.thinking => e = s
  BY ReasoningFields
<1>2. CASE s.thinking
  BY <1>1, <1>2
<1>3. CASE ~s.thinking
  <2>1. Sequence(s.out)
    BY DEF ResponsesSink, Quiet
  <2>2. R \o e.out = F \o <<f>>
    <3>1. PICK o : o = s.out
      OBVIOUS
    <3>2. Sequence(o) /\ e.out = o \o <<f>>
      BY <1>1, <1>3, <2>1, <3>1
    <3>3. R \o (o \o <<f>>) = (R \o o) \o <<f>>
      <4> HIDE DEF f
      <4> QED
        BY <3>2, OutMore
    <3> QED
      BY <3>1, <3>2, <3>3
  <2>3. SaidBy(f) = <<u>> /\ u.act = "open" /\ u.kind = "thought" /\ u.key = TheThought
    BY ItemFrames DEF Said
  <2>4. /\ Opened(x) = Items(s) /\ Pieces(s, x) /\ s.talking \in BOOLEAN
        /\ DOMAIN s.calls = 0..(n - 1) /\ \A k \in 1..n : KeyOf(x, k) = TheCall(k - 1)
        /\ \A i \in DOMAIN s.calls : DOMAIN s.calls[i] = {"call", "args"}
        /\ s.started = (F # <<>>)
    BY DEF Tracks
  <2>5. Agrees(x, h, TRUE) /\ Sequence(x)
    BY TracksFacts
  <2> HIDE DEF f, u, F, x, e
  <2>6. Agrees(x \o <<u>>, h, TRUE) /\ CallsIn(x \o <<u>>) = CallsIn(x)
    BY <2>3, <2>5, AgreeNoise
  <2>7. Opened(x \o <<u>>) = Opened(x) \cup {TheThought}
    BY <2>3, <2>5, KeysSay
  <2>8. Opened(x \o <<u>>) = Items(e) /\ TheThought \notin Opened(x)
    BY <1>1, <1>3, <2>4, <2>7, ItemsApart DEF Items
  <2>9. MaySay(x, u, FALSE)
    BY <2>3, <2>8 DEF MaySay
  <2>10. \A i \in DOMAIN e.calls : i \in DOMAIN s.calls /\ e.calls[i].args = s.calls[i].args
    BY <1>1
  <2>11. Pieces(e, x \o <<u>>)
    BY <1>1, <2>3, <2>4, <2>5, <2>10, PiecesOpened
  <2>12. \A k \in 1..n : KeyOf(x \o <<u>>, k) = TheCall(k - 1)
    BY <2>4, <2>6 DEF KeyOf
  <2>13. F # <<>> /\ e.started = TRUE /\ e.thinking \in BOOLEAN /\ e.talking \in BOOLEAN
    BY <1>1, <2>4 DEF F
  <2>14. Tracks(e, F \o <<f>>, h, n)
    <3>1. Tracks(s, F, h, n) /\ x = Transcript(F)
      BY DEF F, x
    <3>2. /\ u.act \in {"open", "piece"} /\ DOMAIN e.calls = 0..(n - 1)
          /\ \A j \in DOMAIN e.calls : DOMAIN e.calls[j] = {"call", "args"}
      BY <1>1, <2>3, <2>4
    <3> QED
      BY <2>3, <2>6, <2>8, <2>9, <2>11, <2>12, <2>13, <3>1, <3>2, TracksFrame
  <2>15. F \o <<f>> # <<>>
    BY TracksFacts, FramePlace DEF F
  <2> QED
    BY <2>2, <2>14, <2>15 DEF e
<1> QED
  BY <1>2, <1>3

\* says a piece of it,
LEMMA ThinkTracks ==
  ASSUME NEW s, ResponsesSink(s), NEW R, Sequence(R), NEW h, NEW n,
         Tracks(s, R \o s.out, h, n), R \o s.out # <<>>, NEW piece, piece # None
  PROVE  LET t == ThinkToResponses(s, piece) IN
         /\ Tracks(t, R \o t.out, h \o Spoken("thought", None, piece), n)
         /\ R \o t.out # <<>>
<1> DEFINE e == EnsureReasoning(s)
           t == ThinkToResponses(s, piece)
           f == ItemDelta(TheThought, 0, piece)
           u == Said("piece", "thought", TheThought, piece)
           v == Said("piece", "thought", None, piece)
           F == R \o e.out
           x == Transcript(F)
<1>1. /\ t.thinking = e.thinking /\ t.talking = e.talking /\ t.started = e.started
      /\ t.thought = Append(e.thought, piece) /\ t.text = e.text /\ t.calls = e.calls
      /\ t.out = e.out \o <<f>>
  BY ThoughtFields
<1>2. Tracks(e, F, h, n) /\ F # <<>> /\ e.thinking = TRUE
  BY OpensThought, ReasoningFields
<1>3. Sequence(e.out)
  <2>1. ResponsesSink(e)
    BY Ensured DEF StaysResponses
  <2> HIDE DEF e
  <2> QED
    BY <2>1 DEF ResponsesSink, Quiet
<1>4. R \o t.out = F \o <<f>>
  <2>1. PICK o : o = e.out
    OBVIOUS
  <2>2. Sequence(o) /\ t.out = o \o <<f>>
    BY <1>1, <1>3, <2>1
  <2>3. R \o (o \o <<f>>) = (R \o o) \o <<f>>
    <3> HIDE DEF f
    <3> QED
      BY <2>2, OutMore
  <2> QED
    BY <2>1, <2>2, <2>3
<1>5. SaidBy(f) = <<u>> /\ u.act = "piece" /\ u.kind = "thought" /\ u.key = TheThought
  BY ItemFrames DEF Said
<1>6. v.act = "piece" /\ v.kind = "thought" /\ u.what = piece /\ v.what = piece
  BY DEF Said
<1>7. Spoken("thought", None, piece) = <<v>>
  BY DEF Spoken
<1> HIDE DEF f, u, v, F, x, e, t
<1>8. /\ Opened(x) = Items(e) /\ Closed(x) = {} /\ Pieces(e, x)
      /\ e.talking \in BOOLEAN
      /\ DOMAIN e.calls = 0..(n - 1) /\ \A k \in 1..n : KeyOf(x, k) = TheCall(k - 1)
      /\ \A i \in DOMAIN e.calls : DOMAIN e.calls[i] = {"call", "args"}
      /\ e.started = (F # <<>>)
  BY <1>2 DEF Tracks, x
<1>9. Agrees(x, h, TRUE) /\ Sequence(x) /\ Sequence(e.thought) /\ Sequence(h)
  BY <1>2, TracksFacts DEF x
<1>10. Agrees(x \o <<u>>, h \o <<v>>, TRUE)
  BY <1>5, <1>6, <1>9, AgreeThought
<1>11. Opened(x \o <<u>>) = Opened(x) /\ KindsIn(h \o <<v>>) = KindsIn(h) \cup {"thought"}
  BY <1>5, <1>6, <1>9, KeysSay
<1>12. TheThought \in Opened(x) /\ Opened(x \o <<u>>) = Items(t)
  BY <1>1, <1>2, <1>8, <1>11 DEF Items
<1>13. MaySay(x, u, FALSE)
  BY <1>5, <1>8, <1>12 DEF MaySay
<1>14. Pieces(t, x \o <<u>>)
  <2>1. Append(e.thought, piece) = e.thought \o <<piece>>
    <3>1. PICK o : o = e.thought
      OBVIOUS
    <3>2. Append(o, piece) = o \o <<piece>>
      BY <1>9, <3>1, OneJoined
    <3> QED
      BY <3>1, <3>2
  <2>2. u.key # TheMessage /\ \A i : u.key # TheCall(i)
    BY <1>5, ItemsApart
  <2>3. /\ t.thought = IF u.key = TheThought THEN e.thought \o <<u.what>> ELSE e.thought
        /\ t.text = IF u.key = TheMessage THEN e.text \o <<u.what>> ELSE e.text
        /\ \A i \in DOMAIN e.calls :
             t.calls[i].args = IF u.key = TheCall(i) THEN e.calls[i].args \o <<u.what>>
                               ELSE e.calls[i].args
    BY <1>1, <1>5, <1>6, <2>1, <2>2
  <2>4. u.key \in Opened(x) /\ DOMAIN t.calls = DOMAIN e.calls
    BY <1>1, <1>5, <1>12
  <2> QED
    BY <1>5, <1>8, <1>9, <2>3, <2>4, PiecesSaid
<1>15. \A k \in 1..n : KeyOf(x \o <<u>>, k) = TheCall(k - 1)
  <2>1. CallsIn(x \o <<u>>) = CallsIn(x)
    BY <1>5, <1>9, CallsMore
  <2> QED
    BY <1>8, <2>1 DEF KeyOf
<1>16. /\ u.act \in {"open", "piece"} /\ DOMAIN t.calls = 0..(n - 1)
       /\ \A j \in DOMAIN t.calls : DOMAIN t.calls[j] = {"call", "args"}
       /\ t.thinking \in BOOLEAN /\ t.talking \in BOOLEAN /\ t.started = TRUE
       /\ x = Transcript(F)
  BY <1>1, <1>2, <1>5, <1>8, <1>11 DEF x
<1>17. Tracks(t, F \o <<f>>, h \o <<v>>, n)
  BY <1>2, <1>5, <1>10, <1>12, <1>13, <1>14, <1>15, <1>16, TracksFrame
<1>18. F \o <<f>> # <<>>
  BY <1>2, TracksFacts, FramePlace
<1> QED
  BY <1>4, <1>7, <1>17, <1>18 DEF t

\* opens the message,
LEMMA OpensMessage ==
  ASSUME NEW s, ResponsesSink(s), NEW R, Sequence(R), NEW h, NEW n,
         Tracks(s, R \o s.out, h, n), R \o s.out # <<>>
  PROVE  LET e == EnsureMessage(s) IN Tracks(e, R \o e.out, h, n) /\ R \o e.out # <<>>
<1> DEFINE e == EnsureMessage(s)
           f == ItemAdded(TheMessage, MessageIndex(s), None)
           u == Said("open", "text", TheMessage, None)
           F == R \o s.out
           x == Transcript(F)
<1>1. /\ e.talking = TRUE /\ e.thinking = s.thinking /\ e.started = s.started
      /\ e.thought = s.thought /\ e.text = s.text /\ e.calls = s.calls
      /\ e.out = IF s.talking THEN s.out ELSE s.out \o <<f>>
      /\ s.talking => e = s
  BY MessageFields
<1>2. CASE s.talking
  BY <1>1, <1>2
<1>3. CASE ~s.talking
  <2>1. Sequence(s.out)
    BY DEF ResponsesSink, Quiet
  <2>2. R \o e.out = F \o <<f>>
    <3>1. PICK o : o = s.out
      OBVIOUS
    <3>2. Sequence(o) /\ e.out = o \o <<f>>
      BY <1>1, <1>3, <2>1, <3>1
    <3>3. R \o (o \o <<f>>) = (R \o o) \o <<f>>
      <4> HIDE DEF f
      <4> QED
        BY <3>2, OutMore
    <3> QED
      BY <3>1, <3>2, <3>3
  <2>3. SaidBy(f) = <<u>> /\ u.act = "open" /\ u.kind = "text" /\ u.key = TheMessage
    BY ItemFrames DEF Said
  <2>4. /\ Opened(x) = Items(s) /\ Pieces(s, x) /\ s.thinking \in BOOLEAN
        /\ DOMAIN s.calls = 0..(n - 1) /\ \A k \in 1..n : KeyOf(x, k) = TheCall(k - 1)
        /\ \A i \in DOMAIN s.calls : DOMAIN s.calls[i] = {"call", "args"}
        /\ s.started = (F # <<>>)
    BY DEF Tracks
  <2>5. Agrees(x, h, TRUE) /\ Sequence(x)
    BY TracksFacts
  <2> HIDE DEF f, u, F, x, e
  <2>6. Agrees(x \o <<u>>, h, TRUE) /\ CallsIn(x \o <<u>>) = CallsIn(x)
    BY <2>3, <2>5, AgreeNoise
  <2>7. Opened(x \o <<u>>) = Opened(x) \cup {TheMessage}
    BY <2>3, <2>5, KeysSay
  <2>8. Opened(x \o <<u>>) = Items(e) /\ TheMessage \notin Opened(x)
    BY <1>1, <1>3, <2>4, <2>7, ItemsApart DEF Items
  <2>9. MaySay(x, u, FALSE)
    BY <2>3, <2>8 DEF MaySay
  <2>10. \A i \in DOMAIN e.calls : i \in DOMAIN s.calls /\ e.calls[i].args = s.calls[i].args
    BY <1>1
  <2>11. Pieces(e, x \o <<u>>)
    BY <1>1, <2>3, <2>4, <2>5, <2>10, PiecesOpened
  <2>12. \A k \in 1..n : KeyOf(x \o <<u>>, k) = TheCall(k - 1)
    BY <2>4, <2>6 DEF KeyOf
  <2>13. F # <<>> /\ e.started = TRUE /\ e.thinking \in BOOLEAN /\ e.talking \in BOOLEAN
    BY <1>1, <2>4 DEF F
  <2>14. Tracks(e, F \o <<f>>, h, n)
    <3>1. Tracks(s, F, h, n) /\ x = Transcript(F)
      BY DEF F, x
    <3>2. /\ u.act \in {"open", "piece"} /\ DOMAIN e.calls = 0..(n - 1)
          /\ \A j \in DOMAIN e.calls : DOMAIN e.calls[j] = {"call", "args"}
      BY <1>1, <2>3, <2>4
    <3> QED
      BY <2>3, <2>6, <2>8, <2>9, <2>11, <2>12, <2>13, <3>1, <3>2, TracksFrame
  <2>15. F \o <<f>> # <<>>
    BY TracksFacts, FramePlace DEF F
  <2> QED
    BY <2>2, <2>14, <2>15 DEF e
<1> QED
  BY <1>2, <1>3

\* says a piece of it,
LEMMA TalkTracks ==
  ASSUME NEW s, ResponsesSink(s), NEW R, Sequence(R), NEW h, NEW n,
         Tracks(s, R \o s.out, h, n), R \o s.out # <<>>, NEW piece, piece # None
  PROVE  LET t == TalkToResponses(s, piece) IN
         /\ Tracks(t, R \o t.out, h \o Spoken("text", None, piece), n)
         /\ R \o t.out # <<>>
<1> DEFINE e == EnsureMessage(s)
           t == TalkToResponses(s, piece)
           f == ItemDelta(TheMessage, MessageIndex(e), piece)
           u == Said("piece", "text", TheMessage, piece)
           v == Said("piece", "text", None, piece)
           F == R \o e.out
           x == Transcript(F)
<1>1. /\ t.thinking = e.thinking /\ t.talking = e.talking /\ t.started = e.started
      /\ t.text = Append(e.text, piece) /\ t.thought = e.thought /\ t.calls = e.calls
      /\ t.out = e.out \o <<f>>
  BY TextFields
<1>2. Tracks(e, F, h, n) /\ F # <<>> /\ e.talking = TRUE
  BY OpensMessage, MessageFields
<1>3. Sequence(e.out)
  <2>1. ResponsesSink(e)
    BY Ensured DEF StaysResponses
  <2> HIDE DEF e
  <2> QED
    BY <2>1 DEF ResponsesSink, Quiet
<1>4. R \o t.out = F \o <<f>>
  <2>1. PICK o : o = e.out
    OBVIOUS
  <2>2. Sequence(o) /\ t.out = o \o <<f>>
    BY <1>1, <1>3, <2>1
  <2>3. R \o (o \o <<f>>) = (R \o o) \o <<f>>
    <3> HIDE DEF f
    <3> QED
      BY <2>2, OutMore
  <2> QED
    BY <2>1, <2>2, <2>3
<1>5. SaidBy(f) = <<u>> /\ u.act = "piece" /\ u.kind = "text" /\ u.key = TheMessage
  BY ItemFrames DEF Said
<1>6. v.act = "piece" /\ v.kind = "text" /\ u.what = piece /\ v.what = piece
  BY DEF Said
<1>7. Spoken("text", None, piece) = <<v>>
  BY DEF Spoken
<1> HIDE DEF f, u, v, F, x, e, t
<1>8. /\ Opened(x) = Items(e) /\ Closed(x) = {} /\ Pieces(e, x)
      /\ e.thinking \in BOOLEAN
      /\ DOMAIN e.calls = 0..(n - 1) /\ \A k \in 1..n : KeyOf(x, k) = TheCall(k - 1)
      /\ \A i \in DOMAIN e.calls : DOMAIN e.calls[i] = {"call", "args"}
      /\ e.started = (F # <<>>)
  BY <1>2 DEF Tracks, x
<1>9. Agrees(x, h, TRUE) /\ Sequence(x) /\ Sequence(e.text) /\ Sequence(h)
  BY <1>2, TracksFacts DEF x
<1>10. Agrees(x \o <<u>>, h \o <<v>>, TRUE)
  BY <1>5, <1>6, <1>9, AgreeText
<1>11. Opened(x \o <<u>>) = Opened(x) /\ KindsIn(h \o <<v>>) = KindsIn(h) \cup {"text"}
  BY <1>5, <1>6, <1>9, KeysSay
<1>12. TheMessage \in Opened(x) /\ Opened(x \o <<u>>) = Items(t)
  BY <1>1, <1>2, <1>8, <1>11 DEF Items
<1>13. MaySay(x, u, FALSE)
  BY <1>5, <1>8, <1>12 DEF MaySay
<1>14. Pieces(t, x \o <<u>>)
  <2>1. Append(e.text, piece) = e.text \o <<piece>>
    <3>1. PICK o : o = e.text
      OBVIOUS
    <3>2. Append(o, piece) = o \o <<piece>>
      BY <1>9, <3>1, OneJoined
    <3> QED
      BY <3>1, <3>2
  <2>2. u.key # TheThought /\ \A i : u.key # TheCall(i)
    BY <1>5, ItemsApart
  <2>3. /\ t.thought = IF u.key = TheThought THEN e.thought \o <<u.what>> ELSE e.thought
        /\ t.text = IF u.key = TheMessage THEN e.text \o <<u.what>> ELSE e.text
        /\ \A i \in DOMAIN e.calls :
             t.calls[i].args = IF u.key = TheCall(i) THEN e.calls[i].args \o <<u.what>>
                               ELSE e.calls[i].args
    BY <1>1, <1>5, <1>6, <2>1, <2>2
  <2>4. u.key \in Opened(x) /\ DOMAIN t.calls = DOMAIN e.calls
    BY <1>1, <1>5, <1>12
  <2> QED
    BY <1>5, <1>8, <1>9, <2>3, <2>4, PiecesSaid
<1>15. \A k \in 1..n : KeyOf(x \o <<u>>, k) = TheCall(k - 1)
  <2>1. CallsIn(x \o <<u>>) = CallsIn(x)
    BY <1>5, <1>9, CallsMore
  <2> QED
    BY <1>8, <2>1 DEF KeyOf
<1>16. /\ u.act \in {"open", "piece"} /\ DOMAIN t.calls = 0..(n - 1)
       /\ \A j \in DOMAIN t.calls : DOMAIN t.calls[j] = {"call", "args"}
       /\ t.thinking \in BOOLEAN /\ t.talking \in BOOLEAN /\ t.started = TRUE
       /\ x = Transcript(F)
  BY <1>1, <1>2, <1>5, <1>8, <1>11 DEF x
<1>17. Tracks(t, F \o <<f>>, h \o <<v>>, n)
  BY <1>2, <1>5, <1>10, <1>12, <1>13, <1>14, <1>15, <1>16, TracksFrame
<1>18. F \o <<f>> # <<>>
  BY <1>2, TracksFacts, FramePlace
<1> QED
  BY <1>4, <1>7, <1>17, <1>18 DEF t

\* opens a call,
LEMMA OpensCall ==
  ASSUME NEW s, ResponsesSink(s), NEW R, Sequence(R), NEW h, NEW n, Heeds(h, n),
         Tracks(s, R \o s.out, h, n), R \o s.out # <<>>,
         NEW part, NEW m, Fits(part, n, m)
  PROVE  LET e == EnsureCall(s, part) IN
         /\ Tracks(e, R \o e.out, h \o OpenedBy(part), m) /\ R \o e.out # <<>>
         /\ part.index \in DOMAIN e.calls
<1> DEFINE e == EnsureCall(s, part)
           f == ItemAdded(TheCall(part.index), CallIndex(s, part.index), part.call)
           u == Said("open", "call", TheCall(part.index), part.call)
           v == Said("open", "call", part.index, part.call)
           F == R \o s.out
           x == Transcript(F)
<1>1. /\ e.talking = s.talking /\ e.thinking = s.thinking /\ e.started = s.started
      /\ e.thought = s.thought /\ e.text = s.text
      /\ part.index \in DOMAIN s.calls => e = s
      /\ part.index \notin DOMAIN s.calls =>
           /\ e.calls = With(s.calls, part.index, [call |-> part.call, args |-> <<>>])
           /\ e.out = s.out \o <<f>>
  BY CallFields
<1>2. DOMAIN s.calls = 0..(n - 1) /\ n \in Nat /\ Sequence(h)
  BY DEF Tracks, Heeds, Well
<1>3. CASE part.call = None
  <2>1. OpenedBy(part) = <<>> /\ part.index \in DOMAIN s.calls /\ m = n
    BY <1>2, <1>3 DEF OpenedBy, Fits
  <2>2. h \o <<>> = h
    BY <1>2, NothingBefore
  <2> QED
    BY <1>1, <2>1, <2>2
<1>4. CASE part.call # None
  <2>1. part.index = n /\ m = n + 1 /\ part.index \notin DOMAIN s.calls
    BY <1>2, <1>4 DEF Fits
  <2>2. OpenedBy(part) = <<v>>
    BY <1>4 DEF OpenedBy
  <2>3. Sequence(s.out)
    BY DEF ResponsesSink, Quiet
  <2>4. R \o e.out = F \o <<f>>
    <3>1. PICK o : o = s.out
      OBVIOUS
    <3>2. Sequence(o) /\ e.out = o \o <<f>>
      BY <1>1, <2>1, <2>3, <3>1
    <3>3. R \o (o \o <<f>>) = (R \o o) \o <<f>>
      <4> HIDE DEF f
      <4> QED
        BY <3>2, OutMore
    <3> QED
      BY <3>1, <3>2, <3>3
  <2>5. /\ SaidBy(f) = <<u>> /\ u.act = "open" /\ u.kind = "call" /\ u.key = TheCall(n)
        /\ v.act = "open" /\ v.kind = "call" /\ v.key = n
        /\ u.what = part.call /\ v.what = part.call
    BY <2>1, ItemFrames DEF Said
  <2>6. /\ Opened(x) = Items(s) /\ Pieces(s, x)
        /\ s.talking \in BOOLEAN /\ s.thinking \in BOOLEAN
        /\ \A k \in 1..n : KeyOf(x, k) = TheCall(k - 1)
        /\ \A i \in DOMAIN s.calls : DOMAIN s.calls[i] = {"call", "args"}
        /\ s.started = (F # <<>>)
    BY DEF Tracks
  <2>7. Agrees(x, h, TRUE) /\ Sequence(x) /\ Well(x)
    BY TracksFacts
  <2>8. F # <<>> /\ Tracks(s, F, h, n) /\ x = Transcript(F)
    OBVIOUS
  <2>9. Len(CallsIn(h)) = n
    BY DEF Heeds
  <2> HIDE DEF f, u, v, F, x, e
  <2>10. TheCall(n) \notin Opened(x)
    BY <1>2, <2>1, <2>6, ItemsApart DEF Items
  <2>11. v.key \notin Opened(h)
    BY <2>5, HeedsOpen
  <2>12. Agrees(x \o <<u>>, h \o <<v>>, TRUE)
    BY <2>5, <2>7, <2>10, <2>11, AgreeOpen
  <2>13. Opened(x \o <<u>>) = Opened(x) \cup {TheCall(n)}
    BY <2>5, <2>7, KeysSay
  <2>14. DOMAIN e.calls = DOMAIN s.calls \cup {n}
    <3>1. PICK y, z : y = s.calls /\ z = [call |-> part.call, args |-> <<>>]
      OBVIOUS
    <3>2. e.calls = With(y, n, z)
      BY <1>1, <2>1, <3>1
    <3>3. DOMAIN With(y, n, z) = DOMAIN y \cup {n}
      BY WithFacts
    <3> QED
      BY <3>1, <3>2, <3>3
  <2>15. /\ e.calls[n].args = <<>> /\ DOMAIN e.calls[n] = {"call", "args"}
         /\ \A i \in DOMAIN s.calls : e.calls[i] = s.calls[i]
    BY <1>1, <2>1 DEF With
  <2>16. Opened(x \o <<u>>) = Items(e)
    BY <1>1, <2>6, <2>13, <2>14 DEF Items
  <2>17. MaySay(x, u, FALSE)
    BY <2>5, <2>10 DEF MaySay
  <2>18. Pieces(e, x \o <<u>>)
    <3>1. \A i \in DOMAIN e.calls :
            \/ i \in DOMAIN s.calls /\ e.calls[i].args = s.calls[i].args
            \/ TheCall(i) \notin Opened(x) /\ e.calls[i].args = <<>>
      BY <2>10, <2>14, <2>15
    <3> QED
      BY <1>1, <2>5, <2>6, <2>7, <3>1, PiecesOpened
  <2>19. ASSUME NEW k \in 1..m PROVE KeyOf(x \o <<u>>, k) = TheCall(k - 1)
    <3>1. Len(CallsIn(x)) = n
      BY <2>7, <2>9 DEF Agrees
    <3>2. /\ CallsIn(x \o <<u>>)[n + 1] = u
          /\ \A l \in 1..n : CallsIn(x \o <<u>>)[l] = CallsIn(x)[l]
      BY <2>5, <2>7, <3>1, CallsMore
    <3>3. CASE k = n + 1
      <4>1. k - 1 = n
        BY <1>2, <3>3
      <4> QED
        BY <2>5, <3>2, <3>3, <4>1 DEF KeyOf
    <3>4. CASE k \in 1..n
      BY <2>6, <3>2, <3>4 DEF KeyOf
    <3> QED
      BY <1>2, <2>1, <3>3, <3>4
  <2>20. /\ u.act \in {"open", "piece"}
         /\ \A j \in DOMAIN e.calls : DOMAIN e.calls[j] = {"call", "args"}
         /\ e.thinking \in BOOLEAN /\ e.talking \in BOOLEAN /\ e.started = TRUE
    BY <1>1, <2>5, <2>6, <2>8, <2>14, <2>15
  <2>21. DOMAIN e.calls = 0..(m - 1)
    BY <1>2, <2>1, <2>14
  <2>22. Tracks(e, F \o <<f>>, h \o <<v>>, m)
    BY <2>5, <2>8, <2>12, <2>16, <2>17, <2>18, <2>19, <2>20, <2>21, TracksFrame
  <2>23. F \o <<f>> # <<>>
    BY <2>8, TracksFacts, FramePlace
  <2>24. part.index \in DOMAIN e.calls
    BY <2>1, <2>14
  <2> QED
    BY <2>2, <2>4, <2>22, <2>23, <2>24 DEF e
<1> QED
  BY <1>3, <1>4

\* and speaks in it.
LEMMA CallTracks ==
  ASSUME NEW s, ResponsesSink(s), NEW R, Sequence(R), NEW h, NEW n, Heeds(h, n),
         Tracks(s, R \o s.out, h, n), R \o s.out # <<>>,
         NEW part, NEW m, Fits(part, n, m)
  PROVE  LET t == CallToResponses(s, part) IN
         /\ Tracks(t, R \o t.out,
                   (h \o OpenedBy(part)) \o Spoken("call", part.index, part.args), m)
         /\ R \o t.out # <<>>
<1> DEFINE e == EnsureCall(s, part)
           t == CallToResponses(s, part)
           i == part.index
           f == ItemDelta(TheCall(i), CallIndex(e, i), part.args)
           u == Said("piece", "call", TheCall(i), part.args)
           v == Said("piece", "call", i, part.args)
           F == R \o e.out
           x == Transcript(F)
           g == h \o OpenedBy(part)
<1>1. Tracks(e, F, g, m) /\ F # <<>> /\ i \in DOMAIN e.calls
  BY OpensCall
<1>2. Heeds(g, m) /\ i \in 0..(m - 1) /\ m \in Nat
  BY HeedsPart
<1>3. Sequence(e.out)
  <2>1. ResponsesSink(e)
    BY Ensured DEF StaysResponses
  <2> HIDE DEF e
  <2> QED
    BY <2>1 DEF ResponsesSink, Quiet
<1>4. CASE part.args = None
  <2>1. t = e
    <3> HIDE DEF F, x, g, f, u, v
    <3> QED
      BY <1>4 DEF CallToResponses, e
  <2>2. Spoken("call", i, part.args) = <<>>
    BY <1>4 DEF Spoken
  <2> HIDE DEF g, e, t, F
  <2>3. g \o <<>> = g
    BY <1>2, NothingBefore DEF Heeds, Well
  <2> QED
    BY <1>1, <2>1, <2>2, <2>3 DEF g, t, F
<1>5. CASE part.args # None
  <2>1. /\ Opened(x) = Items(e) /\ Closed(x) = {} /\ Pieces(e, x)
        /\ e.talking \in BOOLEAN /\ e.thinking \in BOOLEAN
        /\ DOMAIN e.calls = 0..(m - 1) /\ \A k \in 1..m : KeyOf(x, k) = TheCall(k - 1)
        /\ \A j \in DOMAIN e.calls : DOMAIN e.calls[j] = {"call", "args"}
        /\ e.started = (F # <<>>)
    <3> HIDE DEF F, g, e
    <3> QED
      BY <1>1, SMTT(30) DEF Tracks
  <2>2. /\ t.thinking = e.thinking /\ t.talking = e.talking /\ t.started = e.started
        /\ t.text = e.text /\ t.thought = e.thought /\ DOMAIN t.calls = DOMAIN e.calls
        /\ \A j \in DOMAIN e.calls : j # i => t.calls[j] = e.calls[j]
        /\ t.calls[i].args = Append(e.calls[i].args, part.args)
        /\ DOMAIN t.calls[i] = {"call", "args"}
        /\ t.out = e.out \o <<f>>
    <3>1. i \in DOMAIN e.calls /\ DOMAIN e.calls[i] = {"call", "args"}
      BY <1>1, <2>1
    <3> QED
      BY <1>5, <3>1, ArgsFields
  <2>3. R \o t.out = F \o <<f>>
    <3>1. PICK o : o = e.out
      OBVIOUS
    <3>2. Sequence(o) /\ t.out = o \o <<f>>
      BY <1>3, <2>2, <3>1
    <3>3. R \o (o \o <<f>>) = (R \o o) \o <<f>>
      <4> HIDE DEF f
      <4> QED
        BY <3>2, OutMore
    <3> QED
      BY <3>1, <3>2, <3>3
  <2>4. /\ SaidBy(f) = <<u>> /\ u.act = "piece" /\ u.kind = "call" /\ u.key = TheCall(i)
        /\ v.act = "piece" /\ v.kind = "call" /\ v.key = i
        /\ u.what = part.args /\ v.what = part.args
    BY ItemFrames DEF Said
  <2>5. Spoken("call", i, part.args) = <<v>>
    BY <1>5 DEF Spoken
  <2>6. x = Transcript(F)
    OBVIOUS
  <2> HIDE DEF f, u, v, F, x, e, t, g
  <2>7. Agrees(x, g, TRUE) /\ Sequence(x) /\ Sequence(e.calls[i].args)
    BY <1>1, <2>6, TracksFacts
  <2>8. /\ i + 1 \in 1..Len(CallsIn(g)) /\ KeyOf(x, i + 1) = TheCall(i) /\ KeyOf(g, i + 1) = i
    <3>1. i + 1 \in 1..m /\ (i + 1) - 1 = i
      BY <1>2
    <3> QED
      BY <1>2, <2>1, <3>1 DEF Heeds, KeyOf
  <2>9. Agrees(x \o <<u>>, g \o <<v>>, TRUE) /\ CallsIn(x \o <<u>>) = CallsIn(x)
    <3>1. PICK k : k = i + 1
      OBVIOUS
    <3>2. /\ k \in 1..Len(CallsIn(g)) /\ u.key = KeyOf(x, k) /\ v.key = KeyOf(g, k)
          /\ u.what = v.what
      BY <2>4, <2>8, <3>1
    <3>3. u.act = "piece" /\ u.kind = "call" /\ v.act = "piece" /\ v.kind = "call"
      BY <2>4
    <3>4. /\ Agrees(x \o <<u>>, g \o <<v>>, TRUE)
          /\ CallsIn(x \o <<u>>) = CallsIn(x) /\ CallsIn(g \o <<v>>) = CallsIn(g)
      <4> DEFINE y == KeyOf(x, k)
                 z == KeyOf(g, k)
      <4>1. u.key = y /\ v.key = z /\ TRUE \in BOOLEAN
        BY <3>2
      <4>2. \A w \in BOOLEAN : Agrees(x, g, w) =>
              /\ Agrees(x \o <<u>>, g \o <<v>>, w)
              /\ CallsIn(x \o <<u>>) = CallsIn(x) /\ CallsIn(g \o <<v>>) = CallsIn(g)
        BY <3>2, <3>3, AgreePiece
      <4> QED
        BY <2>7, <4>1, <4>2
    <3> QED
      BY <3>4
  <2>10. Opened(x \o <<u>>) = Opened(x)
    BY <2>4, <2>7, KeysSay, SMTT(30)
  <2>11. TheCall(i) \in Opened(x) /\ Opened(x \o <<u>>) = Items(t)
    BY <1>1, <2>1, <2>2, <2>10 DEF Items
  <2>12. MaySay(x, u, FALSE)
    BY <2>1, <2>4, <2>11 DEF MaySay
  <2>13. Pieces(t, x \o <<u>>)
    <3>1. Append(e.calls[i].args, part.args) = e.calls[i].args \o <<part.args>>
      <4>1. PICK o : o = e.calls[i].args
        OBVIOUS
      <4>2. Append(o, part.args) = o \o <<part.args>>
        BY <2>7, <4>1, OneJoined
      <4> QED
        BY <4>1, <4>2
    <3>2. u.key # TheMessage /\ u.key # TheThought /\ \A j : u.key = TheCall(j) => j = i
      BY <2>4, ItemsApart
    <3>3. /\ t.thought = IF u.key = TheThought THEN e.thought \o <<u.what>> ELSE e.thought
          /\ t.text = IF u.key = TheMessage THEN e.text \o <<u.what>> ELSE e.text
      BY <2>2, <3>2
    <3>4. ASSUME NEW j \in DOMAIN e.calls
          PROVE  t.calls[j].args = IF u.key = TheCall(j) THEN e.calls[j].args \o <<u.what>>
                                   ELSE e.calls[j].args
      <4>1. CASE j = i
        BY <2>2, <2>4, <3>1, <4>1, ZenonT(40)
      <4>2. CASE j # i
        BY <2>2, <3>2, <4>2, ZenonT(40)
      <4> QED
        BY <4>1, <4>2, SMTT(30)
    <3>5. u.key \in Opened(x) /\ DOMAIN t.calls = DOMAIN e.calls
      BY <2>2, <2>4, <2>11
    <3> QED
      BY <2>1, <2>4, <2>7, <3>3, <3>4, <3>5, PiecesSaid
  <2>14. \A k \in 1..m : KeyOf(x \o <<u>>, k) = TheCall(k - 1)
    BY <2>1, <2>9, SMTT(30) DEF KeyOf
  <2>15. /\ u.act \in {"open", "piece"} /\ DOMAIN t.calls = 0..(m - 1)
         /\ \A j \in DOMAIN t.calls : DOMAIN t.calls[j] = {"call", "args"}
         /\ t.thinking \in BOOLEAN /\ t.talking \in BOOLEAN /\ t.started = TRUE
         /\ x = Transcript(F)
    <3>1. ASSUME NEW j \in DOMAIN t.calls PROVE DOMAIN t.calls[j] = {"call", "args"}
      <4>1. CASE j = i
        BY <2>2, <4>1
      <4>2. CASE j # i
        <5>1. j \in DOMAIN e.calls /\ t.calls[j] = e.calls[j]
          BY <2>2, <4>2, SMTT(30)
        <5> QED
          BY <2>1, <5>1, SMTT(30)
      <4> QED
        BY <4>1, <4>2, SMTT(30)
    <3>2. t.thinking \in BOOLEAN /\ t.talking \in BOOLEAN /\ t.started = TRUE
      BY <1>1, <2>1, <2>2
    <3> QED
      BY <2>1, <2>2, <2>4, <2>6, <3>1, <3>2
  <2>16. Tracks(t, F \o <<f>>, g \o <<v>>, m)
    BY <1>1, <2>4, <2>6, <2>9, <2>11, <2>12, <2>13, <2>14, <2>15, TracksFrame
  <2>17. F \o <<f>> # <<>>
    BY <1>1, TracksFacts, FramePlace
  <2> QED
    BY <2>3, <2>5, <2>16, <2>17 DEF t, g
<1> QED
  BY <1>4, <1>5

-----------------------------------------------------------------------------
(* The output indices of a Responses stream.                               *)

\* The items a sink has opened stay where they are.
StaysPut(s, t) ==
  \A item \in Items(s) : item \in Items(t) /\ IndexOf(t, item) = IndexOf(s, item)

\* So they do when nothing changes that they are placed by,
LEMMA PutAsBefore ==
  ASSUME NEW s, NEW t, t.thinking = s.thinking, t.talking = s.talking,
         DOMAIN s.calls \subseteq DOMAIN t.calls
  PROVE  StaysPut(s, t) /\ \A item : IndexOf(t, item) = IndexOf(s, item)
<1>1. MessageIndex(t) = MessageIndex(s)
  BY DEF MessageIndex
<1>2. \A i : CallIndex(t, i) = CallIndex(s, i)
  BY <1>1 DEF CallIndex
<1>3. \A item : IndexOf(t, item) = IndexOf(s, item)
  BY <1>1, <1>2 DEF IndexOf
<1>4. Items(s) \subseteq Items(t)
  BY DEF Items
<1> QED
  BY <1>3, <1>4 DEF StaysPut

\* and when there are none.
LEMMA PutNowhere ==
  ASSUME NEW s, NEW t, ~s.thinking, ~s.talking, DOMAIN s.calls = {}
  PROVE  StaysPut(s, t)
BY DEF StaysPut, Items

\* A message opened before any call leaves the thought first.
LEMMA PutFirst ==
  ASSUME NEW s, NEW t, t.thinking = s.thinking, t.talking, ~s.talking,
         DOMAIN s.calls = {}, DOMAIN t.calls = {}
  PROVE  StaysPut(s, t)
<1>1. ASSUME NEW item \in Items(s) PROVE item = TheThought /\ s.thinking
  BY <1>1 DEF Items
<1>2. \A item : item = TheThought => IndexOf(t, item) = 0 /\ IndexOf(s, item) = 0
  BY ItemsApart DEF IndexOf
<1>3. s.thinking => TheThought \in Items(t)
  BY DEF Items
<1> QED
  BY <1>1, <1>2, <1>3 DEF StaysPut

\* One more frame, of an item that is where the sink puts it.
LEMMA IndexedMore ==
  ASSUME NEW s, NEW F, Sequence(F), Indexed(s, F), NEW t, StaysPut(s, t),
         NEW f, f.item \in Items(t), f.index = IndexOf(t, f.item)
  PROVE  Indexed(t, F \o <<f>>)
<1> DEFINE G == F \o <<f>>
<1> SUFFICES ASSUME NEW k \in DOMAIN G, "item" \in DOMAIN G[k]
             PROVE  G[k].item \in Items(t) /\ G[k].index = IndexOf(t, G[k].item)
  BY DEF Indexed
<1>1. (k \in DOMAIN F /\ G[k] = F[k]) \/ G[k] = f
  BY FramePlace
<1> HIDE DEF G
<1>2. CASE G[k] = f
  BY <1>2
<1>3. CASE k \in DOMAIN F /\ G[k] = F[k]
  <2>1. F[k].item \in Items(s) /\ F[k].index = IndexOf(s, F[k].item)
    BY <1>3 DEF Indexed
  <2> QED
    BY <1>3, <2>1 DEF StaysPut
<1> QED
  BY <1>1, <1>2, <1>3

\* No other frame.
LEMMA IndexedSame ==
  ASSUME NEW s, NEW F, Indexed(s, F), NEW t, StaysPut(s, t)
  PROVE  Indexed(t, F)
BY DEF Indexed, StaysPut

\* Where an item is opened and spoken in.
LEMMA ItemPlaces ==
  ASSUME NEW s, s.thinking \in BOOLEAN, s.talking \in BOOLEAN
  PROVE  /\ \A what : LET f == ItemAdded(TheThought, 0, what) IN
              f.item = TheThought /\ f.index = IndexOf(s, TheThought)
         /\ \A piece : LET f == ItemDelta(TheThought, 0, piece) IN
              f.item = TheThought /\ f.index = IndexOf(s, TheThought)
         /\ \A what : LET f == ItemAdded(TheMessage, MessageIndex(s), what) IN
              f.item = TheMessage /\ f.index = IndexOf(s, TheMessage)
         /\ \A piece : LET f == ItemDelta(TheMessage, MessageIndex(s), piece) IN
              f.item = TheMessage /\ f.index = IndexOf(s, TheMessage)
         /\ \A i, what : LET f == ItemAdded(TheCall(i), CallIndex(s, i), what) IN
              f.item = TheCall(i) /\ f.index = IndexOf(s, TheCall(i))
         /\ \A i, piece : LET f == ItemDelta(TheCall(i), CallIndex(s, i), piece) IN
              f.item = TheCall(i) /\ f.index = IndexOf(s, TheCall(i))
<1>1. IndexOf(s, TheThought) = 0
  BY ItemsApart DEF IndexOf
<1>2. IndexOf(s, TheMessage) = MessageIndex(s)
  BY ItemsApart DEF IndexOf
<1>3. \A i : IndexOf(s, TheCall(i)) = CallIndex(s, i)
  BY ItemsApart DEF IndexOf
<1> HIDE DEF TheCall, TheMessage, TheThought, IndexOf, CallIndex, MessageIndex
<1> QED
  BY <1>1, <1>2, <1>3 DEF ItemAdded, ItemDelta

\* In order, a thought comes before text and calls, and text before calls.
LEMMA RanksBefore ==
  ASSUME NEW h, NEW n, Heeds(h, n), NEW v, v.act = "piece", InOrder(h \o <<v>>)
  PROVE  /\ InOrder(h)
         /\ v.kind = "thought" => "text" \notin KindsIn(h) /\ n = 0
         /\ v.kind = "text" => n = 0
<1>1. Sequence(h) /\ n \in Nat /\ (n > 0 => "call" \in KindsIn(h))
  BY DEF Heeds, Well
<1>2. InOrder(h) /\ \A kind \in KindsIn(h) : Rank(kind) <= Rank(v.kind)
  BY <1>1, OrderMore
<1>3. Rank("thought") = 1 /\ Rank("text") = 2 /\ Rank("call") = 3
  BY DEF Rank
<1> QED
  BY <1>1, <1>2, <1>3

-----------------------------------------------------------------------------
(* What a Responses sink knows, piece by piece.                            *)

\* It knows what a thought adds,
LEMMA ThinkKnown ==
  ASSUME NEW s, ResponsesSink(s), NEW R, Sequence(R), NEW h, NEW n, Heeds(h, n),
         KnowsResponses(s, R \o s.out, h, n), R \o s.out # <<>>, NEW piece, piece # None
  PROVE  LET t == ThinkToResponses(s, piece) IN
         /\ KnowsResponses(t, R \o t.out, h \o Spoken("thought", None, piece), n)
         /\ R \o t.out # <<>>
<1> DEFINE e == EnsureReasoning(s)
           t == ThinkToResponses(s, piece)
           f == ItemAdded(TheThought, 0, None)
           g == ItemDelta(TheThought, 0, piece)
           v == Said("piece", "thought", None, piece)
           F == R \o s.out
<1>1. /\ Tracks(t, R \o t.out, h \o Spoken("thought", None, piece), n)
      /\ R \o t.out # <<>>
  BY ThinkTracks DEF KnowsResponses
<1>2. Spoken("thought", None, piece) = <<v>> /\ v.act = "piece" /\ v.kind = "thought"
  BY DEF Spoken, Said
<1>3. /\ e.thinking = TRUE /\ e.talking = s.talking /\ e.calls = s.calls
      /\ e.out = IF s.thinking THEN s.out ELSE s.out \o <<f>>
      /\ t.thinking = e.thinking /\ t.talking = e.talking /\ t.calls = e.calls
      /\ t.out = e.out \o <<g>>
  <2>1. /\ e.thinking = TRUE /\ e.talking = s.talking /\ e.calls = s.calls
        /\ e.out = IF s.thinking THEN s.out ELSE s.out \o <<f>>
    BY ReasoningFields
  <2>2. /\ t.thinking = e.thinking /\ t.talking = e.talking /\ t.calls = e.calls
        /\ t.out = e.out \o <<g>>
    BY ThoughtFields
  <2> QED
    BY <2>1, <2>2
<1>4. /\ Sequence(h) /\ DOMAIN s.calls = 0..(n - 1) /\ s.talking \in BOOLEAN
      /\ s.thinking \in BOOLEAN /\ n \in Nat /\ Sequence(s.out)
  BY DEF Heeds, Well, KnowsResponses, Tracks, ResponsesSink, Quiet
<1>5. /\ s.talking => "text" \in KindsIn(h)
      /\ InOrder(h) => Indexed(s, F)
  BY DEF KnowsResponses
<1>6. f.item = TheThought /\ g.item = TheThought /\ f.index = 0 /\ g.index = 0
  BY DEF ItemAdded, ItemDelta
<1>7. IndexOf(e, TheThought) = 0 /\ IndexOf(t, TheThought) = 0
  BY ItemsApart DEF IndexOf
<1>8. R \o t.out = (IF s.thinking THEN F ELSE F \o <<f>>) \o <<g>> /\ Sequence(F)
  <2>1. PICK o : o = s.out
    OBVIOUS
  <2>2. PICK q : q = e.out
    OBVIOUS
  <2>3. Sequence(o) /\ q = IF s.thinking THEN o ELSE o \o <<f>>
    BY <1>3, <1>4, <2>1, <2>2
  <2>4. Sequence(q) /\ t.out = q \o <<g>>
    <3> HIDE DEF f, g
    <3>1. Sequence(o \o <<f>>)
      BY <2>3, Joined, Short
    <3> QED
      BY <1>3, <2>2, <2>3, <3>1
  <2> HIDE DEF f, g
  <2>5. R \o (q \o <<g>>) = (R \o q) \o <<g>>
    BY <2>4, OutMore
  <2>6. R \o (o \o <<f>>) = (R \o o) \o <<f>>
    BY <2>3, OutMore
  <2>7. Sequence(R \o o)
    BY <2>3, Joined
  <2> QED
    BY <2>1, <2>3, <2>4, <2>5, <2>6, <2>7
<1>9. KindsIn(h \o <<v>>) = KindsIn(h) \cup {"thought"}
  BY <1>2, <1>4, KeysSay
<1> HIDE DEF e, t, f, g, v, F
<1>10. ASSUME InOrder(h \o <<v>>) PROVE Indexed(t, R \o t.out)
  <2>1. InOrder(h) /\ "text" \notin KindsIn(h) /\ n = 0
    BY <1>2, <1>10, RanksBefore
  <2>2. Indexed(s, F) /\ ~s.talking /\ DOMAIN s.calls = {}
    BY <1>4, <1>5, <2>1
  <2>3. TheThought \in Items(e) /\ TheThought \in Items(t)
    BY <1>3 DEF Items
  <2>4. CASE s.thinking
    <3>1. StaysPut(s, t)
      BY <1>3, <2>4, PutAsBefore
    <3>2. Indexed(t, F \o <<g>>)
      BY <1>6, <1>7, <1>8, <2>2, <2>3, <3>1, IndexedMore
    <3> QED
      BY <1>8, <2>4, <3>2
  <2>5. CASE ~s.thinking
    <3>1. StaysPut(s, e) /\ StaysPut(e, t)
      BY <1>3, <2>2, <2>5, PutNowhere, PutAsBefore
    <3>2. Indexed(e, F \o <<f>>)
      BY <1>6, <1>7, <1>8, <2>2, <2>3, <3>1, IndexedMore
    <3>3. Sequence(F \o <<f>>)
      BY <1>8, FramePlace
    <3>4. Indexed(t, (F \o <<f>>) \o <<g>>)
      BY <1>6, <1>7, <2>3, <3>1, <3>2, <3>3, IndexedMore
    <3> QED
      BY <1>8, <2>5, <3>4
  <2> QED
    BY <2>4, <2>5
<1>11. t.talking => "text" \in KindsIn(h \o <<v>>)
  BY <1>3, <1>5, <1>9
<1> QED
  BY <1>1, <1>2, <1>10, <1>11 DEF KnowsResponses, t

\* what a piece of text adds,
LEMMA TalkKnown ==
  ASSUME NEW s, ResponsesSink(s), NEW R, Sequence(R), NEW h, NEW n, Heeds(h, n),
         KnowsResponses(s, R \o s.out, h, n), R \o s.out # <<>>, NEW piece, piece # None
  PROVE  LET t == TalkToResponses(s, piece) IN
         /\ KnowsResponses(t, R \o t.out, h \o Spoken("text", None, piece), n)
         /\ R \o t.out # <<>>
<1> DEFINE e == EnsureMessage(s)
           t == TalkToResponses(s, piece)
           f == ItemAdded(TheMessage, MessageIndex(s), None)
           g == ItemDelta(TheMessage, MessageIndex(e), piece)
           v == Said("piece", "text", None, piece)
           F == R \o s.out
<1>1. /\ Tracks(t, R \o t.out, h \o Spoken("text", None, piece), n)
      /\ R \o t.out # <<>>
  BY TalkTracks DEF KnowsResponses
<1>2. Spoken("text", None, piece) = <<v>> /\ v.act = "piece" /\ v.kind = "text"
  BY DEF Spoken, Said
<1>3. /\ e.talking = TRUE /\ e.thinking = s.thinking /\ e.calls = s.calls
      /\ e.out = IF s.talking THEN s.out ELSE s.out \o <<f>>
      /\ t.thinking = e.thinking /\ t.talking = e.talking /\ t.calls = e.calls
      /\ t.out = e.out \o <<g>>
  <2>1. /\ e.talking = TRUE /\ e.thinking = s.thinking /\ e.calls = s.calls
        /\ e.out = IF s.talking THEN s.out ELSE s.out \o <<f>>
    BY MessageFields
  <2>2. /\ t.thinking = e.thinking /\ t.talking = e.talking /\ t.calls = e.calls
        /\ t.out = e.out \o <<g>>
    BY TextFields
  <2> QED
    BY <2>1, <2>2
<1>4. /\ Sequence(h) /\ DOMAIN s.calls = 0..(n - 1) /\ s.talking \in BOOLEAN
      /\ s.thinking \in BOOLEAN /\ n \in Nat /\ Sequence(s.out)
  BY DEF Heeds, Well, KnowsResponses, Tracks, ResponsesSink, Quiet
<1>5. InOrder(h) => Indexed(s, F)
  BY DEF KnowsResponses
<1>6. /\ f.item = TheMessage /\ g.item = TheMessage
      /\ f.index = MessageIndex(s) /\ g.index = MessageIndex(e)
  BY DEF ItemAdded, ItemDelta
<1>7. R \o t.out = (IF s.talking THEN F ELSE F \o <<f>>) \o <<g>> /\ Sequence(F)
  <2>1. PICK o : o = s.out
    OBVIOUS
  <2>2. PICK q : q = e.out
    OBVIOUS
  <2>3. Sequence(o) /\ q = IF s.talking THEN o ELSE o \o <<f>>
    BY <1>3, <1>4, <2>1, <2>2
  <2>4. Sequence(q) /\ t.out = q \o <<g>>
    <3> HIDE DEF f, g
    <3>1. Sequence(o \o <<f>>)
      BY <2>3, Joined, Short
    <3> QED
      BY <1>3, <2>2, <2>3, <3>1
  <2> HIDE DEF f, g
  <2>5. R \o (q \o <<g>>) = (R \o q) \o <<g>>
    BY <2>4, OutMore
  <2>6. R \o (o \o <<f>>) = (R \o o) \o <<f>>
    BY <2>3, OutMore
  <2>7. Sequence(R \o o)
    BY <2>3, Joined
  <2> QED
    BY <2>1, <2>3, <2>4, <2>5, <2>6, <2>7
<1>8. KindsIn(h \o <<v>>) = KindsIn(h) \cup {"text"}
  BY <1>2, <1>4, KeysSay
<1> HIDE DEF e, t, f, g, v, F
<1>9. /\ MessageIndex(e) = MessageIndex(s)
      /\ IndexOf(e, TheMessage) = MessageIndex(e) /\ IndexOf(t, TheMessage) = MessageIndex(e)
  <2>1. MessageIndex(e) = MessageIndex(s) /\ MessageIndex(t) = MessageIndex(e)
    BY <1>3 DEF MessageIndex
  <2>2. IndexOf(e, TheMessage) = MessageIndex(e) /\ IndexOf(t, TheMessage) = MessageIndex(t)
    BY ItemsApart DEF IndexOf
  <2> QED
    BY <2>1, <2>2
<1>10. ASSUME InOrder(h \o <<v>>) PROVE Indexed(t, R \o t.out)
  <2>1. InOrder(h) /\ n = 0
    BY <1>2, <1>10, RanksBefore
  <2>2. Indexed(s, F) /\ DOMAIN s.calls = {}
    BY <1>4, <1>5, <2>1
  <2>3. TheMessage \in Items(e) /\ TheMessage \in Items(t)
    BY <1>3 DEF Items
  <2>4. CASE s.talking
    <3>1. StaysPut(s, t)
      BY <1>3, <2>4, PutAsBefore
    <3>2. Indexed(t, F \o <<g>>)
      BY <1>6, <1>7, <1>9, <2>2, <2>3, <3>1, IndexedMore
    <3> QED
      BY <1>7, <2>4, <3>2
  <2>5. CASE ~s.talking
    <3>1. StaysPut(s, e) /\ StaysPut(e, t)
      BY <1>3, <2>2, <2>5, PutFirst, PutAsBefore
    <3>2. Indexed(e, F \o <<f>>)
      BY <1>6, <1>7, <1>9, <2>2, <2>3, <3>1, IndexedMore
    <3>3. Sequence(F \o <<f>>)
      BY <1>7, FramePlace
    <3>4. Indexed(t, (F \o <<f>>) \o <<g>>)
      BY <1>6, <1>9, <2>3, <3>1, <3>2, <3>3, IndexedMore
    <3> QED
      BY <1>7, <2>5, <3>4
  <2> QED
    BY <2>4, <2>5
<1>11. "text" \in KindsIn(h \o <<v>>)
  BY <1>8
<1> QED
  BY <1>1, <1>2, <1>10, <1>11 DEF KnowsResponses, t

\* and what a part of a call adds.
LEMMA CallKnown ==
  ASSUME NEW s, ResponsesSink(s), NEW R, Sequence(R), NEW h, NEW n, Heeds(h, n),
         KnowsResponses(s, R \o s.out, h, n), R \o s.out # <<>>,
         NEW part, NEW m, Fits(part, n, m)
  PROVE  LET t == CallToResponses(s, part) IN
         /\ KnowsResponses(t, R \o t.out,
                           (h \o OpenedBy(part)) \o Spoken("call", part.index, part.args), m)
         /\ R \o t.out # <<>>
<1> DEFINE e == EnsureCall(s, part)
           t == CallToResponses(s, part)
           i == part.index
           f == ItemAdded(TheCall(i), CallIndex(s, i), part.call)
           g == ItemDelta(TheCall(i), CallIndex(e, i), part.args)
           F == R \o s.out
           E == R \o e.out
           l == h \o OpenedBy(part)
           k == l \o Spoken("call", i, part.args)
<1>1. Tracks(t, R \o t.out, k, m) /\ R \o t.out # <<>>
  BY CallTracks DEF KnowsResponses
<1>2. Tracks(e, E, l, m) /\ i \in DOMAIN e.calls
  BY OpensCall DEF KnowsResponses
<1>3. /\ e.talking = s.talking /\ e.thinking = s.thinking
      /\ i \in DOMAIN s.calls => e = s
      /\ i \notin DOMAIN s.calls => e.out = s.out \o <<f>>
  BY CallFields
<1>4. Sequence(h) /\ Sequence(s.out) /\ DOMAIN s.calls = 0..(n - 1) /\ n \in Nat
  BY DEF Heeds, Well, KnowsResponses, Tracks, ResponsesSink, Quiet
<1>5. Heeds(l, m) /\ Heeds(k, m) /\ DOMAIN e.calls = 0..(m - 1) /\ m \in Nat
  <2>1. Heeds(l, m) /\ Heeds(k, m) /\ m \in Nat
    BY HeedsPart
  <2> HIDE DEF e, E, l
  <2> QED
    BY <1>2, <2>1 DEF Tracks
<1>6. Sequence(e.out)
  <2>1. ResponsesSink(e)
    BY Ensured DEF StaysResponses
  <2> HIDE DEF e
  <2> QED
    BY <2>1 DEF ResponsesSink, Quiet
<1>7. /\ s.talking => "text" \in KindsIn(h)
      /\ InOrder(h) => Indexed(s, F)
  BY DEF KnowsResponses
<1>8. /\ f.item = TheCall(i) /\ f.index = CallIndex(s, i)
      /\ g.item = TheCall(i) /\ g.index = CallIndex(e, i)
  BY DEF ItemAdded, ItemDelta
<1>9. Sequence(F) /\ Sequence(E)
  <2>1. \A o : Sequence(o) => Sequence(R \o o)
    BY Joined
  <2> QED
    BY <1>4, <1>6, <2>1
<1>10. m >= n
  BY <1>4 DEF Fits
<1>11. i \notin DOMAIN s.calls => E = F \o <<f>>
  <2>1. PICK o : o = s.out
    OBVIOUS
  <2>2. R \o (o \o <<f>>) = (R \o o) \o <<f>>
    <3>1. Sequence(o)
      BY <1>4, <2>1
    <3> HIDE DEF f
    <3> QED
      BY <3>1, OutMore
  <2> QED
    BY <1>3, <2>1, <2>2
<1>12. part.args # None =>
         /\ t.talking = e.talking /\ t.thinking = e.thinking /\ DOMAIN t.calls = DOMAIN e.calls
         /\ R \o t.out = E \o <<g>>
  <2> SUFFICES ASSUME part.args # None
               PROVE  /\ t.talking = e.talking /\ t.thinking = e.thinking
                      /\ DOMAIN t.calls = DOMAIN e.calls /\ R \o t.out = E \o <<g>>
    OBVIOUS
  <2>1. DOMAIN e.calls[i] = {"call", "args"}
    <3> HIDE DEF e, E, l
    <3> QED
      BY <1>2 DEF Tracks
  <2>2. /\ t.talking = e.talking /\ t.thinking = e.thinking /\ DOMAIN t.calls = DOMAIN e.calls
        /\ t.out = e.out \o <<g>>
    BY <1>2, <2>1, ArgsFields
  <2>3. PICK o : o = e.out
    OBVIOUS
  <2>4. R \o (o \o <<g>>) = (R \o o) \o <<g>>
    <3>1. Sequence(o)
      BY <1>6, <2>3
    <3> HIDE DEF g
    <3> QED
      BY <3>1, OutMore
  <2> QED
    BY <2>2, <2>3, <2>4
<1>13. part.args = None => t = e
  BY DEF CallToResponses
<1>14. /\ part.call = None => l = h
       /\ part.call # None => l = h \o <<Said("open", "call", i, part.call)>>
       /\ part.args = None => k = l
       /\ part.args # None => k = l \o <<Said("piece", "call", i, part.args)>>
  <2>1. OpenedBy(part) = IF part.call = None THEN <<>>
                         ELSE <<Said("open", "call", i, part.call)>>
    BY DEF OpenedBy
  <2>2. Spoken("call", i, part.args) = IF part.args = None THEN <<>>
                                       ELSE <<Said("piece", "call", i, part.args)>>
    BY DEF Spoken
  <2>3. h \o <<>> = h
    BY <1>4, NothingBefore
  <2>4. l \o <<>> = l
    <3> HIDE DEF l
    <3> QED
      BY <1>5, NothingBefore DEF Heeds, Well
  <2> QED
    BY <2>1, <2>2, <2>3, <2>4
<1>15. Sequence(l)
  BY <1>5 DEF Heeds, Well
<1> HIDE DEF e, t, f, g, F, E, l, k
<1>16. (InOrder(k) => InOrder(h)) /\ KindsIn(h) \subseteq KindsIn(k)
  <2>1. InOrder(k) => InOrder(l)
    BY <1>14, <1>15, OrderMore
  <2>2. InOrder(l) => InOrder(h)
    BY <1>4, <1>14, OrderMore
  <2>3. KindsIn(h) \subseteq KindsIn(l)
    <3>1. \A u : KindsIn(h) \subseteq KindsIn(h \o <<u>>)
      BY <1>4, KeysMore
    <3> QED
      BY <1>14, <3>1
  <2>4. KindsIn(l) \subseteq KindsIn(k)
    <3>1. \A u : KindsIn(l) \subseteq KindsIn(l \o <<u>>)
      BY <1>15, KeysMore
    <3> QED
      BY <1>14, <3>1
  <2> QED
    BY <2>1, <2>2, <2>3, <2>4
<1>17. StaysPut(s, e) /\ (\A item : IndexOf(e, item) = IndexOf(s, item))
       /\ TheCall(i) \in Items(e)
  <2>1. DOMAIN s.calls \subseteq DOMAIN e.calls
    BY <1>4, <1>5, <1>10
  <2>2. TheCall(i) \in Items(e)
    BY <1>2 DEF Items
  <2>3. StaysPut(s, e) /\ \A item : IndexOf(e, item) = IndexOf(s, item)
    BY <1>3, <2>1, PutAsBefore
  <2> QED
    BY <2>2, <2>3
<1>18. IndexOf(e, TheCall(i)) = CallIndex(e, i) /\ IndexOf(s, TheCall(i)) = CallIndex(s, i)
  BY ItemsApart DEF IndexOf
<1>19. ASSUME InOrder(k) PROVE Indexed(t, R \o t.out)
  <2>1. Indexed(s, F)
    BY <1>7, <1>16, <1>19
  <2>2. Indexed(e, E)
    <3>1. CASE i \in DOMAIN s.calls
      BY <1>3, <2>1, <3>1 DEF E, F
    <3>2. CASE i \notin DOMAIN s.calls
      <4>1. f.item \in Items(e) /\ f.index = IndexOf(e, f.item)
        BY <1>8, <1>17, <1>18
      <4>2. Indexed(e, F \o <<f>>)
        BY <1>9, <1>17, <2>1, <4>1, IndexedMore
      <4> QED
        BY <1>11, <3>2, <4>2
    <3> QED
      BY <3>1, <3>2
  <2>3. CASE part.args = None
    BY <1>13, <2>2, <2>3 DEF E
  <2>4. CASE part.args # None
    <3>1. StaysPut(e, t) /\ \A item : IndexOf(t, item) = IndexOf(e, item)
      BY <1>12, <2>4, PutAsBefore
    <3>2. g.item \in Items(t) /\ g.index = IndexOf(t, g.item)
      BY <1>8, <1>17, <1>18, <3>1 DEF StaysPut
    <3>3. Indexed(t, E \o <<g>>)
      BY <1>9, <2>2, <3>1, <3>2, IndexedMore
    <3> QED
      BY <1>12, <2>4, <3>3
  <2> QED
    BY <2>3, <2>4
<1>20. t.talking => "text" \in KindsIn(k)
  BY <1>3, <1>7, <1>12, <1>13, <1>16
<1> QED
  BY <1>1, <1>19, <1>20 DEF KnowsResponses, t, k, l

-----------------------------------------------------------------------------
(* What a Responses sink knows after a chunk.                              *)

\* What it knows is in these fields.
LEMMA KnownAlike ==
  ASSUME NEW s, NEW t, NEW F, NEW h, NEW n, KnowsResponses(s, F, h, n),
         t.started = s.started, t.thinking = s.thinking, t.talking = s.talking,
         t.thought = s.thought, t.text = s.text, t.calls = s.calls
  PROVE  KnowsResponses(t, F, h, n)
<1>1. Items(t) = Items(s)
  BY DEF Items
<1>2. \A said : Pieces(s, said) => Pieces(t, said)
  BY DEF Pieces
<1>3. Tracks(t, F, h, n)
  BY <1>1, <1>2 DEF KnowsResponses, Tracks
<1>4. StaysPut(s, t)
  BY PutAsBefore
<1>5. Indexed(s, F) => Indexed(t, F)
  BY <1>4, IndexedSame
<1> QED
  BY <1>3, <1>5 DEF KnowsResponses

\* The first chunk starts the stream,
LEMMA FirstKnown ==
  ASSUME NEW s, NEW t, NEW h, NEW n, KnowsResponses(s, <<>>, h, n),
         t.started = TRUE, t.thinking = s.thinking, t.talking = s.talking,
         t.thought = s.thought, t.text = s.text, t.calls = s.calls
  PROVE  KnowsResponses(t, <<Created>>, h, n)
<1>1. Items(t) = Items(s) /\ \A said : Pieces(s, said) => Pieces(t, said)
  BY DEF Items, Pieces
<1>2. SaidBy(Created) = <<>> /\ Sequence(<<>>)
  BY ItemFrames, Short
<1>3. Transcript(<<Created>>) = <<>> /\ Sayings(<<Created>>)
  BY <1>2, TranscriptOne
<1>4. Transcript(<<>>) = <<>>
  BY TranscriptNone
<1>5. <<Created>>[1] = Created /\ <<Created>> # <<>> /\ DOMAIN <<Created>> = {1}
  <2> HIDE DEF Created
  <2> QED
    OBVIOUS
<1> DEFINE C == <<Created>>
<1>6. Tracks(s, <<>>, h, n)
  BY DEF KnowsResponses
<1> HIDE DEF C
<1>7. C[1] = Created /\ C # <<>> /\ Transcript(C) = Transcript(<<>>) /\ Sayings(C)
  BY <1>3, <1>4, <1>5 DEF C
<1>8. Tracks(t, C, h, n)
  BY <1>1, <1>6, <1>7 DEF Tracks
<1>9. Indexed(t, C)
  BY <1>5 DEF Indexed, C, Created
<1> QED
  BY <1>8, <1>9 DEF KnowsResponses, C

\* and every chunk may count.
Begun(s) == IF s.started THEN s ELSE Send([s EXCEPT !.started = TRUE], <<Created>>)
Counted(s, c) == [s EXCEPT !.usage = UsageOf(c, @)]
LEMMA BegunKnown ==
  ASSUME NEW s, ResponsesSink(s), s.out = <<>>, NEW R, Sequence(R), NEW h, NEW n,
         KnowsResponses(s, R, h, n), NEW c, Chunk(c)
  PROVE  LET t == Counted(Begun(s), c) IN
         /\ ResponsesSink(t) /\ R \o t.out # <<>>
         /\ KnowsResponses(t, R \o t.out, h, n)
<1> DEFINE begun == Begun(s)
           counted == Counted(begun, c)
<1>1. s.started = (R # <<>>)
  BY DEF KnowsResponses, Tracks
<1>2. ResponsesSink(begun) /\ begun.usage = s.usage /\ begun.usage \in Count
  <2>1. Quiet(<<Created>>)
    BY QuietShort, QuietFrames
  <2>2. StaysResponses(s, [s EXCEPT !.started = TRUE])
    BY ChangeResponses
  <2>3. StaysResponses(s, Send([s EXCEPT !.started = TRUE], <<Created>>))
    BY <2>1, <2>2, SendResponses, StayTwice DEF StaysResponses
  <2> QED
    BY <2>3 DEF StaysResponses, ResponsesSink, Begun
<1>3. ResponsesSink(counted) /\ counted.out = begun.out
  <2>1. UsageOf(c, begun.usage) \in Count
    BY <1>2, ChunkFacts
  <2>2. DOMAIN counted = DOMAIN begun /\ counted.usage = UsageOf(c, begun.usage)
        /\ counted.calls = begun.calls /\ counted.out = begun.out
    BY <1>2 DEF ResponsesSink, Counted
  <2> QED
    BY <1>2, <2>1, <2>2 DEF ResponsesSink
<1>4. /\ counted.started = begun.started /\ counted.thinking = begun.thinking
      /\ counted.talking = begun.talking /\ counted.thought = begun.thought
      /\ counted.text = begun.text /\ counted.calls = begun.calls
  BY <1>2 DEF ResponsesSink, Counted
<1>5. CASE s.started
  <2>1. begun = s /\ R # <<>>
    BY <1>1, <1>5 DEF Begun
  <2>2. R \o <<>> = R
    BY NothingBefore
  <2>3. KnowsResponses(counted, R, h, n)
    BY <1>4, <2>1, KnownAlike
  <2> QED
    BY <1>3, <2>1, <2>2, <2>3
<1>6. CASE ~s.started
  <2>1. /\ begun.started = TRUE /\ begun.thinking = s.thinking
        /\ begun.talking = s.talking /\ begun.thought = s.thought
        /\ begun.text = s.text /\ begun.calls = s.calls
        /\ begun.out = <<>> \o <<Created>>
    BY <1>6 DEF ResponsesSink, Send, Begun
  <2>2. R = <<>> /\ <<>> \o <<Created>> = <<Created>>
    BY <1>1, <1>6, Short, NothingBefore
  <2>3. KnowsResponses(counted, <<Created>>, h, n)
    <3>1. /\ counted.started = TRUE /\ counted.thinking = s.thinking
          /\ counted.talking = s.talking /\ counted.thought = s.thought
          /\ counted.text = s.text /\ counted.calls = s.calls
      BY <1>4, <2>1
    <3>2. KnowsResponses(s, <<>>, h, n)
      BY <2>2
    <3> QED
      BY <3>1, <3>2, FirstKnown
  <2>4. R \o counted.out = <<Created>>
    BY <1>3, <2>1, <2>2
  <2>5. <<Created>> # <<>>
    <3> HIDE DEF Created
    <3> QED
      OBVIOUS
  <2> QED
    BY <1>3, <2>3, <2>4, <2>5
<1> QED
  BY <1>5, <1>6

\* Its thought and its text, if it has any.
LEMMA SpokenKnown ==
  ASSUME NEW s, ResponsesSink(s), NEW R, Sequence(R), NEW h, NEW n, Heeds(h, n),
         KnowsResponses(s, R \o s.out, h, n), R \o s.out # <<>>, NEW c
  PROVE  LET t == TalkToResponses(ThinkToResponses(s, c.thought), c.text) IN
         /\ ResponsesSink(t) /\ R \o t.out # <<>>
         /\ Heeds(Talks(h, c), n) /\ KnowsResponses(t, R \o t.out, Talks(h, c), n)
<1> DEFINE u == ThinkToResponses(s, c.thought)
           t == TalkToResponses(u, c.text)
           i == Thinks(h, c)
<1>1. Heeds(i, n) /\ Heeds(Talks(h, c), n)
  BY HeedsSpoken DEF Thinks, Talks
<1>2. ResponsesSink(u)
  BY ThinksResponses DEF StaysResponses
<1>3. KnowsResponses(u, R \o u.out, i, n) /\ R \o u.out # <<>>
  <2>1. CASE c.thought = None
    <3>1. u = s /\ Spoken("thought", None, c.thought) = <<>>
      BY <2>1 DEF ThinkToResponses, Spoken
    <3>2. h \o <<>> = h
      BY NothingBefore DEF Heeds, Well
    <3> HIDE DEF u
    <3> QED
      BY <3>1, <3>2 DEF Thinks
  <2>2. CASE c.thought # None
    BY <2>2, ThinkKnown DEF Thinks
  <2> QED
    BY <2>1, <2>2
<1> HIDE DEF u
<1>4. ResponsesSink(t)
  BY <1>2, TalksResponses DEF StaysResponses
<1>5. KnowsResponses(t, R \o t.out, Talks(h, c), n) /\ R \o t.out # <<>>
  <2> HIDE DEF i
  <2>1. CASE c.text = None
    <3>1. t = u /\ Spoken("text", None, c.text) = <<>>
      BY <2>1 DEF TalkToResponses, Spoken
    <3>2. i \o <<>> = i
      BY <1>1, NothingBefore DEF Heeds, Well
    <3>3. Talks(h, c) = i
      BY <3>1, <3>2 DEF Talks, i
    <3> HIDE DEF t
    <3> QED
      BY <1>3, <3>1, <3>3
  <2>2. CASE c.text # None
    <3>1. Talks(h, c) = i \o Spoken("text", None, c.text)
      BY DEF Talks, i
    <3> QED
      BY <1>1, <1>2, <1>3, <2>2, <3>1, TalkKnown
  <2> QED
    BY <2>1, <2>2
<1> QED
  BY <1>1, <1>4, <1>5 DEF u

\* Its parts, one after the other.
LEMMA PartsKnown ==
  ASSUME NEW s, ResponsesSink(s), NEW R, Sequence(R), NEW h, Sequence(h), NEW c, Chunk(c),
         NEW counts, PartsFit(c.calls, counts),
         \A j \in 0..Len(c.calls) : Heeds(Hears(h, c, j), counts[j]),
         KnowsResponses(s, R \o s.out, Talks(h, c), counts[0]), R \o s.out # <<>>
  PROVE  LET t == FoldLeft(CallToResponses, s, c.calls) IN
         /\ KnowsResponses(t, R \o t.out, h \o SaidBy(c), counts[Len(c.calls)])
         /\ R \o t.out # <<>>
<1> DEFINE m == Len(c.calls)
           parts == c.calls
<1>1. Sequence(parts) /\ m \in Nat /\ DOMAIN parts = 1..m
  BY SequenceFacts DEF PartsFit
<1>2. IsFiniteSet(DOMAIN parts) /\ DOMAIN parts \subseteq Int
  BY ChunkFacts
<1>3. PICK fold : /\ FoldsOn("responses", fold, s, parts, DOMAIN parts)
                  /\ FoldLeft(CallToResponses, s, parts) = fold[DOMAIN parts]
  BY <1>2, FoldResponses
<1>4. c.type = "chunk"
  BY DEF Chunk
<1>5. /\ Hears(h, c, 0) = Talks(h, c) /\ h \o SaidBy(c) = Hears(h, c, m)
      /\ \A j \in Nat : LET part == parts[j + 1] IN
           Hears(h, c, j + 1)
             = (Hears(h, c, j) \o OpenedBy(part)) \o Spoken("call", part.index, part.args)
  BY <1>1, <1>4, HearsAll
<1> DEFINE K(j) == LET t == fold[1..j] IN
                   /\ ResponsesSink(t) /\ R \o t.out # <<>>
                   /\ KnowsResponses(t, R \o t.out, Hears(h, c, j), counts[j])
           S == {j \in 0..m : K(j)}
<1> HIDE DEF m, parts
<1>6. fold[{}] = s
  BY <1>3 DEF FoldsOn, StepOf
<1>7. 0 \in S
  <2>1. 1..0 = {}
    OBVIOUS
  <2>2. K(0)
    BY <1>5, <1>6, <2>1
  <2> QED
    BY <1>1, <2>2
<1>8. ASSUME NEW j \in S, j < m PROVE j + 1 \in S
  <2> DEFINE part == parts[j + 1]
             t == fold[1..j]
             u == fold[1..(j + 1)]
  <2>1. j \in Nat /\ j + 1 \in 1..m /\ j + 1 \in 0..m /\ K(j)
    BY <1>1, <1>8
  <2>2. u = CallToResponses(t, part)
    <3> DEFINE A == 1..(j + 1)
    <3>1. A \in SUBSET (DOMAIN parts) /\ A # {}
      <4>1. A \subseteq 1..m /\ j + 1 \in A
        BY <1>1, <2>1
      <4>2. DOMAIN parts = 1..m
        BY <1>1
      <4> QED
        BY <4>1, <4>2
    <3>2. j + 1 \in A /\ A \subseteq Int /\ \A k \in A : k <= j + 1
      BY <2>1
    <3>3. A \ {j + 1} = 1..j
      BY <2>1
    <3> HIDE DEF A
    <3>4. Max(A) = j + 1
      BY <3>2, MaxIs
    <3>5. fold[A] = Told("responses", fold[A \ {Max(A)}], parts[Max(A)])
      BY <1>3, <3>1 DEF FoldsOn, StepOf
    <3>6. fold[A] = Told("responses", fold[1..j], parts[j + 1])
      BY <3>3, <3>4, <3>5
    <3> QED
      BY <3>6 DEF Told, A
  <2>3. Fits(part, counts[j], counts[j + 1])
    <3>1. \A k \in 1..m : Fits(parts[k], counts[k - 1], counts[k])
      BY DEF PartsFit, m, parts
    <3>2. (j + 1) - 1 = j
      BY <2>1
    <3> QED
      BY <2>1, <3>1, <3>2
  <2>4. Heeds(Hears(h, c, j), counts[j])
    <3>1. j \in 0..Len(c.calls)
      BY <1>8 DEF m
    <3> QED
      BY <3>1
  <2>5. /\ ResponsesSink(t) /\ R \o t.out # <<>>
        /\ KnowsResponses(t, R \o t.out, Hears(h, c, j), counts[j])
    BY <2>1
  <2>6. Hears(h, c, j + 1)
          = (Hears(h, c, j) \o OpenedBy(part)) \o Spoken("call", part.index, part.args)
    BY <1>5, <2>1
  <2> HIDE DEF part, t, u
  <2>7. ResponsesSink(u)
    BY <2>2, <2>5, CallsResponses DEF StaysResponses
  <2> DEFINE i == Hears(h, c, j)
             n == counts[j]
             o == counts[j + 1]
  <2>8. Heeds(i, n) /\ KnowsResponses(t, R \o t.out, i, n) /\ Fits(part, n, o)
    BY <2>3, <2>4, <2>5
  <2> HIDE DEF i, n, o
  <2>9. LET v == CallToResponses(t, part) IN
        /\ KnowsResponses(v, R \o v.out,
                          (i \o OpenedBy(part)) \o Spoken("call", part.index, part.args), o)
        /\ R \o v.out # <<>>
    BY <2>5, <2>8, CallKnown
  <2>10. K(j + 1)
    BY <2>2, <2>6, <2>7, <2>9 DEF i, o, u
  <2> QED
    BY <2>1, <2>10
<1>9. m \in S
  <2> HIDE DEF S
  <2>1. \A j \in S : j \in Nat /\ j < m => j + 1 \in S
    BY <1>8
  <2> QED
    BY <1>1, <1>7, <2>1, UpTo
<1>10. K(m)
  BY <1>9
<1> HIDE DEF K
<1>11. FoldLeft(CallToResponses, s, c.calls) = fold[1..m]
  BY <1>1, <1>3 DEF parts
<1> QED
  BY <1>5, <1>10, <1>11 DEF K, m

\* A chunk whose parts fit is known to the sink.
LEMMA ResponsesKnown ==
  ASSUME NEW s, ResponsesSink(s), s.out = <<>>, NEW R, Sequence(R), NEW h,
         NEW c, Chunk(c), NEW counts, PartsFit(c.calls, counts), Heeds(h, counts[0]),
         KnowsResponses(s, R, h, counts[0])
  PROVE  LET t == ChatToResponses(s, c) IN
         /\ KnowsResponses(t, R \o t.out, h \o SaidBy(c), counts[Len(c.calls)])
         /\ R \o t.out # <<>>
<1>2. PICK d : d = Counted(Begun(s), c)
  OBVIOUS
<1>3. PICK n : n = counts[0]
  OBVIOUS
<1>4. Heeds(h, n) /\ KnowsResponses(s, R, h, n)
  BY <1>3
<1>5. /\ ResponsesSink(d) /\ R \o d.out # <<>> /\ KnowsResponses(d, R \o d.out, h, n)
  BY <1>2, <1>4, BegunKnown
<1>6. PICK u : u = TalkToResponses(ThinkToResponses(d, c.thought), c.text)
  OBVIOUS
<1>7. /\ ResponsesSink(u) /\ R \o u.out # <<>> /\ KnowsResponses(u, R \o u.out, Talks(h, c), n)
  BY <1>4, <1>5, <1>6, SpokenKnown
<1>8. c.type = "chunk" /\ Sequence(h)
  BY <1>4 DEF Chunk, Heeds, Well
<1>9. \A j \in 0..Len(c.calls) : Heeds(Hears(h, c, j), counts[j])
  BY <1>8, HeedsChunk
<1>10. ChatToResponses(s, c) = FoldLeft(CallToResponses, u, c.calls)
  BY <1>2, <1>6 DEF ChatToResponses, Begun, Counted
<1>11. KnowsResponses(u, R \o u.out, Talks(h, c), counts[0])
  BY <1>3, <1>7
<1>12. LET v == FoldLeft(CallToResponses, u, c.calls) IN
       /\ KnowsResponses(v, R \o v.out, h \o SaidBy(c), counts[Len(c.calls)])
       /\ R \o v.out # <<>>
  BY <1>7, <1>8, <1>9, <1>11, PartsKnown
<1> QED
  BY <1>10, <1>12

=============================================================================
