--------------------------- MODULE AgentLoopProofs ---------------------------
(***************************************************************************)
(* Proofs about the agent loop, for every number of messages, model calls, *)
(* paused turns and leaks, and both queue modes.                           *)
(***************************************************************************)
EXTENDS AgentLoop, SequenceTheorems, TLAPS

-----------------------------------------------------------------------------
(* The inductive invariant.                                                *)

Message == Kinds \X Nat
Entry   == (Kinds \cup {"assistant", "result", "discarded"}) \X Nat

\* The messages of one kind, which are all that its queue holds.
Of(k) == {k} \X Nat

Typed ==
    /\ TypeOK
    /\ {context, mirror} \subseteq Seq(Entry) /\ {pending, polled} \subseteq Seq(Message)
    /\ steerQ \in Seq(Of("steer")) /\ followQ \in Seq(Of("follow"))
    /\ asideQ \in Seq(Of("aside")) /\ taken \subseteq Message

\* A batch is in hand only between a poll and its injection, and the initial
\* poll is the only one that is skipped.
InHand ==
    /\ pc # "top" => pending = <<>>
    /\ pc \notin {"top", "pollAside", "lateAside", "lateFollow"} => polled = <<>>
    /\ pc \notin {"idle", "initialPoll"} /\ skipPoll => aborted

\* Of two messages of a kind the first one is the older one.
Precedes(x, y) == x[1] = y[1] /\ x[1] \in Kinds => x[2] < y[2]
Asc(s)         == \A i, j \in DOMAIN s : i < j => Precedes(s[i], s[j])
Below(S, T)    == \A x \in S : \A y \in T : Precedes(x, y)

UserIn(S) == {entry \in S : entry[1] \in Kinds}

\* The messages handed to the agent, from the number of each kind.
Upto(n) == UNION {{k} \X (1..n[k]) : k \in Kinds}

\* The messages on their way through the transcript m, the batch in hand h and
\* the queues s, f and a: in order, each in one place, and with those taken
\* back, t, all that were handed to the agent according to n.
Flow(m, h, s, f, a, t, n) ==
    LET waiting == ToSet(s) \cup ToSet(f) \cup ToSet(a)
        all     == UserIn(ToSet(m)) \cup ToSet(h) \cup waiting
    IN  /\ Asc(m) /\ Asc(h) /\ Asc(s) /\ Asc(f) /\ Asc(a)
        /\ Below(ToSet(m), ToSet(h) \cup waiting) /\ Below(ToSet(h), waiting)
        /\ all \cup t = Upto(n)
        /\ all \cap t = {}

FlowInv == Flow(mirror, Held, steerQ, followQ, asideQ, taken, sent)

\* Paired, of one sequence of entries.
PairedSeq(s) ==
    /\ \A i \in 1..Len(s) : s[i][1] = "assistant" => AnsweredAt(s, i)
    /\ \A i \in 1..Len(s) :
         s[i][1] = "result" => \E j \in 1..(i - 1) : s[j][1] = "assistant" /\ i - j <= s[j][2]

\* While tools run, the calls of the last message are the only ones open, in
\* the context as well as in the transcript.
PairInv ==
    IF pc = "tools"
    THEN /\ context # <<>> /\ mirror # <<>>
         /\ Last(context)[1] = "assistant" /\ Last(mirror) = Last(context)
         /\ PairedSeq(Front(context)) /\ PairedSeq(Front(mirror))
    ELSE PairedSeq(context) /\ PairedSeq(mirror)

\* A late poll that found nothing leaves nothing but later messages.
Late(q, k) == \A i \in 1..Len(q) : q[i][2] > k

SeenInv ==
    /\ mark.steer <= sent["steer"] /\ mark.follow <= sent["follow"]
    /\ pc \in {"lateAside", "lateFollow"} /\ polled = <<>> /\ ~aborted => Late(steerQ, mark.steer)
    /\ NotStranded

\* The loop leaves its inner while behind an answer, unless it was thrown away.
Answered == Role(Last(context)) = "assistant"

AnswerInv ==
    /\ pc = "tools" => more
    /\ pc = "turnEnd" /\ ~more => Answered
    /\ pc \in {"beforeYield", "lateAside", "lateFollow"} => leaks > 0 \/ Answered
    /\ pc = "idle" /\ ended = "stop" => leaks > 0 \/ Answered

\* Barren calls are paid for by paused turns and leak retries, and one more
\* ends the inner while.
Paid == barren <= paused * (MaxLeaks + 1) + leaks

SpinInv ==
    /\ barren <= (paused + 1) * (MaxLeaks + 1)
    /\ pc \in {"initialPoll", "call", "tools", "pollAside"} => Paid
    /\ pc = "turnEnd" /\ more => Paid
    /\ pc = "top" => Paid \/ pending # <<>>

IInv == Typed /\ InHand /\ FlowInv /\ PairInv /\ SeenInv /\ AnswerInv /\ SpinInv

-----------------------------------------------------------------------------
(* Sequences.                                                              *)

\* The elements of sequences that are put together.
LEMMA Elements ==
    ASSUME NEW S, NEW s \in Seq(S)
    PROVE  /\ ToSet(s) \subseteq S /\ ToSet(<<>>) = {}
           /\ \A t \in Seq(S) : ToSet(s \o t) = ToSet(s) \cup ToSet(t)
           /\ \A e \in S : ToSet(<<e>>) = {e} /\ ToSet(Append(s, e)) = ToSet(s) \cup {e}
<1>1. /\ \A r \in Seq(S) : ToSet(r) = Range(r)
      /\ <<>> \in Seq(S) /\ \A e \in S : <<e>> \in Seq(S)
  BY DEF ToSet, Range
<1>2. ToSet(s) \subseteq S
  BY <1>1, RangeOfSeq
<1>3. ASSUME NEW t \in Seq(S) PROVE ToSet(s \o t) = ToSet(s) \cup ToSet(t)
  <2>1. s \o t \in Seq(S) /\ ToSet(s \o t) = Range(s \o t)
    BY <1>1, ConcatProperties
  <2>2. Range(s \o t) = Range(s) \cup Range(t)
    BY RangeConcatenation
  <2> QED
    BY <1>1, <2>1, <2>2
<1>4. ASSUME NEW e \in S PROVE ToSet(<<e>>) = {e}
  BY DEF ToSet
<1>5. ASSUME NEW e \in S PROVE ToSet(Append(s, e)) = ToSet(s) \cup {e}
  <2>1. Append(s, e) = s \o <<e>>
    BY AppendIsConcat
  <2> QED
    BY <1>1, <1>3, <1>4, <2>1
<1>6. ToSet(<<>>) = {}
  BY DEF ToSet
<1> QED
  BY <1>2, <1>3, <1>4, <1>5, <1>6

\* One element more.
LEMMA AppendSet ==
    ASSUME NEW S, NEW s \in Seq(S), NEW e \in S
    PROVE  ToSet(Append(s, e)) = ToSet(s) \cup {e}
<1>1. /\ Len(s) \in Nat /\ Len(Append(s, e)) = Len(s) + 1 /\ Append(s, e)[Len(s) + 1] = e
      /\ \A i \in 1..Len(s) : Append(s, e)[i] = s[i]
  BY AppendProperties, LenProperties
<1>2. DOMAIN s = 1..Len(s) /\ DOMAIN Append(s, e) = 1..(Len(s) + 1)
  BY <1>1, AppendProperties, LenProperties
<1>3. \A i \in 1..(Len(s) + 1) : i \in 1..Len(s) \/ i = Len(s) + 1
  BY <1>1
<1>4. Len(s) + 1 \in 1..(Len(s) + 1) /\ 1..Len(s) \subseteq 1..(Len(s) + 1)
  BY <1>1
<1> QED
  BY <1>1, <1>2, <1>3, <1>4 DEF ToSet

\* A sequence that is not empty is its front and its last element.
LEMMA FrontLast ==
    ASSUME NEW S, NEW s \in Seq(S), s # <<>>
    PROVE  /\ Front(s) \in Seq(S) /\ Last(s) \in S /\ s = Front(s) \o <<Last(s)>>
           /\ Last(s) = s[Len(s)] /\ Len(s) \in Nat \ {0}
<1>1. Len(s) \in Nat \ {0} /\ \A i \in 1..Len(s) : s[i] \in S
  BY EmptySeq, ElementOfSeq
<1>2. Front(s) = SubSeq(s, 1, Len(s) - 1) /\ Last(s) = s[Len(s)]
  BY DEF Front, Last
<1>3. Front(s) \in Seq(S)
  BY <1>1, <1>2, SubSeqProperties
<1>4. SubSeq(s, 1, Len(s)) = SubSeq(s, 1, Len(s) - 1) \o <<s[Len(s)]>>
  BY <1>1, SubSeqRecursiveSecond
<1>5. SubSeq(s, 1, Len(s)) = s
  BY SubSeqFull
<1> QED
  <2>1. s = Front(s) \o <<Last(s)>>
    BY <1>2, <1>4, <1>5
  <2>2. Len(s) \in 1..Len(s)
    BY <1>1
  <2>3. Last(s) \in S
    BY <1>1, <1>2, <2>2
  <2> QED
    BY <1>1, <1>2, <1>3, <2>1, <2>3

\* The last of two sequences put together.
LEMMA LastConcat ==
    ASSUME NEW S, NEW s \in Seq(S), NEW t \in Seq(S), t # <<>>
    PROVE  Last(s \o t) = Last(t)
<1>1. Len(s) \in Nat /\ Len(t) \in Nat \ {0}
  BY EmptySeq, LenProperties
<1>2. Len(s \o t) = Len(s) + Len(t)
      /\ \A i \in 1 .. Len(s) + Len(t) : (s \o t)[i] = IF i <= Len(s) THEN s[i] ELSE t[i - Len(s)]
  BY ConcatProperties
<1>3. Len(s) + Len(t) \in 1..(Len(s) + Len(t)) /\ ~(Len(s) + Len(t) <= Len(s))
      /\ Len(s) + Len(t) - Len(s) = Len(t)
  BY <1>1
<1> QED
  BY <1>2, <1>3 DEF Last

\* What a poll dequeues and what it leaves are the queue; it dequeues something
\* where there is something.
LEMMA Split ==
    ASSUME NEW S, NEW q \in Seq(S)
    PROVE  /\ Dequeued(q) \in Seq(S) /\ LeftOver(q) \in Seq(S)
           /\ q = Dequeued(q) \o LeftOver(q)
           /\ Dequeued(q) = <<>> => q = <<>>
<1>1. Len(q) \in Nat /\ (q # <<>> => Len(q) \in Nat \ {0}) /\ \A i \in 1..Len(q) : q[i] \in S
  BY EmptySeq, ElementOfSeq, LenProperties
<1>2. SubSeq(q, 1, Len(q)) = q
  BY SubSeqFull
<1>3. \E k \in 0..Len(q) : Dequeued(q) = SubSeq(q, 1, k) /\ (q # <<>> => k > 0)
  <2>1. CASE ~oneAtATime
    <3>1. Dequeued(q) = q
      BY <2>1 DEF Dequeued
    <3> QED
      <4>1. Len(q) \in 0..Len(q) /\ (q # <<>> => Len(q) > 0)
        BY <1>1
      <4> QED
        BY <1>2, <3>1, <4>1
  <2>2. CASE oneAtATime /\ q = <<>>
    BY <1>1, <2>2 DEF Dequeued
  <2>3. CASE oneAtATime /\ q # <<>>
    BY <1>1, <2>3 DEF Dequeued
  <2> QED
    BY <2>1, <2>2, <2>3
<1>4. PICK k \in 0..Len(q) : Dequeued(q) = SubSeq(q, 1, k) /\ (q # <<>> => k > 0)
  BY <1>3
<1>5. Dequeued(q) \in Seq(S) /\ Len(Dequeued(q)) = k
  BY <1>1, <1>4, SubSeqProperties
<1>6. LeftOver(q) = SubSeq(q, k + 1, Len(q))
  BY <1>5 DEF LeftOver
<1>7. LeftOver(q) \in Seq(S)
  BY <1>1, <1>6, SubSeqProperties
<1>8. SubSeq(q, 1, k) \o SubSeq(q, k + 1, Len(q)) = SubSeq(q, 1, Len(q))
  <2>1. 1 \in 1..(Len(q) + 1) /\ k \in (1 - 1)..Len(q) /\ Len(q) \in k..Len(q)
    BY <1>1
  <2> QED
    BY <2>1, ConcatAdjacentSubSeq
<1>9. Dequeued(q) = <<>> => q = <<>>
  BY <1>4, <1>5, EmptySeq
<1> QED
  BY <1>2, <1>4, <1>5, <1>6, <1>7, <1>8, <1>9

-----------------------------------------------------------------------------
(* Order.                                                                  *)

\* Sequences put together are in order when each is, and the first below the
\* second.
LEMMA AscConcat ==
    ASSUME NEW S, NEW s \in Seq(S), NEW t \in Seq(S)
    PROVE  Asc(s \o t) <=> Asc(s) /\ Asc(t) /\ Below(ToSet(s), ToSet(t))
<1> DEFINE n == Len(s)
           k == Len(t)
           u == s \o t
<1>1. /\ n \in Nat /\ k \in Nat /\ DOMAIN s = 1..n /\ DOMAIN t = 1..k
  BY LenProperties
<1>2. /\ u \in Seq(S) /\ Len(u) = n + k
      /\ \A i \in 1..(n + k) : u[i] = IF i <= n THEN s[i] ELSE t[i - n]
  BY ConcatProperties
<1>3. DOMAIN u = 1..(n + k)
  BY <1>2, LenProperties
<1> HIDE DEF n, k, u
<1>4. \A i \in 1..n : i \in DOMAIN u /\ u[i] = s[i]
  BY <1>1, <1>2, <1>3
<1>5. \A i \in 1..k : n + i \in DOMAIN u /\ u[n + i] = t[i] /\ n + i > n
  BY <1>1, <1>2, <1>3
<1>6. ASSUME Asc(u) PROVE Asc(s) /\ Asc(t) /\ Below(ToSet(s), ToSet(t))
  <2>1. Asc(s)
    BY <1>1, <1>4, <1>6 DEF Asc
  <2>2. Asc(t)
    <3> SUFFICES ASSUME NEW i \in 1..k, NEW j \in 1..k, i < j PROVE Precedes(t[i], t[j])
      BY <1>1 DEF Asc
    <3>1. n + i < n + j
      BY <1>1
    <3> QED
      BY <1>5, <1>6, <3>1 DEF Asc
  <2>3. Below(ToSet(s), ToSet(t))
    <3> SUFFICES ASSUME NEW i \in 1..n, NEW j \in 1..k PROVE Precedes(s[i], t[j])
      BY <1>1 DEF Below, ToSet
    <3>1. i < n + j
      BY <1>1
    <3> QED
      BY <1>4, <1>5, <1>6, <3>1 DEF Asc
  <2> QED
    BY <2>1, <2>2, <2>3
<1>7. ASSUME Asc(s), Asc(t), Below(ToSet(s), ToSet(t)) PROVE Asc(u)
  <2> SUFFICES ASSUME NEW i \in 1..(n + k), NEW j \in 1..(n + k), i < j
               PROVE  Precedes(u[i], u[j])
    BY <1>3 DEF Asc
  <2>1. CASE j <= n
    BY <1>1, <1>4, <1>7, <2>1 DEF Asc
  <2>2. CASE ~(i <= n)
    <3>1. i - n \in 1..k /\ j - n \in 1..k /\ i - n < j - n /\ ~(j <= n)
      BY <1>1, <2>2
    <3> QED
      BY <1>1, <1>2, <1>7, <2>2, <3>1 DEF Asc
  <2>3. CASE i <= n /\ ~(j <= n)
    <3>1. i \in 1..n /\ j - n \in 1..k
      BY <1>1, <2>3
    <3>2. u[i] \in ToSet(s) /\ u[j] \in ToSet(t)
      BY <1>1, <1>2, <2>3, <3>1 DEF ToSet
    <3> QED
      BY <1>7, <3>2 DEF Below
  <2> QED
    BY <2>1, <2>2, <2>3
<1> QED
  BY <1>6, <1>7 DEF u

\* Nothing, and a single message, are in order.
LEMMA AscShort == Asc(<<>>) /\ \A e : Asc(<<e>>)
BY DEF Asc

-----------------------------------------------------------------------------
(* Types.                                                                  *)

\* A queue holds messages, and messages are entries.
LEMMA Wider ==
    /\ \A k \in Kinds : Of(k) \subseteq Message /\ Seq(Of(k)) \subseteq Seq(Message)
    /\ Seq(Message) \subseteq Seq(Entry) /\ <<>> \in Seq(Message) /\ <<>> \in Seq(Entry)
<1>1. ASSUME NEW k \in Kinds PROVE Of(k) \subseteq Message
  BY DEF Of, Message
<1>2. Message \subseteq Entry
  BY DEF Message, Entry
<1> QED
  BY <1>1, <1>2, SeqMonotonic

\* Entries the loop makes up itself.
LEMMA Made ==
    ASSUME NEW n \in Nat
    PROVE  /\ <<"assistant", n>> \in Entry /\ <<"discarded", n>> \in Entry
           /\ << <<"assistant", n>> >> \in Seq(Entry) /\ << <<"discarded", n>> >> \in Seq(Entry)
           /\ Answers(n) \in Seq(Entry) /\ Len(Answers(n)) = n
           /\ \A i \in 1..n : Answers(n)[i] = <<"result", i>>
<1>1. <<"assistant", n>> \in Entry /\ <<"discarded", n>> \in Entry
  BY DEF Entry
<1>2. Answers(n) \in [1..n -> Entry] /\ \A i \in 1..n : Answers(n)[i] = <<"result", i>>
  BY DEF Answers, Entry
<1>3. Answers(n) \in Seq(Entry) /\ Len(Answers(n)) = n
  BY <1>2, SeqDef, LenProperties
<1> QED
  BY <1>1, <1>2, <1>3

\* What is polled is the head of the queue, and an aborted poll leaves it alone.
LEMMA Polled ==
    ASSUME Typed, PollSteering
    PROVE  /\ {polled', steerQ'} \subseteq Seq(Of("steer")) /\ polled' \in Seq(Message)
           /\ steerQ = polled' \o steerQ'
           /\ polled' = <<>> /\ ~aborted /\ ~skipPoll => steerQ' = <<>>
           /\ aborted => polled' = <<>> /\ steerQ' = steerQ
           /\ skipPoll' = (skipPoll /\ aborted)
           /\ mark'.steer = sent["steer"] /\ mark'.follow = mark.follow
           /\ mark' \in [steer : Nat, follow : Nat]
<1>1. steerQ \in Seq(Of("steer")) /\ mark \in [steer : Nat, follow : Nat] /\ sent["steer"] \in Nat
  BY DEF Typed, TypeOK, Kinds
<1>2. /\ mark'.steer = sent["steer"] /\ mark'.follow = mark.follow
      /\ mark' \in [steer : Nat, follow : Nat]
  BY <1>1 DEF PollSteering
<1>3. skipPoll' = (skipPoll /\ aborted)
  BY DEF PollSteering
<1>4. "steer" \in Kinds /\ <<>> \in Seq(Of("steer")) /\ <<>> \o steerQ = steerQ
  BY <1>1, ConcatEmptySeq DEF Kinds
<1>5. CASE aborted \/ skipPoll
  <2>1. polled' = <<>> /\ steerQ' = steerQ
    BY <1>5 DEF PollSteering
  <2> QED
    BY <1>1, <1>2, <1>3, <1>4, <1>5, <2>1, Wider
<1>6. CASE ~(aborted \/ skipPoll)
  <2>1. polled' = Dequeued(steerQ) /\ steerQ' = LeftOver(steerQ)
    BY <1>6 DEF PollSteering
  <2>2. /\ Dequeued(steerQ) \in Seq(Of("steer")) /\ LeftOver(steerQ) \in Seq(Of("steer"))
        /\ steerQ = Dequeued(steerQ) \o LeftOver(steerQ)
        /\ Dequeued(steerQ) = <<>> => steerQ = <<>>
    BY <1>1, Split
  <2>3. Dequeued(steerQ) = <<>> => LeftOver(steerQ) = <<>>
    <3>1. Dequeued(steerQ) \o LeftOver(steerQ) = <<>> => LeftOver(steerQ) = <<>>
      BY <2>2, ConcatEqualIffEmpty
    <3> QED
      BY <2>2, <3>1
  <2> QED
    BY <1>2, <1>3, <1>4, <1>6, <2>1, <2>2, <2>3, Wider
<1> QED
  BY <1>5, <1>6

\* The bounds on messages and model calls are numbers.
LEMMA Bounded ==
    ASSUME Typed
    PROVE  /\ MaxTurns[leaky] \in Nat /\ \A k \in Kinds : MaxSent[leaky][k] \in Nat /\ sent[k] \in Nat
           /\ turns \in 0..MaxTurns[leaky] /\ MaxPaused \in Nat /\ MaxLeaks \in Nat
BY LoopAssumption DEF Typed, TypeOK

\* TypeOK of the variables that a run counts with.
CountsOK ==
    /\ leaks \in 0..MaxLeaks /\ resumes \in 0..MaxLeaks /\ paused \in 0..MaxPaused
    /\ turns \in 0..MaxTurns[leaky] /\ barren \in Nat

\* A model call and what follows it keep the counters in range.
LEMMA CallTyped ==
    ASSUME Typed, Called
    PROVE  /\ turns' \in 0..MaxTurns[leaky] /\ turns' \in Nat
           /\ \A stop, n, pause : AfterResponse(stop, n, pause) =>
                /\ more' \in BOOLEAN /\ paused' \in 0..MaxPaused /\ barren' \in Nat
                /\ pc' \in {"tools", "turnEnd"}
<1>1. turns' \in 0..MaxTurns[leaky]
  BY Bounded DEF Called
<1>2. paused \in 0..MaxPaused /\ barren \in Nat
  BY DEF Typed, TypeOK
<1>3. ASSUME NEW stop, NEW n, NEW pause, AfterResponse(stop, n, pause)
      PROVE  /\ more' \in BOOLEAN /\ paused' \in 0..MaxPaused /\ barren' \in Nat
             /\ pc' \in {"tools", "turnEnd"}
  BY <1>2, <1>3, Bounded DEF AfterResponse
<1> QED
  BY <1>1, <1>3

\* A run begins with messages msgs at the end of the transcript.
LEMMA BeginTyped ==
    ASSUME Typed, NEW msgs \in Seq(Message), NEW skip \in BOOLEAN, Begin(msgs, skip),
           sent' \in [Kinds -> Nat], \A k \in Kinds : sent'[k] <= MaxSent[leaky][k],
           steerQ' \in Seq(Of("steer")), followQ' \in Seq(Of("follow"))
    PROVE  Typed'
<1>1. msgs \in Seq(Entry) /\ <<>> \in Seq(Message)
  BY Wider
<1>2. context' \in Seq(Entry) /\ mirror' \in Seq(Entry)
  BY <1>1, ConcatProperties DEF Begin, StartContext, Mirror, Typed
<1>3. TypeOK'
  <2>1. 0 \in 0..MaxLeaks /\ 0 \in 0..MaxPaused /\ 0 \in Nat
    BY Bounded
  <2> QED
    BY <2>1 DEF Begin, Typed, TypeOK, PCs, config
<1> QED
  BY <1>1, <1>2, <1>3 DEF Begin, Typed

\* A step that changes none of what Typed says of queues, messages and counters
\* but what is typed here.
LEMMA LoopTyped ==
    ASSUME Typed, pc' \in PCs, UNCHANGED config,
           sent' \in [Kinds -> Nat], \A k \in Kinds : sent'[k] <= MaxSent[leaky][k],
           {more', skipPoll', aborted'} \subseteq BOOLEAN, CountsOK',
           ended' \in {"none", "stop", "failed", "threw"},
           mark' \in [steer : Nat, follow : Nat],
           {context', mirror'} \subseteq Seq(Entry), {pending', polled'} \subseteq Seq(Message),
           steerQ' \in Seq(Of("steer")), followQ' \in Seq(Of("follow")),
           asideQ' \in Seq(Of("aside")), taken' \subseteq Message
    PROVE  Typed'
BY DEF Typed, TypeOK, CountsOK, config

\* What Typed says, for the lemma above.
LEMMA TypedParts ==
    ASSUME Typed
    PROVE  /\ sent \in [Kinds -> Nat] /\ \A k \in Kinds : sent[k] <= MaxSent[leaky][k]
           /\ {more, skipPoll, aborted} \subseteq BOOLEAN /\ CountsOK
           /\ ended \in {"none", "stop", "failed", "threw"}
           /\ mark \in [steer : Nat, follow : Nat]
           /\ {context, mirror} \subseteq Seq(Entry) /\ {pending, polled} \subseteq Seq(Message)
           /\ steerQ \in Seq(Of("steer")) /\ followQ \in Seq(Of("follow"))
           /\ asideQ \in Seq(Of("aside")) /\ taken \subseteq Message /\ <<>> \in Seq(Message)
           /\ leaky \in BOOLEAN /\ pc \in PCs
BY Wider DEF Typed, TypeOK, CountsOK

\* One message more of kind k, within the bound.
LEMMA SentMore ==
    ASSUME Typed, NEW k \in Kinds, sent[k] < MaxSent[leaky][k],
           sent' = [sent EXCEPT ![k] = @ + 1]
    PROVE  /\ sent' \in [Kinds -> Nat] /\ \A l \in Kinds : sent'[l] <= MaxSent[leaky][l]
           /\ sent'[k] = sent[k] + 1 /\ \A l \in Kinds \ {k} : sent'[l] = sent[l]
<1>1. sent \in [Kinds -> Nat] /\ \A l \in Kinds : sent[l] <= MaxSent[leaky][l]
  BY TypedParts
<1>2. MaxSent[leaky][k] \in Nat
  BY Bounded
<1> QED
  BY <1>1, <1>2

\* Agent.prompt keeps the types: one prompt, within its bound.
LEMMA PromptTyped == Typed /\ Prompt => Typed'
<1> SUFFICES ASSUME Typed, Prompt PROVE Typed'
  OBVIOUS
<1>1. "prompt" \in Kinds
  BY DEF Kinds
<1>2. sent' \in [Kinds -> Nat] /\ \A k \in Kinds : sent'[k] <= MaxSent[leaky][k]
  BY <1>1, SentMore DEF Prompt
<1>3. << <<"prompt", sent'["prompt"]>> >> \in Seq(Message)
  BY <1>1, <1>2 DEF Message
<1>4. Begin(<< <<"prompt", sent'["prompt"]>> >>, FALSE) /\ UNCHANGED <<steerQ, followQ>>
  BY DEF Prompt
<1> QED
  BY <1>2, <1>3, <1>4, BeginTyped, TypedParts

\* What Agent.continue begins with.
LEMMA Continued ==
    ASSUME Typed, Continue
    PROVE  /\ UNCHANGED sent /\ pc = "idle" /\ mirror # <<>>
           /\ \E msgs \in Seq(Message), skip \in BOOLEAN :
                /\ Begin(msgs, skip)
                /\ steerQ' \in Seq(Of("steer")) /\ followQ' \in Seq(Of("follow"))
                /\ \/ /\ msgs \in Seq(Of("steer")) /\ steerQ = msgs \o steerQ' /\ followQ' = followQ
                   \/ /\ msgs \in Seq(Of("follow")) /\ followQ = msgs \o followQ' /\ steerQ' = steerQ
                   \/ msgs = <<>> /\ steerQ' = steerQ /\ followQ' = followQ
<1>1. steerQ \in Seq(Of("steer")) /\ followQ \in Seq(Of("follow")) /\ {"steer", "follow"} \subseteq Kinds
  BY TypedParts DEF Kinds
<1>2. /\ Dequeued(steerQ) \in Seq(Of("steer")) /\ LeftOver(steerQ) \in Seq(Of("steer"))
      /\ steerQ = Dequeued(steerQ) \o LeftOver(steerQ)
  BY <1>1, Split
<1>3. /\ Dequeued(followQ) \in Seq(Of("follow")) /\ LeftOver(followQ) \in Seq(Of("follow"))
      /\ followQ = Dequeued(followQ) \o LeftOver(followQ)
  BY <1>1, Split
<1>4. /\ Dequeued(steerQ) \in Seq(Message) /\ Dequeued(followQ) \in Seq(Message)
      /\ <<>> \in Seq(Message)
  BY <1>1, <1>2, <1>3, Wider
<1>5. CASE Begin(Dequeued(steerQ), TRUE) /\ steerQ' = LeftOver(steerQ) /\ followQ' = followQ
  BY <1>1, <1>2, <1>4, <1>5 DEF Continue
<1>6. CASE Begin(Dequeued(followQ), FALSE) /\ followQ' = LeftOver(followQ) /\ steerQ' = steerQ
  BY <1>1, <1>3, <1>4, <1>6 DEF Continue
<1>7. CASE Begin(<<>>, FALSE) /\ UNCHANGED <<steerQ, followQ>>
  BY <1>1, <1>4, <1>7 DEF Continue
<1> QED
  BY <1>5, <1>6, <1>7 DEF Continue

\* So does Agent.continue, whatever it continues with.
LEMMA ContinueTyped == Typed /\ Continue => Typed'
<1> SUFFICES ASSUME Typed, Continue PROVE Typed'
  OBVIOUS
<1>1. PICK msgs \in Seq(Message), skip \in BOOLEAN :
        /\ Begin(msgs, skip)
        /\ steerQ' \in Seq(Of("steer")) /\ followQ' \in Seq(Of("follow"))
  BY Continued
<1> QED
  BY <1>1, Continued, BeginTyped, TypedParts

\* Steps that commit entries to context and transcript.
LEMMA CommitTyped ==
    ASSUME Typed, NEW entries \in Seq(Entry), Commit(entries)
    PROVE  {context', mirror'} \subseteq Seq(Entry)
BY TypedParts, ConcatProperties DEF Commit, Mirror

\* The model calls.
Stops == {"stop", "toolUse", "length"}

\* Each outcome of a model call keeps the types.
LEMMA CallsTyped ==
    ASSUME Typed, \/ \E n \in 0..1 : Fails(n)
                  \/ \E stop \in Stops, n \in 0..2, pause \in BOOLEAN : Responds(stop, n, pause)
                  \/ \E n \in 0..1, shown \in BOOLEAN : LeakRetries(n, shown)
                  \/ \E shown \in BOOLEAN : LeakResumes(shown) \/ LeakEscalates(shown)
    PROVE  Typed'
<1>1. 0 \in Nat /\ 1 \in Nat /\ 0..1 \subseteq Nat /\ 0..2 \subseteq Nat /\ 0 \in 0..MaxLeaks /\ MaxLeaks \in Nat
      /\ leaks \in 0..MaxLeaks /\ resumes \in 0..MaxLeaks /\ barren \in Nat
  BY Bounded, TypedParts DEF CountsOK
<1>2. ASSUME NEW n \in 0..1, Fails(n) PROVE Typed'
  <2>1. << <<"assistant", n>> >> \o Answers(n) \in Seq(Entry)
    BY <1>1, Made, ConcatProperties
  <2>2. {context', mirror'} \subseteq Seq(Entry)
    BY <1>2, <2>1, CommitTyped DEF Fails, FailedMessage
  <2>3. CountsOK'
    BY <1>1, <1>2, CallTyped, TypedParts DEF Fails, CountsOK, config
  <2> QED
    BY <1>2, <2>2, <2>3, TypedParts, LoopTyped DEF Fails, PCs, queues
<1>3. ASSUME NEW stop \in Stops, NEW n \in 0..2, NEW pause \in BOOLEAN, Responds(stop, n, pause) PROVE Typed'
  <2>1. Placeholders(stop, n) \in Seq(Entry)
    BY <1>1, Made, Wider DEF Placeholders
  <2>2. << <<"assistant", n>> >> \o Placeholders(stop, n) \in Seq(Entry)
    BY <1>1, <2>1, Made, ConcatProperties
  <2>3. {context', mirror'} \subseteq Seq(Entry)
    BY <1>3, <2>2, CommitTyped DEF Responds
  <2>4. Called /\ AfterResponse(stop, n, pause) /\ leaks' = 0 /\ resumes' = 0 /\ UNCHANGED config
    BY <1>3 DEF Responds
  <2>5. CountsOK' /\ more' \in BOOLEAN /\ pc' \in PCs
    BY <1>1, <2>4, CallTyped DEF CountsOK, config, PCs
  <2> QED
    BY <1>3, <2>3, <2>5, TypedParts, LoopTyped DEF Responds, queues
<1>4. ASSUME NEW n \in 0..1, NEW shown \in BOOLEAN, LeakRetries(n, shown) PROVE Typed'
  <2>1. mirror' \in Seq(Entry)
    BY <1>1, <1>4, Made, TypedParts, AppendProperties DEF LeakRetries, Discard
  <2>2. leaks' \in 0..MaxLeaks /\ barren' \in Nat /\ pc' \in {"top", "beforeYield"}
    BY <1>1, <1>4 DEF LeakRetries, WhileTest
  <2>3. CountsOK'
    BY <1>4, <2>2, CallTyped, TypedParts DEF LeakRetries, CountsOK, config
  <2> QED
    BY <1>4, <2>1, <2>2, <2>3, TypedParts, LoopTyped DEF LeakRetries, PCs, queues
<1>5. ASSUME NEW shown \in BOOLEAN, LeakResumes(shown) PROVE Typed'
  <2> DEFINE base == IF shown THEN Append(mirror, <<"discarded", 1>>) ELSE mirror
  <2>1. context' \in Seq(Entry)
    BY <1>1, <1>5, Made, TypedParts, AppendProperties DEF LeakResumes
  <2>2. base \in Seq(Entry)
    BY <1>1, Made, TypedParts, AppendProperties
  <2>3. mirror' \in Seq(Entry)
    BY <1>1, <1>5, <2>2, Made, ConcatProperties DEF LeakResumes
  <2>4. Called /\ AfterResponse("toolUse", 1, FALSE) /\ resumes' = resumes + 1 /\ UNCHANGED leaks
        /\ resumes < MaxLeaks /\ UNCHANGED config
    BY <1>5 DEF LeakResumes
  <2>5. resumes' \in 0..MaxLeaks /\ leaks' \in 0..MaxLeaks /\ leaky' = leaky
    BY <1>1, <2>4 DEF config
  <2>6. /\ turns' \in 0..MaxTurns[leaky] /\ paused' \in 0..MaxPaused /\ barren' \in Nat
        /\ more' \in BOOLEAN /\ pc' \in {"tools", "turnEnd"}
    BY <2>4, CallTyped
  <2>7. CountsOK' /\ more' \in BOOLEAN /\ pc' \in PCs
    BY <2>5, <2>6 DEF CountsOK, PCs
  <2> QED
    BY <1>5, <2>1, <2>3, <2>7, TypedParts, LoopTyped DEF LeakResumes, queues
<1>6. ASSUME NEW shown \in BOOLEAN, LeakEscalates(shown) PROVE Typed'
  <2> DEFINE base == IF shown THEN Append(mirror, <<"discarded", 1>>) ELSE mirror
  <2>1. base \in Seq(Entry)
    BY <1>1, Made, TypedParts, AppendProperties
  <2>2. mirror' \in Seq(Entry)
    BY <1>1, <1>6, <2>1, Made, ConcatProperties DEF LeakEscalates
  <2>3. CountsOK'
    BY <1>1, <1>6, CallTyped, TypedParts DEF LeakEscalates, CountsOK, config, counters
  <2> QED
    BY <1>6, <2>2, <2>3, TypedParts, LoopTyped DEF LeakEscalates, PCs, queues
<1> QED
  BY <1>2, <1>3, <1>4, <1>5, <1>6

\* The steps that poll steering messages.
LEMMA PollsTyped ==
    ASSUME Typed, InitialPoll \/ TurnEnd \/ BeforeYield
    PROVE  Typed'
<1>1. PollSteering
  BY DEF InitialPoll, TurnEnd, BeforeYield
<1>2. /\ polled' \in Seq(Message) /\ steerQ' \in Seq(Of("steer"))
      /\ skipPoll' \in BOOLEAN /\ mark' \in [steer : Nat, follow : Nat]
  BY <1>1, Polled, TypedParts
<1>3. pending' \in {pending, polled'} /\ pc' \in PCs
  BY DEF InitialPoll, TurnEnd, BeforeYield, WhileTest, PCs
<1>4. UNCHANGED <<config, sent, followQ, asideQ, taken, log, more, counters, aborted, ended,
                  turns, barren>>
  BY DEF InitialPoll, TurnEnd, BeforeYield
<1>5. CountsOK'
  BY <1>4, TypedParts DEF CountsOK, counters, config
<1> QED
  BY <1>2, <1>3, <1>4, <1>5, TypedParts, LoopTyped DEF log

\* The batch of a turn goes into the transcript.
LEMMA InjectTyped ==
    ASSUME Typed, Inject
    PROVE  Typed'
<1>1. pending \in Seq(Entry) /\ <<>> \in Seq(Message)
  BY TypedParts, Wider
<1>2. {context', mirror'} \subseteq Seq(Entry)
  BY <1>1, CommitTyped DEF Inject
<1>3. CountsOK'
  BY Bounded, TypedParts DEF Inject, CountsOK, counters, config
<1> QED
  BY <1>1, <1>2, <1>3, TypedParts, LoopTyped DEF Inject, PCs, queues

\* A run that ends with an error.
LEMMA ThrowsTyped ==
    ASSUME Typed, Throws
    PROVE  Typed'
<1>1. mirror' \in Seq(Entry)
  BY Made, TypedParts, AppendProperties DEF Throws
<1>2. CountsOK'
  BY TypedParts DEF Throws, CountsOK, counters, config
<1> QED
  BY <1>1, <1>2, TypedParts, LoopTyped DEF Throws, PCs, queues

\* Tools are run for the assistant message at the end of the context.
LEMMA RunToolsTyped ==
    ASSUME Typed, PairInv, RunTools
    PROVE  Typed' /\ Last(context)[2] \in Nat
<1>1. Last(context) \in Entry
  BY TypedParts, FrontLast DEF PairInv, RunTools
<1>2. Last(context)[2] \in Nat
  BY <1>1 DEF Entry
<1>3. {context', mirror'} \subseteq Seq(Entry)
  BY <1>2, Made, CommitTyped DEF RunTools
<1>4. CountsOK'
  BY TypedParts DEF RunTools, CountsOK, counters, config
<1> QED
  BY <1>2, <1>3, <1>4, TypedParts, LoopTyped DEF RunTools, PCs, queues

\* What becomes of the asides of a poll.
LEMMA AsidesTyped ==
    ASSUME Typed, NEW keep \in BOOLEAN, TakeAsides(keep)
    PROVE  /\ asideQ' = <<>> /\ asideQ' \in Seq(Of("aside")) /\ asideQ \in Seq(Message)
           /\ polled' \in Seq(Message) /\ taken' \subseteq Message
           /\ \/ polled' = polled \o asideQ /\ taken' = taken
              \/ polled' = polled /\ taken' = taken \cup ToSet(asideQ)
<1>1. asideQ \in Seq(Message) /\ polled \in Seq(Message) /\ <<>> \in Seq(Of("aside"))
      /\ <<>> \in Seq(Message)
  BY TypedParts, Wider DEF Kinds
<1>2. ToSet(asideQ) \subseteq Message
  BY <1>1, Elements
<1>3. polled \o asideQ \in Seq(Message) /\ polled \o <<>> = polled
  BY <1>1, ConcatProperties, ConcatEmptySeq
<1> QED
  BY <1>1, <1>2, <1>3, TypedParts DEF TakeAsides

\* The two aside polls keep the types.
LEMMA AsidePollsTyped ==
    ASSUME Typed, NEW keep \in BOOLEAN, PollAside(keep) \/ LateAside(keep)
    PROVE  Typed'
<1>1. /\ asideQ' \in Seq(Of("aside")) /\ polled' \in Seq(Message) /\ taken' \subseteq Message
  BY AsidesTyped, TypedParts DEF PollAside, LateAside
<1>2. pending' \in {pending, polled'} /\ pc' \in PCs
  BY DEF PollAside, LateAside, PCs
<1>3. UNCHANGED <<config, sent, steerQ, followQ, log, more, counters, skipPoll, aborted, ended,
                  turns, barren, mark>>
  BY DEF PollAside, LateAside
<1>4. CountsOK'
  BY <1>3, TypedParts DEF CountsOK, counters, config
<1> QED
  BY <1>1, <1>2, <1>3, <1>4, TypedParts, LoopTyped DEF log

\* What the follow-up poll takes.
LEMMA Followed ==
    ASSUME Typed, LateFollow
    PROVE  \E follow \in Seq(Of("follow")) :
             /\ follow \in Seq(Message) /\ followQ' \in Seq(Of("follow"))
             /\ followQ = follow \o followQ'
             /\ aborted => followQ' = followQ
             /\ follow = <<>> /\ ~aborted => followQ' = <<>>
             /\ pending' = polled \o follow /\ pending' \in Seq(Message)
             /\ IF pending' # <<>> THEN more' = TRUE /\ pc' = "top" /\ ended' = ended
                ELSE pc' = "idle" /\ ended' = "stop" /\ more' = more
<1>1. followQ \in Seq(Of("follow")) /\ "follow" \in Kinds /\ polled \in Seq(Message)
      /\ <<>> \in Seq(Of("follow")) /\ <<>> \in Seq(Message)
  BY TypedParts, Wider DEF Kinds
<1>2. /\ Dequeued(followQ) \in Seq(Of("follow")) /\ LeftOver(followQ) \in Seq(Of("follow"))
      /\ followQ = Dequeued(followQ) \o LeftOver(followQ)
      /\ Dequeued(followQ) = <<>> => followQ = <<>>
  BY <1>1, Split
<1>3. Dequeued(followQ) = <<>> => LeftOver(followQ) = <<>>
  <2>1. Dequeued(followQ) \o LeftOver(followQ) = <<>> => LeftOver(followQ) = <<>>
    BY <1>2, ConcatEqualIffEmpty
  <2> QED
    BY <1>2, <2>1
<1>4. /\ Dequeued(followQ) \in Seq(Message) /\ <<>> \o followQ = followQ
      /\ \A s \in Seq(Message) : polled \o s \in Seq(Message)
  BY <1>1, <1>2, Wider, ConcatEmptySeq, ConcatProperties
<1>5. CASE aborted
  <2> DEFINE all == polled \o <<>>
  <2>1. /\ followQ' = followQ /\ pending' = all
        /\ IF all # <<>> THEN more' = TRUE /\ pc' = "top" /\ UNCHANGED ended
           ELSE pc' = "idle" /\ ended' = "stop" /\ UNCHANGED more
    BY <1>5 DEF LateFollow
  <2> QED
    BY <1>1, <1>4, <1>5, <2>1
<1>6. CASE ~aborted
  <2> DEFINE all == polled \o Dequeued(followQ)
  <2>1. /\ followQ' = LeftOver(followQ) /\ pending' = all
        /\ IF all # <<>> THEN more' = TRUE /\ pc' = "top" /\ UNCHANGED ended
           ELSE pc' = "idle" /\ ended' = "stop" /\ UNCHANGED more
    BY <1>6 DEF LateFollow
  <2> QED
    BY <1>2, <1>3, <1>4, <1>6, <2>1
<1> QED
  BY <1>5, <1>6

\* The follow-up poll keeps the types, whether the run goes on or stops.
LEMMA LateFollowTyped ==
    ASSUME Typed, LateFollow
    PROVE  Typed'
<1>1. /\ followQ' \in Seq(Of("follow")) /\ pending' \in Seq(Message)
      /\ more' \in BOOLEAN /\ pc' \in {"top", "idle"} /\ ended' \in {ended, "stop"}
  BY Followed, TypedParts
<1>2. mark' \in [steer : Nat, follow : Nat]
  BY TypedParts, Bounded DEF LateFollow, Kinds
<1>3. polled' \in Seq(Message)
  BY TypedParts DEF LateFollow
<1>4. UNCHANGED <<config, sent, steerQ, asideQ, taken, log, counters, skipPoll, aborted, turns,
                  barren>>
  BY DEF LateFollow
<1>5. CountsOK'
  BY <1>4, TypedParts DEF CountsOK, counters, config
<1> QED
  BY <1>1, <1>2, <1>3, <1>4, <1>5, TypedParts, LoopTyped DEF log, PCs

\* A message arrives in the queue of its kind.
LEMMA Arrived ==
    ASSUME Typed, NEW k \in {"steer", "follow", "aside"}, Arrive(k)
    PROVE  /\ k \in Kinds
           /\ sent' \in [Kinds -> Nat] /\ \A l \in Kinds : sent'[l] <= MaxSent[leaky][l]
           /\ sent'[k] = sent[k] + 1 /\ \A l \in Kinds \ {k} : sent'[l] = sent[l]
           /\ <<k, sent'[k]>> \in Of(k)
           /\ steerQ' = (IF k = "steer" THEN Append(steerQ, <<k, sent'[k]>>) ELSE steerQ)
           /\ followQ' = (IF k = "follow" THEN Append(followQ, <<k, sent'[k]>>) ELSE followQ)
           /\ asideQ' = (IF k = "aside" THEN Append(asideQ, <<k, sent'[k]>>) ELSE asideQ)
           /\ steerQ' \in Seq(Of("steer")) /\ followQ' \in Seq(Of("follow"))
           /\ asideQ' \in Seq(Of("aside"))
<1>1. k \in Kinds
  BY DEF Kinds
<1>2. /\ sent' \in [Kinds -> Nat] /\ \A l \in Kinds : sent'[l] <= MaxSent[leaky][l]
      /\ sent'[k] = sent[k] + 1 /\ \A l \in Kinds \ {k} : sent'[l] = sent[l]
  BY <1>1, SentMore DEF Arrive
<1>3. <<k, sent'[k]>> \in Of(k)
  BY <1>1, <1>2 DEF Of
<1>4. /\ steerQ' = (IF k = "steer" THEN Append(steerQ, <<k, sent'[k]>>) ELSE steerQ)
      /\ followQ' = (IF k = "follow" THEN Append(followQ, <<k, sent'[k]>>) ELSE followQ)
      /\ asideQ' = (IF k = "aside" THEN Append(asideQ, <<k, sent'[k]>>) ELSE asideQ)
  BY DEF Arrive
<1>5. steerQ' \in Seq(Of("steer")) /\ followQ' \in Seq(Of("follow"))
      /\ asideQ' \in Seq(Of("aside"))
  BY <1>3, <1>4, TypedParts, AppendProperties
<1> QED
  BY <1>1, <1>2, <1>3, <1>4, <1>5

\* The user takes messages back: the end of one queue, or both queues.
LEMMA TakenBack ==
    ASSUME Typed, TakeBack \/ ClearAllQueues
    PROVE  \E s \in Seq(Of("steer")), f \in Seq(Of("follow")) :
             /\ steerQ' \in Seq(Of("steer")) /\ followQ' \in Seq(Of("follow"))
             /\ steerQ = steerQ' \o s /\ followQ = followQ' \o f
             /\ taken' = taken \cup ToSet(s) \cup ToSet(f) /\ taken' \subseteq Message
             /\ steerQ' # steerQ => s # <<>>
             /\ followQ' # followQ => f # <<>>
<1>1. /\ steerQ \in Seq(Of("steer")) /\ followQ \in Seq(Of("follow")) /\ taken \subseteq Message
      /\ <<>> \in Seq(Of("steer")) /\ <<>> \in Seq(Of("follow"))
      /\ \A s \in Seq(Of("steer")) : ToSet(s) \subseteq Message
      /\ \A f \in Seq(Of("follow")) : ToSet(f) \subseteq Message
  <2>1. {"steer", "follow"} \subseteq Kinds
    BY DEF Kinds
  <2>2. \A s \in Seq(Message) : ToSet(s) \subseteq Message
    BY Elements
  <2> QED
    BY <2>1, <2>2, TypedParts, Wider
<1>2. /\ steerQ \o <<>> = steerQ /\ <<>> \o steerQ = steerQ
      /\ followQ \o <<>> = followQ /\ <<>> \o followQ = followQ /\ ToSet(<<>>) = {}
  BY <1>1, ConcatEmptySeq DEF ToSet
<1>3. CASE steerQ # <<>> /\ steerQ' = Front(steerQ) /\ taken' = taken \cup {Last(steerQ)} /\ followQ' = followQ
  <2>1. /\ Front(steerQ) \in Seq(Of("steer")) /\ Last(steerQ) \in Of("steer")
        /\ steerQ = Front(steerQ) \o <<Last(steerQ)>>
    BY <1>1, <1>3, FrontLast
  <2>2. /\ <<Last(steerQ)>> \in Seq(Of("steer")) /\ ToSet(<<Last(steerQ)>>) = {Last(steerQ)}
        /\ <<Last(steerQ)>> # <<>>
    BY <1>1, <2>1, Elements
  <2> QED
    BY <1>1, <1>2, <1>3, <2>1, <2>2
<1>4. CASE followQ # <<>> /\ followQ' = Front(followQ) /\ taken' = taken \cup {Last(followQ)} /\ steerQ' = steerQ
  <2>1. /\ Front(followQ) \in Seq(Of("follow")) /\ Last(followQ) \in Of("follow")
        /\ followQ = Front(followQ) \o <<Last(followQ)>>
    BY <1>1, <1>4, FrontLast
  <2>2. /\ <<Last(followQ)>> \in Seq(Of("follow")) /\ ToSet(<<Last(followQ)>>) = {Last(followQ)}
        /\ <<Last(followQ)>> # <<>>
    BY <1>1, <2>1, Elements
  <2> QED
    BY <1>1, <1>2, <1>4, <2>1, <2>2
<1>5. CASE ClearAllQueues
  <2>1. /\ steerQ' = <<>> /\ followQ' = <<>> /\ taken' = taken \cup ToSet(steerQ) \cup ToSet(followQ)
    BY <1>5 DEF ClearAllQueues
  <2> QED
    BY <1>1, <1>2, <2>1
<1> QED
  BY <1>3, <1>4, <1>5 DEF TakeBack

\* What others than the loop do.
LEMMA OthersTyped ==
    ASSUME Typed, \/ \E k \in {"steer", "follow", "aside"} : Arrive(k)
                  \/ TakeBack \/ ClearAllQueues \/ Abort \/ UNCHANGED vars
    PROVE  Typed'
<1>1. ASSUME NEW k \in {"steer", "follow", "aside"}, Arrive(k) PROVE Typed'
  <2>1. CountsOK'
    BY <1>1, TypedParts DEF Arrive, CountsOK, counters, config
  <2> QED
    BY <1>1, <2>1, Arrived, TypedParts, LoopTyped DEF Arrive, log
<1>2. CASE TakeBack \/ ClearAllQueues
  <2>1. CountsOK'
    BY <1>2, TypedParts DEF TakeBack, ClearAllQueues, CountsOK, counters, config
  <2>2. UNCHANGED <<pc, config, sent, asideQ, pending, polled, log, more, counters, skipPoll,
                    aborted, ended, turns, barren, mark>>
    BY <1>2 DEF TakeBack, ClearAllQueues
  <2>3. steerQ' \in Seq(Of("steer")) /\ followQ' \in Seq(Of("follow")) /\ taken' \subseteq Message
    BY <1>2, TakenBack
  <2> QED
    BY <2>1, <2>2, <2>3, TypedParts, LoopTyped DEF log
<1>3. CASE Abort
  <2>1. CountsOK'
    BY <1>3, TypedParts DEF Abort, CountsOK, counters, config
  <2> QED
    BY <1>3, <2>1, TypedParts, LoopTyped DEF Abort, queues, log
<1>4. CASE UNCHANGED vars
  <2>1. CountsOK'
    BY <1>4, TypedParts DEF vars, CountsOK, counters, config
  <2> QED
    BY <1>4, <2>1, TypedParts, LoopTyped DEF vars, queues, log
<1> QED
  BY <1>1, <1>2, <1>3, <1>4

\* Types hold throughout.
LEMMA TypedStep == Typed /\ PairInv /\ [Next]_vars => Typed'
<1> SUFFICES ASSUME Typed, PairInv, [Next]_vars PROVE Typed'
  OBVIOUS
<1>1. CASE Prompt \/ Continue
  BY <1>1, PromptTyped, ContinueTyped
<1>2. CASE Loop
  <2>1. CASE InitialPoll \/ Inject \/ Throws \/ RunTools \/ TurnEnd \/ BeforeYield \/ LateFollow
    BY <2>1, PollsTyped, InjectTyped, ThrowsTyped, RunToolsTyped, LateFollowTyped
  <2>2. CASE \E keep \in BOOLEAN : PollAside(keep) \/ LateAside(keep)
    BY <2>2, AsidePollsTyped
  <2>3. CASE \/ \E n \in 0..1 : Fails(n)
             \/ \E stop \in Stops, n \in 0..2, pause \in BOOLEAN : Responds(stop, n, pause)
             \/ \E n \in 0..1, shown \in BOOLEAN : LeakRetries(n, shown)
             \/ \E shown \in BOOLEAN : LeakResumes(shown) \/ LeakEscalates(shown)
    BY <2>3, CallsTyped
  <2> QED
    BY <1>2, <2>1, <2>2, <2>3 DEF Loop, Stops
<1>3. CASE \/ \E k \in {"steer", "follow", "aside"} : Arrive(k)
           \/ TakeBack \/ ClearAllQueues \/ Abort \/ UNCHANGED vars
  BY <1>3, OthersTyped
<1> QED
  BY <1>1, <1>2, <1>3 DEF Next, Rest

\* The agent before its first run.
LEMMA InitTyped == Init => Typed
<1> SUFFICES ASSUME Init PROVE Typed
  OBVIOUS
<1>1. <<>> \in Seq(Entry) /\ <<>> \in Seq(Message) /\ \A k : <<>> \in Seq(Of(k))
  OBVIOUS
<1>2. TypeOK
  <2>1. /\ \A l \in BOOLEAN : MaxTurns[l] \in Nat /\ \A k \in Kinds : MaxSent[l][k] \in Nat
        /\ MaxPaused \in Nat /\ MaxLeaks \in Nat
    BY LoopAssumption
  <2>2. leaky \in BOOLEAN
    BY DEF Init
  <2>3. sent \in [Kinds -> Nat] /\ \A k \in Kinds : sent[k] <= MaxSent[leaky][k]
    BY <2>1, <2>2 DEF Init
  <2>4. /\ leaks \in 0..MaxLeaks /\ resumes \in 0..MaxLeaks /\ paused \in 0..MaxPaused
        /\ turns \in 0..MaxTurns[leaky] /\ barren \in Nat
    BY <2>1, <2>2 DEF Init
  <2> QED
    BY <2>3, <2>4 DEF Init, TypeOK, PCs
<1> QED
  BY <1>1, <1>2 DEF Init, Typed

-----------------------------------------------------------------------------
(* The flow of messages.                                                   *)

\* Below of sets that are put together, and of sets of different kinds.
LEMMA BelowSets ==
    /\ \A A, B, C : Below(A \cup B, C) <=> Below(A, C) /\ Below(B, C)
    /\ \A A, B, C : Below(A, B \cup C) <=> Below(A, B) /\ Below(A, C)
    /\ \A A : Below({}, A) /\ Below(A, {})
    /\ \A A, B : UserIn(A) = {} => Below(A, B)
<1>1. \A A, B, C : Below(A \cup B, C) <=> Below(A, C) /\ Below(B, C)
  BY DEF Below
<1>2. \A A, B, C : Below(A, B \cup C) <=> Below(A, B) /\ Below(A, C)
  BY DEF Below
<1>3. \A A : Below({}, A) /\ Below(A, {})
  BY DEF Below
<1>4. \A A, B : UserIn(A) = {} => Below(A, B)
  BY DEF Below, UserIn, Precedes
<1> QED
  BY <1>1, <1>2, <1>3, <1>4

\* Messages of different kinds are in any order.
LEMMA BelowKinds ==
    ASSUME NEW k, NEW l, k # l, NEW A, A \subseteq Of(k), NEW B, B \subseteq Of(l)
    PROVE  Below(A, B) /\ A \cap B = {}
BY DEF Below, Precedes, Of

\* What is below is elsewhere.
LEMMA BelowApart ==
    ASSUME NEW A, NEW B, B \subseteq Message, Below(A, B)
    PROVE  A \cap B = {}
<1> SUFFICES ASSUME NEW e \in A, e \in B PROVE FALSE
  OBVIOUS
<1>1. e[1] \in Kinds /\ e[2] \in Nat
  BY DEF Message
<1>2. e[2] < e[2]
  BY <1>1 DEF Below, Precedes
<1> QED
  BY <1>1, <1>2

\* The user's messages among entries.
LEMMA UserSets ==
    /\ \A A, B : UserIn(A \cup B) = UserIn(A) \cup UserIn(B)
    /\ \A A : A \subseteq Message => UserIn(A) = A
    /\ \A A : UserIn(A) \subseteq A
<1>1. \A A, B : UserIn(A \cup B) = UserIn(A) \cup UserIn(B)
  BY DEF UserIn
<1>2. \A A : A \subseteq Message => UserIn(A) = A
  BY DEF UserIn, Message
<1> QED
  BY <1>1, <1>2 DEF UserIn

\* The elements of messages in line.
LEMMA Sets ==
    ASSUME NEW s \in Seq(Message), NEW t \in Seq(Message)
    PROVE  /\ ToSet(s) \subseteq Message /\ ToSet(s \o t) = ToSet(s) \cup ToSet(t)
           /\ ToSet(<<>>) = {} /\ Asc(<<>>) /\ s \o t \in Seq(Message)
           /\ Asc(s \o t) <=> Asc(s) /\ Asc(t) /\ Below(ToSet(s), ToSet(t))
BY Elements, AscConcat, AscShort, ConcatProperties

\* A poll takes the head of the steering queue in hand.
LEMMA FlowPoll ==
    ASSUME NEW m, NEW d \in Seq(Message), NEW l \in Seq(Message), NEW f, NEW a, NEW t, NEW n,
           Flow(m, <<>>, d \o l, f, a, t, n),
           Below(ToSet(d), ToSet(f) \cup ToSet(a))
    PROVE  Flow(m, d, l, f, a, t, n)
<1> DEFINE M == ToSet(m)
           D == ToSet(d)
           L == ToSet(l)
           F == ToSet(f)
           A == ToSet(a)
<1>1. ToSet(d \o l) = D \cup L /\ Asc(d) /\ Asc(l) /\ Below(D, L) /\ ToSet(<<>>) = {}
  BY Sets DEF Flow
<1>2. /\ Asc(m) /\ Asc(f) /\ Asc(a) /\ Below(M, D \cup L \cup F \cup A)
      /\ UserIn(M) \cup (D \cup L \cup F \cup A) \cup t = Upto(n)
      /\ (UserIn(M) \cup (D \cup L \cup F \cup A)) \cap t = {}
  <2>1. ToSet(<<>>) \cup (ToSet(d \o l) \cup F \cup A) = D \cup L \cup F \cup A
        /\ UserIn(M) \cup ToSet(<<>>) \cup (ToSet(d \o l) \cup F \cup A) = UserIn(M) \cup (D \cup L \cup F \cup A)
    BY <1>1
  <2> QED
    BY <2>1 DEF Flow
<1> HIDE DEF M, D, L, F, A
<1>3. D \cup (L \cup F \cup A) = D \cup L \cup F \cup A
      /\ UserIn(M) \cup D \cup (L \cup F \cup A) = UserIn(M) \cup (D \cup L \cup F \cup A)
  OBVIOUS
<1>4. Below(D, L \cup F \cup A)
  BY <1>1, BelowSets DEF D, F, A
<1> QED
  BY <1>1, <1>2, <1>3, <1>4 DEF Flow, M, D, L, F, A

\* What is in hand goes to the end of the transcript.
LEMMA FlowInject ==
    ASSUME NEW m \in Seq(Entry), NEW h \in Seq(Message), NEW s, NEW f, NEW a, NEW t, NEW n,
           Flow(m, h, s, f, a, t, n)
    PROVE  Flow(m \o h, <<>>, s, f, a, t, n)
<1> DEFINE M == ToSet(m)
           H == ToSet(h)
           W == ToSet(s) \cup ToSet(f) \cup ToSet(a)
<1>1. h \in Seq(Entry)
  BY Wider
<1>2. ToSet(m \o h) = M \cup H /\ ToSet(<<>>) = {} /\ Asc(<<>>) /\ UserIn(H) = H
  BY <1>1, Elements, AscShort, Sets, UserSets
<1>3. /\ Asc(m) /\ Asc(h) /\ Asc(s) /\ Asc(f) /\ Asc(a) /\ Below(M, H \cup W) /\ Below(H, W)
      /\ UserIn(M) \cup H \cup W \cup t = Upto(n)
      /\ (UserIn(M) \cup H \cup W) \cap t = {}
  BY DEF Flow
<1>4. Asc(m \o h) /\ Below(M \cup H, W) /\ UserIn(M \cup H) = UserIn(M) \cup H
  <2>1. Below(M, H) /\ Below(M, W)
    BY <1>3, BelowSets
  <2>2. Asc(m \o h)
    BY <1>1, <1>3, <2>1, AscConcat
  <2>3. Below(M \cup H, W)
    BY <1>3, <2>1, BelowSets
  <2>4. UserIn(M \cup H) = UserIn(M) \cup H
    BY <1>2, UserSets
  <2> QED
    BY <2>2, <2>3, <2>4
<1> HIDE DEF M, H, W
<1>5. {} \cup W = W /\ UserIn(M \cup H) \cup {} \cup W = UserIn(M) \cup H \cup W /\ Below({}, W)
  BY <1>4, BelowSets
<1> QED
  BY <1>2, <1>3, <1>4, <1>5 DEF Flow, M, H, W

\* Asides go in hand behind the steering messages.
LEMMA FlowAside ==
    ASSUME NEW m, NEW h \in Seq(Message), NEW s \in Seq(Of("steer")), NEW f \in Seq(Of("follow")),
           NEW a \in Seq(Of("aside")), NEW t, NEW n, Flow(m, h, s, f, a, t, n)
    PROVE  Flow(m, h \o a, s, f, <<>>, t, n)
<1> DEFINE M == ToSet(m)
           H == ToSet(h)
           S == ToSet(s)
           F == ToSet(f)
           A == ToSet(a)
<1>1. a \in Seq(Message) /\ S \subseteq Of("steer") /\ F \subseteq Of("follow") /\ A \subseteq Of("aside")
  BY Wider, Elements DEF Kinds
<1>2. /\ Asc(m) /\ Asc(h) /\ Asc(s) /\ Asc(f) /\ Asc(a)
      /\ Below(M, H \cup (S \cup F \cup A)) /\ Below(H, S \cup F \cup A)
      /\ UserIn(M) \cup H \cup (S \cup F \cup A) \cup t = Upto(n)
      /\ (UserIn(M) \cup H \cup (S \cup F \cup A)) \cap t = {}
  BY DEF Flow
<1>3. ToSet(h \o a) = H \cup A /\ ToSet(<<>>) = {} /\ Asc(<<>>) /\ (Asc(h \o a) <=> Asc(h) /\ Asc(a) /\ Below(H, A))
  BY <1>1, Sets
<1>4. Below(A, S) /\ Below(A, F)
  BY <1>1, BelowKinds
<1> HIDE DEF M, H, S, F, A
<1>5. Below(H, A) /\ Below(H \cup A, S \cup F)
  BY <1>2, <1>4, BelowSets
<1>6. H \cup A \cup (S \cup F \cup {}) = H \cup (S \cup F \cup A) /\ S \cup F \cup {} = S \cup F
      /\ UserIn(M) \cup (H \cup A) \cup (S \cup F \cup {}) = UserIn(M) \cup H \cup (S \cup F \cup A)
  OBVIOUS
<1> QED
  BY <1>2, <1>3, <1>5, <1>6 DEF Flow, M, H, S, F, A

\* Stale asides are taken out.
LEMMA FlowStale ==
    ASSUME NEW m, NEW h \in Seq(Message), NEW s \in Seq(Of("steer")), NEW f \in Seq(Of("follow")),
           NEW a \in Seq(Of("aside")), NEW t, NEW n, Flow(m, h, s, f, a, t, n)
    PROVE  Flow(m, h, s, f, <<>>, t \cup ToSet(a), n)
<1> DEFINE M == ToSet(m)
           H == ToSet(h)
           S == ToSet(s)
           F == ToSet(f)
           A == ToSet(a)
<1>1. /\ A \subseteq Message /\ S \subseteq Of("steer") /\ F \subseteq Of("follow") /\ A \subseteq Of("aside")
      /\ UserIn(M) \subseteq M
  BY Wider, Elements, UserSets DEF Kinds
<1>2. /\ Asc(m) /\ Asc(h) /\ Asc(s) /\ Asc(f) /\ Asc(a)
      /\ Below(M, H \cup (S \cup F \cup A)) /\ Below(H, S \cup F \cup A)
      /\ UserIn(M) \cup H \cup (S \cup F \cup A) \cup t = Upto(n)
      /\ (UserIn(M) \cup H \cup (S \cup F \cup A)) \cap t = {}
  BY DEF Flow
<1>3. ToSet(<<>>) = {} /\ Asc(<<>>)
  BY Sets
<1>4. S \cap A = {} /\ F \cap A = {}
  BY <1>1, BelowKinds
<1> HIDE DEF M, H, S, F, A
<1>5. Below(M, A) /\ Below(H, A) /\ Below(M, H \cup (S \cup F)) /\ Below(H, S \cup F)
  BY <1>2 DEF Below
<1>6. M \cap A = {} /\ H \cap A = {}
  BY <1>1, <1>5, BelowApart
<1>7. /\ S \cup F \cup {} = S \cup F
      /\ UserIn(M) \cup H \cup (S \cup F) \cup (t \cup A) = UserIn(M) \cup H \cup (S \cup F \cup A) \cup t
      /\ (UserIn(M) \cup H \cup (S \cup F)) \cap (t \cup A) = {}
  BY <1>1, <1>2, <1>4, <1>6
<1> QED
  BY <1>2, <1>3, <1>5, <1>7 DEF Flow, M, H, S, F, A

\* Messages are taken back from the ends of the queues.
LEMMA FlowTaken ==
    ASSUME NEW m, NEW h \in Seq(Message), NEW s \in Seq(Of("steer")), NEW f \in Seq(Of("follow")),
           NEW a \in Seq(Of("aside")), NEW t, NEW n,
           NEW u \in Seq(Of("steer")), NEW v \in Seq(Of("follow")),
           Flow(m, h, s \o u, f \o v, a, t, n)
    PROVE  Flow(m, h, s, f, a, t \cup ToSet(u) \cup ToSet(v), n)
<1> DEFINE M == ToSet(m)
           H == ToSet(h)
           S == ToSet(s)
           F == ToSet(f)
           A == ToSet(a)
           U == ToSet(u)
           V == ToSet(v)
<1>1. /\ S \subseteq Of("steer") /\ F \subseteq Of("follow") /\ A \subseteq Of("aside")
      /\ U \subseteq Of("steer") /\ V \subseteq Of("follow") /\ UserIn(M) \subseteq M
      /\ U \subseteq Message /\ V \subseteq Message
      /\ {s, u, f, v} \subseteq Seq(Message)
  BY Wider, Elements, UserSets DEF Kinds
<1>2. /\ ToSet(s \o u) = S \cup U /\ (Asc(s \o u) <=> Asc(s) /\ Asc(u) /\ Below(S, U))
      /\ ToSet(f \o v) = F \cup V /\ (Asc(f \o v) <=> Asc(f) /\ Asc(v) /\ Below(F, V))
  BY <1>1, Sets
<1>3. /\ Asc(m) /\ Asc(h) /\ Asc(s \o u) /\ Asc(f \o v) /\ Asc(a)
      /\ Below(M, H \cup ((S \cup U) \cup (F \cup V) \cup A)) /\ Below(H, (S \cup U) \cup (F \cup V) \cup A)
      /\ UserIn(M) \cup H \cup ((S \cup U) \cup (F \cup V) \cup A) \cup t = Upto(n)
      /\ (UserIn(M) \cup H \cup ((S \cup U) \cup (F \cup V) \cup A)) \cap t = {}
  BY <1>2 DEF Flow
<1>4. /\ U \cap F = {} /\ U \cap A = {} /\ V \cap S = {} /\ V \cap A = {}
  BY <1>1 DEF Of
<1> HIDE DEF M, H, S, F, A, U, V
<1>5. /\ Below(M, U) /\ Below(M, V) /\ Below(H, U) /\ Below(H, V) /\ Below(S, U) /\ Below(F, V)
      /\ Below(M, H \cup (S \cup F \cup A)) /\ Below(H, S \cup F \cup A)
  BY <1>2, <1>3 DEF Below
<1>6. /\ M \cap U = {} /\ H \cap U = {} /\ M \cap V = {} /\ H \cap V = {}
      /\ S \cap U = {} /\ F \cap V = {}
  BY <1>1, <1>5, BelowApart
<1>7. /\ UserIn(M) \cup H \cup (S \cup F \cup A) \cup (t \cup U \cup V)
           = UserIn(M) \cup H \cup ((S \cup U) \cup (F \cup V) \cup A) \cup t
      /\ (UserIn(M) \cup H \cup (S \cup F \cup A)) \cap (t \cup U \cup V) = {}
  BY <1>1, <1>3, <1>4, <1>6
<1> QED
  BY <1>2, <1>3, <1>5, <1>7 DEF Flow, M, H, S, F, A, U, V

\* Follow-ups go in hand behind what is there.
LEMMA FlowFollow ==
    ASSUME NEW m, NEW h \in Seq(Message), NEW s \in Seq(Of("steer")),
           NEW d \in Seq(Of("follow")), NEW l \in Seq(Of("follow")),
           NEW a \in Seq(Of("aside")), NEW t, NEW n, Flow(m, h, s, d \o l, a, t, n)
    PROVE  Flow(m, h \o d, s, l, a, t, n)
<1> DEFINE M == ToSet(m)
           H == ToSet(h)
           S == ToSet(s)
           D == ToSet(d)
           L == ToSet(l)
           A == ToSet(a)
<1>1. /\ S \subseteq Of("steer") /\ D \subseteq Of("follow") /\ A \subseteq Of("aside")
      /\ {d, l} \subseteq Seq(Message)
  BY Wider, Elements DEF Kinds
<1>2. /\ ToSet(d \o l) = D \cup L /\ (Asc(d \o l) <=> Asc(d) /\ Asc(l) /\ Below(D, L))
      /\ ToSet(h \o d) = H \cup D /\ (Asc(h \o d) <=> Asc(h) /\ Asc(d) /\ Below(H, D))
  BY <1>1, Sets
<1>3. /\ Asc(m) /\ Asc(h) /\ Asc(s) /\ Asc(d \o l) /\ Asc(a)
      /\ Below(M, H \cup (S \cup (D \cup L) \cup A)) /\ Below(H, S \cup (D \cup L) \cup A)
      /\ UserIn(M) \cup H \cup (S \cup (D \cup L) \cup A) \cup t = Upto(n)
      /\ (UserIn(M) \cup H \cup (S \cup (D \cup L) \cup A)) \cap t = {}
  BY <1>2 DEF Flow
<1>4. Below(D, S) /\ Below(D, A)
  BY <1>1, BelowKinds
<1> HIDE DEF M, H, S, D, L, A
<1>5. Below(H, D) /\ Below(H \cup D, S \cup L \cup A)
  BY <1>2, <1>3, <1>4 DEF Below
<1>6. H \cup D \cup (S \cup L \cup A) = H \cup (S \cup (D \cup L) \cup A)
      /\ UserIn(M) \cup (H \cup D) \cup (S \cup L \cup A) = UserIn(M) \cup H \cup (S \cup (D \cup L) \cup A)
  OBVIOUS
<1> QED
  BY <1>2, <1>3, <1>5, <1>6 DEF Flow, M, H, S, D, L, A

\* Entries of the loop's own that are added to the transcript.
LEMMA FlowSaid ==
    ASSUME NEW m \in Seq(Entry), NEW x \in Seq(Entry), UserIn(ToSet(x)) = {},
           NEW h, NEW s, NEW f, NEW a, NEW t, NEW n, Flow(m, h, s, f, a, t, n)
    PROVE  Flow(m \o x, h, s, f, a, t, n)
<1> DEFINE M == ToSet(m)
           X == ToSet(x)
           R == ToSet(h) \cup (ToSet(s) \cup ToSet(f) \cup ToSet(a))
<1>1. ToSet(m \o x) = M \cup X
  BY Elements
<1>2. Asc(m) /\ Below(M, R)
  BY DEF Flow
<1>3. Asc(x)
  BY DEF Asc, Precedes, UserIn, ToSet
<1>4. Below(M, X)
  BY DEF Below, Precedes, UserIn
<1>5. Asc(m \o x)
  BY <1>2, <1>3, <1>4, AscConcat
<1> HIDE DEF M, X, R
<1>6. UserIn(M \cup X) = UserIn(M) /\ Below(M \cup X, R)
  <2>1. UserIn(X) = {}
    BY DEF X
  <2>2. UserIn(M \cup X) = UserIn(M)
    BY <2>1 DEF UserIn
  <2>3. Below(X, R)
    BY <2>1, BelowSets
  <2> QED
    BY <1>2, <2>2, <2>3 DEF Below
<1>7. /\ Asc(h) /\ Asc(s) /\ Asc(f) /\ Asc(a) /\ Below(ToSet(h), ToSet(s) \cup ToSet(f) \cup ToSet(a))
      /\ UserIn(M) \cup ToSet(h) \cup (ToSet(s) \cup ToSet(f) \cup ToSet(a)) \cup t
           = Upto(n)
      /\ (UserIn(M) \cup ToSet(h) \cup (ToSet(s) \cup ToSet(f) \cup ToSet(a))) \cap t = {}
  BY DEF Flow, M
<1> QED
  BY <1>1, <1>5, <1>6, <1>7 DEF Flow, R

\* Message k of a kind is new, and later than all those before.
LEMMA Fresh ==
    ASSUME NEW n \in [Kinds -> Nat], NEW k \in Kinds, NEW n1 \in [Kinds -> Nat],
           n1[k] = n[k] + 1, \A l \in Kinds \ {k} : n1[l] = n[l]
    PROVE  /\ Upto(n1) = Upto(n) \cup {<<k, n1[k]>>} /\ <<k, n1[k]>> \notin Upto(n)
           /\ \A A : UserIn(A) \subseteq Upto(n) => Below(A, {<<k, n1[k]>>})
<1>1. \A x : x \in Upto(n) <=> \E l \in Kinds : \E i \in 1..n[l] : x = <<l, i>>
  BY DEF Upto
<1>2. \A x : x \in Upto(n1) <=> \E l \in Kinds : \E i \in 1..n1[l] : x = <<l, i>>
  BY DEF Upto
<1>3. n[k] \in Nat /\ n1[k] \in 1..n1[k]
  OBVIOUS
<1>4. ASSUME NEW x \in Upto(n1) PROVE x \in Upto(n) \cup {<<k, n1[k]>>}
  <2>1. PICK l \in Kinds : \E i \in 1..n1[l] : x = <<l, i>>
    BY <1>2, <1>4
  <2>2. CASE l = k
    BY <1>1, <1>3, <2>1, <2>2
  <2>3. CASE l # k
    BY <1>1, <2>1, <2>3
  <2> QED
    BY <2>2, <2>3
<1>5. ASSUME NEW x \in Upto(n) PROVE x \in Upto(n1)
  <2>1. PICK l \in Kinds : \E i \in 1..n[l] : x = <<l, i>>
    BY <1>1, <1>5
  <2>2. 1..n[l] \subseteq 1..n1[l]
    BY <1>3
  <2> QED
    BY <1>2, <2>1, <2>2
<1>6. <<k, n1[k]>> \in Upto(n1)
  BY <1>2, <1>3
<1>7. <<k, n1[k]>> \notin Upto(n)
  BY <1>1, <1>3
<1>8. ASSUME NEW A, UserIn(A) \subseteq Upto(n), NEW x \in A PROVE Precedes(x, <<k, n1[k]>>)
  <2> SUFFICES ASSUME x[1] = k PROVE x[2] < n1[k]
    BY DEF Precedes
  <2>1. x \in Upto(n)
    BY <1>8 DEF UserIn
  <2>2. PICK l \in Kinds : \E i \in 1..n[l] : x = <<l, i>>
    BY <1>1, <2>1
  <2> QED
    BY <1>3, <2>2
<1> QED
  BY <1>4, <1>5, <1>6, <1>7, <1>8 DEF Below

\* A message arrives at the end of the transcript or of its queue.
LEMMA FlowArrive ==
    ASSUME NEW m \in Seq(Entry), NEW h \in Seq(Message), NEW s \in Seq(Of("steer")),
           NEW f \in Seq(Of("follow")), NEW a \in Seq(Of("aside")), NEW t,
           NEW n \in [Kinds -> Nat], NEW k \in Kinds, NEW n1 \in [Kinds -> Nat],
           n1[k] = n[k] + 1, \A l \in Kinds \ {k} : n1[l] = n[l],
           Flow(m, h, s, f, a, t, n)
    PROVE  /\ k = "prompt" /\ h = <<>> => Flow(m \o << <<k, n1[k]>> >>, h, s, f, a, t, n1)
           /\ k = "steer" => Flow(m, h, Append(s, <<k, n1[k]>>), f, a, t, n1)
           /\ k = "follow" => Flow(m, h, s, Append(f, <<k, n1[k]>>), a, t, n1)
           /\ k = "aside" => Flow(m, h, s, f, Append(a, <<k, n1[k]>>), t, n1)
<1> DEFINE e == <<k, n1[k]>>
           M == ToSet(m)
           H == ToSet(h)
           S == ToSet(s)
           F == ToSet(f)
           A == ToSet(a)
           all == UserIn(M) \cup H \cup (S \cup F \cup A)
<1>1. /\ S \subseteq Of("steer") /\ F \subseteq Of("follow") /\ A \subseteq Of("aside")
      /\ {s, f, a} \subseteq Seq(Message) /\ H \subseteq Message /\ {h, s, f, a} \subseteq Seq(Entry)
      /\ S \subseteq Message /\ F \subseteq Message /\ A \subseteq Message
  BY Wider, Elements DEF Kinds
<1>2. /\ Asc(m) /\ Asc(h) /\ Asc(s) /\ Asc(f) /\ Asc(a)
      /\ Below(M, H \cup (S \cup F \cup A)) /\ Below(H, S \cup F \cup A)
      /\ all \cup t = Upto(n) /\ all \cap t = {}
  BY DEF Flow
<1>3. e \in Of(k) /\ e \in Message /\ e \in Entry /\ <<e>> \in Seq(Entry)
  BY DEF Of, Message, Entry
<1>4. /\ Upto(n1) = Upto(n) \cup {e} /\ e \notin Upto(n)
      /\ \A B : UserIn(B) \subseteq Upto(n) => Below(B, {e})
  BY Fresh
<1> HIDE DEF e
<1>5. \A q \in Seq(Entry) : /\ ToSet(Append(q, e)) = ToSet(q) \cup {e}
                            /\ ToSet(q \o <<e>>) = ToSet(q) \cup {e}
                            /\ Asc(q) /\ Below(ToSet(q), {e}) => Asc(q \o <<e>>) /\ Asc(Append(q, e))
  <2> SUFFICES ASSUME NEW q \in Seq(Entry)
               PROVE  /\ ToSet(Append(q, e)) = ToSet(q) \cup {e}
                      /\ ToSet(q \o <<e>>) = ToSet(q) \cup {e}
                      /\ Asc(q) /\ Below(ToSet(q), {e}) => Asc(q \o <<e>>) /\ Asc(Append(q, e))
    OBVIOUS
  <2>1. Append(q, e) = q \o <<e>>
    BY <1>3, AppendIsConcat
  <2>2. ToSet(<<e>>) = {e}
    BY DEF ToSet
  <2>3. ToSet(Append(q, e)) = ToSet(q) \cup {e}
    BY <1>3, AppendSet
  <2>4. Asc(q \o <<e>>) <=> Asc(q) /\ Asc(<<e>>) /\ Below(ToSet(q), ToSet(<<e>>))
    BY <1>3, AscConcat
  <2> QED
    BY <2>1, <2>2, <2>3, <2>4, AscShort
<1> HIDE DEF M, H, S, F, A
<1>6. UserIn(M) \subseteq all /\ UserIn(H) = H /\ UserIn(S) = S /\ UserIn(F) = F /\ UserIn(A) = A /\ UserIn({e}) = {e}
  <2>1. UserIn(H) = H /\ UserIn(S) = S /\ UserIn(F) = F /\ UserIn(A) = A
    BY <1>1, UserSets
  <2>2. UserIn({e}) = {e}
    BY <1>3 DEF UserIn, Message
  <2> QED
    BY <2>1, <2>2
<1>7. Asc(Append(s, e)) /\ Asc(Append(f, e)) /\ Asc(Append(a, e)) /\ Asc(m \o <<e>>)
      /\ Below(M, {e}) /\ Below(H, {e})
      /\ ToSet(Append(s, e)) = S \cup {e} /\ ToSet(Append(f, e)) = F \cup {e}
      /\ ToSet(Append(a, e)) = A \cup {e} /\ ToSet(m \o <<e>>) = M \cup {e}
      /\ UserIn(M \cup {e}) = UserIn(M) \cup {e}
  <2>1. Below(M, {e}) /\ Below(H, {e}) /\ Below(S, {e}) /\ Below(F, {e}) /\ Below(A, {e})
    BY <1>2, <1>4, <1>6
  <2>2. UserIn(M \cup {e}) = UserIn(M) \cup {e}
    BY <1>6 DEF UserIn
  <2> QED
    BY <1>1, <1>2, <1>5, <2>1, <2>2 DEF M, H, S, F, A
<1>8. ASSUME k = "prompt" PROVE Below({e}, S \cup F \cup A)
  <2>1. Below({e}, S) /\ Below({e}, F) /\ Below({e}, A)
    BY <1>1, <1>3, <1>8 DEF Below, Precedes, Of
  <2> QED
    BY <2>1, BelowSets
<1>9. e \notin t /\ e \notin all
  BY <1>2, <1>4
<1>10. /\ Below(M, H \cup ((S \cup {e}) \cup F \cup A)) /\ Below(H, (S \cup {e}) \cup F \cup A)
       /\ Below(M, H \cup (S \cup (F \cup {e}) \cup A)) /\ Below(H, S \cup (F \cup {e}) \cup A)
       /\ Below(M, H \cup (S \cup F \cup (A \cup {e}))) /\ Below(H, S \cup F \cup (A \cup {e}))
  BY <1>2, <1>7 DEF Below
<1>11. \A new : new = all \cup {e} => new \cup t = Upto(n1) /\ new \cap t = {}
  BY <1>2, <1>4, <1>9
<1> HIDE DEF all
<1>12. ASSUME k = "prompt", h = <<>> PROVE Flow(m \o <<e>>, h, s, f, a, t, n1)
  <2>1. H = {}
    BY <1>12, Elements DEF H
  <2>2. Below(M \cup {e}, H \cup (S \cup F \cup A))
    BY <1>2, <1>8, <1>12, <2>1, BelowSets
  <2>3. (UserIn(M) \cup {e}) \cup H \cup (S \cup F \cup A) = all \cup {e}
    BY DEF all
  <2> QED
    BY <1>2, <1>7, <1>11, <2>2, <2>3 DEF Flow, H, S, F, A
<1>13. ASSUME k = "steer" PROVE Flow(m, h, Append(s, e), f, a, t, n1)
  <2>1. UserIn(M) \cup H \cup ((S \cup {e}) \cup F \cup A) = all \cup {e}
    BY DEF all
  <2> QED
    BY <1>2, <1>7, <1>10, <1>11, <2>1 DEF Flow, M, H, F, A
<1>14. ASSUME k = "follow" PROVE Flow(m, h, s, Append(f, e), a, t, n1)
  <2>1. UserIn(M) \cup H \cup (S \cup (F \cup {e}) \cup A) = all \cup {e}
    BY DEF all
  <2> QED
    BY <1>2, <1>7, <1>10, <1>11, <2>1 DEF Flow, M, H, S, A
<1>15. ASSUME k = "aside" PROVE Flow(m, h, s, f, Append(a, e), t, n1)
  <2>1. UserIn(M) \cup H \cup (S \cup F \cup (A \cup {e})) = all \cup {e}
    BY DEF all
  <2> QED
    BY <1>2, <1>7, <1>10, <1>11, <2>1 DEF Flow, M, H, S, F
<1> QED
  BY <1>12, <1>13, <1>14, <1>15 DEF e

\* An answer of the model, and one that is thrown away, at the end of a transcript.
Reply(n) == << <<"assistant", n>> >>
Scrap(n) == << <<"discarded", n>> >>

\* Entries of the loop's own.
Own(x) == x \in Seq(Entry) /\ UserIn(ToSet(x)) = {}

\* Answers, discarded partials and tool results are the loop's own.
LEMMA OwnMade ==
    /\ Own(<<>>) /\ \A x, y : Own(x) /\ Own(y) => Own(x \o y)
    /\ \A n \in Nat : Own(Reply(n)) /\ Own(Scrap(n)) /\ Own(Answers(n))
<1>1. Own(<<>>)
  BY Elements, Wider DEF Own, UserIn
<1>2. ASSUME NEW x, NEW y, Own(x), Own(y) PROVE Own(x \o y)
  <2>1. x \o y \in Seq(Entry) /\ ToSet(x \o y) = ToSet(x) \cup ToSet(y)
    BY <1>2, Elements, ConcatProperties DEF Own
  <2> QED
    BY <1>2, <2>1, UserSets DEF Own
<1>3. ASSUME NEW n \in Nat PROVE Own(Reply(n)) /\ Own(Scrap(n)) /\ Own(Answers(n))
  <2>1. Reply(n) \in Seq(Entry) /\ Scrap(n) \in Seq(Entry) /\ Answers(n) \in Seq(Entry)
    BY Made DEF Reply, Scrap
  <2>2. ToSet(Reply(n)) = {<<"assistant", n>>} /\ ToSet(Scrap(n)) = {<<"discarded", n>>}
    BY DEF ToSet, Reply, Scrap
  <2>3. \A e \in ToSet(Answers(n)) : e[1] = "result"
    BY DEF ToSet, Answers
  <2>4. UserIn(ToSet(Answers(n))) = {}
    BY <2>3 DEF UserIn, Kinds
  <2>5. UserIn(ToSet(Reply(n))) = {} /\ UserIn(ToSet(Scrap(n))) = {}
    BY <2>2 DEF UserIn, Kinds
  <2> QED
    BY <2>1, <2>4, <2>5 DEF Own
<1> QED
  BY <1>1, <1>2, <1>3

\* What is in hand, by where the loop is.
LEMMA HeldIs ==
    ASSUME Typed, InHand
    PROVE  /\ Held \in Seq(Message)
           /\ pc \notin {"top", "pollAside", "lateAside", "lateFollow"} => Held = <<>>
           /\ pc = "top" => Held = pending
           /\ pc \in {"pollAside", "lateAside", "lateFollow"} => Held = polled
BY TypedParts DEF Held, InHand

\* A batch is in hand where InHand says so, throughout.
LEMMA InHandStep == Typed /\ InHand /\ [Next]_vars => InHand'
<1> SUFFICES ASSUME Typed, InHand, [Next]_vars PROVE InHand'
  OBVIOUS
<1>1. ASSUME NEW msgs, NEW skip, Begin(msgs, skip) PROVE InHand'
  BY <1>1 DEF Begin, InHand
<1>2. CASE Prompt \/ Continue
  BY <1>1, <1>2 DEF Prompt, Continue
<1>3. CASE InitialPoll \/ TurnEnd \/ BeforeYield
  <2>1. PollSteering
    BY <1>3 DEF InitialPoll, TurnEnd, BeforeYield
  <2>2. skipPoll' = (skipPoll /\ aborted)
    BY <2>1 DEF PollSteering
  <2> QED
    BY <1>3, <2>2 DEF InitialPoll, TurnEnd, BeforeYield, InHand, WhileTest
<1>4. CASE Inject
  BY <1>4 DEF Inject, InHand
<1>5. CASE Throws \/ RunTools
  BY <1>5 DEF Throws, RunTools, InHand
<1>6. CASE LateFollow
  BY <1>6, Followed DEF LateFollow, InHand
<1>7. CASE \E keep \in BOOLEAN : PollAside(keep) \/ LateAside(keep)
  BY <1>7 DEF PollAside, LateAside, InHand
<1>8. CASE \/ \E n \in 0..1 : Fails(n)
           \/ \E stop \in Stops, n \in 0..2, pause \in BOOLEAN : Responds(stop, n, pause)
           \/ \E n \in 0..1, shown \in BOOLEAN : LeakRetries(n, shown)
           \/ \E shown \in BOOLEAN : LeakResumes(shown) \/ LeakEscalates(shown)
  <2>1. pc = "call" /\ UNCHANGED <<pending, polled, skipPoll, aborted>>
    BY <1>8 DEF Fails, Responds, LeakRetries, LeakResumes, LeakEscalates, Called
  <2> QED
    BY <2>1 DEF InHand
<1>9. CASE \/ \E k \in {"steer", "follow", "aside"} : Arrive(k)
           \/ TakeBack \/ ClearAllQueues \/ UNCHANGED vars
  <2>1. UNCHANGED <<pc, pending, polled, skipPoll, aborted>>
    BY <1>9 DEF Arrive, TakeBack, ClearAllQueues, vars
  <2> QED
    BY <2>1 DEF InHand
<1>10. CASE Abort
  BY <1>10 DEF Abort, InHand
<1> QED
  BY <1>2, <1>3, <1>4, <1>5, <1>6, <1>7, <1>8, <1>9, <1>10 DEF Next, Loop, Rest, Stops

\* A new run takes its messages from the queue it continues with.
LEMMA FlowBegins ==
    ASSUME Typed, InHand, FlowInv, Prompt \/ Continue
    PROVE  FlowInv'
<1>1. pc = "idle" /\ Held = <<>> /\ Held' = <<>> /\ asideQ' = asideQ /\ taken' = taken
  BY HeldIs DEF Prompt, Continue, Begin, Held
<1>2. /\ mirror \in Seq(Entry) /\ steerQ \in Seq(Of("steer")) /\ followQ \in Seq(Of("follow"))
      /\ asideQ \in Seq(Of("aside")) /\ <<>> \in Seq(Message) /\ sent \in [Kinds -> Nat]
  BY TypedParts
<1>3. Flow(mirror, <<>>, steerQ, followQ, asideQ, taken, sent)
  BY <1>1 DEF FlowInv
<1>4. CASE Prompt
  <2>1. "prompt" \in Kinds /\ sent' \in [Kinds -> Nat] /\ sent'["prompt"] = sent["prompt"] + 1
        /\ \A l \in Kinds \ {"prompt"} : sent'[l] = sent[l]
    BY <1>4, SentMore DEF Prompt, Kinds
  <2>2. mirror' = mirror \o << <<"prompt", sent'["prompt"]>> >> /\ steerQ' = steerQ /\ followQ' = followQ
    BY <1>4 DEF Prompt, Begin, StartContext, Mirror
  <2>3. PICK n1 \in [Kinds -> Nat] : n1 = sent'
    BY <2>1
  <2>4. Flow(mirror \o << <<"prompt", n1["prompt"]>> >>, <<>>, steerQ, followQ, asideQ, taken, n1)
    BY <1>2, <1>3, <2>1, <2>3, FlowArrive
  <2> QED
    BY <1>1, <2>2, <2>3, <2>4 DEF FlowInv
<1>5. CASE Continue
  <2>1. PICK msgs \in Seq(Message), skip \in BOOLEAN :
          /\ Begin(msgs, skip)
          /\ steerQ' \in Seq(Of("steer")) /\ followQ' \in Seq(Of("follow"))
          /\ \/ /\ msgs \in Seq(Of("steer")) /\ steerQ = msgs \o steerQ' /\ followQ' = followQ
             \/ /\ msgs \in Seq(Of("follow")) /\ followQ = msgs \o followQ' /\ steerQ' = steerQ
             \/ msgs = <<>> /\ steerQ' = steerQ /\ followQ' = followQ
    BY <1>5, Continued
  <2>2. PICK s \in Seq(Of("steer")), f \in Seq(Of("follow")) : s = steerQ' /\ f = followQ'
    BY <2>1
  <2>3. s \in Seq(Message) /\ <<>> \o msgs = msgs
    BY Wider, ConcatEmptySeq DEF Kinds
  <2>4. Flow(mirror, msgs, s, f, asideQ, taken, sent)
    <3>1. CASE msgs \in Seq(Of("steer")) /\ steerQ = msgs \o s /\ f = followQ
      <4>1. Below(ToSet(msgs), ToSet(followQ) \cup ToSet(asideQ))
        <5>1. ToSet(msgs) \subseteq Of("steer") /\ ToSet(followQ) \subseteq Of("follow")
              /\ ToSet(asideQ) \subseteq Of("aside")
          BY <1>2, <3>1, Elements
        <5>2. Below(ToSet(msgs), ToSet(followQ)) /\ Below(ToSet(msgs), ToSet(asideQ))
          BY <5>1, BelowKinds
        <5> QED
          BY <5>2, BelowSets
      <4>2. Flow(mirror, <<>>, msgs \o s, followQ, asideQ, taken, sent)
        BY <1>3, <3>1
      <4> QED
        BY <2>3, <3>1, <4>1, <4>2, FlowPoll
    <3>2. CASE msgs \in Seq(Of("follow")) /\ followQ = msgs \o f /\ s = steerQ
      <4>1. Flow(mirror, <<>>, s, msgs \o f, asideQ, taken, sent)
        BY <1>3, <3>2
      <4>2. Flow(mirror, <<>> \o msgs, s, f, asideQ, taken, sent)
        BY <1>2, <3>2, <4>1, FlowFollow
      <4> QED
        BY <2>3, <4>2
    <3>3. CASE msgs = <<>> /\ s = steerQ /\ f = followQ
      BY <1>3, <3>3
    <3> QED
      BY <2>1, <2>2, <3>1, <3>2, <3>3
  <2>5. Flow(mirror \o msgs, <<>>, s, f, asideQ, taken, sent)
    BY <1>2, <2>4, FlowInject
  <2>6. mirror' = mirror \o msgs /\ sent' = sent
    BY <1>5, <2>1, Continued DEF Begin, StartContext, Mirror
  <2> QED
    BY <1>1, <2>2, <2>5, <2>6 DEF FlowInv
<1> QED
  BY <1>4, <1>5

\* Polls, injections and what the loop says itself keep the flow.
LEMMA FlowLoop ==
    ASSUME Typed, InHand, FlowInv, PairInv, Typed', Loop
    PROVE  FlowInv'
<1>1. /\ mirror \in Seq(Entry) /\ steerQ \in Seq(Of("steer")) /\ followQ \in Seq(Of("follow"))
      /\ asideQ \in Seq(Of("aside")) /\ Held \in Seq(Message)
  BY TypedParts, HeldIs
<1>2. Flow(mirror, Held, steerQ, followQ, asideQ, taken, sent)
  BY DEF FlowInv
<1>3. ASSUME InitialPoll \/ TurnEnd \/ BeforeYield PROVE FlowInv'
  <2>1. PollSteering
    BY <1>3 DEF InitialPoll, TurnEnd, BeforeYield
  <2>2. {polled', steerQ'} \subseteq Seq(Of("steer")) /\ polled' \in Seq(Message) /\ steerQ = polled' \o steerQ'
    BY <2>1, Polled
  <2>3. PICK d \in Seq(Of("steer")), l \in Seq(Of("steer")) : d = polled' /\ l = steerQ'
    BY <2>2
  <2>4. d \in Seq(Message) /\ l \in Seq(Message)
    BY Wider DEF Kinds
  <2>5. Held = <<>> /\ pending = <<>>
    BY <1>3, HeldIs DEF InHand, InitialPoll, TurnEnd, BeforeYield
  <2>6. Held' = d
    BY <1>3, <2>3, <2>5 DEF Held, InitialPoll, TurnEnd, BeforeYield, WhileTest
  <2>7. Below(ToSet(d), ToSet(followQ) \cup ToSet(asideQ))
    <3>1. ToSet(d) \subseteq Of("steer") /\ ToSet(followQ) \subseteq Of("follow")
          /\ ToSet(asideQ) \subseteq Of("aside")
      BY <1>1, Elements
    <3>2. Below(ToSet(d), ToSet(followQ)) /\ Below(ToSet(d), ToSet(asideQ))
      BY <3>1, BelowKinds
    <3> QED
      BY <3>2, BelowSets
  <2>8. Flow(mirror, <<>>, d \o l, followQ, asideQ, taken, sent)
    BY <1>2, <2>2, <2>3, <2>5
  <2>9. Flow(mirror, d, l, followQ, asideQ, taken, sent)
    BY <2>4, <2>7, <2>8, FlowPoll
  <2>10. UNCHANGED <<mirror, followQ, asideQ, taken, sent>>
    BY <1>3 DEF InitialPoll, TurnEnd, BeforeYield, log
  <2> QED
    BY <2>3, <2>6, <2>9, <2>10 DEF FlowInv
<1>4. ASSUME Inject PROVE FlowInv'
  <2>1. Held = pending /\ Held' = <<>> /\ mirror' = mirror \o pending
    BY <1>4, HeldIs DEF Inject, Held, Commit, Mirror
  <2>2. Flow(mirror \o Held, <<>>, steerQ, followQ, asideQ, taken, sent)
    BY <1>1, <1>2, FlowInject
  <2> QED
    BY <1>4, <2>1, <2>2 DEF FlowInv, Inject, queues
<1>5. ASSUME NEW keep \in BOOLEAN, PollAside(keep) \/ LateAside(keep) PROVE FlowInv'
  <2>1. Held = polled /\ Held' = polled'
    BY <1>5, HeldIs DEF PollAside, LateAside, Held
  <2>2. UNCHANGED <<mirror, steerQ, followQ, sent>>
    BY <1>5 DEF PollAside, LateAside, log
  <2>3. CASE TakeAsides(keep)
    <3>1. asideQ' = <<>> /\ \/ polled' = polled \o asideQ /\ taken' = taken
                            \/ polled' = polled /\ taken' = taken \cup ToSet(asideQ)
      BY <2>3, AsidesTyped
    <3>2. Flow(mirror, Held \o asideQ, steerQ, followQ, <<>>, taken, sent)
      BY <1>1, <1>2, FlowAside
    <3>3. Flow(mirror, Held, steerQ, followQ, <<>>, taken \cup ToSet(asideQ), sent)
      BY <1>1, <1>2, FlowStale
    <3> QED
      BY <2>1, <2>2, <3>1, <3>2, <3>3 DEF FlowInv
  <2>4. CASE UNCHANGED <<asideQ, polled, taken>>
    BY <1>2, <2>1, <2>2, <2>4 DEF FlowInv
  <2> QED
    BY <1>5, <2>3, <2>4 DEF PollAside, LateAside
<1>6. ASSUME LateFollow PROVE FlowInv'
  <2>1. PICK follow \in Seq(Of("follow")) :
          /\ followQ' \in Seq(Of("follow")) /\ followQ = follow \o followQ'
          /\ pending' = polled \o follow
          /\ IF pending' # <<>> THEN pc' = "top" ELSE pc' = "idle"
    BY <1>6, Followed
  <2>2. PICK l \in Seq(Of("follow")) : l = followQ'
    BY <2>1
  <2>3. Held = polled /\ Held' = polled \o follow
    BY <1>6, <2>1, HeldIs DEF Held, LateFollow
  <2>4. Flow(mirror, Held, steerQ, follow \o l, asideQ, taken, sent)
    BY <1>2, <2>1, <2>2
  <2>5. Flow(mirror, Held \o follow, steerQ, l, asideQ, taken, sent)
    BY <1>1, <2>4, FlowFollow
  <2>6. UNCHANGED <<mirror, steerQ, asideQ, taken, sent>>
    BY <1>6 DEF LateFollow, log
  <2> QED
    BY <2>2, <2>3, <2>5, <2>6 DEF FlowInv
<1>7. ASSUME NEW x, Own(x), mirror' = mirror \o x, Held' = Held, UNCHANGED <<queues, taken, sent>>
      PROVE  FlowInv'
  <2>1. Flow(mirror \o x, Held, steerQ, followQ, asideQ, taken, sent)
    BY <1>1, <1>2, <1>7, FlowSaid DEF Own
  <2> QED
    BY <1>7, <2>1 DEF FlowInv, queues
<1>8. ASSUME Throws PROVE FlowInv'
  <2>1. mirror' = mirror \o Reply(0) /\ Own(Reply(0))
    BY <1>1, <1>8, Made, OwnMade, AppendIsConcat DEF Throws, Reply
  <2>2. Held' = Held
    BY <1>8, HeldIs DEF Throws, Held
  <2> QED
    BY <1>7, <1>8, <2>1, <2>2 DEF Throws
<1>9. ASSUME RunTools PROVE FlowInv'
  <2>1. Last(context)[2] \in Nat
    BY <1>9, RunToolsTyped
  <2>2. Own(Answers(Last(context)[2]))
    BY <2>1, OwnMade
  <2>3. mirror' = mirror \o Answers(Last(context)[2])
    BY <1>9 DEF RunTools, Commit, Mirror
  <2>4. Held' = Held
    BY <1>9, HeldIs DEF RunTools, Held
  <2> QED
    BY <1>7, <1>9, <2>2, <2>3, <2>4 DEF RunTools
<1>10. ASSUME pc = "call", UNCHANGED pending, pc' \in {"idle", "tools", "turnEnd", "top", "beforeYield"}
       PROVE  Held' = Held
  BY <1>10, HeldIs DEF Held, InHand
<1>11. ASSUME NEW n \in 0..1, Fails(n) PROVE FlowInv'
  <2>1. Own(Reply(n) \o Answers(n))
    BY OwnMade
  <2>2. mirror' = mirror \o (Reply(n) \o Answers(n))
    BY <1>11 DEF Fails, Commit, Mirror, FailedMessage, Reply
  <2>3. Held' = Held
    BY <1>10, <1>11 DEF Fails, Called
  <2> QED
    BY <1>7, <1>11, <2>1, <2>2, <2>3 DEF Fails
<1>12. ASSUME NEW stop \in Stops, NEW n \in 0..2, NEW pause \in BOOLEAN, Responds(stop, n, pause)
       PROVE  FlowInv'
  <2>1. Own(Placeholders(stop, n)) /\ Own(Reply(n))
    BY OwnMade DEF Placeholders
  <2>2. Own(Reply(n) \o Placeholders(stop, n))
    BY <2>1, OwnMade
  <2>3. mirror' = mirror \o (Reply(n) \o Placeholders(stop, n))
    BY <1>12 DEF Responds, Commit, Mirror, Reply
  <2>4. Held' = Held
    BY <1>10, <1>12 DEF Responds, Called, AfterResponse
  <2> QED
    BY <1>7, <1>12, <2>2, <2>3, <2>4 DEF Responds
<1>13. ASSUME NEW n \in 0..1, NEW shown \in BOOLEAN
       PROVE  \E x : Own(x) /\ (IF shown THEN Append(mirror, <<"discarded", n>>) ELSE mirror) = mirror \o x
  <2>1. Own(<<>>) /\ mirror \o <<>> = mirror
    BY <1>1, OwnMade, ConcatEmptySeq
  <2>2. Own(Scrap(n)) /\ Append(mirror, <<"discarded", n>>) = mirror \o Scrap(n)
    <3>1. <<"discarded", n>> \in Entry
      BY DEF Entry
    <3>2. Append(mirror, <<"discarded", n>>) = mirror \o << <<"discarded", n>> >>
      BY <1>1, <3>1, AppendIsConcat
    <3> QED
      BY <3>2, OwnMade DEF Scrap
  <2> QED
    BY <2>1, <2>2
<1>14. ASSUME NEW n \in 0..1, NEW shown \in BOOLEAN, LeakRetries(n, shown) PROVE FlowInv'
  <2>1. PICK x : Own(x) /\ mirror' = mirror \o x
    BY <1>13, <1>14 DEF LeakRetries, Discard
  <2>2. Held' = Held
    BY <1>10, <1>14 DEF LeakRetries, Called, WhileTest
  <2> QED
    BY <1>7, <1>14, <2>1, <2>2 DEF LeakRetries
<1>15. ASSUME NEW shown \in BOOLEAN, LeakResumes(shown) \/ LeakEscalates(shown) PROVE FlowInv'
  <2> DEFINE shownTo == IF shown THEN Append(mirror, <<"discarded", 1>>) ELSE mirror
  <2>1. PICK x : Own(x) /\ shownTo = mirror \o x
    BY <1>13
  <2>2. \E n \in 0..1 : mirror' = shownTo \o Reply(n)
    <3>1. LeakResumes(shown) => mirror' = shownTo \o Reply(1)
      BY DEF LeakResumes, Reply
    <3>2. LeakEscalates(shown) => mirror' = shownTo \o Reply(0)
      BY DEF LeakEscalates, Reply
    <3> HIDE DEF shownTo
    <3> QED
      BY <1>15, <3>1, <3>2
  <2>3. PICK n \in 0..1 : mirror' = shownTo \o Reply(n)
    BY <2>2
  <2>4. PICK base : base = shownTo
    OBVIOUS
  <2> HIDE DEF shownTo
  <2>5. mirror \o x \in Seq(Entry) /\ Own(Reply(n))
    <3>1. x \in Seq(Entry)
      BY <2>1 DEF Own
    <3>2. mirror \o x \in Seq(Entry)
      BY <1>1, <3>1, ConcatProperties
    <3>3. Own(Reply(n))
      BY OwnMade
    <3> QED
      BY <3>2, <3>3
  <2>6. Flow(mirror \o x, Held, steerQ, followQ, asideQ, taken, sent)
    BY <1>1, <1>2, <2>1, FlowSaid DEF Own
  <2>7. base \in Seq(Entry) /\ Flow(base, Held, steerQ, followQ, asideQ, taken, sent)
    BY <2>1, <2>4, <2>5, <2>6
  <2>8. Flow(base \o Reply(n), Held, steerQ, followQ, asideQ, taken, sent)
    BY <2>5, <2>7, FlowSaid DEF Own
  <2>9. Held' = Held
    BY <1>10, <1>15 DEF LeakResumes, LeakEscalates, Called, AfterResponse
  <2>10. UNCHANGED <<queues, taken, sent>>
    BY <1>15 DEF LeakResumes, LeakEscalates
  <2> QED
    BY <2>3, <2>4, <2>8, <2>9, <2>10 DEF FlowInv, queues
<1> QED
  BY <1>3, <1>4, <1>5, <1>6, <1>8, <1>9, <1>11, <1>12, <1>14, <1>15 DEF Loop, Stops

\* The flow of messages is kept throughout.
LEMMA FlowStep == Typed /\ Typed' /\ InHand /\ FlowInv /\ PairInv /\ [Next]_vars => FlowInv'
<1> SUFFICES ASSUME Typed, Typed', InHand, FlowInv, PairInv, [Next]_vars PROVE FlowInv'
  OBVIOUS
<1>1. CASE Prompt \/ Continue
  BY <1>1, FlowBegins
<1>2. CASE Loop
  BY <1>2, FlowLoop
<1>3. /\ mirror \in Seq(Entry) /\ steerQ \in Seq(Of("steer")) /\ followQ \in Seq(Of("follow"))
      /\ asideQ \in Seq(Of("aside")) /\ Held \in Seq(Message) /\ sent \in [Kinds -> Nat]
  BY TypedParts, HeldIs
<1>4. Flow(mirror, Held, steerQ, followQ, asideQ, taken, sent)
  BY DEF FlowInv
<1>5. ASSUME NEW k \in {"steer", "follow", "aside"}, Arrive(k) PROVE FlowInv'
  <2>1. /\ k \in Kinds /\ sent' \in [Kinds -> Nat]
        /\ sent'[k] = sent[k] + 1 /\ \A l \in Kinds \ {k} : sent'[l] = sent[l]
        /\ steerQ' = (IF k = "steer" THEN Append(steerQ, <<k, sent'[k]>>) ELSE steerQ)
        /\ followQ' = (IF k = "follow" THEN Append(followQ, <<k, sent'[k]>>) ELSE followQ)
        /\ asideQ' = (IF k = "aside" THEN Append(asideQ, <<k, sent'[k]>>) ELSE asideQ)
    BY <1>5, Arrived
  <2>2. PICK n1 \in [Kinds -> Nat] : n1 = sent'
    BY <2>1
  <2>3. UNCHANGED <<mirror, taken, Held>>
    BY <1>5 DEF Arrive, log, Held
  <2>4. /\ k = "steer" => Flow(mirror, Held, Append(steerQ, <<k, n1[k]>>), followQ, asideQ, taken, n1)
        /\ k = "follow" => Flow(mirror, Held, steerQ, Append(followQ, <<k, n1[k]>>), asideQ, taken, n1)
        /\ k = "aside" => Flow(mirror, Held, steerQ, followQ, Append(asideQ, <<k, n1[k]>>), taken, n1)
    BY <1>3, <1>4, <2>1, <2>2, FlowArrive
  <2> QED
    BY <2>1, <2>2, <2>3, <2>4 DEF FlowInv
<1>6. CASE TakeBack \/ ClearAllQueues
  <2>1. PICK u \in Seq(Of("steer")), v \in Seq(Of("follow")) :
          /\ steerQ' \in Seq(Of("steer")) /\ followQ' \in Seq(Of("follow"))
          /\ steerQ = steerQ' \o u /\ followQ = followQ' \o v
          /\ taken' = taken \cup ToSet(u) \cup ToSet(v)
    BY <1>6, TakenBack
  <2>2. PICK s \in Seq(Of("steer")), f \in Seq(Of("follow")) : s = steerQ' /\ f = followQ'
    BY <2>1
  <2>3. Flow(mirror, Held, s \o u, f \o v, asideQ, taken, sent)
    BY <1>4, <2>1, <2>2
  <2>4. Flow(mirror, Held, s, f, asideQ, taken \cup ToSet(u) \cup ToSet(v), sent)
    BY <1>3, <2>3, FlowTaken
  <2>5. UNCHANGED <<mirror, Held, asideQ, sent>>
    BY <1>6 DEF TakeBack, ClearAllQueues, log, Held
  <2> QED
    BY <2>1, <2>2, <2>4, <2>5 DEF FlowInv
<1>7. CASE Abort \/ UNCHANGED vars
  <2>1. UNCHANGED <<mirror, Held, queues, taken, sent>>
    BY <1>7 DEF Abort, vars, queues, log, Held
  <2> QED
    BY <1>4, <2>1 DEF FlowInv, queues
<1> QED
  BY <1>1, <1>2, <1>5, <1>6, <1>7 DEF Next, Rest

-----------------------------------------------------------------------------
(* Calls and their results.                                                *)

\* Transcripts that are paired are paired when they are put together.
LEMMA PairedConcat ==
    ASSUME NEW s \in Seq(Entry), NEW t \in Seq(Entry), PairedSeq(s), PairedSeq(t)
    PROVE  PairedSeq(s \o t) /\ s \o t \in Seq(Entry)
<1> DEFINE n == Len(s)
           k == Len(t)
           u == s \o t
<1>1. n \in Nat /\ k \in Nat
  BY LenProperties
<1>2. /\ u \in Seq(Entry) /\ Len(u) = n + k
      /\ \A i \in 1..(n + k) : u[i] = IF i <= n THEN s[i] ELSE t[i - n]
  BY ConcatProperties
<1>3. /\ \A i \in 1..n : s[i] \in Entry /\ s[i][2] \in Nat
      /\ \A i \in 1..k : t[i] \in Entry /\ t[i][2] \in Nat
  BY ElementOfSeq DEF Entry
<1>4. /\ \A i \in 1..n : s[i][1] = "assistant" => AnsweredAt(s, i)
      /\ \A i \in 1..n : s[i][1] = "result" =>
           \E j \in 1..(i - 1) : s[j][1] = "assistant" /\ i - j <= s[j][2]
      /\ \A i \in 1..k : t[i][1] = "assistant" => AnsweredAt(t, i)
      /\ \A i \in 1..k : t[i][1] = "result" =>
           \E j \in 1..(i - 1) : t[j][1] = "assistant" /\ i - j <= t[j][2]
  BY DEF PairedSeq
<1> HIDE DEF n, k, u
<1>5. ASSUME NEW i \in 1..Len(u)
      PROVE  \/ i \in 1..n /\ u[i] = s[i]
             \/ i - n \in 1..k /\ ~(i <= n) /\ u[i] = t[i - n]
  <2>1. i \in 1..(n + k) /\ n + k \in Nat
    BY <1>1, <1>2
  <2>2. CASE i <= n
    <3>1. i \in 1..n
      BY <1>1, <2>1, <2>2
    <3> QED
      BY <1>2, <2>1, <2>2, <3>1
  <2>3. CASE ~(i <= n)
    <3>1. i - n \in 1..k
      BY <1>1, <2>1, <2>3
    <3> QED
      BY <1>2, <2>1, <2>3, <3>1
  <2> QED
    BY <2>2, <2>3
<1>6. ASSUME NEW i \in 1..Len(u), u[i][1] = "assistant" PROVE AnsweredAt(u, i)
  <2> SUFFICES ASSUME NEW c \in 1..u[i][2] PROVE i + c <= Len(u) /\ u[i + c] = <<"result", c>>
    BY DEF AnsweredAt
  <2>1. CASE i \in 1..n /\ u[i] = s[i]
    <3>1. i + c <= n /\ s[i + c] = <<"result", c>> /\ c \in Nat \ {0}
      <4>1. AnsweredAt(s, i) /\ c \in 1..s[i][2] /\ s[i][2] \in Nat
        BY <1>3, <1>4, <1>6, <2>1
      <4> QED
        BY <4>1 DEF AnsweredAt, n
    <3> QED
      BY <1>1, <1>2, <2>1, <3>1
  <2>2. CASE i - n \in 1..k /\ ~(i <= n) /\ u[i] = t[i - n]
    <3>1. (i - n) + c <= k /\ t[(i - n) + c] = <<"result", c>> /\ c \in Nat \ {0}
      <4>1. AnsweredAt(t, i - n) /\ c \in 1..t[i - n][2] /\ t[i - n][2] \in Nat
        BY <1>3, <1>4, <1>6, <2>2
      <4> QED
        BY <4>1 DEF AnsweredAt, k
    <3>2. i + c \in 1..(n + k) /\ ~(i + c <= n) /\ (i + c) - n = (i - n) + c
      BY <1>1, <1>2, <2>2, <3>1
    <3> QED
      BY <1>1, <1>2, <3>1, <3>2
  <2> QED
    BY <1>5, <2>1, <2>2
<1>7. ASSUME NEW i \in 1..Len(u), u[i][1] = "result"
      PROVE  \E j \in 1..(i - 1) : u[j][1] = "assistant" /\ i - j <= u[j][2]
  <2>1. CASE i \in 1..n /\ u[i] = s[i]
    <3>1. PICK j \in 1..(i - 1) : s[j][1] = "assistant" /\ i - j <= s[j][2]
      BY <1>4, <1>7, <2>1
    <3>2. u[j] = s[j]
      BY <1>1, <1>2, <2>1, <3>1
    <3> QED
      BY <3>1, <3>2
  <2>2. CASE i - n \in 1..k /\ ~(i <= n) /\ u[i] = t[i - n]
    <3>1. PICK j \in 1..((i - n) - 1) : t[j][1] = "assistant" /\ (i - n) - j <= t[j][2]
      BY <1>4, <1>7, <2>2
    <3>2. n + j \in 1..(n + k) /\ ~(n + j <= n) /\ (n + j) - n = j /\ n + j \in 1..(i - 1)
          /\ i - (n + j) = (i - n) - j
      BY <1>1, <1>2, <2>2, <3>1
    <3>3. u[n + j] = t[j]
      BY <1>2, <3>2
    <3> QED
      BY <3>1, <3>2, <3>3
  <2> QED
    BY <1>5, <2>1, <2>2
<1> QED
  BY <1>2, <1>6, <1>7 DEF PairedSeq, u

\* Messages are no calls, and an answer without calls needs no results.
LEMMA PairedPlain == (\A s \in Seq(Message) : PairedSeq(s)) /\ PairedSeq(Reply(0))
<1>1. ASSUME NEW s \in Seq(Message) PROVE PairedSeq(s)
  <2>1. \A i \in 1..Len(s) : s[i][1] \in Kinds
    BY ElementOfSeq DEF Message
  <2> QED
    BY <2>1 DEF PairedSeq, Kinds
<1>2. PairedSeq(Reply(0))
  BY DEF PairedSeq, AnsweredAt, Reply
<1> QED
  BY <1>1, <1>2

\* Calls and their results are paired, and so is what is thrown away.
LEMMA PairedMade ==
    ASSUME NEW n \in Nat
    PROVE  /\ PairedSeq(Reply(n) \o Answers(n)) /\ Reply(n) \o Answers(n) \in Seq(Entry)
           /\ PairedSeq(Scrap(n)) /\ Reply(n) \in Seq(Entry) /\ Scrap(n) \in Seq(Entry)
           /\ Answers(n) \in Seq(Entry)
<1>1. /\ PairedSeq(Scrap(n)) /\ Reply(n) \in Seq(Entry) /\ Scrap(n) \in Seq(Entry)
      /\ Answers(n) \in Seq(Entry)
  <2>1. PairedSeq(Scrap(n))
    BY DEF PairedSeq, Scrap
  <2> QED
    BY <2>1, Made DEF Reply, Scrap
<1>2. PairedSeq(Reply(n) \o Answers(n)) /\ Reply(n) \o Answers(n) \in Seq(Entry)
  <2> DEFINE u == Reply(n) \o Answers(n)
  <2>1. Reply(n) \in Seq(Entry) /\ Len(Reply(n)) = 1 /\ Reply(n)[1] = <<"assistant", n>>
        /\ Answers(n) \in Seq(Entry) /\ Len(Answers(n)) = n
        /\ \A i \in 1..n : Answers(n)[i] = <<"result", i>>
    BY Made DEF Reply
  <2>2. /\ u \in Seq(Entry) /\ Len(u) = 1 + n
        /\ \A i \in 1..(1 + n) : u[i] = IF i <= 1 THEN Reply(n)[i] ELSE Answers(n)[i - 1]
    <3>1. PICK r \in Seq(Entry), a \in Seq(Entry) : r = Reply(n) /\ a = Answers(n)
      BY <2>1
    <3>2. /\ r \o a \in Seq(Entry) /\ Len(r \o a) = Len(r) + Len(a)
          /\ \A i \in 1 .. Len(r) + Len(a) : (r \o a)[i] = IF i <= Len(r) THEN r[i] ELSE a[i - Len(r)]
      BY ConcatProperties
    <3>3. Len(r) = 1 /\ Len(a) = n /\ u = r \o a
      BY <2>1, <3>1
    <3> HIDE DEF u
    <3> QED
      BY <3>1, <3>2, <3>3
  <2> HIDE DEF u
  <2>3. u[1] = <<"assistant", n>> /\ \A i \in 1..n : u[1 + i] = <<"result", i>>
    BY <2>1, <2>2
  <2>4. \A i \in 1..Len(u) : i = 1 \/ u[i] = <<"result", i - 1>>
    BY <2>1, <2>2
  <2>5. ASSUME NEW i \in 1..Len(u), u[i][1] = "assistant" PROVE AnsweredAt(u, i)
    <3>1. i = 1
      BY <2>4, <2>5
    <3> QED
      BY <2>2, <2>3, <3>1 DEF AnsweredAt
  <2>6. ASSUME NEW i \in 1..Len(u), u[i][1] = "result"
        PROVE  \E j \in 1..(i - 1) : u[j][1] = "assistant" /\ i - j <= u[j][2]
    <3>1. i # 1
      BY <2>3, <2>6
    <3>2. 1 \in 1..(i - 1) /\ i - 1 <= n
      BY <2>2, <3>1
    <3> QED
      BY <2>3, <3>2
  <2> QED
    BY <2>2, <2>5, <2>6 DEF PairedSeq, u
<1> QED
  BY <1>1, <1>2

\* The results of a call at the end of a paired transcript.
LEMMA PairedCalls ==
    ASSUME NEW s \in Seq(Entry), PairedSeq(s), NEW n \in Nat
    PROVE  PairedSeq((s \o Reply(n)) \o Answers(n))
<1>1. PICK r \in Seq(Entry), a \in Seq(Entry) : r = Reply(n) /\ a = Answers(n)
  BY PairedMade
<1>2. (s \o r) \o a = s \o (r \o a)
  BY ConcatAssociative
<1>3. r \o a \in Seq(Entry) /\ PairedSeq(r \o a)
  BY <1>1, PairedMade
<1>4. PairedSeq(s \o (r \o a))
  BY <1>3, PairedConcat
<1> QED
  BY <1>1, <1>2, <1>4

\* A sequence with one more element.
LEMMA FrontAppend ==
    ASSUME NEW S, NEW s \in Seq(S), NEW e \in S
    PROVE  /\ Front(s \o <<e>>) = s /\ Last(s \o <<e>>) = e /\ s \o <<e>> # <<>>
           /\ s \o <<e>> \in Seq(S)
<1> DEFINE u == s \o <<e>>
<1>1. u \in Seq(S) /\ Len(s) \in Nat /\ Len(u) = Len(s) + 1
      /\ u[Len(s) + 1] = e /\ \A i \in 1..Len(s) : u[i] = s[i]
  <2>1. <<e>> \in Seq(S) /\ Len(<<e>>) = 1 /\ <<e>>[1] = e
    OBVIOUS
  <2> QED
    BY <2>1, ConcatProperties, LenProperties
<1> HIDE DEF u
<1>2. u # <<>> /\ Last(u) = e
  BY <1>1 DEF Last
<1>3. Front(u) = s
  <2>1. Front(u) = SubSeq(u, 1, Len(s))
    BY <1>1 DEF Front
  <2>2. SubSeq(u, 1, Len(s)) \in Seq(S) /\ Len(SubSeq(u, 1, Len(s))) = Len(s)
        /\ \A i \in 1..Len(s) : SubSeq(u, 1, Len(s))[i] = s[i]
    BY <1>1, SubSeqProperties
  <2> QED
    BY <2>1, <2>2, SeqEqual
<1> QED
  BY <1>1, <1>2, <1>3 DEF u

\* The transcript after a discarded partial, which may not have been shown.
After(shown, n) == IF shown THEN Append(mirror, <<"discarded", n>>) ELSE mirror

\* Calls and results stay paired.
LEMMA PairStep == Typed /\ PairInv /\ [Next]_vars => PairInv'
<1> SUFFICES ASSUME Typed, PairInv, [Next]_vars PROVE PairInv'
  OBVIOUS
<1>1. context \in Seq(Entry) /\ mirror \in Seq(Entry) /\ pending \in Seq(Message) /\ pending \in Seq(Entry)
      /\ <<>> \in Seq(Message) /\ <<>> \in Seq(Entry)
  BY TypedParts, Wider
<1>2. ASSUME pc # "tools", pc' # "tools", NEW x \in Seq(Entry), PairedSeq(x), NEW y \in Seq(Entry), PairedSeq(y),
             context' = context \o x, mirror' = mirror \o y
      PROVE  PairInv'
  <2>1. PairedSeq(context) /\ PairedSeq(mirror)
    BY <1>2 DEF PairInv
  <2>2. PairedSeq(context \o x) /\ PairedSeq(mirror \o y)
    BY <1>1, <1>2, <2>1, PairedConcat
  <2> QED
    BY <1>2, <2>2 DEF PairInv
<1>3. ASSUME UNCHANGED log, pc # "tools", pc' # "tools" PROVE PairInv'
  BY <1>3 DEF PairInv, log
<1>4. ASSUME UNCHANGED log, pc' = pc PROVE PairInv'
  BY <1>4 DEF PairInv, log
<1>5. PairedSeq(<<>>) /\ context \o <<>> = context /\ mirror \o <<>> = mirror
  BY <1>1, PairedPlain, ConcatEmptySeq
<1>6. ASSUME NEW msgs \in Seq(Message), NEW skip, Begin(msgs, skip), pc = "idle" PROVE PairInv'
  <2>1. PairedSeq(mirror) /\ PairedSeq(msgs) /\ msgs \in Seq(Entry)
    BY <1>6, PairedPlain, Wider DEF PairInv
  <2>2. PairedSeq(mirror \o msgs)
    BY <1>1, <2>1, PairedConcat
  <2> QED
    BY <1>6, <2>2 DEF PairInv, Begin, StartContext, Mirror
<1>7. CASE Prompt
  <2>1. sent' \in [Kinds -> Nat] /\ "prompt" \in Kinds
    BY <1>7, SentMore DEF Prompt, Kinds
  <2>2. << <<"prompt", sent'["prompt"]>> >> \in Seq(Message)
    BY <2>1 DEF Message
  <2> QED
    BY <1>6, <1>7, <2>2 DEF Prompt
<1>8. CASE Continue
  BY <1>6, <1>8, Continued
<1>9. CASE InitialPoll \/ TurnEnd \/ BeforeYield \/ LateFollow \/ \E keep \in BOOLEAN : PollAside(keep) \/ LateAside(keep)
  <2>1. UNCHANGED log /\ pc # "tools" /\ pc' # "tools"
    BY <1>9 DEF InitialPoll, TurnEnd, BeforeYield, LateFollow, PollAside, LateAside, WhileTest
  <2> QED
    BY <1>3, <2>1
<1>10. CASE Inject
  <2>1. PairedSeq(pending) /\ context' = context \o pending /\ mirror' = mirror \o pending
        /\ pc # "tools" /\ pc' # "tools"
    BY <1>1, <1>10, PairedPlain DEF Inject, Commit, Mirror
  <2> QED
    BY <1>1, <1>2, <2>1
<1>11. CASE Throws
  <2>1. mirror' = mirror \o Reply(0)
    <3>1. <<"assistant", 0>> \in Entry
      BY DEF Entry
    <3> QED
      BY <1>1, <1>11, <3>1, AppendIsConcat DEF Throws, Reply
  <2>2. Reply(0) \in Seq(Entry) /\ PairedSeq(Reply(0))
    BY PairedMade, PairedPlain
  <2>3. context' = context \o <<>> /\ pc # "tools" /\ pc' # "tools"
    BY <1>5, <1>11 DEF Throws
  <2> QED
    BY <1>1, <1>2, <1>5, <2>1, <2>2, <2>3
<1>12. CASE RunTools
  <2> DEFINE last == Last(context)
             k == last[2]
  <2>1. context # <<>> /\ mirror # <<>> /\ last[1] = "assistant" /\ Last(mirror) = last
        /\ PairedSeq(Front(context)) /\ PairedSeq(Front(mirror)) /\ k \in Nat
    BY <1>12, RunToolsTyped DEF PairInv, RunTools
  <2>2. /\ Front(context) \in Seq(Entry) /\ last \in Entry /\ context = Front(context) \o <<last>>
        /\ Front(mirror) \in Seq(Entry) /\ mirror = Front(mirror) \o <<last>>
    BY <1>1, <2>1, FrontLast
  <2>3. last = <<"assistant", k>>
    BY <2>1, <2>2 DEF Entry
  <2>4. context' = context \o Answers(k) /\ mirror' = mirror \o Answers(k) /\ pc' # "tools"
    BY <1>12 DEF RunTools, Commit, Mirror
  <2> HIDE DEF last, k
  <2>5. context = Front(context) \o Reply(k) /\ mirror = Front(mirror) \o Reply(k)
    BY <2>2, <2>3 DEF Reply
  <2>6. PICK c \in Seq(Entry), m \in Seq(Entry) : c = Front(context) /\ m = Front(mirror)
    BY <2>2
  <2>7. PairedSeq((c \o Reply(k)) \o Answers(k)) /\ PairedSeq((m \o Reply(k)) \o Answers(k))
    BY <2>1, <2>6, PairedCalls
  <2> QED
    BY <2>4, <2>5, <2>6, <2>7 DEF PairInv
<1>13. ASSUME NEW n \in 0..1, Fails(n) PROVE PairInv'
  <2>1. PairedSeq(Reply(n) \o Answers(n)) /\ Reply(n) \o Answers(n) \in Seq(Entry)
    BY PairedMade
  <2>2. context' = context \o (Reply(n) \o Answers(n)) /\ pc # "tools" /\ pc' # "tools"
        /\ mirror' = mirror \o (Reply(n) \o Answers(n))
    BY <1>13 DEF Fails, Called, Commit, Mirror, FailedMessage, Reply
  <2> QED
    BY <1>2, <2>1, <2>2
<1>14. ASSUME NEW c \in Seq(Entry), PairedSeq(c), NEW m \in Seq(Entry), PairedSeq(m), NEW n \in Nat,
              context' = c \o Reply(n), mirror' = m \o Reply(n), pc' = "tools"
       PROVE  PairInv'
  <2>1. PICK e \in Entry : e = <<"assistant", n>>
    BY DEF Entry
  <2>2. context' = c \o <<e>> /\ mirror' = m \o <<e>>
    BY <1>14, <2>1 DEF Reply
  <2>3. /\ Front(c \o <<e>>) = c /\ Last(c \o <<e>>) = e /\ c \o <<e>> # <<>>
        /\ Front(m \o <<e>>) = m /\ Last(m \o <<e>>) = e /\ m \o <<e>> # <<>>
    BY FrontAppend
  <2> QED
    BY <1>14, <2>1, <2>2, <2>3 DEF PairInv
<1>15. ASSUME NEW stop \in Stops, NEW n \in 0..2, NEW pause \in BOOLEAN, Responds(stop, n, pause)
       PROVE  PairInv'
  <2>1. /\ context' = context \o (Reply(n) \o Placeholders(stop, n))
        /\ mirror' = mirror \o (Reply(n) \o Placeholders(stop, n))
        /\ pc # "tools" /\ pc' = IF n > 0 /\ stop # "length" THEN "tools" ELSE "turnEnd"
    BY <1>15 DEF Responds, Called, Commit, Mirror, AfterResponse, Reply
  <2>2. Reply(n) \in Seq(Entry) /\ Reply(n) \o <<>> = Reply(n)
    <3>1. Reply(n) \in Seq(Entry)
      BY PairedMade
    <3> QED
      BY <3>1, ConcatEmptySeq
  <2>3. CASE stop = "length"
    <3>1. PairedSeq(Reply(n) \o Answers(n)) /\ Reply(n) \o Answers(n) \in Seq(Entry)
      BY PairedMade
    <3> QED
      BY <1>2, <2>1, <2>3, <3>1 DEF Placeholders
  <2>4. CASE stop # "length"
    <3>1. context' = context \o Reply(n) /\ mirror' = mirror \o Reply(n)
      BY <2>1, <2>2, <2>4 DEF Placeholders
    <3>2. CASE n > 0
      <4>1. PairedSeq(context) /\ PairedSeq(mirror) /\ pc' = "tools" /\ n \in Nat
        BY <2>1, <2>4, <3>2 DEF PairInv
      <4> QED
        BY <1>1, <1>14, <3>1, <4>1
    <3>3. CASE n = 0
      <4>1. PairedSeq(Reply(n)) /\ pc' # "tools"
        BY <2>1, <3>3, PairedPlain
      <4> QED
        BY <1>2, <2>1, <2>2, <3>1, <4>1
    <3> QED
      BY <3>2, <3>3
  <2> QED
    BY <2>3, <2>4
<1>16. ASSUME NEW n \in 0..1, NEW shown \in BOOLEAN, PairedSeq(mirror)
       PROVE  \E x \in Seq(Entry) :
                /\ PairedSeq(x) /\ mirror \o x \in Seq(Entry) /\ PairedSeq(mirror \o x)
                /\ After(shown, n) = mirror \o x
  <2>1. Append(mirror, <<"discarded", n>>) = mirror \o Scrap(n)
    <3>1. <<"discarded", n>> \in Entry
      BY DEF Entry
    <3> QED
      BY <1>1, <3>1, AppendIsConcat DEF Scrap
  <2>2. PairedSeq(Scrap(n)) /\ Scrap(n) \in Seq(Entry)
    BY PairedMade
  <2>3. PairedSeq(mirror \o Scrap(n)) /\ mirror \o Scrap(n) \in Seq(Entry)
    BY <1>1, <1>16, <2>2, PairedConcat
  <2> QED
    BY <1>1, <1>5, <1>16, <2>1, <2>2, <2>3 DEF After
<1>17. pc = "call" => PairedSeq(mirror) /\ PairedSeq(context)
  BY DEF PairInv
<1>18. ASSUME NEW n \in 0..1, NEW shown \in BOOLEAN, LeakRetries(n, shown) PROVE PairInv'
  <2>1. PICK x \in Seq(Entry) : PairedSeq(x) /\ mirror' = mirror \o x
    BY <1>16, <1>17, <1>18 DEF LeakRetries, Discard, Called, After
  <2>2. context' = context \o <<>> /\ pc # "tools" /\ pc' # "tools"
    BY <1>5, <1>18 DEF LeakRetries, Called, WhileTest
  <2> QED
    BY <1>1, <1>2, <1>5, <2>1, <2>2
<1>19. ASSUME NEW shown \in BOOLEAN, LeakResumes(shown) \/ LeakEscalates(shown) PROVE PairInv'
  <2>1. PairedSeq(mirror) /\ PairedSeq(context)
    BY <1>17, <1>19 DEF LeakResumes, LeakEscalates, Called
  <2>2. After(shown, 1) \in Seq(Entry) /\ PairedSeq(After(shown, 1))
    <3>1. PICK x \in Seq(Entry) : /\ mirror \o x \in Seq(Entry) /\ PairedSeq(mirror \o x)
                                  /\ After(shown, 1) = mirror \o x
      BY <1>16, <2>1
    <3> QED
      BY <3>1
  <2>3. PICK m \in Seq(Entry) : m = After(shown, 1)
    BY <2>2
  <2>4. CASE LeakResumes(shown)
    <3>1. mirror' = m \o Reply(1) /\ pc' = "tools"
      BY <2>3, <2>4 DEF LeakResumes, AfterResponse, Reply, After
    <3>2. context' = context \o Reply(1)
      <4>1. <<"assistant", 1>> \in Entry
        BY DEF Entry
      <4> QED
        BY <1>1, <2>4, <4>1, AppendIsConcat DEF LeakResumes, Reply
    <3> QED
      BY <1>1, <1>14, <2>1, <2>2, <2>3, <3>1, <3>2
  <2>5. CASE LeakEscalates(shown)
    <3>1. mirror' = m \o Reply(0) /\ context' = context /\ pc' # "tools"
      BY <2>3, <2>5 DEF LeakEscalates, Reply, After
    <3>2. Reply(0) \in Seq(Entry) /\ PairedSeq(Reply(0))
      BY PairedMade, PairedPlain
    <3>3. PairedSeq(m \o Reply(0))
      BY <2>2, <2>3, <3>2, PairedConcat
    <3> QED
      BY <2>1, <3>1, <3>3 DEF PairInv
  <2> QED
    BY <1>19, <2>4, <2>5
<1>20. CASE \/ \E k \in {"steer", "follow", "aside"} : Arrive(k)
            \/ TakeBack \/ ClearAllQueues \/ Abort \/ UNCHANGED vars
  <2>1. UNCHANGED log /\ pc' = pc
    BY <1>20 DEF Arrive, TakeBack, ClearAllQueues, Abort, vars
  <2> QED
    BY <1>4, <2>1
<1> QED
  BY <1>7, <1>8, <1>9, <1>10, <1>11, <1>12, <1>13, <1>15, <1>18, <1>19, <1>20
     DEF Next, Loop, Rest, Stops

-----------------------------------------------------------------------------
(* What the polls have seen.                                               *)

\* A queue of late messages without its end, and with a later one.
LEMMA LateParts ==
    ASSUME NEW S, NEW s \in Seq(S), NEW t \in Seq(S), NEW k
    PROVE  /\ Late(s \o t, k) => Late(s, k)
           /\ \A e \in S : Late(s, k) /\ e[2] > k => Late(Append(s, e), k)
           /\ Late(<<>>, k)
<1>1. Len(s) \in Nat /\ Len(t) \in Nat
  BY LenProperties
<1>2. /\ Len(s \o t) = Len(s) + Len(t)
      /\ \A i \in 1 .. Len(s) + Len(t) : (s \o t)[i] = IF i <= Len(s) THEN s[i] ELSE t[i - Len(s)]
  BY ConcatProperties
<1>3. Late(s \o t, k) => Late(s, k)
  <2> SUFFICES ASSUME Late(s \o t, k), NEW i \in 1..Len(s) PROVE s[i][2] > k
    BY DEF Late
  <2>1. i \in 1..(Len(s) + Len(t)) /\ i <= Len(s)
    BY <1>1
  <2>2. (s \o t)[i] = s[i] /\ i \in 1..Len(s \o t)
    BY <1>2, <2>1
  <2> QED
    BY <2>2 DEF Late
<1>4. ASSUME NEW e \in S, Late(s, k), e[2] > k PROVE Late(Append(s, e), k)
  <2>1. Len(Append(s, e)) = Len(s) + 1 /\ Append(s, e)[Len(s) + 1] = e
        /\ \A i \in 1..Len(s) : Append(s, e)[i] = s[i]
    BY AppendProperties
  <2>2. \A i \in 1..(Len(s) + 1) : i \in 1..Len(s) \/ i = Len(s) + 1
    BY <1>1
  <2> QED
    BY <1>4, <2>1, <2>2 DEF Late
<1> QED
  BY <1>3, <1>4 DEF Late

\* SeenInv in terms of Late.
LEMMA SeenParts ==
    SeenInv <=>
      /\ mark.steer <= sent["steer"] /\ mark.follow <= sent["follow"]
      /\ pc \in {"lateAside", "lateFollow"} /\ polled = <<>> /\ ~aborted => Late(steerQ, mark.steer)
      /\ pc = "idle" /\ ended = "stop" /\ ~aborted =>
           Late(steerQ, mark.steer) /\ Late(followQ, mark.follow)
BY DEF SeenInv, NotStranded, Late

\* The marks stay behind, and what a late poll left stays late.
LEMMA SeenStep == Typed /\ InHand /\ SeenInv /\ [Next]_vars => SeenInv'
<1> SUFFICES ASSUME Typed, InHand, SeenInv, [Next]_vars PROVE SeenInv'
  OBVIOUS
<1>1. /\ mark.steer \in Nat /\ mark.follow \in Nat /\ sent["steer"] \in Nat /\ sent["follow"] \in Nat
      /\ steerQ \in Seq(Of("steer")) /\ followQ \in Seq(Of("follow"))
      /\ asideQ \in Seq(Message) /\ polled \in Seq(Message)
  <2>1. {"steer", "follow", "aside"} \subseteq Kinds
    BY DEF Kinds
  <2> QED
    BY <2>1, TypedParts, Bounded, Wider
<1>2. /\ mark.steer <= sent["steer"] /\ mark.follow <= sent["follow"]
      /\ pc \in {"lateAside", "lateFollow"} /\ polled = <<>> /\ ~aborted => Late(steerQ, mark.steer)
      /\ pc = "idle" /\ ended = "stop" /\ ~aborted =>
           Late(steerQ, mark.steer) /\ Late(followQ, mark.follow)
  BY SeenParts
<1>3. SUFFICES
      /\ mark'.steer <= sent'["steer"] /\ mark'.follow <= sent'["follow"]
      /\ pc' \in {"lateAside", "lateFollow"} /\ polled' = <<>> /\ ~aborted' => Late(steerQ', mark'.steer)
      /\ pc' = "idle" /\ ended' = "stop" /\ ~aborted' =>
           Late(steerQ', mark'.steer) /\ Late(followQ', mark'.follow)
  BY DEF SeenInv, NotStranded, Late
<1>4. \A k : Late(<<>>, k)
  BY DEF Late
<1>5. CASE Prompt \/ Continue
  <2>1. pc' = "initialPoll" /\ mark' = mark
    BY <1>5 DEF Prompt, Continue, Begin
  <2>2. sent'["steer"] = sent["steer"] /\ sent'["follow"] = sent["follow"]
    BY <1>5, TypedParts DEF Prompt, Continue, Kinds
  <2> QED
    BY <1>2, <2>1, <2>2
<1>6. CASE InitialPoll \/ TurnEnd \/ BeforeYield
  <2>1. PollSteering /\ sent' = sent /\ aborted' = aborted
    BY <1>6 DEF InitialPoll, TurnEnd, BeforeYield
  <2>2. /\ polled' = <<>> /\ ~aborted /\ ~skipPoll => steerQ' = <<>>
        /\ mark'.steer = sent["steer"] /\ mark'.follow = mark.follow
    BY <2>1, Polled
  <2>3. pc' # "idle" /\ (pc' \in {"lateAside", "lateFollow"} => pc = "beforeYield")
    BY <1>6 DEF InitialPoll, TurnEnd, BeforeYield, WhileTest
  <2>4. pc = "beforeYield" /\ ~aborted => ~skipPoll
    BY DEF InHand
  <2> QED
    BY <1>1, <1>2, <1>4, <2>1, <2>2, <2>3, <2>4
<1>7. CASE \/ Inject \/ Throws \/ RunTools
           \/ \E n \in 0..1 : Fails(n)
           \/ \E stop \in Stops, n \in 0..2, pause \in BOOLEAN : Responds(stop, n, pause)
           \/ \E n \in 0..1, shown \in BOOLEAN : LeakRetries(n, shown)
           \/ \E shown \in BOOLEAN : LeakResumes(shown) \/ LeakEscalates(shown)
  <2>1. UNCHANGED <<sent, mark>> /\ pc' \notin {"lateAside", "lateFollow"} /\ (pc' = "idle" => ended' # "stop")
    BY <1>7 DEF Inject, Throws, RunTools, Fails, Responds, LeakRetries, LeakResumes, LeakEscalates,
                AfterResponse, WhileTest
  <2> QED
    BY <1>2, <2>1
<1>8. ASSUME NEW keep \in BOOLEAN, PollAside(keep) PROVE SeenInv'
  <2>1. UNCHANGED <<sent, mark>> /\ pc' = "top"
    BY <1>8 DEF PollAside
  <2> QED
    BY <1>2, <2>1 DEF SeenInv, NotStranded
<1>9. ASSUME NEW keep \in BOOLEAN, LateAside(keep) PROVE SeenInv'
  <2>1. UNCHANGED <<sent, mark, aborted, steerQ>> /\ pc = "lateAside" /\ pc' = "lateFollow"
    BY <1>9 DEF LateAside
  <2>2. ~aborted /\ polled' = <<>> => polled = <<>>
    <3>1. ~aborted => polled' = polled \/ polled' = polled \o asideQ
      BY <1>9, AsidesTyped DEF LateAside
    <3>2. polled \o asideQ = <<>> => polled = <<>>
      BY <1>1, ConcatEqualIffEmpty
    <3> QED
      BY <3>1, <3>2
  <2> QED
    BY <1>2, <2>1, <2>2 DEF SeenInv, NotStranded
<1>10. CASE LateFollow
  <2>1. PICK follow \in Seq(Of("follow")) :
          /\ follow \in Seq(Message)
          /\ follow = <<>> /\ ~aborted => followQ' = <<>>
          /\ pending' = polled \o follow
          /\ IF pending' # <<>> THEN pc' = "top" ELSE pc' = "idle"
    BY <1>10, Followed
  <2>2. pc = "lateFollow" /\ UNCHANGED <<sent, aborted, steerQ>>
        /\ mark'.steer = mark.steer /\ mark'.follow = sent["follow"]
    BY <1>10, TypedParts DEF LateFollow
  <2>3. polled \o follow = <<>> => polled = <<>> /\ follow = <<>>
    BY <1>1, <2>1, ConcatEqualIffEmpty
  <2> QED
    BY <1>1, <1>2, <1>4, <2>1, <2>2, <2>3
<1>11. ASSUME NEW k \in {"steer", "follow", "aside"}, Arrive(k) PROVE SeenInv'
  <2>1. /\ k \in Kinds /\ sent'[k] = sent[k] + 1 /\ \A l \in Kinds \ {k} : sent'[l] = sent[l]
        /\ <<k, sent'[k]>> \in Of(k)
        /\ steerQ' = (IF k = "steer" THEN Append(steerQ, <<k, sent'[k]>>) ELSE steerQ)
        /\ followQ' = (IF k = "follow" THEN Append(followQ, <<k, sent'[k]>>) ELSE followQ)
    BY <1>11, Arrived
  <2>2. UNCHANGED <<pc, polled, aborted, ended, mark>>
    BY <1>11 DEF Arrive
  <2>3. /\ mark'.steer <= sent'["steer"] /\ mark'.follow <= sent'["follow"]
        /\ k = "steer" => sent'[k] > mark.steer
        /\ k = "follow" => sent'[k] > mark.follow
    BY <1>1, <1>2, <2>1, <2>2 DEF Kinds
  <2>4. PICK e : e = <<k, sent'[k]>>
    OBVIOUS
  <2>5. /\ Late(steerQ, mark.steer) => Late(steerQ', mark.steer)
        /\ Late(followQ, mark.follow) => Late(followQ', mark.follow)
    <3>1. CASE k = "steer"
      <4>1. e \in Of("steer") /\ e[2] > mark.steer /\ steerQ' = Append(steerQ, e) /\ followQ' = followQ
        BY <2>1, <2>3, <2>4, <3>1
      <4>2. Late(steerQ, mark.steer) => Late(Append(steerQ, e), mark.steer)
        BY <1>1, <4>1, LateParts
      <4> QED
        BY <4>1, <4>2
    <3>2. CASE k = "follow"
      <4>1. e \in Of("follow") /\ e[2] > mark.follow /\ followQ' = Append(followQ, e) /\ steerQ' = steerQ
        BY <2>1, <2>3, <2>4, <3>2
      <4>2. Late(followQ, mark.follow) => Late(Append(followQ, e), mark.follow)
        BY <1>1, <4>1, LateParts
      <4> QED
        BY <4>1, <4>2
    <3>3. CASE k = "aside"
      BY <2>1, <3>3
    <3> QED
      BY <3>1, <3>2, <3>3
  <2> QED
    BY <1>2, <2>2, <2>3, <2>5 DEF SeenInv, NotStranded, Late
<1>12. CASE TakeBack \/ ClearAllQueues
  <2>1. PICK u \in Seq(Of("steer")), v \in Seq(Of("follow")) :
          /\ steerQ' \in Seq(Of("steer")) /\ followQ' \in Seq(Of("follow"))
          /\ steerQ = steerQ' \o u /\ followQ = followQ' \o v
    BY <1>12, TakenBack
  <2>2. PICK s \in Seq(Of("steer")), f \in Seq(Of("follow")) : s = steerQ' /\ f = followQ'
    BY <2>1
  <2>3. /\ Late(s \o u, mark.steer) => Late(s, mark.steer)
        /\ Late(f \o v, mark.follow) => Late(f, mark.follow)
    BY LateParts
  <2>4. UNCHANGED <<pc, polled, aborted, ended, mark, sent>>
    BY <1>12 DEF TakeBack, ClearAllQueues
  <2> QED
    BY <1>2, <2>1, <2>2, <2>3, <2>4
<1>13. CASE Abort
  BY <1>2, <1>13 DEF Abort
<1>14. CASE UNCHANGED vars
  BY <1>2, <1>14 DEF vars, queues
<1> QED
  BY <1>5, <1>6, <1>7, <1>8, <1>9, <1>10, <1>11, <1>12, <1>13, <1>14, SeenParts
     DEF Next, Loop, Rest, Stops, SeenInv, NotStranded, Late

-----------------------------------------------------------------------------
(* Answers, and calls without effect.                                      *)

\* The loop leaves the inner while behind an answer or a leak, throughout.
LEMMA AnswerStep == Typed /\ AnswerInv /\ [Next]_vars => AnswerInv'
<1> SUFFICES ASSUME Typed, AnswerInv, [Next]_vars PROVE AnswerInv'
  OBVIOUS
<1>1. leaks \in 0..MaxLeaks /\ MaxLeaks \in Nat /\ context \in Seq(Entry)
  BY Bounded, TypedParts DEF CountsOK
<1>2. CASE Prompt \/ Continue
  BY <1>2 DEF Prompt, Continue, Begin, AnswerInv
<1>3. ASSUME UNCHANGED <<log, counters, more>> PROVE Answered' = Answered /\ leaks' = leaks /\ more' = more
  BY <1>3 DEF Answered, log, counters
<1>4. CASE InitialPoll \/ TurnEnd \/ BeforeYield \/ \E keep \in BOOLEAN : PollAside(keep) \/ LateAside(keep)
  <2>1. UNCHANGED <<log, counters, more>>
    BY <1>4 DEF InitialPoll, TurnEnd, BeforeYield, PollAside, LateAside
  <2>2. /\ pc' \notin {"idle", "tools", "turnEnd"}
        /\ pc' \in {"beforeYield", "lateAside", "lateFollow"} =>
             pc \in {"beforeYield", "lateAside"} \/ (pc = "turnEnd" /\ ~more)
    BY <1>4 DEF InitialPoll, TurnEnd, BeforeYield, PollAside, LateAside, WhileTest
  <2> QED
    BY <1>3, <2>1, <2>2 DEF AnswerInv
<1>5. CASE Inject
  BY <1>5 DEF Inject, AnswerInv
<1>6. CASE Throws \/ (\E n \in 0..1 : Fails(n)) \/ \E shown \in BOOLEAN : LeakEscalates(shown)
  <2>1. pc' = "idle" /\ ended' # "stop"
    BY <1>6 DEF Throws, Fails, LeakEscalates
  <2> QED
    BY <2>1 DEF AnswerInv
<1>7. CASE RunTools
  BY <1>7 DEF RunTools, AnswerInv
<1>8. CASE LateFollow
  <2>1. pc = "lateFollow" /\ UNCHANGED <<context, leaks>> /\ pc' \in {"top", "idle"}
    BY <1>8, Followed DEF LateFollow, log, counters
  <2> QED
    BY <2>1 DEF AnswerInv, Answered
<1>9. ASSUME NEW stop \in Stops, NEW n \in 0..2, NEW pause \in BOOLEAN, Responds(stop, n, pause)
      PROVE  AnswerInv'
  <2>1. AfterResponse(stop, n, pause)
        /\ context' = context \o (Reply(n) \o Placeholders(stop, n))
    BY <1>9 DEF Responds, Commit, Reply
  <2>2. n > 0 => more'
    BY <2>1 DEF AfterResponse
  <2>3. pc' \in {"tools", "turnEnd"} /\ (pc' = "tools" => n > 0)
    BY <2>1 DEF AfterResponse
  <2>4. ASSUME n = 0 PROVE Answered'
    <3>1. Placeholders(stop, n) = <<>>
      BY <2>4 DEF Placeholders, Answers
    <3>2. Reply(n) \in Seq(Entry) /\ Reply(n) # <<>> /\ Last(Reply(n)) = <<"assistant", n>>
      <4>1. Reply(n) \in Seq(Entry)
        BY PairedMade
      <4> QED
        BY <4>1 DEF Last, Reply
    <3>3. Reply(n) \o <<>> = Reply(n)
      BY <3>2, ConcatEmptySeq
    <3>4. context' = context \o Reply(n)
      BY <2>1, <3>1, <3>3
    <3>5. Last(context') = <<"assistant", n>>
      BY <1>1, <3>2, <3>4, LastConcat
    <3> QED
      BY <3>5 DEF Answered, Role, Kinds
  <2> QED
    BY <2>2, <2>3, <2>4 DEF AnswerInv
<1>10. ASSUME NEW n \in 0..1, NEW shown \in BOOLEAN, LeakRetries(n, shown) PROVE AnswerInv'
  <2>1. leaks' > 0 /\ pc' \in {"top", "beforeYield"}
    BY <1>1, <1>10 DEF LeakRetries, WhileTest
  <2> QED
    BY <2>1 DEF AnswerInv
<1>11. ASSUME NEW shown \in BOOLEAN, LeakResumes(shown) PROVE AnswerInv'
  <2>1. pc' = "tools" /\ more'
    <3>1. AfterResponse("toolUse", 1, FALSE)
      BY <1>11 DEF LeakResumes
    <3>2. 1 > 0 /\ "toolUse" # "length"
      OBVIOUS
    <3> QED
      BY <3>1, <3>2, Zenon DEF AfterResponse
  <2> QED
    BY <2>1 DEF AnswerInv
<1>12. CASE \/ \E k \in {"steer", "follow", "aside"} : Arrive(k)
            \/ TakeBack \/ ClearAllQueues \/ Abort \/ UNCHANGED vars
  <2>1. UNCHANGED <<pc, log, counters, more, ended>>
    BY <1>12 DEF Arrive, TakeBack, ClearAllQueues, Abort, vars
  <2> QED
    BY <1>3, <2>1 DEF AnswerInv
<1> QED
  BY <1>2, <1>4, <1>5, <1>6, <1>7, <1>8, <1>9, <1>10, <1>11, <1>12 DEF Next, Loop, Rest, Stops

\* What a paused turn pays for.
LEMMA Times ==
    ASSUME NEW p \in Nat, NEW c \in Nat
    PROVE  p * c \in Nat /\ (p + 1) * c = p * c + c /\ 0 * c = 0
<1>1. (p + 1) * c = p * c + c
  BY SMT
<1>2. p * c \in Nat /\ 0 * c = 0
  BY SMT
<1> QED
  BY <1>1, <1>2

\* Barren calls stay paid for.
LEMMA SpinStep == Typed /\ InHand /\ AnswerInv /\ SpinInv /\ [Next]_vars => SpinInv'
<1> SUFFICES ASSUME Typed, InHand, AnswerInv, SpinInv, [Next]_vars PROVE SpinInv'
  OBVIOUS
<1> DEFINE c == MaxLeaks + 1
<1>1. leaks \in 0..MaxLeaks /\ MaxLeaks \in Nat /\ barren \in Nat /\ paused \in Nat /\ c \in Nat
  BY Bounded, TypedParts DEF CountsOK
<1>2. /\ barren <= (paused + 1) * c
      /\ Paid <=> barren <= paused * c + leaks
      /\ pc \in {"initialPoll", "call", "tools", "pollAside"} => Paid
      /\ pc = "turnEnd" /\ more => Paid
      /\ pc = "top" => Paid \/ pending # <<>>
  BY DEF SpinInv, Paid
<1>3. SUFFICES
      /\ barren' <= (paused' + 1) * c
      /\ pc' \in {"initialPoll", "call", "tools", "pollAside"} => Paid'
      /\ pc' = "turnEnd" /\ more' => Paid'
      /\ pc' = "top" => Paid' \/ pending' # <<>>
  BY DEF SpinInv, Paid
<1>4. Paid' <=> barren' <= paused' * c + leaks'
  BY DEF Paid
<1>5. /\ paused * c \in Nat /\ (paused + 1) * c = paused * c + c /\ 0 * c = 0
      /\ (paused + 1) * c \in Nat /\ (paused + 1 + 1) * c = (paused + 1) * c + c
      /\ (0 + 1) * c = 0 * c + c
  <2>1. paused + 1 \in Nat /\ 0 \in Nat
    BY <1>1
  <2>2. paused * c \in Nat /\ (paused + 1) * c = paused * c + c /\ 0 * c = 0
    BY <1>1, Times
  <2>3. (paused + 1) * c \in Nat /\ ((paused + 1) + 1) * c = (paused + 1) * c + c
    BY <1>1, <2>1, Times
  <2>4. (0 + 1) * c = 0 * c + c
    BY <1>1, <2>1, Times
  <2> QED
    BY <2>2, <2>3, <2>4
<1>6. ASSUME barren' = 0, paused' = 0, leaks' = 0
      PROVE  barren' <= (paused' + 1) * c /\ Paid'
  BY <1>1, <1>4, <1>5, <1>6
<1>7. ASSUME UNCHANGED <<counters, barren>>
      PROVE  barren' <= (paused' + 1) * c /\ (Paid' <=> Paid)
  BY <1>2, <1>7 DEF Paid, counters
<1>8. CASE Prompt \/ Continue
  <2>1. barren' = 0 /\ paused' = 0 /\ leaks' = 0 /\ pc' = "initialPoll"
    BY <1>8 DEF Prompt, Continue, Begin
  <2> QED
    BY <1>6, <2>1
<1>9. CASE InitialPoll \/ TurnEnd \/ BeforeYield
  <2>1. UNCHANGED <<counters, barren>>
    BY <1>9 DEF InitialPoll, TurnEnd, BeforeYield
  <2>2. \/ pc = "initialPoll" /\ pc' = "top"
        \/ pc = "turnEnd" /\ more /\ pc' = "pollAside"
        \/ pc' = "top" /\ pending' # <<>>
        \/ pc' \in {"beforeYield", "lateAside"}
    BY <1>9 DEF InitialPoll, TurnEnd, BeforeYield, WhileTest
  <2> QED
    BY <1>2, <1>7, <2>1, <2>2
<1>10. CASE Inject
  <2>1. pc = "top" /\ pc' = "call" /\ UNCHANGED counters /\ barren' = IF pending = <<>> THEN barren ELSE 0
    BY <1>10 DEF Inject
  <2>2. CASE pending = <<>>
    BY <1>2, <1>7, <2>1, <2>2
  <2>3. CASE pending # <<>>
    <3>1. barren' = 0 /\ paused' = paused /\ leaks' = leaks
      BY <2>1, <2>3 DEF counters
    <3> QED
      BY <1>1, <1>4, <1>5, <2>1, <3>1
  <2> QED
    BY <2>2, <2>3
<1>11. CASE Throws \/ (\E n \in 0..1 : Fails(n)) \/ \E shown \in BOOLEAN : LeakEscalates(shown)
  <2>1. pc' = "idle" /\ UNCHANGED <<barren, paused>>
    BY <1>11 DEF Throws, Fails, LeakEscalates, counters
  <2> QED
    BY <1>2, <2>1
<1>12. CASE RunTools
  <2>1. pc = "tools" /\ pc' = "turnEnd" /\ UNCHANGED <<counters, barren>>
    BY <1>12 DEF RunTools
  <2> QED
    BY <1>2, <1>7, <2>1
<1>13. CASE LateFollow
  <2>1. UNCHANGED <<counters, barren>> /\ ((pc' = "top" /\ pending' # <<>>) \/ pc' = "idle")
    BY <1>13, Followed DEF LateFollow
  <2> QED
    BY <1>7, <2>1
<1>14. ASSUME NEW keep \in BOOLEAN, PollAside(keep) \/ LateAside(keep) PROVE SpinInv'
  <2>1. UNCHANGED <<counters, barren>> /\ ((pc = "pollAside" /\ pc' = "top") \/ pc' = "lateFollow")
    BY <1>14 DEF PollAside, LateAside
  <2> QED
    BY <1>2, <1>7, <2>1 DEF SpinInv
<1>15. ASSUME NEW stop \in Stops, NEW n \in 0..2, NEW pause \in BOOLEAN, Responds(stop, n, pause)
       PROVE  SpinInv'
  <2>1. AfterResponse(stop, n, pause) /\ leaks' = 0 /\ pc = "call" /\ pc' \in {"tools", "turnEnd"}
        /\ (pc' = "tools" => n > 0)
    BY <1>15 DEF Responds, Called, AfterResponse
  <2>2. CASE n > 0
    <3>1. barren' = 0 /\ paused' = 0
      BY <2>1, <2>2 DEF AfterResponse
    <3> QED
      BY <1>6, <2>1, <3>1 DEF SpinInv, Paid
  <2>3. CASE ~(n > 0)
    <3>1. /\ barren' = barren + 1 /\ pc' = "turnEnd"
          /\ paused' = paused + 1 \/ (paused' = paused /\ ~more')
      BY <2>1, <2>3 DEF AfterResponse
    <3>2. barren <= paused * c + leaks
      BY <1>2, <2>1
    <3>3. CASE paused' = paused + 1
      <4>1. barren' <= (paused + 1) * c
        BY <1>1, <1>5, <3>1, <3>2
      <4>2. barren' <= (paused + 1 + 1) * c
        BY <1>1, <1>5, <3>1, <4>1
      <4>3. paused' * c + leaks' = (paused + 1) * c /\ (paused' + 1) * c = (paused + 1 + 1) * c
        BY <1>1, <1>5, <2>1, <3>3
      <4> QED
        BY <1>4, <3>1, <4>1, <4>2, <4>3 DEF SpinInv, Paid
    <3>4. CASE paused' = paused /\ ~more'
      <4>1. barren' <= (paused' + 1) * c
        BY <1>1, <1>5, <3>1, <3>2, <3>4
      <4> QED
        BY <3>1, <3>4, <4>1 DEF SpinInv, Paid
    <3> QED
      BY <3>1, <3>3, <3>4
  <2> QED
    BY <2>2, <2>3
<1>16. ASSUME NEW n \in 0..1, NEW shown \in BOOLEAN, LeakRetries(n, shown) PROVE SpinInv'
  <2>1. pc = "call" /\ leaks' = leaks + 1 /\ barren' = barren + 1 /\ paused' = paused
        /\ pc' \in {"top", "beforeYield"} /\ leaks < MaxLeaks
    BY <1>16 DEF LeakRetries, Called, WhileTest
  <2>2. barren <= paused * c + leaks
    BY <1>2, <2>1
  <2>3. barren' <= paused' * c + leaks' /\ barren' <= (paused' + 1) * c
    BY <1>1, <1>5, <2>1, <2>2
  <2> QED
    BY <2>1, <2>3 DEF SpinInv, Paid
<1>17. ASSUME NEW shown \in BOOLEAN, LeakResumes(shown) PROVE SpinInv'
  <2>1. barren' = 0 /\ paused' = 0 /\ leaks' = leaks /\ pc' = "tools"
    BY <1>17 DEF LeakResumes, AfterResponse
  <2>2. barren' <= paused' * c + leaks' /\ barren' <= (paused' + 1) * c
    BY <1>1, <1>5, <2>1
  <2> QED
    BY <2>1, <2>2 DEF SpinInv, Paid
<1>18. CASE \/ \E k \in {"steer", "follow", "aside"} : Arrive(k)
            \/ TakeBack \/ ClearAllQueues \/ Abort \/ UNCHANGED vars
  <2>1. UNCHANGED <<pc, more, pending, counters, barren>>
    BY <1>18 DEF Arrive, TakeBack, ClearAllQueues, Abort, vars
  <2> QED
    BY <1>2, <1>7, <2>1
<1> QED
  BY <1>8, <1>9, <1>10, <1>11, <1>12, <1>13, <1>14, <1>15, <1>16, <1>17, <1>18
     DEF Next, Loop, Rest, Stops, SpinInv, Paid

-----------------------------------------------------------------------------
(* The theorems.                                                           *)

\* Sequences in order, the first below the second, one behind the other.
LEMMA JoinAsc ==
    ASSUME NEW s \in Seq(Entry), NEW t \in Seq(Entry), Asc(s), Asc(t), Below(ToSet(s), ToSet(t))
    PROVE  s \o t \in Seq(Entry) /\ ToSet(s \o t) = ToSet(s) \cup ToSet(t) /\ Asc(s \o t)
BY Elements, AscConcat, ConcatProperties

\* What the flow says of the line: in order, and with those taken back all.
LEMMA InTheLine ==
    ASSUME Typed, InHand, FlowInv
    PROVE  /\ Line \in Seq(Entry) /\ Asc(Line)
           /\ InLine \cup taken = Handed /\ InLine \cap taken = {}
<1> DEFINE M == ToSet(mirror)
           H == ToSet(Held)
           S == ToSet(steerQ)
           F == ToSet(followQ)
           A == ToSet(asideQ)
           mh == mirror \o Held
           ms == mh \o steerQ
           mf == ms \o followQ
<1>1. /\ {mirror, Held, steerQ, followQ, asideQ} \subseteq Seq(Entry)
      /\ S \subseteq Of("steer") /\ F \subseteq Of("follow") /\ A \subseteq Of("aside")
      /\ H \subseteq Message /\ S \subseteq Message /\ F \subseteq Message /\ A \subseteq Message
  <2>1. {"steer", "follow", "aside"} \subseteq Kinds
    BY DEF Kinds
  <2>2. /\ mirror \in Seq(Entry) /\ Held \in Seq(Message) /\ steerQ \in Seq(Of("steer"))
        /\ followQ \in Seq(Of("follow")) /\ asideQ \in Seq(Of("aside"))
    BY TypedParts, HeldIs
  <2>3. S \subseteq Of("steer") /\ F \subseteq Of("follow") /\ A \subseteq Of("aside") /\ H \subseteq Message
    BY <2>2, Elements
  <2> QED
    BY <2>1, <2>2, <2>3, Wider
<1>2. /\ Asc(mirror) /\ Asc(Held) /\ Asc(steerQ) /\ Asc(followQ) /\ Asc(asideQ)
      /\ Below(M, H \cup (S \cup F \cup A)) /\ Below(H, S \cup F \cup A)
      /\ UserIn(M) \cup H \cup (S \cup F \cup A) \cup taken = Upto(sent)
      /\ (UserIn(M) \cup H \cup (S \cup F \cup A)) \cap taken = {}
  BY DEF FlowInv, Flow
<1> HIDE DEF M, H, S, F, A
<1>3. Below(S, F) /\ Below(S, A) /\ Below(F, A)
  BY <1>1 DEF Below, Precedes, Of
<1>4. /\ Below(M, H) /\ Below(M \cup H, S) /\ Below(M \cup H \cup S, F) /\ Below(M \cup H \cup S \cup F, A)
  BY <1>2, <1>3 DEF Below
<1>5. mh \in Seq(Entry) /\ ToSet(mh) = M \cup H /\ Asc(mh)
  BY <1>1, <1>2, <1>4, JoinAsc DEF M, H
<1> HIDE DEF mh
<1>6. ms \in Seq(Entry) /\ ToSet(ms) = M \cup H \cup S /\ Asc(ms)
  BY <1>1, <1>2, <1>4, <1>5, JoinAsc DEF S
<1> HIDE DEF ms
<1>7. mf \in Seq(Entry) /\ ToSet(mf) = M \cup H \cup S \cup F /\ Asc(mf)
  BY <1>1, <1>2, <1>4, <1>6, JoinAsc DEF F
<1> HIDE DEF mf
<1>8. mf \o asideQ \in Seq(Entry) /\ ToSet(mf \o asideQ) = M \cup H \cup S \cup F \cup A /\ Asc(mf \o asideQ)
  BY <1>1, <1>2, <1>4, <1>7, JoinAsc DEF A
<1>9. Line = mf \o asideQ
  BY DEF Line, mf, ms, mh
<1>10. InLine = UserIn(M) \cup H \cup (S \cup F \cup A)
  <2>1. InLine = UserIn(M \cup H \cup S \cup F \cup A)
    BY <1>8, <1>9 DEF InLine, UserIn
  <2>2. UserIn(M \cup H \cup S \cup F \cup A) = UserIn(M) \cup H \cup S \cup F \cup A
    BY <1>1 DEF UserIn, Message
  <2> QED
    BY <2>1, <2>2
<1>11. Handed = Upto(sent)
  BY DEF Handed, Upto
<1> QED
  BY <1>2, <1>8, <1>9, <1>10, <1>11

\* Messages that precede one another are different.
LEMMA AscOnce ==
    ASSUME NEW s \in Seq(Entry), Asc(s)
    PROVE  \A i, j \in DOMAIN s : s[i] = s[j] /\ s[i][1] \in Kinds => i = j
<1> SUFFICES ASSUME NEW i \in DOMAIN s, NEW j \in DOMAIN s, s[i] = s[j], s[i][1] \in Kinds, i # j
             PROVE  FALSE
  OBVIOUS
<1>1. DOMAIN s = 1..Len(s) /\ Len(s) \in Nat /\ s[i][2] \in Nat
  BY LenProperties, ElementOfSeq DEF Entry
<1>2. i < j \/ j < i
  BY <1>1
<1>3. s[i][2] < s[i][2]
  BY <1>2 DEF Asc, Precedes
<1> QED
  BY <1>1, <1>3

\* The invariant holds of the first state.
LEMMA InitInv == Init => IInv
<1> SUFFICES ASSUME Init PROVE IInv
  OBVIOUS
<1>1. Typed /\ MaxLeaks \in Nat
  BY InitTyped, LoopAssumption
<1>2. InHand /\ Held = <<>>
  BY DEF Init, InHand, Held
<1>3. FlowInv
  <2>1. ToSet(<<>>) = {} /\ Asc(<<>>) /\ UserIn({}) = {} /\ \A A : Below({}, A)
    BY Elements, Wider, AscShort, BelowSets DEF UserIn
  <2>2. Upto(sent) = {}
    BY DEF Init, Upto
  <2> QED
    BY <1>2, <2>1, <2>2 DEF FlowInv, Flow, Init
<1>4. PairInv
  BY PairedPlain, Wider DEF PairInv, Init
<1>5. SeenInv
  BY DEF SeenInv, NotStranded, Init, Kinds
<1>6. AnswerInv
  BY DEF AnswerInv, Init
<1>7. SpinInv
  <2>1. 0 <= (0 + 1) * (MaxLeaks + 1)
    BY <1>1
  <2> QED
    BY <2>1 DEF SpinInv, Init
<1> QED
  BY <1>1, <1>2, <1>3, <1>4, <1>5, <1>6, <1>7 DEF IInv

\* Every step keeps the invariant.
LEMMA StepInv == IInv /\ [Next]_vars => IInv'
<1> SUFFICES ASSUME IInv, [Next]_vars PROVE IInv'
  OBVIOUS
<1>1. Typed /\ InHand /\ FlowInv /\ PairInv /\ SeenInv /\ AnswerInv /\ SpinInv
  BY DEF IInv
<1>2. Typed'
  BY <1>1, TypedStep
<1>3. InHand' /\ FlowInv' /\ PairInv'
  BY <1>1, <1>2, InHandStep, FlowStep, PairStep
<1>4. SeenInv' /\ AnswerInv' /\ SpinInv'
  BY <1>1, SeenStep, AnswerStep, SpinStep
<1> QED
  BY <1>2, <1>3, <1>4 DEF IInv

(* The invariant the properties below rest on holds in every behaviour of    *)
(* the agent loop, whatever the bounds on messages, calls, pauses and leaks. *)
THEOREM Invariance == Spec => []IInv
<1>1. Init => IInv
  BY InitInv
<1>2. IInv /\ [Next]_vars => IInv'
  BY StepInv
<1> QED
  BY <1>1, <1>2, PTL DEF Spec

(* No message handed to the agent is lost, doubled, invented or reordered on *)
(* its way through queues, polls, runs and aborts into the transcript.       *)
THEOREM LoopInvCorrect == Spec => []LoopInv
<1>1. IInv => LoopInv
  <2> SUFFICES ASSUME IInv PROVE LoopInv
    OBVIOUS
  <2>1. Typed /\ InHand /\ FlowInv
    BY DEF IInv
  <2>2. Line \in Seq(Entry) /\ Asc(Line) /\ InLine \cup taken = Handed /\ InLine \cap taken = {}
    BY <2>1, InTheLine
  <2>3. \A i, j \in DOMAIN Line : Line[i] = Line[j] /\ Line[i][1] \in Kinds => i = j
    BY <2>2, AscOnce
  <2>4. Conserved
    BY <2>2, <2>3 DEF Conserved
  <2>5. InOrder
    <3>1. Asc(mirror) /\ DOMAIN mirror = 1..Len(mirror)
      BY <2>1, TypedParts, LenProperties DEF FlowInv, Flow
    <3> QED
      BY <3>1 DEF Asc, Precedes, InOrder
  <2> QED
    BY <2>1, <2>4, <2>5 DEF LoopInv, Typed
<1> QED
  BY <1>1, Invariance, PTL

(* Whenever no tools are running, every call in the context has its result   *)
(* right behind it, and there is no result without its call.                 *)
THEOREM PairedCorrect == Spec => []Paired
<1>1. IInv => Paired
  BY DEF IInv, PairInv, PairedSeq, Paired
<1> QED
  BY <1>1, Invariance, PTL

(* A run that stops on its own leaves in the queues only what arrived after  *)
(* its last poll of that queue.                                              *)
THEOREM NotStrandedCorrect == Spec => []NotStranded
<1>1. IInv => NotStranded
  BY DEF IInv, SeenInv
<1> QED
  BY <1>1, Invariance, PTL

(* A run that stops on its own stops behind an answer of the model.          *)
THEOREM AnsweredAtStopCorrect == Spec => []AnsweredAtStop
<1>1. IInv => AnsweredAtStop
  BY DEF IInv, AnswerInv, Answered, AnsweredAtStop
<1> QED
  BY <1>1, Invariance, PTL

(* Between two tool calls or messages the model is called at most once for   *)
(* each paused turn and once more, each time with its leak retries.          *)
THEOREM BarrenBoundCorrect == Spec => []BarrenBound
<1>1. IInv => BarrenBound
  <2> SUFFICES ASSUME IInv PROVE BarrenBound
    OBVIOUS
  <2>1. /\ paused \in 0..MaxPaused /\ MaxPaused \in Nat /\ MaxLeaks \in Nat /\ barren \in Nat
        /\ barren <= (paused + 1) * (MaxLeaks + 1)
    BY Bounded, TypedParts DEF IInv, CountsOK, SpinInv
  <2>2. \A d \in Nat, p \in Nat, c \in Nat : (p + d + 1) * c = (p + 1) * c + d * c /\ d * c \in Nat /\ (p + 1) * c \in Nat
    BY SMT
  <2>3. MaxPaused - paused \in Nat /\ paused \in Nat /\ MaxLeaks + 1 \in Nat
        /\ paused + (MaxPaused - paused) + 1 = MaxPaused + 1
    BY <2>1
  <2>4. (MaxPaused + 1) * (MaxLeaks + 1)
          = (paused + 1) * (MaxLeaks + 1) + (MaxPaused - paused) * (MaxLeaks + 1)
        /\ (MaxPaused - paused) * (MaxLeaks + 1) \in Nat /\ (paused + 1) * (MaxLeaks + 1) \in Nat
    BY <2>2, <2>3
  <2>5. (paused + 1) * (MaxLeaks + 1) <= (MaxPaused + 1) * (MaxLeaks + 1)
    BY <2>4
  <2> QED
    BY <2>1, <2>4, <2>5 DEF BarrenBound
<1> QED
  BY <1>1, Invariance, PTL

\* A queue is a prefix of itself and of the queue with one message more.
LEMMA PrefixQueue ==
    ASSUME NEW S, NEW s \in Seq(S)
    PROVE  IsPrefix(s, s) /\ \A e \in S : IsPrefix(s, Append(s, e))
<1>1. Len(s) \in Nat /\ SubSeq(s, 1, Len(s)) = s
  BY LenProperties, SubSeqFull
<1>2. IsPrefix(s, s)
  BY <1>1 DEF IsPrefix
<1>3. ASSUME NEW e \in S PROVE IsPrefix(s, Append(s, e))
  <2> DEFINE t == Append(s, e)
  <2>1. t \in Seq(S) /\ Len(t) = Len(s) + 1 /\ \A i \in 1..Len(s) : t[i] = s[i]
    BY AppendProperties
  <2> HIDE DEF t
  <2>2. SubSeq(t, 1, Len(s)) \in Seq(S) /\ Len(SubSeq(t, 1, Len(s))) = Len(s)
        /\ \A i \in 1..Len(s) : SubSeq(t, 1, Len(s))[i] = s[i]
    BY <1>1, <2>1, SubSeqProperties
  <2>3. SubSeq(t, 1, Len(s)) = s
    BY <2>2, SeqEqual
  <2> QED
    BY <1>1, <2>1, <2>3 DEF IsPrefix, t
<1> QED
  BY <1>2, <1>3

(* The loop takes nothing out of the queues of an aborted run: what the user *)
(* does not take back himself is left to the next run.                       *)
THEOREM AbortKeepsQueuesCorrect == Spec => AbortKeepsQueues
<1> DEFINE Keeps == aborted /\ pc # "idle" /\ taken' = taken
                      => IsPrefix(steerQ, steerQ') /\ IsPrefix(followQ, followQ')
<1>1. IInv /\ [Next]_vars => [Keeps]_vars
  <2> SUFFICES ASSUME IInv, Next, aborted, pc # "idle", taken' = taken
               PROVE  IsPrefix(steerQ, steerQ') /\ IsPrefix(followQ, followQ')
    OBVIOUS
  <2>1. Typed /\ InHand /\ FlowInv /\ steerQ \in Seq(Of("steer")) /\ followQ \in Seq(Of("follow"))
    BY TypedParts DEF IInv
  <2>2. ASSUME UNCHANGED <<steerQ, followQ>> PROVE IsPrefix(steerQ, steerQ') /\ IsPrefix(followQ, followQ')
    BY <2>1, <2>2, PrefixQueue
  <2>3. CASE InitialPoll \/ TurnEnd \/ BeforeYield
    <3>1. PollSteering /\ followQ' = followQ
      BY <2>3 DEF InitialPoll, TurnEnd, BeforeYield
    <3> QED
      BY <2>1, <2>2, <3>1, Polled
  <2>4. CASE LateFollow
    <3>1. followQ' = followQ /\ steerQ' = steerQ
      BY <2>1, <2>4, Followed DEF LateFollow
    <3> QED
      BY <2>2, <3>1
  <2>5. ASSUME NEW k \in {"steer", "follow", "aside"}, Arrive(k)
        PROVE  IsPrefix(steerQ, steerQ') /\ IsPrefix(followQ, followQ')
    <3>1. /\ <<k, sent'[k]>> \in Of(k)
          /\ steerQ' = (IF k = "steer" THEN Append(steerQ, <<k, sent'[k]>>) ELSE steerQ)
          /\ followQ' = (IF k = "follow" THEN Append(followQ, <<k, sent'[k]>>) ELSE followQ)
      BY <2>1, <2>5, Arrived
    <3> QED
      BY <2>1, <3>1, PrefixQueue
  <2>6. CASE TakeBack \/ ClearAllQueues
    <3>1. PICK u \in Seq(Of("steer")), v \in Seq(Of("follow")) :
            /\ steerQ' \in Seq(Of("steer")) /\ followQ' \in Seq(Of("follow"))
            /\ steerQ = steerQ' \o u /\ followQ = followQ' \o v
            /\ taken' = taken \cup ToSet(u) \cup ToSet(v)
            /\ steerQ' # steerQ => u # <<>>
            /\ followQ' # followQ => v # <<>>
      BY <2>1, <2>6, TakenBack
    <3>2. ToSet(u) \subseteq ToSet(steerQ) /\ ToSet(v) \subseteq ToSet(followQ)
      BY <3>1, Elements
    <3>3. (ToSet(steerQ) \cup ToSet(followQ)) \cap taken = {}
      BY <2>1 DEF FlowInv, Flow
    <3>4. ToSet(u) = {} /\ ToSet(v) = {}
      BY <3>1, <3>2, <3>3
    <3>5. u = <<>> /\ v = <<>>
      <4>1. /\ u # <<>> => Len(u) \in Nat \ {0}
            /\ v # <<>> => Len(v) \in Nat \ {0}
        BY EmptySeq, LenProperties
      <4>2. /\ u # <<>> => u[Len(u)] \in ToSet(u)
            /\ v # <<>> => v[Len(v)] \in ToSet(v)
        BY <4>1 DEF ToSet
      <4> QED
        BY <3>4, <4>2
    <3> QED
      BY <2>2, <3>1, <3>5
  <2>7. ASSUME UNCHANGED queues PROVE IsPrefix(steerQ, steerQ') /\ IsPrefix(followQ, followQ')
    BY <2>2, <2>7 DEF queues
  <2>8. CASE \/ Inject \/ Throws \/ RunTools \/ Abort \/ Rest
             \/ \E n \in 0..1 : Fails(n)
             \/ \E stop \in Stops, n \in 0..2, pause \in BOOLEAN : Responds(stop, n, pause)
             \/ \E n \in 0..1, shown \in BOOLEAN : LeakRetries(n, shown)
             \/ \E shown \in BOOLEAN : LeakResumes(shown) \/ LeakEscalates(shown)
    <3>1. UNCHANGED queues
      BY <2>8 DEF Inject, Throws, RunTools, Abort, Rest, Fails, Responds, LeakRetries, LeakResumes,
                  LeakEscalates, vars
    <3> QED
      BY <2>7, <3>1
  <2>9. CASE \E keep \in BOOLEAN : PollAside(keep) \/ LateAside(keep)
    <3>1. UNCHANGED <<steerQ, followQ>>
      BY <2>9 DEF PollAside, LateAside
    <3> QED
      BY <2>2, <3>1
  <2>10. ~Prompt /\ ~Continue
    BY DEF Prompt, Continue
  <2> QED
    BY <2>3, <2>4, <2>5, <2>6, <2>8, <2>9, <2>10 DEF Next, Loop, Stops
<1> QED
  BY <1>1, Invariance, PTL DEF Spec, AbortKeepsQueues
=============================================================================
