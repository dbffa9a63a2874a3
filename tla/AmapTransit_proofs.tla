------------------------- MODULE AmapTransit_proofs -------------------------
(***************************************************************************)
(* Proofs about AmapTransit, for any set of callers, any settings and any  *)
(* number of city candidates.                                              *)
(***************************************************************************)
EXTENDS AmapTransit, SequenceTheorems, TLAPS

\* What a call may have sent by the time it asks for its next window.
Spent(r) == (r.candidate - 1) * (RetryCount + 1) + r.retries

WithinBudget ==
    \A c \in Callers :
        call[c].requests <= Spent(call[c]) + (IF call[c].at = "sent" THEN 1 ELSE 0)

\* The end that is known is the real one, and a call that waits for the rest
\* of the interval is alone unless it was blind when it computed it.
WaitCoversRest ==
    /\ sinceAnswer = sinceEnd
    /\ \A c \in Callers : call[c].at = "delaying" /\ ~ call[c].blind
           => UnderWay = {} /\ call[c].left + sinceEnd >= MinInterval

AmapInv == TypeOK /\ OneWindowAtATime /\ WithinBudget /\ WaitCoversRest

\* The budget of a candidate that is not the last leaves room for the next
\* one; that of the last is all that a call may send.
LEMMA BudgetOfNext ==
    ASSUME NEW k \in 1 .. Candidates, NEW n \in 0 .. RetryCount
    PROVE  /\ (k - 1) * (RetryCount + 1) \in Nat
           /\ (k - 1) * (RetryCount + 1) + n + 1 <= k * (RetryCount + 1)
           /\ k * (RetryCount + 1) <= MaxRequests
           /\ MaxRequests \in Nat
<1>0. /\ k \in Nat /\ k >= 1 /\ k <= Candidates /\ n \in Nat /\ n <= RetryCount
      /\ RetryCount \in Nat /\ Candidates \in Nat
  BY AmapAssumption
<1> DEFINE w == RetryCount + 1
<1>1. w \in Nat
  BY <1>0
<1>2. (k - 1) * w = k * w - w
  BY <1>0, <1>1
<1>3. (k - 1) * w \in Nat /\ k * w \in Nat /\ Candidates * w \in Nat
  BY <1>0, <1>1
<1>4. k * w <= Candidates * w
  BY <1>0, <1>1
<1>5. n + 1 <= w
  BY <1>0
<1>6. (k - 1) * w + n + 1 <= k * w
  BY <1>0, <1>1, <1>2, <1>3, <1>5
<1> QED
  BY <1>3, <1>4, <1>6 DEF MaxRequests


\* A step of one call: its record, and the chain with it perhaps at its end.
LEMMA NextCandidateShape ==
    ASSUME TypeOK, NEW c \in Callers, NextCandidate(c)
    PROVE  \/ /\ call[c].candidate + 1 \in 1 .. Candidates
              /\ call' = [call EXCEPT ![c] = [call[c] EXCEPT !.at = "queued",
                              !.retries = 0, !.candidate = call[c].candidate + 1]]
              /\ queue' = Append(queue, c)
           \/ /\ call' = [call EXCEPT ![c] = Idle]
              /\ queue' = queue
<1> USE AmapAssumption DEF TypeOK, Call, NextCandidate
<1>1. CASE call[c].candidate < Candidates
  <2>1. call[c].candidate + 1 \in 1 .. Candidates
    BY <1>1
  <2> QED
    BY <1>1, <2>1
<1>2. CASE ~ (call[c].candidate < Candidates)
  BY <1>2
<1> QED
  BY <1>1, <1>2

LEMMA RecordsTyped ==
    /\ Idle \in Call
    /\ \A r \in Call : OneMore(r.requests) \in 0 .. MaxRequests + 1
<1>1. MaxRequests \in Nat
  <2>1. 1 \in 1 .. Candidates /\ 0 \in 0 .. RetryCount
    BY AmapAssumption
  <2> QED
    BY <2>1, BudgetOfNext
<1>2. Idle \in Call
  BY <1>1, AmapAssumption DEF Idle, Call, Places
<1>3. \A r \in Call : OneMore(r.requests) \in 0 .. MaxRequests + 1
  BY <1>1 DEF OneMore, Call
<1> QED
  BY <1>2, <1>3

\* Every action writes a record of the right type and keeps the chain a
\* sequence of callers.
LEMMA TypeStep ==
    ASSUME TypeOK, OneWindowAtATime, [Next]_vars
    PROVE  TypeOK'
<1> USE AmapAssumption
<1>0. ASSUME NEW c \in Callers, NEW r \in Call, call' = [call EXCEPT ![c] = r],
             \/ queue' = queue
             \/ queue' = Append(queue, c)
             \/ queue # <<>> /\ queue' = Tail(queue),
             sinceEnd' \in 0 .. MinInterval, sinceSend' \in 0 .. MinInterval,
             sinceAnswer' \in 0 .. MinInterval
      PROVE  TypeOK'
  <2>1. call' \in [Callers -> Call]
    BY <1>0 DEF TypeOK
  <2>2. queue' \in Seq(Callers)
    <3>1. queue \in Seq(Callers)
      BY DEF TypeOK
    <3>2. Append(queue, c) \in Seq(Callers)
      BY <3>1, AppendProperties
    <3>3. queue # <<>> => Tail(queue) \in Seq(Callers)
      BY <3>1, HeadTailProperties
    <3> QED
      BY <1>0, <3>1, <3>2, <3>3
  <2> QED
    BY <1>0, <2>1, <2>2 DEF TypeOK
<1>1. ASSUME NEW c \in Callers, Ask(c)
      PROVE  TypeOK'
  <2>1. [Idle EXCEPT !.at = "queued"] \in Call
    BY RecordsTyped DEF Idle, Call, Places
  <2> QED
    BY <1>0, <1>1, <2>1 DEF Ask, TypeOK
<1>2. ASSUME NEW c \in Callers, ComputeWait(c)
      PROVE  TypeOK'
  <2> DEFINE wait == IF sinceEnd < MinInterval THEN MinInterval - sinceEnd ELSE 0
             asked == [call[c] EXCEPT !.blind = UnderWay # {}]
             r1 == [asked EXCEPT !.at = "sent", !.requests = OneMore(@)]
             r2 == [asked EXCEPT !.at = "delaying", !.left = wait]
  <2>1. wait \in Nat
    BY DEF TypeOK
  <2>2. call[c] \in Call /\ OneMore(call[c].requests) \in 0 .. MaxRequests + 1
    BY RecordsTyped DEF TypeOK
  <2>3. asked \in Call /\ asked.requests = call[c].requests
    BY <2>2 DEF Call
  <2>4. r1 \in Call /\ r2 \in Call
    <3> HIDE DEF asked, wait
    <3> QED
      BY <2>1, <2>2, <2>3 DEF Call, Places
  <2>5. CASE call' = [call EXCEPT ![c] = r1] /\ Send(c)
    <3> HIDE DEF r1
    <3> QED
      BY <1>0, <1>2, <2>4, <2>5 DEF ComputeWait, Send, TypeOK
  <2>6. CASE call' = [call EXCEPT ![c] = r2] /\ UNCHANGED <<queue, sinceEnd, sinceSend, sinceAnswer>>
    <3> HIDE DEF r2
    <3> QED
      BY <1>0, <2>4, <2>6 DEF TypeOK
  <2> QED
    BY <1>2, <2>5, <2>6 DEF ComputeWait
<1>3. ASSUME NEW c \in Callers, WindowOpens(c)
      PROVE  TypeOK'
  <2>1. call[c] \in Call /\ OneMore(call[c].requests) \in 0 .. MaxRequests + 1
    BY RecordsTyped DEF TypeOK
  <2>2. [call[c] EXCEPT !.at = "sent", !.requests = OneMore(call[c].requests)] \in Call
    BY <2>1 DEF Call, Places
  <2>3. call' = [call EXCEPT ![c] = [call[c] EXCEPT !.at = "sent",
                                         !.requests = OneMore(call[c].requests)]]
    BY <1>3 DEF WindowOpens, TypeOK
  <2>4. queue # <<>> /\ queue' = Tail(queue)
    BY <1>3 DEF WindowOpens, Send, OneWindowAtATime, TypeOK
  <2> QED
    BY <1>0, <1>3, <2>2, <2>3, <2>4 DEF WindowOpens, Send, TypeOK
<1>4. ASSUME NEW c \in Callers, NEW answer \in Answers, Answer(c, answer)
      PROVE  TypeOK'
  <2>1. sinceEnd' \in 0 .. MinInterval /\ sinceSend' \in 0 .. MinInterval
        /\ sinceAnswer' \in 0 .. MinInterval
    BY <1>4 DEF Answer, TypeOK
  <2>2. call[c] \in Call /\ Idle \in Call
    BY RecordsTyped DEF TypeOK
  <2>3. CASE call' = [call EXCEPT ![c] = Idle] /\ queue' = queue
    BY <1>0, <2>1, <2>2, <2>3
  <2>4. CASE NextCandidate(c)
    <3> DEFINE r == [call[c] EXCEPT !.at = "queued", !.retries = 0,
                                    !.candidate = call[c].candidate + 1]
    <3>1. CASE call[c].candidate + 1 \in 1 .. Candidates
               /\ call' = [call EXCEPT ![c] = r] /\ queue' = Append(queue, c)
      <4>1. 0 \in 0 .. RetryCount
        OBVIOUS
      <4>2. r \in Call
        BY <2>2, <3>1, <4>1 DEF Call, Places
      <4> QED
        BY <1>0, <2>1, <3>1, <4>2
    <3>2. \/ call[c].candidate + 1 \in 1 .. Candidates
              /\ call' = [call EXCEPT ![c] = r] /\ queue' = Append(queue, c)
          \/ call' = [call EXCEPT ![c] = Idle] /\ queue' = queue
      BY <2>4, NextCandidateShape
    <3> HIDE DEF r
    <3> QED
      BY <2>3, <3>1, <3>2
  <2>5. CASE QpsExceeded(c) /\ call[c].retries < RetryCount
    <3> DEFINE r == [call[c] EXCEPT !.at = "backoff",
                        !.left = Backoff * (call[c].retries + 1),
                        !.retries = call[c].retries + 1]
    <3>0. call[c].retries \in 0 .. RetryCount
      BY <2>2 DEF Call
    <3>1. Backoff * (call[c].retries + 1) \in Nat
          /\ call[c].retries + 1 \in 0 .. RetryCount
      BY <3>0, <2>5
    <3>2. r \in Call
      BY <2>2, <3>1 DEF Call, Places
    <3>3. call' = [call EXCEPT ![c] = r] /\ queue' = queue
      BY <2>5 DEF QpsExceeded, TypeOK
    <3> QED
      BY <1>0, <2>1, <3>2, <3>3
  <2> QED
    BY <1>4, <2>3, <2>4, <2>5 DEF Answer, QpsExceeded, Answers
<1>5. ASSUME NEW c \in Callers, BackoffOver(c)
      PROVE  TypeOK'
  <2>1. [call[c] EXCEPT !.at = "queued"] \in Call
    BY DEF TypeOK, Call, Places
  <2>2. call' = [call EXCEPT ![c] = [call[c] EXCEPT !.at = "queued"]]
    BY <1>5 DEF BackoffOver, TypeOK
  <2> QED
    BY <1>0, <1>5, <2>1, <2>2 DEF BackoffOver, TypeOK
<1>6. ASSUME Tick
      PROVE  TypeOK'
  <2>1. ASSUME NEW c \in Callers
        PROVE  call'[c] \in Call
    <3>1. call[c] \in Call
      BY DEF TypeOK
    <3>2. CASE Asleep(c)
      <4>1. call[c].left - 1 \in Nat
        BY <3>1, <3>2 DEF Asleep, Call
      <4>2. call'[c] = [call[c] EXCEPT !.left = call[c].left - 1]
        BY <1>6, <3>2 DEF Tick
      <4> QED
        BY <3>1, <4>1, <4>2 DEF Call
    <3> QED
      BY <1>6, <3>1, <3>2 DEF Tick
  <2>2. \A t \in 0 .. MinInterval : UpTo(t) \in 0 .. MinInterval
    BY DEF UpTo
  <2>3. call' \in [Callers -> Call]
    BY <1>6, <2>1 DEF Tick
  <2> QED
    BY <1>6, <2>2, <2>3 DEF Tick, TypeOK
<1>7. CASE UNCHANGED vars
  BY <1>7 DEF vars, TypeOK
<1> QED
  BY <1>1, <1>2, <1>3, <1>4, <1>5, <1>6, <1>7 DEF Next, Step


Waits(r) == r.at \in {"queued", "delaying"}

\* What a step other than the clock's does to the chain: a call joins at the
\* end, the head starts its delay, the head leaves, or nothing changes.
Joins(c, r) == ~ Waits(call[c]) /\ r.at = "queued" /\ queue' = Append(queue, c)
Delays(c, r) == /\ queue # <<>> /\ c = Head(queue)
                /\ Waits(call[c]) /\ r.at = "delaying" /\ queue' = queue
Leaves(c, r) == /\ queue # <<>> /\ c = Head(queue)
                /\ Waits(call[c]) /\ ~ Waits(r) /\ queue' = Tail(queue)
Stays(c, r) == ~ Waits(call[c]) /\ ~ Waits(r) /\ queue' = queue

LEMMA ChainShape ==
    ASSUME TypeOK, OneWindowAtATime, NEW c \in Callers, Ask(c) \/ Step(c)
    PROVE  \E r : /\ call' = [call EXCEPT ![c] = r]
                  /\ Joins(c, r) \/ Delays(c, r) \/ Leaves(c, r) \/ Stays(c, r)
<1> DEFINE Shape(r) == Joins(c, r) \/ Delays(c, r) \/ Leaves(c, r) \/ Stays(c, r)
           Goal == \E r : call' = [call EXCEPT ![c] = r] /\ Shape(r)
<1>0. ASSUME NEW r, call' = [call EXCEPT ![c] = r], Shape(r)
      PROVE  Goal
  BY <1>0
<1> HIDE DEF Goal
<1> USE DEF Waits, Joins, Delays, Leaves, Stays
<1>1. call \in [Callers -> Call] /\ call[c] \in Call
  BY DEF TypeOK
<1>2. ASSUME Ask(c)
      PROVE  Goal
  <2>1. [Idle EXCEPT !.at = "queued"].at = "queued"
    BY DEF Idle
  <2> QED
    BY <1>0, <1>2, <2>1 DEF Ask
<1>3. ASSUME ComputeWait(c)
      PROVE  Goal
  <2> DEFINE wait == IF sinceEnd < MinInterval THEN MinInterval - sinceEnd ELSE 0
             asked == [call[c] EXCEPT !.blind = UnderWay # {}]
             r1 == [asked EXCEPT !.at = "sent", !.requests = OneMore(@)]
             r2 == [asked EXCEPT !.at = "delaying", !.left = wait]
  <2>1. r1.at = "sent" /\ r2.at = "delaying"
    BY <1>1 DEF Call
  <2>2. /\ queue # <<>> /\ c = Head(queue) /\ call[c].at = "queued"
        /\ \/ call' = [call EXCEPT ![c] = r1] /\ queue' = Tail(queue)
           \/ call' = [call EXCEPT ![c] = r2] /\ queue' = queue
    BY <1>3 DEF ComputeWait, Send
  <2> HIDE DEF r1, r2
  <2> QED
    BY <1>0, <2>1, <2>2
<1>4. ASSUME WindowOpens(c)
      PROVE  Goal
  <2> DEFINE r == [call[c] EXCEPT !.at = "sent", !.requests = OneMore(@)]
  <2>1. queue # <<>> /\ c = Head(queue)
    BY <1>4 DEF WindowOpens, OneWindowAtATime, TypeOK
  <2>2. call' = [call EXCEPT ![c] = r] /\ queue' = Tail(queue)
        /\ call[c].at = "delaying"
    BY <1>4 DEF WindowOpens, Send
  <2>3. r.at = "sent"
    BY <1>1 DEF Call
  <2> HIDE DEF r
  <2> QED
    BY <1>0, <2>1, <2>2, <2>3
<1>5. ASSUME NEW answer \in Answers, Answer(c, answer)
      PROVE  Goal
  <2>1. call[c].at = "sent"
    BY <1>5 DEF Answer
  <2>2. CASE call' = [call EXCEPT ![c] = Idle] /\ queue' = queue
    <3>1. Idle.at = "idle"
      BY DEF Idle
    <3> QED
      BY <1>0, <2>1, <2>2, <3>1
  <2>3. CASE NextCandidate(c)
    <3> DEFINE r == [call[c] EXCEPT !.at = "queued", !.retries = 0,
                                    !.candidate = call[c].candidate + 1]
    <3>1. \/ call' = [call EXCEPT ![c] = r] /\ queue' = Append(queue, c)
          \/ call' = [call EXCEPT ![c] = Idle] /\ queue' = queue
      BY <2>3, NextCandidateShape
    <3>2. r.at = "queued"
      BY <1>1 DEF Call
    <3> HIDE DEF r
    <3> QED
      BY <1>0, <2>1, <2>2, <3>1, <3>2
  <2>4. CASE QpsExceeded(c) /\ call[c].retries < RetryCount
    <3> DEFINE r == [call[c] EXCEPT !.at = "backoff",
                        !.left = Backoff * (call[c].retries + 1), !.retries = @ + 1]
    <3>1. call' = [call EXCEPT ![c] = r] /\ queue' = queue
      BY <2>4 DEF QpsExceeded
    <3>2. r.at = "backoff"
      BY <1>1 DEF Call
    <3> HIDE DEF r
    <3> QED
      BY <1>0, <2>1, <3>1, <3>2
  <2> QED
    BY <1>5, <2>2, <2>3, <2>4 DEF Answer, QpsExceeded, Answers
<1>6. ASSUME BackoffOver(c)
      PROVE  Goal
  <2> DEFINE r == [call[c] EXCEPT !.at = "queued"]
  <2>1. call' = [call EXCEPT ![c] = r] /\ queue' = Append(queue, c)
        /\ call[c].at = "backoff"
    BY <1>6 DEF BackoffOver
  <2>2. r.at = "queued"
    BY <1>1 DEF Call
  <2> HIDE DEF r
  <2> QED
    BY <1>0, <2>1, <2>2
<1>7. ASSUME Step(c)
      PROVE  Goal
  BY <1>3, <1>4, <1>5, <1>6, <1>7 DEF Step
<1>8. Goal
  BY <1>2, <1>7
<1> QED
  BY <1>8 DEF Goal

\* Whatever one of these four does to the chain, it still holds each waiting
\* call once and only its head is in the delay.
LEMMA ChainStep ==
    ASSUME TypeOK, OneWindowAtATime, [Next]_vars
    PROVE  OneWindowAtATime'
<1>0. queue \in Seq(Callers) /\ call \in [Callers -> Call]
  BY DEF TypeOK
<1>1. ASSUME NEW c \in Callers, NEW r, call' = [call EXCEPT ![c] = r],
             Joins(c, r) \/ Delays(c, r) \/ Leaves(c, r) \/ Stays(c, r)
      PROVE  OneWindowAtATime'
  <2>0. \A d \in Callers : call'[d] = IF d = c THEN r ELSE call[d]
    BY <1>0, <1>1
  <2>1. CASE Joins(c, r)
    <3>1. /\ Len(queue') = Len(queue) + 1
          /\ \A i \in 1 .. Len(queue) : queue'[i] = queue[i]
          /\ queue'[Len(queue) + 1] = c
          /\ Len(queue) \in Nat
      BY <1>0, <2>1, AppendProperties, LenProperties DEF Joins
    <3>2. queue # <<>> => Head(queue') = Head(queue)
      BY <1>0, <2>1, <3>1 DEF Joins
    <3>3. \A i \in 1 .. Len(queue) : queue[i] # c
      BY <2>1 DEF OneWindowAtATime, Joins, Waits
    <3>4. \A d \in Callers : call[d].at = "delaying" => queue # <<>>
      BY <1>0 DEF OneWindowAtATime
    <3> QED
      BY <2>0, <2>1, <3>1, <3>2, <3>3, <3>4 DEF OneWindowAtATime, Joins, Waits
  <2>2. CASE Delays(c, r)
    BY <2>0, <2>2 DEF OneWindowAtATime, Delays, Waits
  <2>3. CASE Leaves(c, r)
    <3>1. /\ Len(queue') = Len(queue) - 1
          /\ \A i \in 1 .. Len(queue') : queue'[i] = queue[i + 1]
          /\ queue[1] = c
          /\ Len(queue) \in Nat /\ Len(queue) >= 1
      BY <1>0, <2>3, HeadTailProperties, LenProperties DEF Leaves
    <3>2. \A i \in 1 .. Len(queue') : queue'[i] # c
      BY <3>1 DEF OneWindowAtATime
    <3>3. \A d \in Callers : d # c =>
            ((\E i \in 1 .. Len(queue) : queue[i] = d)
               <=> (\E i \in 1 .. Len(queue') : queue'[i] = d))
      <4> TAKE d \in Callers
      <4>1. ASSUME d # c, NEW i \in 1 .. Len(queue), queue[i] = d
            PROVE  \E j \in 1 .. Len(queue') : queue'[j] = d
        <5>1. i # 1 /\ i - 1 \in 1 .. Len(queue') /\ queue'[i - 1] = queue[i]
          BY <3>1, <4>1
        <5> QED
          BY <4>1, <5>1
      <4>2. ASSUME NEW j \in 1 .. Len(queue'), queue'[j] = d
            PROVE  \E i \in 1 .. Len(queue) : queue[i] = d
        BY <3>1, <4>2
      <4> QED
        BY <4>1, <4>2
    <3>4. \A d \in Callers : d # c => call[d].at # "delaying"
      BY <2>3 DEF OneWindowAtATime, Leaves
    <3>5. \A i, j \in 1 .. Len(queue') : queue'[i] = queue'[j] => i = j
      BY <3>1 DEF OneWindowAtATime
    <3> QED
      BY <2>0, <2>3, <3>2, <3>3, <3>4, <3>5 DEF OneWindowAtATime, Leaves, Waits
  <2>4. CASE Stays(c, r)
    BY <2>0, <2>4 DEF OneWindowAtATime, Stays, Waits
  <2> QED
    BY <1>1, <2>1, <2>2, <2>3, <2>4
<1>2. CASE \E c \in Callers : Ask(c) \/ Step(c)
  BY <1>1, <1>2, ChainShape
<1>3. CASE Tick
  <2>1. \A d \in Callers : call'[d].at = call[d].at
    BY <1>0, <1>3 DEF Tick, Call
  <2> QED
    BY <1>3, <2>1 DEF OneWindowAtATime, Tick
<1>4. CASE UNCHANGED vars
  BY <1>4 DEF vars, OneWindowAtATime
<1> QED
  BY <1>2, <1>3, <1>4 DEF Next


\* A call's requests stay within what its candidates and retries allow.
LEMMA BudgetStep ==
    ASSUME TypeOK, OneWindowAtATime, WithinBudget, [Next]_vars
    PROVE  WithinBudget'
<1> DEFINE Fits(r) ==
             r.requests <= Spent(r) + (IF r.at = "sent" THEN 1 ELSE 0)
<1>0. /\ call \in [Callers -> Call]
      /\ \A c \in Callers : Fits(call[c])
  BY DEF TypeOK, WithinBudget
<1>1. ASSUME NEW c \in Callers, NEW r, call' = [call EXCEPT ![c] = r], Fits(r)
      PROVE  WithinBudget'
  BY <1>0, <1>1 DEF WithinBudget
<1>2. \A k \in 1 .. Candidates, n \in 0 .. RetryCount :
          /\ (k - 1) * (RetryCount + 1) \in Nat
          /\ (k - 1) * (RetryCount + 1) + n + 1 <= k * (RetryCount + 1)
  BY BudgetOfNext
<1>3. \A r \in Call : Spent(r) \in Nat /\ OneMore(r.requests) <= r.requests + 1
  BY <1>2 DEF Spent, Call, OneMore
<1>4. Fits(Idle)
  <2>1. (1 - 1) * (RetryCount + 1) + 0 = 0
    BY AmapAssumption
  <2> QED
    BY <2>1 DEF Idle, Spent
<1>5. ASSUME NEW c \in Callers, Ask(c)
      PROVE  WithinBudget'
  <2> DEFINE r == [Idle EXCEPT !.at = "queued"]
  <2>1. Fits(r)
    BY <1>4 DEF Idle, Spent
  <2>2. call' = [call EXCEPT ![c] = r]
    BY <1>5 DEF Ask
  <2> HIDE DEF r, Fits
  <2> QED
    BY <1>1, <2>1, <2>2
<1>6. ASSUME NEW c \in Callers, ComputeWait(c)
      PROVE  WithinBudget'
  <2> DEFINE wait == IF sinceEnd < MinInterval THEN MinInterval - sinceEnd ELSE 0
             asked == [call[c] EXCEPT !.blind = UnderWay # {}]
             r1 == [asked EXCEPT !.at = "sent", !.requests = OneMore(@)]
             r2 == [asked EXCEPT !.at = "delaying", !.left = wait]
  <2>1. /\ call[c].at = "queued"
        /\ call' = [call EXCEPT ![c] = r1] \/ call' = [call EXCEPT ![c] = r2]
    BY <1>6 DEF ComputeWait
  <2>2. call[c] \in Call /\ call[c].requests <= Spent(call[c])
    BY <1>0, <1>3, <2>1
  <2>3. /\ r1.requests = OneMore(call[c].requests) /\ r1.at = "sent"
        /\ r1.candidate = call[c].candidate /\ r1.retries = call[c].retries
        /\ r2.requests = call[c].requests /\ r2.at = "delaying"
        /\ r2.candidate = call[c].candidate /\ r2.retries = call[c].retries
    BY <2>2 DEF Call
  <2> HIDE DEF r1, r2
  <2>4. Spent(r1) = Spent(call[c]) /\ Spent(r2) = Spent(call[c])
    BY <2>3 DEF Spent
  <2>5. Fits(r1) /\ Fits(r2)
    <3>1. /\ Spent(call[c]) \in Nat /\ call[c].requests \in Nat
          /\ OneMore(call[c].requests) <= call[c].requests + 1
          /\ OneMore(call[c].requests) \in Nat
      BY <1>3, <2>2, RecordsTyped DEF Call
    <3> QED
      BY <2>2, <2>3, <2>4, <3>1
  <2> HIDE DEF Fits
  <2> QED
    BY <1>1, <2>1, <2>5
<1>7. ASSUME NEW c \in Callers, WindowOpens(c)
      PROVE  WithinBudget'
  <2> DEFINE r == [call[c] EXCEPT !.at = "sent", !.requests = OneMore(@)]
  <2>1. call[c].at = "delaying" /\ call' = [call EXCEPT ![c] = r]
    BY <1>7 DEF WindowOpens
  <2>2. call[c] \in Call /\ call[c].requests <= Spent(call[c])
    BY <1>0, <1>3, <2>1
  <2>3. /\ r.requests = OneMore(call[c].requests) /\ r.at = "sent"
        /\ r.candidate = call[c].candidate /\ r.retries = call[c].retries
    BY <2>2 DEF Call
  <2> HIDE DEF r
  <2>4. Spent(r) = Spent(call[c])
    BY <2>3 DEF Spent
  <2>5. Fits(r)
    <3>1. /\ Spent(call[c]) \in Nat /\ call[c].requests \in Nat
          /\ OneMore(call[c].requests) <= call[c].requests + 1
          /\ OneMore(call[c].requests) \in Nat
      BY <1>3, <2>2, RecordsTyped DEF Call
    <3> QED
      BY <2>2, <2>3, <2>4, <3>1
  <2> HIDE DEF Fits
  <2> QED
    BY <1>1, <2>1, <2>5
<1>8. ASSUME NEW c \in Callers, NEW answer \in Answers, Answer(c, answer)
      PROVE  WithinBudget'
  <2>1. call[c].at = "sent"
    BY <1>8 DEF Answer
  <2>2. call[c] \in Call /\ call[c].requests <= Spent(call[c]) + 1
    BY <1>0, <2>1
  <2>3. CASE call' = [call EXCEPT ![c] = Idle]
    BY <1>1, <1>4, <2>3
  <2>4. CASE NextCandidate(c)
    <3> DEFINE r == [call[c] EXCEPT !.at = "queued", !.retries = 0,
                                    !.candidate = call[c].candidate + 1]
    <3>1. CASE call' = [call EXCEPT ![c] = r]
      <4>1. /\ r.requests = call[c].requests /\ r.at = "queued"
            /\ r.candidate = call[c].candidate + 1 /\ r.retries = 0
        BY <2>2 DEF Call
      <4>2. /\ call[c].candidate \in 1 .. Candidates
            /\ call[c].retries \in 0 .. RetryCount
            /\ call[c].requests \in Nat
        BY <2>2, RecordsTyped DEF Call
      <4> DEFINE k == call[c].candidate
                 w == RetryCount + 1
      <4>3. (k - 1) * w + call[c].retries + 1 <= k * w /\ (k - 1) * w \in Nat
        BY <1>2, <4>2
      <4> HIDE DEF r
      <4>4. Spent(r) = k * w
        <5>1. k + 1 - 1 = k /\ k * w \in Nat /\ k * w + 0 = k * w
          BY <4>2, AmapAssumption
        <5>2. Spent(r) = (r.candidate - 1) * w + r.retries
          BY DEF Spent
        <5>3. r.candidate - 1 = k /\ r.retries = 0
          <6>1. r.candidate = k + 1 /\ k \in Nat
            BY <4>1, <4>2
          <6> HIDE DEF k
          <6> QED
            BY <4>1, <6>1
        <5> HIDE DEF k, w
        <5> QED
          BY <5>1, <5>2, <5>3
      <4>5. k * w \in Nat /\ (k - 1) * w \in Nat
        BY <4>2, <4>3, AmapAssumption
      <4>6. call[c].requests <= (k - 1) * w + call[c].retries + 1
        BY <2>2 DEF Spent
      <4>7. Fits(r)
        <5> HIDE DEF w
        <5> QED
          BY <4>1, <4>2, <4>3, <4>4, <4>5, <4>6
      <4> HIDE DEF Fits
      <4> QED
        BY <1>1, <3>1, <4>7
    <3>2. \/ call' = [call EXCEPT ![c] = r]
          \/ call' = [call EXCEPT ![c] = Idle]
      BY <2>4, NextCandidateShape
    <3> HIDE DEF r, Fits
    <3> QED
      BY <2>3, <3>1, <3>2
  <2>5. CASE QpsExceeded(c) /\ call[c].retries < RetryCount
    <3> DEFINE r == [call[c] EXCEPT !.at = "backoff",
                        !.left = Backoff * (call[c].retries + 1), !.retries = @ + 1]
    <3>1. call' = [call EXCEPT ![c] = r]
      BY <2>5 DEF QpsExceeded
    <3>2. /\ r.at = "backoff" /\ r.requests = call[c].requests
          /\ r.candidate = call[c].candidate /\ r.retries = call[c].retries + 1
      BY <2>2 DEF Call
    <3> HIDE DEF r
    <3>3. Fits(r)
      <4> DEFINE base == (call[c].candidate - 1) * (RetryCount + 1)
      <4>1. base \in Nat /\ call[c].retries \in Nat /\ call[c].requests \in Nat
        BY <1>2, <2>2, RecordsTyped DEF Call
      <4>2. Spent(r) = base + (call[c].retries + 1)
            /\ Spent(call[c]) = base + call[c].retries
        BY <3>2 DEF Spent
      <4> HIDE DEF base
      <4> QED
        BY <2>2, <3>2, <4>1, <4>2
    <3> HIDE DEF Fits
    <3> QED
      BY <1>1, <3>1, <3>3
  <2> HIDE DEF Fits
  <2> QED
    BY <1>8, <2>3, <2>4, <2>5 DEF Answer, QpsExceeded, Answers
<1>9. ASSUME NEW c \in Callers, BackoffOver(c)
      PROVE  WithinBudget'
  <2> DEFINE r == [call[c] EXCEPT !.at = "queued"]
  <2>1. call[c].at = "backoff" /\ call' = [call EXCEPT ![c] = r]
    BY <1>9 DEF BackoffOver
  <2>2. call[c] \in Call /\ call[c].requests <= Spent(call[c])
    BY <1>0, <1>3, <2>1
  <2>3. /\ r.at = "queued" /\ r.requests = call[c].requests
        /\ r.candidate = call[c].candidate /\ r.retries = call[c].retries
    BY <2>2 DEF Call
  <2> HIDE DEF r
  <2>4. Spent(r) = Spent(call[c]) /\ Spent(r) \in Nat
    BY <1>3, <2>2, <2>3 DEF Spent
  <2>5. Fits(r)
    BY <2>2, <2>3, <2>4
  <2> HIDE DEF Fits
  <2> QED
    BY <1>1, <2>1, <2>5
<1>10. CASE Tick
  <2>1. \A c \in Callers : /\ call'[c].at = call[c].at
                           /\ call'[c].requests = call[c].requests
                           /\ call'[c].candidate = call[c].candidate
                           /\ call'[c].retries = call[c].retries
    BY <1>0, <1>10 DEF Tick, Call
  <2> QED
    BY <2>1 DEF WithinBudget, Spent
<1>11. CASE UNCHANGED vars
  BY <1>11 DEF vars, WithinBudget
<1> QED
  BY <1>5, <1>6, <1>7, <1>8, <1>9, <1>10, <1>11 DEF Next, Step


\* Nobody else sends while the head of the chain delays, unless a request was
\* under way when it computed its wait.
LEMMA WaitStep ==
    ASSUME TypeOK, OneWindowAtATime, WaitCoversRest, [Next]_vars
    PROVE  WaitCoversRest'
<1> DEFINE Covered(c) == call[c].at = "delaying" /\ ~ call[c].blind
              => UnderWay = {} /\ call[c].left + sinceEnd >= MinInterval
<1>0. /\ call \in [Callers -> Call]
      /\ sinceEnd \in 0 .. MinInterval /\ MinInterval \in Nat
      /\ sinceAnswer = sinceEnd
      /\ \A c \in Callers : Covered(c)
  BY AmapAssumption DEF TypeOK, WaitCoversRest
<1>1. ASSUME NEW c \in Callers, NEW r, call' = [call EXCEPT ![c] = r],
             r.at # "delaying", r.at # "sent", call[c].at # "sent",
             UNCHANGED <<sinceEnd, sinceAnswer>>
      PROVE  WaitCoversRest'
  <2>1. UnderWay' = UnderWay
    BY <1>0, <1>1 DEF UnderWay
  <2> QED
    BY <1>0, <1>1, <2>1 DEF WaitCoversRest
<1>2. ASSUME NEW c \in Callers, NEW r, call' = [call EXCEPT ![c] = r],
             r.at = "sent", queue # <<>>, c = Head(queue),
             UNCHANGED <<sinceEnd, sinceAnswer>>
      PROVE  WaitCoversRest'
  <2>1. \A d \in Callers : call'[d].at # "delaying"
    BY <1>0, <1>2 DEF OneWindowAtATime
  <2> QED
    BY <1>0, <1>2, <2>1 DEF WaitCoversRest
<1>3. ASSUME NEW c \in Callers, Ask(c)
      PROVE  WaitCoversRest'
  <2> DEFINE r == [Idle EXCEPT !.at = "queued"]
  <2>1. r.at = "queued" /\ call' = [call EXCEPT ![c] = r] /\ call[c].at = "idle"
        /\ UNCHANGED <<sinceEnd, sinceAnswer>>
    BY <1>3 DEF Ask, Idle
  <2> HIDE DEF r
  <2> QED
    BY <1>1, <2>1
<1>4. ASSUME NEW c \in Callers, ComputeWait(c)
      PROVE  WaitCoversRest'
  <2> DEFINE wait == IF sinceEnd < MinInterval THEN MinInterval - sinceEnd ELSE 0
             asked == [call[c] EXCEPT !.blind = UnderWay # {}]
             r1 == [asked EXCEPT !.at = "sent", !.requests = OneMore(@)]
             r2 == [asked EXCEPT !.at = "delaying", !.left = wait]
  <2>1. /\ call[c].at = "queued" /\ queue # <<>> /\ c = Head(queue)
        /\ UNCHANGED <<sinceEnd, sinceAnswer>>
        /\ call' = [call EXCEPT ![c] = r1] \/ call' = [call EXCEPT ![c] = r2]
    BY <1>4 DEF ComputeWait, Send
  <2>2. call[c] \in Call
    BY <1>0
  <2>3. /\ r1.at = "sent"
        /\ r2.at = "delaying" /\ r2.left = wait /\ r2.blind = (UnderWay # {})
    BY <2>2 DEF Call
  <2>4. wait \in Nat /\ wait + sinceEnd >= MinInterval
    BY <1>0
  <2> HIDE DEF r1, r2, wait
  <2>5. CASE call' = [call EXCEPT ![c] = r1]
    BY <1>2, <2>1, <2>3, <2>5
  <2>6. CASE call' = [call EXCEPT ![c] = r2]
    <3>1. UnderWay' = UnderWay
      BY <1>0, <2>1, <2>3, <2>6 DEF UnderWay
    <3>2. \A d \in Callers : d # c => call[d].at # "delaying"
      BY <2>1 DEF OneWindowAtATime
    <3>3. r2.blind <=> UnderWay # {}
      BY <2>3
    <3>4. \A d \in Callers : call'[d] = IF d = c THEN r2 ELSE call[d]
      BY <1>0, <2>6
    <3>5. sinceEnd' = sinceEnd /\ sinceAnswer' = sinceEnd
      BY <1>0, <2>1
    <3> QED
      BY <2>3, <2>4, <3>1, <3>2, <3>3, <3>4, <3>5 DEF WaitCoversRest
  <2> QED
    BY <2>1, <2>5, <2>6
<1>5. ASSUME NEW c \in Callers, WindowOpens(c)
      PROVE  WaitCoversRest'
  <2> DEFINE r == [call[c] EXCEPT !.at = "sent", !.requests = OneMore(@)]
  <2>1. /\ call[c].at = "delaying" /\ call' = [call EXCEPT ![c] = r]
        /\ UNCHANGED <<sinceEnd, sinceAnswer>>
    BY <1>5 DEF WindowOpens, Send
  <2>2. queue # <<>> /\ c = Head(queue)
    BY <2>1 DEF OneWindowAtATime, TypeOK
  <2>3. r.at = "sent"
    BY <1>0 DEF Call
  <2> HIDE DEF r
  <2> QED
    BY <1>2, <2>1, <2>2, <2>3
<1>6. ASSUME NEW c \in Callers, NEW answer \in Answers, Answer(c, answer)
      PROVE  WaitCoversRest'
  <2>1. c \in UnderWay /\ sinceEnd' = 0 /\ sinceAnswer' = 0
    BY <1>6 DEF Answer, UnderWay
  <2>2. \A d \in Callers : call[d].at = "delaying" => call[d].blind
    BY <1>0, <2>1
  <2>3. \A r : call' = [call EXCEPT ![c] = r] /\ r.at # "delaying"
                 => WaitCoversRest'
    BY <1>0, <2>1, <2>2 DEF WaitCoversRest
  <2>4. CASE call' = [call EXCEPT ![c] = Idle]
    <3>1. Idle.at = "idle"
      BY DEF Idle
    <3> QED
      BY <2>3, <2>4, <3>1
  <2>5. CASE NextCandidate(c)
    <3> DEFINE r == [call[c] EXCEPT !.at = "queued", !.retries = 0,
                                    !.candidate = call[c].candidate + 1]
    <3>1. \/ call' = [call EXCEPT ![c] = r]
          \/ call' = [call EXCEPT ![c] = Idle]
      BY <2>5, NextCandidateShape
    <3>2. r.at = "queued"
      BY <1>0 DEF Call
    <3> HIDE DEF r
    <3> QED
      BY <2>3, <2>4, <3>1, <3>2
  <2>6. CASE QpsExceeded(c) /\ call[c].retries < RetryCount
    <3> DEFINE r == [call[c] EXCEPT !.at = "backoff",
                        !.left = Backoff * (call[c].retries + 1), !.retries = @ + 1]
    <3>1. call' = [call EXCEPT ![c] = r]
      BY <2>6 DEF QpsExceeded
    <3>2. r.at = "backoff"
      BY <1>0 DEF Call
    <3> HIDE DEF r
    <3> QED
      BY <2>3, <3>1, <3>2
  <2> QED
    BY <1>6, <2>4, <2>5, <2>6 DEF Answer, QpsExceeded, Answers
<1>7. ASSUME NEW c \in Callers, BackoffOver(c)
      PROVE  WaitCoversRest'
  <2> DEFINE r == [call[c] EXCEPT !.at = "queued"]
  <2>1. call' = [call EXCEPT ![c] = r] /\ call[c].at = "backoff"
        /\ UNCHANGED <<sinceEnd, sinceAnswer>>
    BY <1>7 DEF BackoffOver
  <2>2. r.at = "queued"
    BY <1>0 DEF Call
  <2> HIDE DEF r
  <2> QED
    BY <1>1, <2>1, <2>2
<1>8. CASE Tick
  <2>1. UnderWay' = UnderWay
        /\ \A c \in Callers : call'[c].at = call[c].at /\ call'[c].blind = call[c].blind
    BY <1>0, <1>8 DEF Tick, Call, UnderWay
  <2>2. sinceEnd' = UpTo(sinceEnd) /\ sinceAnswer' = sinceEnd'
    BY <1>0, <1>8 DEF Tick
  <2>3. ASSUME NEW c \in Callers, call[c].at = "delaying",
               call[c].left + sinceEnd >= MinInterval
        PROVE  call'[c].left + sinceEnd' >= MinInterval
    <3>1. call[c].left \in Nat
      BY <1>0 DEF Call
    <3>2. call'[c].left = IF call[c].left > 0 THEN call[c].left - 1 ELSE call[c].left
      BY <1>0, <1>8, <2>3, <3>1 DEF Tick, Asleep, Call
    <3> QED
      BY <1>0, <2>2, <2>3, <3>1, <3>2 DEF UpTo
  <2> QED
    BY <1>0, <2>1, <2>2, <2>3 DEF WaitCoversRest
<1>9. CASE UNCHANGED vars
  BY <1>9 DEF vars, WaitCoversRest, UnderWay
<1> QED
  BY <1>3, <1>4, <1>5, <1>6, <1>7, <1>8, <1>9 DEF Next, Step

\* The inductive invariant holds in every state.
LEMMA AmapInductive == Spec => []AmapInv
<1>1. Init => AmapInv
  <2> SUFFICES ASSUME Init PROVE AmapInv
    OBVIOUS
  <2>1. TypeOK
    BY RecordsTyped, AmapAssumption DEF Init, TypeOK
  <2>2. OneWindowAtATime
    BY DEF Init, OneWindowAtATime, Idle
  <2>3. WithinBudget
    <3>1. (1 - 1) * (RetryCount + 1) + 0 = 0
      BY AmapAssumption
    <3> QED
      BY <3>1 DEF Init, WithinBudget, Idle, Spent
  <2>4. WaitCoversRest
    BY DEF Init, WaitCoversRest, Idle
  <2> QED
    BY <2>1, <2>2, <2>3, <2>4 DEF AmapInv
<1>2. AmapInv /\ [Next]_vars => AmapInv'
  BY TypeStep, ChainStep, BudgetStep, WaitStep DEF AmapInv
<1> QED
  BY <1>1, <1>2, PTL DEF Spec

\* Calls, chain and clocks keep their types.
THEOREM TypeCorrect == Spec => []TypeOK
<1>1. AmapInv => TypeOK
  BY DEF AmapInv
<1> QED
  BY <1>1, AmapInductive, PTL

\* Windows open one at a time, in the order they were asked for: the chain of
\* promises holds every waiting call once and only its head is in the delay.
THEOREM WindowsOneAtATime == Spec => []OneWindowAtATime
<1>1. AmapInv => OneWindowAtATime
  BY DEF AmapInv
<1> QED
  BY <1>1, AmapInductive, PTL

\* However the provider answers, a call sends at most RetryCount + 1 requests
\* for each of its candidates.
THEOREM RequestsAreBounded == Spec => []RequestsBounded
<1>1. AmapInv => RequestsBounded
  <2> SUFFICES ASSUME AmapInv, NEW c \in Callers
               PROVE  call[c].requests <= MaxRequests
    BY DEF RequestsBounded
  <2>1. /\ call[c].candidate \in 1 .. Candidates
        /\ call[c].retries \in 0 .. RetryCount
        /\ call[c].requests \in Nat
    BY RecordsTyped DEF AmapInv, TypeOK, Call
  <2> DEFINE k == call[c].candidate
             w == RetryCount + 1
  <2>2. /\ (k - 1) * w + call[c].retries + 1 <= k * w
        /\ (k - 1) * w \in Nat
        /\ k * w <= MaxRequests /\ MaxRequests \in Nat
    BY <2>1, BudgetOfNext
  <2>3. call[c].requests <= (k - 1) * w + call[c].retries + 1
    <3>1. call[c].requests <= Spent(call[c]) + (IF call[c].at = "sent" THEN 1 ELSE 0)
      BY DEF AmapInv, WithinBudget
    <3>2. Spent(call[c]) = (k - 1) * w + call[c].retries
      BY DEF Spent
    <3> HIDE DEF k, w
    <3> QED
      BY <2>1, <2>2, <3>1, <3>2
  <2>4. k * w \in Nat
    BY <2>1, AmapAssumption
  <2> HIDE DEF k, w
  <2> QED
    BY <2>1, <2>2, <2>3, <2>4
<1> QED
  BY <1>1, AmapInductive, PTL

\* A request whose window was computed while none was under way is sent at
\* least MinInterval after the last one ended.
THEOREM RequestsSpaced == Spec => SpacedFromKnownEnd
<1> DEFINE Spaced == \A c \in Callers :
             call'[c].at = "sent" /\ call[c].at # "sent" /\ ~ call'[c].blind
               => sinceAnswer >= MinInterval
<1>1. AmapInv /\ [Next]_vars => [Spaced]_vars
  <2> SUFFICES ASSUME AmapInv, Next, NEW c \in Callers, call'[c].at = "sent",
                      call[c].at # "sent", ~ call'[c].blind
               PROVE  sinceAnswer >= MinInterval
    OBVIOUS
  <2>0. /\ call \in [Callers -> Call] /\ sinceAnswer = sinceEnd
        /\ sinceEnd \in 0 .. MinInterval /\ MinInterval \in Nat
    BY AmapAssumption DEF AmapInv, TypeOK, WaitCoversRest
  <2>1. CASE Tick
    BY <2>0, <2>1 DEF Tick, Call
  <2>2. ASSUME NEW d \in Callers, Ask(d) \/ Step(d)
        PROVE  d = c
    <3>1. PICK r : call' = [call EXCEPT ![d] = r]
      BY <2>2, ChainShape DEF AmapInv
    <3> QED
      BY <2>0, <3>1
  <2>3. CASE Ask(c)
    BY <2>0, <2>3 DEF Ask, Idle
  <2>4. CASE ComputeWait(c)
    <3> DEFINE wait == IF sinceEnd < MinInterval THEN MinInterval - sinceEnd ELSE 0
               asked == [call[c] EXCEPT !.blind = UnderWay # {}]
               r2 == [asked EXCEPT !.at = "delaying", !.left = wait]
    <3>1. wait = 0 \/ call' = [call EXCEPT ![c] = r2]
      BY <2>4 DEF ComputeWait
    <3>2. r2.at = "delaying"
      BY <2>0 DEF Call
    <3> HIDE DEF r2
    <3> QED
      BY <2>0, <3>1, <3>2
  <2>5. CASE WindowOpens(c)
    <3>1. call[c].at = "delaying" /\ call[c].left = 0
      BY <2>5 DEF WindowOpens
    <3>2. call'[c].blind = call[c].blind
      <4>1. call' = [call EXCEPT ![c] = [call[c] EXCEPT !.at = "sent",
                                             !.requests = OneMore(@)]]
        BY <2>5 DEF WindowOpens
      <4> QED
        BY <2>0, <4>1 DEF Call
    <3> QED
      BY <2>0, <3>1, <3>2 DEF AmapInv, WaitCoversRest
  <2>6. CASE \E answer \in Answers : Answer(c, answer)
    BY <2>6 DEF Answer
  <2>7. CASE BackoffOver(c)
    <3>1. call' = [call EXCEPT ![c] = [call[c] EXCEPT !.at = "queued"]]
      BY <2>7 DEF BackoffOver
    <3> QED
      BY <2>0, <3>1 DEF Call
  <2>8. Tick \/ Ask(c) \/ Step(c)
    BY <2>2 DEF Next
  <2> QED
    BY <2>1, <2>3, <2>4, <2>5, <2>6, <2>7, <2>8 DEF Step
<1> QED
  BY <1>1, AmapInductive, PTL DEF Spec, SpacedFromKnownEnd

\* One window at a time, and no call asks more often than its budget.
THEOREM WindowsAndRequestsStayBounded == Spec => []WindowsAndRequestsBounded
BY WindowsOneAtATime, RequestsAreBounded, PTL DEF WindowsAndRequestsBounded

=============================================================================
