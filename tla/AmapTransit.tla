----------------------------- MODULE AmapTransit -----------------------------
(***************************************************************************)
(* The transit directions of the map provider (amap-transit.client.ts):    *)
(* calls of getTransitDirection that run side by side try their city       *)
(* candidates in turn, repeat a request the provider answered with "QPS    *)
(* exceeded" after a growing pause, and pass one at a time through         *)
(* waitForTransitWindow, a chain of promises that is to keep the requests  *)
(* apart.                                                                  *)
(*                                                                         *)
(* Time is kept as what is left of every pause and as the time since the   *)
(* last request ended, which matters only up to MinInterval.  A timer may  *)
(* fire late; fetch is aborted after requestTimeoutMs, which is one of the *)
(* ways in which a request ends.                                           *)
(***************************************************************************)
EXTENDS Naturals, Sequences, FiniteSets

CONSTANTS Callers,      \* calls of getTransitDirection that may overlap
          MinInterval,  \* transitRequestMinIntervalMs
          RetryCount,   \* transitQpsRetryCount
          Backoff,      \* transitQpsBackoffMs
          Candidates    \* how many city candidates a call has

ASSUME AmapAssumption ==
    /\ MinInterval \in Nat
    /\ RetryCount \in Nat
    /\ Backoff \in Nat \ {0}
    /\ Candidates \in Nat \ {0}

VARIABLES call,         \* where each call is
          queue,        \* the chain of tickets, oldest first
          sinceEnd,     \* time since lastTransitRequestAt was set
          sinceSend,    \* history: time since a request was sent
          sinceAnswer   \* history: time since a request really ended

vars == <<call, queue, sinceEnd, sinceSend, sinceAnswer>>

Places == {"idle", "queued", "delaying", "sent", "backoff"}
Answers == {"route", "qps", "refused", "error"}

\* What a call may send: each candidate once and once more for every retry.
MaxRequests == Candidates * (RetryCount + 1)

\* requests and blind are history: how many requests this call has sent (up to
\* one too many), and whether another one was under way when its window was
\* computed.
Call == [at : Places, left : Nat, candidate : 1 .. Candidates,
         retries : 0 .. RetryCount, requests : 0 .. MaxRequests + 1, blind : BOOLEAN]

OneMore(n) == IF n <= MaxRequests THEN n + 1 ELSE n

Idle == [at |-> "idle", left |-> 0, candidate |-> 1, retries |-> 0,
         requests |-> 0, blind |-> FALSE]

Asleep(c) == call[c].at \in {"delaying", "backoff"} /\ call[c].left > 0
UnderWay == {c \in Callers : call[c].at = "sent"}

\* getTransitDirection calls requestTransitJson for its first candidate:
\* waitForTransitWindow chains its ticket to the last one.
Ask(c) ==
    /\ call[c].at = "idle"
    /\ call' = [call EXCEPT ![c] = [Idle EXCEPT !.at = "queued"]]
    /\ queue' = Append(queue, c)
    /\ UNCHANGED <<sinceEnd, sinceSend, sinceAnswer>>

\* The ticket resolves and fetch is called.
Send(c) ==
    /\ queue' = Tail(queue)
    /\ sinceSend' = 0
    /\ UNCHANGED <<sinceEnd, sinceAnswer>>

\* Mutant: every ticket runs at once instead of after the one before.
ComputeAtOnce(c) ==
    /\ call[c].at = "queued"
    /\ call' = [call EXCEPT ![c].at = "delaying",
                            ![c].left = MinInterval - sinceEnd,
                            ![c].blind = UnderWay # {}]
    /\ UNCHANGED <<queue, sinceEnd, sinceSend, sinceAnswer>>

\* run, once the earlier tickets have resolved: the wait is computed from the
\* end of the last request that has ended.
ComputeWait(c) ==
    LET wait == IF sinceEnd < MinInterval THEN MinInterval - sinceEnd ELSE 0
        asked == [call[c] EXCEPT !.blind = UnderWay # {}]
    IN  /\ queue # <<>> /\ c = Head(queue)
        /\ call[c].at = "queued"
        /\ \/ /\ wait = 0
              /\ call' = [call EXCEPT ![c] =
                            [asked EXCEPT !.at = "sent", !.requests = OneMore(@)]]
              /\ Send(c)
           \/ /\ wait > 0
              /\ call' = [call EXCEPT ![c] =
                            [asked EXCEPT !.at = "delaying", !.left = wait]]
              /\ UNCHANGED <<queue, sinceEnd, sinceSend, sinceAnswer>>

\* The delay of the oldest ticket is over.
WindowOpens(c) ==
    /\ call[c].at = "delaying"
    /\ call[c].left = 0
    /\ call' = [call EXCEPT ![c].at = "sent", ![c].requests = OneMore(@)]
    /\ Send(c)

\* The next city candidate, or null when there is none left.
NextCandidate(c) ==
    IF call[c].candidate < Candidates
      THEN /\ call' = [call EXCEPT ![c].at = "queued", ![c].retries = 0,
                                   ![c].candidate = @ + 1]
           /\ queue' = Append(queue, c)
      ELSE /\ call' = [call EXCEPT ![c] = Idle]
           /\ UNCHANGED queue

\* Mutant: the pause is taken whatever the number of retries so far.
RetryForever(c) ==
    IF call[c].retries < RetryCount
      THEN /\ call' = [call EXCEPT ![c].at = "backoff", ![c].left = Backoff,
                                   ![c].retries = @ + 1]
           /\ UNCHANGED queue
      ELSE /\ call' = [call EXCEPT ![c].at = "backoff", ![c].left = Backoff]
           /\ UNCHANGED queue

\* "QPS exceeded": pause and ask again, as often as transitQpsRetryCount says.
QpsExceeded(c) ==
    IF call[c].retries < RetryCount
      THEN /\ call' = [call EXCEPT ![c].at = "backoff",
                                   ![c].left = Backoff * (call[c].retries + 1),
                                   ![c].retries = @ + 1]
           /\ UNCHANGED queue
      ELSE NextCandidate(c)

\* Mutant: lastTransitRequestAt is set only when the request succeeds.
AnswerWithoutFinally(c, answer) ==
    /\ call[c].at = "sent"
    /\ sinceAnswer' = 0
    /\ sinceEnd' = IF answer = "error" THEN sinceEnd ELSE 0
    /\ \/ /\ answer = "route"
          /\ call' = [call EXCEPT ![c] = Idle]
          /\ UNCHANGED queue
       \/ answer = "qps" /\ QpsExceeded(c)
       \/ answer \in {"refused", "error"} /\ NextCandidate(c)
    /\ UNCHANGED sinceSend

\* A request ends: lastTransitRequestAt is set whatever came of it.  A route,
\* or the answer that there is none, ends the call.
Answer(c, answer) ==
    /\ call[c].at = "sent"
    /\ sinceEnd' = 0
    /\ sinceAnswer' = 0
    /\ \/ /\ answer = "route"
          /\ call' = [call EXCEPT ![c] = Idle]
          /\ UNCHANGED queue
       \/ answer = "qps" /\ QpsExceeded(c)
       \/ answer \in {"refused", "error"} /\ NextCandidate(c)
    /\ UNCHANGED sinceSend

\* The pause is over: the same candidate again, at the end of the chain.
BackoffOver(c) ==
    /\ call[c].at = "backoff"
    /\ call[c].left = 0
    /\ call' = [call EXCEPT ![c].at = "queued"]
    /\ queue' = Append(queue, c)
    /\ UNCHANGED <<sinceEnd, sinceSend, sinceAnswer>>

UpTo(t) == IF t < MinInterval THEN t + 1 ELSE t

Tick ==
    /\ call' = [c \in Callers |->
                  IF Asleep(c) THEN [call[c] EXCEPT !.left = @ - 1] ELSE call[c]]
    /\ sinceEnd' = UpTo(sinceEnd)
    /\ sinceSend' = UpTo(sinceSend)
    /\ sinceAnswer' = UpTo(sinceAnswer)
    /\ UNCHANGED queue

\* lastTransitRequestAt is 0, long ago.
Init ==
    /\ call = [c \in Callers |-> Idle]
    /\ queue = <<>>
    /\ sinceEnd = MinInterval
    /\ sinceSend = MinInterval
    /\ sinceAnswer = MinInterval

Step(c) ==
    \/ ComputeWait(c)
    \/ WindowOpens(c)
    \/ \E answer \in Answers : Answer(c, answer)
    \/ BackoffOver(c)

Next ==
    \/ \E c \in Callers : Ask(c) \/ Step(c)
    \/ Tick

\* Promise callbacks and timers run, a request ends (fetch is aborted after
\* requestTimeoutMs) and time passes; nobody need ask.
Fairness == WF_vars(Tick) /\ \A c \in Callers : WF_vars(Step(c))

Spec == Init /\ [][Next]_vars /\ Fairness

-----------------------------------------------------------------------------
TypeOK ==
    /\ call \in [Callers -> Call]
    /\ queue \in Seq(Callers)
    /\ sinceEnd \in 0 .. MinInterval
    /\ sinceSend \in 0 .. MinInterval
    /\ sinceAnswer \in 0 .. MinInterval

\* The chain holds every call that waits for its window exactly once, and
\* only its head is in the delay: windows open in the order they were asked
\* for, one after the other.
OneWindowAtATime ==
    /\ \A i, j \in 1 .. Len(queue) : queue[i] = queue[j] => i = j
    /\ \A c \in Callers : call[c].at \in {"queued", "delaying"}
                            <=> \E i \in 1 .. Len(queue) : queue[i] = c
    /\ \A c \in Callers : call[c].at = "delaying" => c = Head(queue)

\* A call sends at most RetryCount + 1 requests for each of its candidates.
RequestsBounded ==
    \A c \in Callers : call[c].requests <= MaxRequests

\* A request is sent at least MinInterval after the last one ended, unless one
\* was under way when its wait was computed.
SpacedFromKnownEnd ==
    [][\A c \in Callers :
         call'[c].at = "sent" /\ call[c].at # "sent" /\ ~ call'[c].blind
           => sinceAnswer >= MinInterval]_vars

\* Requests are sent at least MinInterval apart (.env.example:129 names the
\* setting AMAP_TRANSIT_REQUEST_MIN_INTERVAL_MS).
MinIntervalKept ==
    [][\A c \in Callers :
         call'[c].at = "sent" /\ call[c].at # "sent"
           => sinceSend >= MinInterval]_vars

\* Every call ends, however the provider answers and whoever else asks.
EveryCallEnds ==
    \A c \in Callers : call[c].at # "idle" ~> call[c].at = "idle"

\* Calls go through the queue one window at a time, each with at most its
\* retries for each candidate.
WindowsAndRequestsBounded == OneWindowAtATime /\ RequestsBounded

=============================================================================
