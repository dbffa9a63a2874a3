--------------------------- MODULE AdminChallenges ---------------------------
(***************************************************************************)
(* AdminTwoFactorService: the second step of an administrator's login.     *)
(* A challenge is a key of Redis with a lifetime; the counter of its wrong *)
(* answers is another. Reading, counting, resetting and deleting are calls *)
(* of their own, and other requests for the same challenge run in between. *)
(*                                                                         *)
(* The signed token names its challenge, administrator and address, which  *)
(* are those of the record: the mismatch branch cannot be taken.           *)
(***************************************************************************)
EXTENDS Integers, FiniteSets

CONSTANTS
    Challenges,     \* challenge identifiers, never used twice
    Requests,       \* HTTP requests that may be under way
    MaxAttempts     \* wrong answers a challenge may have: five

VARIABLES
    stored,     \* challenges whose key is in Redis
    known,      \* challenges whose identifier has been drawn
    sent,       \* challenges whose token the client has
    count,      \* count[c]: the counter of wrong answers
    request,    \* request[r]: how far request r is
    accepted,   \* ghost: challenges that have logged an administrator in
    told,       \* ghost: told[c]: wrong answers with attempts left, until c
                \* is broken
    broken      \* ghost: challenges a request failed to delete after it had
                \* emptied their counter

redis == <<stored, count>>
vars == <<stored, known, sent, count, request, accepted, told, broken>>

Idle == [at |-> "idle"]
At(r, place) == request[r].at = place
Goes(r, to) == request' = [request EXCEPT ![r] = to]
Moves(r, place) == request' = [request EXCEPT ![r].at = place]

TypeOK ==
    /\ stored \subseteq Challenges
    /\ known \subseteq Challenges
    /\ sent \subseteq Challenges
    /\ count \in [Challenges -> 0..MaxAttempts]
    /\ request \in [Requests -> {Idle} \cup
          [at : {"store", "mail", "retract", "wrong", "reset", "delete",
                 "right", "close", "login"}, challenge : Challenges]]
    /\ accepted \subseteq Challenges
    /\ told \in [Challenges -> Nat]
    /\ broken \subseteq Challenges

Init ==
    /\ stored = {} /\ known = {} /\ sent = {}
    /\ count = [c \in Challenges |-> 0]
    /\ request = [r \in Requests |-> Idle]
    /\ accepted = {} /\ broken = {}
    /\ told = [c \in Challenges |-> 0]

-----------------------------------------------------------------------------
(* issueChallenge                                                          *)

\* loginAdmin has checked the password.
Login(r, c) ==
    /\ At(r, "idle")
    /\ c \notin known
    /\ known' = known \cup {c}
    /\ Goes(r, [at |-> "store", challenge |-> c])
    /\ UNCHANGED <<redis, sent, accepted, told, broken>>

Store(r) ==
    /\ At(r, "store")
    /\ stored' = stored \cup {request[r].challenge}
    /\ Moves(r, "mail")
    /\ UNCHANGED <<known, sent, count, accepted, told, broken>>

\* The token is answered only when the mail has been sent; otherwise the
\* challenge is taken back.
Mail(r, delivered) ==
    /\ At(r, "mail")
    /\ IF delivered
       THEN /\ sent' = sent \cup {request[r].challenge}
            /\ Goes(r, Idle)
       ELSE /\ Moves(r, "retract")
            /\ UNCHANGED sent
    /\ UNCHANGED <<redis, known, accepted, told, broken>>

Retract(r) ==
    /\ At(r, "retract")
    /\ stored' = stored \ {request[r].challenge}
    /\ Goes(r, Idle)
    /\ UNCHANGED <<known, sent, count, accepted, told, broken>>

-----------------------------------------------------------------------------
(* verifyChallenge                                                         *)

Read(r, c, right) ==
    /\ At(r, "idle")
    /\ c \in sent \cap stored
    /\ Goes(r, [at |-> IF right THEN "right" ELSE "wrong", challenge |-> c])
    /\ UNCHANGED <<redis, known, sent, accepted, told, broken>>

\* What is told of a challenge is followed until a deletion fails.
IfWhole(c, n) == IF c \in broken THEN told ELSE [told EXCEPT ![c] = n]

\* Mutant: one attempt more than the limit.
CountOneMore(r) ==
    LET c == request[r].challenge
        n == count[c] + 1 IN
    /\ At(r, "wrong")
    /\ count' = [count EXCEPT ![c] = IF n > MaxAttempts THEN MaxAttempts ELSE n]
    /\ IF n <= MaxAttempts
       THEN told' = IfWhole(c, told[c] + 1) /\ Goes(r, Idle)
       ELSE Moves(r, "reset") /\ UNCHANGED told
    /\ UNCHANGED <<stored, known, sent, accepted, broken>>

\* consumeKey; counts past the limit are alike.
CountWrong(r) ==
    LET c == request[r].challenge
        n == count[c] + 1 IN
    /\ At(r, "wrong")
    /\ count' = [count EXCEPT ![c] = IF n > MaxAttempts THEN MaxAttempts ELSE n]
    /\ IF n < MaxAttempts
       THEN told' = IfWhole(c, told[c] + 1) /\ Goes(r, Idle)
       ELSE Moves(r, "reset") /\ UNCHANGED told
    /\ UNCHANGED <<stored, known, sent, accepted, broken>>

\* No attempt is left, or the answer was right: the counter goes first.
Reset(r) ==
    /\ At(r, "reset") \/ At(r, "right")
    /\ count' = [count EXCEPT ![request[r].challenge] = 0]
    /\ Moves(r, IF At(r, "right") THEN "close" ELSE "delete")
    /\ UNCHANGED <<stored, known, sent, accepted, told, broken>>

\* Mutant: the challenge of a right answer is left to expire.
DeleteRefused(r) ==
    /\ At(r, "delete") \/ At(r, "close")
    /\ stored' = IF At(r, "delete") THEN stored \ {request[r].challenge}
                                    ELSE stored
    /\ IF At(r, "close") THEN Moves(r, "login") ELSE Goes(r, Idle)
    /\ UNCHANGED <<known, sent, count, accepted, told, broken>>

\* Then the challenge; whether the key was still there is not looked at.
Delete(r) ==
    /\ At(r, "delete") \/ At(r, "close")
    /\ stored' = stored \ {request[r].challenge}
    /\ IF At(r, "close") THEN Moves(r, "login") ELSE Goes(r, Idle)
    /\ UNCHANGED <<known, sent, count, accepted, told, broken>>

\* The administrator's row is read again; it may be gone or have another
\* address by now, and then nobody is logged in.
Accept(r, unchanged) ==
    /\ At(r, "login")
    /\ accepted' = IF unchanged THEN accepted \cup {request[r].challenge}
                                ELSE accepted
    /\ Goes(r, Idle)
    /\ UNCHANGED <<redis, known, sent, told, broken>>

\* Redis does not answer, or the process dies.
Fail(r) ==
    /\ ~At(r, "idle")
    /\ broken' = IF At(r, "delete") \/ At(r, "close")
                 THEN broken \cup {request[r].challenge} ELSE broken
    /\ Goes(r, Idle)
    /\ UNCHANGED <<redis, known, sent, accepted, told>>

Expire(c) ==
    /\ c \in stored
    /\ stored' = stored \ {c}
    /\ UNCHANGED <<known, sent, count, request, accepted, told, broken>>

Next ==
    \/ \E r \in Requests :
         \/ \E c \in Challenges :
              \/ Login(r, c)
              \/ \E right \in BOOLEAN : Read(r, c, right)
         \/ Store(r)
         \/ \E delivered \in BOOLEAN : Mail(r, delivered)
         \/ Retract(r)
         \/ CountWrong(r) \/ Reset(r) \/ Delete(r)
         \/ \E unchanged \in BOOLEAN : Accept(r, unchanged)
         \/ Fail(r)
    \/ \E c \in Challenges : Expire(c)

-----------------------------------------------------------------------------
\* A challenge that has logged an administrator in is gone, and one whose
\* mail failed was never open to an answer.
AcceptedIsGone ==
    /\ accepted \cap stored = {}
    /\ accepted \subseteq sent

\* As the counter goes before the challenge, requests that run side by side
\* may each start a round of attempts; but for a challenge a request failed
\* to delete, there are no more rounds than requests.
ChallengeAttempts ==
    \A c \in Challenges \ broken :
        told[c] <= Cardinality(Requests) * (MaxAttempts - 1)

==============================================================================
