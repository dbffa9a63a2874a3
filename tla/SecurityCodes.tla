---------------------------- MODULE SecurityCodes ----------------------------
(***************************************************************************)
(* The rows of user_security_tokens: codes that bind an e-mail address and *)
(* tokens that reset a password. A row is issued in two statements (older  *)
(* rows are marked used, the new one is inserted), read by a confirmation, *)
(* and used by a later statement of it; a wrong code is counted in the     *)
(* rate-limit store between the two.                                       *)
(*                                                                         *)
(* Tokens are numbered in the order of createdAt. What a user types is     *)
(* right or wrong; the mail that carries it changes no state.              *)
(***************************************************************************)
EXTENDS Integers, FiniteSets

CONSTANTS
    Users,
    Emails,        \* addresses, unique among users
    Requests,      \* HTTP requests that may be under way
    MaxTokens,     \* bound: rows ever inserted
    MaxAttempts    \* emailVerificationMaxAttempts

ASSUME CodesAssumption ==
    /\ IsFiniteSet(Requests) /\ Requests # {}
    /\ MaxTokens \in Nat
    /\ MaxAttempts \in Nat \ {0}

VARIABLES
    row,       \* row[t]: the row of token t
    expired,   \* tokens whose expiresAt has passed
    count,     \* count[t]: the counter of wrong answers in the rate-limit store
    email,     \* email[u]: the address bound to user u
    request,   \* request[r]: how far request r is
    issued,    \* rows inserted so far
    older,     \* ghost: older[t]: rows inserted while t was being issued
    applied,   \* ghost: applied[t]: how often token t has taken effect
    told,      \* ghost: told[t]: wrong answers with attempts left, since t was
               \* last answered right or its counter was lost
    bound      \* ghost: bound[u]: rows there were when u's address was last bound

codes == <<row, expired, count, email, issued>>
ghosts == <<older, applied, told, bound>>
vars == <<codes, request, ghosts>>

-----------------------------------------------------------------------------
NoEmail == "none"
Types == {"verification", "reset"}
Tokens == 1..MaxTokens
NoRow == [state |-> "none"]
Row == [state : {"active", "used"}, owner : Users, type : Types,
        target : Emails]
Idle == [at |-> "idle"]
Issuing == [at : {"invalidate", "insert"}, owner : Users, type : Types,
            target : Emails, since : SUBSET Tokens]
Answering == [at : {"wrong", "spend", "forget", "right", "bind",
                    "use", "password"}, token : Tokens]

TypeOK ==
    /\ row \in [Tokens -> Row \cup {NoRow}]
    /\ expired \subseteq Tokens
    /\ count \in [Tokens -> Nat]
    /\ email \in [Users -> Emails \cup {NoEmail}]
    /\ request \in [Requests -> {Idle} \cup Issuing \cup Answering]
    /\ issued \in 0..MaxTokens
    /\ older \in [Tokens -> SUBSET Tokens]
    /\ applied \in [Tokens -> Nat]
    /\ told \in [Tokens -> Nat]
    /\ bound \in [Users -> 0..MaxTokens]

Init ==
    /\ row = [t \in Tokens |-> NoRow]
    /\ expired = {}
    /\ count = [t \in Tokens |-> 0]
    /\ email = [u \in Users |-> NoEmail]
    /\ request = [r \in Requests |-> Idle]
    /\ issued = 0
    /\ older = [t \in Tokens |-> {}]
    /\ applied = [t \in Tokens |-> 0]
    /\ told = [t \in Tokens |-> 0]
    /\ bound = [u \in Users |-> 0]

Active(t) == row[t].state = "active"
Of(u, type) == {t \in Tokens : row[t] # NoRow /\ row[t].owner = u
                                 /\ row[t].type = type}
Readable(u, type) == {t \in Of(u, type) : Active(t) /\ t \notin expired}

\* The rows with those of S marked used where they were not.
MarkUsed(S) == [t \in Tokens |-> IF t \in S /\ Active(t)
                                 THEN [row[t] EXCEPT !.state = "used"]
                                 ELSE row[t]]

At(r, place) == request[r].at = place
Goes(r, to) == request' = [request EXCEPT ![r] = to]
Moves(r, place) == request' = [request EXCEPT ![r].at = place]

-----------------------------------------------------------------------------
(* issueUserSecurityCode, issueUserSecurityToken                           *)

\* requestEmailVerification: the address is refused if another user has it.
RequestVerification(r, u, e) ==
    /\ At(r, "idle")
    /\ \A v \in Users \ {u} : email[v] # e
    /\ Goes(r, [at |-> "invalidate", owner |-> u, type |-> "verification",
                target |-> e, since |-> {}])
    /\ UNCHANGED <<codes, ghosts>>

\* requestPasswordReset: nothing happens if no user has the address.
RequestReset(r, u) ==
    /\ At(r, "idle")
    /\ email[u] # NoEmail
    /\ Goes(r, [at |-> "invalidate", owner |-> u, type |-> "reset",
                target |-> email[u], since |-> {}])
    /\ UNCHANGED <<codes, ghosts>>

Invalidate(r) ==
    /\ At(r, "invalidate")
    /\ row' = MarkUsed(Of(request[r].owner, request[r].type))
    /\ Moves(r, "insert")
    /\ UNCHANGED <<expired, count, email, issued, ghosts>>

\* The other requests that have invalidated, but not inserted, will not see t.
Insert(r) ==
    LET t == issued + 1 IN
    /\ At(r, "insert")
    /\ t \in Tokens
    /\ issued' = t
    /\ row' = [row EXCEPT ![t] = [state |-> "active", owner |-> request[r].owner,
                                  type |-> request[r].type,
                                  target |-> request[r].target]]
    /\ older' = [older EXCEPT ![t] = request[r].since]
    /\ request' = [q \in Requests |->
                     IF q = r THEN Idle
                     ELSE IF At(q, "insert")
                     THEN [request[q] EXCEPT !.since = @ \cup {t}]
                     ELSE request[q]]
    /\ UNCHANGED <<expired, count, email, applied, told, bound>>

-----------------------------------------------------------------------------
(* confirmEmailVerification                                                *)

\* consumeUserSecurityCode compares the answer with the latest row in force.
Answer(r, u, right) ==
    /\ At(r, "idle")
    /\ Readable(u, "verification") # {}
    /\ \E t \in Readable(u, "verification") :
         /\ \A s \in Readable(u, "verification") : s <= t
         /\ Goes(r, [at |-> IF right THEN "right" ELSE "wrong", token |-> t])
    /\ UNCHANGED <<codes, ghosts>>

\* consumeKey: the count is taken and compared in one step of the store.
\* Counts past the limit are alike.
CountWrong(r) ==
    LET t == request[r].token
        n == IF count[t] < MaxAttempts THEN count[t] + 1 ELSE count[t] IN
    /\ At(r, "wrong")
    /\ count' = [count EXCEPT ![t] = n]
    /\ IF n < MaxAttempts
       THEN /\ told' = [told EXCEPT ![t] = @ + 1]
            /\ Goes(r, Idle)
       ELSE /\ Moves(r, "spend")
            /\ UNCHANGED told
    /\ UNCHANGED <<row, expired, email, issued, older, applied, bound>>

\* Mutant: the counter goes, the row stays.
SpendNothing(r) ==
    /\ At(r, "spend")
    /\ Moves(r, "forget")
    /\ UNCHANGED <<codes, ghosts>>

\* No attempt is left: the row is marked used, then its counter goes.
Spend(r) ==
    /\ At(r, "spend")
    /\ row' = MarkUsed({request[r].token})
    /\ Moves(r, "forget")
    /\ UNCHANGED <<expired, count, email, issued, ghosts>>

Forget(r) ==
    /\ At(r, "forget")
    /\ count' = [count EXCEPT ![request[r].token] = 0]
    /\ Goes(r, Idle)
    /\ UNCHANGED <<row, expired, email, issued, ghosts>>

\* A right answer empties the counter before the row is used.
ForgetRight(r) ==
    LET t == request[r].token IN
    /\ At(r, "right")
    /\ count' = [count EXCEPT ![t] = 0]
    /\ told' = [told EXCEPT ![t] = 0]
    /\ Moves(r, "bind")
    /\ UNCHANGED <<row, expired, email, issued, older, applied, bound>>

\* Mutant: the transaction uses its own row only.
BindOwn(r) ==
    LET t == request[r].token
        u == row[t].owner
        e == row[t].target IN
    /\ At(r, "bind")
    /\ IF Active(t) /\ \A v \in Users \ {u} : email[v] # e
       THEN /\ email' = [email EXCEPT ![u] = e]
            /\ row' = MarkUsed({t})
            /\ applied' = [applied EXCEPT ![t] = @ + 1]
            /\ bound' = [bound EXCEPT ![u] = issued]
       ELSE UNCHANGED <<email, row, applied, bound>>
    /\ Goes(r, Idle)
    /\ UNCHANGED <<expired, count, issued, older, told>>

\* consumeEmailVerificationTokenAndBindEmail: one transaction, which a used
\* row or the unique column ends without effect.
Bind(r) ==
    LET t == request[r].token
        u == row[t].owner
        e == row[t].target IN
    /\ At(r, "bind")
    /\ IF Active(t) /\ \A v \in Users \ {u} : email[v] # e
       THEN /\ email' = [email EXCEPT ![u] = e]
            /\ row' = MarkUsed({t} \cup Of(u, "verification"))
            /\ applied' = [applied EXCEPT ![t] = @ + 1]
            /\ bound' = [bound EXCEPT ![u] = issued]
       ELSE UNCHANGED <<email, row, applied, bound>>
    /\ Goes(r, Idle)
    /\ UNCHANGED <<expired, count, issued, older, told>>

-----------------------------------------------------------------------------
(* confirmPasswordReset                                                    *)

\* consumeUserSecurityToken finds the row by its hash.
FindReset(r, t) ==
    /\ At(r, "idle")
    /\ row[t] # NoRow /\ row[t].type = "reset" /\ Active(t) /\ t \notin expired
    /\ Goes(r, [at |-> "use", token |-> t])
    /\ UNCHANGED <<codes, ghosts>>

\* Mutant: the row found active is marked used whatever it is by now.
UseAnyway(r) ==
    /\ At(r, "use")
    /\ row' = MarkUsed({request[r].token})
    /\ Moves(r, "password")
    /\ UNCHANGED <<expired, count, email, issued, ghosts>>

\* markSecurityTokenUsedIfUnused, and its answer.
Use(r) ==
    /\ At(r, "use")
    /\ row' = MarkUsed({request[r].token})
    /\ IF Active(request[r].token) THEN Moves(r, "password") ELSE Goes(r, Idle)
    /\ UNCHANGED <<expired, count, email, issued, ghosts>>

SetPassword(r) ==
    /\ At(r, "password")
    /\ applied' = [applied EXCEPT ![request[r].token] = @ + 1]
    /\ Goes(r, Idle)
    /\ UNCHANGED <<codes, older, told, bound>>

-----------------------------------------------------------------------------
\* A statement fails, or the process dies: the request goes no further.
Fail(r) ==
    /\ ~At(r, "idle")
    /\ Goes(r, Idle)
    /\ UNCHANGED <<codes, ghosts>>

Expire(t) ==
    /\ Active(t) /\ t \notin expired
    /\ expired' = expired \cup {t}
    /\ UNCHANGED <<row, count, email, request, issued, ghosts>>

\* The store has dropped this counter: the memory store is full, or is lost
\* with its process.
DropCounter(t) ==
    /\ count[t] > 0
    /\ count' = [count EXCEPT ![t] = 0]
    /\ told' = [told EXCEPT ![t] = 0]
    /\ UNCHANGED <<row, expired, email, request, issued, older, applied, bound>>

Next ==
    \/ \E r \in Requests :
         \/ \E u \in Users :
              \/ \E e \in Emails : RequestVerification(r, u, e)
              \/ RequestReset(r, u)
              \/ \E right \in BOOLEAN : Answer(r, u, right)
         \/ Invalidate(r) \/ Insert(r)
         \/ CountWrong(r) \/ Spend(r) \/ Forget(r)
         \/ ForgetRight(r) \/ Bind(r)
         \/ \E t \in Tokens : FindReset(r, t)
         \/ Use(r) \/ SetPassword(r)
         \/ Fail(r)
    \/ \E t \in Tokens : Expire(t) \/ DropCounter(t)

Spec == Init /\ [][Next]_vars

-----------------------------------------------------------------------------
\* A token takes effect at most once, however many requests present it at
\* the same time: it binds an address or replaces a password only in the
\* request whose conditional update found it unused.
AppliedOnce == \A t \in Tokens : applied[t] <= 1

\* Two rows of a user and a type are in force together only if one was
\* inserted between the two statements that issued the other; and no code
\* that existed when an address was bound stays in force after it.
SupersededIsUsed ==
    /\ \A s, t \in Tokens :
         (/\ Active(s) /\ Active(t) /\ s < t
          /\ row[s].owner = row[t].owner /\ row[s].type = row[t].type)
         => s \in older[t]
    /\ \A t \in Tokens : (Active(t) /\ row[t].type = "verification")
                           => t > bound[row[t].owner]

\* From one right answer, or loss of its counter, to the next, a code is
\* answered "wrong, try again" fewer than MaxAttempts times, but for requests
\* that had compared their answers when the code was spent.
AttemptsBounded ==
    \A t \in Tokens :
        told[t] <= (MaxAttempts - 1) + (Cardinality(Requests) - 1)

=============================================================================
