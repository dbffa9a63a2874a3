------------------------ MODULE UserSessions_proofs ------------------------
(***************************************************************************)
(* Proofs about UserSessions for any number of requests, clients, tokens   *)
(* and passwords.                                                          *)
(***************************************************************************)
EXTENDS UserSessions, TLAPS

Typed ==
    /\ req \in [Requests -> Request]
    /\ \A r \in Requests : req[r].at \in WithToken => req[r].token \in Tokens
RevokedTyped == signedOut \in [Clients -> {"no", "revoked", "raced"}]

\* Ending a request keeps the requests typed.
LEMMA FinishTyped ==
    ASSUME Typed, NEW r \in Requests, Finish(r)
    PROVE  Typed'
<1>1. Idle(req[r].client) \in Request
  BY DEF Typed, Request, Idle, Places, Operations
<1>2. QED
  BY <1>1 DEF Typed, Finish, Idle, WithToken

\* So does taking it to another place.
LEMMA MoveTyped ==
    ASSUME Typed, NEW r \in Requests, NEW place \in Places, Move(r, place),
           place \in WithToken => req[r].at \in WithToken
    PROVE  Typed'
<1>1. [req[r] EXCEPT !.at = place] \in Request
  BY DEF Typed, Request
<1>2. QED
  BY <1>1 DEF Typed, Move

\* A revocation keeps the marks of the clients typed.
LEMMA RevokeTyped ==
    ASSUME RevokedTyped, NEW cs, Revoke(cs)
    PROVE  RevokedTyped'
  BY DEF RevokedTyped, Revoke

\* A login that starts keeps requests and marks typed.
LEMMA StartTyped ==
    ASSUME Typed, RevokedTyped, NEW r \in Requests, NEW c \in Clients,
           Accept(r, c) \/ SetsInitial(r, c)
    PROVE  Typed' /\ RevokedTyped'
<1>1. CASE Accept(r, c)
  <2>1. [Idle(c) EXCEPT !.at = "storing"] \in Request
    BY DEF Idle, Request, Places, Operations
  <2>2. QED
    BY <1>1, <2>1 DEF Accept, Typed, RevokedTyped, Idle, WithToken
<1>2. CASE SetsInitial(r, c)
  <2>1. [Idle(c) EXCEPT !.at = "initial", !.active = IsActive] \in Request
    BY DEF Idle, Request, Places, Operations, IsActive
  <2>2. Typed'
    BY <1>2, <2>1 DEF SetsInitial, Typed, Idle, WithToken
  <2>3. RevokedTyped'
    BY <1>2 DEF SetsInitial, RevokedTyped
  <2>4. QED
    BY <2>2, <2>3
<1>3. QED
  BY <1>1, <1>2

Row == [status : Statuses, password : Passwords, slot : [Clients -> BOOLEAN]]

\* The column updates of the row keep its type.
LEMMA RowTyped ==
    ASSUME user \in Row
    PROVE  /\ \A cs : [user EXCEPT !.slot = ClearSlots(cs)] \in Row
           /\ \A cs : \A p \in Passwords :
                [user EXCEPT !.password = p, !.slot = ClearSlots(cs)] \in Row
           /\ \A cs : \A status \in Statuses :
                [user EXCEPT !.status = status,
                             !.slot = IF status = "active" THEN @
                                      ELSE ClearSlots(cs)] \in Row
<1>1. \A cs : ClearSlots(cs) \in [Clients -> BOOLEAN]
  BY DEF ClearSlots, Row
<1>2. QED
  BY <1>1 DEF Row

ListsTyped ==
    /\ owner \in [Tokens -> Clients \union {NoToken}]
    /\ memoryList \union redisList \union loggedOut
         \subseteq {t \in Tokens : owner[t] # NoToken}
    /\ faults \in 0 .. MaxFaults

\* The type invariant by its parts.
LEMMA TypeParts ==
    TypeOK <=> user \in Row /\ Typed /\ RevokedTyped /\ ListsTyped
  BY DEF TypeOK, Row, Typed, RevokedTyped, ListsTyped

\* Every step of a request keeps the types.
LEMMA StepTyped ==
    ASSUME TypeOK, NEW r \in Requests, Step(r)
    PROVE  TypeOK'
<1> USE SessionsAssumption
<1>0. user \in Row /\ Typed /\ RevokedTyped /\ ListsTyped
  BY TypeParts
<1> SUFFICES user' \in Row /\ Typed' /\ RevokedTyped' /\ ListsTyped'
  BY DEF TypeOK, Row, Typed, RevokedTyped, ListsTyped
<1>1. ASSUME NEW c \in Clients, NEW p \in Passwords, LoginLocal(r, c, p)
      PROVE  user' \in Row /\ Typed' /\ RevokedTyped' /\ ListsTyped'
  <2>1. Typed' /\ RevokedTyped'
    BY <1>0, <1>1, StartTyped DEF LoginLocal
  <2>2. user' \in Row /\ ListsTyped'
    BY <1>0, <1>1 DEF LoginLocal, lists, ListsTyped
  <2>3. QED
    BY <2>1, <2>2
<1>2. CASE LoginOAuth(r)
  <2>1. Typed' /\ RevokedTyped'
    BY <1>0, <1>2, StartTyped DEF LoginOAuth
  <2>2. user' \in Row /\ ListsTyped'
    BY <1>0, <1>2 DEF LoginOAuth, lists, ListsTyped
  <2>3. QED
    BY <2>1, <2>2
<1>3. CASE SetInitialPassword(r)
  <2>1. Typed'
    BY <1>0, <1>3, FinishTyped, MoveTyped DEF SetInitialPassword, Places, WithToken
  <2>2. RevokedTyped'
    BY <1>0, <1>3, RevokeTyped DEF SetInitialPassword
  <2>3. user' \in Row
    BY <1>0, <1>3, RowTyped DEF SetInitialPassword, Passwords
  <2>4. ListsTyped'
    BY <1>0, <1>3 DEF SetInitialPassword, lists, ListsTyped
  <2>5. QED
    BY <2>1, <2>2, <2>3, <2>4
<1>4. ASSUME NEW c \in Clients, Refresh(r, c)
      PROVE  user' \in Row /\ Typed' /\ RevokedTyped' /\ ListsTyped'
  <2>1. [Idle(c) EXCEPT !.at = "storing"] \in Request
    BY DEF Idle, Request, Places, Operations
  <2>2. Typed'
    BY <1>0, <1>4, <2>1 DEF Refresh, Typed, Idle, WithToken
  <2>3. QED
    BY <1>0, <1>4, <2>2 DEF Refresh, lists, ListsTyped, RevokedTyped
<1>5. CASE StoreSession(r)
  <2>1. Typed'
    BY <1>0, <1>5, FinishTyped DEF StoreSession
  <2>2. req[r].client \in Clients
    BY <1>0 DEF Typed, Request
  <2>3. user' \in Row
    BY <1>5, <1>0, <2>2 DEF StoreSession, Row
  <2>4. ListsTyped'
    BY <1>0, <1>5, <2>2 DEF StoreSession, ListsTyped
  <2>5. QED
    BY <1>0, <1>5, <2>1, <2>3, <2>4 DEF StoreSession, RevokedTyped
<1>6. ASSUME NEW t \in Tokens, NEW op \in Operations, CheckBlacklist(r, t, op)
      PROVE  user' \in Row /\ Typed' /\ RevokedTyped' /\ ListsTyped'
  <2>1. owner[t] \in Clients
    BY <1>0, <1>6 DEF CheckBlacklist, ListsTyped
  <2>2. [Idle(owner[t]) EXCEPT !.at = "checked", !.token = t, !.op = op] \in Request
    BY <2>1 DEF Idle, Request, Places, Operations
  <2>3. Typed'
    BY <1>0, <1>6, <2>2 DEF CheckBlacklist, Typed, Idle
  <2>4. ListsTyped'
    BY <1>0, <1>6 DEF CheckBlacklist, ListsTyped
  <2>5. QED
    BY <1>0, <1>6, <2>3, <2>4 DEF CheckBlacklist, RevokedTyped
<1>7. CASE Authorise(r)
  <2>1. Typed'
    BY <1>0, <1>7, FinishTyped, MoveTyped DEF Authorise, Places, WithToken
  <2>2. QED
    BY <1>0, <1>7, <2>1 DEF Authorise, lists, ListsTyped, RevokedTyped
<1>8. CASE Serve(r)
  <2>1. Typed'
    BY <1>0, <1>8, FinishTyped DEF Serve
  <2>2. QED
    BY <1>0, <1>8, <2>1 DEF Serve, lists, ListsTyped, RevokedTyped
<1>9. CASE ClearSession(r)
  <2>1. Typed' /\ RevokedTyped'
    BY <1>0, <1>9, MoveTyped, RevokeTyped DEF ClearSession, Places, WithToken
  <2>2. user' \in Row
    BY <1>0, <1>9, RowTyped DEF ClearSession
  <2>3. QED
    BY <1>0, <1>9, <2>1, <2>2 DEF ClearSession, lists, ListsTyped
<1>10. CASE ListInMemory(r)
  <2>1. Typed'
    BY <1>0, <1>10, FinishTyped, MoveTyped DEF ListInMemory, Places, WithToken
  <2>2. req[r].token \in Tokens
    BY <1>0, <1>10 DEF ListInMemory, Typed, WithToken
  <2>3. ListsTyped'
    BY <1>0, <1>10, <2>2 DEF ListInMemory, ListsTyped
  <2>4. QED
    BY <1>0, <1>10, <2>1, <2>3 DEF ListInMemory, RevokedTyped
<1>11. CASE ListInRedis(r)
  <2>1. Typed'
    BY <1>0, <1>11, FinishTyped DEF ListInRedis
  <2>0. req[r].token \in Tokens
    BY <1>0, <1>11 DEF ListInRedis, Typed, WithToken
  <2>2. ListsTyped'
    BY <1>0, <1>11, <2>0 DEF ListInRedis, ListsTyped
  <2>3. QED
    BY <1>0, <1>11, <2>1, <2>2 DEF ListInRedis, RevokedTyped
<1>12. CASE ReadForPassword(r)
  <2>1. Typed'
    BY <1>0, <1>12, FinishTyped, MoveTyped DEF ReadForPassword, Places, WithToken
  <2>2. QED
    BY <1>0, <1>12, <2>1 DEF ReadForPassword, lists, ListsTyped, RevokedTyped
<1>13. ASSUME NEW p \in Passwords, VerifyPassword(r, p)
       PROVE  user' \in Row /\ Typed' /\ RevokedTyped' /\ ListsTyped'
  <2>1. Typed'
    BY <1>0, <1>13, FinishTyped, MoveTyped DEF VerifyPassword, Places, WithToken
  <2>2. QED
    BY <1>0, <1>13, <2>1 DEF VerifyPassword, lists, ListsTyped, RevokedTyped
<1>14. CASE ConfirmReset(r)
  <2>1. Typed'
    BY <1>0, <1>14, MoveTyped DEF ConfirmReset, Places, WithToken
  <2>2. QED
    BY <1>0, <1>14, <2>1 DEF ConfirmReset, lists, ListsTyped, RevokedTyped
<1>15. ASSUME NEW new \in Chosen, UpdatePassword(r, new)
       PROVE  user' \in Row /\ Typed' /\ RevokedTyped' /\ ListsTyped'
  <2>1. Idle(req[r].client) \in Request
    BY <1>0 DEF Typed, Request, Idle, Places, Operations
  <2>2. \A q \in Requests : \A b \in BOOLEAN :
          /\ [req[q] EXCEPT !.overtaken = b] \in Request
          /\ [req[q] EXCEPT !.overtaken = b].at = req[q].at
          /\ [req[q] EXCEPT !.overtaken = b].token = req[q].token
    BY <1>0 DEF Typed, Request
  <2>3. \A q \in Requests : (req[q].overtaken \/ req[q].at = "initial") \in BOOLEAN
    BY <1>0 DEF Typed, Request
  <2>4. Typed'
    BY <1>0, <1>15, <2>1, <2>2, <2>3 DEF UpdatePassword, Typed, Idle, WithToken
  <2>5. user' \in Row /\ RevokedTyped'
    BY <1>0, <1>15, RowTyped, RevokeTyped DEF UpdatePassword, Passwords
  <2>6. QED
    BY <1>0, <1>15, <2>4, <2>5 DEF UpdatePassword, lists, ListsTyped
<1>16. CASE Fail(r)
  <2>1. Typed'
    BY <1>0, <1>16, FinishTyped DEF Fail
  <2>2. QED
    BY <1>0, <1>16, <2>1 DEF Fail, lists, ListsTyped, RevokedTyped
<1>17. QED
  BY <1>1, <1>2, <1>3, <1>4, <1>5, <1>6, <1>7, <1>8, <1>9, <1>10, <1>11, <1>12,
     <1>13, <1>14, <1>15, <1>16 DEF Step

\* So does every other step.
LEMMA TypeStep ==
    ASSUME TypeOK, [Next]_vars
    PROVE  TypeOK'
<1> USE SessionsAssumption
<1>0. user \in Row /\ Typed /\ RevokedTyped /\ ListsTyped
  BY TypeParts
<1> SUFFICES user' \in Row /\ Typed' /\ RevokedTyped' /\ ListsTyped'
  BY DEF TypeOK, Row, Typed, RevokedTyped, ListsTyped
<1>1. ASSUME NEW r \in Requests, Step(r)
      PROVE  user' \in Row /\ Typed' /\ RevokedTyped' /\ ListsTyped'
  BY <1>1, StepTyped DEF TypeOK, Row, Typed, RevokedTyped, ListsTyped
<1>2. ASSUME NEW status \in Statuses, UpdateUserStatus(status)
      PROVE  user' \in Row /\ Typed' /\ RevokedTyped' /\ ListsTyped'
  <2>1. user' \in Row
    BY <1>0, <1>2, RowTyped DEF UpdateUserStatus
  <2>2. RevokedTyped'
    BY <1>0, <1>2, RevokeTyped DEF UpdateUserStatus, RevokedTyped
  <2>3. QED
    BY <1>0, <1>2, <2>1, <2>2 DEF UpdateUserStatus, lists, ListsTyped, Typed
<1>3. CASE ForceLogout
  <2>1. user' \in Row
    BY <1>0, <1>3, RowTyped DEF ForceLogout
  <2>2. RevokedTyped'
    BY <1>0, <1>3, RevokeTyped DEF ForceLogout
  <2>3. QED
    BY <1>0, <1>3, <2>1, <2>2 DEF ForceLogout, lists, ListsTyped, Typed
<1>4. ASSUME NEW t \in Tokens, ExpireToken(t)
      PROVE  user' \in Row /\ Typed' /\ RevokedTyped' /\ ListsTyped'
  BY <1>0, <1>4 DEF ExpireToken, ListsTyped, Typed, RevokedTyped
<1>5. CASE Restart
  <2>1. \A r \in Requests : Idle(req[r].client) \in Request
    BY <1>0 DEF Typed, Request, Idle, Places, Operations
  <2>2. Typed'
    BY <1>0, <1>5, <2>1 DEF Restart, Typed, Idle, WithToken
  <2>3. QED
    BY <1>0, <1>5, <2>2 DEF Restart, ListsTyped, RevokedTyped
<1>6. CASE UNCHANGED vars
  BY <1>0, <1>6 DEF vars, ListsTyped, Typed, RevokedTyped
<1>7. QED
  BY <1>1, <1>2, <1>3, <1>4, <1>5, <1>6 DEF Next

\* The type invariant of every instance: columns, requests, blacklist entries
\* of unexpired tokens only.
THEOREM TypeCorrect == Spec => []TypeOK
<1>1. Init => TypeOK
  BY SessionsAssumption DEF Init, TypeOK, Request, Places, Passwords, Statuses,
     Operations, Idle, WithToken
<1>2. TypeOK /\ [Next]_vars => TypeOK'
  BY TypeStep
<1>3. QED
  BY <1>1, <1>2, PTL DEF Spec

-----------------------------------------------------------------------------
(* Revoked sessions                                                        *)

\* Nobody who was not on the way to store a session is so after the step.
NobodyStarts ==
    \A q \in Requests, c \in Clients : OnItsWay(q, c)' => OnItsWay(q, c)

LEMMA FinishStartsNobody ==
    ASSUME TypeOK, NEW r \in Requests, Finish(r)
    PROVE  NobodyStarts
  BY DEF TypeOK, Finish, NobodyStarts, OnItsWay, Idle

LEMMA MoveStartsNobody ==
    ASSUME TypeOK, NEW r \in Requests, NEW place \in Places, Move(r, place),
           place \notin {"initial", "storing"}
    PROVE  NobodyStarts
<1>1. \A q \in Requests \ {r} : req'[q] = req[q]
  BY DEF TypeOK, Move
<1>2. req'[r].at = place
  BY DEF TypeOK, Move, Request
<1>3. QED
  BY <1>1, <1>2 DEF NobodyStarts, OnItsWay

\* A step that fills no slot, marks nobody and starts nobody keeps the
\* invariant.
LEMMA QuietKeeps ==
    ASSUME TypeOK, SignedOutStays, NobodyStarts, signedOut' = signedOut,
           \A c \in Clients : user'.slot[c] => user.slot[c]
    PROVE  SignedOutStays'
  BY DEF SignedOutStays, NobodyStarts

\* So does a revocation.
LEMMA RevokeKeeps ==
    ASSUME TypeOK, SignedOutStays, NobodyStarts, NEW cs, Revoke(cs),
           user'.slot = ClearSlots(cs)
    PROVE  SignedOutStays'
<1> SUFFICES ASSUME NEW c \in Clients, signedOut'[c] = "revoked"
             PROVE  /\ ~ user'.slot[c]
                    /\ \A q \in Requests : ~ OnItsWay(q, c)'
  BY DEF SignedOutStays
<1>1. CASE c \in cs
  <2>1. \A q \in Requests : ~ OnItsWay(q, c)
    BY <1>1 DEF Revoke
  <2>2. ~ user'.slot[c]
    BY <1>1 DEF ClearSlots
  <2>3. QED
    BY <2>1, <2>2 DEF NobodyStarts
<1>2. CASE c \notin cs
  <2>1. signedOut[c] = "revoked"
    BY <1>2 DEF Revoke
  <2>2. ~ user.slot[c] /\ \A q \in Requests : ~ OnItsWay(q, c)
    BY <2>1 DEF SignedOutStays
  <2>3. ~ user'.slot[c]
    BY <2>2, <1>2 DEF ClearSlots
  <2>4. QED
    BY <2>2, <2>3 DEF NobodyStarts
<1>3. QED
  BY <1>1, <1>2

\* A request that starts to store a session takes the mark off its client.
LEMMA StartKeeps ==
    ASSUME TypeOK, SignedOutStays, NEW r \in Requests, NEW c \in Clients,
           req[r].at = "idle", user' = user,
           Accept(r, c) \/ SetsInitial(r, c)
    PROVE  SignedOutStays'
<1>1. \A q \in Requests \ {r} : req'[q] = req[q]
  BY DEF TypeOK, Accept, SetsInitial
<1>2. req'[r].client = c
  <2>1. Accept(r, c) => req'[r].client = c
    BY DEF TypeOK, Accept, Idle
  <2>2. SetsInitial(r, c) => req'[r].client = c
    BY DEF TypeOK, SetsInitial, Idle
  <2>3. QED
    BY <2>1, <2>2
<1>3. signedOut'[c] = "no" \/ (signedOut' = signedOut /\ ~ OnItsWay(r, c)')
  <2>1. Accept(r, c) => signedOut'[c] = "no"
    BY DEF TypeOK, Accept
  <2>2. SetsInitial(r, c) /\ IsActive => signedOut'[c] = "no"
    BY DEF TypeOK, SetsInitial
  <2>3. ASSUME SetsInitial(r, c), ~ IsActive
        PROVE  signedOut' = signedOut /\ ~ OnItsWay(r, c)'
    <3>1. req'[r] = [Idle(c) EXCEPT !.at = "initial", !.active = FALSE]
      BY <2>3 DEF TypeOK, SetsInitial, IsActive
    <3>2. req'[r].at = "initial" /\ ~ req'[r].active
      BY <3>1 DEF Idle
    <3>3. QED
      BY <2>3, <3>2 DEF SetsInitial, OnItsWay
  <2>4. QED
    BY <2>1, <2>2, <2>3
<1>4. \A d \in Clients \ {c} : signedOut'[d] = signedOut[d]
  BY DEF TypeOK, Accept, SetsInitial
<1>5. \A d \in Clients \ {c} : ~ OnItsWay(r, d)'
  BY <1>2 DEF OnItsWay
<1>6. QED
  BY <1>1, <1>3, <1>4, <1>5 DEF SignedOutStays, OnItsWay

\* No step of a request brings a revoked session back.
LEMMA SignedOutStep ==
    ASSUME TypeOK, SignedOutStays, NEW r \in Requests, Step(r)
    PROVE  SignedOutStays'
<1>1. ASSUME NEW c \in Clients, NEW p \in Passwords, LoginLocal(r, c, p)
      PROVE  SignedOutStays'
  BY <1>1, StartKeeps DEF LoginLocal
<1>2. CASE LoginOAuth(r)
  BY <1>2, StartKeeps, SessionsAssumption DEF LoginOAuth
<1>3. CASE SetInitialPassword(r)
  <2>1. user'.slot = ClearSlots(Clients)
    BY <1>3 DEF SetInitialPassword, TypeOK
  <2>2. NobodyStarts
    <3>1. CASE ~ req[r].active
      BY <1>3, <3>1, FinishStartsNobody DEF SetInitialPassword
    <3>2. CASE req[r].active
      <4>1. \A q \in Requests \ {r} : req'[q] = req[q]
        BY <1>3, <3>2 DEF TypeOK, Move, SetInitialPassword
      <4>2. req'[r].client = req[r].client
        BY <1>3, <3>2 DEF TypeOK, Move, SetInitialPassword, Request
      <4>3. QED
        BY <4>1, <4>2, <1>3, <3>2 DEF NobodyStarts, OnItsWay, SetInitialPassword
    <3>3. QED
      BY <3>1, <3>2
  <2>3. QED
    BY <1>3, <2>1, <2>2, RevokeKeeps DEF SetInitialPassword
<1>4. ASSUME NEW c \in Clients, Refresh(r, c)
      PROVE  SignedOutStays'
  <2>1. \A q \in Requests \ {r} : req'[q] = req[q]
    BY <1>4 DEF TypeOK, Refresh
  <2>2. req'[r].client = c
    BY <1>4 DEF TypeOK, Refresh, Idle
  <2>3. signedOut[c] # "revoked"
    BY <1>4 DEF Refresh, SignedOutStays
  <2>4. user' = user /\ signedOut' = signedOut
    BY <1>4 DEF Refresh
  <2>5. \A d \in Clients \ {c} : ~ OnItsWay(r, d)'
    BY <2>2 DEF OnItsWay
  <2>6. QED
    BY <2>1, <2>3, <2>4, <2>5 DEF SignedOutStays, OnItsWay
<1>5. CASE StoreSession(r)
  <2>1. req[r].client \in Clients
    BY DEF TypeOK, Request
  <2>2. NobodyStarts
    BY <1>5, FinishStartsNobody DEF StoreSession
  <2>3. signedOut[req[r].client] # "revoked"
    BY <1>5, <2>1 DEF StoreSession, SignedOutStays, OnItsWay
  <2>4. \A d \in Clients \ {req[r].client} : user'.slot[d] = user.slot[d]
    BY <1>5, <2>1 DEF StoreSession, TypeOK
  <2>5. signedOut' = signedOut
    BY <1>5 DEF StoreSession
  <2>6. QED
    BY <2>1, <2>2, <2>3, <2>4, <2>5 DEF SignedOutStays, NobodyStarts
<1>6. ASSUME NEW t \in Tokens, NEW op \in Operations, CheckBlacklist(r, t, op)
      PROVE  SignedOutStays'
  <2>1. NobodyStarts
    BY <1>6 DEF CheckBlacklist, TypeOK, NobodyStarts, OnItsWay, Idle
  <2>2. QED
    BY <1>6, <2>1, QuietKeeps DEF CheckBlacklist
<1>7. CASE Authorise(r)
  BY <1>7, QuietKeeps, FinishStartsNobody, MoveStartsNobody DEF Authorise, Places
<1>8. CASE Serve(r)
  BY <1>8, QuietKeeps, FinishStartsNobody DEF Serve
<1>9. CASE ClearSession(r)
  <2>1. user'.slot = ClearSlots({req[r].client})
    BY <1>9 DEF ClearSession, TypeOK
  <2>2. NobodyStarts
    BY <1>9, MoveStartsNobody DEF ClearSession, Places
  <2>3. QED
    BY <1>9, <2>1, <2>2, RevokeKeeps DEF ClearSession
<1>10. CASE ListInMemory(r)
  BY <1>10, QuietKeeps, FinishStartsNobody, MoveStartsNobody DEF ListInMemory, Places
<1>11. CASE ListInRedis(r)
  BY <1>11, QuietKeeps, FinishStartsNobody DEF ListInRedis
<1>12. CASE ReadForPassword(r)
  BY <1>12, QuietKeeps, FinishStartsNobody, MoveStartsNobody DEF ReadForPassword, Places
<1>13. ASSUME NEW p \in Passwords, VerifyPassword(r, p)
       PROVE  SignedOutStays'
  BY <1>13, QuietKeeps, FinishStartsNobody, MoveStartsNobody DEF VerifyPassword, Places
<1>14. CASE ConfirmReset(r)
  BY <1>14, QuietKeeps, MoveStartsNobody DEF ConfirmReset, Places
<1>15. ASSUME NEW new \in Chosen, UpdatePassword(r, new)
       PROVE  SignedOutStays'
  <2>1. user'.slot = ClearSlots(Clients)
    BY <1>15 DEF UpdatePassword, TypeOK
  <2>2. NobodyStarts
    <3>1. \A q \in Requests : \A b :
            /\ [req[q] EXCEPT !.overtaken = b].at = req[q].at
            /\ [req[q] EXCEPT !.overtaken = b].client = req[q].client
            /\ [req[q] EXCEPT !.overtaken = b].active = req[q].active
      BY DEF TypeOK, Request
    <3>2. \A q \in Requests \ {r} : /\ req'[q].at = req[q].at
                                    /\ req'[q].client = req[q].client
                                    /\ req'[q].active = req[q].active
      BY <1>15, <3>1 DEF UpdatePassword
    <3>3. req'[r].at = "idle"
      BY <1>15 DEF UpdatePassword, Idle
    <3>4. QED
      BY <3>2, <3>3 DEF NobodyStarts, OnItsWay
  <2>3. QED
    BY <1>15, <2>1, <2>2, RevokeKeeps DEF UpdatePassword
<1>16. CASE Fail(r)
  BY <1>16, QuietKeeps, FinishStartsNobody DEF Fail
<1>17. QED
  BY <1>1, <1>2, <1>3, <1>4, <1>5, <1>6, <1>7, <1>8, <1>9, <1>10, <1>11, <1>12,
     <1>13, <1>14, <1>15, <1>16 DEF Step

\* While the user is disabled every client is marked: no login is accepted.
DisabledIsMarked ==
    user.status = "disabled" => \A c \in Clients : signedOut[c] # "no"

\* What the two history marks say, in one inductive invariant.
SessionInv == TypeOK /\ SignedOutStays /\ DisabledIsMarked

LEMMA MarkedStep ==
    ASSUME TypeOK, DisabledIsMarked, NEW r \in Requests, Step(r)
    PROVE  DisabledIsMarked'
<1>1. \A cs : Revoke(cs) /\ user'.status = user.status => DisabledIsMarked'
  BY DEF DisabledIsMarked, Revoke
<1>2. signedOut' = signedOut /\ user'.status = user.status => DisabledIsMarked'
  BY DEF DisabledIsMarked
<1>3. user'.status = user.status
  BY DEF TypeOK, Step, LoginLocal, LoginOAuth, SetInitialPassword, Refresh,
         StoreSession, CheckBlacklist, Authorise, Serve, ClearSession,
         ListInMemory, ListInRedis, ReadForPassword, VerifyPassword,
         ConfirmReset, UpdatePassword, Fail
<1>4. ASSUME NEW c \in Clients, NEW p \in Passwords, LoginLocal(r, c, p)
      PROVE  DisabledIsMarked'
  BY <1>2, <1>3, <1>4 DEF LoginLocal, Accept, SetsInitial, IsActive, DisabledIsMarked
<1>5. CASE LoginOAuth(r)
  BY <1>2, <1>3, <1>5 DEF LoginOAuth, Accept, SetsInitial, IsActive, DisabledIsMarked
<1>6. CASE SetInitialPassword(r)
  BY <1>1, <1>3, <1>6 DEF SetInitialPassword
<1>7. CASE ClearSession(r)
  BY <1>1, <1>3, <1>7 DEF ClearSession
<1>8. ASSUME NEW new \in Chosen, UpdatePassword(r, new)
      PROVE  DisabledIsMarked'
  BY <1>1, <1>3, <1>8 DEF UpdatePassword
<1>9. CASE UNCHANGED signedOut
  BY <1>2, <1>3, <1>9
<1>10. QED
  BY <1>4, <1>5, <1>6, <1>7, <1>8, <1>9
     DEF Step, Refresh, StoreSession, CheckBlacklist, Authorise, Serve,
         ListInMemory, ListInRedis, ReadForPassword, VerifyPassword, ConfirmReset,
         Fail

LEMMA SessionStep ==
    ASSUME SessionInv, [Next]_vars
    PROVE  SessionInv'
<1>1. TypeOK'
  BY TypeStep DEF SessionInv
<1> SUFFICES SignedOutStays' /\ DisabledIsMarked'
  BY <1>1 DEF SessionInv
<1>2. ASSUME NEW r \in Requests, Step(r)
      PROVE  SignedOutStays' /\ DisabledIsMarked'
  BY <1>2, SignedOutStep, MarkedStep DEF SessionInv
<1>3. ASSUME NEW status \in Statuses, UpdateUserStatus(status)
      PROVE  SignedOutStays' /\ DisabledIsMarked'
  <2>1. NobodyStarts
    BY <1>3 DEF UpdateUserStatus, NobodyStarts, OnItsWay
  <2>2. CASE status = "active"
    <3>1. user'.slot = user.slot /\ user'.status = "active"
      BY <1>3, <2>2 DEF UpdateUserStatus, SessionInv, TypeOK
    <3>2. signedOut' = signedOut
      BY <1>3, <2>2 DEF UpdateUserStatus
    <3>3. SignedOutStays'
      BY <2>1, <3>1, <3>2, QuietKeeps DEF SessionInv
    <3>4. QED
      BY <3>1, <3>3 DEF DisabledIsMarked
  <2>3. CASE status # "active"
    <3>1. user'.slot = ClearSlots(Clients)
      BY <1>3, <2>3 DEF UpdateUserStatus, SessionInv, TypeOK
    <3>2. Revoke(Clients)
      BY <1>3, <2>3 DEF UpdateUserStatus
    <3>3. SignedOutStays'
      BY <2>1, <3>1, <3>2, RevokeKeeps DEF SessionInv
    <3>4. QED
      BY <3>2, <3>3 DEF DisabledIsMarked, Revoke
  <2>4. QED
    BY <2>2, <2>3
<1>4. CASE ForceLogout
  <2>1. user'.slot = ClearSlots(Clients) /\ user'.status = user.status
    BY <1>4 DEF ForceLogout, SessionInv, TypeOK
  <2>2. NobodyStarts /\ Revoke(Clients)
    BY <1>4 DEF ForceLogout, NobodyStarts, OnItsWay
  <2>3. SignedOutStays'
    BY <2>1, <2>2, RevokeKeeps DEF SessionInv
  <2>4. QED
    BY <2>1, <2>2, <2>3 DEF DisabledIsMarked, Revoke
<1>5. ASSUME NEW t \in Tokens, ExpireToken(t)
      PROVE  SignedOutStays' /\ DisabledIsMarked'
  BY <1>5 DEF ExpireToken, SessionInv, SignedOutStays, DisabledIsMarked, OnItsWay
<1>6. CASE Restart
  <2>1. NobodyStarts
    BY <1>6 DEF Restart, NobodyStarts, OnItsWay, Idle
  <2>2. QED
    BY <1>6, <2>1, QuietKeeps DEF Restart, SessionInv, DisabledIsMarked
<1>7. CASE UNCHANGED vars
  BY <1>7 DEF vars, SessionInv, SignedOutStays, DisabledIsMarked, OnItsWay
<1>8. QED
  BY <1>2, <1>3, <1>4, <1>5, <1>6, <1>7 DEF Next

THEOREM SessionsInductive == Spec => []SessionInv
<1>1. Init => SessionInv
  BY SessionsAssumption
     DEF Init, SessionInv, TypeOK, Request, Places, Passwords, Statuses, Operations,
         Idle, WithToken, SignedOutStays, DisabledIsMarked
<1>2. SessionInv /\ [Next]_vars => SessionInv'
  BY SessionStep
<1>3. QED
  BY <1>1, <1>2, PTL DEF Spec

\* A revoked session does not come back before the next login, but for a
\* request that was on its way when it was revoked.
THEOREM RevokedStaysRevoked == Spec => []SignedOutStays
<1>1. SessionInv => SignedOutStays
  BY DEF SessionInv
<1>2. QED
  BY <1>1, SessionsInductive, PTL

\* A disabled user holds no session but one that was overtaken.
THEOREM DisabledSignedOut == Spec => []DisabledIsSignedOut
<1>1. SessionInv => DisabledIsSignedOut
  BY DEF SessionInv, SignedOutStays, DisabledIsMarked, DisabledIsSignedOut, TypeOK
<1>2. QED
  BY <1>1, SessionsInductive, PTL

-----------------------------------------------------------------------------
(* The blacklist and the passwords                                         *)

\* If Redis has always answered it holds every token that was logged out.
LoggedOutKept == faults = 0 => loggedOut \subseteq redisList

\* A request on its way to set the initial password has been overtaken if
\* there is a chosen password by now.
OvertakenIfChosen ==
    \A r \in Requests : req[r].at = "initial" /\ user.password \in Chosen
                         => req[r].overtaken

ListInv == TypeOK /\ LoggedOutKept /\ OvertakenIfChosen

LEMMA LoggedOutStep ==
    ASSUME TypeOK, LoggedOutKept, [Next]_vars
    PROVE  LoggedOutKept'
<1>0. faults \in Nat
  BY SessionsAssumption DEF TypeOK
<1>1. faults' = faults \/ faults' = faults + 1
  BY DEF Next, Step, vars, lists, LoginLocal, LoginOAuth,
     SetInitialPassword, Refresh, StoreSession, CheckBlacklist, Authorise, Serve,
     ClearSession, ListInMemory, ListInRedis, ReadForPassword, VerifyPassword,
     ConfirmReset, UpdatePassword, Fail, UpdateUserStatus, ForceLogout, ExpireToken,
     Restart
<1>2. CASE UNCHANGED <<loggedOut, redisList>>
  BY <1>0, <1>1, <1>2 DEF LoggedOutKept
<1>3. ASSUME NEW r \in Requests, ListInRedis(r)
      PROVE  LoggedOutKept'
  BY <1>0, <1>1, <1>3 DEF ListInRedis, LoggedOutKept
<1>4. ASSUME NEW t \in Tokens, ExpireToken(t)
      PROVE  LoggedOutKept'
  BY <1>4 DEF ExpireToken, LoggedOutKept
<1>5. QED
  BY <1>2, <1>3, <1>4
     DEF Next, Step, vars, lists, LoginLocal, LoginOAuth, SetInitialPassword, Refresh,
         StoreSession, CheckBlacklist, Authorise, Serve, ClearSession, ListInMemory,
         ReadForPassword, VerifyPassword, ConfirmReset, UpdatePassword, Fail,
         UpdateUserStatus, ForceLogout, Restart

LEMMA OvertakenStep ==
    ASSUME TypeOK, OvertakenIfChosen, [Next]_vars
    PROVE  OvertakenIfChosen'
<1> USE SessionsAssumption
<1>1. ASSUME user'.password = user.password,
             \A q \in Requests : req'[q].at = "initial"
                                => req'[q] = req[q] \/ user.password = NoPassword
      PROVE  OvertakenIfChosen'
  BY <1>1 DEF OvertakenIfChosen
<1>2. ASSUME NEW r \in Requests, Finish(r)
      PROVE  \A q \in Requests : req'[q].at = "initial" => req'[q] = req[q]
  BY <1>2 DEF TypeOK, Finish, Idle
<1>3. ASSUME NEW r \in Requests, NEW place \in Places \ {"initial"}, Move(r, place)
      PROVE  \A q \in Requests : req'[q].at = "initial" => req'[q] = req[q]
  BY <1>3 DEF TypeOK, Move, Request
<1>4. ASSUME NEW r \in Requests, NEW c \in Clients, Accept(r, c), user' = user
      PROVE  OvertakenIfChosen'
  <2>1. \A q \in Requests : req'[q].at = "initial" => req'[q] = req[q]
    BY <1>4 DEF TypeOK, Accept, Idle
  <2>2. QED
    BY <1>1, <1>4, <2>1
<1>5. ASSUME NEW r \in Requests, NEW c \in Clients, SetsInitial(r, c), user' = user,
             user.password = NoPassword
      PROVE  OvertakenIfChosen'
  BY <1>1, <1>5
<1>6. ASSUME NEW r \in Requests, Step(r)
      PROVE  OvertakenIfChosen'
  <2>1. ASSUME NEW c \in Clients, NEW p \in Passwords, LoginLocal(r, c, p)
        PROVE  OvertakenIfChosen'
    BY <1>4, <1>5, <2>1 DEF LoginLocal
  <2>2. CASE LoginOAuth(r)
    BY <1>4, <1>5, <2>2 DEF LoginOAuth
  <2>3. CASE SetInitialPassword(r)
    <3>1. user'.password = Initial
      BY <2>3 DEF SetInitialPassword, TypeOK
    <3>2. QED
      BY <3>1 DEF OvertakenIfChosen
  <2>4. ASSUME NEW c \in Clients, Refresh(r, c)
        PROVE  OvertakenIfChosen'
    <3>1. \A q \in Requests : req'[q].at = "initial" => req'[q] = req[q]
      BY <2>4 DEF TypeOK, Refresh, Idle
    <3>2. QED
      BY <1>1, <2>4, <3>1 DEF Refresh
  <2>5. CASE StoreSession(r)
    <3>1. user'.password = user.password
      BY <2>5 DEF StoreSession, TypeOK
    <3>2. QED
      BY <1>1, <1>2, <2>5, <3>1 DEF StoreSession
  <2>6. ASSUME NEW t \in Tokens, NEW op \in Operations, CheckBlacklist(r, t, op)
        PROVE  OvertakenIfChosen'
    <3>1. \A q \in Requests : req'[q].at = "initial" => req'[q] = req[q]
      BY <2>6 DEF TypeOK, CheckBlacklist, Idle
    <3>2. QED
      BY <1>1, <2>6, <3>1 DEF CheckBlacklist
  <2>7. CASE ClearSession(r)
    <3>1. user'.password = user.password
      BY <2>7 DEF ClearSession, TypeOK
    <3>2. QED
      BY <1>1, <1>3, <2>7, <3>1 DEF ClearSession, Places
  <2>8. ASSUME NEW new \in Chosen, UpdatePassword(r, new)
        PROVE  OvertakenIfChosen'
    <3>1. \A q \in Requests : [req[q] EXCEPT !.overtaken = @ \/ req[q].at = "initial"]
             = [req[q] EXCEPT !.overtaken = req[q].overtaken \/ req[q].at = "initial"]
      OBVIOUS
    <3>2. \A q \in Requests : \A b \in BOOLEAN :
            /\ [req[q] EXCEPT !.overtaken = b].at = req[q].at
            /\ [req[q] EXCEPT !.overtaken = b].overtaken = b
      BY DEF TypeOK, Request
    <3>3. \A q \in Requests : (req[q].overtaken \/ req[q].at = "initial") \in BOOLEAN
      BY DEF TypeOK, Request
    <3>4. \A q \in Requests \ {r} : req'[q].at = "initial" => req'[q].overtaken
      BY <2>8, <3>2, <3>3 DEF UpdatePassword
    <3>5. req'[r].at = "idle"
      BY <2>8 DEF UpdatePassword, Idle
    <3>6. QED
      BY <3>4, <3>5 DEF OvertakenIfChosen
  <2>9. CASE user' = user /\ (Finish(r) \/ \E place \in Places \ {"initial"} : Move(r, place))
    BY <1>1, <1>2, <1>3, <2>9
  <2>10. QED
    BY <1>6, <2>1, <2>2, <2>3, <2>4, <2>5, <2>6, <2>7, <2>8, <2>9
       DEF Step, Authorise, Serve, ListInMemory, ListInRedis, ReadForPassword,
           VerifyPassword, ConfirmReset, Fail, Places
<1>7. CASE \E status \in Statuses : UpdateUserStatus(status)
  BY <1>7 DEF UpdateUserStatus, OvertakenIfChosen, TypeOK
<1>8. CASE ForceLogout
  BY <1>8 DEF ForceLogout, OvertakenIfChosen, TypeOK
<1>9. CASE \E t \in Tokens : ExpireToken(t)
  BY <1>9 DEF ExpireToken, OvertakenIfChosen
<1>10. CASE Restart
  BY <1>10 DEF Restart, OvertakenIfChosen, Idle
<1>11. CASE UNCHANGED vars
  BY <1>11 DEF vars, OvertakenIfChosen
<1>12. QED
  BY <1>6, <1>7, <1>8, <1>9, <1>10, <1>11 DEF Next

THEOREM ListInductive == Spec => []ListInv
<1>1. Init => ListInv
  BY SessionsAssumption
     DEF Init, ListInv, TypeOK, Request, Places, Passwords, Statuses, Operations,
         Idle, WithToken, LoggedOutKept, OvertakenIfChosen
<1>2. ListInv /\ [Next]_vars => ListInv'
  BY TypeStep, LoggedOutStep, OvertakenStep DEF ListInv
<1>3. QED
  BY <1>1, <1>2, PTL DEF Spec

\* A token whose logout has returned passes the blacklist only if a call to
\* Redis has failed.
THEOREM LoggedOutRefused == Spec => LoggedOutIsRefused
<1> DEFINE Refused ==
      \A r \in Requests : req'[r].at = "checked" /\ req'[r].at # req[r].at
        => req'[r].token \notin loggedOut \/ faults' > 0
<1>1. ASSUME ListInv, [Next]_vars
      PROVE  Refused
  <2> SUFFICES ASSUME NEW q \in Requests,
                      req'[q].at = "checked", req'[q].at # req[q].at
               PROVE  req'[q].token \notin loggedOut \/ faults' > 0
    OBVIOUS
  <2>0. TypeOK /\ LoggedOutKept /\ faults \in Nat
    BY <1>1, SessionsAssumption DEF ListInv, TypeOK
  <2>1. ASSUME NEW r \in Requests, NEW t \in Tokens, NEW op \in Operations,
               CheckBlacklist(r, t, op)
        PROVE  req'[q].token \notin loggedOut \/ faults' > 0
    <3>1. req'[q].token = t
      BY <2>0, <2>1 DEF TypeOK, CheckBlacklist, Idle
    <3>2. CASE faults' = faults + 1
      BY <2>0, <3>2
    <3>3. CASE t \notin redisList /\ faults' = faults
      <4>1. faults = 0 => t \notin loggedOut
        BY <2>0, <3>3 DEF LoggedOutKept
      <4>2. QED
        BY <2>0, <3>1, <3>3, <4>1
    <3>4. QED
      BY <2>1, <3>2, <3>3 DEF CheckBlacklist
  <2>2. ASSUME NEW r \in Requests, Finish(r)
        PROVE  req'[q] = req[q] \/ req'[q].at = "idle"
    BY <2>0, <2>2 DEF TypeOK, Finish, Idle
  <2>3. ASSUME NEW r \in Requests, NEW place \in Places \ {"checked"}, Move(r, place)
        PROVE  req'[q] = req[q] \/ req'[q].at = place
    BY <2>0, <2>3 DEF TypeOK, Move, Request
  <2>4. ASSUME NEW r \in Requests, NEW c \in Clients,
               Accept(r, c) \/ SetsInitial(r, c) \/ Refresh(r, c)
        PROVE  FALSE
    <3>1. CASE Accept(r, c)
      BY <2>0, <3>1 DEF TypeOK, Accept, Idle
    <3>2. CASE SetsInitial(r, c)
      BY <2>0, <3>2 DEF TypeOK, SetsInitial, Idle
    <3>3. CASE Refresh(r, c)
      BY <2>0, <3>3 DEF TypeOK, Refresh, Idle
    <3>4. QED
      BY <2>4, <3>1, <3>2, <3>3
  <2>5. ASSUME NEW r \in Requests, NEW new \in Chosen, UpdatePassword(r, new)
        PROVE  FALSE
    <3>1. \A b : [req[q] EXCEPT !.overtaken = b].at = req[q].at
      BY <2>0 DEF TypeOK, Request
    <3>2. QED
      BY <2>5, <3>1 DEF UpdatePassword, Idle
  <2>6. CASE Restart
    BY <2>6 DEF Restart, Idle
  <2>7. CASE UNCHANGED req
    BY <2>7
  <2>8. QED
    BY <1>1, <2>1, <2>2, <2>3, <2>4, <2>5, <2>6, <2>7, SessionsAssumption
       DEF Next, Step, vars, LoginLocal, LoginOAuth, SetInitialPassword,
           StoreSession, Authorise, Serve, ClearSession, ListInMemory, ListInRedis,
           ReadForPassword, VerifyPassword, ConfirmReset, Fail, UpdateUserStatus,
           ForceLogout, ExpireToken, Places
<1>2. [][Refused]_vars <=> LoggedOutIsRefused
  BY PTL DEF LoggedOutIsRefused
<1>3. QED
  BY <1>1, <1>2, ListInductive, PTL DEF Spec

\* The initial password replaces a chosen one only for a login that was
\* overtaken by the choice.
THEOREM ChosenStays == Spec => ChosenPasswordStays
<1> DEFINE Stays ==
      user.password \in Chosen /\ user'.password = Initial
        => \E r \in Requests : req[r].at = "initial" /\ req[r].overtaken
<1>1. ASSUME ListInv, [Next]_vars
      PROVE  Stays
  <2> SUFFICES ASSUME user.password \in Chosen, user'.password = Initial
               PROVE  \E r \in Requests : req[r].at = "initial" /\ req[r].overtaken
    OBVIOUS
  <2>0. user.password # Initial
    BY SessionsAssumption
  <2>1. ASSUME NEW r \in Requests, SetInitialPassword(r)
        PROVE  req[r].at = "initial" /\ req[r].overtaken
    BY <1>1, <2>1 DEF SetInitialPassword, ListInv, OvertakenIfChosen
  <2>2. ASSUME NEW r \in Requests, NEW new \in Chosen, UpdatePassword(r, new)
        PROVE  FALSE
    BY <1>1, <2>2, SessionsAssumption DEF UpdatePassword, ListInv, TypeOK
  <2>3. CASE user'.password = user.password
    BY <2>0, <2>3
  <2>4. QED
    BY <1>1, <2>1, <2>2, <2>3
       DEF ListInv, TypeOK, Next, Step, vars, LoginLocal, LoginOAuth, Refresh,
           StoreSession, CheckBlacklist, Authorise, Serve, ClearSession,
           ListInMemory, ListInRedis, ReadForPassword, VerifyPassword, ConfirmReset,
           Fail, UpdateUserStatus, ForceLogout, ExpireToken, Restart
<1>2. [][Stays]_vars <=> ChosenPasswordStays
  BY PTL DEF ChosenPasswordStays
<1>3. QED
  BY <1>1, <1>2, ListInductive, PTL DEF Spec

\* A session that was signed out, or whose user was disabled, stays ended.
THEOREM EndedStaysEnded == Spec => []EndedSessionsStayEnded
BY RevokedStaysRevoked, DisabledSignedOut, PTL DEF EndedSessionsStayEnded

=============================================================================
