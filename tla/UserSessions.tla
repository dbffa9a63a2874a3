---------------------------- MODULE UserSessions ----------------------------
(***************************************************************************)
(* The sessions of one user: the row of "users" that holds a status, a     *)
(* password and one refresh-token hash per client, and the list of access  *)
(* tokens that were logged out (auth.service.ts, users.service.ts,         *)
(* access-token-blacklist.service.ts, jwt.strategy.ts, admin.controller).  *)
(*                                                                         *)
(* A request reads the row, awaits (password hashing, the audit row, the   *)
(* rate limit) and then updates some of its columns; every column update   *)
(* is one SQL statement.  A refresh-token slot is kept as held or empty:   *)
(* bcrypt compares the first 72 bytes, which in these tokens are the       *)
(* header and the start of the user id, so a slot that holds a hash        *)
(* accepts every unexpired refresh token of the user and client.           *)
(***************************************************************************)
EXTENDS Naturals, FiniteSets

CONSTANTS Requests,     \* requests handled at the same time
          Clients,      \* user-web and user-app, one slot each
          Web,          \* the client of an OAuth login
          Tokens,       \* access tokens, by jti
          Chosen,       \* passwords a user chooses
          NoPassword,   \* passwordHash is null
          Initial,      \* getOAuthInitialPassword()
          NoToken,
          MaxFaults     \* bound on Redis calls that fail

ASSUME SessionsAssumption ==
    /\ Web \in Clients
    /\ NoPassword # Initial
    /\ NoPassword \notin Chosen
    /\ Initial \notin Chosen
    /\ NoToken \notin Tokens
    /\ MaxFaults \in Nat

VARIABLES user,         \* the row: status, password, slot per client
          req,          \* where each request is and what it has read
          owner,        \* the client an unexpired access token was issued to
          memoryList,   \* memoryStore of the blacklist
          redisList,    \* auth:access-blacklist:* in Redis
          loggedOut,    \* history: unexpired tokens whose logout has returned
          signedOut,    \* history: has the client's session been revoked?
          faults

vars == <<user, req, owner, memoryList, redisList, loggedOut, signedOut, faults>>
lists == <<owner, memoryList, redisList, loggedOut, faults>>

Statuses == {"active", "disabled"}
Passwords == Chosen \union {NoPassword, Initial}
Operations == {"use", "logout", "password"}
Places == {"idle", "initial", "storing", "checked", "authorised", "verifying",
           "hashing", "cleared", "listed"}

\* overtaken is history: a password was chosen while the request was on its
\* way to set the initial one.
Request == [at : Places, client : Clients, token : Tokens \union {NoToken},
            op : Operations, active : BOOLEAN, overtaken : BOOLEAN]

Idle(c) == [at |-> "idle", client |-> c, token |-> NoToken, op |-> "use",
            active |-> FALSE, overtaken |-> FALSE]
Finish(r) == req' = [req EXCEPT ![r] = Idle(req[r].client)]
Move(r, place) == req' = [req EXCEPT ![r].at = place]
IsActive == user.status = "active"

\* A request that will store a session for c whatever happens to the row.
OnItsWay(q, c) ==
    /\ req[q].client = c
    /\ req[q].at = "storing" \/ (req[q].at = "initial" /\ req[q].active)

\* The sessions of the clients in cs are revoked; the revocation is "raced"
\* when a login or refresh that has read the row is still to store a session.
Revoke(cs) ==
    signedOut' = [c \in Clients |->
        IF c \notin cs THEN signedOut[c]
        ELSE IF \E q \in Requests : OnItsWay(q, c) THEN "raced" ELSE "revoked"]

ClearSlots(cs) == [c \in Clients |-> c \notin cs /\ user.slot[c]]

-----------------------------------------------------------------------------
(* Logging in                                                              *)

\* A login that is accepted: the user is asked for the password again, so
\* the client is no longer signed out.
Accept(r, c) ==
    /\ req' = [req EXCEPT ![r] = [Idle(c) EXCEPT !.at = "storing"]]
    /\ signedOut' = [signedOut EXCEPT ![c] = "no"]

\* The row has no password: updatePassword comes before assertUserActive,
\* which decides on the row read here.
SetsInitial(r, c) ==
    /\ req' = [req EXCEPT ![r] =
                 [Idle(c) EXCEPT !.at = "initial", !.active = IsActive]]
    /\ signedOut' = IF IsActive THEN [signedOut EXCEPT ![c] = "no"] ELSE signedOut

\* loginUser: validateLocalPassword reads the row and compares; an account
\* without a password is entered with the initial one.  Refused requests
\* change nothing and are left out.
LoginLocal(r, c, entered) ==
    /\ req[r].at = "idle"
    /\ \/ /\ user.password = entered
          /\ IsActive
          /\ Accept(r, c)
       \/ /\ user.password = NoPassword
          /\ entered = Initial
          /\ SetsInitial(r, c)
    /\ UNCHANGED <<user, lists>>

\* Mutant: a password is set whether or not there is one.
LoginAlwaysInitial(r) ==
    /\ req[r].at = "idle"
    /\ SetsInitial(r, Web)
    /\ UNCHANGED <<user, lists>>

\* Mutant: assertUserActive is left out.
LoginAnyStatus(r) ==
    /\ req[r].at = "idle"
    /\ \/ /\ user.password # NoPassword
          /\ req' = [req EXCEPT ![r] = [Idle(Web) EXCEPT !.at = "storing"]]
          /\ signedOut' = [signedOut EXCEPT ![Web] = "no"]
       \/ /\ user.password = NoPassword
          /\ SetsInitial(r, Web)
    /\ UNCHANGED <<user, lists>>

\* authenticateOAuth for an identity that is linked to the user.
LoginOAuth(r) ==
    /\ req[r].at = "idle"
    /\ \/ /\ user.password # NoPassword
          /\ IsActive
          /\ Accept(r, Web)
       \/ /\ user.password = NoPassword
          /\ SetsInitial(r, Web)
    /\ UNCHANGED <<user, lists>>

\* ensureOAuthDefaultPassword and tryBootstrapOAuthPasswordLogin after the
\* hash: updatePassword, then assertUserActive on the row read before.
SetInitialPassword(r) ==
    /\ req[r].at = "initial"
    /\ user' = [user EXCEPT !.password = Initial, !.slot = ClearSlots(Clients)]
    /\ Revoke(Clients)
    /\ IF req[r].active THEN Move(r, "storing") ELSE Finish(r)
    /\ UNCHANGED lists

\* refreshTokens: the slot of the client is held and the user is active.
Refresh(r, c) ==
    /\ req[r].at = "idle"
    /\ user.slot[c]
    /\ IsActive
    /\ req' = [req EXCEPT ![r] = [Idle(c) EXCEPT !.at = "storing"]]
    /\ UNCHANGED <<user, signedOut, lists>>

\* setRefreshToken after the hash; the access token reaches the client.
StoreSession(r) ==
    /\ req[r].at = "storing"
    /\ user' = [user EXCEPT !.slot[req[r].client] = TRUE]
    /\ \E t \in Tokens :
         /\ owner[t] = NoToken
         /\ \A q \in Requests : req[q].token # t
         /\ owner' = [owner EXCEPT ![t] = req[r].client]
    /\ Finish(r)
    /\ UNCHANGED <<memoryList, redisList, loggedOut, signedOut, faults>>

-----------------------------------------------------------------------------
(* Requests that carry an access token                                     *)

\* AccessTokenBlacklistService.has: memory first, then Redis; a read that
\* fails counts as not listed.
CheckBlacklist(r, t, op) ==
    /\ req[r].at = "idle"
    /\ owner[t] # NoToken
    /\ t \notin memoryList
    /\ \/ /\ t \notin redisList
          /\ UNCHANGED faults
       \/ /\ faults < MaxFaults
          /\ faults' = faults + 1
    /\ req' = [req EXCEPT ![r] =
                 [Idle(owner[t]) EXCEPT !.at = "checked", !.token = t, !.op = op]]
    /\ UNCHANGED <<user, owner, memoryList, redisList, loggedOut, signedOut>>

\* JwtStrategy.validate: findById after the blacklist.
Authorise(r) ==
    /\ req[r].at = "checked"
    /\ IF IsActive THEN Move(r, "authorised") ELSE Finish(r)
    /\ UNCHANGED <<user, signedOut, lists>>

\* Any other guarded endpoint is served and changes none of this state.
Serve(r) ==
    /\ req[r].at = "authorised" /\ req[r].op = "use"
    /\ Finish(r)
    /\ UNCHANGED <<user, signedOut, lists>>

\* logout: setRefreshToken(null) for the client of the token ...
ClearSession(r) ==
    /\ req[r].at = "authorised" /\ req[r].op = "logout"
    /\ user' = [user EXCEPT !.slot = ClearSlots({req[r].client})]
    /\ Revoke({req[r].client})
    /\ Move(r, "cleared")
    /\ UNCHANGED lists

\* Mutant: the remaining lifetime is not looked at.
ListExpiredToo(r) ==
    /\ req[r].at = "cleared"
    /\ Move(r, "listed")
    /\ memoryList' = memoryList \union {req[r].token}
    /\ UNCHANGED <<user, owner, redisList, loggedOut, signedOut, faults>>

\* ... then blacklist: memory at once (unless the token has expired) ...
ListInMemory(r) ==
    /\ req[r].at = "cleared"
    /\ IF owner[req[r].token] = NoToken
         THEN /\ Finish(r) /\ UNCHANGED memoryList
         ELSE /\ Move(r, "listed")
              /\ memoryList' = memoryList \union {req[r].token}
    /\ UNCHANGED <<user, owner, redisList, loggedOut, signedOut, faults>>

\* Mutant: only this process remembers the token.
ListInMemoryOnly(r) ==
    /\ req[r].at = "listed"
    /\ loggedOut' = loggedOut \union {t \in {req[r].token} : owner[t] # NoToken}
    /\ Finish(r)
    /\ UNCHANGED <<user, owner, memoryList, redisList, signedOut, faults>>

\* ... and Redis, whose failure is logged and ignored.  An entry written for
\* a token that has expired meanwhile concerns no request.
ListInRedis(r) ==
    LET live == {t \in {req[r].token} : owner[t] # NoToken}
    IN  /\ req[r].at = "listed"
        /\ loggedOut' = loggedOut \union live
        /\ \/ /\ redisList' = redisList \union live
              /\ UNCHANGED faults
           \/ /\ faults < MaxFaults
              /\ faults' = faults + 1
              /\ UNCHANGED redisList
        /\ Finish(r)
        /\ UNCHANGED <<user, owner, memoryList, signedOut>>

\* changeCurrentUserPassword: findById, the user must be active ...
ReadForPassword(r) ==
    /\ req[r].at = "authorised" /\ req[r].op = "password"
    /\ IF IsActive THEN Move(r, "verifying") ELSE Finish(r)
    /\ UNCHANGED <<user, signedOut, lists>>

\* ... verifyCurrentPassword reads the row once more ...
VerifyPassword(r, entered) ==
    /\ req[r].at = "verifying"
    /\ IF user.password = entered /\ entered # NoPassword
         THEN Move(r, "hashing") ELSE Finish(r)
    /\ UNCHANGED <<user, signedOut, lists>>

\* confirmPasswordReset: the token's row is read with its user, who must be
\* active, and is marked used.
ConfirmReset(r) ==
    /\ req[r].at = "idle"
    /\ IsActive
    /\ Move(r, "hashing")
    /\ UNCHANGED <<user, signedOut, lists>>

\* Mutant: the app's slot is forgotten.
UpdatePasswordWebOnly(r, new) ==
    /\ req[r].at = "hashing"
    /\ user' = [user EXCEPT !.password = new, !.slot = ClearSlots({Web})]
    /\ Revoke(Clients)
    /\ req' = [q \in Requests |->
                 IF q = r THEN Idle(req[r].client)
                 ELSE [req[q] EXCEPT !.overtaken = @ \/ req[q].at = "initial"]]
    /\ UNCHANGED lists

\* updatePassword after the hash, for a changed and for a reset password.
UpdatePassword(r, new) ==
    /\ req[r].at = "hashing"
    /\ user' = [user EXCEPT !.password = new, !.slot = ClearSlots(Clients)]
    /\ Revoke(Clients)
    /\ req' = [q \in Requests |->
                 IF q = r THEN Idle(req[r].client)
                 ELSE [req[q] EXCEPT !.overtaken = @ \/ req[q].at = "initial"]]
    /\ UNCHANGED lists

\* An await rejects (the audit row, the database, the rate limit): the
\* request ends with what it has done so far.  Not inside blacklist(), whose
\* only await is caught.
Fail(r) ==
    /\ req[r].at \notin {"idle", "listed"}
    /\ Finish(r)
    /\ UNCHANGED <<user, signedOut, lists>>

-----------------------------------------------------------------------------
(* The administrator, the clock and the process                            *)

\* PATCH admin/users/:userId/status.
UpdateUserStatus(status) ==
    /\ user' = [user EXCEPT !.status = status,
                            !.slot = IF status = "active" THEN @
                                     ELSE ClearSlots(Clients)]
    /\ IF status = "active" THEN UNCHANGED signedOut ELSE Revoke(Clients)
    /\ UNCHANGED <<req, lists>>

\* POST admin/users/:userId/force-logout.
ForceLogout ==
    /\ user' = [user EXCEPT !.slot = ClearSlots(Clients)]
    /\ Revoke(Clients)
    /\ UNCHANGED <<req, lists>>

\* An access token expires, and the entries that have its lifetime with it.
ExpireToken(t) ==
    /\ owner[t] # NoToken
    /\ owner' = [owner EXCEPT ![t] = NoToken]
    /\ memoryList' = memoryList \ {t}
    /\ redisList' = redisList \ {t}
    /\ loggedOut' = loggedOut \ {t}
    /\ UNCHANGED <<user, req, signedOut, faults>>

\* The process dies and is started again; rows and Redis remain.
Restart ==
    /\ req' = [r \in Requests |-> Idle(req[r].client)]
    /\ memoryList' = {}
    /\ UNCHANGED <<user, owner, redisList, loggedOut, signedOut, faults>>

-----------------------------------------------------------------------------
\* registerUser and createOAuthUser create an active user; a row without a
\* password was created by an OAuth login of an earlier release.
Init ==
    /\ \E p \in Passwords :
         user = [status |-> "active", password |-> p,
                 slot |-> [c \in Clients |-> FALSE]]
    /\ req = [r \in Requests |-> Idle(Web)]
    /\ owner = [t \in Tokens |-> NoToken]
    /\ memoryList = {} /\ redisList = {} /\ loggedOut = {}
    /\ signedOut = [c \in Clients |-> "no"]
    /\ faults = 0

Step(r) ==
    \/ \E c \in Clients, p \in Passwords \ {NoPassword} : LoginLocal(r, c, p)
    \/ LoginOAuth(r)
    \/ SetInitialPassword(r)
    \/ \E c \in Clients : Refresh(r, c)
    \/ StoreSession(r)
    \/ \E t \in Tokens, op \in Operations : CheckBlacklist(r, t, op)
    \/ Authorise(r)
    \/ Serve(r)
    \/ ClearSession(r)
    \/ ListInMemory(r)
    \/ ListInRedis(r)
    \/ ReadForPassword(r)
    \/ \E p \in Passwords : VerifyPassword(r, p)
    \/ ConfirmReset(r)
    \/ \E new \in Chosen : UpdatePassword(r, new)
    \/ Fail(r)

Next ==
    \/ \E r \in Requests : Step(r)
    \/ \E status \in Statuses : UpdateUserStatus(status)
    \/ ForceLogout
    \/ \E t \in Tokens : ExpireToken(t)
    \/ Restart

Spec == Init /\ [][Next]_vars

-----------------------------------------------------------------------------
\* The places of a request that came with an access token.
WithToken == {"checked", "authorised", "verifying", "cleared", "listed"}

\* Entries of the blacklist are of tokens that have not expired.
TypeOK ==
    /\ user \in [status : Statuses, password : Passwords,
                 slot : [Clients -> BOOLEAN]]
    /\ req \in [Requests -> Request]
    /\ \A r \in Requests : req[r].at \in WithToken => req[r].token \in Tokens
    /\ owner \in [Tokens -> Clients \union {NoToken}]
    /\ memoryList \union redisList \union loggedOut
         \subseteq {t \in Tokens : owner[t] # NoToken}
    /\ signedOut \in [Clients -> {"no", "revoked", "raced"}]
    /\ faults \in 0 .. MaxFaults

\* A client whose session was revoked - by a logout, a forced logout, a new
\* password or a status change - has no session again before the next login,
\* unless a login or refresh that had read the row before is stored after it.
SignedOutStays ==
    \A c \in Clients : signedOut[c] = "revoked" =>
        /\ ~ user.slot[c]
        /\ \A q \in Requests : ~ OnItsWay(q, c)

\* A suspended or banned user holds no session but one stored by a request
\* that the status change has overtaken (users.service.ts:309 revokes the
\* tokens "so the user is immediately signed out").
DisabledIsSignedOut ==
    user.status = "disabled" =>
        \A c \in Clients : user.slot[c] => signedOut[c] = "raced"

\* An access token whose logout has returned is refused, through restarts of
\* the process, for as long as it lives, if Redis answers.
LoggedOutIsRefused ==
    [][\A r \in Requests :
         req'[r].at = "checked" /\ req'[r].at # req[r].at
           => req'[r].token \notin loggedOut \/ faults' > 0]_vars

\* The initial password replaces no password the user has chosen, unless it
\* was chosen while the login that sets the initial one was under way.
ChosenPasswordStays ==
    [][user.password \in Chosen /\ user'.password = Initial
         => \E r \in Requests : req[r].at = "initial" /\ req[r].overtaken]_vars

\* No session outlives what ended it: its sign-out, a new password, or the
\* disabling of its user.
EndedSessionsStayEnded == SignedOutStays /\ DisabledIsSignedOut

=============================================================================
