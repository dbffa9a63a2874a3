------------------------------ MODULE Identities ------------------------------
(***************************************************************************)
(* User accounts and the identities of providers linked to them:           *)
(* registration, sign-in through a provider (authenticateOAuth), and the   *)
(* linking of a provider with a link token. Whether a name, an address or  *)
(* an identity is free is asked by statements of their own before the row  *)
(* is inserted; the unique columns decide between two requests.            *)
(*                                                                         *)
(* A login account may be an e-mail address, so accounts and addresses are *)
(* drawn from one set. Accounts are active: refusing one that is not ends  *)
(* a request like a failure does. Sessions are UserSessions' matter.       *)
(***************************************************************************)
EXTENDS Integers, FiniteSets

CONSTANTS
    Names,        \* accounts and addresses, in lower case
    Profiles,     \* what a provider may tell: [provider, id, email]
    Requests,     \* HTTP requests that may be under way
    MaxUsers      \* bound: users ever inserted

VARIABLES
    user,         \* user[u]: the row of user u
    identities,   \* the rows of user_oauth_identities
    tokens,       \* link tokens signed; one that has expired is one not used
    request,      \* request[r]: how far request r is
    made,         \* ghost: made[u]: the identity u was created for, if any
    overtaken     \* ghost: requests whose copy of a row has missed a password

rows == <<user, identities>>
vars == <<rows, tokens, request, made, overtaken>>

-----------------------------------------------------------------------------
UserIds == 1..MaxUsers
NoName == "none"
NoUser == [account |-> NoName, email |-> NoName, password |-> "none"]
NoOne == 0
Idle == [at |-> "idle"]
Key(p) == [provider |-> p.provider, id |-> p.id]
Linked(u, p) == [owner |-> u, provider |-> p.provider, id |-> p.id]

TypeOK ==
    /\ user \in [UserIds -> [account : Names \cup {NoName}, email : Names \cup {NoName},
                           password : {"none", "initial", "own"}]]
    /\ identities \subseteq {Linked(u, p) : u \in UserIds, p \in Profiles}
    /\ tokens \subseteq [target : UserIds, profile : Profiles]
    /\ \A r \in Requests :
         request[r].at \in {"idle", "register", "profile", "signup", "byProvider",
                            "byUser", "link", "password"}
    /\ overtaken \subseteq Requests

\* A user of an older release may have no password.
Init ==
    /\ \/ user = [u \in UserIds |-> NoUser]
       \/ \E n \in Names, e \in Names \cup {NoName} :
            user = [u \in UserIds |-> IF u = 1 THEN [NoUser EXCEPT !.account = n, !.email = e]
                                       ELSE NoUser]
    /\ identities = {} /\ tokens = {}
    /\ request = [r \in Requests |-> Idle]
    /\ made = [u \in UserIds |-> {}]
    /\ overtaken = {}

Exists(u) == user[u] # NoUser
New == CHOOSE u \in UserIds : ~Exists(u) /\ \A v \in UserIds : ~Exists(v) => u <= v
Room == \E u \in UserIds : ~Exists(u)
FreeAccount(n) == \A u \in UserIds : user[u].account # n
FreeEmail(n, u) == n = NoName \/ \A v \in UserIds \ {u} : user[v].email # n
FreeIdentity(p) == \A i \in identities : Key(i) # Key(p)
FreeProvider(u, p) == \A i \in identities : i.owner # u \/ i.provider # p.provider

\* findByEmail, else findByAccount: NoOne or the users found.
ByEmail(n) ==
    LET byEmail == {u \in UserIds : n # NoName /\ user[u].email = n}
        byAccount == {u \in UserIds : n # NoName /\ user[u].account = n}
    IN  IF byEmail # {} THEN byEmail ELSE byAccount

At(r, place) == request[r].at = place
Goes(r, to) == /\ request' = [request EXCEPT ![r] = to]
               /\ overtaken' = overtaken \ (IF to = Idle THEN {r} ELSE {})
Ends(r) == Goes(r, Idle)

\* ensureOAuthDefaultPassword: a copy without a password leads to an update.
ThenPassword(r, u, issues) ==
    Goes(r, [at |-> "password", user |-> u, none |-> user[u].password = "none",
             issues |-> issues])

-----------------------------------------------------------------------------
(* registerUser                                                            *)

Register(r, n) ==
    /\ At(r, "idle")
    /\ FreeAccount(n)
    /\ Goes(r, [at |-> "register", name |-> n])
    /\ UNCHANGED <<rows, tokens, made>>

CreateLocalUser(r) ==
    /\ At(r, "register")
    /\ \/ /\ Room /\ FreeAccount(request[r].name)
          /\ user' = [user EXCEPT ![New] = [account |-> request[r].name,
                                            email |-> NoName, password |-> "own"]]
       \/ ~FreeAccount(request[r].name) /\ UNCHANGED user
    /\ Ends(r)
    /\ UNCHANGED <<identities, tokens, made>>

-----------------------------------------------------------------------------
(* authenticateOAuth                                                       *)

\* resolveActiveWebUserIdFromRefreshToken: who signs in while a session of
\* theirs is in force is linking; NoOne is not.
MayLink == {NoOne} \cup {u \in UserIds : Exists(u)}

SignInKnown(r, p, linking) ==
    \E i \in identities :
        /\ At(r, "idle")
        /\ Key(i) = Key(p)
        /\ linking \in MayLink \cap {NoOne, i.owner}
        /\ ThenPassword(r, i.owner, {})
        /\ UNCHANGED <<rows, tokens, made>>

SignInUnknown(r, p, linking) ==
    /\ At(r, "idle")
    /\ FreeIdentity(p)
    /\ linking # NoOne \/ p.email # NoName
    /\ linking \in MayLink
    /\ Goes(r, [at |-> "profile", profile |-> p, linking |-> linking])
    /\ UNCHANGED <<rows, tokens, made>>

\* The address decides: it must not be another's when linking; nobody's signs
\* up; somebody's gets a token to link with after a login of that account.
Profile(r) ==
    LET q == request[r]
        found == ByEmail(q.profile.email)
    IN  /\ At(r, "profile")
        /\ \/ /\ q.linking # NoOne /\ found \subseteq {q.linking}
              /\ Goes(r, [at |-> "byProvider", user |-> q.linking,
                          profile |-> q.profile, session |-> TRUE,
                          none |-> user[q.linking].password = "none"])
           \/ /\ q.linking # NoOne /\ ~(found \subseteq {q.linking})
              /\ Ends(r)
           \/ /\ q.linking = NoOne /\ found = {}
              /\ Goes(r, [at |-> "signup", profile |-> q.profile])
           \/ /\ q.linking = NoOne
              /\ \E u \in found :
                    ThenPassword(r, u, {[target |-> u, profile |-> q.profile]})
        /\ UNCHANGED <<rows, tokens, made>>

SignUpFree(p) == FreeAccount(p.email) /\ FreeEmail(p.email, NoOne)
NewOAuthUser(p) == [account |-> p.email, email |-> p.email, password |-> "initial"]

\* Mutant: the user and the identity are saved one after the other.
CreateOAuthUserInTwo(r) ==
    LET p == request[r].profile IN
    /\ At(r, "signup")
    /\ Room \/ ~SignUpFree(p)
    /\ IF SignUpFree(p)
       THEN /\ user' = [user EXCEPT ![New] = NewOAuthUser(p)]
            /\ identities' = IF FreeIdentity(p) THEN identities \cup {Linked(New, p)}
                                                ELSE identities
            /\ made' = [made EXCEPT ![New] = {Key(p)}]
       ELSE UNCHANGED <<rows, made>>
    /\ Ends(r)
    /\ UNCHANGED tokens

\* createOAuthUser: one transaction.
CreateOAuthUser(r) ==
    LET p == request[r].profile
        free == SignUpFree(p) /\ FreeIdentity(p) IN
    /\ At(r, "signup")
    /\ Room \/ ~free
    /\ IF free
       THEN /\ user' = [user EXCEPT ![New] = NewOAuthUser(p)]
            /\ identities' = identities \cup {Linked(New, p)}
            /\ made' = [made EXCEPT ![New] = {Key(p)}]
       ELSE UNCHANGED <<rows, made>>
    /\ Ends(r)
    /\ UNCHANGED tokens

\* Mutant: the password is set whether or not the copy has one.
EnsurePasswordAlways(r) ==
    LET q == request[r] IN
    /\ At(r, "password")
    /\ user' = [user EXCEPT ![q.user].password = "initial"]
    /\ tokens' = tokens \cup q.issues
    /\ Ends(r)
    /\ UNCHANGED <<identities, made>>

\* ensureOAuthDefaultPassword; then the login, or the link token's answer.
EnsurePassword(r) ==
    LET q == request[r] IN
    /\ At(r, "password")
    /\ user' = IF q.none THEN [user EXCEPT ![q.user].password = "initial"] ELSE user
    /\ tokens' = tokens \cup q.issues
    /\ Ends(r)
    /\ UNCHANGED <<identities, made>>

\* tryBootstrapOAuthPasswordLogin: the initial password opens such an account.
Bootstrap(r, u) ==
    /\ At(r, "idle")
    /\ Exists(u) /\ user[u].password = "none"
    /\ ThenPassword(r, u, {})
    /\ UNCHANGED <<rows, tokens, made>>

-----------------------------------------------------------------------------
(* linkOAuthIdentity                                                       *)

\* AuthService.linkOAuthIdentity, by the user the token names.
UseLinkToken(r, t) ==
    /\ At(r, "idle")
    /\ Goes(r, [at |-> "byProvider", user |-> t.target, profile |-> t.profile,
                session |-> FALSE, none |-> FALSE])
    /\ UNCHANGED <<rows, tokens, made>>

\* UsersService.linkOAuthIdentity: three statements.
LinkByProvider(r) ==
    LET q == request[r] IN
    /\ At(r, "byProvider")
    /\ IF \E i \in identities : Key(i) = Key(q.profile) /\ i.owner # q.user
       THEN Ends(r)
       ELSE Goes(r, [q EXCEPT !.at = "byUser"])
    /\ UNCHANGED <<rows, tokens, made>>

\* A sign-in that links goes by the copy it read before it linked.
LinkDone(r) ==
    LET q == request[r] IN
    IF q.session
    THEN Goes(r, [at |-> "password", user |-> q.user, none |-> q.none, issues |-> {}])
    ELSE Ends(r)

LinkByUser(r) ==
    LET q == request[r] IN
    /\ At(r, "byUser")
    /\ IF FreeProvider(q.user, q.profile) THEN Goes(r, [q EXCEPT !.at = "link"])
       ELSE IF Linked(q.user, q.profile) \in identities THEN LinkDone(r)
       ELSE Ends(r)
    /\ UNCHANGED <<rows, tokens, made>>

InsertIdentity(r) ==
    LET q == request[r] IN
    /\ At(r, "link")
    /\ IF FreeProvider(q.user, q.profile) /\ FreeIdentity(q.profile)
       THEN identities' = identities \cup {Linked(q.user, q.profile)} /\ LinkDone(r)
       ELSE Ends(r) /\ UNCHANGED identities
    /\ UNCHANGED <<user, tokens, made>>

-----------------------------------------------------------------------------
\* updatePassword with a hash of the user's choice, and an address that is
\* bound: by confirmations of other modules.
SetPassword(u) ==
    /\ Exists(u)
    /\ user' = [user EXCEPT ![u].password = "own"]
    /\ overtaken' = overtaken \cup
          {r \in Requests : /\ request[r].at \in {"password", "byProvider", "byUser", "link"}
                            /\ request[r].user = u /\ request[r].none}
    /\ UNCHANGED <<identities, tokens, request, made>>

BindEmail(u, n) ==
    /\ Exists(u) /\ FreeEmail(n, u)
    /\ user' = [user EXCEPT ![u].email = n]
    /\ UNCHANGED <<identities, tokens, request, made, overtaken>>

Fail(r) ==
    /\ ~At(r, "idle")
    /\ Ends(r)
    /\ UNCHANGED <<rows, tokens, made>>

Next ==
    \/ \E r \in Requests :
         \/ \E n \in Names : Register(r, n)
         \/ CreateLocalUser(r)
         \/ \E p \in Profiles, linking \in {NoOne} \cup UserIds :
              SignInKnown(r, p, linking) \/ SignInUnknown(r, p, linking)
         \/ Profile(r) \/ CreateOAuthUser(r) \/ EnsurePassword(r)
         \/ \E u \in UserIds : Bootstrap(r, u)
         \/ \E t \in tokens : UseLinkToken(r, t)
         \/ LinkByProvider(r) \/ LinkByUser(r) \/ InsertIdentity(r)
         \/ Fail(r)
    \/ \E u \in UserIds : SetPassword(u) \/ \E n \in Names : BindEmail(u, n)

-----------------------------------------------------------------------------
\* However registrations, sign-ins and links overlap: an identity of a
\* provider has one owner and a user one identity per provider, accounts and
\* addresses are unique, and a user created by a sign-in has the identity it
\* was created for.
AccountsWhole ==
    /\ \A i, j \in identities :
         (Key(i) = Key(j) \/ (i.owner = j.owner /\ i.provider = j.provider)) => i = j
    /\ \A i \in identities : Exists(i.owner)
    /\ \A u, v \in UserIds : (Exists(u) /\ Exists(v) /\ u # v) =>
         /\ user[u].account # user[v].account
         /\ user[u].email = NoName \/ user[u].email # user[v].email
    /\ \A u \in UserIds : \A k \in made[u] :
         \E i \in identities : i.owner = u /\ Key(i) = k

\* A password of the user's choice is replaced by the initial one only by a
\* request that had read the row when it had none.
ChoiceStays ==
    [][\A u \in UserIds :
         (user[u].password = "own" /\ user'[u].password = "initial")
         => \E r \in overtaken : request[r].user = u]_vars

=============================================================================
