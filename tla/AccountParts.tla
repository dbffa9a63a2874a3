----------------------------- MODULE AccountParts -----------------------------
(***************************************************************************)
(* The modules about accounts side by side: codes and tokens, the second   *)
(* step of an administrator, the limit of logins, the status the guard     *)
(* believes, and users with their identities. They share the requests and  *)
(* no state, so a behaviour is one of a single module: part says which,    *)
(* and the variables of the others stay at their initial values.           *)
(***************************************************************************)
EXTENDS SecurityCodes

CONSTANTS
    Challenges,            \* identifiers of challenges
    ChallengeMaxAttempts,  \* answers a challenge may have
    Ips, Logins,           \* clients and accounts of login attempts
    LoginMaxAttempts,      \* attempts of an address for an account
    Window, MaxKeys, GcInterval,
    Servers, Ttl, Latency,
    Names, Profiles, MaxUsers

\* The limits are positive in the code or by the validation of its settings;
\* what a provider tells has an address or none; an account is no pair.
ASSUME PartsAssumption ==
    /\ ChallengeMaxAttempts \in Nat \ {0}
    /\ LoginMaxAttempts \in Nat /\ Window \in Nat \ {0}
    /\ MaxKeys \in Nat \ {0} /\ GcInterval \in Nat \ {0}
    /\ Logins \cap (Ips \X Logins) = {}
    /\ Ttl \in Nat \ {0} /\ Latency \in Nat \ {0}
    /\ MaxUsers \in Nat /\ "none" \notin Names
    /\ \A p \in Profiles : /\ p.email \in Names \cup {"none"}
                           /\ p = [provider |-> p.provider, id |-> p.id, email |-> p.email]

VARIABLES
    part,
    stored, known, sent, wrong, challenger, accepted, answered, broken,
    map, writes, login, window,
    status, since, memory, redis, guarded,
    user, identities, tokens, signer, made, overtaken

challengeVars == <<stored, known, sent, wrong, challenger, accepted, answered, broken>>
limitVars == <<map, writes, login, window>>
statusVars == <<status, since, memory, redis, guarded>>
identityVars == <<user, identities, tokens, signer, made, overtaken>>
allVars == <<part, vars, challengeVars, limitVars, statusVars, identityVars>>

Challenge == INSTANCE AdminChallenges
    WITH MaxAttempts <- ChallengeMaxAttempts, count <- wrong, request <- challenger,
         told <- answered

Limit == INSTANCE LoginLimits
    WITH Accounts <- Logins, MaxAttempts <- LoginMaxAttempts

Guard == INSTANCE UserStatusCache WITH request <- guarded

Identity == INSTANCE Identities WITH request <- signer

PartsInit ==
    /\ part \in {"codes", "challenge", "limit", "status", "identity"}
    /\ Init /\ Challenge!Init /\ Limit!Init /\ Guard!Init /\ Identity!Init
    /\ part = "identity" \/ user = [u \in Identity!UserIds |-> Identity!NoUser]

PartsNext ==
    /\ UNCHANGED part
    /\ \/ part = "codes" /\ Next
          /\ UNCHANGED <<challengeVars, limitVars, statusVars, identityVars>>
       \/ part = "challenge" /\ Challenge!Next
          /\ UNCHANGED <<vars, limitVars, statusVars, identityVars>>
       \/ part = "limit" /\ Limit!Next
          /\ UNCHANGED <<vars, challengeVars, statusVars, identityVars>>
       \/ part = "status" /\ Guard!Next
          /\ UNCHANGED <<vars, challengeVars, limitVars, identityVars>>
       \/ part = "identity" /\ Identity!Next
          /\ UNCHANGED <<vars, challengeVars, limitVars, statusVars>>

PartsSpec == PartsInit /\ [][PartsNext]_allVars

-----------------------------------------------------------------------------
\* A challenge lets an administrator in only once its token was sent and its
\* own deletion has succeeded, and has a bounded number of wrong answers,
\* though it is read, counted and deleted in calls of their own.
ChallengesAreSpent ==
    part = "challenge" => Challenge!TypeOK /\ Challenge!AcceptedIsGone /\ Challenge!ChallengeAttempts

\* No key admits more attempts within a window than its limit unless a login
\* has reset its counter or the full store has dropped it, and the store
\* never holds more counters than it may.
LimitsHold == part = "limit" => Limit!TypeOK /\ Limit!LimitsHold

\* A status that was replaced is served for a bounded time, although a copy
\* from Redis gets a new lifetime in the memory of a server.
StaleEnds == part = "status" => Guard!TypeOK /\ Guard!StaleEnds

\* However registrations, sign-ins and links overlap, accounts, addresses and
\* identities are unique and a user a sign-in created has its identity.
AccountsWhole == part = "identity" => Identity!TypeOK /\ Identity!AccountsWhole

\* A password of the user's choice is replaced by the initial one only by a
\* request that had read the row when it had none.
ChoiceStays == Identity!ChoiceStays

===============================================================================
