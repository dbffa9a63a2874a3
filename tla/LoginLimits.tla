----------------------------- MODULE LoginLimits -----------------------------
(***************************************************************************)
(* RateLimitService over MemoryRateLimitStore: login attempts are counted  *)
(* per address of the client and account, and per account, in windows that *)
(* open with the first attempt. The store is a Map: it remembers the order *)
(* in which its keys were inserted, a key that is set again keeps its      *)
(* place, and the first one goes when a new key finds it full.             *)
(*                                                                         *)
(* Time is discrete: a counter has the ticks left before it expires. The   *)
(* Redis store counts in the same windows and drops nothing; its answers   *)
(* are this module's with MaxKeys out of reach.                            *)
(***************************************************************************)
EXTENDS Integers, Sequences

CONSTANTS
    Ips, Accounts,
    Requests,       \* logins that may be under way
    MaxAttempts,    \* attempts of an address for an account
    Window,         \* ticks a counter lives
    MaxKeys,        \* counters the store holds
    GcInterval      \* writes between two cleanups

VARIABLES
    map,        \* the counters, in the Map's order
    writes,     \* writes since the last cleanup
    login,      \* login[r]: the keys of an attempt under way
    window      \* ghost: window[k]: the ticks left of k's window, and the
                \* attempts it has admitted

vars == <<map, writes, login, window>>

-----------------------------------------------------------------------------
IpKeys == Ips \X Accounts
Keys == IpKeys \cup Accounts
Limit(k) == IF k \in IpKeys THEN MaxAttempts ELSE 3 * MaxAttempts
Idle == <<>>

Counter == [key : Keys, count : Nat, left : 0..Window]
TypeOK ==
    /\ map \in Seq(Counter) /\ Len(map) <= MaxKeys
    /\ writes \in 0..(GcInterval - 1)
    /\ login \in [Requests -> IpKeys \cup {Idle}]
    /\ window \in [Keys -> [left : 0..Window, admitted : Nat]]

Closed == [left |-> 0, admitted |-> 0]
Init ==
    /\ map = <<>> /\ writes = 0
    /\ login = [r \in Requests |-> Idle]
    /\ window = [k \in Keys |-> Closed]

Has(m, k) == \E i \in DOMAIN m : m[i].key = k
Entry(m, k) == m[CHOOSE i \in DOMAIN m : m[i].key = k]
Live(c) == c.left > 0

\* The counters of the Map at the places I, in their order.
Kept(m, I) ==
    LET upTo[n \in 0..Len(m)] == IF n = 0 THEN <<>>
                                 ELSE IF n \in I THEN Append(upTo[n - 1], m[n])
                                 ELSE upTo[n - 1]
    IN  upTo[Len(m)]
Delete(m, k) == Kept(m, {i \in DOMAIN m : m[i].key # k})

\* Mutant: a counter in its last tick goes too.
CleanedEarly(m) == Kept(m, {i \in DOMAIN m : m[i].left > 1})

\* cleanupExpired
Cleaned(m) == Kept(m, {i \in DOMAIN m : Live(m[i])})

Put(m, k, c) ==
    IF Has(m, k) THEN [i \in DOMAIN m |-> IF m[i].key = k THEN c ELSE m[i]]
                 ELSE Append(m, c)

\* Counts past every limit are alike.
Capped(n) == IF n > 3 * MaxAttempts THEN 3 * MaxAttempts ELSE n

\* increment: the store after it, and the count it answers. The key is looked
\* up before the cleanup, so an expired one never makes room by eviction.
Increment(m, k, cleans) ==
    LET found == Has(m, k)
        lives == found /\ Live(Entry(m, k))
        n == IF lives THEN Capped(Entry(m, k).count) + 1 ELSE 1
        swept == IF cleans THEN Cleaned(m) ELSE m
        room == IF ~found /\ Len(swept) >= MaxKeys THEN Tail(swept) ELSE swept
        left == IF lives THEN Entry(m, k).left ELSE Window
    IN  [map |-> Put(room, k, [key |-> k, count |-> n, left |-> left]),
         count |-> n,
         dropped |-> IF room # swept /\ Live(swept[1])
                     THEN {swept[1].key} ELSE {}]

-----------------------------------------------------------------------------
\* consumeLoginAttempt: both keys are counted before anything is awaited. A
\* count past the limit is answered with the time left and ends the login.
Attempt(r, ip, a) ==
    LET first  == Increment(map, <<ip, a>>, writes + 1 = GcInterval)
        second == Increment(first.map, a, (writes + 2) % GcInterval = 0)
        allowed == first.count <= MaxAttempts /\ second.count <= 3 * MaxAttempts
        before == [k \in Keys |-> IF k \in first.dropped THEN Closed
                                                         ELSE window[k]]
        Counted(w) == [left |-> IF w.left = 0 THEN Window ELSE w.left,
                       admitted |-> w.admitted + (IF allowed THEN 1 ELSE 0)]
    IN  /\ login[r] = Idle
        /\ map' = second.map
        /\ writes' = (writes + 2) % GcInterval
        /\ window' = [k \in Keys |->
                         IF k \in second.dropped THEN Closed
                         ELSE IF k \in {<<ip, a>>, a} THEN Counted(before[k])
                         ELSE before[k]]
        /\ login' = [login EXCEPT ![r] = IF allowed THEN <<ip, a>> ELSE Idle]

\* resetLoginAttempt: a login that succeeds empties both counters, the one of
\* the account for every address.
Succeed(r) ==
    LET keys == {login[r], login[r][2]} IN
    /\ login[r] # Idle
    /\ map' = Delete(Delete(map, login[r]), login[r][2])
    /\ window' = [k \in Keys |-> IF k \in keys THEN Closed ELSE window[k]]
    /\ login' = [login EXCEPT ![r] = Idle]
    /\ UNCHANGED writes

WrongPassword(r) ==
    /\ login[r] # Idle
    /\ login' = [login EXCEPT ![r] = Idle]
    /\ UNCHANGED <<map, writes, window>>

Less(n) == IF n = 0 THEN 0 ELSE n - 1
Tick ==
    /\ \E k \in Keys : window[k].left > 0
    /\ map' = [i \in DOMAIN map |-> [map[i] EXCEPT !.left = Less(@)]]
    /\ window' = [k \in Keys |-> IF window[k].left <= 1 THEN Closed
                                 ELSE [window[k] EXCEPT !.left = @ - 1]]
    /\ UNCHANGED <<writes, login>>

Next ==
    \/ \E r \in Requests : \/ \E ip \in Ips, a \in Accounts : Attempt(r, ip, a)
                           \/ Succeed(r)
                           \/ WrongPassword(r)
    \/ Tick

-----------------------------------------------------------------------------
\* From the attempt that opens a window until it expires, a login resets it
\* or a full store drops it, no key admits more attempts than its limit, and
\* the window of a counter in force is the one that began with its first
\* attempt; the store never holds more than MaxKeys counters.
LimitsHold ==
    /\ \A k \in Keys :
         /\ window[k].admitted <= Limit(k)
         /\ Has(map, k) => Entry(map, k).left = window[k].left
    /\ Len(map) <= MaxKeys

=============================================================================
