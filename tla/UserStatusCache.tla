--------------------------- MODULE UserStatusCache ---------------------------
(***************************************************************************)
(* UserStatusCacheService: what the roles guard believes of an account. A  *)
(* status is read from the memory of the process, else from Redis, else    *)
(* from the user's row; nothing removes an entry when the row changes.     *)
(*                                                                         *)
(* One user, whose row changes once: a ban, or the account's end. Time is  *)
(* discrete. A value on its way between two stores is there for at most    *)
(* Latency ticks.                                                          *)
(***************************************************************************)
EXTENDS Integers

CONSTANTS
    Servers,      \* processes, each with a memory of its own
    Requests,     \* guarded requests that may be under way
    Ttl,          \* USER_STATUS_CACHE_TTL_SECONDS, in ticks
    Latency       \* ticks a value may be on its way

VARIABLES
    status,       \* the user's row: "old", later "new"
    since,        \* ticks since it changed, up to the first past Grace
    memory,       \* memory[s]: the entry of process s
    redis,        \* the entry of Redis
    request       \* request[r]: how far request r is

vars == <<status, since, memory, redis, request>>

-----------------------------------------------------------------------------
None == [value |-> "none", left |-> 0]
Fresh(v) == [value |-> v, left |-> Ttl]
Live(entry) == entry.left > 0
Idle == [at |-> "idle"]

\* A copy in Redis and a copy of that copy live one after the other, each
\* begun within the tick its value arrived in.
Grace == 2 * (Ttl + Latency - 1)

Values == {"old", "new"}
Entry == {None} \cup [value : Values, left : 1..Ttl]
TypeOK ==
    /\ status \in Values
    /\ since \in 0..(Grace + 1)
    /\ memory \in [Servers -> Entry]
    /\ redis \in Entry
    /\ request \in [Requests ->
          {Idle} \cup [at : {"redis", "db"}, server : Servers]
          \cup [at : {"copy", "store", "write"}, server : Servers,
                value : Values, held : 0..Latency]]

Init ==
    /\ status = "old" /\ since = 0
    /\ memory = [s \in Servers |-> None]
    /\ redis = None
    /\ request = [r \in Requests |-> Idle]

At(r, place) == request[r].at = place
Goes(r, to) == request' = [request EXCEPT ![r] = to]
Holds(r, place, v) ==
    Goes(r, [at |-> place, server |-> request[r].server,
             value |-> v, held |-> 0])

-----------------------------------------------------------------------------
(* getUserStatus: an entry in memory is answered as it is                  *)

Ask(r, s) ==
    /\ At(r, "idle")
    /\ ~Live(memory[s])
    /\ Goes(r, [at |-> "redis", server |-> s])
    /\ UNCHANGED <<status, since, memory, redis>>

\* Mutant: an entry that is read has its lifetime renewed.
RedisHitRenews(r) ==
    /\ At(r, "redis")
    /\ Live(redis)
    /\ Holds(r, "copy", redis.value)
    /\ redis' = Fresh(redis.value)
    /\ UNCHANGED <<status, since, memory>>

RedisHit(r) ==
    /\ At(r, "redis")
    /\ Live(redis)
    /\ Holds(r, "copy", redis.value)
    /\ UNCHANGED <<status, since, memory, redis>>

\* No entry, an entry that cannot be parsed, or no answer.
RedisMiss(r) ==
    /\ At(r, "redis")
    /\ Goes(r, [request[r] EXCEPT !.at = "db"])
    /\ UNCHANGED <<status, since, memory, redis>>

ReadRow(r) ==
    /\ At(r, "db")
    /\ Holds(r, "store", status)
    /\ UNCHANGED <<status, since, memory, redis>>

\* setMemory: a copy from Redis has the lifetime of a status just read.
SetMemory(r) ==
    /\ At(r, "copy") \/ At(r, "store")
    /\ memory' = [memory EXCEPT ![request[r].server] = Fresh(request[r].value)]
    /\ Goes(r, IF At(r, "store") THEN [request[r] EXCEPT !.at = "write"]
                                 ELSE Idle)
    /\ UNCHANGED <<status, since, redis>>

\* writeToRedis: a failure is logged.
Write(r, works) ==
    /\ At(r, "write")
    /\ redis' = IF works THEN Fresh(request[r].value) ELSE redis
    /\ Goes(r, Idle)
    /\ UNCHANGED <<status, since, memory>>

-----------------------------------------------------------------------------
\* The database does not answer. A row that is gone is a status like another.
Fail(r) ==
    /\ At(r, "db")
    /\ Goes(r, Idle)
    /\ UNCHANGED <<status, since, memory, redis>>

Change ==
    /\ status = "old"
    /\ status' = "new"
    /\ UNCHANGED <<since, memory, redis, request>>

Restart(s) ==
    /\ memory' = [memory EXCEPT ![s] = None]
    /\ request' = [r \in Requests |->
                     IF ~At(r, "idle") /\ request[r].server = s
                     THEN Idle ELSE request[r]]
    /\ UNCHANGED <<status, since, redis>>

Older(entry) == IF entry.left <= 1 THEN None ELSE [entry EXCEPT !.left = @ - 1]
Carries(r) == request[r].at \in {"copy", "store", "write"}
Tick ==
    /\ \A r \in Requests : Carries(r) => request[r].held < Latency
    /\ since' = IF status = "new" /\ since <= Grace THEN since + 1 ELSE since
    /\ memory' = [s \in Servers |-> Older(memory[s])]
    /\ redis' = Older(redis)
    /\ request' = [r \in Requests |->
                     IF Carries(r) THEN [request[r] EXCEPT !.held = @ + 1]
                                   ELSE request[r]]
    /\ UNCHANGED status

Next ==
    \/ \E r \in Requests :
         \/ \E s \in Servers : Ask(r, s)
         \/ RedisHit(r) \/ RedisMiss(r) \/ ReadRow(r) \/ SetMemory(r)
         \/ \E works \in BOOLEAN : Write(r, works)
         \/ Fail(r)
    \/ \E s \in Servers : Restart(s)
    \/ Change \/ Tick

-----------------------------------------------------------------------------
\* A status is copied from Redis with a new lifetime, and from the row by a
\* read that may be older than the change: still, Grace ticks after the
\* change no store and no request has the old status.
StaleEnds ==
    since > Grace =>
        /\ \A s \in Servers : memory[s].value # "old"
        /\ redis.value # "old"
        /\ \A r \in Requests : Carries(r) => request[r].value # "old"

=============================================================================
