---------------------------- MODULE MatrixTally ----------------------------
(***************************************************************************)
(* The arithmetic of a matrix recompute: how many directed edges a job     *)
(* expects, how the work is cut into calls of recomputeEdgesToDestination  *)
(* and chunks of origins, how a chunk is counted, and which status the     *)
(* counts give.  Points are counted, not named: point 1 of n is the first  *)
(* of the list the precompute service loaded.                              *)
(***************************************************************************)
EXTENDS Integers, FiniteSets

CONSTANTS
    Modes,       \* travel modes a job may select: transit, driving, walking
    Counters,    \* per-mode counters of a row that the instance keeps
    MaxNodes,    \* bound: places of one city
    MaxOrigins   \* getDistanceMatrixMaxOrigins(): origins of one chunk

Concurrency == 2    \* outbound calls that a point recompute runs at a time

\* The counters that must reach the total before a selected mode is ready:
\* walking has two, metres and minutes.
Required(modes) ==
    (modes \cap {"transit", "driving"})
        \cup (IF "walking" \in modes THEN {"walking", "walkingMinutes"} ELSE {})

ASSUME TallyAssumption ==
    /\ Modes \subseteq {"transit", "driving", "walking"}
    /\ Required(Modes) \subseteq Counters
    /\ MaxNodes \in Nat
    /\ MaxOrigins \in Nat \ {0}

-----------------------------------------------------------------------------
(* Tallies: edges handled, and for each counter how many of them are ready *)

Tally == [edges : Nat, ready : [Counters -> Nat]]

NoEdges == [edges |-> 0, ready |-> [c \in Counters |-> 0]]

Plus(s, t) == [edges |-> s.edges + t.edges,
               ready |-> [c \in Counters |-> s.ready[c] + t.ready[c]]]

\* Every count of s is at most the same count of t.
AtMost(s, t) == /\ s.edges <= t.edges
                /\ \A c \in Counters : s.ready[c] <= t.ready[c]

-----------------------------------------------------------------------------
(* The edges a job expects, and the status its counts give at the end      *)

\* Mutant of TotalEdges: no case for a city with one node or none.
TotalEdgesUnguarded(scope, n) ==
    IF scope = "city" THEN n * (n - 1) ELSE (n - 1) * 2

TotalEdges(scope, n) ==
    IF n <= 1 THEN 0
    ELSE IF scope = "city" THEN n * (n - 1) ELSE (n - 1) * 2

\* Every selected mode has all its edges.
ModesReady(modes, expected, tally) ==
    /\ \A c \in Required(modes) : tally.ready[c] >= expected
    /\ tally.edges >= expected

\* Mutant of JobStatus: completed means that every edge was processed.
JobStatusByCount(modes, expected, tally) ==
    IF expected = 0 \/ tally.edges >= expected THEN "completed"
    ELSE IF tally.edges > 0 THEN "partial" ELSE "failed"

JobStatus(modes, expected, tally) ==
    IF expected = 0 \/ ModesReady(modes, expected, tally) THEN "completed"
    ELSE IF tally.edges > 0 THEN "partial" ELSE "failed"

-----------------------------------------------------------------------------
(* The calls of recomputeEdgesToDestination.  A city recompute makes one   *)
(* call at a time, for destination 1, 2, ... n, from the n - 1 other       *)
(* points.  A point recompute with n other points makes call 0 (all the    *)
(* others to the point), then one call per other point, two at a time.     *)

Dests == 0..MaxNodes

FirstDest(scope) == IF scope = "city" THEN 1 ELSE 0

NextDest(scope, d) ==
    IF scope = "city" THEN d + 1
    ELSE IF d = 0 THEN 1 ELSE d + Concurrency

\* The calls that run together, the first of them being d.
Batch(scope, n, d) ==
    IF scope = "city" \/ d = 0 THEN {d} \cap 0..n
    ELSE (d..(d + Concurrency - 1)) \cap 0..n

Origins(scope, n, d) ==
    IF scope = "city" THEN n - 1
    ELSE IF d = 0 THEN n ELSE 1

\* A recompute with too few points returns before its first call.
WorthCalling(scope, n) == IF scope = "city" THEN n >= 2 ELSE n >= 1

ChunkSize(rest) == IF rest < MaxOrigins THEN rest ELSE MaxOrigins

=============================================================================
