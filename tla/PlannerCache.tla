----------------------------- MODULE PlannerCache -----------------------------
(***************************************************************************)
(* TripPlannerCacheService: answers of listCities and listCityPoints are   *)
(* kept in memory for TTL, and an edit of a place empties the store.       *)
(*                                                                         *)
(* An answer is represented by the version of each table it was read from. *)
(* Time is discrete; an entry counts down the ticks left before it expires *)
(* (Date.now() > expiresAt when it has gone below zero).                   *)
(***************************************************************************)
EXTENDS Integers

CONSTANTS
    Keys,        \* cache keys: one per query
    Tables,      \* the tables an answer is read from
    Reads,       \* Reads[k]: those the producer for key k queries
    Announced,   \* tables whose edits empty the store; airports' do not
    Readers,     \* requests to list cities or points that may be under way
    Editors,     \* administrator requests that may be under way
    TTL,         \* five minutes, in ticks
    MaxEdits     \* bound: edits of each table

ASSUME PlannerAssumption ==
    /\ Reads \in [Keys -> SUBSET Tables]
    /\ Announced \subseteq Tables
    /\ TTL \in Nat
    /\ MaxEdits \in Nat

VARIABLES
    version,     \* version[t]: edits of table t that have been committed
    store,       \* the cache
    reader,      \* reader[q]: what request q has read
    editor,      \* editor[a]: what request a has changed but not announced
    missed       \* ghost: readers under way when the store was last emptied

vars == <<version, store, reader, editor, missed>>

-----------------------------------------------------------------------------
Versions == [Tables -> Nat]
Start == [t \in Tables |-> 0]

Entry == [on : BOOLEAN, value : Versions, left : -1..TTL, late : BOOLEAN]
NoEntry == [on |-> FALSE, value |-> Start, left |-> -1, late |-> FALSE]

Reader == [at : {"idle", "query", "set"}, key : Keys, unread : SUBSET Tables,
           value : Versions]

TypeOK ==
    /\ version \in Versions
    /\ store \in [Keys -> Entry]
    /\ reader \in [Readers -> Reader \cup {[at |-> "idle"]}]
    /\ editor \in [Editors -> SUBSET Tables]
    /\ missed \in SUBSET Readers

Init ==
    /\ version = Start
    /\ store = [k \in Keys |-> NoEntry]
    /\ reader = [q \in Readers |-> [at |-> "idle"]]
    /\ editor = [a \in Editors |-> {}]
    /\ missed = {}

\* Mutant: an entry is good until the store is emptied.
NeverExpired(entry) == FALSE

Expired(entry) == entry.left < 0

\* get(k) answers with this entry.
Served(k) == store[k].on /\ ~Expired(store[k])

-----------------------------------------------------------------------------
(* remember                                                                *)

\* Nothing to serve: get deletes an expired entry, the producer is called.
Ask(q, k) ==
    /\ reader[q].at = "idle"
    /\ ~Served(k)
    /\ store' = [store EXCEPT ![k] = NoEntry]
    /\ reader' = [reader EXCEPT ![q] = [at |-> "query", key |-> k,
                                        unread |-> Reads[k], value |-> Start]]
    /\ missed' = missed \ {q}
    /\ UNCHANGED <<version, editor>>

\* One of the producer's queries answers; the last one ends its work.
Query(q, t) ==
    /\ reader[q].at = "query"
    /\ t \in reader[q].unread
    /\ reader' = [reader EXCEPT
                    ![q].value[t] = version[t],
                    ![q].unread = @ \ {t},
                    ![q].at = IF reader[q].unread = {t} THEN "set" ELSE "query"]
    /\ UNCHANGED <<version, store, editor, missed>>

\* A rejected producer stores nothing.
QueryFails(q) ==
    /\ reader[q].at = "query"
    /\ reader' = [reader EXCEPT ![q] = [at |-> "idle"]]
    /\ UNCHANGED <<version, store, editor, missed>>

\* The continuation of the producer stores its answer, over whatever is
\* there now.
Set(q) ==
    /\ reader[q].at = "set"
    /\ store' = [store EXCEPT ![reader[q].key] =
                   [on |-> TRUE, value |-> reader[q].value, left |-> TTL,
                    late |-> q \in missed]]
    /\ reader' = [reader EXCEPT ![q] = [at |-> "idle"]]
    /\ UNCHANGED <<version, editor, missed>>

-----------------------------------------------------------------------------
(* Edits                                                                   *)

Commit(a, t) ==
    /\ editor[a] = {}
    /\ version[t] < MaxEdits
    /\ version' = [version EXCEPT ![t] = @ + 1]
    /\ editor' = [editor EXCEPT ![a] = {t} \cap Announced]
    /\ UNCHANGED <<store, reader, missed>>

\* Mutant: only the entries that are about to expire are removed.
InvalidateOld(a) ==
    /\ editor[a] # {}
    /\ store' = [k \in Keys |-> IF store[k].left < TTL THEN NoEntry ELSE store[k]]
    /\ editor' = [editor EXCEPT ![a] = {}]
    /\ missed' = missed \cup {q \in Readers : reader[q].at # "idle"}
    /\ UNCHANGED <<version, reader>>

\* invalidateAll, in the continuation of the save.
InvalidateAll(a) ==
    /\ editor[a] # {}
    /\ store' = [k \in Keys |-> NoEntry]
    /\ editor' = [editor EXCEPT ![a] = {}]
    /\ missed' = missed \cup {q \in Readers : reader[q].at # "idle"}
    /\ UNCHANGED <<version, reader>>

-----------------------------------------------------------------------------
(* Time and the process                                                    *)

Tick ==
    /\ store' = [k \in Keys |-> IF store[k].left < 0 THEN store[k]
                                ELSE [store[k] EXCEPT !.left = @ - 1]]
    /\ UNCHANGED <<version, reader, editor, missed>>

Crash ==
    /\ store' = [k \in Keys |-> NoEntry]
    /\ reader' = [q \in Readers |-> [at |-> "idle"]]
    /\ editor' = [a \in Editors |-> {}]
    /\ UNCHANGED <<version, missed>>

Next ==
    \/ \E q \in Readers, k \in Keys : Ask(q, k)
    \/ \E q \in Readers, t \in Tables : Query(q, t)
    \/ \E q \in Readers : QueryFails(q) \/ Set(q)
    \/ \E a \in Editors, t \in Tables : Commit(a, t)
    \/ \E a \in Editors : InvalidateAll(a)
    \/ Tick
    \/ Crash

\* Time passes; a query that was sent is answered or rejected; a
\* continuation runs.
Fairness ==
    /\ WF_vars(Tick)
    /\ \A q \in Readers : WF_vars(\E t \in Tables : Query(q, t)) /\ WF_vars(Set(q))
    /\ \A a \in Editors : WF_vars(InvalidateAll(a))

Spec == Init /\ [][Next]_vars
FairSpec == Spec /\ Fairness

-----------------------------------------------------------------------------
(* Properties                                                              *)

\* Table t has a committed edit whose continuation has not yet run.
Unannounced(t) == \E a \in Editors : t \in editor[a]

\* An entry that misses a committed edit of an announced table is about to
\* be removed, or was stored by a reader that was under way when the store
\* was emptied: an edit leaves no entry stored before it.
StaleOnlyIfMissed ==
    \A k \in Keys : store[k].on =>
        \/ store[k].late
        \/ \A t \in Reads[k] \cap Announced :
              store[k].value[t] = version[t] \/ Unannounced(t)

\* Every committed edit, of an airport too, is eventually in every answer
\* served from the cache, and stays in: a stale entry cannot be renewed.
EditsAreSeen ==
    \A t \in Tables, n \in 1..MaxEdits :
        version[t] >= n ~> [](\A k \in Keys :
                                 Served(k) /\ t \in Reads[k] => store[k].value[t] >= n)

=============================================================================
