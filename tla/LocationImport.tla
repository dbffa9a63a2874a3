---------------------------- MODULE LocationImport ----------------------------
(***************************************************************************)
(* AirportCsvImportService: a file of countries, regions or airports is    *)
(* imported in one transaction, row by row. The rows there are for its     *)
(* codes are read once; each row of the file is then saved in a try block  *)
(* of its own, after the rows it depends on: a region's country, which is  *)
(* inserted before all rows if there was none, an airport's province and   *)
(* city, found or created with it. Airports of the covered countries that  *)
(* the file does not name are deleted, and after the commit their transit  *)
(* edges, which are TransitCache's.                                        *)
(*                                                                         *)
(* A save of TypeORM (external) of an entity that was read is a SELECT by  *)
(* its id, then an UPDATE of the columns that differ, an INSERT if there   *)
(* is no such row, or nothing; of a new entity it is an INSERT.            *)
(*                                                                         *)
(* The database (external) locks what a transaction has written until it   *)
(* ends; a statement that fails aborts its transaction: what it wrote is   *)
(* undone and its locks go, every later statement fails, and its COMMIT    *)
(* rolls back without an error. Countries, regions, cities and airports    *)
(* are keys of one table, a province and its city one key.                 *)
(***************************************************************************)
EXTENDS Integers, Sequences

CONSTANTS
    Keys,         \* codes and names that may have a row
    Airports,     \* those of them that are airport codes
    Tables,       \* sets of keys with a row at the start
    Files,        \* files: [dataset, rows], rows of [code, parent, says, bad],
                  \* says being the other columns, a number
    Requests      \* imports that may be under way

VARIABLES
    table,        \* table[k]: the row of key k: what it says, or Absent
    import        \* import[r]: how far import r is

vars == <<table, import>>

-----------------------------------------------------------------------------
Absent == -1
Other == 0        \* what it says is of no file, or a mixture
NoParent == "none"
Idle == [at |-> "idle"]
Codes(file) == {file.rows[n].code : n \in DOMAIN file.rows}
Parents(file) == {file.rows[n].parent : n \in DOMAIN file.rows}
LastOf(file, k) == file.rows[CHOOSE n \in DOMAIN file.rows :
    /\ file.rows[n].code = k
    /\ \A m \in DOMAIN file.rows : file.rows[m].code = k => m <= n]

TypeOK ==
    /\ table \in [Keys -> Nat \cup {Absent}]
    /\ \A r \in Requests : import[r].at \in
          {"idle", "parents", "read", "rows", "stale", "delete", "commit",
           "purge", "answered", "failed"}

Init ==
    /\ table \in {[k \in Keys |-> IF k \in there THEN Other ELSE Absent] : there \in Tables}
    /\ import = [r \in Requests |-> Idle]

At(r, place) == import[r].at = place
Goes(r, to) == import' = [import EXCEPT ![r] = to]
Busy(r) == import[r].at \notin {"idle", "answered", "failed"}
InTransaction(r) == Busy(r) /\ ~At(r, "purge")

View(r, k) == IF k \in DOMAIN import[r].mine THEN import[r].mine[k] ELSE table[k]
Holder(r, k) == {q \in Requests \ {r} : InTransaction(q) /\ k \in DOMAIN import[q].mine}
Free(r, k) == Holder(r, k) = {}

-----------------------------------------------------------------------------
(* Statements of a transaction                                             *)

Nothing == [k \in {} |-> Absent]
Over(new, old) == [k \in DOMAIN new \cup DOMAIN old |->
                      IF k \in DOMAIN new THEN new[k] ELSE old[k]]
Writes(q, k, v) == [q EXCEPT !.mine = Over([x \in {k} |-> v], @), !.stmt = {}]

\* Mutant: a row that fails is rolled back alone.
SkippedAlone(q) == [q EXCEPT !.stmt = {}, !.n = @ + 1, !.skipped = TRUE]

\* The catch block of a row: the transaction is aborted, the loop goes on.
Skipped(q) == [q EXCEPT !.stmt = {}, !.n = @ + 1, !.skipped = TRUE,
                        !.aborted = TRUE, !.mine = Nothing]

Ended(q, how) == [at |-> how, file |-> q.file, alone |-> q.alone, skipped |-> q.skipped]
Failed(q) == Ended(q, "failed")

\* A failure outside the try blocks ends the import.
Fails(r) == Goes(r, IF At(r, "rows") THEN Skipped(import[r]) ELSE Failed(import[r]))

\* The keys whose locks the next statement takes: it waits for transactions
\* that have written them, and of two that wait for each other one fails.
Needs(r) == {s.key : s \in import[r].stmt} \cup IF At(r, "delete") THEN import[r].gone ELSE {}

Deadlock(r) ==
    /\ InTransaction(r)
    /\ \E k \in Needs(r) : \E q \in Holder(r, k) : \E l \in Needs(q) : r \in Holder(q, l)
    /\ Fails(r)
    /\ UNCHANGED table

\* What another transaction has committed meanwhile: rows that went are no
\* longer those the import knows of, and rows that were written no longer say
\* what its SELECT found.
Meanwhile(q, new, removed, written) ==
    [q EXCEPT !.late = @ \cup (new \ Codes(q.file)), !.known = @ \ removed,
              !.overtaken = @ \cup (written \cap Codes(q.file))]

-----------------------------------------------------------------------------
(* importFromCsv                                                           *)

Start(r, file) ==
    /\ At(r, "idle")
    /\ import' = [q \in Requests |->
          IF q = r
          THEN [at |-> IF file.dataset = "regions" THEN "parents" ELSE "read",
                file |-> file, n |-> 1, known |-> {},
                cache |-> {NoParent} \cup
                          (IF file.dataset = "regions"
                           THEN {k \in Parents(file) \cap Keys : table[k] # Absent}
                           ELSE {}),
                mine |-> Nothing, stmt |-> {}, aborted |-> FALSE,
                skipped |-> FALSE, gone |-> {}, overtaken |-> {},
                alone |-> \A p \in Requests : ~Busy(p), late |-> {}]
          ELSE IF Busy(q) THEN [import[q] EXCEPT !.alone = FALSE] ELSE import[q]]
    /\ UNCHANGED table

\* The rows there are for the file's codes, once a region's countries are there.
ReadExisting(r) ==
    LET q == import[r] IN
    /\ At(r, "read") \/ (At(r, "parents") /\ Parents(q.file) \subseteq q.cache)
    /\ Goes(r, [q EXCEPT !.at = "rows",
                         !.known = {k \in Codes(q.file) : View(r, k) # Absent}])
    /\ UNCHANGED table

\* The rows the next statement may be for: a parent not yet cached.
NextParents(r) ==
    LET q == import[r] IN
    IF At(r, "parents") THEN Parents(q.file) \ q.cache
    ELSE IF At(r, "rows") /\ ~q.aborted /\ q.n <= Len(q.file.rows)
    THEN {q.file.rows[q.n].parent} \ q.cache ELSE {}

\* A country is inserted as none was found at the start; upsertProvinceCity
\* asks for the row and saves it if its names change, or inserts it.
SelectParent(r, k, changed) ==
    LET q == import[r]
        was == IF At(r, "parents") THEN Absent ELSE View(r, k)
    IN  /\ k \in NextParents(r) /\ q.stmt = {}
        /\ changed => was # Absent
        /\ Goes(r, IF was # Absent /\ ~changed THEN [q EXCEPT !.cache = @ \cup {k}]
                   ELSE [q EXCEPT !.stmt = {[key |-> k, was |-> was]}])
        /\ UNCHANGED table

\* An INSERT of a row that has appeared is refused.
WriteParent(r) ==
    LET q == import[r] IN
    /\ InTransaction(r)
    /\ \E s \in q.stmt :
         /\ s.key \in NextParents(r) /\ Free(r, s.key)
         /\ IF s.was = Absent /\ View(r, s.key) # Absent THEN Fails(r)
            ELSE Goes(r, Writes([q EXCEPT !.cache = @ \cup {s.key}], s.key, Other))
    /\ UNCHANGED table

AtRow(r) ==
    LET q == import[r] IN
    /\ At(r, "rows") /\ ~q.aborted
    /\ q.n <= Len(q.file.rows)
    /\ q.file.rows[q.n].parent \in q.cache

\* The SELECT of a save, by the id of the row the import knows of; a new row
\* has none. A row that says already what the file says is not written.
SelectRow(r) ==
    LET q == import[r]
        row == q.file.rows[q.n]
        was == IF row.code \in q.known THEN View(r, row.code) ELSE Absent
        selected == [q EXCEPT !.overtaken = @ \ {row.code}]
    IN  /\ AtRow(r) /\ q.stmt = {}
        /\ Goes(r, IF was = row.says /\ ~row.bad THEN [selected EXCEPT !.n = @ + 1]
                   ELSE [selected EXCEPT !.stmt = {[key |-> row.code, was |-> was]}])
        /\ UNCHANGED table

\* An INSERT; the code is unique.
InsertRow(r) ==
    LET q == import[r]
        row == q.file.rows[q.n]
    IN  /\ AtRow(r) /\ [key |-> row.code, was |-> Absent] \in q.stmt
        /\ Free(r, row.code)
        /\ IF row.bad \/ View(r, row.code) # Absent THEN Fails(r)
           ELSE Goes(r, [Writes(q, row.code, row.says) EXCEPT
                           !.n = @ + 1, !.known = @ \cup {row.code}, !.overtaken = @ \ {row.code}])
        /\ UNCHANGED table

\* An UPDATE of the columns that differed: of a row that has gone it affects
\* none, without an error, and of one written meanwhile it leaves columns.
UpdateRow(r) ==
    LET q == import[r]
        row == q.file.rows[q.n]
    IN  /\ AtRow(r) /\ \E s \in q.stmt : s.key = row.code /\ s.was # Absent
        /\ \/ row.bad /\ Fails(r)
           \/ /\ ~row.bad /\ row.code \notin q.known
              /\ Goes(r, [q EXCEPT !.stmt = {}, !.n = @ + 1])
           \/ /\ ~row.bad /\ row.code \in q.known /\ Free(r, row.code)
              /\ \E v \in {row.says} \cup {o \in {Other} : row.code \in q.overtaken} :
                    Goes(r, [Writes(q, row.code, v) EXCEPT !.n = @ + 1])
        /\ UNCHANGED table

\* In an aborted transaction every row fails.
SkipRow(r) ==
    LET q == import[r] IN
    /\ At(r, "rows") /\ q.aborted
    /\ q.n <= Len(q.file.rows)
    /\ Goes(r, Skipped(q))
    /\ UNCHANGED table

RowsDone(r) ==
    LET q == import[r] IN
    /\ At(r, "rows") /\ q.n > Len(q.file.rows)
    /\ Goes(r, [q EXCEPT !.at = IF q.file.dataset = "airports" THEN "stale"
                                                              ELSE "commit"])
    /\ UNCHANGED table

\* findStaleAirportsForAllowedCountries: it fails where a row has failed.
FindStale(r) ==
    LET q == import[r] IN
    /\ At(r, "stale")
    /\ Goes(r, IF q.aborted THEN Failed(q)
               ELSE [q EXCEPT !.at = "delete",
                              !.gone = {k \in Airports \ Codes(q.file) :
                                           View(r, k) # Absent}])
    /\ UNCHANGED table

\* An airport found stale is taken for its code.
DeleteStale(r) ==
    LET q == import[r] IN
    /\ At(r, "delete")
    /\ \A k \in q.gone : Free(r, k)
    /\ Goes(r, [q EXCEPT !.at = "commit", !.mine = Over([k \in q.gone |-> Absent], @)])
    /\ UNCHANGED table

\* An aborted transaction has nothing to commit, and the counts are answered.
Commit(r) ==
    LET q == import[r]
        after == Over(q.mine, table)
        new == {k \in Keys : after[k] # Absent /\ table[k] = Absent}
        removed == {k \in Keys : after[k] = Absent /\ table[k] # Absent}
    IN  /\ At(r, "commit")
        /\ table' = after
        /\ import' = [p \in Requests |->
              IF p = r THEN Ended(q, IF q.gone = {} THEN "answered" ELSE "purge")
              ELSE IF InTransaction(p) THEN Meanwhile(import[p], new, removed, DOMAIN q.mine)
              ELSE import[p]]

\* transitCacheService.deletePointEdgesByIds; it may fail, the rows are gone.
Purge(r, works) ==
    /\ At(r, "purge")
    /\ Goes(r, IF works THEN Ended(import[r], "answered") ELSE Idle)
    /\ UNCHANGED table

Leave(r) ==
    /\ At(r, "answered") \/ At(r, "failed")
    /\ Goes(r, Idle)
    /\ UNCHANGED table

\* The process dies, or the connection is lost.
Crash(r) ==
    /\ Busy(r)
    /\ Goes(r, Idle)
    /\ UNCHANGED table

\* LocationsService.deleteAirportById; it leaves the airport's transit edges.
DeleteAirport(k) ==
    /\ table[k] # Absent
    /\ \A r \in Requests : ~(InTransaction(r) /\ k \in DOMAIN import[r].mine)
    /\ table' = [table EXCEPT ![k] = Absent]
    /\ import' = [r \in Requests |->
          IF InTransaction(r) THEN [Meanwhile(import[r], {}, {k}, {k}) EXCEPT !.alone = FALSE]
          ELSE IF Busy(r) THEN [import[r] EXCEPT !.alone = FALSE] ELSE import[r]]

Next ==
    \/ \E r \in Requests :
         \/ \E file \in Files : Start(r, file)
         \/ ReadExisting(r)
         \/ \E k \in Keys, changed \in BOOLEAN : SelectParent(r, k, changed)
         \/ WriteParent(r) \/ SelectRow(r) \/ InsertRow(r) \/ UpdateRow(r)
         \/ SkipRow(r) \/ Deadlock(r)
         \/ RowsDone(r) \/ FindStale(r) \/ DeleteStale(r)
         \/ Commit(r) \/ (\E works \in BOOLEAN : Purge(r, works))
         \/ Leave(r) \/ Crash(r)
    \/ \E k \in Airports : DeleteAirport(k)

-----------------------------------------------------------------------------
\* A commit stores the whole file or nothing of it: if a row was skipped the
\* table stays as it is, whatever the counts say; if none was, each code says
\* what the last of its rows says, unless another transaction has written or
\* deleted it since the SELECT of that row's save; the rows they depend on are
\* there, and after airports no other airport is left but those committed
\* since the import began.
ImportIsWhole ==
    [][\A r \in Requests :
         LET q == import[r] IN
         (At(r, "commit") /\ import'[r].at \in {"purge", "answered"}) =>
            IF q.skipped THEN table' = table
            ELSE /\ \A k \in Codes(q.file) \ q.overtaken : table'[k] = LastOf(q.file, k).says
                 /\ \A k \in Parents(q.file) \cap Keys : table'[k] # Absent
                 /\ q.file.dataset = "airports" =>
                      {k \in Airports : table'[k] # Absent}
                        \subseteq Codes(q.file) \cup q.late]_vars

\* An import nobody disturbs, of a file whose rows the database takes, saves
\* every row and does not fail: each was created or updated, none skipped.
SavesEveryRow ==
    \A r \in Requests :
        LET q == import[r] IN
        (/\ q.at \in {"answered", "failed"} /\ q.alone
         /\ \A n \in DOMAIN q.file.rows : ~q.file.rows[n].bad)
        => q.at = "answered" /\ ~q.skipped

=============================================================================
