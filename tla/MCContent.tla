----------------------------- MODULE MCContent -----------------------------
(***************************************************************************)
(* Instances of the modules about what administrators enter: the places,   *)
(* the holiday calendar and the import of locations, as parts of           *)
(* ContentParts, and as one more part the pure operators of MCTables.      *)
(***************************************************************************)
EXTENDS ContentParts, MCTables, TLC

Day(date, type) == [date |-> date, type |-> type]
\* A file that gives a date twice and one that gives one date.
MCYears == {<<Day("d1", "h"), Day("d2", "h"), Day("d1", "w")>>, <<Day("d2", "w")>>}

FileRow(code, parent, says, bad) == [code |-> code, parent |-> parent, says |-> says, bad |-> bad]
\* Airports whose city may have to be made, among them one given twice, and
\* one that two files say the same of; a region with a row the database
\* refuses; a country.
MCImportFiles ==
    {[dataset |-> "airports", rows |-> <<FileRow("a1", "city", 1, FALSE), FileRow("a1", "city", 2, FALSE)>>],
     [dataset |-> "airports", rows |-> <<FileRow("a2", "city", 1, FALSE), FileRow("a1", "city", 2, FALSE)>>],
     [dataset |-> "regions", rows |-> <<FileRow("reg", "cn", 1, FALSE), FileRow("reg", "cn", 2, TRUE)>>],
     [dataset |-> "countries", rows |-> <<FileRow("cn", "none", 1, FALSE)>>]}

MCPlaceKind == [p \in PlaceIds |-> "spot"]
Chinese(name) == [zh |-> name]
Unbounded == -1
MCPosts == {Chinese("a") @@ [low |-> 1, high |-> 2],
            Chinese("a") @@ [low |-> 1, high |-> Unbounded],
            Chinese("a") @@ [reserved |-> TRUE, page |-> "u", closings |-> {18}, lastEntry |-> 17],
            Chinese("a") @@ [closings |-> {16}]}
\* Forms that set one field, so that two of them must be checked together.
MCForms == {[low |-> 2], [high |-> 1], [page |-> ""], [reserved |-> TRUE, page |-> "u"],
            [closings |-> {16}], [lastEntry |-> 17], [zh |-> "b"], [mn |-> "c"]}
MCReads == [k \in Keys |-> Tables]

ContentInit ==
    /\ PartsInit
    /\ IF part = "tables" THEN TablesInit
       ELSE topic = "none" /\ input = <<>> /\ done = FALSE /\ result = <<>>

ContentNext ==
    \/ PartsNext /\ UNCHANGED tableVars
    \/ part = "tables" /\ TablesNext /\ UNCHANGED allVars

ContentSpec == ContentInit /\ [][ContentNext]_<<allVars, tableVars>>

Interchangeable == Permutations(Admins)

=============================================================================
