----------------------------- MODULE ContentParts -----------------------------
(***************************************************************************)
(* What administrators enter and what users are told of it, side by side:  *)
(* the planner's response cache, the notifications with their digest, the  *)
(* holiday calendar, the import of locations, and the places. They share   *)
(* no state, so a behaviour is one of a single module: part says which,    *)
(* and the variables of the others stay at an initial value.               *)
(***************************************************************************)
EXTENDS PlannerCache, Sequences

CONSTANTS
    Parts,                    \* the parts there are behaviours of
    Users, MaxFaults,         \* of the notifications
    Admins,                   \* administrators, each with one request
    Dates, DayTypes, Years,   \* Years: files of the calendar
    MaxRows,
    LocationKeys, AirportKeys, \* keys of locations, and of airports among them
    KeysAtStart,              \* sets of keys with a row at the start
    ImportFiles,
    PlaceIds, PlaceKind, Posts, Forms

FileRows == [code : LocationKeys, parent : LocationKeys \cup {"none"}, says : Nat, bad : BOOLEAN]
ImportFile == [dataset : {"countries", "regions", "airports"}, rows : Seq(FileRows)]

\* The form that creates a place has its Chinese name (BasePlaceCreateDto).
\* A file of the calendar is a list of days, and no date is no date.
\* What the rows of a file depend on is in other tables than they are:
\* countries and cities are neither regions nor airports.
ASSUME PartsAssumption ==
    /\ MaxFaults \in Nat
    /\ \A form \in Posts : "zh" \in DOMAIN form
    /\ MaxRows \in Nat /\ Years \subseteq Seq([date : Dates, type : DayTypes])
    /\ "none" \notin Dates
    /\ AirportKeys \subseteq LocationKeys /\ "none" \notin LocationKeys
    /\ ImportFiles \subseteq ImportFile
    /\ \A file \in ImportFiles : \A n, m \in DOMAIN file.rows :
          file.rows[n].parent \notin {file.rows[m].code} \cup AirportKeys

VARIABLES
    part,
    note, ready, process, hour, timer, run, cleanup, faults, news, mailed,
    day, drawn, asked,
    table, import,
    row, made, request, crossed

digestVars == <<note, ready, process, hour, timer, run, cleanup, faults, news, mailed>>
calendarVars == <<day, drawn, asked>>
importVars == <<table, import>>
placeVars == <<row, made, request, crossed>>
allVars == <<part, vars, digestVars, calendarVars, importVars, placeVars>>

Digest == INSTANCE Notifications

Calendar == INSTANCE HolidayCalendar WITH Files <- Years, request <- asked

Locations == INSTANCE LocationImport
    WITH Keys <- LocationKeys, Airports <- AirportKeys, Tables <- KeysAtStart,
         Files <- ImportFiles, Requests <- Admins

Places == INSTANCE Places WITH Ids <- PlaceIds, Kind <- PlaceKind, Requests <- Admins

PartsInit ==
    /\ part \in Parts
    /\ Init /\ Digest!Init /\ Calendar!Init /\ Locations!Init /\ Places!Init
    /\ part = "notices" \/ (~ready /\ hour = "early")
    /\ part = "locations" \/ \A k \in LocationKeys : table[k] = Locations!Absent

PartsNext ==
    /\ UNCHANGED part
    /\ \/ part = "planner" /\ Next
          /\ UNCHANGED <<digestVars, calendarVars, importVars, placeVars>>
       \/ part = "notices" /\ Digest!Next
          /\ UNCHANGED <<vars, calendarVars, importVars, placeVars>>
       \/ part = "calendar" /\ Calendar!Next
          /\ UNCHANGED <<vars, digestVars, importVars, placeVars>>
       \/ part = "locations" /\ Locations!Next
          /\ UNCHANGED <<vars, digestVars, calendarVars, placeVars>>
       \/ part = "places" /\ Places!Next
          /\ UNCHANGED <<vars, digestVars, calendarVars, importVars>>

PartsSpec == PartsInit /\ [][PartsNext]_allVars

-----------------------------------------------------------------------------
\* Whatever fails and however often the process starts again, a user gets at
\* most one digest from one nine o'clock to the next.
OncePerMorning == part = "notices" => Digest!TypeOK /\ Digest!OncePerMorning

\* A failed or interrupted import of the calendar that nobody disturbed leaves
\* the first rows of its file and no others; one that ends leaves them all.
ImportIsPrefix == part = "calendar" => Calendar!TypeOK /\ Calendar!ImportIsPrefix

\* An import of locations that commits has all of its file or, with a row
\* skipped, nothing; and one nobody disturbs saves every row the database
\* takes.
ImportIsWhole ==
    /\ Locations!ImportIsWhole
    /\ [](part = "locations" => Locations!TypeOK /\ Locations!SavesEveryRow)

\* A save that no other has crossed leaves a row that passes the checks its
\* form and the row it read passed together, its name that of its languages.
SavesAreSound == Places!SavesAreSound

===============================================================================
