\* Two administrators in every part; the inputs of the pure operators are
\* those listed in MCTables. The constants of the other parts are empty.
SPECIFICATION ContentSpec
CONSTANTS
    Parts = {"calendar", "locations", "places", "tables"}
    Keys = {}
    Tables = {}
    Reads <- MCReads
    Announced = {}
    Editors = {}
    Readers = {}
    TTL = 0
    MaxEdits = 0
    Users = {}
    MaxFaults = 0
    Admins = {r1, r2}
    Dates = {"d1", "d2"}
    DayTypes = {"h", "w"}
    Years <- MCYears
    MaxRows = 3
    LocationKeys = {"cn", "reg", "city", "a1", "a2"}
    AirportKeys = {"a1", "a2"}
    KeysAtStart = {{}, {"cn", "reg"}, {"city", "a1", "a2"}}
    ImportFiles <- MCImportFiles
    PlaceIds = {"p"}
    PlaceKind <- MCPlaceKind
    Posts <- MCPosts
    Forms <- MCForms
    Chars = {"x", " ", ",", "q", "r", "n"}
    Char = "x"
    Space = " "
    Comma = ","
    Quote = "q"
    CR = "r"
    LF = "n"
    CsvInputs <- MCCsvInputs
    FileInputs <- MCFileInputs
    NameInputs <- MCNameInputs
    HourInputs <- MCHourInputs
    CityInputs <- MCCityInputs
    TallyInputs <- MCTallyInputs
    Distances = {1, 2400}
    CityNames <- MCCityNames
    Known <- MCKnown
    DrivingReplies <- MCDrivingReplies
    WalkingReplies <- MCWalkingReplies
    TransitReplies <- MCTransitReplies
SYMMETRY Interchangeable
INVARIANTS
    ImportIsPrefix
    ImportedFilesAreRead
    ReadyMeansUsable
    SolverHoursHold
    RowKeepsAnswers
PROPERTIES
    ImportIsWhole
    SavesAreSound
\* An operator is evaluated once: a behaviour ends.
CHECK_DEADLOCK FALSE
