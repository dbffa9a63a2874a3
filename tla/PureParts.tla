------------------------------ MODULE PureParts ------------------------------
(***************************************************************************)
(* The project's pure operators, each over inputs that are constants: an   *)
(* input is chosen, then the operator's result is set beside it. topic     *)
(* says whose input it is; the properties compare the result with a        *)
(* reference definition. The row of an edge alone is written again and     *)
(* again, by one recompute after another.                                  *)
(***************************************************************************)
EXTENDS Integers, Sequences, FiniteSets

CONSTANTS
    Chars, Char, Space, Comma, Quote, CR, LF,  \* characters of texts
    CsvInputs, FileInputs, NameInputs,  \* tables, files and names of locations
    HourInputs, CityInputs, TallyInputs,
    Distances,                          \* in meters, between the ends of an edge
    CityNames, Known,                   \* pairs of names; those the provider answers
    DrivingReplies, WalkingReplies, TransitReplies

VARIABLES topic, input, done, result
tableVars == <<topic, input, done, result>>

Done(p) == done /\ topic = p

-----------------------------------------------------------------------------
(* CSV: tables, printed and parsed. An input has its rows of cells, the    *)
(* characters that end a line, and whether they end the last one too.      *)

Csv == INSTANCE LocationCsv

Concat(f) == LET all[i \in 0..Len(f)] == IF i = 0 THEN <<>> ELSE all[i - 1] \o f[i]
             IN  all[Len(f)]
PrintCell(cell) ==
    IF \E i \in DOMAIN cell : cell[i] \in {Comma, Quote, CR, LF}
    THEN <<Quote>> \o Concat([i \in DOMAIN cell |-> IF cell[i] = Quote THEN <<Quote, Quote>>
                                                    ELSE <<cell[i]>>]) \o <<Quote>>
    ELSE cell
PrintRow(cells) == Concat([i \in DOMAIN cells |->
                             (IF i = 1 THEN <<>> ELSE <<Comma>>) \o PrintCell(cells[i])])
TextOf(in) ==
    Concat([i \in DOMAIN in.rows |->
              PrintRow(in.rows[i]) \o (IF i < Len(in.rows) \/ in.ends THEN in.eol ELSE <<>>)])

\* The cells without the blanks around them, and without the blank rows.
Cleaned(rows) ==
    Concat([i \in DOMAIN rows |->
              LET cells == [j \in DOMAIN rows[i] |-> Csv!Trimmed(rows[i][j])]
              IN  IF \E j \in DOMAIN cells : cells[j] # <<>> THEN <<cells>> ELSE <<>>])

\* A table that is written as RFC 4180 says is read back: cells without the
\* blanks around them, and without the lines that are blank throughout.
CsvRoundTrip ==
    Done("csv") => result = Cleaned(input.rows)

-----------------------------------------------------------------------------
(* Files: a header of some of a dataset's published columns, and a line    *)

Published == [
    countries |-> {"id", "code", "name", "continent", "keywords"},
    regions   |-> {"id", "code", "localcode", "name", "continent", "isocountry"},
    airports  |-> {"ident", "type", "name", "continent", "isocountry", "isoregion",
                   "municipality", "scheduledservice", "iatacode", "localcode"}]
CellOf(dataset, column, facts) ==
    CASE column = "code" -> IF dataset = "countries" THEN facts.country ELSE facts.code
      [] column = "isocountry" -> facts.country
      [] column = "isoregion" -> facts.code
      [] column = "iatacode" -> facts.iata
      [] column = "name" -> facts.name
      [] column = "type" -> facts.type
      [] column = "scheduledservice" -> facts.scheduled
      [] OTHER -> facts.other
Line(in) == [i \in DOMAIN in.header |-> CellOf(in.dataset, in.header[i], in.facts)]

\* A file that lacks some of its columns is refused, or it is still taken for
\* the dataset it is and only lines of a covered country become rows.
FilesToldApart ==
    (Done("file") /\ ~result.refused) =>
        /\ result.dataset = input.dataset
        /\ result.fate[1] = "row" => input.facts.country.text \in {"CN", "MN"}

-----------------------------------------------------------------------------
(* Names                                                                   *)

\* The names that are there never show through an import: a language the file
\* does not give is filled from the file's English one first.
StoredNamesNeverShow ==
    Done("names") => result = Csv!Stored(Csv!NoNames, input)

\* A table of locations is read as it was written, a file is taken for the
\* dataset it is, and its names are those of the file alone.
ImportedFilesAreRead == CsvRoundTrip /\ FilesToldApart /\ StoredNamesNeverShow

-----------------------------------------------------------------------------
(* Opening hours                                                           *)

Hours == INSTANCE PlanningHours

TimesOfDay == 0..1439

\* The solver is told a last entry on the day itself that lies before the
\* latest closing of hours the spot has, and opens spots and shops alike when
\* their last rule for the weekday does; a queue of no minutes is told as one,
\* and what was accepted of a profile is accepted of it as stored.
SolverHoursHold ==
    (Done("hours") /\ result # <<>>) =>
        LET rules == input.rules
            spot == result.spot
        IN  /\ spot.lastEntry \in TimesOfDay
            /\ rules # <<>> => \E w \in DOMAIN spot.hours : \E p \in spot.hours[w] :
                                  spot.lastEntry <= p.end
            /\ \A i \in DOMAIN rules :
                 (\A j \in i + 1..Len(rules) : rules[j].weekday # rules[i].weekday)
                   => {spot.hours[rules[i].weekday], result.shop.hours[rules[i].weekday]}
                        = {rules[i].periods}
            /\ Hours!QueueAccepted(Hours!NormalizeQueueProfile(input.queue))
            /\ \A k \in DOMAIN input.queue :
                 input.queue[k] # Hours!None => spot.queue[k] = input.queue[k]

-----------------------------------------------------------------------------
(* Cities: their places and the rows between them, and tallies of a city   *)
(* of n places whose rows are all ready, some without a mode               *)

City == INSTANCE CityMatrix

TallyOf(n, without) ==
    [expected |-> n * (n - 1), ready |-> n * (n - 1), stale |-> 0, failed |-> 0,
     withMode |-> [m \in City!Modes |-> n * (n - 1) - IF m = "transit" THEN without ELSE 0]]

\* Coverages are rounded: among the rows of more places, one may lack a mode unseen.
Rounding == 141

\* A city of at most 141 places is shown ready just when it has two nodes and
\* each node is shown ready, in every province it is listed under.
ReadyCityHasReadyNodes ==
    /\ Done("city") =>
          LET nodes == DOMAIN result.nodes
          IN  Cardinality(nodes) <= Rounding =>
                (result.status = "ready"
                   <=> Cardinality(nodes) > 1 /\ \A i \in nodes : result.nodes[i] = "ready")
    /\ Done("tally") => (input.nodes <= Rounding => (result = "ready" <=> input.without = 0))

\* The planner turns a selection away for want of an airport, if at all.
RefusedForAirport(selected, places, airports, home) ==
    City!GenerationRefusal(selected, places, airports, home)
      = IF home \in airports THEN "none" ELSE "CITY_AIRPORT_NOT_FOUND"

\* Where the page of a city says that trips can be generated and reports no
\* missing coordinate, the planner's own check covers every selection of its
\* points in a province with a hotel, and the planner turns a selection away
\* for want of an airport there, of which the page knows nothing, and for no
\* other reason before it asks the solver.
CanGenerateIsTrue ==
    (Done("city") /\ result.canGenerate /\ result.issues = {}) =>
        \A home \in IF input.province = City!Anywhere THEN {p.province : p \in input.places}
                    ELSE {input.province} :
            City!Hotels(input.places, home) # {} =>
                \A selected \in (SUBSET {p.id : p \in {q \in input.places :
                        q.kind # "hotel" /\ q.published /\ q.province = home}}) \ {{}} :
                    /\ City!Refusal(selected, input.places, home) = "none"
                    /\ RefusedForAirport(selected, input.places, input.airports, home)
                    /\ City!CheckMatrixCoverage(selected, input.places, input.rows, home)

\* A city is shown ready just when each of its nodes is, and what the page
\* says can be generated the planner's check covers, and the planner refuses
\* at most for want of an airport.
ReadyMeansUsable == ReadyCityHasReadyNodes /\ CanGenerateIsTrue

-----------------------------------------------------------------------------
(* An edge: recomputes of one row. The input is the distance estimated and *)
(* what the provider last told of each figure; the result is the row.      *)

Figures == INSTANCE EdgeFigures

NothingTold == [driving |-> Figures!None, walking |-> Figures!None, transit |-> Figures!None,
                walk |-> Figures!None, word |-> "fallback"]
NoCity == Figures!Name("", "none", FALSE)
Thrown == Figures!Reply("thrown", <<>>)
Refused == Figures!Reply("refused", <<>>)
Silence == <<Thrown, Thrown, Thrown>>

\* What the provider tells under the rules of the recompute: the first reply
\* that is not thrown counts, and of it the row of the origin.
FirstOf(replies) ==
    IF replies[1].kind # "thrown" THEN replies[1]
    ELSE IF replies[2].kind # "thrown" THEN replies[2] ELSE replies[3]
Tells(reply, figure) ==
    reply.kind = "ok" /\ reply.rows # <<>> /\ reply.rows[1][figure] # Figures!None
MinutesTold(reply, old) ==
    IF Tells(reply, "duration") THEN Figures!InMinutes(Figures!ToFiniteInt(reply.rows[1].duration))
    ELSE old
MetersTold(reply, old) ==
    IF Tells(reply, "distance") THEN Figures!ToFiniteInt(reply.rows[1].distance) ELSE old
WordTold(reply, old) ==
    IF reply.kind # "ok" THEN old ELSE IF reply.rows = <<>> THEN "no_route"
    ELSE IF Tells(reply, "duration") THEN "ready" ELSE old

\* A city is asked about by its names that may be known, with the suffix for
\* city and without, and without a name if there is none.
Asked(names) ==
    LET given == {n \in {names[1], names[2]} : ~Figures!Blank(n) /\ Figures!Supported(n)}
        bare == {[n EXCEPT !.suffixed = FALSE] : n \in {m \in given : m.base # ""}}
    IN  IF given = {} THEN {NoCity} ELSE given \cup bare

\* The provider knows the city by one of its names.
Says(known, reply) == [city \in Known |-> IF city = known THEN reply ELSE Refused]
Remeasured(modes, driving, walking, transit, names, known) ==
    LET answers == [driving |-> Figures!FetchDistanceMatrix(TRUE, 1, driving)[1],
                    walking |-> Figures!FetchDistanceMatrix(TRUE, 1, walking)[1],
                    transit |-> Figures!FetchTransitDirections(TRUE,
                                   Figures!PlaceCandidates(names[1], names[1], names[2], names[2]),
                                   names[1], <<Says(known, transit)>>)[1]]
    IN  Figures!EdgeRow(modes, answers, result, input.meters)
LastTold(old, driving, walking, answer) ==
    [driving |-> MinutesTold(FirstOf(driving), old.driving),
     walking |-> MinutesTold(FirstOf(walking), old.walking),
     walk    |-> MetersTold(FirstOf(walking), old.walk),
     transit |-> MinutesTold(answer, old.transit),
     word    |-> WordTold(answer, old.word)]

Remeasure ==
    /\ topic = "edge"
    /\ \E modes \in (SUBSET {"driving", "walking", "transit"}) \ {{}},
          driving \in DrivingReplies, walking \in WalkingReplies, transit \in TransitReplies,
          names \in CityNames, known \in Known :
         /\ "driving" \in modes \/ driving = Silence
         /\ "walking" \in modes \/ walking = Silence
         /\ "transit" \in modes \/ transit = Thrown
         /\ result' = <<Remeasured(modes, driving, walking, transit, names, known)>>
         /\ input' = [input EXCEPT !.last =
               LastTold(@, driving, walking, IF known \in Asked(names) THEN transit ELSE Thrown)]
    /\ UNCHANGED <<topic, done>>

\* Recomputes of single modes, replies that fail, are refused or lack a figure,
\* and names the provider does not know, in any order: each of the row's
\* minutes is the last the provider told, or the first estimate, and the word
\* on public transport is the last it had; a report counts the row for it.
RowKeepsAnswers ==
    (topic = "edge" /\ result # <<>>) =>
        LET row == result[1]
            last == input.last
        IN  /\ row.drivingMinutes = Figures!Or(last.driving, Figures!DrivingEstimate(input.meters))
            /\ row.walkingMinutes = Figures!Or(last.walking, Figures!WalkingEstimate(input.meters))
            /\ row.walkingMeters = Figures!Or(last.walk, input.meters)
            /\ row.transitMinutes = Figures!Or(last.transit, Figures!TransitEstimate(input.meters))
            /\ row.transitProviderStatus = last.word
            /\ Figures!Counted(row) = {"driving", "walkingMinutes", last.word}
                                     \cup IF last.walk = 0 THEN {} ELSE {"walking"}

-----------------------------------------------------------------------------
(* What the inputs are                                                     *)

Characters == <<Char, Space, Comma, Quote, CR, LF>>
CharactersDiffer ==
    \A i, j \in DOMAIN Characters : Characters[i] = Characters[j] => i = j
CsvInput(in) ==
    /\ in.rows \in Seq(Seq(Seq(Chars)))
    /\ in.eol \in {<<LF>>, <<CR, LF>>} /\ in.ends \in BOOLEAN

\* A region's code is not of two letters, as a country's is.
FileInput(in) ==
    /\ in.dataset \in DOMAIN Published /\ in.header \in Seq(Published[in.dataset])
    /\ in.dataset = "regions" => in.facts.code.form # "two letters"

\* A line has an airport code, and a province without a name its region's.
NameInput(in) == in.code # "" /\ in.suffix # ""

HourInput(in) ==
    /\ in.rules \in Seq([weekday : Int, periods : SUBSET [start : TimesOfDay, end : TimesOfDay]])
    /\ in.lastEntry \in TimesOfDay \cup {Hours!None}

CityInput(in) ==
    /\ IsFiniteSet(in.places)
    /\ \A p \in in.places : /\ p.province # City!Anywhere
                            /\ p.anchors \subseteq City!AnchorsOf(p.kind)
                            /\ \A q \in in.places : p.id = q.id => p = q
    /\ \A e \in DOMAIN in.rows : in.rows[e].modes \subseteq City!Modes
TallyInput(in) ==
    /\ in.nodes \in Nat \ {0, 1}
    /\ in.without \in 0..(in.nodes * (in.nodes - 1))

IsName(name) == name \in [base : STRING, script : STRING, suffixed : BOOLEAN]
Figure == Nat \cup {Figures!None}
IsReply(reply) ==
    /\ reply.kind \in {"thrown", "refused", "ok"}
    /\ reply.rows \in Seq([distance : Figure, duration : Figure,
                           segments : Seq([line : STRING, railway : STRING, walk : Figure])])

ASSUME PureAssumption ==
    /\ CharactersDiffer /\ \A in \in CsvInputs : CsvInput(in)
    /\ \A in \in FileInputs : FileInput(in)
    /\ \A in \in NameInputs : NameInput(in)
    /\ \A in \in HourInputs : HourInput(in)
    /\ \A in \in CityInputs : CityInput(in)
    /\ \A in \in TallyInputs : TallyInput(in)
    /\ Distances \subseteq Nat \ {0}
    /\ \A replies \in DrivingReplies \cup WalkingReplies : \A k \in 1..3 : IsReply(replies[k])
    /\ \A reply \in TransitReplies : IsReply(reply)
    /\ \A names \in CityNames : /\ IsName(names[1]) /\ IsName(names[2])
                                 /\ Asked(names) \subseteq Known

-----------------------------------------------------------------------------
TablesInit ==
    /\ done = FALSE /\ result = <<>>
    /\ \/ topic = "csv" /\ input \in CsvInputs
       \/ topic = "file" /\ input \in FileInputs
       \/ topic = "names" /\ input \in NameInputs
       \/ topic = "hours" /\ input \in HourInputs
       \/ topic = "city" /\ input \in CityInputs
       \/ topic = "tally" /\ input \in TallyInputs
       \/ topic = "edge" /\ input \in [meters : Distances, last : {NothingTold}]

SolverHours(in) ==
    IF /\ Hours!PlanningMetadataValid(in.rules, in.lastEntry)
       /\ Hours!ShoppingMetadataValid(in.rules)
       /\ Hours!QueueAccepted(in.queue)
    THEN [spot |-> Hours!SolverSpot(in.rules, in.lastEntry, in.queue),
          shop |-> Hours!SolverShopping(in.rules)]
    ELSE <<>>

Evaluate ==
    /\ ~done /\ done' = TRUE
    /\ \/ topic = "csv" /\ result' = Csv!ParseCsvRows(TextOf(input))
       \/ topic = "file" /\ result' = Csv!Import("auto", input.header, <<Line(input)>>)
       \/ topic = "names" /\ result' = Csv!Stored(input.current, input)
       \/ topic = "hours" /\ result' = SolverHours(input)
       \/ topic = "city" /\ result' = City!CityPage(input.places, input.rows, input.province)
       \/ topic = "tally"
            /\ result' = City!ResolveCityStatus(TallyOf(input.nodes, input.without))
    /\ UNCHANGED <<topic, input>>

TablesNext == Evaluate \/ Remeasure
TablesSpec == TablesInit /\ [][TablesNext]_tableVars

=============================================================================
