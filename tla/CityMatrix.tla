----------------------------- MODULE CityMatrix -----------------------------
(***************************************************************************)
(* What is told of a city's matrix: the page of MatrixAdminService, with   *)
(* the state of the city, of its nodes, and whether a trip can be          *)
(* generated; the state TransitCacheService gives for a point; and how the *)
(* planner checks and generates for a selection, up to its request to the  *)
(* solver. Each reads the places and the rows  *)
(* by filters of its own. The places and rows are those of one city; rows  *)
(* are a function from the pairs of places that have one.                  *)
(***************************************************************************)
EXTENDS Integers, FiniteSets

Anywhere == "any province"
Modes == {"transit", "driving", "walking", "walkingMinutes"}

\* Place: [id, kind, published, province, anchors], anchors being the
\* coordinates that are complete. Row: [status, province, modes], modes being
\* those with a value, and "transit" only of one the provider answered.
AnchorsOf(kind) == IF kind = "spot" THEN {"entry", "exit"} ELSE {"route"}
InProvince(x, province) == province \in {Anywhere, x.province}
Ids(places) == {p.id : p \in places}
Pairs(ids) == {e \in ids \X ids : e[1] # e[2]}

-----------------------------------------------------------------------------
(* The page of a city                                                      *)

\* loadCityNodes: published places with every coordinate.
CityNodes(places, province) ==
    {p \in places : p.published /\ InProvince(p, province) /\ p.anchors = AnchorsOf(p.kind)}

\* loadCityEdges, by the state of the row.
EdgesIn(state, ids, rows, province) ==
    {e \in Pairs(ids) \cap DOMAIN rows : rows[e].status = state /\ InProvince(rows[e], province)}

\* A fault: coverages are rounded to one decimal.
RoundedCoverage(expected, ready) ==
    IF expected <= 0 THEN 10000
    ELSE 1000 * ((20 * ready + expected) \div (2 * expected))

\* toCoverage: the ratio to four decimals, in units of the last one.
Whole == 10000
ToCoverage(expected, ready) ==
    IF expected <= 0 THEN Whole
    ELSE (2 * Whole * ready + expected) \div (2 * expected)

Tally(ids, rows, province) ==
    LET ready == EdgesIn("ready", ids, rows, province)
    IN  [expected |-> Cardinality(ids) * (Cardinality(ids) - 1),
         ready |-> Cardinality(ready),
         stale |-> Cardinality(EdgesIn("stale", ids, rows, province)),
         failed |-> Cardinality(EdgesIn("failed", ids, rows, province)),
         withMode |-> [m \in Modes |-> Cardinality({e \in ready : m \in rows[e].modes})]]

ResolveCityStatus(tally) ==
    IF /\ tally.expected > 0 /\ tally.ready = tally.expected
       /\ \A m \in Modes : ToCoverage(tally.ready, tally.withMode[m]) >= Whole
    THEN "ready"
    ELSE IF tally.ready > 0 THEN "partial"
    ELSE IF tally.failed > 0 THEN "failed"
    ELSE IF tally.stale > 0 THEN "stale" ELSE "pending"

\* The loop over i < j: a pair is covered when one of its directions is.
Covered(ids, ready) == \A e \in Pairs(ids) : {e, <<e[2], e[1]>>} \cap ready # {}

\* buildNodeDetails: a node is ready when every edge from it and to it is,
\* with every mode.
NodeStatus(id, ids, rows, province) ==
    LET touching == {e \in EdgesIn("ready", ids, rows, province) : id \in {e[1], e[2]}}
        expected == 2 * (Cardinality(ids) - 1)
        complete == {e \in touching : rows[e].modes = Modes}
    IN  IF expected > 0 /\ Cardinality(complete) = expected THEN "ready"
        ELSE IF touching # {} THEN "partial" ELSE "pending"

\* buildCityDiagnostics: the coordinates that published places lack.
Issues(places, province) ==
    UNION {{<<p.id, a>> : a \in AnchorsOf(p.kind) \ p.anchors} :
              p \in {q \in places : q.published /\ InProvince(q, province)}}

\* computeCityStatus.
CityPage(places, rows, province) ==
    LET ids == Ids(CityNodes(places, province))
    IN  [status |-> ResolveCityStatus(Tally(ids, rows, province)),
         nodes |-> [i \in ids |-> NodeStatus(i, ids, rows, province)],
         canGenerate |-> Covered(ids, EdgesIn("ready", ids, rows, province)),
         issues |-> Issues(places, province)]

\* listCityRefs: the provinces in which the city has nodes.
CityRefs(places) == {p.province : p \in CityNodes(places, Anywhere)}

-----------------------------------------------------------------------------
(* The state of a point                                                    *)

\* getPointMatrixStatuses: of the rows from or to the point whose ends are
\* both there still, in whatever city, published or not.
PointRows(id, places, rows) ==
    {e \in DOMAIN rows : id \in {e[1], e[2]} /\ {e[1], e[2]} \subseteq Ids(places)}

ResolvePointMatrixStatus(id, places, rows) ==
    LET of == PointRows(id, places, rows)
        some(state) == \E e \in of : rows[e].status = state
    IN  IF of = {} THEN "pending"
        ELSE IF \A e \in of : rows[e].status = "ready" THEN "ready"
        ELSE IF some("ready") THEN "partial"
        ELSE IF some("failed") THEN "failed" ELSE "stale"

-----------------------------------------------------------------------------
(* The planner's check of a selection                                      *)

\* The point the solver gets: a spot may lack one of its two coordinates.
Located(p) == p.anchors # {}

\* A fault: hotels are taken in from every province.
HotelsAnywhere(places, province) ==
    {p \in places : p.kind = "hotel" /\ p.published}

\* queryHotelsByCity.
Hotels(places, province) ==
    {p \in places : p.kind = "hotel" /\ p.published /\ p.province = province}

\* The province of a trip: the one asked for, or the only one of its points.
TripProvince(chosen, province) ==
    IF province # Anywhere THEN {province}
    ELSE IF Cardinality({p.province : p \in chosen}) = 1
         THEN {p.province : p \in chosen} ELSE {}

\* querySpotsByIds and queryShoppingByIds: hotels are not among the points.
PublishedPoints(selected, places) ==
    {p \in places : p.kind # "hotel" /\ p.published /\ p.id \in selected}

\* What the solver needs of a place: the forms see to its city, its province
\* and its duration, so that the coordinate decides.
PointsSolverReady(points) == \A p \in points : Located(p)
HotelsSolverReady(hotels) == \A h \in hotels : Located(h)
PointsWithinProvince(points, province) == \A p \in points : InProvince(p, province)

\* prepareGenerationContext: why it refuses a selection of identifiers.
Refusal(selected, places, province) ==
    LET chosen == PublishedPoints(selected, places)
        home == TripProvince(chosen, province)
        hotels == UNION {Hotels(places, h) : h \in home}
    IN  IF selected = {} THEN "POINTS_REQUIRED"
        ELSE IF selected # Ids(chosen) THEN "POINTS_NOT_FOUND"
        ELSE IF ~PointsSolverReady(chosen) THEN "POINTS_NOT_SOLVER_READY"
        ELSE IF ~PointsWithinProvince(chosen, province) THEN "POINT_PROVINCE_MISMATCH"
        ELSE IF home = {} THEN "PROVINCE_REQUIRED"
        ELSE IF hotels = {} THEN "HOTELS_NOT_FOUND"
        ELSE IF ~HotelsSolverReady(hotels) THEN "HOTELS_NOT_SOLVER_READY"
        ELSE "none"

\* resolveCityAirportCode: airports are the provinces in which the airport
\* listed first for the city has a code.
HasAirport(home, airports) == home \cap airports # {}

\* generateItinerary: why it refuses a selection before the solver is asked.
GenerationRefusal(selected, places, airports, province) ==
    LET why == Refusal(selected, places, province)
    IN  IF why # "none" THEN why
        ELSE IF HasAirport(TripProvince(PublishedPoints(selected, places), province), airports)
             THEN "none" ELSE "CITY_AIRPORT_NOT_FOUND"

\* findReadyEdgesByCityAndPointIds, asked without a province.
ReadyEdges(ids, rows) == EdgesIn("ready", ids, rows, Anywhere)

\* checkMatrixCoverage of a selection that is not refused: rows count whatever
\* province they have.
CheckMatrixCoverage(selected, places, rows, province) ==
    LET chosen == PublishedPoints(selected, places)
        ids == selected \cup UNION {Ids(Hotels(places, h)) : h \in TripProvince(chosen, province)}
    IN  Covered(ids, ReadyEdges(ids, rows))
=============================================================================
