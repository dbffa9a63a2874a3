------------------------------ MODULE Itinerary ------------------------------
(****************************************************************************)
(* A request to the trip planner, from its arrival to its answer:           *)
(* trip-planner.service.ts, checkMatrixCoverage and generateItinerary.      *)
(*                                                                          *)
(* A request reads the selected points, the hotels and the ready transit    *)
(* edges in three queries.  A coverage check answers from them at once; a   *)
(* generation sends them to the optimizer and assembles the answer day by   *)
(* day: hotel bookings, legs (each with a live question to the map          *)
(* provider), lunch, and the sequence of stops shown to the traveller.      *)
(* Administrators edit places and edges meanwhile.                          *)
(*                                                                          *)
(* Days are numbered from 1, the start date; the night of day n is n, the   *)
(* night before the trip 0.  Names, links, coordinates and durations appear *)
(* only by what they decide.  A second request of the same kind shares      *)
(* nothing with this one but the database.                                  *)
(****************************************************************************)
EXTENDS Integers, FiniteSets, Sequences, Functions, SequencesExt

CONSTANTS
    Points,      \* spots and shopping places
    Hotels,      \* hotels of the city
    Unknown,     \* an identifier the optimizer may invent
    Null,        \* null: no previous hotel, no lunch hint
    FoodCourt,   \* points with hasFoodCourt
    LongStay,    \* points with suggestedDurationMinutes >= 240
    Near,        \* legs whose row has walkingMeters within WALKING_PRIORITY_METERS
    EdgeSets,    \* the sets of ready rows the table may hold
    Enabled,     \* amapTransitClient.isEnabled()
    MaxSelected, \* bound: points of a request
    MaxDays,     \* bound: days of a trip
    MaxEdits     \* bound: edits by administrators

Places == Points \cup Hotels
Nodes == Places \cup {Unknown}
Pairs == {leg \in Nodes \X Nodes : leg[1] # leg[2]}

ASSUME PlannerConstants ==
    /\ IsFiniteSet(Points) /\ IsFiniteSet(Hotels)
    /\ Points \cap Hotels = {}
    /\ Unknown \notin Places
    /\ Null \notin Nodes
    /\ FoodCourt \subseteq Points /\ LongStay \subseteq Points
    /\ Near \subseteq Places \X Places
    /\ EdgeSets \subseteq SUBSET (Places \X Places)
    /\ Enabled \in BOOLEAN
    /\ MaxSelected \in Nat /\ MaxDays \in Nat \ {0} /\ MaxEdits \in Nat

VARIABLES
    published,   \* places whose row says isPublished
    ready,       \* directed pairs with a ready row in transit_cache
    op,          \* what the request under way, or the last one, asks for
    stage,       \* where it stands
    chosen,      \* selectedPointIds
    hotels,      \* hotelCandidates, as read
    edges,       \* cacheEdges, as read
    plan,        \* solverResult.days
    bookings,    \* hotelBookingSegments
    directions,  \* transitDirectionCache: each question "waiting" or "settled"
    days,        \* the days assembled so far
    covered,     \* history: the nodes of a check that said canGenerate, until
                 \* their rows are gone or a generation has read them
    promised,    \* history: the nodes of this generation are among them
    edits

vars == <<published, ready, op, stage, chosen, hotels, edges, plan, bookings,
          directions, days, covered, promised, edits>>
database == <<published, ready, covered, edits>>
context == <<op, chosen, hotels, edges, promised>>

------------------------------------------------------------------------------
(* Coverage and edges *)

\* The loop over i < j: a pair is ready when either direction is.
Covers(nodes, rows) ==
    \A a, b \in nodes : a # b => <<a, b>> \in rows \/ <<b, a>> \in rows

\* Mutant: the reverse row is not looked for.
ResolveDirectEdge(leg) == [made |-> leg \notin edges, near |-> leg \in Near \cap edges]

\* The row used for a leg: the direct one, the reverse one, or one made up.
ResolveTransitEdge(leg) ==
    IF leg \in edges THEN [made |-> FALSE, near |-> leg \in Near]
    ELSE IF <<leg[2], leg[1]>> \in edges
         THEN [made |-> FALSE, near |-> <<leg[2], leg[1]>> \in Near]
         ELSE [made |-> TRUE, near |-> FALSE]

\* The map provider is asked about a leg that is not walked, between places
\* whose coordinates are known.
IsAsked(leg) ==
    /\ Enabled
    /\ ~ ResolveTransitEdge(leg).near
    /\ leg[1] \in chosen \cup hotels /\ leg[2] \in chosen \cup hotels

------------------------------------------------------------------------------
(* Hotel bookings *)

\* Mutant: the guest leaves on the last day instead of the day after.
BookingToLastDay(first, last, hotel) ==
    [hotel |-> hotel, from |-> first, to |-> last,
     checkIn |-> IF first = 1 THEN 0 ELSE first, checkOut |-> last]

Booking(first, last, hotel) ==
    [hotel |-> hotel, from |-> first, to |-> last,
     checkIn |-> IF first = 1 THEN 0 ELSE first, checkOut |-> last + 1]

\* First and last days of the maximal runs of days with one hotel.
HotelRuns(p) ==
    {r \in (DOMAIN p) \X (DOMAIN p) :
        /\ r[1] <= r[2]
        /\ \A i \in r[1]..r[2] : p[i].hotel = p[r[1]].hotel
        /\ r[1] = 1 \/ p[r[1] - 1].hotel # p[r[1]].hotel
        /\ r[2] = Len(p) \/ p[r[2] + 1].hotel # p[r[2]].hotel}

BuildHotelBookingSegments(p) ==
    {Booking(r[1], r[2], p[r[1]].hotel) : r \in HotelRuns(p)}

DayHotelBooking(hotel, date) ==
    CHOOSE b \in bookings : b.hotel = hotel /\ b.from <= date /\ date <= b.to

\* Mutant: every day starts in its own hotel.
DayStartHere(previous, hotel, date) == DayHotelBooking(hotel, date)

\* The day starts in the hotel left that morning, if there is one.
DayStartHotelBooking(previous, hotel, date) ==
    LET left == {b \in bookings : b.hotel = previous /\ b.checkOut = date} IN
    IF previous \in {Null, hotel} \/ left = {}
    THEN DayHotelBooking(hotel, date)
    ELSE CHOOSE b \in left : TRUE

------------------------------------------------------------------------------
(* Legs, lunch and the sequence of a day *)

\* Mutant: a day after a change of hotel starts at the hotel left.
LegPairsUntransferred(previous, hotel, points) ==
    IF points = <<>> THEN <<>>
    ELSE << <<IF previous = Null THEN hotel ELSE previous, points[1]>> >>
         \o [i \in 1..(Len(points) - 1) |-> <<points[i], points[i + 1]>>]
         \o << <<points[Len(points)], hotel>> >>

\* Mutant: no previous hotel is taken for another hotel.
LegPairsNullUnchecked(previous, hotel, points) ==
    IF points = <<>> THEN <<>>
    ELSE (IF previous # hotel
          THEN << <<previous, hotel>>, <<hotel, points[1]>> >>
          ELSE << <<previous, points[1]>> >>)
         \o [i \in 1..(Len(points) - 1) |-> <<points[i], points[i + 1]>>]
         \o << <<points[Len(points)], hotel>> >>

LegPairs(previous, hotel, points) ==
    IF points = <<>> THEN <<>>
    ELSE (IF previous = Null THEN << <<hotel, points[1]>> >>
          ELSE IF previous # hotel
               THEN << <<previous, hotel>>, <<hotel, points[1]>> >>
               ELSE << <<previous, points[1]>> >>)
         \o [i \in 1..(Len(points) - 1) |-> <<points[i], points[i + 1]>>]
         \o << <<points[Len(points)], hotel>> >>

PreviousHotel(date) == IF date = 1 THEN Null ELSE plan[date - 1].hotel

DayLegs(date) == LegPairs(PreviousHotel(date), plan[date].hotel, plan[date].points)

Asked(date) == {leg \in Range(DayLegs(date)) : IsAsked(leg)}

GeneratedLeg(leg) ==
    [item |-> "transport", from |-> leg[1], to |-> leg[2],
     made |-> ResolveTransitEdge(leg).made]

\* Mutant: the break is kept beside a lunch within a visit.
LunchArrangementTwice(points) ==
    LET courts == {i \in DOMAIN points : points[i] \in FoodCourt} IN
    [at |-> IF courts = {} THEN 0 ELSE CHOOSE i \in courts : \A j \in courts : i <= j,
     break |-> points # <<>>]

\* Which point of the day includes lunch (0 for none), and whether there is a
\* break of its own.
LunchArrangement(points) ==
    LET courts == {i \in DOMAIN points : points[i] \in FoodCourt} IN
    IF points = <<>> THEN [at |-> 0, break |-> FALSE]
    ELSE IF courts # {}
    THEN [at |-> CHOOSE i \in courts : \A j \in courts : i <= j, break |-> FALSE]
    ELSE IF Range(points) \subseteq LongStay
    THEN [at |-> 1, break |-> FALSE]
    ELSE [at |-> 0, break |-> TRUE]

Only(condition, item) == IF condition THEN <<item>> ELSE <<>>

LunchBreak == [item |-> "lunch_break"]

HotelStop(booking) ==
    [item |-> "hotel", place |-> booking.hotel,
     checkIn |-> booking.checkIn, checkOut |-> booking.checkOut]

BuildDaySequence(start, end, transfer, legs, points, lunch, hint) ==
    LET moved == transfer /\ legs # <<>>
        offset == IF moved THEN 1 ELSE 0
        leg(k) == IF k \in DOMAIN legs THEN <<legs[k]>> ELSE <<>>
        visit(i) ==
            leg(i + offset)
            \o Only(lunch.break /\ hint = points[i], LunchBreak)
            \o <<[item |-> "point", place |-> points[i], lunch |-> lunch.at = i]>>
            \o Only(lunch.break /\ hint = Null /\ i - 1 = Len(points) \div 2,
                    LunchBreak)
    IN  <<HotelStop(start)>>
        \o (IF moved THEN <<legs[1], HotelStop(end)>> ELSE <<>>)
        \o FlattenSeq([i \in DOMAIN points |-> visit(i)])
        \o leg(Len(points) + 1 + offset)
        \o <<HotelStop(end)>>

GeneratedDay(date) ==
    LET today == plan[date]
        previous == PreviousHotel(date)
        pairs == DayLegs(date)
    IN  [date |-> date, hotel |-> today.hotel,
         sequence |-> BuildDaySequence(
             DayStartHotelBooking(previous, today.hotel, date),
             DayHotelBooking(today.hotel, date),
             previous \notin {Null, today.hotel},
             [k \in DOMAIN pairs |-> GeneratedLeg(pairs[k])],
             today.points, LunchArrangement(today.points), today.hint)]

------------------------------------------------------------------------------
(* The optimizer, an external service *)

Visits(n) ==
    {v \in [1..n -> UNION {SetToSeqs(S) : S \in SUBSET chosen}] :
        \A p \in chosen : Cardinality({d \in 1..n : p \in Range(v[d])}) = 1}

\* Every selected point on one day.  Each day reads only its own hint, so one
\* hint for all of them gives every case.
Trip(n, h, v, hint) ==
    [d \in 1..n |-> [hotel |-> h[d], points |-> v[d], hint |-> hint]]

TripsOf(n) ==
    {Trip(n, h, v, hint) :
        h \in [1..n -> hotels], v \in Visits(n), hint \in chosen \cup {Null}}

Plans == UNION {TripsOf(n) : n \in 1..MaxDays}

\* The answer is not validated: a hotel or a point may be unknown, and a point
\* may come on two days.
Garbled(p) ==
    {[p EXCEPT ![d].hotel = Unknown] : d \in DOMAIN p}
    \cup {[p EXCEPT ![dx[1]].points = Append(@, dx[2])] :
             dx \in {dx \in (DOMAIN p) \X (chosen \cup {Unknown}) :
                        dx[2] \notin Range(p[dx[1]].points)}}

Solutions == Plans \cup UNION {Garbled(p) : p \in Plans}

------------------------------------------------------------------------------
(* The request *)

Init ==
    /\ published = Places
    /\ ready \in EdgeSets
    /\ op = "check" /\ stage = "idle" /\ chosen = {} /\ hotels = {} /\ edges = {}
    /\ plan = <<>> /\ bookings = {} /\ directions = <<>> /\ days = <<>>
    /\ covered = {} /\ promised = FALSE
    /\ edits = 0

Ask(kind, selection) ==
    /\ stage = "idle"
    /\ op' = kind /\ chosen' = selection /\ stage' = "points"
    /\ hotels' = {} /\ edges' = {} /\ promised' = FALSE
    /\ plan' = <<>> /\ bookings' = {} /\ directions' = <<>> /\ days' = <<>>
    /\ UNCHANGED database

\* A query fails, a row is not ready for the solver, the city has no airport,
\* or the optimizer fails or finds no itinerary.
Refuse ==
    /\ stage \in {"points", "hotels", "edges", "solve"}
    /\ stage' = "idle"
    /\ UNCHANGED <<database, context, plan, bookings, directions, days>>

ReadPoints ==
    /\ stage = "points"
    /\ chosen \subseteq published
    /\ stage' = "hotels"
    /\ UNCHANGED <<database, context, plan, bookings, directions, days>>

ReadHotels ==
    /\ stage = "hotels"
    /\ published \cap Hotels # {}
    /\ hotels' = published \cap Hotels
    /\ stage' = "edges"
    /\ UNCHANGED <<database, op, chosen, edges, promised, plan, bookings,
                   directions, days>>

\* The check answers; the generation goes on whatever is missing.
ReadEdges ==
    LET nodes == chosen \cup hotels
        rows == ready \cap (nodes \X nodes) IN
    /\ stage = "edges"
    /\ edges' = rows
    /\ \/ /\ op = "check"
          /\ covered' = IF Covers(nodes, rows) THEN nodes ELSE {}
          /\ stage' = "idle"
          /\ UNCHANGED promised
       \/ /\ op = "generate"
          /\ promised' = (nodes \subseteq covered)
          /\ covered' = {}
          /\ stage' = "solve"
    /\ UNCHANGED <<published, ready, op, chosen, hotels, plan, bookings,
                   directions, days, edits>>

\* The bookings are made first, and fail on a hotel that was not offered.
Solve(solution) ==
    /\ stage = "solve"
    /\ plan' = solution
    /\ IF \A d \in DOMAIN solution : solution[d].hotel \in hotels
       THEN /\ bookings' = BuildHotelBookingSegments(solution)
            /\ stage' = "ask"
       ELSE /\ stage' = "idle"
            /\ UNCHANGED bookings
    /\ UNCHANGED <<database, context, directions, days>>

Today == Len(days) + 1

\* Mutant: the answers of earlier days are not looked up.
AskDirectionsAgain ==
    LET new == Asked(Today) IN
    /\ stage = "ask"
    /\ directions' = [leg \in DOMAIN directions \cup new |->
                         IF leg \in new THEN "waiting" ELSE directions[leg]]
    /\ stage' = "wait"
    /\ UNCHANGED <<database, context, plan, bookings, days>>

\* Promise.all over the legs: those not asked before go to the provider together.
AskDirections ==
    LET new == Asked(Today) \ DOMAIN directions IN
    /\ stage = "ask"
    /\ directions' = [leg \in DOMAIN directions \cup new |->
                         IF leg \in new THEN "waiting" ELSE directions[leg]]
    /\ stage' = "wait"
    /\ UNCHANGED <<database, context, plan, bookings, days>>

\* An answer or a rejection, in any order; a rejection is caught and counts as
\* an answer without a route.
Answer(leg) ==
    /\ stage = "wait"
    /\ leg \in DOMAIN directions /\ directions[leg] = "waiting"
    /\ directions' = [directions EXCEPT ![leg] = "settled"]
    /\ UNCHANGED <<database, context, stage, plan, bookings, days>>

\* The day is put together once all its legs are there; a point that was not
\* selected ends the request with an error.
FinishDay ==
    /\ stage = "wait"
    /\ \A leg \in Asked(Today) : directions[leg] # "waiting"
    /\ IF Range(plan[Today].points) \subseteq chosen
       THEN /\ days' = Append(days, GeneratedDay(Today))
            /\ stage' = IF Today = Len(plan) THEN "idle" ELSE "ask"
       ELSE /\ stage' = "idle"
            /\ UNCHANGED days
    /\ UNCHANGED <<database, context, plan, bookings, directions>>

\* A request does not see what is edited after its last query: edits during the
\* rest of it are left to the time until the next one.
Editable == edits < MaxEdits /\ stage \in {"idle", "points", "hotels", "edges"}

\* An administrator publishes or withdraws a place.
EditPlace(place) ==
    /\ Editable
    /\ published' = IF place \in published THEN published \ {place}
                    ELSE published \cup {place}
    /\ edits' = edits + 1
    /\ UNCHANGED <<ready, covered, context, stage, plan, bookings, directions,
                   days>>

\* Edges are computed, or deleted with an edited place.
EditEdges(rows) ==
    /\ Editable
    /\ ready' = rows
    /\ covered' = IF Covers(covered, rows) THEN covered ELSE {}
    /\ edits' = edits + 1
    /\ UNCHANGED <<published, context, stage, plan, bookings, directions, days>>

Selections == {S \in (SUBSET Points) \ {{}} : Cardinality(S) <= MaxSelected}

Next ==
    \/ \E kind \in {"check", "generate"}, S \in Selections : Ask(kind, S)
    \/ Refuse
    \/ ReadPoints
    \/ ReadHotels
    \/ ReadEdges
    \/ stage = "solve" /\ \E solution \in Solutions : Solve(solution)
    \/ AskDirections
    \/ \E leg \in Pairs : Answer(leg)
    \/ FinishDay
    \/ \E place \in Places : EditPlace(place)
    \/ \E rows \in EdgeSets : EditEdges(rows)

Spec == Init /\ [][Next]_vars

------------------------------------------------------------------------------
(* Properties *)

Days == [hotel : Hotels \cup {Unknown}, points : Seq(Points \cup {Unknown}),
         hint : Points \cup {Null}]
Bookings == [hotel : Hotels, from : Nat, to : Nat, checkIn : Nat, checkOut : Nat]
Items ==
    [item : {"hotel"}, place : Hotels, checkIn : Nat, checkOut : Nat]
    \cup [item : {"point"}, place : Points, lunch : BOOLEAN]
    \cup [item : {"transport"}, from : Places, to : Places, made : BOOLEAN]
    \cup {LunchBreak}

\* Everything has its type, and the plan and bookings are the optimizer's.
TypeOK ==
    /\ published \subseteq Places /\ ready \subseteq Places \X Places
    /\ op \in {"check", "generate"}
    /\ stage \in {"idle", "points", "hotels", "edges", "solve", "ask", "wait"}
    /\ chosen \subseteq Points /\ hotels \subseteq Hotels
    /\ edges \subseteq Places \X Places
    /\ plan \in Seq(Days) /\ Len(days) <= Len(plan)
    /\ bookings \subseteq Bookings
    /\ DOMAIN directions \subseteq Pairs
    /\ \A leg \in DOMAIN directions : directions[leg] \in {"waiting", "settled"}
    /\ days \in Seq([date : Nat, hotel : Hotels, sequence : Seq(Items)])
    /\ covered \subseteq Places /\ promised \in BOOLEAN
    /\ edits \in 0..MaxEdits

Sleeps(night) == plan[IF night = 0 THEN 1 ELSE night].hotel

\* The hotel bookings cover every night, from the one before the start date to
\* the one after the last day, exactly once and in the day's hotel, and no other
\* night (buildHotelBookingSegments).
NightsTiled ==
    bookings # {} =>
        /\ \A night \in 0..Len(plan) :
              \E b \in bookings :
                  /\ b.hotel = Sleeps(night)
                  /\ b.checkIn <= night /\ night < b.checkOut
                  /\ \A c \in bookings :
                        c.checkIn <= night /\ night < c.checkOut => c = b
        /\ \A b \in bookings : b.checkOut <= Len(plan) + 1

Morning(day) == day.sequence[1]
Evening(day) == day.sequence[Len(day.sequence)]

\* A day starts where the day before ended, at a hotel booked for the night
\* before, and ends at one booked for its own night (buildGeneratedDays,
\* resolveDayStartHotelBookingLink).
StaysAreBooked ==
    \A d \in DOMAIN days :
        /\ Morning(days[d]).checkIn <= d - 1 /\ d - 1 < Morning(days[d]).checkOut
        /\ Evening(days[d]).checkIn <= d /\ d < Evening(days[d]).checkOut
        /\ Evening(days[d]).place = days[d].hotel
        /\ d > 1 => Morning(days[d]).place = days[d - 1].hotel

Leaves(stop, transport) ==
    /\ stop.item # "transport" /\ transport.item = "transport"
    /\ transport.from = stop.place

Reaches(transport, stop) ==
    /\ transport.item = "transport" /\ stop.item # "transport"
    /\ transport.to = stop.place

\* Of two items with nothing but lunch breaks between them, one is a stop and the
\* other the transport that leaves or reaches it.
Chained(items) ==
    \A j, k \in DOMAIN items :
        /\ j < k /\ LunchBreak \notin {items[j], items[k]}
        /\ \A i \in (j + 1)..(k - 1) : items[i] = LunchBreak
        => Leaves(items[j], items[k]) \/ Reaches(items[j], items[k])

\* A visit day begins and ends at a hotel; every transport leads from the stop
\* before it to the stop after it, and one stands between any two stops
\* (buildGeneratedLegs numbers the legs, buildDaySequence places them).
SequenceChained ==
    \A d \in DOMAIN days :
        plan[d].points # <<>> =>
            /\ Morning(days[d]).item = "hotel" /\ Evening(days[d]).item = "hotel"
            /\ Chained(days[d].sequence)

Lunches(day) ==
    Cardinality({k \in DOMAIN day.sequence :
                    \/ day.sequence[k] = LunchBreak
                    \/ day.sequence[k].item = "point" /\ day.sequence[k].lunch})

\* A day with points has exactly one lunch, of its own or within a visit, unless
\* the optimizer's hint names a point of another day (buildLunchArrangement,
\* buildDaySequence).
LunchOnce ==
    \A d \in DOMAIN days :
        plan[d].points # <<>> =>
            \/ Lunches(days[d]) = 1
            \/ /\ plan[d].hint \notin {Null} \cup Range(plan[d].points)
               /\ Lunches(days[d]) = 0

\* After a coverage check that said canGenerate, and while its rows are there, no
\* leg of a generated itinerary has made-up times (checkMatrixCoverage,
\* resolveTransitEdge).
NothingMadeUp ==
    promised =>
        \A d \in DOMAIN days : \A k \in DOMAIN days[d].sequence :
            days[d].sequence[k].item = "transport" => ~ days[d].sequence[k].made

\* Within one itinerary the provider is asked once about a leg, and its answer is
\* used on every day (transitDirectionCache).
DirectionsAskedOnce ==
    [][plan' = plan /\ plan # <<>> =>
        \A leg \in DOMAIN directions :
            /\ leg \in DOMAIN directions'
            /\ directions[leg] # "waiting" => directions'[leg] = directions[leg]]_vars

\* The days of a trip hold together: every stay is a hotel the request named
\* for that night, each place follows the one before, lunch comes once, and
\* nothing appears that was not asked for.
DaysHold == TypeOK /\ StaysAreBooked /\ SequenceChained /\ LunchOnce /\ NothingMadeUp

==============================================================================
