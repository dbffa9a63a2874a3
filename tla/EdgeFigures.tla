---------------------------- MODULE EdgeFigures ----------------------------
(***************************************************************************)
(* What one recompute makes of one edge of the transit cache: how the      *)
(* answers of the map provider become figures (AmapTransitClient), and how *)
(* figures, the row that is there and the estimates become the row that is *)
(* written (recomputeEdgesToDestination).                                  *)
(*                                                                         *)
(* Figures are whole numbers; None stands for null. A reply that is thrown *)
(* (time-out, HTTP error) differs from one the provider refused.           *)
(***************************************************************************)
EXTENDS Integers, Sequences, SequencesExt, FiniteSetsExt

None == -1
Or(figure, other) == IF figure # None THEN figure ELSE other
RoundDiv(a, b) == (2 * a + b) \div (2 * b)

-----------------------------------------------------------------------------
(* Names of cities: blank, in Chinese with or without the suffix for city, *)
(* in Latin letters, or in letters the provider does not know              *)

Name(base, script, suffixed) == [base |-> base, script |-> script, suffixed |-> suffixed]
Blank(name) == name.base = "" /\ ~name.suffixed

\* isSupportedTransitCityCandidate: the suffix is itself a Chinese letter.
Supported(name) == name.suffixed \/ name.script \in {"han", "latin"}

Unseen(list, name) == IF name \in Range(list) THEN <<>> ELSE <<name>>

\* The name without its suffix, if that leaves a name.
Bare(name) == [name EXCEPT !.suffixed = FALSE]
UnseenBare(list, name) ==
    IF name.suffixed /\ name.base # "" THEN Unseen(list, Bare(name)) ELSE <<>>

\* resolveTransitCityCandidates: the names of a place's city, Chinese first.
\* A name that was seen is not split again.
PlaceCandidates(chinese, city, english, mongolian) ==
    LET names == <<chinese, city, english, mongolian>>
        list[n \in 0..4] ==
          IF n = 0 THEN <<>>
          ELSE list[n - 1] \o IF Blank(names[n]) \/ names[n] \in Range(list[n - 1]) THEN <<>>
                              ELSE <<names[n]>> \o UnseenBare(list[n - 1], names[n])
    IN  list[4]

\* buildTransitCityCandidates: those the provider may know, each once; the
\* empty sequence stands for the one question without a city.
CityCandidates(names) ==
    LET list[n \in 0..Len(names)] ==
          IF n = 0 THEN <<>>
          ELSE list[n - 1] \o IF Blank(names[n]) \/ ~Supported(names[n]) THEN <<>>
                              ELSE Unseen(list[n - 1], names[n])
                                     \o UnseenBare(list[n - 1], names[n])
    IN  list[Len(names)]

-----------------------------------------------------------------------------
(* Answers of the provider                                                 *)

Figures(meters, minutes) == [meters |-> meters, minutes |-> minutes]
NoFigures == Figures(None, None)

\* toFiniteInt: a text in tenths, None for one that is not a number.
ToFiniteInt(text) == IF text = None THEN None ELSE RoundDiv(text, 10)
InMinutes(seconds) == IF seconds = None THEN None ELSE Max({1, RoundDiv(seconds, 60)})
FiguresOf(row) == Figures(ToFiniteInt(row.distance), InMinutes(ToFiniteInt(row.duration)))

Reply(kind, rows) == [kind |-> kind, rows |-> rows]

\* getDistanceMatrixToDestination, for n origins.
DistanceMatrix(enabled, n, reply) ==
    [i \in 1..n |-> IF enabled /\ reply.kind = "ok" /\ i \in DOMAIN reply.rows
                    THEN FiguresOf(reply.rows[i]) ELSE NoFigures]

Attempts == 3

\* fetchDistanceMatrixWithRetry: only a reply that was thrown is asked again.
FetchDistanceMatrix(enabled, n, replies) ==
    LET got == {k \in 1..Attempts : ~enabled \/ replies[k].kind # "thrown"}
    IN  IF got = {} THEN [i \in 1..n |-> NoFigures]
        ELSE DistanceMatrix(enabled, n, replies[Min(got)])

\* buildTransitSummary: the lines and railways in their order, each once; a
\* walk is named only when nothing comes before it.
Summary(segments) ==
    LET named(names) == SelectSeq(names, LAMBDA n : n # "")
        step(parts, s) ==
            LET ridden == parts \o named(<<s.line, s.railway>>)
            IN  IF s.walk > 0 /\ ridden = <<>> THEN <<"walking">> ELSE ridden
        parts == FoldLeft(step, <<>>, segments)
    IN  FoldLeft(LAMBDA kept, n : kept \o Unseen(kept, n), <<>>, parts)

NoTransit == [minutes |-> None, meters |-> None, noRoute |-> FALSE, summary |-> <<>>]
TransitOf(route) ==
    [minutes |-> FiguresOf(route).minutes, meters |-> FiguresOf(route).meters,
     noRoute |-> FALSE, summary |-> Summary(route.segments)]

\* getTransitDirection: the candidates in turn until the provider answers;
\* that it knows no route is an answer. says[name] is the reply to a name.
TransitDirection(names, says) ==
    LET asked == CityCandidates(names)
        questions == IF asked = <<>> THEN <<Name("", "none", FALSE)>> ELSE asked
        answered == {i \in DOMAIN questions : says[questions[i]].kind \notin {"thrown", "refused"}}
    IN  IF answered = {} THEN NoTransit
        ELSE LET answer == says[questions[Min(answered)]]
             IN  IF answer.rows = <<>> THEN [NoTransit EXCEPT !.noRoute = TRUE]
                 ELSE TransitOf(answer.rows[1])

\* getTransitDirectionsToDestination, with the replies for each origin: one
\* whose question fails stays without an answer, the others have theirs.
TransitDirections(enabled, names, fallback, says) ==
    [i \in DOMAIN says |-> IF enabled
                           THEN TransitDirection(CityCandidates(Append(names, fallback)), says[i])
                           ELSE NoTransit]

\* fetchTransitDirectionsWithRetry: every failure is caught before it gets
\* here, so that the first attempt is the only one.
FetchTransitDirections(enabled, names, fallback, says) ==
    TransitDirections(enabled, names, fallback, says)

\* getDirection as the planner asks it, for public transport under one name.
Direction(enabled, city, says) ==
    IF enabled THEN TransitDirection(CityCandidates(<<city>>), says) ELSE NoTransit

-----------------------------------------------------------------------------
(* Estimates from the distance between two points, which is at least 1     *)

DrivingEstimate(meters) == Max({1, RoundDiv(60 * meters + 150000, 25000)})
WalkingEstimate(meters) == Max({1, RoundDiv(60 * meters, 4500)})
TransitEstimate(meters) == Max({4, RoundDiv(60 * meters + 216000, 18000)})

-----------------------------------------------------------------------------
(* The row                                                                 *)

\* resolveProvider: what this recompute was told, whatever the row has.
Provider(driving, walking, transit) ==
    LET told == Cardinality({f \in {<<"driving", driving.minutes>>, <<"walking", walking.minutes>>,
                                    <<"transit", transit.minutes>>} : f[2] # None})
    IN  IF told = 3 THEN "amap" ELSE IF told > 0 THEN "amap_partial" ELSE "fallback"

StatusForgotten(transit, rows) ==
    IF transit.minutes # None THEN "ready" ELSE IF transit.noRoute THEN "no_route" ELSE "fallback"

\* The word a recompute has on public transport; the row's own otherwise.
TransitStatus(transit, rows) ==
    IF transit.minutes # None THEN "ready"
    ELSE IF transit.noRoute THEN "no_route"
    ELSE IF rows # <<>> THEN rows[1].transitProviderStatus
    ELSE "fallback"

\* recomputeEdgesToDestination for one origin: rows holds the row that is
\* there, or nothing; a mode that was not selected has no answer.
EdgeRow(modes, told, rows, estimated) ==
    LET driving == IF "driving" \in modes THEN told.driving ELSE NoFigures
        walking == IF "walking" \in modes THEN told.walking ELSE NoFigures
        transit == IF "transit" \in modes THEN told.transit ELSE NoTransit
        kept(figure, estimate) == IF rows # <<>> THEN rows[1][figure] ELSE estimate
    IN  [drivingMinutes |-> Or(driving.minutes, kept("drivingMinutes", DrivingEstimate(estimated))),
         walkingMinutes |-> Or(walking.minutes, kept("walkingMinutes", WalkingEstimate(estimated))),
         walkingMeters  |-> Or(walking.meters, kept("walkingMeters", estimated)),
         transitMinutes |-> Or(transit.minutes, kept("transitMinutes", TransitEstimate(estimated))),
         meters |-> Or(driving.meters,
                       Or(walking.meters, Or(transit.meters, kept("meters", estimated)))),
         transitSummary |-> IF transit.summary # <<>> THEN transit.summary
                            ELSE kept("transitSummary", <<>>),
         transitProviderStatus |-> TransitStatus(transit, rows),
         provider |-> Provider(driving, walking, transit)]

\* What the report of a chunk counts of a row.
Counted(row) ==
    {m \in {"driving", "walking", "walkingMinutes"} :
       CASE m = "driving" -> row.drivingMinutes > 0
         [] m = "walking" -> row.walkingMeters > 0
         [] m = "walkingMinutes" -> row.walkingMinutes > 0}
    \cup {row.transitProviderStatus}

=============================================================================
