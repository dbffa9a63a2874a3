------------------------------ MODULE MCTables ------------------------------
(***************************************************************************)
(* Bounded inputs of the pure operators of PureParts.                      *)
(***************************************************************************)
EXTENDS PureParts

SeqUpTo(S, n) == UNION {[1..m -> S] : m \in 0..n}

-----------------------------------------------------------------------------
(* CSV: tables of two rows                                                 *)

Cells == SeqUpTo({"x", " ", ",", "q", "n"}, 2) \cup {<<"x", "r", "n">>, <<"q", ",", "q">>}
Rows == {<<a>> : a \in Cells} \cup {<<a, b>> : a \in Cells, b \in {<<"x">>, <<>>, <<"q">>}}
MCCsvInputs == [rows : {<<r>> : r \in Rows} \cup
                     {<<r, <<<<"x">>, b>>>> : r \in Rows, b \in {<<"q", "n">>, <<" ">>}},
              eol : {<<"n">>, <<"r", "n">>}, ends : BOOLEAN]

-----------------------------------------------------------------------------
(* Files: the published columns of a dataset without some                  *)

Columns(dataset) ==
    CASE dataset = "countries" -> <<"id", "code", "name", "continent", "keywords">>
      [] dataset = "regions"   -> <<"id", "code", "localcode", "name", "continent", "isocountry">>
      [] dataset = "airports"  -> <<"ident", "type", "name", "continent", "isocountry",
                                    "isoregion", "municipality", "scheduledservice",
                                    "iatacode", "localcode">>
Cell(text, form) == [text |-> text, form |-> form]
Countries == {Cell("CN", "two letters"), Cell("US", "two letters"), Cell("C1", "code"),
              Cell("", "empty")}
Texts == {Cell("NAME", "free"), Cell("", "empty")}
Facts == [country : Countries, name : Texts, code : {Cell("CN-11", "hyphened"), Cell("?", "free")},
          iata : {Cell("PEK", "three letters"), Cell("P1KX", "code")},
          type : {Cell("LARGE_AIRPORT", "free"), Cell("HELIPORT", "free")},
          scheduled : {Cell("YES", "free"), Cell("NO", "free")},
          other : {Cell("AS", "two letters")}]
Without(columns, gone) == SelectSeq(columns, LAMBDA c : c \notin gone)
MCFileInputs ==
    UNION {[dataset : {d}, facts : Facts,
            header : {Without(Columns(d), {a, b}) : a, b \in Published[d]} \cup {Columns(d)}] :
              d \in DOMAIN Published}

-----------------------------------------------------------------------------
(* Names                                                                   *)

Names(word) == [Csv!Languages -> {"", word}]
MCNameInputs == [current : Names("b"), names : Names("a"), province : Names("a"), cityNames : {Csv!NoNames, Csv!SameIn("c")},
               region : {Csv!NoNames, Csv!SameIn("r")}, suffix : {"s"},
               name : {"", "n"}, code : {"k"}, municipality : {"", "m"}]

-----------------------------------------------------------------------------
(* Opening hours: up to two rules, a refused period among them             *)

Periods == {Hours!Period(0, 30), Hours!Period(540, 600), Hours!Period(540, 1050),
            Hours!Period(600, 540)}
Queues == {[weekdayMinutes |-> 0, holidayMinutes |-> Hours!None],
           [weekendMinutes |-> 1440], [weekendMinutes |-> 1441], [nightMinutes |-> 1]}
MCHourInputs == [rules : SeqUpTo([weekday : {0, 1}, periods : {{a, b} : a, b \in Periods} \cup {{}}], 2),
               lastEntry : {Hours!None, 0, 600, 1200}, queue : Queues]

-----------------------------------------------------------------------------
(* Cities: a spot, a shop and a hotel, one of them in another province, a  *)
(* place without one of its coordinates; and tallies of larger cities      *)

PlaceOf(id, kind, province, published, lacks) ==
    [id |-> id, kind |-> kind, published |-> published, province |-> province,
     anchors |-> City!AnchorsOf(kind) \ lacks]
Placings ==
    {{PlaceOf("s", "spot", p, TRUE, {"exit"} \cap l), PlaceOf("m", "shopping", "a", open, {"route"} \cap l),
      PlaceOf("h", "hotel", "a", TRUE, {}), PlaceOf("i", "hotel", q, TRUE, {"route"} \cap k)} :
        p \in {"a", "b"}, q \in {"a", "b"}, open \in BOOLEAN, l \in {{}, {"exit"}, {"route"}},
        k \in {{}, {"route"}}}

RowOf(state, province, modes) == [status |-> state, province |-> province, modes |-> modes]
Full == RowOf("ready", "a", City!Modes)
\* Rows from the first place to the others and back, the others full or not
\* there at all.
RowTables ==
    LET ids == {"s", "m", "h", "i"}
        there == {<<"s", "m">>, <<"h", "s">>, <<"m", "h">>}
        states == {Full, RowOf("ready", "b", City!Modes), RowOf("ready", "a", {"driving", "walking"}),
                   RowOf("stale", "a", {}), RowOf("failed", "a", {})}
        rest == City!Pairs(ids) \ there
    IN  {[e \in d \cup r |-> IF e \in d THEN f[e] ELSE Full] :
           d \in SUBSET there, r \in {{}, rest, {e \in rest : "i" \notin {e[1], e[2]}}},
           f \in [there -> states]}
\* One of the two provinces has an airport.
MCCityInputs == [places : Placings, rows : RowTables, province : {City!Anywhere, "a", "b"},
                 airports : {{"a"}}]

\* A city of n places whose rows are all ready, some without a mode.
MCTallyInputs == [nodes : {2, 3, 12, 100, 140, 141}, without : 0..2]
-----------------------------------------------------------------------------
(* An edge                                                                 *)

Suffixed == Figures!Name("city", "han", TRUE)
MCCityNames == {<<Suffixed, Figures!Name("City", "latin", FALSE)>>,
              <<Figures!Name("", "none", FALSE), Figures!Name("City", "latin", FALSE)>>,
              <<Figures!Name("Khot", "cyrillic", FALSE), Figures!Name("", "none", FALSE)>>}
MCKnown == {Suffixed, Figures!Name("city", "han", FALSE), Figures!Name("City", "latin", FALSE),
          Figures!Name("", "none", FALSE)}
Seconds(n) == 10 * n
Row(meters, seconds) == [distance |-> 10 * meters, duration |-> seconds,
                         segments |-> <<[line |-> "", railway |-> "", walk |-> 90],
                                        [line |-> "bus", railway |-> "", walk |-> 0]>>]
Ok(rows) == Figures!Reply("ok", rows)
MCDrivingReplies == {<<Thrown, Thrown, Thrown>>, <<Refused, Thrown, Thrown>>,
                   <<Thrown, Thrown, Ok(<<Row(900, Seconds(20))>>)>>,
                   <<Thrown, Ok(<<Row(900, Figures!None)>>), Thrown>>, <<Ok(<<>>), Thrown, Thrown>>}
MCWalkingReplies == {<<Thrown, Thrown, Thrown>>, <<Ok(<<Row(800, Seconds(600))>>), Thrown, Thrown>>}
MCTransitReplies == {Thrown, Ok(<<>>), Ok(<<Row(700, Seconds(300))>>), Ok(<<Row(700, Figures!None)>>)}

=============================================================================
