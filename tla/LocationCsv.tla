------------------------------ MODULE LocationCsv ------------------------------
(***************************************************************************)
(* The pure part of AirportCsvImportService: the CSV parser, the detection *)
(* of the dataset, the filters that turn lines into rows, and the names in *)
(* three languages that rows are given and that are merged with those of   *)
(* the rows there are.                                                     *)
(*                                                                         *)
(* A file's characters are model values where the parser is concerned. A   *)
(* cell after parsing is its text in upper case, and its form: which of    *)
(* the service's patterns it matches.                                      *)
(***************************************************************************)
EXTENDS Integers, Sequences, FiniteSets, SequencesExt

CONSTANTS
    Char,         \* what is neither of the below
    Space, Comma, Quote, CR, LF

-----------------------------------------------------------------------------
(* parseCsvRows                                                            *)

Blank == {Space, CR, LF}
Trimmed(text) ==
    LET solid == {i \in DOMAIN text : text[i] \notin Blank} IN
    IF solid = {} THEN <<>>
    ELSE SubSeq(text, CHOOSE i \in solid : \A j \in solid : i <= j,
                      CHOOSE i \in solid : \A j \in solid : i >= j)

Start == [rows |-> <<>>, row |-> <<>>, cell |-> <<>>, quoted |-> FALSE, skip |-> FALSE]
EndCell(s) == [s EXCEPT !.row = Append(@, s.cell), !.cell = <<>>]
EndRow(s) ==
    LET row == [i \in DOMAIN s.row |-> Trimmed(s.row[i])] IN
    [s EXCEPT !.rows = IF \E i \in DOMAIN row : row[i] # <<>> THEN Append(@, row) ELSE @,
              !.row = <<>>]

\* Mutant: a quote in a quoted cell ends it, doubled or not.
QuoteEnds(s, next) == [s EXCEPT !.quoted = ~@]

TakeQuote(s, next) ==
    IF s.quoted /\ next = Quote THEN [s EXCEPT !.cell = Append(@, Quote), !.skip = TRUE]
                                ELSE [s EXCEPT !.quoted = ~@]

Take(s, char, next) ==
    IF s.skip THEN [s EXCEPT !.skip = FALSE]
    ELSE IF char = Quote THEN TakeQuote(s, next)
    ELSE IF ~s.quoted /\ char = Comma THEN EndCell(s)
    ELSE IF ~s.quoted /\ char \in {CR, LF}
    THEN [EndRow(EndCell(s)) EXCEPT !.skip = char = CR /\ next = LF]
    ELSE [s EXCEPT !.cell = Append(@, char)]

ParseCsvRows(text) ==
    LET after[i \in 0..Len(text)] ==
          IF i = 0 THEN Start
          ELSE Take(after[i - 1], text[i], IF i < Len(text) THEN text[i + 1] ELSE Char)
    IN  EndRow(EndCell(after[Len(text)])).rows

-----------------------------------------------------------------------------
(* Headers                                                                 *)

Codes(header) == {header[i] : i \in DOMAIN header}

\* createHeaderIndex and pickIndex: the first key there is, in its first column.
PickIndex(header, keys) ==
    LET found == {k \in DOMAIN keys : keys[k] \in Codes(header)} IN
    IF found = {} THEN 0 ELSE SelectInSeq(header, LAMBDA h : h = keys[Min(found)])

\* detectDatasetType; "unknown" is answered 400.
Detect(requested, header) ==
    LET Has(keys) == keys \subseteq Codes(header) IN
    IF requested # "auto" THEN requested
    ELSE IF Has({"iatacode", "isocountry", "isoregion"}) THEN "airports"
    ELSE IF Has({"code", "name", "isocountry", "localcode"}) THEN "regions"
    ELSE IF Has({"code", "name", "continent"}) THEN "countries" ELSE "unknown"

Needed(dataset) ==
    CASE dataset = "countries" -> {"code", "name"}
      [] dataset = "regions"   -> {"code", "name", "isocountry"}
      [] dataset = "airports"  -> {"iatacode", "name", "isocountry", "isoregion",
                                   "municipality"}
      [] OTHER -> {"?"}

-----------------------------------------------------------------------------
(* Lines: cells by column                                                  *)

None == [text |-> "", form |-> "empty"]
At(line, header, key) ==
    LET i == PickIndex(header, <<key>>) IN
    IF i = 0 \/ i > Len(line) THEN None ELSE line[i]

\* normalizeCountryCode, normalizeContinent: two letters.
CountryCode(cell) == IF cell.form = "two letters" THEN cell.text ELSE ""
\* normalizeRegionCode: letters, digits and hyphens, two to sixteen.
RegionCode(cell) == IF cell.form \in {"two letters", "three letters", "code", "hyphened"}
                    THEN cell.text ELSE ""
\* normalizeCsvAirportCode: letters and digits, three to eight.
AirportCode(cell) == IF cell.form \in {"three letters", "code"} THEN cell.text ELSE ""

Allowed == {"CN", "MN"}

\* Mutant: an airport code of three letters is enough.
InScopeAnywhere(country, cell) == cell.form = "three letters"

\* isAirportWithinTargetScope
InScope(country, cell) == country \in Allowed /\ cell.form = "three letters"
ShouldImport(scheduled, type) ==
    scheduled = "YES" \/ type \in {"LARGE_AIRPORT", "MEDIUM_AIRPORT"}

\* What becomes of a data line: it is a row, an error or skipped.
ParseCountry(line, header) ==
    LET code == CountryCode(At(line, header, "code")) IN
    IF code = "" \/ At(line, header, "name").text = "" THEN "error"
    ELSE IF code \notin Allowed THEN "skipped" ELSE "row"

ParseRegion(line, header) ==
    LET country == CountryCode(At(line, header, "isocountry")) IN
    IF RegionCode(At(line, header, "code")) = "" \/ country = ""
       \/ At(line, header, "name").text = "" THEN "error"
    ELSE IF country \notin Allowed THEN "skipped" ELSE "row"

ParseAirport(line, header) ==
    LET iata == At(line, header, "iatacode")
        country == CountryCode(At(line, header, "isocountry")) IN
    IF /\ AirportCode(iata) # "" /\ RegionCode(At(line, header, "isoregion")) # ""
       /\ InScope(country, iata)
       /\ ShouldImport(At(line, header, "scheduledservice").text,
                       At(line, header, "type").text)
    THEN "row" ELSE "skipped"

Parse(dataset, line, header) ==
    CASE dataset = "countries" -> ParseCountry(line, header)
      [] dataset = "regions"   -> ParseRegion(line, header)
      [] dataset = "airports"  -> ParseAirport(line, header)

\* importFromCsv up to the transaction: refused with 400, or the lines' fates.
Import(requested, header, lines) ==
    LET dataset == Detect(requested, header)
        fate == [i \in DOMAIN lines |-> Parse(dataset, lines[i], header)] IN
    IF dataset = "unknown" \/ ~(Needed(dataset) \subseteq Codes(header))
    THEN [refused |-> TRUE, dataset |-> dataset]
    ELSE [refused |-> \A i \in DOMAIN lines : fate[i] # "row",
          dataset |-> dataset, fate |-> fate]

-----------------------------------------------------------------------------
(* Names in three languages; "" is a text that is missing                  *)

Languages == {"zh-CN", "en-US", "mn-MN"}
Or(a, b) == IF a # "" THEN a ELSE b

\* Mutant: a language the file does not have is left empty.
ParseNameSparse(cells, fallback) ==
    [l \in Languages |-> IF l = "en-US" THEN Or(cells[l], fallback) ELSE cells[l]]

\* parseNameI18n
ParseName(cells, fallback) ==
    LET en == Or(cells["en-US"], fallback) IN
    [l \in Languages |-> IF l = "en-US" THEN en ELSE Or(cells[l], en)]

\* mergeNameI18n
MergeName(current, incoming, fallback) ==
    LET en == Or(incoming["en-US"], Or(current["en-US"], fallback)) IN
    [l \in Languages |-> IF l = "en-US" THEN en
                         ELSE Or(incoming[l], Or(current[l], en))]

NoNames == [l \in Languages |-> ""]
SameIn(name) == [l \in Languages |-> name]      \* buildFallbackNameI18n

\* resolveProvinceInfo: region is the reference row's names, if there is one,
\* suffix what the region code is named by otherwise.
Province(region, suffix, incoming) ==
    LET fallback == Or(region["en-US"], suffix)
        fromRegion == MergeName(SameIn(fallback), region, fallback)
        merged == MergeName(fromRegion, incoming, Or(fromRegion["en-US"], fallback))
    IN  [name |-> Or(merged["en-US"], fallback), names |-> merged]

\* The names of a row of airports: what is merged into its airport, city and
\* province. own is the line's province columns, NoNames if all are empty.
RowNames(line) ==
    LET own == IF line.province = NoNames THEN NoNames
               ELSE ParseName(line.province, "")
        province == Province(line.region, line.suffix, own)
    IN  [airport  |-> ParseName(line.names, Or(line.name, line.code)),
         province |-> province.names,
         city     |-> IF line.municipality = "" THEN province.names
                      ELSE ParseName(line.cityNames, line.municipality)]

\* What is stored for them, over the names there are.
Stored(current, line) ==
    LET names == RowNames(line)
        airport == Or(line.name, line.code)
        province == names.province["en-US"] IN
    [airport  |-> MergeName(current, names.airport, airport),
     province |-> MergeName(current, names.province, province),
     city     |-> MergeName(current, names.city, Or(line.municipality, province))]

=============================================================================
