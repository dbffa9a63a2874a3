--------------------------- MODULE HolidayCalendar ---------------------------
(***************************************************************************)
(* HolidayCalendarService: the days administrators enter one by one, edit, *)
(* delete, or import from a year's file. A row is read by one statement    *)
(* and saved by a later one: a save updates the row of the entity's id and *)
(* inserts it when it is gone. An import is a save per day, without a      *)
(* transaction; a unique column refuses a second row for a date.           *)
(***************************************************************************)
EXTENDS Integers, FiniteSets, Sequences

CONSTANTS
    Admins,     \* administrators, each with one request under way
    Dates, DayTypes,
    Files,      \* files that may be imported: sequences of [date, type]
    MaxRows     \* bound: identifiers ever drawn

VARIABLES
    day,        \* day[i]: the row with identifier i
    drawn,      \* identifiers drawn so far
    request     \* request[a]: how far the request of a is

vars == <<day, drawn, request>>

-----------------------------------------------------------------------------
Ids == 1..MaxRows
NoDay == [date |-> "none"]
Row == [date : Dates, type : DayTypes]
Idle == [at |-> "idle"]

TypeOK ==
    /\ day \in [Ids -> Row \cup {NoDay}]
    /\ drawn \in 0..MaxRows
    /\ \A a \in Admins :
         request[a].at \in {"idle", "found", "import", "done", "refused"}

Init ==
    /\ day = [i \in Ids |-> NoDay]
    /\ drawn = 0
    /\ request = [a \in Admins |-> Idle]

At(a, place) == request[a].at = place
Present(i) == day[i] # NoDay
Taken(date, i) == \E j \in Ids \ {i} : day[j].date = date

\* What planning sees: the row of each date, if it has one.
Calendar == [d \in Dates |-> {day[i].type : i \in {j \in Ids : day[j].date = d}}]

\* Someone has written the table: imports under way are no longer alone.
Disturbed(a) ==
    [b \in Admins |-> IF b # a /\ request[b].at \in {"import", "done", "refused"}
                      THEN [request[b] EXCEPT !.alone = FALSE] ELSE request[b]]
Goes(a, to) == request' = [request EXCEPT ![a] = to]
Writes(a, to) == request' = [Disturbed(a) EXCEPT ![a] = to]

\* save of the entity i: it updates the row or inserts it again, unless
\* another row has its date. save of a new entity draws an identifier.
Save(i, row) == ~Taken(row.date, i) /\ day' = [day EXCEPT ![i] = row]

-----------------------------------------------------------------------------
CreateDay(a, row) ==
    /\ At(a, "idle")
    /\ drawn + 1 \in Ids
    /\ Save(drawn + 1, row)
    /\ drawn' = drawn + 1
    /\ Writes(a, Idle)

\* The first statement of updateDay and of deleteDay.
Find(a, i) ==
    /\ At(a, "idle")
    /\ Present(i)
    /\ Goes(a, [at |-> "found", id |-> i, row |-> day[i]])
    /\ UNCHANGED <<day, drawn>>

\* What the request does not give is as it was found; a conflict is answered 409.
UpdateDay(a, date, type) ==
    /\ At(a, "found")
    /\ Save(request[a].id, [date |-> date, type |-> type])
    /\ Writes(a, Idle)
    /\ UNCHANGED drawn

DeleteDay(a) ==
    /\ At(a, "found")
    /\ day' = [day EXCEPT ![request[a].id] = NoDay]
    /\ Writes(a, Idle)
    /\ UNCHANGED drawn

-----------------------------------------------------------------------------
(* importDays                                                              *)

DatesOf(file) == {file[k].date : k \in DOMAIN file}

\* Mutant: the days are saved as the file lists them.
Undeduplicated(file) == file

\* Map.set, for an array of entries: a date that has an entry keeps its place.
Entered(days, entry) ==
    IF \E n \in DOMAIN days : days[n].date = entry.date
    THEN [n \in DOMAIN days |-> IF days[n].date = entry.date THEN entry ELSE days[n]]
    ELSE Append(days, entry)

\* The Map keyed by date of the file's entries, as the array of its values.
Unique(file) ==
    LET upTo[k \in 0..Len(file)] == IF k = 0 THEN <<>> ELSE Entered(upTo[k - 1], file[k])
    IN  upTo[Len(file)]

\* The existing days are read once, before any is saved.
StartImport(a, file) ==
    /\ At(a, "idle")
    /\ Goes(a, [at |-> "import", days |-> Unique(file), next |-> 1,
                found |-> {i \in Ids : day[i].date \in DatesOf(file)},
                dates |-> [i \in Ids |-> day[i].date],
                alone |-> TRUE, file |-> file, before |-> Calendar])
    /\ UNCHANGED <<day, drawn>>

\* The entity found at the start is saved with the date it had then; a date
\* that had none gets a new row. A conflict is not caught and ends the import.
ImportDay(a) ==
    LET q == request[a]
        entry == q.days[q.next]
        known == {i \in q.found : q.dates[i] = entry.date}
        i == IF known # {} THEN CHOOSE k \in known : TRUE ELSE drawn + 1
    IN  /\ At(a, "import")
        /\ q.next <= Len(q.days)
        /\ i \in Ids
        /\ \/ /\ Save(i, entry)
              /\ Writes(a, [q EXCEPT !.next = @ + 1])
              /\ drawn' = IF known = {} THEN i ELSE drawn
           \/ /\ Taken(entry.date, i)
              /\ Goes(a, [q EXCEPT !.at = "refused"])
              /\ UNCHANGED <<day, drawn>>

ImportEnds(a) ==
    /\ At(a, "import")
    /\ request[a].next > Len(request[a].days)
    /\ Goes(a, [request[a] EXCEPT !.at = "done"])
    /\ UNCHANGED <<day, drawn>>

\* The answer, an error's too; or the database fails, or the process dies.
Leave(a) ==
    /\ ~At(a, "idle")
    /\ Goes(a, Idle)
    /\ UNCHANGED <<day, drawn>>

Next ==
    \E a \in Admins :
        \/ \E row \in Row : CreateDay(a, row)
        \/ \E i \in Ids : Find(a, i)
        \/ \E date \in Dates, type \in DayTypes : UpdateDay(a, date, type)
        \/ DeleteDay(a)
        \/ \E file \in Files : StartImport(a, file)
        \/ ImportDay(a) \/ ImportEnds(a)
        \/ Leave(a)

-----------------------------------------------------------------------------
\* While nobody else writes, an import is never refused, and at any moment,
\* so also where it is cut off, the calendar is the one it found with the
\* first days of the file put over it, each with the last type the file gives
\* it; when it is answered, they are all there.
ImportIsPrefix ==
    \A a \in Admins :
        LET q == request[a]
            done == {q.days[k].date : k \in 1..(q.next - 1)}
            Final(d) == LET ks == {k \in DOMAIN q.file : q.file[k].date = d}
                       IN  q.file[CHOOSE k \in ks : \A j \in ks : j <= k].type
        IN  (q.at \in {"import", "done", "refused"} /\ q.alone) =>
               /\ q.at # "refused"
               /\ Calendar = [d \in Dates |-> IF d \in done THEN {Final(d)}
                                                            ELSE q.before[d]]
               /\ q.at = "done" => done = DatesOf(q.file)

=============================================================================
