------------------------------- MODULE Places -------------------------------
(***************************************************************************)
(* SpotAdminService, ShoppingService, HotelService: the rows of places as  *)
(* administrators create, edit and delete them. An update reads the row,   *)
(* merges the fields of its form into it, checks the whole, and saves it;  *)
(* the save reads the row once more and writes the columns that differ.    *)
(* Of a row, the columns are kept that a check relates to one another: a   *)
(* price range, a reservation with its page, the last entry with the       *)
(* closing times, and the name with its translation. What the handlers do  *)
(* to the two caches after the save is in PlannerCache and TransitCache.   *)
(***************************************************************************)
EXTENDS Integers, FiniteSets

CONSTANTS
    Ids,        \* identifiers of places
    Kind,       \* Kind[p]: "spot", "shopping" or "hotel"
    Requests,
    Posts,      \* forms that may create a place: functions from some fields
    Forms       \* forms that may update one: functions from some fields

VARIABLES
    row,        \* row[p]: its row, or NoRow
    made,       \* places created so far
    request,    \* request[r]: how far the request r is
    crossed     \* places whose last save was written over another's

vars == <<row, made, request, crossed>>

-----------------------------------------------------------------------------
None == -1
NoRow == [low |-> "absent"]
Idle == [at |-> "idle"]

\* The columns a form that leaves them out gets when a place is created.
Blank == [low |-> None, high |-> None, reserved |-> FALSE, page |-> "",
          closings |-> {}, lastEntry |-> None]
Columns == DOMAIN Blank \cup {"name", "zh"}

Present(p) == row[p] # NoRow

-----------------------------------------------------------------------------
\* The checks of an update. Of shopping places and hotels the columns that
\* they do not have stay blank.
RangeHolds(entity) ==
    entity.low # None /\ entity.high # None => entity.low <= entity.high
PageKnown(entity) == entity.reserved => entity.page # ""
EntryBeforeClosing(entity) ==
    entity.lastEntry # None /\ entity.closings # {} =>
        \E c \in entity.closings : entity.lastEntry <= c
Checked(entity) ==
    RangeHolds(entity) /\ PageKnown(entity) /\ EntryBeforeClosing(entity)

\* The checks of a creation look at the form. A bound given as null passes
\* for one that is given, and is compared as zero.
Priced(bound) == IF bound = None THEN 0 ELSE bound
RangeGiven(form) ==
    {"low", "high"} \subseteq DOMAIN form => Priced(form.low) <= Priced(form.high)

Lacks(kind) == CASE kind = "spot" -> {}
                 [] kind = "shopping" -> {"reserved", "page", "lastEntry"}
                 [] kind = "hotel" -> {"reserved", "page", "lastEntry", "closings"}
Has(kind, form) == DOMAIN form \cap Lacks(kind) = {}

\* applyBaseUpdates: a form with a name in any language fills an empty
\* translation, and the name is the Chinese one.
Named(entity, form) ==
    LET zh == IF "zh" \in DOMAIN form THEN form.zh
              ELSE IF entity.zh # "" THEN entity.zh ELSE entity.name
    IN  IF {"zh", "mn"} \cap DOMAIN form = {} THEN entity
        ELSE [entity EXCEPT !.zh = zh, !.name = zh]

Merged(entity, form) ==
    [c \in Columns |-> IF c \in DOMAIN form \cap DOMAIN Blank THEN form[c]
                       ELSE Named(entity, form)[c]]

-----------------------------------------------------------------------------
Init ==
    /\ row = [p \in Ids |-> NoRow]
    /\ made = {}
    /\ request = [r \in Requests |-> Idle]
    /\ crossed = {}

At(r, place) == request[r].at = place
Goes(r, to) == request' = [request EXCEPT ![r] = to]

\* createSpot, createShopping, createHotel: one INSERT of a new row.
Create(r, p, form) ==
    /\ At(r, "idle") /\ p \notin made
    /\ Has(Kind[p], form) /\ RangeGiven(form)
    /\ LET entity == [c \in Columns |-> IF c = "name" THEN form.zh
                                        ELSE IF c \in DOMAIN form THEN form[c] ELSE Blank[c]]
       IN  /\ PageKnown(entity) /\ EntryBeforeClosing(entity)
           /\ row' = [row EXCEPT ![p] = entity]
    /\ made' = made \cup {p}
    /\ UNCHANGED <<request, crossed>>

\* A fault: the update checks its form alone, as a creation does.
UpdateUnchecked(r, p, form) ==
    /\ At(r, "idle") /\ Present(p)
    /\ Has(Kind[p], form) /\ RangeGiven(form)
    /\ Goes(r, [at |-> "select", place |-> p, entity |-> Merged(row[p], form)])
    /\ UNCHANGED <<row, made, crossed>>

\* updateSpot, updateShopping, updateHotel until save is called. A place that
\* is not there, and a merged row that fails a check, end the request.
Update(r, p, form) ==
    /\ At(r, "idle") /\ Present(p)
    /\ Has(Kind[p], form)
    /\ Checked(Merged(row[p], form))
    /\ Goes(r, [at |-> "select", place |-> p, entity |-> Merged(row[p], form)])
    /\ UNCHANGED <<row, made, crossed>>

\* save reads the row its entity is compared with.
Select(r) ==
    /\ At(r, "select")
    /\ Goes(r, [at |-> "write", place |-> request[r].place,
                entity |-> request[r].entity, seen |-> row[request[r].place]])
    /\ UNCHANGED <<row, made, crossed>>

\* What the row is after an UPDATE of the columns that differ; of a row that
\* has gone meanwhile nothing is updated.
Updated(now, entity, seen) ==
    IF now = NoRow THEN NoRow
    ELSE [c \in Columns |-> IF entity[c] # seen[c] THEN entity[c] ELSE now[c]]

\* save writes. Where it saw no row it inserts one, unless another has.
Write(r) ==
    LET p == request[r].place
        seen == request[r].seen
    IN  /\ At(r, "write")
        /\ row' = [row EXCEPT ![p] =
                      IF seen # NoRow THEN Updated(@, request[r].entity, seen)
                      ELSE IF @ = NoRow THEN request[r].entity ELSE @]
        /\ crossed' = IF row[p] # seen THEN crossed \cup {p} ELSE crossed \ {p}
        /\ Goes(r, Idle)
        /\ UNCHANGED made

\* deleteSpot, deleteShopping, deleteHotel.
Delete(r, p) ==
    /\ At(r, "idle") /\ Present(p)
    /\ row' = [row EXCEPT ![p] = NoRow]
    /\ UNCHANGED <<made, request, crossed>>

Next == \E r \in Requests :
    \/ \E p \in Ids : \/ \E form \in Posts : Create(r, p, form)
                      \/ \E form \in Forms : Update(r, p, form)
                      \/ Delete(r, p)
    \/ Select(r)
    \/ Write(r)

-----------------------------------------------------------------------------
\* A save that no other save slipped under leaves a row that passes every
\* check, whichever row its update had read, be it older than the row it
\* overwrites or of a place deleted since; and it never parts the name from
\* its Chinese translation.
SavesAreSound ==
    [][\A p \in Ids : row'[p] \notin {row[p], NoRow} /\ p \notin crossed' =>
          /\ Checked(row'[p])
          /\ row[p] = NoRow \/ row[p].name = row[p].zh => row'[p].name = row'[p].zh]_vars

=============================================================================
