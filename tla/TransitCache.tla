----------------------------- MODULE TransitCache -----------------------------
(***************************************************************************)
(* The table transit_cache, one row per directed edge between two places,  *)
(* and those who write it: administrators, whose edit of a place is saved  *)
(* and then followed by deletePointEdges, and recompute runs, which work   *)
(* for minutes from places and rows they read at their start.              *)
(*                                                                         *)
(* A place is what a run needs of it: the city it is listed in, where it   *)
(* is and whether it is published.  The minutes of an edge are represented *)
(* by the two coordinates they were computed from, whether the map         *)
(* provider answered or the code estimated them.  A city is compared with  *)
(* its case folded, as the queries do; province is folded into city.       *)
(***************************************************************************)
EXTENDS Integers

CONSTANTS
    Points,       \* identifiers of spots, shopping places and hotels
    TypeOf,       \* TypeOf[p]: the table a place is a row of
    Cities,
    Coordinates,
    Modes,
    Editors,      \* administrator requests that may be under way
    Runs,         \* recompute runs that may be under way
    MaxEdits,     \* bound: saves and deletions of places
    MaxFaults     \* bound: failed database calls and process deaths

ASSUME TransitAssumption == /\ Cities # {}
                            /\ MaxEdits \in Nat
                            /\ MaxFaults \in Nat

VARIABLES
    place,        \* the tables spot, shopping_place and hotel_place
    edges,        \* the table transit_cache
    editor,       \* editor[a]: what request a awaits, and for which place
    run,          \* run[r]: what run r has read and has still to write
    suspect,      \* ghost: places whose edges one of the named races touched
    edits,        \* how many edits there have been
    faults        \* how many faults there have been

vars == <<place, edges, editor, run, suspect, edits, faults>>

-----------------------------------------------------------------------------
(* Values                                                                  *)

Types == {TypeOf[p] : p \in Points}
Pairs == Points \X Points

\* A place's coordinate columns may be null.  Number(null) is 0.
Null == "null"
Zero == "zero"

\* Mutant: a null column reaches the provider as it is.
UsedAsRead(at) == at

\* The coordinate a run uses for what it has read.
Used(at) == IF at = Null THEN Zero ELSE at

Place == [row : {"unborn", "live", "removed"}, city : Cities,
          at : Coordinates \cup {Null}, isPublished : BOOLEAN]
LivePlace == {d \in Place : d.row = "live"}

From == [from : Coordinates \cup {Zero}, to : Coordinates \cup {Zero}]
Edge == [city : Cities, from : Points, to : Points, minutes : [Modes -> From]]

SameKey(e, f) == e.city = f.city /\ e.from = f.from /\ e.to = f.to

Run == [at : {"idle", "resolve", "load", "map", "upsert"},
        target : SUBSET Points,     \* {} when the run is for a whole city
        city : Cities,
        modes : SUBSET Modes,
        unread : SUBSET Types,      \* tables of places still to be read
        points : SUBSET Points,     \* the places it works on
        seen : [Points -> Place],   \* and what it read of them
        map : SUBSET Edge,          \* existingEdgeMap
        todo : SUBSET Pairs,        \* edges still to be written
        late : SUBSET Points,       \* ghost: places edited since it began
        clean : BOOLEAN]            \* ghost: nothing disturbed it

TypeOK ==
    /\ place \in [Points -> Place]
    /\ edges \in SUBSET Edge
    /\ editor \in [Editors -> [at : {"idle", "save", "deleteEdges"},
                               points : SUBSET Points]]
    /\ run \in [Runs -> Run]
    /\ suspect \in SUBSET Points
    /\ edits \in Nat
    /\ faults \in Nat

Waiting == [at |-> "idle", points |-> {}]

NoPlace == [row |-> "unborn", city |-> CHOOSE c \in Cities : TRUE,
            at |-> Null, isPublished |-> FALSE]

NoRun == [at |-> "idle", target |-> {}, city |-> CHOOSE c \in Cities : TRUE,
          modes |-> {}, unread |-> {}, points |-> {},
          seen |-> [p \in Points |-> NoPlace],
          map |-> {}, todo |-> {}, late |-> {}, clean |-> FALSE]

\* The places that exist before the table of edges is created.
Init ==
    /\ place \in [Points -> LivePlace \cup {NoPlace}]
    /\ edges = {}
    /\ editor = [a \in Editors |-> Waiting]
    /\ run = [r \in Runs |-> NoRun]
    /\ suspect = {}
    /\ edits = 0
    /\ faults = 0

Fault == /\ faults < MaxFaults
         /\ faults' = faults + 1

Edit == /\ edits < MaxEdits
        /\ edits' = edits + 1

-----------------------------------------------------------------------------
(* Ghosts                                                                  *)

Reading(x) == x.at \in {"load", "map", "upsert"}

\* What becomes of the runs under way when the rows of places P change, or
\* their edges are deleted.
Disturbed(P) ==
    [r \in Runs |-> IF Reading(run[r])
                    THEN [run[r] EXCEPT !.late = @ \cup P, !.clean = FALSE]
                    ELSE run[r]]

\* No edit waits for its edges to be deleted, and no other run writes.
Quiet(r) == /\ \A a \in Editors : editor[a].at # "deleteEdges"
            /\ \A s \in Runs \ {r} : ~Reading(run[s])

-----------------------------------------------------------------------------
(* Administrators: createSpot, updateSpot, deleteSpot and their likes for  *)
(* shopping places and hotels                                              *)

Touches(e, p) == e.from = p \/ e.to = p

\* The service reads the row it is to update, and stops if there is none.
FindPlace(a, p) ==
    /\ editor[a].at = "idle"
    /\ place[p].row = "live"
    /\ editor' = [editor EXCEPT ![a] = [at |-> "save", points |-> {p}]]
    /\ UNCHANGED <<place, edges, run, suspect, edits, faults>>

\* The columns the request names and those the service read before: what is
\* written may be new, unchanged, or what another request has just replaced.
\* save() inserts the row again if it was removed in the meantime.
SaveUpdate(a) ==
    /\ editor[a].at = "save"
    /\ Edit
    /\ \E d \in LivePlace, p \in editor[a].points : place' = [place EXCEPT ![p] = d]
    /\ editor' = [editor EXCEPT ![a].at = "deleteEdges"]
    /\ run' = Disturbed(editor[a].points)
    /\ UNCHANGED <<edges, suspect, faults>>

SaveUpdateFails(a) ==
    /\ editor[a].at = "save"
    /\ Fault
    /\ editor' = [editor EXCEPT ![a] = Waiting]
    /\ UNCHANGED <<place, edges, run, suspect, edits>>

CreatePlace(a, p) ==
    /\ editor[a].at = "idle"
    /\ place[p].row = "unborn"
    /\ Edit
    /\ \E d \in LivePlace : place' = [place EXCEPT ![p] = d]
    /\ editor' = [editor EXCEPT ![a] = [at |-> "deleteEdges", points |-> {p}]]
    /\ run' = Disturbed({p})
    /\ UNCHANGED <<edges, suspect, faults>>

RemovePlace(a, p) ==
    /\ editor[a].at = "idle"
    /\ place[p].row = "live"
    /\ Edit
    /\ place' = [place EXCEPT ![p] = [NoPlace EXCEPT !.row = "removed"]]
    /\ editor' = [editor EXCEPT ![a] = [at |-> "deleteEdges", points |-> {p}]]
    /\ run' = Disturbed({p})
    /\ UNCHANGED <<edges, suspect, faults>>

\* Mutant: edges are deleted in the direction away from the place only.
DeleteOutgoingEdges(a) ==
    /\ editor[a].at = "deleteEdges"
    /\ edges' = {e \in edges : e.from \notin editor[a].points}
    /\ suspect' = suspect \ editor[a].points
    /\ editor' = [editor EXCEPT ![a] = Waiting]
    /\ run' = Disturbed(editor[a].points)
    /\ UNCHANGED <<place, edits, faults>>

\* Mutant: the deletion is narrowed to the city the place is in now.
DeleteEdgesInCity(a) ==
    /\ editor[a].at = "deleteEdges"
    /\ edges' = {e \in edges : \A p \in editor[a].points :
                                   Touches(e, p) => e.city # place[p].city}
    /\ suspect' = suspect \ editor[a].points
    /\ editor' = [editor EXCEPT ![a] = Waiting]
    /\ run' = Disturbed(editor[a].points)
    /\ UNCHANGED <<place, edits, faults>>

\* deletePointEdges: every edge of the place, whatever its city.
DeletePointEdges(a) ==
    /\ editor[a].at = "deleteEdges"
    /\ edges' = {e \in edges : \A p \in editor[a].points : ~Touches(e, p)}
    /\ suspect' = suspect \ editor[a].points
    /\ editor' = [editor EXCEPT ![a] = Waiting]
    /\ run' = Disturbed(editor[a].points)
    /\ UNCHANGED <<place, edits, faults>>

\* deletePointEdges swallows the error and the request succeeds.
DeletePointEdgesFails(a) ==
    /\ editor[a].at = "deleteEdges"
    /\ Fault
    /\ suspect' = suspect \cup editor[a].points
    /\ editor' = [editor EXCEPT ![a] = Waiting]
    /\ UNCHANGED <<place, edges, run, edits>>

-----------------------------------------------------------------------------
(* Recompute runs                                                          *)

\* recomputeCity begins to read the city's places.
RecomputeCity(r, c, modes) ==
    /\ run[r].at = "idle"
    /\ run' = [s \in Runs |->
                 IF s = r
                 THEN [NoRun EXCEPT !.at = "load", !.city = c, !.modes = modes,
                                    !.unread = Types, !.clean = Quiet(r)]
                 ELSE [run[s] EXCEPT !.clean = FALSE]]
    /\ UNCHANGED <<place, edges, editor, suspect, edits, faults>>

\* A request to recompute one place is refused unless its coordinates are
\* there; the job then waits for its turn.
RequestPoint(r, p, modes) ==
    /\ run[r].at = "idle"
    /\ place[p].row = "live"
    /\ place[p].at # Null
    /\ run' = [run EXCEPT ![r] = [NoRun EXCEPT !.at = "resolve",
                                    !.target = {p}, !.modes = modes]]
    /\ UNCHANGED <<place, edges, editor, suspect, edits, faults>>

\* The worker reads the place again, published or not and with whatever
\* coordinates it has, and recomputePointNeighborhood begins to read others.
RecomputePoint(r) ==
    /\ run[r].at = "resolve"
    /\ \E p \in run[r].target :
         /\ place[p].row = "live"
         /\ run' = [s \in Runs |->
                      IF s = r
                      THEN [run[r] EXCEPT !.at = "load", !.city = place[p].city,
                              !.points = {p}, !.seen[p] = place[p],
                              !.unread = Types, !.clean = Quiet(r)]
                      ELSE [run[s] EXCEPT !.clean = FALSE]]
    /\ UNCHANGED <<place, edges, editor, suspect, edits, faults>>

\* The place is gone, or was never found again: the job fails.
PointNotFound(r) ==
    /\ run[r].at = "resolve"
    /\ \A p \in run[r].target : place[p].row # "live"
    /\ run' = [run EXCEPT ![r] = NoRun]
    /\ UNCHANGED <<place, edges, editor, suspect, edits, faults>>

Listed(p, c) == /\ place[p].row = "live"
                /\ place[p].isPublished
                /\ place[p].city = c
                /\ place[p].at # Null

\* loadCityPoints sends one query to each of the three tables at once.
LoadCityPoints(r, t) ==
    /\ run[r].at = "load"
    /\ t \in run[r].unread
    /\ LET found == {p \in Points \ run[r].target :
                        TypeOf[p] = t /\ Listed(p, run[r].city)}
           all == run[r].points \cup found
           enough == \E p, q \in all : p # q
           next == CASE run[r].unread # {t} -> "load"
                     [] run[r].unread = {t} /\ enough -> "map"
                     [] run[r].unread = {t} /\ ~enough -> "idle"
       IN run' = [run EXCEPT ![r].at = next, ![r].points = all,
                    ![r].unread = @ \ {t},
                    ![r].seen = [p \in Points |-> IF p \in found THEN place[p]
                                                  ELSE run[r].seen[p]]]
    /\ UNCHANGED <<place, edges, editor, suspect, edits, faults>>

\* The directed edges a run computes: all of a city's, or its target's.
Required(x) == {e \in x.points \X x.points :
                  /\ e[1] # e[2]
                  /\ x.target = {} \/ e[1] \in x.target \/ e[2] \in x.target}

LoadExistingEdgeMap(r) ==
    /\ run[r].at = "map"
    /\ run' = [run EXCEPT
                 ![r].at = "upsert",
                 ![r].map = {e \in edges : /\ e.city = run[r].city
                                           /\ e.from \in run[r].points
                                           /\ e.to \in run[r].points},
                 ![r].todo = Required(run[r])]
    /\ UNCHANGED <<place, edges, editor, suspect, edits, faults>>

\* What run x computes an edge from: the coordinates it has seen.
Measured(x, e) == [from |-> Used(x.seen[e[1]].at), to |-> Used(x.seen[e[2]].at)]

Existing(x, e) == {f \in x.map : f.from = e[1] /\ f.to = e[2]}

\* Mutant: the row that exists is preferred to the provider's answer.
ExistingMinutesFirst(x, e, fetched) ==
    [m \in Modes |-> IF Existing(x, e) = {} THEN Measured(x, e)
                     ELSE (CHOOSE f \in Existing(x, e) : TRUE).minutes[m]]

\* Each mode: fetched ?? existing ?? estimated.
Minutes(x, e, fetched) ==
    [m \in Modes |-> IF m \in fetched \/ Existing(x, e) = {} THEN Measured(x, e)
                     ELSE (CHOOSE f \in Existing(x, e) : TRUE).minutes[m]]

\* The next edge of a chunk whose provider calls answered for these modes;
\* a call that fails three times counts as no answer.
UpsertEdge(r, e, fetched) ==
    /\ run[r].at = "upsert"
    /\ e \in run[r].todo
    /\ fetched \subseteq run[r].modes
    /\ LET row == [city |-> run[r].city, from |-> e[1], to |-> e[2],
                   minutes |-> Minutes(run[r], e, fetched)]
       IN edges' = {f \in edges : ~SameKey(f, row)} \cup {row}
    /\ suspect' = suspect \cup ({e[1], e[2]} \cap run[r].late)
    /\ run' = [run EXCEPT ![r].todo = @ \ {e},
                          ![r].clean = @ /\ fetched = run[r].modes]
    /\ UNCHANGED <<place, editor, edits, faults>>

\* upsertEdge swallows the error; the edge is counted all the same.
UpsertEdgeFails(r, e) ==
    /\ run[r].at = "upsert"
    /\ e \in run[r].todo
    /\ Fault
    /\ run' = [run EXCEPT ![r].todo = @ \ {e}, ![r].clean = FALSE]
    /\ UNCHANGED <<place, edges, editor, suspect, edits>>

\* A progress report rejects.  A city's run gives up destination d; the run
\* of one place ends, but for a sibling call that goes on to destination d.
ReportFails(r, d) ==
    /\ run[r].at = "upsert"
    /\ \E e \in run[r].todo : e[2] = d
    /\ Fault
    /\ run' = [run EXCEPT
                 ![r].todo = IF run[r].target = {}
                             THEN {e \in @ : e[2] # d}
                             ELSE {e \in @ : e[2] = d /\ d \notin run[r].target},
                 ![r].clean = FALSE]
    /\ UNCHANGED <<place, edges, editor, suspect, edits>>

FinishRun(r) ==
    /\ run[r].at = "upsert"
    /\ run[r].todo = {}
    /\ run' = [run EXCEPT ![r] = NoRun]
    /\ UNCHANGED <<place, edges, editor, suspect, edits, faults>>

\* A query of a run rejects: the job fails.
ReadFails(r) ==
    /\ run[r].at \in {"resolve", "load", "map"}
    /\ Fault
    /\ run' = [run EXCEPT ![r] = NoRun]
    /\ UNCHANGED <<place, edges, editor, suspect, edits>>

\* The process dies: saved edits whose edges were not deleted stay so.
Crash ==
    /\ Fault
    /\ suspect' = suspect \cup
         UNION {editor[a].points : a \in {b \in Editors : editor[b].at = "deleteEdges"}}
    /\ editor' = [a \in Editors |-> Waiting]
    /\ run' = [r \in Runs |-> NoRun]
    /\ UNCHANGED <<place, edges, edits>>

-----------------------------------------------------------------------------
EditStep(a) ==
    \/ \E p \in Points : FindPlace(a, p) \/ CreatePlace(a, p) \/ RemovePlace(a, p)
    \/ SaveUpdate(a)
    \/ SaveUpdateFails(a)
    \/ DeletePointEdges(a)
    \/ DeletePointEdgesFails(a)

RunStep(r) ==
    \/ \E c \in Cities, modes \in (SUBSET Modes) \ {{}} : RecomputeCity(r, c, modes)
    \/ \E p \in Points, modes \in (SUBSET Modes) \ {{}} : RequestPoint(r, p, modes)
    \/ RecomputePoint(r)
    \/ PointNotFound(r)
    \/ \E t \in Types : LoadCityPoints(r, t)
    \/ LoadExistingEdgeMap(r)
    \/ \E e \in Pairs, fetched \in SUBSET Modes : UpsertEdge(r, e, fetched)
    \/ \E e \in Pairs : UpsertEdgeFails(r, e)
    \/ \E d \in Points : ReportFails(r, d)
    \/ FinishRun(r)
    \/ ReadFails(r)

Next ==
    \/ \E a \in Editors : EditStep(a)
    \/ \E r \in Runs : RunStep(r)
    \/ Crash

Spec == Init /\ [][Next]_vars

-----------------------------------------------------------------------------
(* Properties                                                              *)

\* Edge e shows place p as it is.
Shows(e, p) ==
    /\ place[p].row = "live"
    /\ place[p].city = e.city
    /\ \A m \in Modes : /\ e.from = p => e.minutes[m].from = Used(place[p].at)
                        /\ e.to = p => e.minutes[m].to = Used(place[p].at)

\* The edges of p are about to be deleted.
Pending(p) == \E a \in Editors : editor[a].at = "deleteEdges" /\ p \in editor[a].points

\* An edge shows the present coordinates and city of both its places.  The
\* exceptions: the edit's deletion is still to come, it failed or the
\* process died first, or the edge was written by a run during which the
\* place was edited.  A finished edit leaves nothing else behind, although
\* updates may put back what others replaced and runs copy existing rows.
EdgesAreCurrent ==
    \A e \in edges, p \in Points :
        Touches(e, p) => Shows(e, p) \/ Pending(p) \/ p \in suspect

\* Two places have one row for each direction: a second one, under another
\* city, is left only by the same exceptions.
OneRowPerDirection ==
    \A e, f \in edges :
        e.from = f.from /\ e.to = f.to /\ e # f =>
            \E p \in {e.from, e.to} : Pending(p) \/ p \in suspect

\* A run that nothing disturbed, and whose provider calls all answered,
\* leaves every edge it was to compute stored and current in the modes
\* selected, whatever was wrong with the rows it found.
RecomputeRepairs ==
    [][\A r \in Runs :
         FinishRun(r) /\ run[r].clean =>
            \A e \in Required(run[r]) : \E f \in edges :
               /\ f.city = run[r].city /\ f.from = e[1] /\ f.to = e[2]
               /\ \A m \in run[r].modes :
                    f.minutes[m] = [from |-> Used(place[e[1]].at),
                                    to |-> Used(place[e[2]].at)]]_vars

\* matrix-admin.service.ts:379 "Point coordinates are required for
\* recompute.": no edge is computed from coordinates that are not there.
CoordinatesRequired ==
    \A e \in edges, m \in Modes :
        e.minutes[m].from # Zero /\ e.minutes[m].to # Zero

=============================================================================
