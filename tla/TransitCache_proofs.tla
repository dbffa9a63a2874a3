------------------------- MODULE TransitCache_proofs -------------------------
(***************************************************************************)
(* Proofs about TransitCache: its types, that edges are current but for    *)
(* the named races, and that an undisturbed run repairs what it covers.    *)
(* And about PureParts, what edges are made of and used for: the row that  *)
(* a recompute writes, the page of a city and the planner's own check, the *)
(* hours the solver is told, and the tables that locations are read from.  *)
(***************************************************************************)
EXTENDS TransitCache, PureParts, SequenceTheorems, FiniteSetTheorems, WellFoundedInduction,
        TLAPS

LEMMA NoPlaceTyped == NoPlace \in Place
BY TransitAssumption DEF NoPlace, Place

LEMMA NoRunTyped == NoRun \in Run
BY TransitAssumption, NoPlaceTyped DEF NoRun, Run

LEMMA WaitingTyped ==
    Waiting \in [at : {"idle", "save", "deleteEdges"}, points : SUBSET Points]
BY DEF Waiting

\* The ghosts of a run change without harm to its type.
LEMMA DisturbedTyped ==
    ASSUME TypeOK, NEW P \in SUBSET Points
    PROVE  Disturbed(P) \in [Runs -> Run]
<1>1. ASSUME NEW x \in Run
      PROVE  [x EXCEPT !.late = @ \cup P, !.clean = FALSE] \in Run
  BY <1>1 DEF Run
<1> QED BY <1>1 DEF Disturbed, TypeOK

LEMMA UncleanTyped ==
    ASSUME NEW x \in Run
    PROVE  [x EXCEPT !.clean = FALSE] \in Run
BY DEF Run

\* What a run writes for an edge is a row of the table.
LEMMA MinutesTyped ==
    ASSUME NEW x \in Run, NEW e \in Pairs, NEW fetched \in SUBSET Modes
    PROVE  Minutes(x, e, fetched) \in [Modes -> From]
<1>1. ASSUME NEW p \in Points PROVE Used(x.seen[p].at) \in Coordinates \cup {Zero}
  <2>1. x.seen[p] \in Place
    BY DEF Run
  <2>2. x.seen[p].at \in Coordinates \cup {Null}
    BY <2>1 DEF Place
  <2> QED BY <2>2 DEF Used
<1>2. Measured(x, e) \in From
  BY <1>1 DEF Measured, From, Pairs
<1>3. ASSUME Existing(x, e) # {}, NEW m \in Modes
      PROVE  (CHOOSE f \in Existing(x, e) : TRUE).minutes[m] \in From
  <2> DEFINE g == CHOOSE f \in Existing(x, e) : TRUE
  <2>1. g \in Existing(x, e)
    BY <1>3
  <2>2. g \in Edge
    BY <2>1 DEF Existing, Run
  <2>3. g.minutes \in [Modes -> From]
    BY <2>2 DEF Edge
  <2> QED BY <2>3
<1> QED BY <1>2, <1>3 DEF Minutes

\* Every state is well-typed: no null reaches the minutes of an edge.
THEOREM TypeCorrect == Spec => []TypeOK
<1>1. Init => TypeOK
  BY TransitAssumption, NoPlaceTyped, NoRunTyped, WaitingTyped DEF Init, TypeOK, LivePlace
<1>2. TypeOK /\ [Next]_vars => TypeOK'
  <2> SUFFICES ASSUME TypeOK, [Next]_vars PROVE TypeOK'
    OBVIOUS
  <2> USE TransitAssumption
  <2>1. ASSUME NEW a \in Editors, NEW p \in Points,
               FindPlace(a, p) \/ CreatePlace(a, p) \/ RemovePlace(a, p)
        PROVE  TypeOK'
    <3>1. CASE FindPlace(a, p)
      BY <3>1 DEF FindPlace, TypeOK
    <3>2. CASE CreatePlace(a, p)
      <4>1. place' \in [Points -> Place]
        BY <3>2 DEF CreatePlace, TypeOK, LivePlace
      <4>2. run' \in [Runs -> Run]
        BY <3>2, DisturbedTyped DEF CreatePlace
      <4>3. editor' \in [Editors -> [at : {"idle", "save", "deleteEdges"},
                                     points : SUBSET Points]]
        BY <3>2 DEF CreatePlace, TypeOK
      <4>4. UNCHANGED <<edges, suspect, faults>> /\ edits' \in Nat
        BY <3>2 DEF CreatePlace, Edit, TypeOK
      <4> QED BY <4>1, <4>2, <4>3, <4>4 DEF TypeOK
    <3>3. CASE RemovePlace(a, p)
      <4>1. [NoPlace EXCEPT !.row = "removed"] \in Place
        BY NoPlaceTyped DEF Place
      <4>2. place' \in [Points -> Place]
        BY <3>3, <4>1 DEF RemovePlace, TypeOK
      <4>3. run' \in [Runs -> Run]
        BY <3>3, DisturbedTyped DEF RemovePlace
      <4>4. editor' \in [Editors -> [at : {"idle", "save", "deleteEdges"},
                                     points : SUBSET Points]]
        BY <3>3 DEF RemovePlace, TypeOK
      <4>5. UNCHANGED <<edges, suspect, faults>> /\ edits' \in Nat
        BY <3>3 DEF RemovePlace, Edit, TypeOK
      <4> QED BY <4>2, <4>3, <4>4, <4>5 DEF TypeOK
    <3> QED BY <2>1, <3>1, <3>2, <3>3
  <2>2. ASSUME NEW a \in Editors, SaveUpdate(a) PROVE TypeOK'
    <3>1. place' \in [Points -> Place]
      BY <2>2 DEF SaveUpdate, TypeOK, LivePlace
    <3>2. run' \in [Runs -> Run]
      <4>1. editor[a].points \in SUBSET Points
        BY DEF TypeOK
      <4> QED BY <2>2, <4>1, DisturbedTyped DEF SaveUpdate
    <3>3. editor' \in [Editors -> [at : {"idle", "save", "deleteEdges"},
                                   points : SUBSET Points]]
      BY <2>2 DEF SaveUpdate, TypeOK
    <3> QED BY <2>2, <3>1, <3>2, <3>3 DEF SaveUpdate, Edit, TypeOK
  <2>3. ASSUME NEW a \in Editors, SaveUpdateFails(a) PROVE TypeOK'
    BY <2>3, WaitingTyped DEF SaveUpdateFails, Fault, TypeOK
  <2>4. ASSUME NEW a \in Editors, DeletePointEdges(a) PROVE TypeOK'
    <3>1. editor[a].points \in SUBSET Points
      BY DEF TypeOK
    <3>2. run' \in [Runs -> Run]
      BY <2>4, <3>1, DisturbedTyped DEF DeletePointEdges
    <3> QED BY <2>4, <3>2, WaitingTyped DEF DeletePointEdges, TypeOK
  <2>5. ASSUME NEW a \in Editors, DeletePointEdgesFails(a) PROVE TypeOK'
    <3>1. editor[a].points \in SUBSET Points
      BY DEF TypeOK
    <3> QED BY <2>5, <3>1, WaitingTyped DEF DeletePointEdgesFails, Fault, TypeOK
  <2>6. ASSUME NEW r \in Runs, NEW c \in Cities, NEW modes \in SUBSET Modes,
               RecomputeCity(r, c, modes)
        PROVE  TypeOK'
    <3>1. [NoRun EXCEPT !.at = "load", !.city = c, !.modes = modes,
                        !.unread = Types, !.clean = Quiet(r)] \in Run
      BY NoRunTyped DEF Run, Quiet
    <3>2. run' \in [Runs -> Run]
      BY <2>6, <3>1, UncleanTyped DEF RecomputeCity, TypeOK
    <3> QED BY <2>6, <3>2 DEF RecomputeCity, TypeOK
  <2>7. ASSUME NEW r \in Runs, NEW p \in Points, NEW modes \in SUBSET Modes,
               RequestPoint(r, p, modes)
        PROVE  TypeOK'
    <3>1. [NoRun EXCEPT !.at = "resolve", !.target = {p}, !.modes = modes] \in Run
      BY NoRunTyped DEF Run
    <3> QED BY <2>7, <3>1 DEF RequestPoint, TypeOK
  <2>8. ASSUME NEW r \in Runs, RecomputePoint(r) PROVE TypeOK'
    <3>1. run[r] \in Run /\ run[r].target \subseteq Points
      BY DEF TypeOK, Run
    <3>2. PICK p \in run[r].target :
            run' = [s \in Runs |->
                      IF s = r
                      THEN [run[r] EXCEPT !.at = "load", !.city = place[p].city,
                              !.points = {p}, !.seen[p] = place[p],
                              !.unread = Types, !.clean = Quiet(r)]
                      ELSE [run[s] EXCEPT !.clean = FALSE]]
      BY <2>8 DEF RecomputePoint
    <3>3. p \in Points /\ place[p] \in Place /\ place[p].city \in Cities
      BY <3>1 DEF TypeOK, Place
    <3>4. [run[r] EXCEPT !.at = "load", !.city = place[p].city,
                   !.points = {p}, !.seen[p] = place[p],
                   !.unread = Types, !.clean = Quiet(r)] \in Run
      BY <3>1, <3>3 DEF Run, Quiet
    <3>5. run' \in [Runs -> Run]
      BY <3>2, <3>4, UncleanTyped DEF TypeOK
    <3> QED BY <2>8, <3>5 DEF RecomputePoint, TypeOK
  <2>9. ASSUME NEW r \in Runs, PointNotFound(r) \/ FinishRun(r) \/ ReadFails(r)
        PROVE  TypeOK'
    BY <2>9, NoRunTyped DEF PointNotFound, FinishRun, ReadFails, Fault, TypeOK
  <2>10. ASSUME NEW r \in Runs, NEW t \in Types, LoadCityPoints(r, t)
         PROVE  TypeOK'
    <3> DEFINE found == {p \in Points \ run[r].target :
                           TypeOf[p] = t /\ Listed(p, run[r].city)}
               all == run[r].points \cup found
               enough == \E p, q \in all : p # q
               next == CASE run[r].unread # {t} -> "load"
                         [] run[r].unread = {t} /\ enough -> "map"
                         [] run[r].unread = {t} /\ ~enough -> "idle"
               seen == [p \in Points |-> IF p \in found THEN place[p]
                                         ELSE run[r].seen[p]]
    <3>1. run[r] \in Run
      BY DEF TypeOK
    <3>2. seen \in [Points -> Place]
      BY <3>1 DEF TypeOK, Run
    <3>3. next \in {"load", "map", "idle"}
      <4>1. CASE run[r].unread # {t}
        BY <4>1
      <4>2. CASE run[r].unread = {t} /\ enough
        BY <4>2
      <4>3. CASE run[r].unread = {t} /\ ~enough
        BY <4>3
      <4> QED BY <4>1, <4>2, <4>3
    <3>4. all \in SUBSET Points
      BY <3>1 DEF Run
    <3>5. [run[r] EXCEPT !.at = next, !.points = all, !.unread = @ \ {t},
                         !.seen = seen] \in Run
      <4> HIDE DEF next, all, seen
      <4> QED BY <3>1, <3>2, <3>3, <3>4 DEF Run
    <3>6. run' = [run EXCEPT ![r] = [run[r] EXCEPT !.at = next, !.points = all,
                                       !.unread = @ \ {t}, !.seen = seen]]
      BY <2>10 DEF LoadCityPoints
    <3>7. run' \in [Runs -> Run]
      <4> HIDE DEF next, all, seen
      <4> QED BY <3>5, <3>6 DEF TypeOK
    <3>8. UNCHANGED <<place, edges, editor, suspect, edits, faults>>
      BY <2>10 DEF LoadCityPoints
    <3> QED BY <3>7, <3>8 DEF TypeOK
  <2>11. ASSUME NEW r \in Runs, LoadExistingEdgeMap(r) PROVE TypeOK'
    <3>1. run[r] \in Run
      BY DEF TypeOK
    <3>2. Required(run[r]) \in SUBSET Pairs
      BY <3>1 DEF Required, Run, Pairs
    <3>3. [run[r] EXCEPT !.at = "upsert",
                 !.map = {e \in edges : /\ e.city = run[r].city
                                        /\ e.from \in run[r].points
                                        /\ e.to \in run[r].points},
                 !.todo = Required(run[r])] \in Run
      BY <3>1, <3>2 DEF Run, TypeOK
    <3> QED BY <2>11, <3>3 DEF LoadExistingEdgeMap, TypeOK
  <2>12. ASSUME NEW r \in Runs, NEW e \in Pairs, NEW fetched \in SUBSET Modes,
                UpsertEdge(r, e, fetched)
         PROVE  TypeOK'
    <3> DEFINE row == [city |-> run[r].city, from |-> e[1], to |-> e[2],
                       minutes |-> Minutes(run[r], e, fetched)]
    <3>1. run[r] \in Run
      BY DEF TypeOK
    <3>2. row \in Edge
      BY <3>1, MinutesTyped DEF Edge, Run, Pairs
    <3>3. [run[r] EXCEPT !.todo = @ \ {e},
                         !.clean = @ /\ fetched = run[r].modes] \in Run
      BY <3>1 DEF Run
    <3>4. edges' \in SUBSET Edge
      <4> HIDE DEF row
      <4>1. edges' = {f \in edges : ~SameKey(f, row)} \cup {row}
        BY <2>12 DEF UpsertEdge, row
      <4> QED BY <3>2, <4>1 DEF TypeOK
    <3>5. suspect' \in SUBSET Points
      BY <2>12 DEF UpsertEdge, TypeOK, Pairs
    <3> QED BY <2>12, <3>3, <3>4, <3>5 DEF UpsertEdge, TypeOK
  <2>13. ASSUME NEW r \in Runs, NEW e \in Pairs, UpsertEdgeFails(r, e)
         PROVE  TypeOK'
    <3>1. [run[r] EXCEPT !.todo = @ \ {e}, !.clean = FALSE] \in Run
      BY DEF TypeOK, Run
    <3> QED BY <2>13, <3>1 DEF UpsertEdgeFails, Fault, TypeOK
  <2>14. ASSUME NEW r \in Runs, NEW d \in Points, ReportFails(r, d)
         PROVE  TypeOK'
    <3>1. [run[r] EXCEPT
             !.todo = IF run[r].target = {}
                      THEN {e \in @ : e[2] # d}
                      ELSE {e \in @ : e[2] = d /\ d \notin run[r].target},
             !.clean = FALSE] \in Run
      BY DEF TypeOK, Run
    <3> QED BY <2>14, <3>1 DEF ReportFails, Fault, TypeOK
  <2>15. ASSUME Crash PROVE TypeOK'
    <3>1. suspect' \in SUBSET Points
      BY <2>15 DEF Crash, TypeOK
    <3> QED BY <2>15, <3>1, NoRunTyped, WaitingTyped DEF Crash, Fault, TypeOK
  <2>16. CASE UNCHANGED vars
    BY <2>16 DEF vars, TypeOK
  <2> QED BY <2>1, <2>2, <2>3, <2>4, <2>5, <2>6, <2>7, <2>8, <2>9, <2>10, <2>11,
             <2>12, <2>13, <2>14, <2>15, <2>16 DEF Next, EditStep, RunStep
<1> QED BY <1>1, <1>2, PTL DEF Spec

-----------------------------------------------------------------------------
(* The strengthening: what a run has read is as current as an edge, but for *)
(* the places edited since it began.                                        *)

Excused(p) == Pending(p) \/ p \in suspect

SeenCurrent(x, p) ==
    p \in x.late \/ (place[p].row = "live" /\ place[p].city = x.city
                       /\ place[p] = x.seen[p])

MapCurrent(x, f, p) == p \in x.late \/ Shows(f, p) \/ Excused(p)

RunCurrent(x) ==
    Reading(x) => /\ \A p \in x.points : SeenCurrent(x, p)
                  /\ \A f \in x.map, p \in Points :
                        Touches(f, p) => MapCurrent(x, f, p)

RunsCurrent == \A r \in Runs : RunCurrent(run[r])

RunShape(x) ==
    /\ x.at # "upsert" => x.map = {} /\ x.todo = {}
    /\ \A e \in x.todo : e[1] \in x.points /\ e[2] \in x.points
    /\ \A f \in x.map : f.city = x.city

RunShapes == \A r \in Runs : RunShape(run[r])

Current == EdgesAreCurrent /\ RunsCurrent /\ RunShapes

\* y is x but for its ghosts and the edges it has still to write.
SameWork(x, y) == /\ y.at = x.at /\ y.target = x.target /\ y.city = x.city
                  /\ y.modes = x.modes /\ y.points = x.points
                  /\ y.seen = x.seen /\ y.map = x.map /\ y.todo \subseteq x.todo

LEMMA DisturbedWork ==
    ASSUME TypeOK, NEW P \in SUBSET Points, NEW r \in Runs
    PROVE  /\ SameWork(run[r], Disturbed(P)[r])
           /\ Reading(run[r]) => /\ Disturbed(P)[r].late = run[r].late \cup P
                                 /\ Disturbed(P)[r].clean = FALSE
           /\ ~Reading(run[r]) => Disturbed(P)[r] = run[r]
<1>1. run[r] \in Run
  BY DEF TypeOK
<1> QED BY <1>1 DEF Disturbed, Run, SameWork

LEMMA UncleanWork ==
    ASSUME NEW x \in Run
    PROVE  LET y == [x EXCEPT !.clean = FALSE]
           IN SameWork(x, y) /\ y.late = x.late /\ y.clean = FALSE
BY DEF Run, SameWork

LEMMA NoRunCurrent == /\ RunCurrent(NoRun) /\ RunShape(NoRun)
                      /\ RunCurrent(NoRun)' /\ NoRun.at = "idle"
BY DEF NoRun, RunCurrent, RunShape, Reading

\* Current survives an edit of places P that a now has to delete edges of.
LEMMA EditKeepsCurrent ==
    ASSUME TypeOK, Current, NEW a \in Editors, NEW P \in SUBSET Points,
           editor[a].at # "deleteEdges",
           editor'[a].at = "deleteEdges", editor'[a].points = P,
           \A b \in Editors \ {a} : editor'[b] = editor[b],
           \A p \in Points \ P : place'[p] = place[p],
           run' = Disturbed(P), UNCHANGED <<edges, suspect>>
    PROVE  Current'
<1>1. \A p \in P : Pending(p)'
  BY DEF Pending
<1>2. \A p \in Points : Excused(p) => Excused(p)'
  BY DEF Excused, Pending
<1>3. \A f \in Edge, p \in Points \ P : Shows(f, p) => Shows(f, p)'
  BY DEF Shows
<1>4. EdgesAreCurrent'
  BY <1>1, <1>2, <1>3 DEF Current, EdgesAreCurrent, Excused, TypeOK
<1>5. ASSUME NEW r \in Runs PROVE RunCurrent(run[r])' /\ RunShape(run[r])'
  <2>1. /\ SameWork(run[r], run'[r])
        /\ Reading(run[r]) => run'[r].late = run[r].late \cup P
    BY DisturbedWork
  <2>2. RunShape(run[r])'
    BY <2>1 DEF Current, RunShapes, RunShape, SameWork
  <2>3. RunCurrent(run[r])'
    <3> SUFFICES ASSUME Reading(run'[r])
                 PROVE  /\ \A p \in run'[r].points : SeenCurrent(run[r], p)'
                        /\ \A f \in run'[r].map, p \in Points :
                              Touches(f, p) => MapCurrent(run[r], f, p)'
      BY DEF RunCurrent
    <3>1. run[r] \in Run /\ Reading(run[r]) /\ run'[r].late = run[r].late \cup P
      BY <2>1 DEF SameWork, Reading, TypeOK
    <3>2. ASSUME NEW p \in run'[r].points PROVE SeenCurrent(run[r], p)'
      <4>1. p \in Points /\ SeenCurrent(run[r], p)
        BY <2>1, <3>1, <3>2 DEF Current, RunsCurrent, RunCurrent, SameWork, Run
      <4> QED BY <2>1, <3>1, <4>1 DEF SeenCurrent, SameWork
    <3>3. ASSUME NEW f \in run'[r].map, NEW p \in Points, Touches(f, p)
          PROVE  MapCurrent(run[r], f, p)'
      <4>1. f \in Edge /\ MapCurrent(run[r], f, p)
        BY <2>1, <3>1, <3>3 DEF Current, RunsCurrent, RunCurrent, SameWork, Run
      <4> QED BY <1>2, <1>3, <3>1, <4>1 DEF MapCurrent
    <3> QED BY <3>2, <3>3
  <2> QED BY <2>2, <2>3
<1> QED BY <1>4, <1>5 DEF Current, RunsCurrent, RunShapes

LEMMA KeptRun ==
    ASSUME NEW r \in Runs, RunCurrent(run[r]), RunShape(run[r]),
           place' = place, \A p \in Points : Excused(p) => Excused(p)',
           SameWork(run[r], run'[r]), run'[r].late = run[r].late
    PROVE  RunCurrent(run[r])' /\ RunShape(run[r])'
<1>1. \A f, p : Shows(f, p) => Shows(f, p)'
  BY DEF Shows
<1>2. RunShape(run[r])'
  BY DEF RunShape, SameWork
<1>3. RunCurrent(run[r])'
  BY <1>1 DEF RunCurrent, SameWork, Reading, SeenCurrent, MapCurrent
<1> QED BY <1>2, <1>3

LEMMA KeptEdges ==
    ASSUME EdgesAreCurrent, edges' = edges, place' = place,
           \A p \in Points : Excused(p) => Excused(p)'
    PROVE  EdgesAreCurrent'
BY DEF EdgesAreCurrent, Shows, Excused

\* A step of the editors that leaves the tables of places and edges alone.
LEMMA EditorKeepsCurrent ==
    ASSUME TypeOK, Current, UNCHANGED <<place, edges, run>>,
           \A p \in Points : Excused(p) => Excused(p)'
    PROVE  Current'
<1>1. EdgesAreCurrent'
  BY KeptEdges DEF Current
<1>2. ASSUME NEW r \in Runs PROVE RunCurrent(run[r])' /\ RunShape(run[r])'
  <2>1. SameWork(run[r], run'[r]) /\ run'[r].late = run[r].late
    BY DEF SameWork
  <2> QED BY <2>1, KeptRun DEF Current, RunsCurrent, RunShapes
<1> QED BY <1>1, <1>2 DEF Current, RunsCurrent, RunShapes

\* A step of run r that writes no edge.
LEMMA RunKeepsCurrent ==
    ASSUME TypeOK, Current, UNCHANGED <<place, edges, editor, suspect>>,
           NEW r \in Runs, RunCurrent(run[r])', RunShape(run[r])',
           \A s \in Runs \ {r} : run'[s] = run[s]
                                   \/ run'[s] = [run[s] EXCEPT !.clean = FALSE]
    PROVE  Current'
<1>1. \A p \in Points : Excused(p) => Excused(p)'
  BY DEF Excused, Pending
<1>2. EdgesAreCurrent'
  BY <1>1, KeptEdges DEF Current
<1>3. ASSUME NEW s \in Runs \ {r} PROVE RunCurrent(run[s])' /\ RunShape(run[s])'
  <2>1. SameWork(run[s], run'[s]) /\ run'[s].late = run[s].late
    <3>1. CASE run'[s] = run[s]
      BY <3>1 DEF SameWork
    <3>2. CASE run'[s] = [run[s] EXCEPT !.clean = FALSE]
      BY <3>2, UncleanWork DEF TypeOK
    <3> QED BY <3>1, <3>2
  <2> QED BY <1>1, <2>1, KeptRun DEF Current, RunsCurrent, RunShapes
<1> QED BY <1>2, <1>3 DEF Current, RunsCurrent, RunShapes

LEMMA DeleteKeepsCurrent ==
    ASSUME TypeOK, Current, NEW a \in Editors, DeletePointEdges(a)
    PROVE  Current'
<1> DEFINE P == editor[a].points
<1>1. /\ edges' = {e \in edges : \A p \in P : ~Touches(e, p)}
      /\ suspect' = suspect \ P /\ run' = Disturbed(P) /\ place' = place
      /\ editor' = [editor EXCEPT ![a] = Waiting]
  BY DEF DeletePointEdges
<1>2. P \in SUBSET Points
  BY DEF TypeOK
<1>3. \A p \in Points \ P : Excused(p) => Excused(p)'
  BY <1>1 DEF Excused, Pending, TypeOK
<1>4. \A f, p : Shows(f, p) => Shows(f, p)'
  BY <1>1 DEF Shows
<1>5. EdgesAreCurrent'
  BY <1>1, <1>3, <1>4 DEF Current, EdgesAreCurrent, Excused
<1>6. ASSUME NEW r \in Runs PROVE RunCurrent(run[r])' /\ RunShape(run[r])'
  <2>1. /\ SameWork(run[r], run'[r])
        /\ Reading(run[r]) => run'[r].late = run[r].late \cup P
    BY <1>1, <1>2, DisturbedWork
  <2>2. RunShape(run[r])'
    BY <2>1 DEF Current, RunShapes, RunShape, SameWork
  <2>3. RunCurrent(run[r])'
    BY <1>1, <1>3, <1>4, <2>1 DEF Current, RunsCurrent, RunCurrent, SameWork,
         Reading, SeenCurrent, MapCurrent
  <2> QED BY <2>2, <2>3
<1> QED BY <1>5, <1>6 DEF Current, RunsCurrent, RunShapes

\* The row a run writes is current, or the run is late for the place.
LEMMA UpsertKeepsCurrent ==
    ASSUME TypeOK, Current, NEW r \in Runs, NEW e \in Pairs,
           NEW fetched \in SUBSET Modes, UpsertEdge(r, e, fetched)
    PROVE  Current'
<1> DEFINE row == [city |-> run[r].city, from |-> e[1], to |-> e[2],
                   minutes |-> Minutes(run[r], e, fetched)]
<1>1. /\ edges' = {f \in edges : ~SameKey(f, row)} \cup {row}
      /\ suspect' = suspect \cup ({e[1], e[2]} \cap run[r].late)
      /\ run' = [run EXCEPT ![r].todo = @ \ {e},
                            ![r].clean = @ /\ fetched = run[r].modes]
      /\ place' = place /\ editor' = editor
      /\ e \in run[r].todo /\ Reading(run[r])
  BY DEF UpsertEdge, Reading
<1>2. \A p \in Points : Excused(p) => Excused(p)'
  BY <1>1 DEF Excused, Pending
<1>3. \A f, p : Shows(f, p) => Shows(f, p)'
  BY <1>1 DEF Shows
<1>4. run[r] \in Run /\ row \in Edge
  BY MinutesTyped DEF TypeOK, Edge, Run, Pairs
<1>5. ASSUME NEW p \in Points, Touches(row, p), p \notin run[r].late, ~Excused(p)
      PROVE  Shows(row, p)
  <2>1. p \in run[r].points
    BY <1>1, <1>5 DEF Current, RunShapes, RunShape, Touches
  <2>2. place[p].row = "live" /\ place[p].city = run[r].city
          /\ run[r].seen[p] = place[p]
    BY <1>1, <1>5, <2>1 DEF Current, RunsCurrent, RunCurrent, SeenCurrent
  <2>3. /\ e[1] = p => Measured(run[r], e).from = Used(place[p].at)
        /\ e[2] = p => Measured(run[r], e).to = Used(place[p].at)
    BY <2>2 DEF Measured
  <2>4. ASSUME Existing(run[r], e) # {}, NEW m \in Modes
        PROVE  LET g == CHOOSE f \in Existing(run[r], e) : TRUE
               IN  /\ e[1] = p => g.minutes[m].from = Used(place[p].at)
                   /\ e[2] = p => g.minutes[m].to = Used(place[p].at)
    <3> DEFINE g == CHOOSE f \in Existing(run[r], e) : TRUE
    <3>1. g \in Existing(run[r], e)
      BY <2>4
    <3>2. g \in run[r].map /\ g.from = e[1] /\ g.to = e[2]
      BY <3>1 DEF Existing
    <3> HIDE DEF g
    <3>3. Touches(g, p)
      BY <1>5, <3>2 DEF Touches
    <3>4. Shows(g, p)
      BY <1>1, <1>5, <3>2, <3>3 DEF Current, RunsCurrent, RunCurrent, MapCurrent
    <3>5. /\ e[1] = p => g.minutes[m].from = Used(place[p].at)
          /\ e[2] = p => g.minutes[m].to = Used(place[p].at)
      BY <3>2, <3>4 DEF Shows
    <3> QED BY <3>5 DEF g
  <2>5. ASSUME NEW m \in Modes
        PROVE  /\ e[1] = p => Minutes(run[r], e, fetched)[m].from = Used(place[p].at)
               /\ e[2] = p => Minutes(run[r], e, fetched)[m].to = Used(place[p].at)
    BY <2>3, <2>4 DEF Minutes
  <2> QED BY <2>2, <2>5 DEF Shows
<1>6. EdgesAreCurrent'
  <2> HIDE DEF row
  <2> SUFFICES ASSUME NEW f \in edges', NEW p \in Points, Touches(f, p)
               PROVE  Shows(f, p)' \/ Excused(p)'
    BY DEF EdgesAreCurrent, Excused
  <2>1. CASE f \in edges
    BY <1>2, <1>3, <2>1 DEF Current, EdgesAreCurrent, Excused
  <2>2. CASE f = row
    <3>1. p \in {e[1], e[2]}
      BY <2>2 DEF Touches, row
    <3>2. CASE p \in run[r].late
      BY <1>1, <3>1, <3>2 DEF Excused
    <3>3. CASE p \notin run[r].late
      BY <1>2, <1>3, <1>5, <2>2, <3>3
    <3> QED BY <3>2, <3>3
  <2> QED BY <1>1, <2>1, <2>2
<1>7. ASSUME NEW s \in Runs PROVE RunCurrent(run[s])' /\ RunShape(run[s])'
  <2>1. SameWork(run[s], run'[s]) /\ run'[s].late = run[s].late
    BY <1>1, <1>4 DEF SameWork, TypeOK, Run
  <2> QED BY <1>1, <1>2, <2>1, KeptRun DEF Current, RunsCurrent, RunShapes
<1> QED BY <1>6, <1>7 DEF Current, RunsCurrent, RunShapes

LEMMA LoadPointsKeepsCurrent ==
    ASSUME TypeOK, Current, NEW r \in Runs, NEW t \in Types, LoadCityPoints(r, t)
    PROVE  Current'
<1> DEFINE found == {p \in Points \ run[r].target :
                       TypeOf[p] = t /\ Listed(p, run[r].city)}
<1>1. run[r] \in Run /\ run[r].at = "load"
  BY DEF TypeOK, LoadCityPoints
<1>2. /\ run'[r].at # "upsert" /\ run'[r].city = run[r].city
      /\ run'[r].points = run[r].points \cup found
      /\ run'[r].late = run[r].late /\ run'[r].map = run[r].map
      /\ run'[r].todo = run[r].todo
      /\ \A p \in Points : run'[r].seen[p] = IF p \in found THEN place[p]
                                             ELSE run[r].seen[p]
  BY <1>1 DEF LoadCityPoints, TypeOK, Run
<1>3. run'[r].map = {} /\ run'[r].todo = {}
  BY <1>1, <1>2 DEF Current, RunShapes, RunShape
<1>4. UNCHANGED <<place, edges, editor, suspect>>
      /\ \A s \in Runs \ {r} : run'[s] = run[s]
  BY DEF LoadCityPoints, TypeOK
<1>5. RunShape(run[r])'
  BY <1>3 DEF RunShape
<1>6. ASSUME NEW p \in run'[r].points PROVE SeenCurrent(run[r], p)'
  <2>1. p \in Points
    BY <1>1, <1>2, <1>6 DEF Run
  <2>2. CASE p \in found
    BY <1>2, <1>4, <2>1, <2>2 DEF SeenCurrent, Listed
  <2>3. CASE p \notin found
    <3>1. SeenCurrent(run[r], p)
      BY <1>1, <1>2, <1>6, <2>3 DEF Current, RunsCurrent, RunCurrent, Reading
    <3> QED BY <1>2, <1>4, <2>1, <2>3, <3>1 DEF SeenCurrent
  <2> QED BY <2>2, <2>3
<1>7. RunCurrent(run[r])'
  BY <1>3, <1>6 DEF RunCurrent
<1> QED BY <1>4, <1>5, <1>7, RunKeepsCurrent

LEMMA RunStepsKeepCurrent ==
    ASSUME TypeOK, Current, NEW r \in Runs, RunStep(r)
    PROVE  Current'
<1>1. ASSUME NEW c \in Cities, NEW modes \in SUBSET Modes, RecomputeCity(r, c, modes)
      PROVE  Current'
  <2>1. /\ run'[r].points = {} /\ run'[r].map = {} /\ run'[r].todo = {}
        /\ \A s \in Runs \ {r} : run'[s] = [run[s] EXCEPT !.clean = FALSE]
        /\ UNCHANGED <<place, edges, editor, suspect>>
    BY <1>1 DEF RecomputeCity, NoRun
  <2>2. RunCurrent(run[r])' /\ RunShape(run[r])'
    BY <2>1 DEF RunCurrent, RunShape
  <2> QED BY <2>1, <2>2, RunKeepsCurrent
<1>2. ASSUME NEW p \in Points, NEW modes \in SUBSET Modes, RequestPoint(r, p, modes)
      PROVE  Current'
  <2>1. /\ run'[r].points = {} /\ run'[r].map = {} /\ run'[r].todo = {}
        /\ \A s \in Runs \ {r} : run'[s] = run[s]
        /\ UNCHANGED <<place, edges, editor, suspect>>
    BY <1>2 DEF RequestPoint, NoRun, TypeOK
  <2>2. RunCurrent(run[r])' /\ RunShape(run[r])'
    BY <2>1 DEF RunCurrent, RunShape
  <2> QED BY <2>1, <2>2, RunKeepsCurrent
<1>3. CASE RecomputePoint(r)
  <2>1. run[r] \in Run /\ run[r].target \subseteq Points /\ run[r].at = "resolve"
    BY <1>3 DEF RecomputePoint, TypeOK, Run
  <2>2. PICK p \in run[r].target :
          /\ place[p].row = "live"
          /\ run' = [s \in Runs |->
                       IF s = r
                       THEN [run[r] EXCEPT !.at = "load", !.city = place[p].city,
                               !.points = {p}, !.seen[p] = place[p],
                               !.unread = Types, !.clean = Quiet(r)]
                       ELSE [run[s] EXCEPT !.clean = FALSE]]
    BY <1>3 DEF RecomputePoint
  <2>3. p \in Points
    BY <2>1
  <2>4. /\ run'[r].at = "load" /\ run'[r].points = {p}
        /\ run'[r].city = place[p].city /\ run'[r].seen[p] = place[p]
        /\ run'[r].map = run[r].map /\ run'[r].todo = run[r].todo
    BY <2>1, <2>2, <2>3 DEF Run
  <2>5. run'[r].map = {} /\ run'[r].todo = {}
    BY <2>1, <2>4 DEF Current, RunShapes, RunShape
  <2>6. UNCHANGED <<place, edges, editor, suspect>>
        /\ \A s \in Runs \ {r} : run'[s] = [run[s] EXCEPT !.clean = FALSE]
    BY <1>3, <2>2 DEF RecomputePoint
  <2>7. RunShape(run[r])'
    BY <2>5 DEF RunShape
  <2>8. RunCurrent(run[r])'
    BY <2>2, <2>4, <2>5, <2>6 DEF RunCurrent, SeenCurrent
  <2> QED BY <2>6, <2>7, <2>8, RunKeepsCurrent
<1>4. CASE PointNotFound(r) \/ FinishRun(r) \/ ReadFails(r)
  <2>1. /\ run'[r] = NoRun /\ \A s \in Runs \ {r} : run'[s] = run[s]
        /\ UNCHANGED <<place, edges, editor, suspect>>
    BY <1>4 DEF PointNotFound, FinishRun, ReadFails, TypeOK
  <2>2. RunCurrent(run[r])' /\ RunShape(run[r])'
    BY <2>1 DEF NoRun, RunCurrent, RunShape, Reading
  <2> QED BY <2>1, <2>2, RunKeepsCurrent
<1>5. ASSUME NEW t \in Types, LoadCityPoints(r, t) PROVE Current'
  BY <1>5, LoadPointsKeepsCurrent
<1>6. CASE LoadExistingEdgeMap(r)
  <2> DEFINE map == {e \in edges : /\ e.city = run[r].city
                                   /\ e.from \in run[r].points
                                   /\ e.to \in run[r].points}
  <2>1. run[r] \in Run /\ Reading(run[r])
    BY <1>6 DEF TypeOK, LoadExistingEdgeMap, Reading
  <2>2. /\ run'[r].at = "upsert" /\ run'[r].map = map
        /\ run'[r].todo = Required(run[r]) /\ run'[r].points = run[r].points
        /\ run'[r].city = run[r].city /\ run'[r].late = run[r].late
        /\ run'[r].seen = run[r].seen
        /\ \A s \in Runs \ {r} : run'[s] = run[s]
        /\ UNCHANGED <<place, edges, editor, suspect>>
    BY <1>6, <2>1 DEF LoadExistingEdgeMap, TypeOK, Run
  <2>3. RunShape(run[r])'
    BY <2>2 DEF RunShape, Required
  <2>4. \A p \in run'[r].points : SeenCurrent(run[r], p)'
    BY <2>1, <2>2 DEF Current, RunsCurrent, RunCurrent, SeenCurrent
  <2>5. ASSUME NEW f \in run'[r].map, NEW p \in Points, Touches(f, p)
        PROVE  MapCurrent(run[r], f, p)'
    <3>1. Shows(f, p) \/ Excused(p)
      BY <2>2, <2>5 DEF Current, EdgesAreCurrent, Excused
    <3> QED BY <2>2, <3>1 DEF MapCurrent, Shows, Excused, Pending
  <2>6. RunCurrent(run[r])'
    BY <2>4, <2>5 DEF RunCurrent
  <2> QED BY <2>2, <2>3, <2>6, RunKeepsCurrent
<1>7. ASSUME NEW e \in Pairs, NEW fetched \in SUBSET Modes, UpsertEdge(r, e, fetched)
      PROVE  Current'
  BY <1>7, UpsertKeepsCurrent
<1>8. CASE \/ \E e \in Pairs : UpsertEdgeFails(r, e)
           \/ \E d \in Points : ReportFails(r, d)
  <2>0. run[r] \in Run
    BY DEF TypeOK
  <2>1. /\ SameWork(run[r], run'[r]) /\ run'[r].late = run[r].late
        /\ \A s \in Runs \ {r} : run'[s] = run[s]
        /\ UNCHANGED <<place, edges, editor, suspect>>
    <3>1. ASSUME NEW e \in Pairs, UpsertEdgeFails(r, e)
          PROVE  /\ run'[r] = [run[r] EXCEPT !.todo = @ \ {e}, !.clean = FALSE]
                 /\ \A s \in Runs \ {r} : run'[s] = run[s]
                 /\ UNCHANGED <<place, edges, editor, suspect>>
      BY <3>1 DEF UpsertEdgeFails, TypeOK
    <3>2. ASSUME NEW d \in Points, ReportFails(r, d)
          PROVE  /\ \E rest \in SUBSET run[r].todo :
                      run'[r] = [run[r] EXCEPT !.todo = rest, !.clean = FALSE]
                 /\ \A s \in Runs \ {r} : run'[s] = run[s]
                 /\ UNCHANGED <<place, edges, editor, suspect>>
      <4> DEFINE rest == IF run[r].target = {}
                         THEN {e \in run[r].todo : e[2] # d}
                         ELSE {e \in run[r].todo : e[2] = d /\ d \notin run[r].target}
      <4>1. rest \in SUBSET run[r].todo
        OBVIOUS
      <4>2. run'[r] = [run[r] EXCEPT !.todo = rest, !.clean = FALSE]
        BY <3>2 DEF ReportFails, TypeOK
      <4> HIDE DEF rest
      <4> QED BY <3>2, <4>1, <4>2 DEF ReportFails, TypeOK
    <3>3. ASSUME NEW rest \in SUBSET run[r].todo
          PROVE  LET y == [run[r] EXCEPT !.todo = rest, !.clean = FALSE]
                 IN  SameWork(run[r], y) /\ y.late = run[r].late
      BY <2>0 DEF Run, SameWork
    <3>4. CASE \E e \in Pairs : UpsertEdgeFails(r, e)
      <4>1. PICK e \in Pairs : UpsertEdgeFails(r, e)
        BY <3>4
      <4>2. run[r].todo \ {e} \in SUBSET run[r].todo
        OBVIOUS
      <4> QED BY <3>1, <3>3, <4>1, <4>2
    <3>5. CASE \E d \in Points : ReportFails(r, d)
      <4>1. PICK d \in Points : ReportFails(r, d)
        BY <3>5
      <4>2. PICK rest \in SUBSET run[r].todo :
              run'[r] = [run[r] EXCEPT !.todo = rest, !.clean = FALSE]
        BY <3>2, <4>1
      <4>3. SameWork(run[r], run'[r]) /\ run'[r].late = run[r].late
        BY <2>0, <4>2 DEF Run, SameWork
      <4>4. /\ \A s \in Runs \ {r} : run'[s] = run[s]
            /\ UNCHANGED <<place, edges, editor, suspect>>
        BY <3>2, <4>1
      <4> QED BY <4>3, <4>4
    <3> QED BY <1>8, <3>4, <3>5
  <2>2. RunCurrent(run[r])' /\ RunShape(run[r])'
    BY <2>1, KeptRun DEF Current, RunsCurrent, RunShapes, Excused, Pending
  <2> QED BY <2>1, <2>2, RunKeepsCurrent
<1> QED BY <1>1, <1>2, <1>3, <1>4, <1>5, <1>6, <1>7, <1>8 DEF RunStep

LEMMA EditStepsKeepCurrent ==
    ASSUME TypeOK, Current, NEW a \in Editors, EditStep(a)
    PROVE  Current'
<1>1. ASSUME NEW p \in Points, FindPlace(a, p) PROVE Current'
  <2>1. \A q \in Points : Excused(q) => Excused(q)'
    BY <1>1 DEF FindPlace, Excused, Pending, TypeOK
  <2> QED BY <1>1, <2>1, EditorKeepsCurrent DEF FindPlace
<1>2. ASSUME NEW p \in Points, CreatePlace(a, p) \/ RemovePlace(a, p) PROVE Current'
  <2>1. /\ editor[a].at # "deleteEdges"
        /\ editor'[a].at = "deleteEdges" /\ editor'[a].points = {p}
        /\ \A b \in Editors \ {a} : editor'[b] = editor[b]
        /\ \A q \in Points \ {p} : place'[q] = place[q]
        /\ run' = Disturbed({p}) /\ UNCHANGED <<edges, suspect>>
    BY <1>2 DEF CreatePlace, RemovePlace, TypeOK
  <2> QED BY <2>1, EditKeepsCurrent
<1>3. CASE SaveUpdate(a)
  <2>1. editor[a].points \in SUBSET Points
    BY DEF TypeOK
  <2>2. /\ editor[a].at # "deleteEdges"
        /\ editor'[a].at = "deleteEdges" /\ editor'[a].points = editor[a].points
        /\ \A b \in Editors \ {a} : editor'[b] = editor[b]
        /\ \A q \in Points \ editor[a].points : place'[q] = place[q]
        /\ run' = Disturbed(editor[a].points) /\ UNCHANGED <<edges, suspect>>
    BY <1>3, <2>1 DEF SaveUpdate, TypeOK
  <2> QED BY <2>1, <2>2, EditKeepsCurrent
<1>4. CASE SaveUpdateFails(a)
  <2>1. \A q \in Points : Excused(q) => Excused(q)'
    BY <1>4 DEF SaveUpdateFails, Excused, Pending, TypeOK
  <2> QED BY <1>4, <2>1, EditorKeepsCurrent DEF SaveUpdateFails
<1>5. CASE DeletePointEdges(a)
  BY <1>5, DeleteKeepsCurrent
<1>6. CASE DeletePointEdgesFails(a)
  <2>1. \A q \in Points : Excused(q) => Excused(q)'
    BY <1>6 DEF DeletePointEdgesFails, Excused, Pending, TypeOK
  <2> QED BY <1>6, <2>1, EditorKeepsCurrent DEF DeletePointEdgesFails
<1> QED BY <1>1, <1>2, <1>3, <1>4, <1>5, <1>6 DEF EditStep

LEMMA CrashKeepsCurrent ==
    ASSUME TypeOK, Current, Crash PROVE Current'
<1>1. \A q \in Points : Excused(q) => Excused(q)'
  BY DEF Crash, Excused, Pending
<1>2. EdgesAreCurrent'
  BY <1>1, KeptEdges DEF Current, Crash
<1>3. ASSUME NEW r \in Runs PROVE RunCurrent(run[r])' /\ RunShape(run[r])'
  <2>1. run'[r] = NoRun
    BY DEF Crash
  <2> QED BY <2>1 DEF NoRun, RunCurrent, RunShape, Reading
<1> QED BY <1>2, <1>3 DEF Current, RunsCurrent, RunShapes

LEMMA CurrentInductive ==
    /\ Init => Current
    /\ TypeOK /\ Current /\ [Next]_vars => Current'
<1>1. ASSUME Init PROVE Current
  <2>1. EdgesAreCurrent
    BY <1>1 DEF Init, EdgesAreCurrent
  <2>2. \A r \in Runs : RunCurrent(run[r]) /\ RunShape(run[r])
    BY <1>1 DEF Init, NoRun, RunCurrent, RunShape, Reading
  <2> QED BY <2>1, <2>2 DEF Current, RunsCurrent, RunShapes
<1>2. ASSUME TypeOK, Current, [Next]_vars PROVE Current'
  <2>1. CASE UNCHANGED vars
    BY <1>2, <2>1 DEF vars, Current, EdgesAreCurrent, RunsCurrent, RunShapes,
         RunCurrent, SeenCurrent, MapCurrent, Shows, Excused, Pending
  <2> QED BY <1>2, <2>1, RunStepsKeepCurrent, EditStepsKeepCurrent,
             CrashKeepsCurrent DEF Next
<1> QED BY <1>1, <1>2

\* For any number of places, editors and runs, an edge is current but for
\* the races EdgesAreCurrent names.
THEOREM EdgesStayCurrent == Spec => []EdgesAreCurrent
<1>1. Current => EdgesAreCurrent
  BY DEF Current
<1> QED BY <1>1, CurrentInductive, TypeCorrect, PTL DEF Spec

-----------------------------------------------------------------------------
(* One row for each direction                                              *)

\* The unique constraint: upserts replace the row with the same key.
UniqueKeys == \A e, f \in edges : SameKey(e, f) => e = f

LEMMA EdgesOnlyChange ==
    ASSUME [Next]_vars
    PROVE  \/ edges' \subseteq edges
           \/ \E row : edges' = {f \in edges : ~SameKey(f, row)} \cup {row}
<1>1. ASSUME NEW a \in Editors, EditStep(a) PROVE edges' \subseteq edges
  BY <1>1 DEF EditStep, FindPlace, CreatePlace, RemovePlace, SaveUpdate,
       SaveUpdateFails, DeletePointEdges, DeletePointEdgesFails
<1>2. ASSUME NEW r \in Runs, NEW e \in Pairs, NEW fetched \in SUBSET Modes,
             UpsertEdge(r, e, fetched)
      PROVE  \E row : edges' = {f \in edges : ~SameKey(f, row)} \cup {row}
  BY <1>2 DEF UpsertEdge
<1>3. ASSUME NEW r \in Runs, RunStep(r)
      PROVE  \/ edges' = edges
             \/ \E e \in Pairs, fetched \in SUBSET Modes : UpsertEdge(r, e, fetched)
  BY <1>3 DEF RunStep, RecomputeCity, RequestPoint, RecomputePoint, PointNotFound,
       LoadCityPoints, LoadExistingEdgeMap, UpsertEdgeFails, ReportFails, FinishRun,
       ReadFails
<1>4. Crash \/ UNCHANGED vars => edges' = edges
  BY DEF Crash, vars
<1> QED BY <1>1, <1>2, <1>3, <1>4 DEF Next

\* For any number of cities, a second row of a pair of places is left only
\* by the races that EdgesAreCurrent names.
THEOREM OneRowStays == Spec => []OneRowPerDirection
<1>1. Init => UniqueKeys
  BY DEF Init, UniqueKeys
<1>2. UniqueKeys /\ [Next]_vars => UniqueKeys'
  BY EdgesOnlyChange DEF UniqueKeys, SameKey
<1>3. TypeOK /\ UniqueKeys /\ EdgesAreCurrent => OneRowPerDirection
  <2> SUFFICES ASSUME TypeOK, UniqueKeys, EdgesAreCurrent,
                      NEW e \in edges, NEW f \in edges,
                      e.from = f.from, e.to = f.to, e # f
               PROVE  Pending(e.to) \/ e.to \in suspect
    BY DEF OneRowPerDirection
  <2>1. e.city # f.city
    BY DEF UniqueKeys, SameKey
  <2>2. e.to \in Points
    BY DEF TypeOK, Edge
  <2>3. ~(Shows(e, e.to) /\ Shows(f, e.to))
    BY <2>1 DEF Shows
  <2> QED BY <2>2, <2>3 DEF EdgesAreCurrent, Touches
<1> QED BY <1>1, <1>2, <1>3, TypeCorrect, EdgesStayCurrent, PTL DEF Spec

-----------------------------------------------------------------------------
(* What an undisturbed run has written stays as it wrote it                 *)

Written(x, e) ==
    \E f \in edges : /\ f.city = x.city /\ f.from = e[1] /\ f.to = e[2]
                     /\ \A m \in x.modes : f.minutes[m] = Measured(x, e)

Undisturbed(r) ==
    /\ run[r].late = {}
    /\ \A s \in Runs \ {r} : ~Reading(run[s])
    /\ run[r].at = "upsert" =>
         \A e \in Required(run[r]) \ run[r].todo : Written(run[r], e)

CleanRuns == \A r \in Runs : Reading(run[r]) /\ run[r].clean => Undisturbed(r)

\* A run waiting for its turn has no ghosts yet.
NotLate == \A r \in Runs : run[r].at = "resolve" => run[r].late = {}

\* A step of the editors that leaves runs and edges alone.
LEMMA SameRunsStayClean ==
    ASSUME CleanRuns, NotLate, UNCHANGED <<edges, run>>
    PROVE  CleanRuns' /\ NotLate'
BY DEF CleanRuns, NotLate, Undisturbed, Written

\* Edits and deletions leave no run clean.
LEMMA DisturbedNotClean ==
    ASSUME TypeOK, NotLate, NEW P \in SUBSET Points, run' = Disturbed(P)
    PROVE  CleanRuns' /\ NotLate'
<1> SUFFICES ASSUME NEW r \in Runs
             PROVE  /\ ~(Reading(run'[r]) /\ run'[r].clean)
                    /\ run'[r].at = "resolve" => run'[r].late = {}
  BY DEF CleanRuns, NotLate
<1>1. SameWork(run[r], run'[r])
  BY DisturbedWork
<1>2. CASE Reading(run[r])
  <2>1. run'[r].clean = FALSE
    BY <1>2, DisturbedWork
  <2> QED BY <1>1, <1>2, <2>1 DEF SameWork, Reading
<1>3. CASE ~Reading(run[r])
  <2>1. run'[r] = run[r]
    BY <1>3, DisturbedWork
  <2> QED BY <1>3, <2>1 DEF NotLate
<1> QED BY <1>2, <1>3

\* A step of run r that starts it: r is clean only if all others are idle,
\* and they are clean no more.
LEMMA StartKeepsClean ==
    ASSUME TypeOK, NotLate, NEW r \in Runs,
           run'[r].at = "load", run'[r].late = {},
           run'[r].clean => \A s \in Runs \ {r} : ~Reading(run[s]),
           \A s \in Runs \ {r} : run'[s] = [run[s] EXCEPT !.clean = FALSE]
    PROVE  CleanRuns' /\ NotLate'
<1>1. ASSUME NEW s \in Runs \ {r}
      PROVE  /\ SameWork(run[s], run'[s])
             /\ run'[s].late = run[s].late /\ run'[s].clean = FALSE
  <2>1. run[s] \in Run /\ run'[s] = [run[s] EXCEPT !.clean = FALSE]
    BY DEF TypeOK
  <2> QED BY <2>1 DEF Run, SameWork
<1>2. NotLate'
  BY <1>1 DEF NotLate, SameWork
<1>3. Reading(run'[r]) /\ run'[r].clean => Undisturbed(r)'
  BY <1>1 DEF Undisturbed, SameWork, Reading
<1> QED BY <1>1, <1>2, <1>3 DEF CleanRuns

\* A step of run r alone that leaves edges as they are.
LEMMA OwnStepKeepsClean ==
    ASSUME TypeOK, CleanRuns, NotLate, NEW r \in Runs, edges' = edges,
           \A s \in Runs \ {r} : run'[s] = run[s],
           run'[r].at = "resolve" => run'[r].late = {},
           Reading(run'[r]) => Reading(run[r]),
           Reading(run'[r]) /\ run'[r].clean =>
             /\ run[r].clean /\ run'[r].late = run[r].late
             /\ run'[r].at = "upsert" =>
                  \A e \in Required(run'[r]) \ run'[r].todo : Written(run[r], e)'
    PROVE  CleanRuns' /\ NotLate'
<1>1. NotLate'
  BY DEF NotLate
<1>2. Reading(run'[r]) /\ run'[r].clean => Undisturbed(r)'
  BY DEF CleanRuns, Undisturbed
<1>3. ASSUME NEW s \in Runs \ {r}, Reading(run'[s]), run'[s].clean
      PROVE  Undisturbed(s)'
  <2>1. Undisturbed(s)
    BY <1>3 DEF CleanRuns
  <2>2. \A q \in Runs \ {s} : ~Reading(run'[q])
    BY <2>1 DEF Undisturbed
  <2> QED BY <2>1, <2>2 DEF Undisturbed, Written
<1> QED BY <1>1, <1>2, <1>3 DEF CleanRuns

LEMMA UpsertKeepsClean ==
    ASSUME TypeOK, CleanRuns, NotLate, NEW r \in Runs, NEW e \in Pairs,
           NEW fetched \in SUBSET Modes, UpsertEdge(r, e, fetched)
    PROVE  CleanRuns' /\ NotLate'
<1> DEFINE row == [city |-> run[r].city, from |-> e[1], to |-> e[2],
                   minutes |-> Minutes(run[r], e, fetched)]
<1>1. /\ edges' = {f \in edges : ~SameKey(f, row)} \cup {row}
      /\ run[r].at = "upsert" /\ fetched \subseteq run[r].modes
      /\ run[r] \in Run
      /\ \A s \in Runs \ {r} : run'[s] = run[s]
  BY DEF UpsertEdge, TypeOK
<1>2. run'[r] = [run[r] EXCEPT !.todo = @ \ {e}, !.clean = @ /\ fetched = run[r].modes]
  BY DEF UpsertEdge, TypeOK
<1>3. /\ SameWork(run[r], run'[r]) /\ run'[r].late = run[r].late
      /\ run'[r].todo = run[r].todo \ {e}
      /\ run'[r].clean => run[r].clean /\ fetched = run[r].modes
  BY <1>1, <1>2 DEF Run, SameWork
<1>4. Required(run'[r]) = Required(run[r])
  BY <1>3 DEF Required, SameWork
<1>5. NotLate'
  BY <1>1, <1>3 DEF NotLate, SameWork
<1>6. ASSUME run'[r].clean PROVE Undisturbed(r)'
  <2>1. Undisturbed(r)
    BY <1>1, <1>3, <1>6 DEF CleanRuns, Reading
  <2>2. run'[r].late = {} /\ \A s \in Runs \ {r} : ~Reading(run'[s])
    BY <1>1, <1>3, <2>1 DEF Undisturbed
  <2>3. ASSUME NEW d \in Required(run[r]) \ (run[r].todo \ {e})
        PROVE  \E f \in edges' :
                 /\ f.city = run[r].city /\ f.from = d[1] /\ f.to = d[2]
                 /\ \A m \in run[r].modes : f.minutes[m] = Measured(run[r], d)
    <3>1. CASE d = e
      <4>1. row \in edges'
        BY <1>1
      <4>2. run[r].modes \subseteq Modes
        BY <1>1 DEF Run
      <4>3. \A m \in run[r].modes : row.minutes[m] = Measured(run[r], e)
        BY <1>3, <1>6, <4>2 DEF Minutes
      <4> HIDE DEF row
      <4>4. row.city = run[r].city /\ row.from = e[1] /\ row.to = e[2]
        BY DEF row
      <4> QED BY <3>1, <4>1, <4>3, <4>4
    <3>2. CASE d # e
      <4>1. Written(run[r], d)
        BY <1>1, <2>1, <2>3, <3>2 DEF Undisturbed
      <4>2. PICK f \in edges :
              /\ f.city = run[r].city /\ f.from = d[1] /\ f.to = d[2]
              /\ \A m \in run[r].modes : f.minutes[m] = Measured(run[r], d)
        BY <4>1 DEF Written
      <4>3. d \in Points \X Points /\ e \in Points \X Points
        BY <1>1, <2>3 DEF Required, Run, Pairs
      <4>4. d[1] # e[1] \/ d[2] # e[2]
        BY <3>2, <4>3
      <4>5. ~SameKey(f, row)
        BY <4>2, <4>4 DEF SameKey
      <4> HIDE DEF row
      <4>6. f \in edges'
        BY <1>1, <4>5
      <4> QED BY <4>2, <4>6
    <3> QED BY <3>1, <3>2
  <2>4. \A d : Measured(run'[r], d) = Measured(run[r], d)
    BY <1>3 DEF Measured, SameWork
  <2>5. \A d \in Required(run'[r]) \ run'[r].todo : Written(run[r], d)'
    <3> SUFFICES ASSUME NEW d \in Required(run[r]) \ (run[r].todo \ {e})
                 PROVE  Written(run[r], d)'
      BY <1>3, <1>4
    <3>1. run'[r].city = run[r].city /\ run'[r].modes = run[r].modes
      BY <1>3 DEF SameWork
    <3>2. PICK f \in edges' :
            /\ f.city = run[r].city /\ f.from = d[1] /\ f.to = d[2]
            /\ \A m \in run[r].modes : f.minutes[m] = Measured(run[r], d)
      BY <2>3
    <3> QED BY <2>4, <3>1, <3>2 DEF Written
  <2> QED BY <2>2, <2>5 DEF Undisturbed
<1>7. ASSUME NEW s \in Runs \ {r} PROVE ~(Reading(run'[s]) /\ run'[s].clean)
  BY <1>1 DEF CleanRuns, Undisturbed, Reading
<1> QED BY <1>5, <1>6, <1>7 DEF CleanRuns

LEMMA RunStepsKeepClean ==
    ASSUME TypeOK, Current, CleanRuns, NotLate, NEW r \in Runs, RunStep(r)
    PROVE  CleanRuns' /\ NotLate'
<1>0. run[r] \in Run
  BY DEF TypeOK
<1>1. ASSUME NEW c \in Cities, NEW modes \in SUBSET Modes, RecomputeCity(r, c, modes)
      PROVE  CleanRuns' /\ NotLate'
  <2>1. /\ run'[r].at = "load" /\ run'[r].late = {} /\ run'[r].clean = Quiet(r)
        /\ \A s \in Runs \ {r} : run'[s] = [run[s] EXCEPT !.clean = FALSE]
    BY <1>1 DEF RecomputeCity, NoRun
  <2> QED BY <2>1, StartKeepsClean DEF Quiet
<1>2. ASSUME NEW p \in Points, NEW modes \in SUBSET Modes, RequestPoint(r, p, modes)
      PROVE  CleanRuns' /\ NotLate'
  <2>1. /\ run'[r].at = "resolve" /\ run'[r].late = {} /\ edges' = edges
        /\ \A s \in Runs \ {r} : run'[s] = run[s]
    BY <1>2 DEF RequestPoint, NoRun, TypeOK
  <2> QED BY <2>1, OwnStepKeepsClean DEF Reading
<1>3. CASE RecomputePoint(r)
  <2>1. run[r].at = "resolve" /\ run[r].late = {}
    BY <1>3 DEF RecomputePoint, NotLate
  <2>2. PICK p \in run[r].target :
          run' = [s \in Runs |->
                    IF s = r
                    THEN [run[r] EXCEPT !.at = "load", !.city = place[p].city,
                            !.points = {p}, !.seen[p] = place[p],
                            !.unread = Types, !.clean = Quiet(r)]
                    ELSE [run[s] EXCEPT !.clean = FALSE]]
    BY <1>3 DEF RecomputePoint
  <2>3. /\ run'[r].at = "load" /\ run'[r].late = {} /\ run'[r].clean = Quiet(r)
        /\ \A s \in Runs \ {r} : run'[s] = [run[s] EXCEPT !.clean = FALSE]
    BY <1>0, <2>1, <2>2 DEF Run
  <2> QED BY <2>3, StartKeepsClean DEF Quiet
<1>4. CASE PointNotFound(r) \/ FinishRun(r) \/ ReadFails(r)
  <2>1. /\ run'[r].at = "idle" /\ edges' = edges
        /\ \A s \in Runs \ {r} : run'[s] = run[s]
    BY <1>4 DEF PointNotFound, FinishRun, ReadFails, NoRun, TypeOK
  <2> QED BY <2>1, OwnStepKeepsClean DEF Reading
<1>5. ASSUME NEW t \in Types, LoadCityPoints(r, t) PROVE CleanRuns' /\ NotLate'
  <2>1. run[r].at = "load" /\ Reading(run[r])
    BY <1>5 DEF LoadCityPoints, Reading
  <2>2. /\ run'[r].at \in {"load", "map", "idle"}
        /\ run'[r].late = run[r].late /\ run'[r].clean = run[r].clean
    BY <1>0, <1>5 DEF LoadCityPoints, TypeOK, Run
  <2>3. edges' = edges /\ \A s \in Runs \ {r} : run'[s] = run[s]
    BY <1>5 DEF LoadCityPoints, TypeOK
  <2> QED BY <2>1, <2>2, <2>3, OwnStepKeepsClean
<1>6. CASE LoadExistingEdgeMap(r)
  <2>1. Reading(run[r])
    BY <1>6 DEF LoadExistingEdgeMap, Reading
  <2>2. /\ run'[r].at = "upsert" /\ run'[r].todo = Required(run[r])
        /\ run'[r].points = run[r].points /\ run'[r].target = run[r].target
        /\ run'[r].late = run[r].late /\ run'[r].clean = run[r].clean
    BY <1>0, <1>6 DEF LoadExistingEdgeMap, TypeOK, Run
  <2>3. edges' = edges /\ \A s \in Runs \ {r} : run'[s] = run[s]
    BY <1>6 DEF LoadExistingEdgeMap, TypeOK
  <2>4. Required(run'[r]) = run'[r].todo
    BY <2>2 DEF Required
  <2> QED BY <2>1, <2>2, <2>3, <2>4, OwnStepKeepsClean
<1>7. ASSUME NEW e \in Pairs, NEW fetched \in SUBSET Modes, UpsertEdge(r, e, fetched)
      PROVE  CleanRuns' /\ NotLate'
  BY <1>7, UpsertKeepsClean
<1>8. ASSUME NEW e \in Pairs, UpsertEdgeFails(r, e) PROVE CleanRuns' /\ NotLate'
  <2>1. /\ Reading(run[r]) /\ run'[r].at = "upsert" /\ run'[r].clean = FALSE
        /\ edges' = edges /\ \A s \in Runs \ {r} : run'[s] = run[s]
    BY <1>0, <1>8 DEF UpsertEdgeFails, Reading, TypeOK, Run
  <2> QED BY <2>1, OwnStepKeepsClean
<1>9. ASSUME NEW d \in Points, ReportFails(r, d) PROVE CleanRuns' /\ NotLate'
  <2>1. /\ Reading(run[r]) /\ run'[r].at = "upsert" /\ run'[r].clean = FALSE
        /\ edges' = edges /\ \A s \in Runs \ {r} : run'[s] = run[s]
    BY <1>0, <1>9 DEF ReportFails, Reading, TypeOK, Run
  <2> QED BY <2>1, OwnStepKeepsClean
<1> QED BY <1>1, <1>2, <1>3, <1>4, <1>5, <1>6, <1>7, <1>8, <1>9 DEF RunStep

LEMMA CleanInductive ==
    /\ Init => CleanRuns /\ NotLate
    /\ TypeOK /\ Current /\ CleanRuns /\ NotLate /\ [Next]_vars
         => CleanRuns' /\ NotLate'
<1>1. Init => CleanRuns /\ NotLate
  <2>1. Init => \A r \in Runs : run[r].at = "idle"
    BY DEF Init, NoRun
  <2> QED BY <2>1 DEF CleanRuns, NotLate, Reading
<1>2. ASSUME TypeOK, Current, CleanRuns, NotLate, [Next]_vars
      PROVE  CleanRuns' /\ NotLate'
  <2>1. ASSUME NEW a \in Editors, EditStep(a) PROVE CleanRuns' /\ NotLate'
    <3>1. editor[a].points \in SUBSET Points
      BY <1>2 DEF TypeOK
    <3>2. CASE SaveUpdate(a) \/ DeletePointEdges(a)
      BY <1>2, <3>1, <3>2, DisturbedNotClean DEF SaveUpdate, DeletePointEdges
    <3>3. ASSUME NEW p \in Points, CreatePlace(a, p) \/ RemovePlace(a, p)
          PROVE  CleanRuns' /\ NotLate'
      BY <1>2, <3>3, DisturbedNotClean DEF CreatePlace, RemovePlace
    <3>4. ASSUME NEW p \in Points,
                 FindPlace(a, p) \/ SaveUpdateFails(a) \/ DeletePointEdgesFails(a)
          PROVE  CleanRuns' /\ NotLate'
      BY <1>2, <3>4, SameRunsStayClean DEF FindPlace, SaveUpdateFails,
           DeletePointEdgesFails
    <3>5. CASE SaveUpdateFails(a) \/ DeletePointEdgesFails(a)
      BY <1>2, <3>5, SameRunsStayClean DEF SaveUpdateFails, DeletePointEdgesFails
    <3> QED BY <2>1, <3>2, <3>3, <3>4, <3>5 DEF EditStep
  <2>2. CASE Crash
    BY <2>2 DEF Crash, NoRun, CleanRuns, NotLate, Reading
  <2>3. CASE UNCHANGED vars
    BY <1>2, <2>3, SameRunsStayClean DEF vars
  <2> QED BY <1>2, <2>1, <2>2, <2>3, RunStepsKeepClean DEF Next
<1> QED BY <1>1, <1>2

\* For any number of places and runs, a run that nothing disturbed leaves
\* every edge it was to compute stored and current in the modes selected.
THEOREM UndisturbedRunRepairs == Spec => RecomputeRepairs
<1> DEFINE Repaired(r) ==
      FinishRun(r) /\ run[r].clean =>
         \A e \in Required(run[r]) : \E f \in edges :
            /\ f.city = run[r].city /\ f.from = e[1] /\ f.to = e[2]
            /\ \A m \in run[r].modes :
                 f.minutes[m] = [from |-> Used(place[e[1]].at),
                                 to |-> Used(place[e[2]].at)]
<1>1. TypeOK /\ Current /\ CleanRuns => \A r \in Runs : Repaired(r)
  <2> SUFFICES ASSUME TypeOK, Current, CleanRuns, NEW r \in Runs,
                      FinishRun(r), run[r].clean, NEW e \in Required(run[r])
               PROVE  \E f \in edges :
                        /\ f.city = run[r].city /\ f.from = e[1] /\ f.to = e[2]
                        /\ \A m \in run[r].modes :
                             f.minutes[m] = [from |-> Used(place[e[1]].at),
                                             to |-> Used(place[e[2]].at)]
    OBVIOUS
  <2>1. Reading(run[r]) /\ run[r].at = "upsert" /\ run[r].todo = {}
    BY DEF FinishRun, Reading
  <2>2. run[r].late = {} /\ Written(run[r], e)
    BY <2>1 DEF CleanRuns, Undisturbed
  <2>3. e[1] \in run[r].points /\ e[2] \in run[r].points
    BY DEF Required
  <2>4. run[r].seen[e[1]] = place[e[1]] /\ run[r].seen[e[2]] = place[e[2]]
    BY <2>1, <2>2, <2>3 DEF Current, RunsCurrent, RunCurrent, SeenCurrent
  <2>5. Measured(run[r], e) = [from |-> Used(place[e[1]].at),
                               to |-> Used(place[e[2]].at)]
    BY <2>4 DEF Measured
  <2> QED BY <2>2, <2>5 DEF Written
<1>2. TypeOK /\ Current /\ CleanRuns /\ [Next]_vars => [\A r \in Runs : Repaired(r)]_vars
  BY <1>1
<1>3. Spec => [][\A r \in Runs : Repaired(r)]_vars
  <2> HIDE DEF Repaired
  <2> QED BY <1>2, CurrentInductive, CleanInductive, TypeCorrect, PTL DEF Spec
<1> QED BY <1>3 DEF RecomputeRepairs

\* Every set of natural numbers but the empty one has a smallest element.
LEMMA Smallest ==
    ASSUME NEW S \in SUBSET Nat, S # {}
    PROVE  \E x \in S : \A y \in S : x <= y
<1> DEFINE R == OpToRel(<, Nat)
<1>1. IsWellFoundedOn(R, Nat)
  BY NatLessThanWellFounded
<1>2. \A x, y \in Nat : x < y => <<x, y>> \in R
  BY DEF OpToRel
<1> HIDE DEF R
<1>3. PICK x \in S : \A y \in S : ~(<<y, x>> \in R)
  BY <1>1, WFMin, Zenon
<1>4. SUFFICES ASSUME NEW y \in S PROVE x <= y
  BY Zenon
<1>5. ~(y < x) /\ x \in Nat /\ y \in Nat
  BY <1>2, <1>3, Zenon
<1> QED
  BY <1>5, SMT

-----------------------------------------------------------------------------
(* The page of a city and the planner's own check                          *)

\* CityMatrix counts as this module does.
LEMMA CityCounts == \A S : City!Cardinality(S) = Cardinality(S)
  BY DEF City!Cardinality, Cardinality

\* A set of pairs of different members of a finite set, by their number.
LEMMA PairsCounted ==
    ASSUME NEW ids, IsFiniteSet(ids)
    PROVE  /\ IsFiniteSet(City!Pairs(ids))
           /\ Cardinality(ids) \in Nat
           /\ Cardinality(City!Pairs(ids)) = Cardinality(ids) * (Cardinality(ids) - 1)
<1> DEFINE n == Cardinality(ids)
           diagonal == {<<i, i>> : i \in ids}
<1>1. n \in Nat
  BY FS_CardinalityType
<1>2. IsFiniteSet(ids \X ids) /\ Cardinality(ids \X ids) = n * n
  BY FS_Product
<1>3. Cardinality(diagonal) = n
  <2> DEFINE f == [i \in ids |-> <<i, i>>]
  <2>1. f \in Bijection(ids, diagonal)
    BY DEF Bijection, Injection, Surjection, IsInjective
  <2>2. ExistsBijection(ids, diagonal)
    BY <2>1 DEF ExistsBijection
  <2> QED BY <2>2, FS_Bijection
<1>4. City!Pairs(ids) = (ids \X ids) \ diagonal
  BY DEF City!Pairs
<1>5. (ids \X ids) \cap diagonal = diagonal
  OBVIOUS
<1>6. Cardinality((ids \X ids) \ diagonal) = n * n - n /\ IsFiniteSet((ids \X ids) \ diagonal)
  <2>1. ASSUME NEW S, NEW T, IsFiniteSet(S), S \cap T = T
        PROVE  IsFiniteSet(S \ T) /\ Cardinality(S \ T) = Cardinality(S) - Cardinality(T)
    BY <2>1, FS_Difference
  <2> QED BY <2>1, <1>2, <1>3, <1>5
<1>7. n * n - n = n * (n - 1)
  BY <1>1
<1> QED BY <1>1, <1>4, <1>6, <1>7

\* The pairs from a member or to it are twice as many as there are others.
Touching(ids, id) == {e \in City!Pairs(ids) : id \in {e[1], e[2]}}

LEMMA TouchingCounted ==
    ASSUME NEW ids, IsFiniteSet(ids), NEW id \in ids
    PROVE  /\ IsFiniteSet(Touching(ids, id))
           /\ Cardinality(Touching(ids, id)) = 2 * (Cardinality(ids) - 1)
<1> DEFINE others == ids \ {id}
           from == {id} \X others
           to == others \X {id}
<1>1. IsFiniteSet(others) /\ Cardinality(others) = Cardinality(ids) - 1
  BY FS_RemoveElement
<1>2. IsFiniteSet({id}) /\ Cardinality({id}) = 1
  BY FS_Singleton
<1>3. Cardinality(others) \in Nat
  BY <1>1, FS_CardinalityType
<1>4. /\ IsFiniteSet(from) /\ Cardinality(from) = 1 * Cardinality(others)
      /\ IsFiniteSet(to) /\ Cardinality(to) = Cardinality(others) * 1
  BY <1>1, <1>2, FS_Product
<1>5. from \cap to = {}
  OBVIOUS
<1>6. IsFiniteSet(from \cup to) /\ Cardinality(from \cup to) = Cardinality(from) + Cardinality(to) - 0
  BY <1>4, <1>5, FS_Union, FS_EmptySet
<1>7. Touching(ids, id) = from \cup to
  <2>1. ASSUME NEW e \in Touching(ids, id) PROVE e \in from \cup to
    BY DEF Touching, City!Pairs
  <2>2. ASSUME NEW e \in from \cup to PROVE e \in Touching(ids, id)
    BY DEF Touching, City!Pairs
  <2> QED BY <2>1, <2>2
<1> QED BY <1>1, <1>3, <1>4, <1>6, <1>7

\* Whichever way it is rounded, a coverage of fewer rows than twice the units
\* of the last place is ready only when no row is missing.
LEMMA WholeCoverage ==
    ASSUME NEW expected \in Nat, NEW whole \in Nat, expected > 0, whole <= expected,
           expected < 2 * City!Whole
    PROVE  City!ToCoverage(expected, whole) >= City!Whole <=> whole = expected
  BY DEF City!ToCoverage, City!Whole

LEMMA FewPairs ==
    ASSUME NEW n \in Nat, n <= Rounding
    PROVE  /\ n * (n - 1) < 2 * City!Whole
           /\ n > 1 => n * (n - 1) > 0 /\ n * (n - 1) \in Nat
           /\ n * (n - 1) > 0 => n > 1
<1>1. n * (n - 1) = n * n - n
  OBVIOUS
<1>2. n * n <= n * 141
  BY DEF Rounding
<1>3. n > 1 => n * n >= n * 2
  OBVIOUS
<1>4. n = 0 => n * (n - 1) = 0
  OBVIOUS
<1>5. n = 1 => n * (n - 1) = 0
  OBVIOUS
<1> QED BY <1>1, <1>2, <1>3, <1>4, <1>5 DEF City!Whole, Rounding

\* The rows of a city with all modes, from and to which its nodes are ready.
LEMMA ReadyMeansComplete ==
    ASSUME NEW ids, IsFiniteSet(ids), Cardinality(ids) <= Rounding, NEW rows, NEW province,
           \A e \in DOMAIN rows : rows[e].modes \subseteq City!Modes
    PROVE  City!ResolveCityStatus(City!Tally(ids, rows, province)) = "ready"
             <=> /\ Cardinality(ids) > 1
                 /\ City!EdgesIn("ready", ids, rows, province) = City!Pairs(ids)
                 /\ \A e \in City!Pairs(ids) : rows[e].modes = City!Modes
<1> DEFINE n == Cardinality(ids)
           whole == City!EdgesIn("ready", ids, rows, province)
           with(m) == {e \in whole : m \in rows[e].modes}
           tally == City!Tally(ids, rows, province)
<1>1. /\ IsFiniteSet(City!Pairs(ids)) /\ n \in Nat
      /\ Cardinality(City!Pairs(ids)) = n * (n - 1)
  BY PairsCounted
<1>2. whole \in SUBSET City!Pairs(ids) /\ whole \subseteq DOMAIN rows
  BY DEF City!EdgesIn
<1>3. /\ IsFiniteSet(whole) /\ Cardinality(whole) \in Nat
      /\ Cardinality(whole) = n * (n - 1) => whole = City!Pairs(ids)
  BY <1>1, <1>2, FS_Subset, FS_CardinalityType
<1>4. ASSUME NEW m \in City!Modes
      PROVE  /\ Cardinality(with(m)) \in Nat /\ Cardinality(with(m)) <= Cardinality(whole)
             /\ Cardinality(with(m)) = Cardinality(whole) => with(m) = whole
  <2>1. with(m) \in SUBSET whole
    OBVIOUS
  <2> QED BY <2>1, <1>3, FS_Subset, FS_CardinalityType
<1>5. /\ tally.expected = n * (n - 1) /\ tally.ready = Cardinality(whole)
      /\ \A m \in City!Modes : tally.withMode[m] = Cardinality(with(m))
  <2>1. tally.expected = n * (n - 1) /\ tally.ready = Cardinality(whole)
    BY CityCounts DEF City!Tally
  <2>2. tally.withMode = [m \in City!Modes |-> Cardinality({e \in whole : m \in rows[e].modes})]
    BY CityCounts DEF City!Tally
  <2> QED BY <2>1, <2>2
<1> HIDE DEF whole, with, tally
<1>6. City!ResolveCityStatus(tally) = "ready"
        <=> /\ tally.expected > 0 /\ tally.ready = tally.expected
            /\ \A m \in City!Modes :
                  City!ToCoverage(tally.ready, tally.withMode[m]) >= City!Whole
  BY DEF City!ResolveCityStatus
<1>7. /\ n * (n - 1) < 2 * City!Whole
      /\ n > 1 => n * (n - 1) > 0 /\ n * (n - 1) \in Nat
      /\ n * (n - 1) > 0 => n > 1
  BY <1>1, FewPairs
<1> HIDE DEF n
<1>8. ASSUME City!ResolveCityStatus(tally) = "ready"
      PROVE  /\ n > 1 /\ whole = City!Pairs(ids)
             /\ \A e \in City!Pairs(ids) : rows[e].modes = City!Modes
  <2>1. n > 1 /\ Cardinality(whole) = n * (n - 1) /\ Cardinality(whole) > 0
    BY <1>5, <1>6, <1>7, <1>8
  <2>2. whole = City!Pairs(ids)
    BY <2>1, <1>3
  <2>3. ASSUME NEW m \in City!Modes PROVE with(m) = whole
    <3>1. City!ToCoverage(Cardinality(whole), Cardinality(with(m))) >= City!Whole
      BY <1>5, <1>6, <1>8
    <3>2. Cardinality(with(m)) = Cardinality(whole)
      BY <3>1, <2>1, <1>3, <1>4, <1>7, WholeCoverage
    <3> QED BY <3>2, <1>4
  <2>4. ASSUME NEW e \in City!Pairs(ids) PROVE rows[e].modes = City!Modes
    <3>1. \A m \in City!Modes : e \in with(m)
      BY <2>2, <2>3
    <3>2. City!Modes \subseteq rows[e].modes
      BY <3>1 DEF with
    <3> QED BY <3>2, <2>2, <1>2
  <2> QED BY <2>1, <2>2, <2>4
<1>9. ASSUME n > 1, whole = City!Pairs(ids),
             \A e \in City!Pairs(ids) : rows[e].modes = City!Modes
      PROVE  City!ResolveCityStatus(tally) = "ready"
  <2>1. Cardinality(whole) = n * (n - 1) /\ Cardinality(whole) > 0
    BY <1>1, <1>7, <1>9
  <2>2. ASSUME NEW m \in City!Modes PROVE with(m) = whole
    BY <1>9 DEF with
  <2>3. ASSUME NEW m \in City!Modes
        PROVE  City!ToCoverage(tally.ready, tally.withMode[m]) >= City!Whole
    <3>1. tally.withMode[m] = Cardinality(whole) /\ tally.ready = Cardinality(whole)
      BY <2>2, <1>5
    <3> QED BY <3>1, <2>1, <1>3, <1>7, WholeCoverage
  <2> QED BY <2>1, <2>3, <1>5, <1>6
<1> QED BY <1>8, <1>9 DEF n, whole, tally

\* A node is ready when the rows from it and to it are.
LEMMA NodeIsReady ==
    ASSUME NEW ids, IsFiniteSet(ids), NEW rows, NEW province, NEW id \in ids,
           Cardinality(ids) > 1
    PROVE  City!NodeStatus(id, ids, rows, province) = "ready"
             <=> \A e \in Touching(ids, id) :
                    e \in City!EdgesIn("ready", ids, rows, province) /\ rows[e].modes = City!Modes
<1> DEFINE n == Cardinality(ids)
           whole == City!EdgesIn("ready", ids, rows, province)
           touching == {e \in whole : id \in {e[1], e[2]}}
           complete == {e \in touching : rows[e].modes = City!Modes}
<1>1. /\ n \in Nat /\ IsFiniteSet(Touching(ids, id))
      /\ Cardinality(Touching(ids, id)) = 2 * (n - 1)
  BY TouchingCounted, FS_CardinalityType
<1>2. whole \subseteq City!Pairs(ids)
  BY DEF City!EdgesIn
<1>3. complete \in SUBSET Touching(ids, id)
  BY <1>2 DEF Touching
<1>4. Cardinality(complete) = 2 * (n - 1) <=> complete = Touching(ids, id)
  BY <1>1, <1>3, FS_Subset
<1>5. 2 * (n - 1) > 0
  BY <1>1
<1>6. City!NodeStatus(id, ids, rows, province) = "ready" <=> Cardinality(complete) = 2 * (n - 1)
  <2>1. City!NodeStatus(id, ids, rows, province)
          = IF 2 * (n - 1) > 0 /\ Cardinality(complete) = 2 * (n - 1) THEN "ready"
            ELSE IF touching # {} THEN "partial" ELSE "pending"
    BY CityCounts DEF City!NodeStatus
  <2> HIDE DEF n, complete, touching
  <2> QED BY <1>5, <2>1
<1>7. complete = Touching(ids, id)
        <=> \A e \in Touching(ids, id) : e \in whole /\ rows[e].modes = City!Modes
  BY <1>3 DEF Touching
<1> QED BY <1>4, <1>6, <1>7

\* The page of a city shows it ready just when it shows each of its nodes so.
LEMMA PageAgrees ==
    ASSUME NEW places, NEW rows, NEW province, IsFiniteSet(places),
           \A e \in DOMAIN rows : rows[e].modes \subseteq City!Modes
    PROVE  LET page == City!CityPage(places, rows, province)
               nodes == DOMAIN page.nodes
           IN  Cardinality(nodes) <= Rounding =>
                 (page.status = "ready"
                    <=> Cardinality(nodes) > 1 /\ \A i \in nodes : page.nodes[i] = "ready")
<1> DEFINE page == City!CityPage(places, rows, province)
           ids == City!Ids(City!CityNodes(places, province))
           whole == City!EdgesIn("ready", ids, rows, province)
<1>1. IsFiniteSet(ids)
  <2>1. City!CityNodes(places, province) \in SUBSET places
    BY DEF City!CityNodes
  <2>2. IsFiniteSet(City!CityNodes(places, province))
    BY <2>1, FS_Subset
  <2> DEFINE f == [p \in City!CityNodes(places, province) |-> p.id]
  <2>3. f \in Surjection(City!CityNodes(places, province), ids)
    BY DEF Surjection, City!Ids
  <2> QED BY <2>2, <2>3, FS_Surjection
<1>2. /\ page.status = City!ResolveCityStatus(City!Tally(ids, rows, province))
      /\ DOMAIN page.nodes = ids
      /\ \A i \in ids : page.nodes[i] = City!NodeStatus(i, ids, rows, province)
  BY DEF City!CityPage
<1> HIDE DEF page, ids, whole
<1>3. ASSUME Cardinality(ids) <= Rounding
      PROVE  page.status = "ready"
               <=> Cardinality(ids) > 1 /\ \A i \in ids : page.nodes[i] = "ready"
  <2>1. page.status = "ready"
          <=> /\ Cardinality(ids) > 1 /\ whole = City!Pairs(ids)
              /\ \A e \in City!Pairs(ids) : rows[e].modes = City!Modes
    BY <1>1, <1>2, <1>3, ReadyMeansComplete DEF whole
  <2>2. ASSUME Cardinality(ids) > 1, NEW i \in ids
        PROVE  page.nodes[i] = "ready"
                 <=> \A e \in Touching(ids, i) : e \in whole /\ rows[e].modes = City!Modes
    BY <1>1, <1>2, <2>2, NodeIsReady DEF whole
  <2>3. \A i \in ids : Touching(ids, i) \subseteq City!Pairs(ids)
    BY DEF Touching
  <2>4. \A e \in City!Pairs(ids) : e[1] \in ids /\ e \in Touching(ids, e[1])
    BY DEF City!Pairs, Touching
  <2>5. whole \subseteq City!Pairs(ids)
    BY DEF whole, City!EdgesIn
  <2>6. page.status = "ready" => Cardinality(ids) > 1 /\ \A i \in ids : page.nodes[i] = "ready"
    BY <2>1, <2>2, <2>3
  <2>7. ASSUME Cardinality(ids) > 1, \A i \in ids : page.nodes[i] = "ready"
        PROVE  page.status = "ready"
    <3>1. \A e \in City!Pairs(ids) : e \in whole /\ rows[e].modes = City!Modes
      BY <2>2, <2>4, <2>7
    <3> QED BY <3>1, <2>1, <2>5, <2>7
  <2> QED BY <2>6, <2>7
<1> QED BY <1>2, <1>3 DEF page

\* A tally of a city of few places whose rows are all ready is ready just when
\* none is without a mode.
LEMMA TallyAgrees ==
    ASSUME NEW n \in Nat \ {0, 1}, NEW without \in 0..(n * (n - 1)), n <= Rounding
    PROVE  City!ResolveCityStatus(TallyOf(n, without)) = "ready" <=> without = 0
<1> DEFINE tally == TallyOf(n, without)
           all == n * (n - 1)
<1>1. all \in Nat /\ all > 0 /\ all < 2 * City!Whole
  BY FewPairs
<1>2. /\ tally.expected = all /\ tally.ready = all
      /\ \A m \in City!Modes : tally.withMode[m] = all - IF m = "transit" THEN without ELSE 0
  BY DEF TallyOf
<1> HIDE DEF tally, all
<1>3. City!ResolveCityStatus(tally) = "ready"
        <=> \A m \in City!Modes :
              City!ToCoverage(all, all - IF m = "transit" THEN without ELSE 0) >= City!Whole
  BY <1>1, <1>2 DEF City!ResolveCityStatus
<1>4. without \in Nat /\ without <= all
  BY DEF all
<1>5. City!ToCoverage(all, all) >= City!Whole
  BY <1>1, WholeCoverage
<1>6. City!ToCoverage(all, all - without) >= City!Whole <=> without = 0
  <2>1. all - without \in Nat /\ all - without <= all
    BY <1>1, <1>4
  <2>2. all - without = all <=> without = 0
    BY <1>1, <1>4
  <2> QED BY <2>1, <2>2, <1>1, WholeCoverage
<1>7. /\ "transit" \in City!Modes
      /\ all - 0 = all
  BY <1>1 DEF City!Modes
<1> QED BY <1>3, <1>5, <1>6, <1>7 DEF tally

\* What the page says can be generated, the planner takes and covers.
LEMMA PlannerAgrees ==
    ASSUME NEW places, NEW rows, NEW province, NEW airports, NEW home, NEW selected,
           \A p \in places : /\ p.province # City!Anywhere
                             /\ p.anchors \subseteq City!AnchorsOf(p.kind)
                             /\ \A q \in places : p.id = q.id => p = q,
           City!CityPage(places, rows, province).canGenerate,
           City!CityPage(places, rows, province).issues = {},
           home \in IF province = City!Anywhere THEN {p.province : p \in places} ELSE {province},
           City!Hotels(places, home) # {},
           selected \in (SUBSET {p.id : p \in {q \in places :
                           q.kind # "hotel" /\ q.published /\ q.province = home}}) \ {{}}
    PROVE  /\ City!Refusal(selected, places, home) = "none"
           /\ RefusedForAirport(selected, places, airports, home)
           /\ City!CheckMatrixCoverage(selected, places, rows, home)
<1> DEFINE nodes == City!CityNodes(places, province)
           ids == City!Ids(nodes)
           chosen == City!PublishedPoints(selected, places)
           hotels == City!Hotels(places, home)
<1>1. /\ City!Covered(ids, City!EdgesIn("ready", ids, rows, province))
      /\ City!Issues(places, province) = {}
  BY DEF City!CityPage
<1>2. home # City!Anywhere /\ (province # City!Anywhere => home = province)
  BY DEF City!Hotels
<1>3. ASSUME NEW p \in places, p.published, p.province = home
      PROVE  p \in nodes /\ p.anchors = City!AnchorsOf(p.kind) /\ City!Located(p)
  <2>1. City!InProvince(p, province)
    BY <1>2, <1>3 DEF City!InProvince
  <2>2. \A a \in City!AnchorsOf(p.kind) : a \in p.anchors
    <3> SUFFICES ASSUME NEW a \in City!AnchorsOf(p.kind), a \notin p.anchors PROVE FALSE
      OBVIOUS
    <3>1. <<p.id, a>> \in City!Issues(places, province)
      BY <2>1, <1>3 DEF City!Issues
    <3> QED BY <3>1, <1>1
  <2>3. p.anchors = City!AnchorsOf(p.kind)
    BY <2>2
  <2>4. City!AnchorsOf(p.kind) # {}
    BY DEF City!AnchorsOf
  <2> QED BY <2>1, <2>3, <2>4, <1>3 DEF City!CityNodes, City!Located
<1>4. /\ \A p \in chosen : p \in places /\ p.published /\ p.province = home /\ p.kind # "hotel"
      /\ selected = City!Ids(chosen)
  <2>1. ASSUME NEW i \in selected
        PROVE  \E p \in places : p.id = i /\ p.kind # "hotel" /\ p.published /\ p.province = home
    OBVIOUS
  <2>2. ASSUME NEW p \in chosen
        PROVE  p \in places /\ p.published /\ p.province = home /\ p.kind # "hotel" /\ p.id \in selected
    <3>1. p \in places /\ p.kind # "hotel" /\ p.published /\ p.id \in selected
      BY DEF City!PublishedPoints
    <3>2. PICK q \in places : q.id = p.id /\ q.province = home
      BY <3>1, <2>1
    <3>3. p = q
      BY <3>1, <3>2
    <3> QED BY <3>1, <3>2, <3>3
  <2>3. selected \subseteq City!Ids(chosen)
    BY <2>1 DEF City!Ids, City!PublishedPoints
  <2>4. City!Ids(chosen) \subseteq selected
    BY <2>2 DEF City!Ids
  <2> QED BY <2>2, <2>3, <2>4
<1>5. City!TripProvince(chosen, home) = {home}
  BY <1>2 DEF City!TripProvince
<1>6. \A h \in hotels : h \in places /\ h.published /\ h.province = home
  BY DEF City!Hotels
<1>7. City!Refusal(selected, places, home) = "none"
  <2>1. selected # {}
    OBVIOUS
  <2>2. City!PointsSolverReady(chosen) /\ City!HotelsSolverReady(hotels)
    BY <1>3, <1>4, <1>6 DEF City!PointsSolverReady, City!HotelsSolverReady
  <2>3. City!PointsWithinProvince(chosen, home)
    BY <1>4 DEF City!PointsWithinProvince, City!InProvince
  <2>4. UNION {City!Hotels(places, h) : h \in {home}} = hotels
    OBVIOUS
  <2> HIDE DEF chosen, hotels
  <2> QED BY <2>1, <2>2, <2>3, <2>4, <1>4, <1>5 DEF City!Refusal, chosen, hotels
<1>8. City!CheckMatrixCoverage(selected, places, rows, home)
  <2> DEFINE wanted == selected \cup City!Ids(hotels)
  <2>1. wanted \subseteq ids
    BY <1>3, <1>4, <1>6 DEF City!Ids
  <2>2. \A e \in City!Pairs(wanted) : e \in City!Pairs(ids)
    BY <2>1 DEF City!Pairs
  <2>3. ASSUME NEW e \in City!Pairs(wanted), NEW d \in {e, <<e[2], e[1]>>},
               d \in City!EdgesIn("ready", ids, rows, province)
        PROVE  d \in City!ReadyEdges(wanted, rows)
    <3>1. d \in DOMAIN rows /\ rows[d].status = "ready"
      BY <2>3 DEF City!EdgesIn
    <3>2. d \in City!Pairs(wanted)
      BY DEF City!Pairs
    <3>3. City!InProvince(rows[d], City!Anywhere)
      BY DEF City!InProvince
    <3> QED BY <3>1, <3>2, <3>3 DEF City!ReadyEdges, City!EdgesIn
  <2>4. City!Covered(wanted, City!ReadyEdges(wanted, rows))
    <3>1. \A e \in City!Pairs(ids) :
            {e, <<e[2], e[1]>>} \cap City!EdgesIn("ready", ids, rows, province) # {}
      BY <1>1 DEF City!Covered
    <3>2. ASSUME NEW e \in City!Pairs(wanted)
          PROVE  {e, <<e[2], e[1]>>} \cap City!ReadyEdges(wanted, rows) # {}
      <4>1. PICK d \in {e, <<e[2], e[1]>>} : d \in City!EdgesIn("ready", ids, rows, province)
        BY <2>2, <3>1
      <4> QED BY <4>1, <2>3
    <3> QED BY <3>2 DEF City!Covered
  <2>5. UNION {City!Ids(City!Hotels(places, h)) : h \in {home}} = City!Ids(hotels)
    OBVIOUS
  <2> HIDE DEF chosen, hotels
  <2> QED BY <2>4, <2>5, <1>5 DEF City!CheckMatrixCoverage, chosen, hotels
<1>9. RefusedForAirport(selected, places, airports, home)
  <2>1. City!HasAirport(City!TripProvince(chosen, home), airports) <=> home \in airports
    BY <1>5 DEF City!HasAirport
  <2> QED BY <2>1, <1>7 DEF City!GenerationRefusal, RefusedForAirport
<1> QED BY <1>7, <1>8, <1>9

-----------------------------------------------------------------------------
(* What the solver is told of opening hours                                *)

\* A set of naturals that a natural bounds has a greatest member.
LEMMA GreatestOf ==
    ASSUME NEW S \in SUBSET Nat, S # {}, NEW b \in Nat, \A x \in S : x <= b
    PROVE  \E x \in S : \A y \in S : y <= x
<1> DEFINE gaps == {b - x : x \in S}
<1>1. gaps \in SUBSET Nat /\ gaps # {}
  <2>1. \A x \in S : b - x \in Nat
    OBVIOUS
  <2> QED BY <2>1
<1>2. PICK g \in gaps : \A h \in gaps : g <= h
  BY <1>1, Smallest
<1>3. PICK x \in S : g = b - x
  BY <1>2
<1>4. ASSUME NEW y \in S PROVE y <= x
  <2>1. b - y \in gaps
    OBVIOUS
  <2>2. b - x <= b - y
    BY <2>1, <1>2, <1>3
  <2> QED BY <2>2
<1> QED BY <1>4

RulesOfDay(rules) ==
    rules \in Seq([weekday : Int, periods : SUBSET [start : TimesOfDay, end : TimesOfDay]])

\* Each weekday opens by its last rule.
LastRules(hours, rules) ==
    /\ DOMAIN hours = {rules[i].weekday : i \in DOMAIN rules}
    /\ \A w \in DOMAIN hours : \E i \in DOMAIN rules :
          /\ rules[i].weekday = w /\ hours[w] = rules[i].periods
          /\ \A j \in i + 1..Len(rules) : rules[j].weekday # w

\* The hours that are stored are those of the last rule for each weekday.
LEMMA LastRuleOpens ==
    ASSUME NEW rules, RulesOfDay(rules), NEW hours, hours = Hours!NormalizeOpeningHours(rules)
    PROVE  LastRules(hours, rules)
<1>1. DOMAIN hours = {rules[i].weekday : i \in DOMAIN rules}
  BY DEF Hours!NormalizeOpeningHours
<1>2. Len(rules) \in Nat /\ DOMAIN rules = 1..Len(rules)
  BY DEF RulesOfDay
<1>3. ASSUME NEW w \in DOMAIN hours
      PROVE  \E i \in DOMAIN rules :
                /\ rules[i].weekday = w /\ hours[w] = rules[i].periods
                /\ \A j \in i + 1..Len(rules) : rules[j].weekday # w
  <2> DEFINE I == {i \in 1..Len(rules) : rules[i].weekday = w}
  <2>1. I # {} /\ I \in SUBSET Nat /\ \A i \in I : i <= Len(rules)
    BY <1>1, <1>2
  <2>2. \E i \in I : \A j \in I : i >= j
    <3>1. \E i \in I : \A j \in I : j <= i
      BY <2>1, <1>2, GreatestOf
    <3> QED BY <3>1
  <2>3. PICK i : i = Hours!Max(I) /\ i \in I /\ \A j \in I : i >= j
    BY <2>2 DEF Hours!Max
  <2>4. hours[w] = rules[i].periods
    <3>1. Hours!SelectLastInSeq(rules, LAMBDA rule : rule.weekday = w) = i
      BY <2>1, <2>3 DEF Hours!SelectLastInSeq
    <3> QED BY <3>1, <1>1 DEF Hours!NormalizeOpeningHours
  <2>5. \A j \in i + 1..Len(rules) : rules[j].weekday # w
    <3> SUFFICES ASSUME NEW j \in i + 1..Len(rules), rules[j].weekday = w PROVE FALSE
      OBVIOUS
    <3>1. j \in I /\ i \in Nat /\ j > i
      BY <1>2, <2>3
    <3> QED BY <3>1, <2>3
  <2> QED BY <1>2, <2>3, <2>4, <2>5
<1> QED BY <1>1, <1>3 DEF LastRules

\* What the solver is told of hours that were accepted.
SolverToldTrue(in) ==
    SolverHours(in) # <<>> =>
        LET rules == in.rules
            spot == SolverHours(in).spot
            shop == SolverHours(in).shop
        IN  /\ spot.lastEntry \in TimesOfDay
            /\ rules # <<>> => \E w \in DOMAIN spot.hours : \E p \in spot.hours[w] :
                                  spot.lastEntry <= p.end
            /\ \A i \in DOMAIN rules :
                 (\A j \in i + 1..Len(rules) : rules[j].weekday # rules[i].weekday)
                   => {spot.hours[rules[i].weekday], shop.hours[rules[i].weekday]}
                        = {rules[i].periods}
            /\ Hours!QueueAccepted(Hours!NormalizeQueueProfile(in.queue))
            /\ \A k \in DOMAIN in.queue :
                 in.queue[k] # Hours!None => spot.queue[k] = in.queue[k]

\* Hours close, and not at midnight.
ClosingTimes == 1..1439
ClosesByDay(hours) ==
    Hours!Closings(hours) # {} /\ \A t \in Hours!Closings(hours) : t \in ClosingTimes

\* A day's closings have a latest.
LEMMA LatestIsLatest ==
    ASSUME NEW hours, ClosesByDay(hours)
    PROVE  /\ Hours!LatestClosingTime(hours) \in Hours!Closings(hours)
           /\ \A u \in Hours!Closings(hours) : u <= Hours!LatestClosingTime(hours)
<1>1. PICK ends, b : ends = Hours!Closings(hours) /\ b = 1439
  OBVIOUS
<1>2. b \in Nat /\ ends \in SUBSET Nat /\ ends # {} /\ \A x \in ends : x <= b
  <2>1. ends # {} /\ \A x \in ends : x \in ClosingTimes
    BY <1>1, Zenon DEF ClosesByDay
  <2>2. b \in Nat /\ \A x \in ClosingTimes : x \in Nat /\ x <= b
    BY <1>1 DEF ClosingTimes
  <2> QED BY <2>1, <2>2, Zenon
<1>3. \E t \in ends : \A u \in ends : u <= t
  BY <1>2, GreatestOf, Zenon
<1>4. Hours!LatestClosingTime(hours) = CHOOSE t \in ends : \A u \in ends : u <= t
  BY <1>1, Zenon DEF Hours!LatestClosingTime
<1>5. /\ Hours!LatestClosingTime(hours) \in ends
      /\ \A u \in ends : u <= Hours!LatestClosingTime(hours)
  BY <1>3, <1>4, Zenon
<1> QED BY <1>1, <1>5, Zenon

\* The last entry that is told lies in the day, and not after the latest closing.
LEMMA LastEntryIsEarly ==
    ASSUME NEW hours, NEW entry \in TimesOfDay \cup {Hours!None},
           ClosesByDay(hours)
    PROVE  /\ Hours!ResolveSpotLastEntry(hours, entry) \in TimesOfDay
           /\ entry # Hours!None => Hours!ResolveSpotLastEntry(hours, entry) = entry
           /\ entry = Hours!None => \E t \in Hours!Closings(hours) :
                                        Hours!ResolveSpotLastEntry(hours, entry) <= t
<1>1. PICK latest : latest = Hours!LatestClosingTime(hours)
  OBVIOUS
<1>2. latest \in Hours!Closings(hours) /\ latest \in ClosingTimes
  BY <1>1, LatestIsLatest DEF ClosesByDay, ClosingTimes
<1>3. Hours!ResolveSpotLastEntry(hours, entry)
        = IF entry # Hours!None THEN entry ELSE IF latest > 60 THEN latest - 60 ELSE 0
  BY <1>1 DEF Hours!ResolveSpotLastEntry
<1>4. CASE entry # Hours!None
  BY <1>3, <1>4
<1>5. CASE entry = Hours!None
  <2>1. Hours!ResolveSpotLastEntry(hours, entry) = IF latest > 60 THEN latest - 60 ELSE 0
    BY <1>3, <1>5
  <2>2. latest \in 1..1439
    BY <1>2 DEF ClosingTimes
  <2>3. PICK told : told = IF latest > 60 THEN latest - 60 ELSE 0
    OBVIOUS
  <2>4. told \in 0..1439 /\ told <= latest
    BY <2>2, <2>3
  <2> QED BY <1>2, <1>5, <2>1, <2>3, <2>4 DEF TimesOfDay
<1> QED BY <1>4, <1>5

\* The hours of accepted rules close, and where there are rules, by them.
LEMMA HoursClose ==
    ASSUME NEW rules, RulesOfDay(rules),
           Hours!Acceptable(rules), NEW stored, stored = Hours!NormalizeOpeningHours(rules),
           NEW hours, hours = Hours!ResolveSpotOpeningHours(stored)
    PROVE  /\ ClosesByDay(hours)
           /\ \A t \in Hours!Closings(hours) :
                 \E w \in DOMAIN hours : \E p \in hours[w] : t = p.end
           /\ rules # <<>> => /\ hours = stored
                              /\ Hours!ResolveShoppingOpeningHours(stored) = stored
<1>1. /\ DOMAIN stored = {rules[i].weekday : i \in DOMAIN rules}
      /\ \A w \in DOMAIN stored : \E i \in DOMAIN rules : stored[w] = rules[i].periods
  <2>1. LastRules(stored, rules)
    BY LastRuleOpens
  <2> QED BY <2>1, Zenon DEF LastRules
<1>2. \A t : t \in Hours!Closings(hours)
                <=> \E w \in DOMAIN hours : \E p \in hours[w] : t = p.end
  BY DEF Hours!Closings
<1>3. rules = <<>> <=> DOMAIN stored = {}
  <2>1. rules = <<>> <=> DOMAIN rules = {}
    BY DEF RulesOfDay
  <2> QED BY <1>1, <2>1, Zenon
<1>4. CASE rules = <<>>
  <2>1. hours = [w \in 0..6 |-> {[start |-> 540, end |-> 1080]}]
    BY <1>3, <1>4 DEF Hours!ResolveSpotOpeningHours, Hours!Uniform, Hours!Weekdays, Hours!Period
  <2>2. \A w \in DOMAIN hours : \A p \in hours[w] : p.end = 1080
    BY <2>1
  <2>3. 0 \in DOMAIN hours /\ [start |-> 540, end |-> 1080] \in hours[0]
    BY <2>1
  <2>4. Hours!Closings(hours) # {}
    BY <2>3, <1>2
  <2>5. \A t \in Hours!Closings(hours) : t \in ClosingTimes
    <3> SUFFICES ASSUME NEW t \in Hours!Closings(hours) PROVE t \in ClosingTimes
      OBVIOUS
    <3>1. PICK w \in DOMAIN hours : \E p \in hours[w] : t = p.end
      BY <1>2
    <3>2. PICK p \in hours[w] : t = p.end
      BY <3>1
    <3> QED BY <3>2, <2>2 DEF ClosingTimes
  <2> QED BY <1>2, <1>4, <2>4, <2>5 DEF ClosesByDay
<1>5. CASE rules # <<>>
  <2>1. hours = stored /\ Hours!ResolveShoppingOpeningHours(stored) = stored
    BY <1>3, <1>5 DEF Hours!ResolveSpotOpeningHours, Hours!ResolveShoppingOpeningHours
  <2>2. ASSUME NEW w \in DOMAIN stored
        PROVE  /\ stored[w] # {}
               /\ \A p \in stored[w] : p.end \in ClosingTimes
    <3>1. PICK i \in DOMAIN rules : stored[w] = rules[i].periods
      BY <1>1
    <3>2. /\ rules[i].periods # {}
          /\ \A p \in rules[i].periods : p.start < p.end
      BY Zenon DEF Hours!Acceptable
    <3>3. rules[i].periods \in SUBSET [start : TimesOfDay, end : TimesOfDay]
      <4>1. rules[i] \in [weekday : Int, periods : SUBSET [start : TimesOfDay, end : TimesOfDay]]
        <5>1. PICK R : R = [weekday : Int, periods : SUBSET [start : TimesOfDay, end : TimesOfDay]]
          OBVIOUS
        <5>2. rules \in Seq(R)
          BY <5>1, Zenon DEF RulesOfDay
        <5>3. rules[i] \in R
          BY <5>2
        <5> QED BY <5>1, <5>3, Zenon
      <4> QED BY <4>1
    <3>4. ASSUME NEW p \in rules[i].periods PROVE p.end \in ClosingTimes
      <4>1. PICK s, e : s = p.start /\ e = p.end
        OBVIOUS
      <4>2. s \in 0..1439 /\ e \in 0..1439
        BY <3>3, <4>1 DEF TimesOfDay
      <4>3. s < e
        BY <3>2, <4>1, Zenon
      <4>4. e \in 1..1439
        BY <4>2, <4>3
      <4> QED BY <4>1, <4>4 DEF ClosingTimes
    <3> QED BY <3>1, <3>2, <3>4
  <2>3. Hours!Closings(hours) # {}
    <3>1. PICK w : w \in DOMAIN stored
      BY <1>3, <1>5
    <3>2. PICK p : p \in stored[w]
      BY <3>1, <2>2
    <3>3. p.end \in Hours!Closings(hours)
      BY <3>1, <3>2, <2>1, <1>2
    <3> QED BY <3>3
  <2>4. \A t \in Hours!Closings(hours) : t \in ClosingTimes
    <3> SUFFICES ASSUME NEW t \in Hours!Closings(hours) PROVE t \in ClosingTimes
      OBVIOUS
    <3>1. PICK w \in DOMAIN hours : \E p \in hours[w] : t = p.end
      BY <1>2
    <3>2. PICK p \in hours[w] : t = p.end
      BY <3>1
    <3> QED BY <3>2, <2>1, <2>2
  <2> QED BY <1>2, <2>1, <2>3, <2>4 DEF ClosesByDay
<1> QED BY <1>4, <1>5

\* The solver is told the hours of accepted rules and a last entry within them.
LEMMA HoursReachSolver ==
    ASSUME NEW in, HourInput(in)
    PROVE  SolverToldTrue(in)
<1> SUFFICES ASSUME SolverHours(in) # <<>> PROVE SolverToldTrue(in)
  BY DEF SolverToldTrue
<1>1. PICK rules, lastEntry, queue, spot, shop, stored :
        /\ rules = in.rules /\ lastEntry = in.lastEntry /\ queue = in.queue
        /\ spot = SolverHours(in).spot /\ shop = SolverHours(in).shop
        /\ stored = Hours!NormalizeOpeningHours(rules)
  OBVIOUS
<1>2. /\ Hours!PlanningMetadataValid(rules, lastEntry)
      /\ Hours!QueueAccepted(queue)
      /\ spot = Hours!SolverSpot(rules, lastEntry, queue)
      /\ shop = Hours!SolverShopping(rules)
  BY <1>1 DEF SolverHours
<1>3. /\ RulesOfDay(rules)
      /\ lastEntry \in TimesOfDay \cup {Hours!None}
  BY <1>1 DEF HourInput, RulesOfDay
<1>4. Hours!Acceptable(rules)
  BY <1>2 DEF Hours!PlanningMetadataValid
<1>5. /\ spot.hours = Hours!ResolveSpotOpeningHours(stored)
      /\ spot.lastEntry = Hours!ResolveSpotLastEntry(spot.hours, lastEntry)
      /\ spot.queue = Hours!NormalizeQueueProfile(Hours!NormalizeQueueProfile(queue))
      /\ shop.hours = Hours!ResolveShoppingOpeningHours(stored)
  BY <1>1, <1>2 DEF Hours!SolverSpot, Hours!SolverShopping
<1>6. PICK hours : hours = spot.hours
  OBVIOUS
<1>7. /\ ClosesByDay(hours)
      /\ \A t \in Hours!Closings(hours) :
            \E w \in DOMAIN hours : \E p \in hours[w] : t = p.end
      /\ rules # <<>> => /\ hours = stored
                         /\ Hours!ResolveShoppingOpeningHours(stored) = stored
  BY <1>1, <1>3, <1>4, <1>5, <1>6, HoursClose
<1>8. PICK entry : entry = spot.lastEntry
  OBVIOUS
<1>9. /\ entry \in TimesOfDay
      /\ lastEntry # Hours!None => entry = lastEntry
      /\ lastEntry = Hours!None => \E t \in Hours!Closings(hours) : entry <= t
  BY <1>3, <1>5, <1>6, <1>7, <1>8, LastEntryIsEarly
<1>10. ASSUME rules # <<>>
       PROVE  \E w \in DOMAIN hours : \E p \in hours[w] : entry <= p.end
  <2>1. \E t \in Hours!Closings(hours) : entry <= t
    <3>1. CASE lastEntry = Hours!None
      BY <3>1, <1>9
    <3>2. CASE lastEntry # Hours!None
      <4>1. Hours!LatestClosingTime(hours) \in Hours!Closings(hours)
        BY <1>7, LatestIsLatest
      <4>2. lastEntry <= Hours!LatestClosingTime(hours)
        <5>1. hours = Hours!NormalizeOpeningHours(rules) /\ Hours!Closings(hours) # {}
          BY <1>1, <1>7, <1>10, Zenon DEF ClosesByDay
        <5> QED BY <3>2, <5>1, <1>2, Zenon DEF Hours!PlanningMetadataValid
      <4> QED BY <4>1, <4>2, <3>2, <1>9
    <3> QED BY <3>1, <3>2
  <2> QED BY <2>1, <1>7
<1>11. ASSUME NEW i \in DOMAIN rules,
              \A j \in i + 1..Len(rules) : rules[j].weekday # rules[i].weekday
       PROVE  {spot.hours[rules[i].weekday], shop.hours[rules[i].weekday]} = {rules[i].periods}
  <2>1. Len(rules) \in Nat /\ DOMAIN rules = 1..Len(rules) /\ i \in 1..Len(rules)
    BY <1>3 DEF RulesOfDay
  <2>2. spot.hours = stored /\ shop.hours = stored
    BY <1>5, <1>6, <1>7, <2>1
  <2>3. PICK k \in DOMAIN rules : /\ rules[k].weekday = rules[i].weekday
                                  /\ stored[rules[i].weekday] = rules[k].periods
                                  /\ \A j \in k + 1..Len(rules) : rules[j].weekday # rules[i].weekday
    <3>1. LastRules(stored, rules)
      BY <1>1, <1>3, LastRuleOpens, Zenon
    <3> QED BY <3>1, Zenon DEF LastRules
  <2>4. ~ (k < i) /\ ~ (i < k)
    <3>1. k < i => i \in k + 1..Len(rules)
      BY <2>1
    <3>2. i < k => k \in i + 1..Len(rules)
      BY <2>1
    <3> QED BY <3>1, <3>2, <2>3, <1>11
  <2>5. k = i
    BY <2>1, <2>4
  <2> QED BY <2>2, <2>3, <2>5
<1>12. Hours!QueueAccepted(Hours!NormalizeQueueProfile(queue))
  BY <1>2 DEF Hours!QueueAccepted, Hours!NormalizeQueueProfile
<1>13. ASSUME NEW k \in DOMAIN queue, queue[k] # Hours!None
       PROVE  spot.queue[k] = queue[k]
  BY <1>5, <1>13 DEF Hours!NormalizeQueueProfile
<1> QED
  BY <1>1, <1>6, <1>8, <1>9, <1>10, <1>11, <1>12, <1>13, Zenon DEF SolverToldTrue

-----------------------------------------------------------------------------
(* Names and files of locations                                            *)

\* A name that is given in every language hides whatever was stored.
LEMMA GivenHideStored ==
    ASSUME NEW current, NEW incoming, NEW fallback,
           \A l \in Csv!Languages : incoming[l] # ""
    PROVE  Csv!MergeName(current, incoming, fallback)
             = Csv!MergeName(Csv!NoNames, incoming, fallback)
<1>1. "en-US" \in Csv!Languages
  BY DEF Csv!Languages
<1>2. \A l \in Csv!Languages : \A b : Csv!Or(incoming[l], b) = incoming[l]
  BY DEF Csv!Or
<1>3. \A now : Csv!MergeName(now, incoming, fallback) = [l \in Csv!Languages |-> incoming[l]]
  BY <1>1, <1>2 DEF Csv!MergeName
<1> QED BY <1>3

\* An import names a place in every language.
LEMMA ParsedInAll ==
    ASSUME NEW cells, NEW fallback, fallback # "" \/ cells["en-US"] # ""
    PROVE  \A l \in Csv!Languages : Csv!ParseName(cells, fallback)[l] # ""
BY DEF Csv!ParseName, Csv!Or

\* A merged name is there in every language.
LEMMA MergedInAll ==
    ASSUME NEW current, NEW incoming, NEW fallback, fallback # ""
    PROVE  \A l \in Csv!Languages : Csv!MergeName(current, incoming, fallback)[l] # ""
BY DEF Csv!MergeName, Csv!Or

\* So is a province's, made of its region's and the suffix.
LEMMA ProvinceInAll ==
    ASSUME NEW region, NEW suffix, NEW incoming, suffix # ""
    PROVE  \A l \in Csv!Languages : Csv!Province(region, suffix, incoming).names[l] # ""
<1>1. PICK fallback, merged, base :
        /\ fallback = Csv!Or(region["en-US"], suffix)
        /\ base = Csv!MergeName(Csv!SameIn(fallback), region, fallback)
        /\ merged = Csv!MergeName(base, incoming, Csv!Or(base["en-US"], fallback))
  OBVIOUS
<1>2. Csv!Province(region, suffix, incoming).names = merged
  BY <1>1 DEF Csv!Province
<1>3. fallback # ""
  BY <1>1 DEF Csv!Or
<1>4. Csv!Or(base["en-US"], fallback) # ""
  BY <1>3 DEF Csv!Or
<1> QED BY <1>1, <1>2, <1>4, MergedInAll

NamesOfFile(in) == Csv!Stored(in.current, in) = Csv!Stored(Csv!NoNames, in)

\* The names of a line with a code are those of the file, whatever was stored.
LEMMA NamesAreOfFile ==
    ASSUME NEW in, NameInput(in)
    PROVE  NamesOfFile(in)
<1>1. PICK names : names = Csv!RowNames(in)
  OBVIOUS
<1>2. PICK own : names.province = Csv!Province(in.region, in.suffix, own).names
  BY <1>1 DEF Csv!RowNames
<1>3. \A l \in Csv!Languages : names.province[l] # ""
  BY <1>2, ProvinceInAll DEF NameInput
<1>4. \A l \in Csv!Languages : names.airport[l] # ""
  <2>1. names.airport = Csv!ParseName(in.names, Csv!Or(in.name, in.code))
    BY <1>1 DEF Csv!RowNames
  <2>2. Csv!Or(in.name, in.code) # ""
    BY DEF Csv!Or, NameInput
  <2> QED BY <2>1, <2>2, ParsedInAll
<1>5. \A l \in Csv!Languages : names.city[l] # ""
  <2>1. CASE in.municipality = ""
    <3>1. names.city = names.province
      BY <2>1, <1>1 DEF Csv!RowNames
    <3> QED BY <3>1, <1>3
  <2>2. CASE in.municipality # ""
    <3>1. names.city = Csv!ParseName(in.cityNames, in.municipality)
      BY <2>2, <1>1 DEF Csv!RowNames
    <3> QED BY <3>1, <2>2, ParsedInAll
  <2> QED BY <2>1, <2>2
<1>6. \A fallback :
        /\ Csv!MergeName(in.current, names.airport, fallback)
             = Csv!MergeName(Csv!NoNames, names.airport, fallback)
        /\ Csv!MergeName(in.current, names.province, fallback)
             = Csv!MergeName(Csv!NoNames, names.province, fallback)
        /\ Csv!MergeName(in.current, names.city, fallback)
             = Csv!MergeName(Csv!NoNames, names.city, fallback)
  BY <1>3, <1>4, <1>5, GivenHideStored
<1> QED BY <1>1, <1>6 DEF Csv!Stored, NamesOfFile

\* The cell of a column that is there is the line's under its first header.
LEMMA ColumnIsRead ==
    ASSUME NEW in, FileInput(in), NEW key \in Csv!Codes(in.header)
    PROVE  Csv!At(Line(in), in.header, key) = CellOf(in.dataset, key, in.facts)
<1>1. PICK header, n : header = in.header /\ n = Len(header)
  OBVIOUS
<1>2. header \in Seq(Published[in.dataset]) /\ n \in Nat /\ DOMAIN header = 1..n
  <2>1. PICK columns : columns = Published[in.dataset]
    OBVIOUS
  <2>2. header \in Seq(columns)
    BY <1>1, <2>1, Zenon DEF FileInput
  <2> QED BY <1>1, <2>1, <2>2
<1>3. PICK I : I = {i \in 1..n : header[i] = key}
  OBVIOUS
<1>4. I \in SUBSET Nat /\ I # {}
  BY <1>1, <1>2, <1>3 DEF Csv!Codes
<1>5. PICK first : first \in I /\ first = Csv!Min(I)
  <2>1. \E x \in I : \A y \in I : x <= y
    BY <1>4, Smallest
  <2> QED BY <2>1 DEF Csv!Min
<1>6. Csv!PickIndex(header, <<key>>) = first
  <2>1. {k \in DOMAIN <<key>> : <<key>>[k] \in Csv!Codes(header)} = {1}
    BY <1>1
  <2>2. Csv!Min({1}) = 1
    BY DEF Csv!Min
  <2>3. <<key>>[1] = key /\ {1} # {}
    OBVIOUS
  <2>4. PICK keys, found : keys = <<key>> /\ found = {k \in DOMAIN keys : keys[k] \in Csv!Codes(header)}
    OBVIOUS
  <2>5. found # {} /\ keys[Csv!Min(found)] = key
    BY <2>1, <2>2, <2>3, <2>4, Zenon
  <2>6. {i \in 1..Len(header) : header[i] = keys[Csv!Min(found)]} = I
    BY <2>5, <1>1, <1>3
  <2>7. Csv!PickIndex(header, keys) = Csv!Min({i \in 1..Len(header) : header[i] = keys[Csv!Min(found)]})
    BY <2>4, <2>5, <2>6, <1>4 DEF Csv!PickIndex, Csv!SelectInSeq
  <2> QED BY <2>4, <2>6, <2>7, <1>5, Zenon
<1>7. first \in 1..n /\ header[first] = key
  BY <1>3, <1>5
<1>8. Len(Line(in)) = n /\ Line(in)[first] = CellOf(in.dataset, key, in.facts)
  BY <1>1, <1>2, <1>7 DEF Line
<1> QED BY <1>1, <1>2, <1>6, <1>7, <1>8 DEF Csv!At

\* A cell whose two letters are those of a covered country reads as they do.
LEMMA CoveredIsText ==
    ASSUME NEW cell, Csv!CountryCode(cell) \in Csv!Allowed
    PROVE  cell.text \in {"CN", "MN"} /\ cell.form = "two letters"
BY DEF Csv!CountryCode, Csv!Allowed

\* What an import makes of the line of a file.
FileIsTold(in) ==
    LET told == Csv!Import("auto", in.header, <<Line(in)>>)
    IN  ~told.refused => /\ told.dataset = in.dataset
                         /\ told.fate[1] = "row" => in.facts.country.text \in {"CN", "MN"}

\* A file that is not refused is taken for the dataset its header is of.
LEMMA FileIsToldApart ==
    ASSUME NEW in, FileInput(in)
    PROVE  FileIsTold(in)
<1>1. PICK told, dataset, codes : 
        /\ told = Csv!Import("auto", in.header, <<Line(in)>>)
        /\ dataset = Csv!Detect("auto", in.header) /\ codes = Csv!Codes(in.header)
  OBVIOUS
<1> SUFFICES ASSUME ~told.refused
             PROVE  dataset = in.dataset /\ in.facts.country.text \in {"CN", "MN"}
                    /\ told.dataset = dataset
  BY <1>1, Zenon DEF FileIsTold
<1>2. /\ dataset # "unknown" /\ Csv!Needed(dataset) \subseteq codes
      /\ told.dataset = dataset
      /\ Csv!Parse(dataset, Line(in), in.header) = "row"
  BY <1>1 DEF Csv!Import
<1>3. /\ dataset \in {"airports", "regions", "countries"}
      /\ dataset = "airports" => {"iatacode", "isocountry", "isoregion"} \subseteq codes
      /\ dataset = "regions" => {"code", "name", "isocountry", "localcode"} \subseteq codes
      /\ dataset = "countries" => {"code", "name", "continent"} \subseteq codes
      /\ dataset = "countries" => ~({"code", "name", "isocountry", "localcode"} \subseteq codes)
  BY <1>1, <1>2 DEF Csv!Detect
<1>4. codes \subseteq Published[in.dataset]
  <2>1. PICK columns : columns = Published[in.dataset]
    OBVIOUS
  <2>2. in.header \in Seq(columns)
    BY <2>1, Zenon DEF FileInput
  <2>3. codes \subseteq columns
    BY <1>1, <2>2 DEF Csv!Codes
  <2> QED BY <2>1, <2>3
<1>5. \A key \in codes : Csv!At(Line(in), in.header, key) = CellOf(in.dataset, key, in.facts)
  BY <1>1, ColumnIsRead
<1>6. CASE in.dataset = "countries"
  <2>1. dataset = "countries"
    BY <1>3, <1>4, <1>6 DEF Published
  <2>2. Csv!CountryCode(Csv!At(Line(in), in.header, "code")) \in Csv!Allowed
    BY <1>2, <2>1 DEF Csv!Parse, Csv!ParseCountry
  <2>3. Csv!At(Line(in), in.header, "code") = in.facts.country
    BY <1>3, <1>5, <1>6, <2>1 DEF CellOf
  <2> QED BY <1>2, <1>6, <2>1, <2>2, <2>3, CoveredIsText
<1>7. CASE in.dataset = "regions"
  <2>1. dataset \in {"regions", "countries"}
    BY <1>3, <1>4, <1>7 DEF Published
  <2>2. dataset # "countries"
    <3> SUFFICES ASSUME dataset = "countries" PROVE FALSE
      OBVIOUS
    <3>1. Csv!CountryCode(Csv!At(Line(in), in.header, "code")) \in Csv!Allowed
      BY <1>2 DEF Csv!Parse, Csv!ParseCountry
    <3>2. Csv!At(Line(in), in.header, "code") = in.facts.code
      BY <1>3, <1>5, <1>7 DEF CellOf
    <3>3. in.facts.code.form # "two letters"
      BY <1>7 DEF FileInput
    <3> QED BY <3>1, <3>2, <3>3, CoveredIsText
  <2>3. Csv!CountryCode(Csv!At(Line(in), in.header, "isocountry")) \in Csv!Allowed
    BY <1>2, <2>1, <2>2 DEF Csv!Parse, Csv!ParseRegion
  <2>4. Csv!At(Line(in), in.header, "isocountry") = in.facts.country
    BY <1>3, <1>5, <2>1, <2>2 DEF CellOf
  <2> QED BY <1>2, <1>7, <2>1, <2>2, <2>3, <2>4, CoveredIsText
<1>8. CASE in.dataset = "airports"
  <2>1. dataset = "airports"
    BY <1>3, <1>4, <1>8 DEF Published
  <2>2. Csv!CountryCode(Csv!At(Line(in), in.header, "isocountry")) \in Csv!Allowed
    BY <1>2, <2>1 DEF Csv!Parse, Csv!ParseAirport, Csv!InScope
  <2>3. Csv!At(Line(in), in.header, "isocountry") = in.facts.country
    BY <1>3, <1>5, <2>1 DEF CellOf
  <2> QED BY <1>2, <1>8, <2>1, <2>2, <2>3, CoveredIsText
<1>9. in.dataset \in {"countries", "regions", "airports"}
  BY DEF FileInput, Published
<1> QED BY <1>6, <1>7, <1>8, <1>9

-----------------------------------------------------------------------------
(* Induction over the numbers up to n, and functions defined by recursion  *)

\* Induction up to n, over the set of the numbers that something holds of.
LEMMA UpTo ==
    ASSUME NEW n \in Nat, NEW P, 0 \in P, \A i \in 1..n : i - 1 \in P => i \in P
    PROVE  \A i \in 0..n : i \in P
<1> SUFFICES ASSUME NEW k \in 0..n, k \notin P PROVE FALSE
  OBVIOUS
<1>1. PICK B : B = {i \in 0..n : i \notin P}
  OBVIOUS
<1>2. B \in SUBSET Nat /\ B # {}
  BY <1>1
<1>3. PICK i \in B : \A j \in B : i <= j
  BY <1>2, Smallest
<1>4. i \in 0..n /\ i \notin P /\ i # 0
  BY <1>1, <1>3
<1>5. i \in 1..n /\ i - 1 \in 0..n /\ ~ (i <= i - 1)
  BY <1>4
<1>6. i - 1 \notin B
  BY <1>3, <1>5
<1>7. i - 1 \in P
  BY <1>1, <1>5, <1>6
<1> QED BY <1>4, <1>5, <1>7

\* Steps that stay in a set can be taken one after the other.
FoldOf(f, n, init, step) == f[0] = init /\ \A i \in 1..n : f[i] = step[<<i, f[i - 1]>>]

\* Such a function exists.
LEMMA FoldsExist ==
    ASSUME NEW n \in Nat, NEW X, NEW init \in X, NEW step \in [(1..n) \X X -> X]
    PROVE  \E f \in [0..n -> X] : FoldOf(f, n, init, step)
<1>1. PICK P : P = {k \in 0..n : \E f \in [0..k -> X] : FoldOf(f, k, init, step)}
  OBVIOUS
<1>2. 0 \in P
  <2>1. PICK f : f = [i \in 0..0 |-> init]
    OBVIOUS
  <2>2. f \in [0..0 -> X] /\ f[0] = init /\ 0 \in 0..n
    BY <2>1
  <2>3. FoldOf(f, 0, init, step)
    BY <2>2 DEF FoldOf
  <2> QED BY <1>1, <2>2, <2>3
<1>3. ASSUME NEW k \in 1..n, k - 1 \in P PROVE k \in P
  <2>1. PICK h \in [0..(k - 1) -> X] : FoldOf(h, k - 1, init, step)
    BY <1>1, <1>3
  <2>2. PICK f : f = [i \in 0..k |-> IF i = k THEN step[<<k, h[k - 1]>>] ELSE h[i]]
    OBVIOUS
  <2>3. k \in Nat /\ k - 1 \in 0..(k - 1) /\ h[k - 1] \in X
    OBVIOUS
  <2>4. step[<<k, h[k - 1]>>] \in X
    BY <2>3
  <2>5. \A i \in 0..(k - 1) : i \in 0..k /\ i # k /\ f[i] = h[i]
    BY <2>2, <2>3
  <2>6. f[k] = step[<<k, h[k - 1]>>]
    BY <2>2, <2>3
  <2>7. f \in [0..k -> X]
    <3>1. \A i \in 0..k : (IF i = k THEN step[<<k, h[k - 1]>>] ELSE h[i]) \in X
      BY <2>3, <2>4
    <3> QED BY <2>2, <3>1
  <2>8. f[0] = init
    <3>1. 0 \in 0..(k - 1)
      BY <2>3
    <3> QED BY <3>1, <2>1, <2>5 DEF FoldOf
  <2>9. ASSUME NEW i \in 1..k PROVE f[i] = step[<<i, f[i - 1]>>]
    <3>1. CASE i = k
      BY <3>1, <2>3, <2>5, <2>6
    <3>2. CASE i # k
      <4>1. i \in 1..(k - 1) /\ i \in 0..(k - 1) /\ i - 1 \in 0..(k - 1)
        BY <2>3, <3>2
      <4>2. h[i] = step[<<i, h[i - 1]>>]
        BY <4>1, <2>1 DEF FoldOf
      <4> QED BY <4>1, <4>2, <2>5
    <3> QED BY <3>1, <3>2
  <2>10. FoldOf(f, k, init, step)
    BY <2>8, <2>9 DEF FoldOf
  <2> QED BY <1>1, <2>7, <2>10
<1>4. n \in P
  <2>1. \A i \in 0..n : i \in P
    BY <1>2, <1>3, UpTo
  <2> QED BY <2>1
<1> QED BY <1>1, <1>4

RangeOf(s) == {s[i] : i \in DOMAIN s}

\* What two sequences joined contain.
LEMMA JoinedRange ==
    ASSUME NEW T, NEW s \in Seq(T), NEW t \in Seq(T)
    PROVE  s \o t \in Seq(T) /\ RangeOf(s \o t) = RangeOf(s) \cup RangeOf(t)
<1>1. s \o t \in Seq(T)
  OBVIOUS
<1>2. /\ Len(s) \in Nat /\ Len(t) \in Nat /\ Len(s \o t) = Len(s) + Len(t)
      /\ DOMAIN s = 1..Len(s) /\ DOMAIN t = 1..Len(t) /\ DOMAIN (s \o t) = 1..(Len(s) + Len(t))
      /\ \A i \in 1..(Len(s) + Len(t)) :
            (s \o t)[i] = IF i <= Len(s) THEN s[i] ELSE t[i - Len(s)]
  OBVIOUS
<1>3. PICK u, m, n : u = s \o t /\ m = Len(s) /\ n = Len(t)
  OBVIOUS
<1>4. /\ m \in Nat /\ n \in Nat /\ DOMAIN s = 1..m /\ DOMAIN t = 1..n /\ DOMAIN u = 1..(m + n)
      /\ \A i \in 1..(m + n) : u[i] = IF i <= m THEN s[i] ELSE t[i - m]
  BY <1>2, <1>3
<1>5. ASSUME NEW x \in RangeOf(u) PROVE x \in RangeOf(s) \cup RangeOf(t)
  <2>1. PICK i \in 1..(m + n) : x = u[i]
    BY <1>4 DEF RangeOf
  <2>2. CASE i <= m
    <3>1. i \in 1..m /\ x = s[i]
      BY <1>4, <2>1, <2>2
    <3> QED BY <1>4, <3>1 DEF RangeOf
  <2>3. CASE ~ (i <= m)
    <3>1. i - m \in 1..n /\ x = t[i - m]
      BY <1>4, <2>1, <2>3
    <3> QED BY <1>4, <3>1 DEF RangeOf
  <2> QED BY <2>2, <2>3
<1>6. ASSUME NEW x \in RangeOf(s) PROVE x \in RangeOf(u)
  <2>1. PICK i \in 1..m : x = s[i]
    BY <1>4 DEF RangeOf
  <2>2. i \in 1..(m + n) /\ u[i] = s[i]
    BY <1>4
  <2> QED BY <1>4, <2>1, <2>2 DEF RangeOf
<1>7. ASSUME NEW x \in RangeOf(t) PROVE x \in RangeOf(u)
  <2>1. PICK i \in 1..n : x = t[i]
    BY <1>4 DEF RangeOf
  <2>2. m + i \in 1..(m + n) /\ ~ (m + i <= m) /\ (m + i) - m = i
    BY <1>4
  <2>3. u[m + i] = t[i]
    BY <1>4, <2>2
  <2> QED BY <1>4, <2>1, <2>2, <2>3 DEF RangeOf
<1> QED BY <1>1, <1>3, <1>5, <1>6, <1>7

\* EdgeFigures says what a sequence contains as SequencesExt does.
LEMMA EdgeRange == ASSUME NEW s PROVE Figures!Range(s) = RangeOf(s)
BY DEF Figures!Range, RangeOf

-----------------------------------------------------------------------------
(* The names a city is asked about by                                      *)

Usable(n) == ~Figures!Blank(n) /\ Figures!Supported(n)
Splits(n) == n.suffixed /\ n.base # ""
Heard(N) == {n \in N : Usable(n)} \cup {Figures!Bare(n) : n \in {m \in N : Usable(m) /\ Splits(m)}}

\* What one name adds to the list of the names before it.
Adds(list, n) == IF Figures!Blank(n) \/ ~Figures!Supported(n) THEN <<>>
                 ELSE Figures!Unseen(list, n) \o Figures!UnseenBare(list, n)

Brings(list, more, T, N) ==
    more \in Seq(T) /\ RangeOf(list) \cup RangeOf(more) = RangeOf(list) \cup N

\* A name not yet in the list is added to it.
LEMMA UnseenIs ==
    ASSUME NEW T, NEW list \in Seq(T), NEW n \in T
    PROVE  Brings(list, Figures!Unseen(list, n), T, {n})
<1>1. CASE n \in RangeOf(list)
  <2>1. Figures!Unseen(list, n) = <<>>
    BY <1>1, EdgeRange DEF Figures!Unseen
  <2>2. RangeOf(<<>>) = {}
    BY DEF RangeOf
  <2> QED BY <1>1, <2>1, <2>2 DEF Brings
<1>2. CASE n \notin RangeOf(list)
  <2>1. Figures!Unseen(list, n) = <<n>>
    BY <1>2, EdgeRange DEF Figures!Unseen
  <2>2. RangeOf(<<n>>) = {n}
    BY DEF RangeOf
  <2> QED BY <2>1, <2>2 DEF Brings
<1> QED BY <1>1, <1>2

\* So is the name without its suffix.
LEMMA UnseenBareIs ==
    ASSUME NEW T, NEW list \in Seq(T), NEW n, Figures!Bare(n) \in T
    PROVE  Brings(list, Figures!UnseenBare(list, n), T, IF Splits(n) THEN {Figures!Bare(n)} ELSE {})
<1>1. CASE Splits(n)
  <2>1. PICK bare : bare = Figures!Bare(n)
    OBVIOUS
  <2>2. Figures!UnseenBare(list, n) = Figures!Unseen(list, bare)
    BY <1>1, <2>1 DEF Figures!UnseenBare, Splits
  <2>3. Brings(list, Figures!Unseen(list, bare), T, {bare})
    BY <2>1, UnseenIs
  <2> QED BY <1>1, <2>1, <2>2, <2>3
<1>2. CASE ~Splits(n)
  <2>1. Figures!UnseenBare(list, n) = <<>>
    BY <1>2 DEF Figures!UnseenBare, Splits
  <2>2. RangeOf(<<>>) = {}
    BY DEF RangeOf
  <2> QED BY <1>2, <2>1, <2>2 DEF Brings
<1> QED BY <1>1, <1>2

\* Both of them, for a name that may be known.
LEMMA AddsAre ==
    ASSUME NEW T, NEW list \in Seq(T), NEW n \in T, Figures!Bare(n) \in T
    PROVE  /\ list \o Adds(list, n) \in Seq(T)
           /\ RangeOf(list \o Adds(list, n)) = RangeOf(list) \cup Heard({n})
<1>1. PICK a, b : a = Figures!Unseen(list, n) /\ b = Figures!UnseenBare(list, n)
  OBVIOUS
<1>2. /\ a \in Seq(T) /\ b \in Seq(T)
      /\ RangeOf(list) \cup RangeOf(a) = RangeOf(list) \cup {n}
      /\ RangeOf(list) \cup RangeOf(b) = RangeOf(list) \cup IF Splits(n) THEN {Figures!Bare(n)} ELSE {}
  <2>1. Brings(list, a, T, {n})
    BY <1>1, UnseenIs
  <2>2. Brings(list, b, T, IF Splits(n) THEN {Figures!Bare(n)} ELSE {})
    BY <1>1, UnseenBareIs
  <2> QED BY <2>1, <2>2, Zenon DEF Brings
<1>3. CASE Usable(n)
  <2>1. Adds(list, n) = a \o b
    BY <1>1, <1>3 DEF Adds, Usable
  <2>2. PICK c : c = a \o b
    OBVIOUS
  <2>3. c \in Seq(T) /\ RangeOf(c) = RangeOf(a) \cup RangeOf(b)
    BY <1>2, <2>2, JoinedRange
  <2>4. /\ list \o c \in Seq(T)
        /\ RangeOf(list \o c) = RangeOf(list) \cup RangeOf(c)
    BY <2>3, JoinedRange
  <2>5. Heard({n}) = {n} \cup IF Splits(n) THEN {Figures!Bare(n)} ELSE {}
    BY <1>3 DEF Heard
  <2> QED BY <1>2, <2>1, <2>2, <2>3, <2>4, <2>5
<1>4. CASE ~Usable(n)
  <2>1. Adds(list, n) = <<>>
    BY <1>4 DEF Adds, Usable
  <2>2. Heard({n}) = {}
    BY <1>4 DEF Heard
  <2>3. list \o <<>> = list
    OBVIOUS
  <2> QED BY <2>1, <2>2, <2>3
<1> QED BY <1>3, <1>4

Collects(list, names) ==
    list = [n \in 0..Len(names) |->
              IF n = 0 THEN <<>>
              ELSE list[n - 1] \o IF Figures!Blank(names[n]) \/ ~Figures!Supported(names[n]) THEN <<>>
                                  ELSE Figures!Unseen(list[n - 1], names[n])
                                         \o Figures!UnseenBare(list[n - 1], names[n])]

WithBare(S) == S \cup {Figures!Bare(n) : n \in S}

\* The list that buildTransitCityCandidates collects exists.
LEMMA CollectsExists ==
    ASSUME NEW S, NEW names \in Seq(S)
    PROVE  \E list : Collects(list, names)
<1>0. PICK n \in Nat : n = Len(names)
  OBVIOUS
<1>1. PICK T : n = Len(names) /\ T = WithBare(S)
  BY <1>0
<1>2. \A i \in 1..n : names[i] \in T /\ Figures!Bare(names[i]) \in T
  <2>1. \A i \in 1..n : names[i] \in S
    BY <1>1
  <2> QED BY <1>1, <2>1 DEF WithBare
<1>3. PICK X, step : X = Seq(T) /\ step = [p \in (1..n) \X X |-> p[2] \o Adds(p[2], names[p[1]])]
  OBVIOUS
<1>4. \A i \in 1..n : \A l \in X : step[<<i, l>>] = l \o Adds(l, names[i]) /\ step[<<i, l>>] \in X
  <2> SUFFICES ASSUME NEW i \in 1..n, NEW l \in X
               PROVE  step[<<i, l>>] = l \o Adds(l, names[i]) /\ step[<<i, l>>] \in X
    OBVIOUS
  <2>1. l \o Adds(l, names[i]) \in X
    BY <1>2, <1>3, AddsAre
  <2>2. <<i, l>> \in (1..n) \X X /\ <<i, l>>[1] = i /\ <<i, l>>[2] = l
    OBVIOUS
  <2>3. step[<<i, l>>] = l \o Adds(l, names[i])
    BY <1>3, <2>2
  <2> QED BY <2>1, <2>3
<1>5. step \in [(1..n) \X X -> X]
  <2>1. \A p \in (1..n) \X X : step[p] \in X
    BY <1>4
  <2> QED BY <1>3, <2>1
<1>6. <<>> \in X
  BY <1>3
<1>7. PICK f \in [0..n -> X] : FoldOf(f, n, <<>>, step)
  BY <1>1, <1>5, <1>6, FoldsExist
<1>8. \A i \in 0..n : f[i] = IF i = 0 THEN <<>> ELSE f[i - 1] \o Adds(f[i - 1], names[i])
  <2> SUFFICES ASSUME NEW i \in 0..n, i # 0
               PROVE  f[i] = f[i - 1] \o Adds(f[i - 1], names[i])
    BY <1>7 DEF FoldOf
  <2>1. i \in 1..n /\ i - 1 \in 0..n
    BY <1>1
  <2>2. f[i - 1] \in X
    BY <2>1, <1>7
  <2> QED BY <2>1, <2>2, <1>4, <1>7 DEF FoldOf
<1>9. f = [i \in 0..n |-> f[i]]
  BY <1>7
<1> QED BY <1>1, <1>8, <1>9 DEF Collects, Adds

Hears(list, T, N) == list \in Seq(T) /\ RangeOf(list) = Heard(N)

\* It contains the names that may be known, with the suffix and without.
LEMMA CandidatesAre ==
    ASSUME NEW S, NEW names \in Seq(S)
    PROVE  /\ Figures!CityCandidates(names) \in Seq(WithBare(S))
           /\ RangeOf(Figures!CityCandidates(names)) = Heard(RangeOf(names))
<1>1. PICK g : g = CHOOSE list : Collects(list, names)
  OBVIOUS
<1>2. Collects(g, names)
  BY <1>1, CollectsExists
<1>3. Figures!CityCandidates(names) = g[Len(names)]
  BY <1>1 DEF Figures!CityCandidates, Collects
<1>0. PICK n \in Nat : n = Len(names)
  OBVIOUS
<1>4. PICK T : n = Len(names) /\ T = WithBare(S)
  BY <1>0
<1>5. g[0] = <<>> /\ \A i \in 1..n : g[i] = g[i - 1] \o Adds(g[i - 1], names[i])
  <2>1. g = [i \in 0..n |-> IF i = 0 THEN <<>> ELSE g[i - 1] \o Adds(g[i - 1], names[i])]
    BY <1>2, <1>4, Zenon DEF Collects, Adds
  <2>2. 0 \in 0..n
    BY <1>0
  <2>3. g[0] = <<>>
    BY <2>1, <2>2, Zenon
  <2>4. ASSUME NEW i \in 1..n PROVE g[i] = g[i - 1] \o Adds(g[i - 1], names[i])
    <3>1. i \in 0..n /\ i # 0
      BY <1>0
    <3> QED BY <2>1, <3>1, Zenon
  <2> QED BY <2>3, <2>4
<1>6. \A i \in 1..n : names[i] \in T /\ Figures!Bare(names[i]) \in T
  <2>1. \A i \in 1..n : names[i] \in S
    BY <1>4
  <2> QED BY <1>4, <2>1 DEF WithBare
<1>7. PICK P, N : /\ N = [i \in 0..n |-> {names[j] : j \in 1..i}]
                  /\ P = {i \in 0..n : Hears(g[i], T, N[i])}
  OBVIOUS
<1>8. 0 \in P
  <2>1. N[0] = {} /\ 0 \in 0..n
    BY <1>4, <1>7
  <2>2. Heard({}) = {} /\ RangeOf(<<>>) = {}
    BY DEF Heard, RangeOf
  <2>3. g[0] = <<>> /\ <<>> \in Seq(T)
    BY <1>5
  <2>4. Hears(g[0], T, {})
    BY <2>2, <2>3, Zenon DEF Hears
  <2> QED BY <1>7, <2>1, <2>4
<1>9. ASSUME NEW i \in 1..n, i - 1 \in P PROVE i \in P
  <2>1. i \in 0..n /\ i - 1 \in 0..n
    BY <1>4
  <2>2. PICK l, name : l = g[i - 1] /\ name = names[i]
    OBVIOUS
  <2>3. l \in Seq(T) /\ RangeOf(l) = Heard(N[i - 1])
    BY <1>7, <1>9, <2>2 DEF Hears
  <2>4. name \in T /\ Figures!Bare(name) \in T /\ g[i] = l \o Adds(l, name)
    BY <2>2, <1>5, <1>6
  <2>5. l \o Adds(l, name) \in Seq(T) /\ RangeOf(l \o Adds(l, name)) = RangeOf(l) \cup Heard({name})
    BY <2>3, <2>4, AddsAre
  <2>6. N[i] = N[i - 1] \cup {name}
    <3>1. \A j : j \in 1..i <=> j \in 1..(i - 1) \/ j = i
      BY <1>4
    <3> QED BY <3>1, <1>7, <2>1, <2>2
  <2>7. Heard(N[i - 1] \cup {name}) = Heard(N[i - 1]) \cup Heard({name})
    BY DEF Heard
  <2>8. Hears(g[i], T, N[i])
    <3>1. g[i] \in Seq(T)
      BY <2>4, <2>5
    <3>2. RangeOf(g[i]) = Heard(N[i])
      BY <2>3, <2>4, <2>5, <2>6, <2>7
    <3> QED BY <3>1, <3>2 DEF Hears
  <2> QED BY <1>7, <2>1, <2>8
<1>10. n \in P
  <2>1. \A i \in 0..n : i \in P
    BY <1>4, <1>8, <1>9, UpTo
  <2> QED BY <1>4, <2>1
<1>11. N[n] = RangeOf(names)
  BY <1>4, <1>7 DEF RangeOf
<1> QED BY <1>3, <1>4, <1>7, <1>10, <1>11 DEF Hears

NameSet == [base : STRING, script : STRING, suffixed : BOOLEAN]

\* A name without its suffix has none to take off.
LEMMA BareFacts ==
    ASSUME NEW n, IsName(n)
    PROVE  /\ IsName(Figures!Bare(n)) /\ ~Splits(Figures!Bare(n))
           /\ ~n.suffixed => Figures!Bare(n) = n
           /\ n.suffixed => Usable(n) /\ ~Figures!Blank(n)
BY DEF IsName, Figures!Bare, Splits, Usable, Figures!Blank, Figures!Supported

\* The names of a place: those that are not blank, and split.
Placed(N) == {n \in N : ~Figures!Blank(n)}
               \cup {Figures!Bare(n) : n \in {m \in N : ~Figures!Blank(m) /\ Splits(m)}}
Puts(list, n) == IF Figures!Blank(n) \/ n \in Figures!Range(list) THEN <<>>
                 ELSE <<n>> \o Figures!UnseenBare(list, n)

HasPlaced(list, N) == list \in Seq(NameSet) /\ RangeOf(list) = Placed(N)

\* What one name adds to the candidates of a place.
LEMMA PutsAre ==
    ASSUME NEW list, NEW N, N \subseteq NameSet, HasPlaced(list, N), NEW n, n \in NameSet
    PROVE  HasPlaced(list \o Puts(list, n), N \cup {n})
<1> USE DEF HasPlaced
<1>1. IsName(n) /\ Figures!Bare(n) \in NameSet
  <2>1. IsName(n)
    BY DEF IsName, NameSet
  <2>2. IsName(Figures!Bare(n))
    BY <2>1, BareFacts
  <2> QED BY <2>1, <2>2 DEF IsName, NameSet
<1>2. \A A, B : Placed(A \cup B) = Placed(A) \cup Placed(B)
  BY DEF Placed
<1>3. CASE Figures!Blank(n) \/ n \in RangeOf(list)
  <2>1. Puts(list, n) = <<>> /\ list \o <<>> = list
    <3>1. Puts(list, n) = <<>>
      BY <1>3, EdgeRange DEF Puts
    <3>2. list \o <<>> = list
      OBVIOUS
    <3> QED BY <3>1, <3>2
  <2>2. Placed({n}) \subseteq Placed(N)
    <3>1. CASE Figures!Blank(n)
      BY <3>1 DEF Placed
    <3>2. CASE n \in N /\ ~Figures!Blank(n)
      BY <3>2 DEF Placed
    <3>3. CASE n \in RangeOf(list) /\ n \notin N
      <4>1. PICK m \in N : n = Figures!Bare(m)
        BY <3>3 DEF Placed
      <4>2. ~Splits(n)
        <5>1. IsName(m)
          BY <4>1 DEF IsName, NameSet
        <5> QED BY <4>1, <5>1, BareFacts
      <4> QED BY <3>3, <4>2 DEF Placed
    <3> QED BY <3>1, <3>2, <3>3, <1>3
  <2>3. list \o Puts(list, n) = list
    BY <2>1
  <2>4. Placed(N \cup {n}) = Placed(N)
    <3>1. Placed(N \cup {n}) = Placed(N) \cup Placed({n})
      BY <1>2, Zenon
    <3> QED BY <2>2, <3>1
  <2> QED BY <2>3, <2>4
<1>4. CASE ~(Figures!Blank(n) \/ n \in RangeOf(list))
  <2>1. PICK b, c : b = Figures!UnseenBare(list, n) /\ c = <<n>> \o b
    OBVIOUS
  <2>2. Puts(list, n) = c
    BY <1>4, <2>1, EdgeRange DEF Puts
  <2>3. Brings(list, b, NameSet, IF Splits(n) THEN {Figures!Bare(n)} ELSE {})
    BY <1>1, <2>1, UnseenBareIs
  <2>4. PICK one : one = <<n>>
    OBVIOUS
  <2>5. one \in Seq(NameSet) /\ RangeOf(one) = {n}
    BY <2>4 DEF RangeOf
  <2>6. c \in Seq(NameSet) /\ RangeOf(c) = {n} \cup RangeOf(b)
    <3>1. b \in Seq(NameSet)
      BY <2>3, Zenon DEF Brings
    <3>2. one \o b \in Seq(NameSet) /\ RangeOf(one \o b) = RangeOf(one) \cup RangeOf(b)
      BY <2>5, <3>1, JoinedRange
    <3> QED BY <2>1, <2>4, <2>5, <3>2
  <2>7. list \o c \in Seq(NameSet) /\ RangeOf(list \o c) = RangeOf(list) \cup RangeOf(c)
    BY <2>6, JoinedRange
  <2>8. Placed({n}) = {n} \cup IF Splits(n) THEN {Figures!Bare(n)} ELSE {}
    BY <1>4 DEF Placed
  <2>9. RangeOf(list) \cup RangeOf(b) = RangeOf(list) \cup IF Splits(n) THEN {Figures!Bare(n)} ELSE {}
    BY <2>3, Zenon DEF Brings
  <2> QED BY <1>2, <2>2, <2>6, <2>7, <2>8, <2>9
<1> QED BY <1>3, <1>4

Places4(list, names) ==
    list = [n \in 0..4 |->
              IF n = 0 THEN <<>>
              ELSE list[n - 1] \o IF Figures!Blank(names[n]) \/ names[n] \in Figures!Range(list[n - 1])
                                  THEN <<>>
                                  ELSE <<names[n]>> \o Figures!UnseenBare(list[n - 1], names[n])]

\* The candidates of a place exist.
LEMMA PlacesExist ==
    ASSUME NEW names PROVE \E list : Places4(list, names)
<1>0. PICK m1, m2, m3, m4 : /\ m1 = <<>> \o Puts(<<>>, names[1]) /\ m2 = m1 \o Puts(m1, names[2])
                           /\ m3 = m2 \o Puts(m2, names[3]) /\ m4 = m3 \o Puts(m3, names[4])
  OBVIOUS
<1>1. PICK f : /\ f = [n \in 0..4 |-> f[n]]
               /\ f[0] = <<>> /\ f[1] = m1 /\ f[2] = m2 /\ f[3] = m3 /\ f[4] = m4
  <2> DEFINE h == [n \in 0..4 |-> IF n = 0 THEN <<>> ELSE IF n = 1 THEN m1 ELSE IF n = 2 THEN m2
                                   ELSE IF n = 3 THEN m3 ELSE m4]
  <2>1. h[0] = <<>> /\ h[1] = m1 /\ h[2] = m2 /\ h[3] = m3 /\ h[4] = m4
    OBVIOUS
  <2>2. h = [n \in 0..4 |-> h[n]]
    OBVIOUS
  <2> HIDE DEF h
  <2> QED BY <2>1, <2>2
<1>2. \A n \in 0..4 : f[n] = IF n = 0 THEN <<>> ELSE f[n - 1] \o Puts(f[n - 1], names[n])
  <2> SUFFICES ASSUME NEW n \in 0..4
               PROVE  f[n] = IF n = 0 THEN <<>> ELSE f[n - 1] \o Puts(f[n - 1], names[n])
    OBVIOUS
  <2>1. n = 0 \/ n = 1 \/ n = 2 \/ n = 3 \/ n = 4
    OBVIOUS
  <2>2. /\ f[1] = f[0] \o Puts(f[0], names[1]) /\ f[2] = f[1] \o Puts(f[1], names[2])
        /\ f[3] = f[2] \o Puts(f[2], names[3]) /\ f[4] = f[3] \o Puts(f[3], names[4])
    BY <1>0, <1>1, Zenon
  <2>3. 1 - 1 = 0 /\ 2 - 1 = 1 /\ 3 - 1 = 2 /\ 4 - 1 = 3 /\ 1 # 0 /\ 2 # 0 /\ 3 # 0 /\ 4 # 0
    OBVIOUS
  <2>4. CASE n = 0
    BY <1>1, <2>4
  <2>5. CASE n = 1
    BY <2>2, <2>3, <2>5
  <2>6. CASE n = 2
    BY <2>2, <2>3, <2>6
  <2>7. CASE n = 3
    BY <2>2, <2>3, <2>7
  <2>8. CASE n = 4
    BY <2>2, <2>3, <2>8
  <2> QED BY <2>1, <2>4, <2>5, <2>6, <2>7, <2>8
<1>3. f = [n \in 0..4 |-> IF n = 0 THEN <<>> ELSE f[n - 1] \o Puts(f[n - 1], names[n])]
  BY <1>1, <1>2
<1>4. Places4(f, names)
  BY <1>3 DEF Places4, Puts
<1> QED BY <1>4

\* They are the two names of the place, with the suffix and without.
LEMMA PlaceNames ==
    ASSUME NEW a, NEW b, IsName(a), IsName(b)
    PROVE  HasPlaced(Figures!PlaceCandidates(a, a, b, b), {a, b})
<1>1. PICK names : names = <<a, a, b, b>>
  OBVIOUS
<1>2. PICK g : g = CHOOSE list : Places4(list, names)
  OBVIOUS
<1>3. Places4(g, names)
  BY <1>2, PlacesExist
<1>4. Figures!PlaceCandidates(a, a, b, b) = g[4]
  BY <1>1, <1>2 DEF Figures!PlaceCandidates, Places4
<1>5. \A n \in 0..4 : g[n] = IF n = 0 THEN <<>> ELSE g[n - 1] \o Puts(g[n - 1], names[n])
  BY <1>3 DEF Places4, Puts
<1>6. PICK l0, l1, l2, l3, l4 : l0 = g[0] /\ l1 = g[1] /\ l2 = g[2] /\ l3 = g[3] /\ l4 = g[4]
  OBVIOUS
<1>7. names[1] = a /\ names[2] = a /\ names[3] = b /\ names[4] = b
  BY <1>1
<1>8. /\ g[0] = <<>> /\ g[1] = g[1 - 1] \o Puts(g[1 - 1], names[1])
      /\ g[2] = g[2 - 1] \o Puts(g[2 - 1], names[2])
      /\ g[3] = g[3 - 1] \o Puts(g[3 - 1], names[3])
      /\ g[4] = g[4 - 1] \o Puts(g[4 - 1], names[4])
  <2>1. /\ 0 \in 0..4 /\ 1 \in 0..4 /\ 2 \in 0..4 /\ 3 \in 0..4 /\ 4 \in 0..4
        /\ 1 # 0 /\ 2 # 0 /\ 3 # 0 /\ 4 # 0
    OBVIOUS
  <2> QED BY <2>1, <1>5, Zenon
<1>9. 1 - 1 = 0 /\ 2 - 1 = 1 /\ 3 - 1 = 2 /\ 4 - 1 = 3
  OBVIOUS
<1>10. /\ l0 = <<>> /\ l1 = l0 \o Puts(l0, a) /\ l2 = l1 \o Puts(l1, a)
       /\ l3 = l2 \o Puts(l2, b) /\ l4 = l3 \o Puts(l3, b)
  BY <1>6, <1>7, <1>8, <1>9, Zenon
<1>11. a \in NameSet /\ b \in NameSet
  BY DEF IsName, NameSet
<1>12. HasPlaced(l0, {})
  <2>1. RangeOf(<<>>) = {} /\ Placed({}) = {}
    BY DEF RangeOf, Placed
  <2>2. <<>> \in Seq(NameSet)
    OBVIOUS
  <2>3. l0 = <<>>
    BY <1>10
  <2> QED BY <2>1, <2>2, <2>3, Zenon DEF HasPlaced
<1>13. HasPlaced(l1, {a})
  <2>1. HasPlaced(l1, {} \cup {a})
    BY <1>10, <1>11, <1>12, PutsAre
  <2> QED BY <2>1
<1>14. HasPlaced(l2, {a})
  <2>1. HasPlaced(l2, {a} \cup {a})
    BY <1>10, <1>11, <1>13, PutsAre
  <2> QED BY <2>1
<1>15. HasPlaced(l3, {a, b})
  <2>1. HasPlaced(l3, {a} \cup {b})
    BY <1>10, <1>11, <1>14, PutsAre
  <2> QED BY <2>1
<1>16. HasPlaced(l4, {a, b})
  <2>1. HasPlaced(l4, {a, b} \cup {b})
    BY <1>10, <1>11, <1>15, PutsAre
  <2> QED BY <2>1
<1> QED BY <1>4, <1>6, <1>16

\* What is heard of a place's names, twice gone through, is what is asked.
Given(a, b) == {n \in {a, b} : Usable(n)}
Shortened(a, b) == {Figures!Bare(n) : n \in {m \in {a, b} : Splits(m)}}

\* Collected from all these, the names are those given and the shortened ones.
LEMMA HeardOnce ==
    ASSUME NEW a, NEW b, IsName(a), IsName(b), NEW N,
           N = Placed({a, b}) \cup {a} \/ N = Given(a, b) \cup Shortened(a, b)
    PROVE  Heard(N) = Given(a, b) \cup Shortened(a, b)
<1>1. PICK G, B : G = Given(a, b) /\ B = Shortened(a, b)
  OBVIOUS
<1>2. \A n \in {a, b} : Splits(n) => Usable(n) /\ ~Figures!Blank(n) /\ Figures!Bare(n) \in B
  BY <1>1, BareFacts DEF Splits, Shortened
<1>3. \A n \in B : ~Splits(n)
  BY <1>1, BareFacts DEF Shortened
<1>4. \A n \in N : n \in {a, b} \/ n \in B
  BY <1>1 DEF Placed, Given, Shortened
<1>5. \A n \in G : n \in N
  BY <1>1 DEF Given, Placed, Usable
<1>6. \A n \in B : \E m \in {a, b} : Splits(m) /\ n = Figures!Bare(m) /\ m \in N /\ Usable(m)
  BY <1>1, <1>2, <1>5 DEF Shortened, Given
<1>7. \A n \in {a, b} : n \in G <=> Usable(n)
  BY <1>1 DEF Given
<1>8. ASSUME NEW x \in Heard(N) PROVE x \in G \cup B
  <2>1. CASE x \in N /\ Usable(x)
    BY <2>1, <1>4, <1>7
  <2>2. CASE \E n \in N : Usable(n) /\ Splits(n) /\ x = Figures!Bare(n)
    BY <2>2, <1>2, <1>3, <1>4
  <2> QED BY <2>1, <2>2 DEF Heard
<1>9. ASSUME NEW x \in G \cup B PROVE x \in Heard(N)
  <2>1. CASE x \in G
    <3>1. x \in N /\ Usable(x)
      BY <2>1, <1>1, <1>5 DEF Given
    <3> QED BY <3>1 DEF Heard
  <2>2. CASE x \in B
    <3>1. \E n \in N : Usable(n) /\ Splits(n) /\ x = Figures!Bare(n)
      BY <2>2, <1>6
    <3> QED BY <3>1 DEF Heard
  <2> QED BY <2>1, <2>2
<1> QED BY <1>1, <1>8, <1>9

\* The names a city is to be asked about by, in these terms.
LEMMA AskedIs ==
    ASSUME NEW names, IsName(names[1]), IsName(names[2])
    PROVE  LET N == Given(names[1], names[2]) \cup Shortened(names[1], names[2])
           IN  Asked(names) = IF N = {} THEN {NoCity} ELSE N
<1>1. PICK a, b, G, B, bare :
        /\ a = names[1] /\ b = names[2] /\ G = Given(a, b) /\ B = Shortened(a, b)
        /\ bare = {[n EXCEPT !.suffixed = FALSE] : n \in {m \in G : m.base # ""}}
  OBVIOUS
<1>2. Asked(names) = IF G = {} THEN {NoCity} ELSE G \cup bare
  BY <1>1 DEF Asked, Given, Usable
<1>3. \A n : Figures!Bare(n) = [n EXCEPT !.suffixed = FALSE]
  BY DEF Figures!Bare
<1>4. \A n \in {a, b} : Splits(n) => n \in G /\ n.base # ""
  BY <1>1, BareFacts DEF Splits, Given
<1>5. \A n \in B : \E m \in G : n = Figures!Bare(m) /\ m.base # ""
  BY <1>1, <1>4 DEF Shortened
<1>6. \A n \in B : n \in bare
  BY <1>1, <1>3, <1>5
<1>7. ASSUME NEW x \in bare PROVE x \in G \cup B
  <2>1. PICK n \in G : n.base # "" /\ x = Figures!Bare(n)
    BY <1>1, <1>3, <1>7
  <2>2. n \in {a, b} /\ IsName(n)
    BY <1>1, <2>1 DEF Given
  <2>3. CASE n.suffixed
    BY <1>1, <2>1, <2>2, <2>3 DEF Splits, Shortened
  <2>4. CASE ~n.suffixed
    BY <2>1, <2>2, <2>4, BareFacts
  <2> QED BY <2>3, <2>4
<1>8. G = {} => B = {}
  BY <1>5
<1>9. G \cup bare = G \cup B
  BY <1>6, <1>7
<1> QED BY <1>1, <1>2, <1>8, <1>9

\* The questions the provider is asked of a place.
ListOf(names) == Figures!CityCandidates(Append(
                   Figures!PlaceCandidates(names[1], names[1], names[2], names[2]), names[1]))
Questions(names) == LET cities == Figures!CityCandidates(ListOf(names))
                    IN  IF cities = <<>> THEN <<Figures!Name("", "none", FALSE)>> ELSE cities

\* The provider is asked by just these names.
LEMMA QuestionsAre ==
    ASSUME NEW names, IsName(names[1]), IsName(names[2])
    PROVE  /\ RangeOf(Questions(names)) = Asked(names)
           /\ \E n \in Nat : DOMAIN Questions(names) = 1..n
<1>1. PICK a, b, places, N : /\ a = names[1] /\ b = names[2] /\ places = Figures!PlaceCandidates(a, a, b, b)
                             /\ N = Given(a, b) \cup Shortened(a, b)
  OBVIOUS
<1>2. places \in Seq(NameSet) /\ RangeOf(places) = Placed({a, b})
  BY <1>1, PlaceNames DEF HasPlaced
<1>3. PICK first : first = Append(places, a)
  OBVIOUS
<1>4. first \in Seq(NameSet) /\ RangeOf(first) = Placed({a, b}) \cup {a}
  <2>1. PICK one : one = <<a>>
    OBVIOUS
  <2>2. one \in Seq(NameSet) /\ RangeOf(one) = {a}
    BY <1>1, <2>1 DEF RangeOf, IsName, NameSet
  <2>3. places \o one \in Seq(NameSet) /\ RangeOf(places \o one) = RangeOf(places) \cup RangeOf(one)
    BY <1>2, <2>2, JoinedRange
  <2>4. first = places \o one
    BY <1>2, <1>3, <2>1
  <2> QED BY <1>2, <2>2, <2>3, <2>4
<1>5. ListOf(names) \in Seq(WithBare(NameSet)) /\ RangeOf(ListOf(names)) = N
  <2>1. /\ Figures!CityCandidates(first) \in Seq(WithBare(NameSet))
        /\ RangeOf(Figures!CityCandidates(first)) = Heard(RangeOf(first))
    BY <1>4, CandidatesAre
  <2>2. Heard(RangeOf(first)) = N
    BY <1>1, <1>4, HeardOnce
  <2>3. ListOf(names) = Figures!CityCandidates(first)
    BY <1>1, <1>3 DEF ListOf
  <2> QED BY <2>1, <2>2, <2>3
<1>6. PICK cities : cities = Figures!CityCandidates(ListOf(names))
  OBVIOUS
<1>7. cities \in Seq(WithBare(WithBare(NameSet))) /\ RangeOf(cities) = N
  <2>1. /\ cities \in Seq(WithBare(WithBare(NameSet)))
        /\ RangeOf(cities) = Heard(RangeOf(ListOf(names)))
    BY <1>5, <1>6, CandidatesAre
  <2>2. Heard(N) = N
    BY <1>1, HeardOnce
  <2> QED BY <2>1, <2>2, <1>5
<1>8. Asked(names) = IF N = {} THEN {NoCity} ELSE N
  BY <1>1, AskedIs
<1>9. cities = <<>> <=> N = {}
  BY <1>7 DEF RangeOf
<1>10. CASE cities = <<>>
  <2>1. Questions(names) = <<NoCity>>
    BY <1>6, <1>10 DEF Questions, NoCity
  <2>2. RangeOf(<<NoCity>>) = {NoCity} /\ DOMAIN <<NoCity>> = 1..1 /\ 1 \in Nat
    BY DEF RangeOf
  <2>3. RangeOf(Questions(names)) = {NoCity} /\ DOMAIN Questions(names) = 1..1
    BY <2>1, <2>2
  <2> QED BY <2>2, <2>3, <1>8, <1>9, <1>10
<1>11. CASE cities # <<>>
  <2>1. Questions(names) = cities
    BY <1>6, <1>11 DEF Questions
  <2>2. Len(cities) \in Nat /\ DOMAIN cities = 1..Len(cities)
    BY <1>7
  <2> QED BY <2>1, <2>2, <1>7, <1>8, <1>9, <1>11
<1> QED BY <1>10, <1>11

\* What the answer about a city is worth.
Worth(answer) ==
    IF answer.kind # "ok" THEN Figures!NoTransit
    ELSE IF answer.rows = <<>> THEN [Figures!NoTransit EXCEPT !.noRoute = TRUE]
    ELSE Figures!TransitOf(answer.rows[1])
Heeded(known, reply, names) == IF known \in Asked(names) THEN reply ELSE Thrown

TransitAnswer(names, known, reply) ==
    Figures!FetchTransitDirections(TRUE,
        Figures!PlaceCandidates(names[1], names[1], names[2], names[2]), names[1],
        <<Says(known, reply)>>)[1]

NamesFine(names) == IsName(names[1]) /\ IsName(names[2]) /\ Asked(names) \subseteq Known

\* What is answered is the reply, if the city is known by a name asked about.
LEMMA TransitIsWorth ==
    ASSUME NEW names, NamesFine(names), NEW known, known \in Known, NEW reply, IsReply(reply)
    PROVE  TransitAnswer(names, known, reply) = Worth(Heeded(known, reply, names))
<1>1. PICK says, questions, answered :
        /\ says = Says(known, reply) /\ questions = Questions(names)
        /\ answered = {i \in DOMAIN questions : says[questions[i]].kind \notin {"thrown", "refused"}}
  OBVIOUS
<1>2. RangeOf(questions) = Asked(names) /\ \E n \in Nat : DOMAIN questions = 1..n
  BY <1>1, QuestionsAre, Zenon DEF NamesFine
<1>0. reply.kind \in {"thrown", "refused", "ok"}
  BY Zenon DEF IsReply
<1>3. \A i \in DOMAIN questions : /\ questions[i] \in Known /\ questions[i] \in Asked(names)
                                  /\ says[questions[i]] = IF questions[i] = known THEN reply ELSE Refused
  BY <1>1, <1>2 DEF RangeOf, Says, NamesFine
<1>4. Refused.kind = "refused" /\ Thrown.kind = "thrown"
  BY DEF Refused, Thrown, Figures!Reply
<1>5. Figures!TransitDirection(ListOf(names), says)
        = IF answered = {} THEN Figures!NoTransit
          ELSE LET answer == says[questions[Figures!Min(answered)]]
               IN  IF answer.rows = <<>> THEN [Figures!NoTransit EXCEPT !.noRoute = TRUE]
                   ELSE Figures!TransitOf(answer.rows[1])
  BY <1>1, Zenon DEF Figures!TransitDirection, Questions
<1>6. TransitAnswer(names, known, reply) = Figures!TransitDirection(ListOf(names), says)
  BY <1>1 DEF TransitAnswer, Figures!FetchTransitDirections, Figures!TransitDirections, ListOf
<1>7. CASE known \in Asked(names) /\ reply.kind = "ok"
  <2>1. PICK j \in DOMAIN questions : questions[j] = known
    BY <1>2, <1>7 DEF RangeOf
  <2>2. answered \in SUBSET Nat /\ answered # {}
    BY <1>1, <1>2, <1>3, <1>7, <2>1
  <2>3. PICK i : i = Figures!Min(answered) /\ i \in answered
    <3>1. \E x \in answered : \A y \in answered : x <= y
      BY <2>2, Smallest
    <3> QED BY <3>1 DEF Figures!Min
  <2>4. says[questions[i]] = reply
    BY <1>1, <1>3, <1>4, <2>3
  <2>5. Heeded(known, reply, names) = reply
    BY <1>7 DEF Heeded
  <2> QED BY <1>1, <1>5, <1>6, <1>7, <2>2, <2>3, <2>4, <2>5 DEF Worth
<1>8. CASE ~(known \in Asked(names) /\ reply.kind = "ok")
  <2>1. answered = {}
    BY <1>0, <1>1, <1>3, <1>4, <1>8
  <2>2. Heeded(known, reply, names).kind # "ok"
    BY <1>4, <1>8 DEF Heeded
  <2> QED BY <1>1, <1>5, <1>6, <2>1, <2>2 DEF Worth
<1> QED BY <1>7, <1>8

-----------------------------------------------------------------------------
(* Figures and rows of an edge                                             *)

MinuteFigures == {Figures!None} \cup (Nat \ {0})
MeterFigures == {Figures!None} \cup Nat

\* The larger of two whole numbers is one of them, and neither is larger.
LEMMA LargerOf ==
    ASSUME NEW k \in Nat, NEW x \in Int
    PROVE  Figures!Max({k, x}) \in Nat /\ Figures!Max({k, x}) >= k
<1>1. \E m \in {k, x} : \A y \in {k, x} : m >= y
  <2>1. CASE k >= x
    BY <2>1
  <2>2. CASE ~ (k >= x)
    BY <2>2
  <2> QED BY <2>1, <2>2
<1>2. Figures!Max({k, x}) \in {k, x} /\ \A y \in {k, x} : Figures!Max({k, x}) >= y
  BY <1>1 DEF Figures!Max
<1> QED BY <1>2

\* The estimates are whole minutes, and at least one.
LEMMA EstimatesAre ==
    ASSUME NEW meters \in Nat
    PROVE  /\ Figures!DrivingEstimate(meters) \in Nat /\ Figures!DrivingEstimate(meters) >= 1
           /\ Figures!WalkingEstimate(meters) \in Nat /\ Figures!WalkingEstimate(meters) >= 1
<1>1. Figures!RoundDiv(60 * meters + 150000, 25000) \in Int /\ Figures!RoundDiv(60 * meters, 4500) \in Int
  BY DEF Figures!RoundDiv
<1> QED BY <1>1, LargerOf DEF Figures!DrivingEstimate, Figures!WalkingEstimate

\* A text that is told becomes a figure, and nothing becomes none.
LEMMA InMinutesIs ==
    ASSUME NEW text \in Figure
    PROVE  /\ Figures!ToFiniteInt(text) \in MeterFigures
           /\ Figures!InMinutes(Figures!ToFiniteInt(text)) \in MinuteFigures
           /\ text = Figures!None <=> Figures!ToFiniteInt(text) = Figures!None
           /\ text = Figures!None <=> Figures!InMinutes(Figures!ToFiniteInt(text)) = Figures!None
<1>1. Figures!None = -1
  BY DEF Figures!None
<1>2. CASE text = Figures!None
  BY <1>2 DEF Figures!ToFiniteInt, Figures!InMinutes, MinuteFigures, MeterFigures
<1>3. CASE text # Figures!None
  <2>1. text \in Nat
    BY <1>3 DEF Figure
  <2>2. PICK s : s = Figures!RoundDiv(text, 10)
    OBVIOUS
  <2>3. s \in Nat
    BY <2>1, <2>2 DEF Figures!RoundDiv
  <2>4. Figures!ToFiniteInt(text) = s
    BY <1>3, <2>2 DEF Figures!ToFiniteInt
  <2>5. Figures!RoundDiv(s, 60) \in Int
    BY <2>3 DEF Figures!RoundDiv
  <2>6. PICK m : m = Figures!Max({1, Figures!RoundDiv(s, 60)})
    OBVIOUS
  <2>7. m \in Nat /\ m >= 1
    BY <2>5, <2>6, LargerOf
  <2>8. Figures!InMinutes(s) = m
    BY <1>1, <2>3, <2>6 DEF Figures!InMinutes
  <2> QED BY <1>1, <1>3, <2>3, <2>4, <2>7, <2>8 DEF MinuteFigures, MeterFigures
<1> QED BY <1>2, <1>3

\* A reply may have a first row, with a figure or none in each place.
LEMMA ReplyFacts ==
    ASSUME NEW reply, IsReply(reply)
    PROVE  /\ reply.kind \in {"thrown", "refused", "ok"}
           /\ 1 \in DOMAIN reply.rows <=> reply.rows # <<>>
           /\ reply.rows # <<>> => reply.rows[1].distance \in Figure /\ reply.rows[1].duration \in Figure
<1>1. PICK R : R = [distance : Figure, duration : Figure,
                    segments : Seq([line : STRING, railway : STRING, walk : Figure])]
  OBVIOUS
<1>2. reply.rows \in Seq(R) /\ reply.kind \in {"thrown", "refused", "ok"}
  BY <1>1, Zenon DEF IsReply
<1>3. /\ 1 \in DOMAIN reply.rows <=> reply.rows # <<>>
      /\ reply.rows # <<>> => reply.rows[1] \in R
  BY <1>2
<1>4. \A r \in R : r.distance \in Figure /\ r.duration \in Figure
  BY <1>1
<1> QED BY <1>2, <1>3, <1>4

\* What a reply about distances tells, and that it tells the figures it has.
Figured(reply) == IF reply.kind = "ok" /\ reply.rows # <<>> THEN Figures!FiguresOf(reply.rows[1])
                  ELSE Figures!NoFigures
TellsFigures(f, reply) ==
    /\ f.minutes \in MinuteFigures /\ f.meters \in MeterFigures
    /\ \A old : /\ MinutesTold(reply, old) = Figures!Or(f.minutes, old)
                /\ MetersTold(reply, old) = Figures!Or(f.meters, old)

\* The figures of a reply are those of its first row.
LEMMA FiguresAreTold ==
    ASSUME NEW reply, IsReply(reply) PROVE TellsFigures(Figured(reply), reply)
<1>1. CASE reply.kind = "ok" /\ reply.rows # <<>>
  <2>1. PICK d, t : d = reply.rows[1].distance /\ t = reply.rows[1].duration
    OBVIOUS
  <2>2. d \in Figure /\ t \in Figure
    BY <1>1, <2>1, ReplyFacts
  <2>3. /\ Figured(reply).meters = Figures!ToFiniteInt(d)
        /\ Figured(reply).minutes = Figures!InMinutes(Figures!ToFiniteInt(t))
    BY <1>1, <2>1 DEF Figured, Figures!FiguresOf, Figures!Figures
  <2>4. /\ Figures!ToFiniteInt(d) \in MeterFigures
        /\ Figures!InMinutes(Figures!ToFiniteInt(t)) \in MinuteFigures
        /\ d = Figures!None <=> Figures!ToFiniteInt(d) = Figures!None
        /\ t = Figures!None <=> Figures!InMinutes(Figures!ToFiniteInt(t)) = Figures!None
    BY <2>2, InMinutesIs
  <2>5. /\ Tells(reply, "distance") <=> d # Figures!None
        /\ Tells(reply, "duration") <=> t # Figures!None
    BY <1>1, <2>1 DEF Tells
  <2> QED BY <2>1, <2>3, <2>4, <2>5 DEF TellsFigures, MinutesTold, MetersTold, Figures!Or
<1>2. CASE ~(reply.kind = "ok" /\ reply.rows # <<>>)
  <2>1. Figured(reply).minutes = Figures!None /\ Figured(reply).meters = Figures!None
    BY <1>2 DEF Figured, Figures!NoFigures, Figures!Figures
  <2>2. ~Tells(reply, "distance") /\ ~Tells(reply, "duration")
    BY <1>2 DEF Tells
  <2> QED BY <2>1, <2>2 DEF TellsFigures, MinutesTold, MetersTold, Figures!Or, MinuteFigures, MeterFigures
<1> QED BY <1>1, <1>2

\* The first reply that is not thrown is the one that counts.
LEMMA FirstCounts ==
    ASSUME NEW replies, \A k \in 1..3 : IsReply(replies[k])
    PROVE  /\ IsReply(FirstOf(replies))
           /\ Figures!FetchDistanceMatrix(TRUE, 1, replies)[1] = Figured(FirstOf(replies))
<1>1. IsReply(replies[1]) /\ IsReply(replies[2]) /\ IsReply(replies[3])
  OBVIOUS
<1>2. IsReply(FirstOf(replies))
  BY <1>1 DEF FirstOf
<1>3. PICK got : got = {k \in 1..3 : replies[k].kind # "thrown"}
  OBVIOUS
<1>4. Figures!FetchDistanceMatrix(TRUE, 1, replies)
        = IF got = {} THEN [i \in 1..1 |-> Figures!NoFigures]
          ELSE Figures!DistanceMatrix(TRUE, 1, replies[Figures!Min(got)])
  BY <1>3 DEF Figures!FetchDistanceMatrix, Figures!Attempts
<1>5. CASE got = {}
  <2>1. replies[1].kind = "thrown" /\ replies[2].kind = "thrown" /\ replies[3].kind = "thrown"
    BY <1>3, <1>5
  <2>2. Figured(FirstOf(replies)) = Figures!NoFigures
    BY <2>1 DEF Figured, FirstOf
  <2>3. [i \in 1..1 |-> Figures!NoFigures][1] = Figures!NoFigures
    OBVIOUS
  <2>4. Figures!FetchDistanceMatrix(TRUE, 1, replies)[1] = Figures!NoFigures
    BY <1>4, <1>5, <2>3
  <2> QED BY <1>2, <2>2, <2>4
<1>6. CASE got # {}
  <2>1. got \in SUBSET Nat
    BY <1>3
  <2>2. PICK k : k = Figures!Min(got) /\ k \in got /\ \A j \in got : k <= j
    <3>1. \E x \in got : \A y \in got : x <= y
      BY <2>1, <1>6, Smallest
    <3> QED BY <3>1 DEF Figures!Min
  <2>3. replies[k] = FirstOf(replies)
    <3>1. k \in 1..3 /\ replies[k].kind # "thrown"
      BY <1>3, <2>2
    <3>2. k = 1 \/ k = 2 \/ k = 3
      BY <3>1
    <3>3. k # 1 => replies[1].kind = "thrown"
      <4>1. 1 \in 1..3 /\ (1 \in got => k <= 1)
        BY <2>2
      <4> QED BY <1>3, <3>1, <4>1
    <3>4. k = 3 => replies[2].kind = "thrown"
      <4>1. 2 \in 1..3 /\ (2 \in got => k <= 2)
        BY <2>2
      <4> QED BY <1>3, <4>1
    <3> QED BY <3>1, <3>2, <3>3, <3>4 DEF FirstOf
  <2>4. PICK reply : reply = FirstOf(replies)
    OBVIOUS
  <2>5. Figures!DistanceMatrix(TRUE, 1, reply)[1] = Figured(reply)
    <3>1. 1 \in DOMAIN reply.rows <=> reply.rows # <<>>
      BY <1>2, <2>4, ReplyFacts
    <3> QED BY <3>1 DEF Figures!DistanceMatrix, Figured
  <2> QED BY <1>2, <1>4, <1>6, <2>2, <2>3, <2>4, <2>5
<1> QED BY <1>5, <1>6

\* What an answer on public transport tells.
TellsTransit(w, answer) ==
    /\ w.minutes \in MinuteFigures
    /\ \A old : /\ MinutesTold(answer, old) = Figures!Or(w.minutes, old)
                /\ WordTold(answer, old) = IF w.minutes # Figures!None THEN "ready"
                                           ELSE IF w.noRoute THEN "no_route" ELSE old

\* The answer on public transport has the figures and word of its first row.
LEMMA WorthIsTold ==
    ASSUME NEW answer, IsReply(answer) PROVE TellsTransit(Worth(answer), answer)
<1>1. TellsFigures(Figured(answer), answer)
  BY FiguresAreTold
<1>2. Figures!None \notin Nat
  BY DEF Figures!None
<1>3. CASE answer.kind # "ok"
  <2>1. Worth(answer).minutes = Figures!None /\ ~Worth(answer).noRoute
    BY <1>3 DEF Worth, Figures!NoTransit
  <2>2. Figured(answer).minutes = Figures!None
    BY <1>3 DEF Figured, Figures!NoFigures, Figures!Figures
  <2> QED BY <1>1, <1>3, <2>1, <2>2 DEF TellsTransit, TellsFigures, WordTold, MinuteFigures
<1>4. CASE answer.kind = "ok" /\ answer.rows = <<>>
  <2>1. Worth(answer).minutes = Figures!None /\ Worth(answer).noRoute
    BY <1>4 DEF Worth, Figures!NoTransit
  <2>2. Figured(answer).minutes = Figures!None
    BY <1>4 DEF Figured, Figures!NoFigures, Figures!Figures
  <2> QED BY <1>1, <1>4, <2>1, <2>2 DEF TellsTransit, TellsFigures, WordTold, MinuteFigures
<1>5. CASE answer.kind = "ok" /\ answer.rows # <<>>
  <2>1. Worth(answer).minutes = Figured(answer).minutes /\ ~Worth(answer).noRoute
    BY <1>5 DEF Worth, Figures!TransitOf, Figured
  <2>2. PICK t : t = answer.rows[1].duration
    OBVIOUS
  <2>3. t \in Figure /\ Figured(answer).minutes = Figures!InMinutes(Figures!ToFiniteInt(t))
    BY <1>5, <2>2, ReplyFacts DEF Figured, Figures!FiguresOf, Figures!Figures
  <2>4. Tells(answer, "duration") <=> Figured(answer).minutes # Figures!None
    <3>1. t = Figures!None <=> Figures!InMinutes(Figures!ToFiniteInt(t)) = Figures!None
      BY <2>3, InMinutesIs
    <3> QED BY <1>5, <2>2, <2>3, <3>1 DEF Tells
  <2>5. \A old : WordTold(answer, old) = IF Tells(answer, "duration") THEN "ready" ELSE old
    BY <1>5 DEF WordTold
  <2> QED BY <1>1, <2>1, <2>4, <2>5 DEF TellsTransit, TellsFigures
<1> QED BY <1>3, <1>4, <1>5

\* The row has what the provider told last.
LastFine(last) ==
    /\ last.driving \in MinuteFigures /\ last.walking \in MinuteFigures
    /\ last.transit \in MinuteFigures /\ last.walk \in MeterFigures
RowFits(edge, meters, last) ==
    /\ edge.drivingMinutes = Figures!Or(last.driving, Figures!DrivingEstimate(meters))
    /\ edge.walkingMinutes = Figures!Or(last.walking, Figures!WalkingEstimate(meters))
    /\ edge.walkingMeters = Figures!Or(last.walk, meters)
    /\ edge.transitMinutes = Figures!Or(last.transit, Figures!TransitEstimate(meters))
    /\ edge.transitProviderStatus = last.word
EdgeHolds(in, rows) ==
    /\ in.meters \in Nat \ {0} /\ LastFine(in.last)
    /\ rows = <<>> => in.last = NothingTold
    /\ rows # <<>> => RowFits(rows[1], in.meters, in.last)

\* What a recompute is told of one mode is what the provider told of it.
LEMMA ToldOf ==
    ASSUME NEW mode, NEW modes, NEW replies, NEW told, \A k \in 1..3 : IsReply(replies[k]),
           mode \in modes \/ replies = Silence,
           told = Figures!FetchDistanceMatrix(TRUE, 1, replies)[1]
    PROVE  TellsFigures(IF mode \in modes THEN told ELSE Figures!NoFigures, FirstOf(replies))
<1>1. TellsFigures(told, FirstOf(replies))
  BY FirstCounts, FiguresAreTold
<1>2. mode \notin modes => told = Figures!NoFigures
  <2> SUFFICES ASSUME mode \notin modes PROVE told = Figures!NoFigures
    OBVIOUS
  <2>1. FirstOf(replies) = Thrown
    BY DEF FirstOf, Silence
  <2>2. Figured(Thrown) = Figures!NoFigures
    BY DEF Figured, Thrown, Figures!Reply
  <2> QED BY <2>1, <2>2, FirstCounts
<1> QED BY <1>1, <1>2

\* A recompute leaves in the row what was told last of each figure.
LEMMA RowIsKept ==
    ASSUME NEW old, NEW meters, NEW rows, NEW modes, NEW told, NEW driving, NEW walking, NEW answer,
           rows = <<>> => old = NothingTold,
           rows # <<>> => RowFits(rows[1], meters, old),
           TellsFigures(IF "driving" \in modes THEN told.driving ELSE Figures!NoFigures, FirstOf(driving)),
           TellsFigures(IF "walking" \in modes THEN told.walking ELSE Figures!NoFigures, FirstOf(walking)),
           TellsTransit(IF "transit" \in modes THEN told.transit ELSE Figures!NoTransit, answer)
    PROVE  RowFits(Figures!EdgeRow(modes, told, rows, meters), meters,
                   LastTold(old, driving, walking, answer))
<1>1. PICK d, w, t, edge, last :
        /\ d = IF "driving" \in modes THEN told.driving ELSE Figures!NoFigures
        /\ w = IF "walking" \in modes THEN told.walking ELSE Figures!NoFigures
        /\ t = IF "transit" \in modes THEN told.transit ELSE Figures!NoTransit
        /\ edge = Figures!EdgeRow(modes, told, rows, meters)
        /\ last = LastTold(old, driving, walking, answer)
  OBVIOUS
<1>2. TellsFigures(d, FirstOf(driving)) /\ TellsFigures(w, FirstOf(walking)) /\ TellsTransit(t, answer)
  BY <1>1
<1>3. /\ last.driving = Figures!Or(d.minutes, old.driving)
      /\ last.walking = Figures!Or(w.minutes, old.walking)
      /\ last.walk = Figures!Or(w.meters, old.walk)
      /\ last.transit = Figures!Or(t.minutes, old.transit)
      /\ last.word = IF t.minutes # Figures!None THEN "ready"
                     ELSE IF t.noRoute THEN "no_route" ELSE old.word
  BY <1>1, <1>2 DEF LastTold, TellsFigures, TellsTransit
<1>4. /\ edge.drivingMinutes = Figures!Or(d.minutes, IF rows # <<>> THEN rows[1].drivingMinutes
                                                 ELSE Figures!DrivingEstimate(meters))
      /\ edge.walkingMinutes = Figures!Or(w.minutes, IF rows # <<>> THEN rows[1].walkingMinutes
                                                 ELSE Figures!WalkingEstimate(meters))
      /\ edge.walkingMeters = Figures!Or(w.meters, IF rows # <<>> THEN rows[1].walkingMeters ELSE meters)
      /\ edge.transitMinutes = Figures!Or(t.minutes, IF rows # <<>> THEN rows[1].transitMinutes
                                                 ELSE Figures!TransitEstimate(meters))
      /\ edge.transitProviderStatus = Figures!TransitStatus(t, rows)
  BY <1>1 DEF Figures!EdgeRow
<1>5. CASE rows = <<>>
  <2>1. /\ old.driving = Figures!None /\ old.walking = Figures!None /\ old.walk = Figures!None
        /\ old.transit = Figures!None /\ old.word = "fallback"
    BY <1>5 DEF NothingTold
  <2>2. edge.transitProviderStatus = last.word
    BY <1>3, <1>4, <1>5, <2>1 DEF Figures!TransitStatus
  <2> QED BY <1>1, <1>3, <1>4, <1>5, <2>1, <2>2 DEF RowFits, Figures!Or
<1>6. CASE rows # <<>>
  <2>1. RowFits(rows[1], meters, old)
    BY <1>6
  <2>2. edge.transitProviderStatus = last.word
    BY <1>3, <1>4, <1>6, <2>1 DEF Figures!TransitStatus, RowFits
  <2> QED BY <1>1, <1>3, <1>4, <1>6, <2>1, <2>2 DEF RowFits, Figures!Or
<1> QED BY <1>5, <1>6

\* What was told last remains made of figures and a word.
LEMMA LastIsFine ==
    ASSUME NEW old, LastFine(old), NEW driving, NEW walking, NEW answer,
           NEW d, TellsFigures(d, FirstOf(driving)), NEW w, TellsFigures(w, FirstOf(walking)),
           NEW t, TellsTransit(t, answer)
    PROVE  LastFine(LastTold(old, driving, walking, answer))
BY DEF LastFine, LastTold, TellsFigures, TellsTransit, Figures!Or

\* What a recompute is told of each mode, and the input once it is.
ToldBy(driving, walking, transit, names, known) ==
    [driving |-> Figures!FetchDistanceMatrix(TRUE, 1, driving)[1],
     walking |-> Figures!FetchDistanceMatrix(TRUE, 1, walking)[1],
     transit |-> Figures!FetchTransitDirections(TRUE,
                    Figures!PlaceCandidates(names[1], names[1], names[2], names[2]),
                    names[1], <<Says(known, transit)>>)[1]]
Renewed(in, last) == [in EXCEPT !.last = last]
EdgeInput(in) == in = [meters |-> in.meters, last |-> in.last]

\* One recompute, from the replies to the row.
LEMMA RemeasureHolds ==
    ASSUME NEW in, NEW rows, NEW modes, NEW driving, NEW walking, NEW transit, NEW names,
           NEW known, known \in Known, EdgeHolds(in, rows),
           \A k \in 1..3 : IsReply(driving[k]), \A k \in 1..3 : IsReply(walking[k]), IsReply(transit),
           NamesFine(names),
           "driving" \in modes \/ driving = Silence, "walking" \in modes \/ walking = Silence,
           "transit" \in modes \/ transit = Thrown,
           NEW told, told = ToldBy(driving, walking, transit, names, known),
           NEW last, last = LastTold(in.last, driving, walking, Heeded(known, transit, names)),
           NEW now, now = Renewed(in, last), EdgeInput(in)
    PROVE  EdgeHolds(now, <<Figures!EdgeRow(modes, told, rows, in.meters)>>)
<1>1. PICK answer, d, w, t :
        /\ answer = Heeded(known, transit, names)
        /\ d = IF "driving" \in modes THEN told.driving ELSE Figures!NoFigures
        /\ w = IF "walking" \in modes THEN told.walking ELSE Figures!NoFigures
        /\ t = IF "transit" \in modes THEN told.transit ELSE Figures!NoTransit
  OBVIOUS
<1>2. /\ told.driving = Figures!FetchDistanceMatrix(TRUE, 1, driving)[1]
      /\ told.walking = Figures!FetchDistanceMatrix(TRUE, 1, walking)[1]
      /\ told.transit = Worth(answer)
  <2>2. PICK a, b, got : /\ a = Figures!FetchDistanceMatrix(TRUE, 1, driving)[1]
                         /\ b = Figures!FetchDistanceMatrix(TRUE, 1, walking)[1]
                         /\ got = Figures!FetchTransitDirections(TRUE,
                             Figures!PlaceCandidates(names[1], names[1], names[2], names[2]),
                             names[1], <<Says(known, transit)>>)[1]
    OBVIOUS
  <2>3. got = Worth(Heeded(known, transit, names))
    <3>1. TransitAnswer(names, known, transit) = Worth(Heeded(known, transit, names))
      BY TransitIsWorth, Zenon
    <3> QED BY <2>2, <3>1, Zenon DEF TransitAnswer
  <2>4. /\ told.driving = Figures!FetchDistanceMatrix(TRUE, 1, driving)[1]
        /\ told.walking = Figures!FetchDistanceMatrix(TRUE, 1, walking)[1]
        /\ told.transit = got
    <3>1. told = [driving |-> a, walking |-> b, transit |-> got]
      BY <2>2, Zenon DEF ToldBy
    <3>2. \A r : r = [driving |-> a, walking |-> b, transit |-> got]
                 => r.driving = a /\ r.walking = b /\ r.transit = got
      OBVIOUS
    <3> QED BY <2>2, <3>1, <3>2, Zenon
  <2> QED BY <1>1, <2>3, <2>4
<1>3. TellsFigures(d, FirstOf(driving))
  BY <1>1, <1>2, ToldOf
<1>4. TellsFigures(w, FirstOf(walking))
  BY <1>1, <1>2, ToldOf
<1>5. IsReply(answer) /\ ("transit" \notin modes => answer = Thrown)
  <2>1. IsReply(Thrown)
    <3>1. <<>> \in Seq([distance : Figure, duration : Figure,
                        segments : Seq([line : STRING, railway : STRING, walk : Figure])])
      OBVIOUS
    <3> QED BY <3>1 DEF IsReply, Thrown, Figures!Reply
  <2> QED BY <1>1, <2>1 DEF Heeded
<1>6. TellsTransit(t, answer)
  <2>1. TellsTransit(Worth(answer), answer)
    BY <1>5, WorthIsTold
  <2>2. Worth(Thrown) = Figures!NoTransit
    BY DEF Worth, Thrown, Figures!Reply
  <2> QED BY <1>1, <1>2, <1>5, <2>1, <2>2
<1>7. PICK edge : edge = Figures!EdgeRow(modes, told, rows, in.meters)
  OBVIOUS
<1>8. RowFits(edge, in.meters, last)
  <2>1. /\ rows = <<>> => in.last = NothingTold
        /\ rows # <<>> => RowFits(rows[1], in.meters, in.last)
    BY DEF EdgeHolds
  <2>2. /\ TellsFigures(IF "driving" \in modes THEN told.driving ELSE Figures!NoFigures, FirstOf(driving))
        /\ TellsFigures(IF "walking" \in modes THEN told.walking ELSE Figures!NoFigures, FirstOf(walking))
        /\ TellsTransit(IF "transit" \in modes THEN told.transit ELSE Figures!NoTransit, answer)
    BY <1>1, <1>3, <1>4, <1>6
  <2>3. RowFits(Figures!EdgeRow(modes, told, rows, in.meters), in.meters,
                LastTold(in.last, driving, walking, answer))
    BY <2>1, <2>2, RowIsKept
  <2> QED BY <1>1, <1>7, <2>3
<1>9. LastFine(last)
  BY <1>1, <1>3, <1>4, <1>6, LastIsFine DEF EdgeHolds
<1>10. now.meters = in.meters /\ now.last = last
  BY DEF Renewed, EdgeInput
<1>11. <<edge>> # <<>> /\ <<edge>>[1] = edge
  OBVIOUS
<1> QED BY <1>7, <1>8, <1>9, <1>10, <1>11 DEF EdgeHolds

\* A report counts the row for the figures it has and the word it has last.
LEMMA CountedIs ==
    ASSUME NEW in, NEW rows, EdgeHolds(in, rows), rows # <<>>
    PROVE  Figures!Counted(rows[1]) = {"driving", "walkingMinutes", in.last.word}
                                     \cup IF in.last.walk = 0 THEN {} ELSE {"walking"}
<1>1. PICK edge, last, meters : edge = rows[1] /\ last = in.last /\ meters = in.meters
  OBVIOUS
<1>2. RowFits(edge, meters, last) /\ LastFine(last) /\ meters \in Nat \ {0}
  BY <1>1 DEF EdgeHolds
<1>3. PICK de, we : de = Figures!DrivingEstimate(meters) /\ we = Figures!WalkingEstimate(meters)
  OBVIOUS
<1>4. de \in Nat /\ de >= 1 /\ we \in Nat /\ we >= 1
  BY <1>2, <1>3, EstimatesAre
<1>5. edge.drivingMinutes > 0 /\ edge.walkingMinutes > 0
  BY <1>2, <1>3, <1>4 DEF RowFits, LastFine, MinuteFigures, Figures!Or
<1>6. edge.walkingMeters > 0 <=> last.walk # 0
  BY <1>2 DEF RowFits, LastFine, MeterFigures, Figures!Or, Figures!None
<1>7. edge.transitProviderStatus = last.word
  BY <1>2 DEF RowFits
<1>8. Figures!Counted(edge) = {m \in {"driving", "walking", "walkingMinutes"} :
                            m = "walking" => last.walk # 0} \cup {last.word}
  BY <1>5, <1>6, <1>7 DEF Figures!Counted
<1> QED BY <1>1, <1>8

-----------------------------------------------------------------------------
(* Texts made of pieces                                                    *)

Joins(g, q) == g = [i \in 0..Len(q) |-> IF i = 0 THEN <<>> ELSE g[i - 1] \o q[i]]

\* The n pieces q are texts.
Pieces(q, n, S) == n \in Nat /\ Len(q) = n /\ \A i \in 1..n : q[i] \in Seq(S)

\* Pieces can be joined one after the other.
LEMMA JoinsExist ==
    ASSUME NEW S, NEW q, NEW n \in Nat, Pieces(q, n, S)
    PROVE  \E g : Joins(g, q)
<1>1. PICK X, step : /\ X = Seq(S)
                     /\ step = [p \in (1..n) \X X |-> p[2] \o q[p[1]]]
  OBVIOUS
<1>2. \A i \in 1..n : q[i] \in X
  BY <1>1 DEF Pieces
<1>3. \A i \in 1..n : \A l \in X : step[<<i, l>>] = l \o q[i] /\ step[<<i, l>>] \in X
  <2> SUFFICES ASSUME NEW i \in 1..n, NEW l \in X
               PROVE  step[<<i, l>>] = l \o q[i] /\ step[<<i, l>>] \in X
    OBVIOUS
  <2>1. l \o q[i] \in X
    BY <1>1, <1>2
  <2>2. <<i, l>> \in (1..n) \X X /\ <<i, l>>[1] = i /\ <<i, l>>[2] = l
    OBVIOUS
  <2>3. step[<<i, l>>] = l \o q[i]
    BY <1>1, <2>2
  <2> QED BY <2>1, <2>3
<1>4. step \in [(1..n) \X X -> X]
  <2>1. \A p \in (1..n) \X X : step[p] \in X
    BY <1>3
  <2> QED BY <1>1, <2>1
<1>5. <<>> \in X
  BY <1>1
<1>6. PICK f \in [0..n -> X] : FoldOf(f, n, <<>>, step)
  BY <1>4, <1>5, FoldsExist
<1>7. \A i \in 0..n : f[i] = IF i = 0 THEN <<>> ELSE f[i - 1] \o q[i]
  <2> SUFFICES ASSUME NEW i \in 0..n, i # 0 PROVE f[i] = f[i - 1] \o q[i]
    BY <1>6 DEF FoldOf
  <2>1. i \in 1..n /\ i - 1 \in 0..n
    OBVIOUS
  <2>2. f[i - 1] \in X
    BY <2>1, <1>6
  <2> QED BY <2>1, <2>2, <1>3, <1>6 DEF FoldOf
<1>8. f = [i \in 0..n |-> f[i]]
  BY <1>6
<1>9. Joins(f, q)
  BY <1>7, <1>8 DEF Joins, Pieces
<1> QED BY <1>9

Joined(g, q, n, S) ==
    /\ g[0] = <<>> /\ \A i \in 1..n : g[i] = g[i - 1] \o q[i]
    /\ \A i \in 0..n : g[i] \in Seq(S)
    /\ Concat(q) = g[n]

\* Joining them is what Concat does.
LEMMA ConcatIs ==
    ASSUME NEW S, NEW q, NEW n \in Nat, Pieces(q, n, S)
    PROVE  \E g : Joined(g, q, n, S)
<1>1. PICK g : g = CHOOSE all : Joins(all, q)
  OBVIOUS
<1>2. Joins(g, q)
  BY <1>1, JoinsExist
<1>3. Concat(q) = g[n]
  BY <1>1 DEF Concat, Joins, Pieces
<1>4. g[0] = <<>> /\ \A i \in 1..n : g[i] = g[i - 1] \o q[i]
  <2>1. \A i \in 0..n : g[i] = IF i = 0 THEN <<>> ELSE g[i - 1] \o q[i]
    BY <1>2 DEF Joins, Pieces
  <2>2. 0 \in 0..n /\ \A i \in 1..n : i \in 0..n /\ i # 0
    OBVIOUS
  <2> QED BY <2>1, <2>2
<1>5. PICK P, X : X = Seq(S) /\ P = {i \in 0..n : g[i] \in X}
  OBVIOUS
<1>6. 0 \in P
  <2>1. 0 \in 0..n /\ <<>> \in Seq(S)
    OBVIOUS
  <2> QED BY <1>4, <1>5, <2>1
<1>7. ASSUME NEW i \in 1..n, i - 1 \in P PROVE i \in P
  <2>1. q[i] \in X /\ g[i - 1] \in X
    BY <1>5, <1>7 DEF Pieces
  <2>2. g[i - 1] \o q[i] \in X
    <3>1. PICK a, b : a = g[i - 1] /\ b = q[i]
      OBVIOUS
    <3>2. a \in Seq(S) /\ b \in Seq(S)
      BY <1>5, <2>1, <3>1
    <3>3. a \o b \in Seq(S)
      BY <3>2
    <3> QED BY <1>5, <3>1, <3>3
  <2>3. i \in 0..n
    OBVIOUS
  <2>4. g[i] \in X
    BY <1>4, <2>2
  <2> QED BY <1>5, <2>3, <2>4
<1>8. \A i \in 0..n : i \in P
  BY <1>6, <1>7, UpTo
<1>9. \A i \in 0..n : g[i] \in Seq(S)
  BY <1>5, <1>8
<1> QED BY <1>3, <1>4, <1>9 DEF Joined

\* A word stands in a text behind its first p characters.
Spells(text, p, word) ==
    p + Len(word) <= Len(text) /\ \A j \in 1..Len(word) : text[p + j] = word[j]

\* A text that has two parts joined at p has each of them at its place.
LEMMA SpellsParts ==
    ASSUME NEW S, NEW a \in Seq(S), NEW b \in Seq(S), NEW text, Len(text) \in Nat, NEW p \in Nat,
           Spells(text, p, a \o b)
    PROVE  /\ Spells(text, p, a) /\ Spells(text, p + Len(a), b)
           /\ Len(a \o b) = Len(a) + Len(b) /\ p + Len(a) \in Nat
<1>1. PICK m, n, c : m = Len(a) /\ n = Len(b) /\ c = a \o b
  OBVIOUS
<1>2. /\ m \in Nat /\ n \in Nat /\ Len(c) = m + n
      /\ \A j \in 1..(m + n) : c[j] = IF j <= m THEN a[j] ELSE b[j - m]
  BY <1>1
<1>3. p + (m + n) <= Len(text) /\ \A j \in 1..(m + n) : text[p + j] = c[j]
  BY <1>1, <1>2 DEF Spells
<1>4. ASSUME NEW j \in 1..m PROVE text[p + j] = a[j]
  <2>1. j \in 1..(m + n) /\ j <= m
    BY <1>2
  <2> QED BY <1>2, <1>3, <2>1
<1>5. ASSUME NEW j \in 1..n PROVE text[(p + m) + j] = b[j]
  <2>1. m + j \in 1..(m + n) /\ ~ (m + j <= m) /\ (m + j) - m = j /\ p + (m + j) = (p + m) + j
    BY <1>2
  <2>2. text[p + (m + j)] = c[m + j] /\ c[m + j] = b[j]
    BY <1>2, <1>3, <2>1
  <2> QED BY <2>1, <2>2
<1>6. p + m <= Len(text) /\ (p + m) + n <= Len(text) /\ p + m \in Nat
  BY <1>2, <1>3
<1> QED BY <1>1, <1>2, <1>4, <1>5, <1>6 DEF Spells

\* The offsets of the pieces of a text.
Offsets(off, text, p, q, n) ==
    /\ \A i \in 0..n : off[i] \in Nat
    /\ off[0] = p /\ off[n] = p + Len(Concat(q))
    /\ \A i \in 1..n : off[i] = off[i - 1] + Len(q[i]) /\ Spells(text, off[i - 1], q[i])

\* A text that has pieces joined at p has each of them at its place.
LEMMA OffsetsExist ==
    ASSUME NEW S, NEW q, NEW n \in Nat, Pieces(q, n, S),
           NEW text, Len(text) \in Nat, NEW p \in Nat, Spells(text, p, Concat(q))
    PROVE  \E off : Offsets(off, text, p, q, n)
<1>1. PICK g : Joined(g, q, n, S)
  BY ConcatIs
<1>2. PICK off : off = [i \in 0..n |-> p + Len(g[i])]
  OBVIOUS
<1>3. \A i \in 0..n : g[i] \in Seq(S) /\ Len(g[i]) \in Nat /\ off[i] \in Nat /\ off[i] = p + Len(g[i])
  BY <1>1, <1>2 DEF Joined
<1>4. off[0] = p /\ off[n] = p + Len(Concat(q))
  <2>1. Len(g[0]) = 0 /\ 0 \in 0..n /\ n \in 0..n /\ Concat(q) = g[n]
    BY <1>1 DEF Joined
  <2> QED BY <1>3, <2>1
<1>5. PICK P : P = {k \in 0..n : Spells(text, p, g[n - k])}
  OBVIOUS
<1>6. \A i \in 1..n : /\ i \in 0..n /\ i - 1 \in 0..n /\ q[i] \in Seq(S)
                      /\ g[i - 1] \in Seq(S) /\ g[i] = g[i - 1] \o q[i]
  <2> SUFFICES ASSUME NEW i \in 1..n
               PROVE  /\ i \in 0..n /\ i - 1 \in 0..n /\ q[i] \in Seq(S)
                      /\ g[i - 1] \in Seq(S) /\ g[i] = g[i - 1] \o q[i]
    OBVIOUS
  <2>1. i \in 0..n /\ i - 1 \in 0..n
    OBVIOUS
  <2> QED BY <2>1, <1>1, <1>3 DEF Joined, Pieces
<1>7. ASSUME NEW i \in 1..n, Spells(text, p, g[i])
      PROVE  /\ Spells(text, p, g[i - 1]) /\ Spells(text, p + Len(g[i - 1]), q[i])
             /\ Len(g[i]) = Len(g[i - 1]) + Len(q[i])
  <2>1. PICK a, b : a = g[i - 1] /\ b = q[i]
    OBVIOUS
  <2>2. a \in Seq(S) /\ b \in Seq(S) /\ g[i] = a \o b
    BY <1>6, <2>1
  <2>3. Spells(text, p, a \o b)
    BY <1>7, <2>2
  <2>4. /\ Spells(text, p, a) /\ Spells(text, p + Len(a), b)
        /\ Len(a \o b) = Len(a) + Len(b)
    BY <2>2, <2>3, SpellsParts
  <2> QED BY <2>1, <2>2, <2>4
<1>8. 0 \in P
  <2>1. n - 0 = n /\ 0 \in 0..n
    OBVIOUS
  <2>2. Spells(text, p, g[n])
    BY <1>1 DEF Joined
  <2> QED BY <1>5, <2>1, <2>2
<1>9. ASSUME NEW k \in 1..n, k - 1 \in P PROVE k \in P
  <2>1. PICK i : i = n - (k - 1)
    OBVIOUS
  <2>2. i \in 1..n /\ i - 1 = n - k /\ k \in 0..n
    BY <2>1
  <2>3. Spells(text, p, g[i])
    BY <1>5, <1>9, <2>1
  <2>4. Spells(text, p, g[n - k])
    BY <1>7, <2>2, <2>3
  <2> QED BY <1>5, <2>2, <2>4
<1>10. \A k \in 0..n : k \in P
  BY <1>8, <1>9, UpTo
<1>11. ASSUME NEW i \in 1..n
       PROVE  off[i] = off[i - 1] + Len(q[i]) /\ Spells(text, off[i - 1], q[i])
  <2>1. PICK k : k = n - i
    OBVIOUS
  <2>2. k \in 0..n /\ n - k = i
    BY <2>1
  <2>3. Spells(text, p, g[i])
    BY <1>5, <1>10, <2>2
  <2>4. /\ Spells(text, p + Len(g[i - 1]), q[i])
        /\ Len(g[i]) = Len(g[i - 1]) + Len(q[i])
    BY <1>7, <2>3
  <2>5. i \in 0..n /\ i - 1 \in 0..n /\ Len(g[i - 1]) \in Nat
    BY <1>3, <1>6
  <2>6. off[i] = p + Len(g[i]) /\ off[i - 1] = p + Len(g[i - 1])
    BY <1>3, <2>5
  <2>7. Len(q[i]) \in Nat
    <3>1. PICK b : b = q[i]
      OBVIOUS
    <3>2. b \in Seq(S)
      BY <1>6, <3>1
    <3>3. Len(b) \in Nat
      BY <3>2
    <3> QED BY <3>1, <3>3
  <2>8. off[i] = off[i - 1] + Len(q[i])
    <3>1. PICK a, b : a = Len(g[i - 1]) /\ b = Len(q[i])
      OBVIOUS
    <3>2. a \in Nat /\ b \in Nat /\ off[i] = p + (a + b) /\ off[i - 1] = p + a
      BY <2>4, <2>5, <2>6, <2>7, <3>1
    <3>3. off[i] = off[i - 1] + b
      BY <3>2
    <3> QED BY <3>1, <3>3
  <2> QED BY <2>4, <2>6, <2>8
<1> QED BY <1>3, <1>4, <1>11 DEF Offsets

-----------------------------------------------------------------------------
(* The parser's steps                                                      *)

State(R, r, c, q, k) == [rows |-> R, row |-> r, cell |-> c, quoted |-> q, skip |-> k]
Between(R, r, c) == State(R, r, c, FALSE, FALSE)
Inside(R, r, c) == State(R, r, c, TRUE, FALSE)
Look(text, i) == IF i < Len(text) THEN text[i + 1] ELSE Char
Special == {Comma, Quote, CR, LF}

CleanRow(r) == [j \in DOMAIN r |-> Csv!Trimmed(r[j])]
AddRow(R, r) == IF \E j \in DOMAIN CleanRow(r) : CleanRow(r)[j] # <<>> THEN Append(R, CleanRow(r))
                ELSE R

SignsDiffer ==
    /\ Comma # Quote /\ Comma # CR /\ Comma # LF /\ Quote # CR /\ Quote # LF /\ CR # LF
    /\ Char # Quote /\ Char # LF

\* The characters with a meaning differ.
LEMMA SignsDifferIs == SignsDiffer
<1>1. CharactersDiffer
  BY PureAssumption
<1>2. PICK c : c = Characters
  OBVIOUS
<1>3. /\ c = <<Char, Space, Comma, Quote, CR, LF>>
      /\ \A i, j \in DOMAIN c : c[i] = c[j] => i = j
  BY <1>1, <1>2 DEF CharactersDiffer, Characters
<1>4. \A i, j \in 1..6 : c[i] = c[j] => i = j
  BY <1>3
<1>5. c[1] = Char /\ c[3] = Comma /\ c[4] = Quote /\ c[5] = CR /\ c[6] = LF
  BY <1>3
<1> QED BY <1>4, <1>5 DEF SignsDiffer

WithRow(s, r, c) == [s EXCEPT !.row = r, !.cell = c]
WithRows(s, R, r) == [s EXCEPT !.rows = R, !.row = r]
WithSkip(s, k) == [s EXCEPT !.skip = k]

\* The updates of a parser's state, one field at a time.
LEMMA WithRowIs ==
    ASSUME NEW R, NEW r, NEW c, NEW q, NEW k, NEW r2, NEW c2
    PROVE  WithRow(State(R, r, c, q, k), r2, c2) = State(R, r2, c2, q, k)
<1>1. PICK s, t : s = State(R, r, c, q, k) /\ t = [s EXCEPT !.row = r2]
  OBVIOUS
<1>2. t = State(R, r2, c, q, k)
  BY <1>1 DEF State
<1>3. [t EXCEPT !.cell = c2] = State(R, r2, c2, q, k)
  BY <1>2 DEF State
<1>4. [s EXCEPT !.row = r2, !.cell = c2] = [t EXCEPT !.cell = c2]
  BY <1>1
<1> QED BY <1>1, <1>3, <1>4 DEF WithRow

\* The rows and the row begun.
LEMMA WithRowsIs ==
    ASSUME NEW R, NEW r, NEW c, NEW q, NEW k, NEW R2, NEW r2
    PROVE  WithRows(State(R, r, c, q, k), R2, r2) = State(R2, r2, c, q, k)
<1>1. PICK s, t : s = State(R, r, c, q, k) /\ t = [s EXCEPT !.rows = R2]
  OBVIOUS
<1>2. t = State(R2, r, c, q, k)
  BY <1>1 DEF State
<1>3. [t EXCEPT !.row = r2] = State(R2, r2, c, q, k)
  BY <1>2 DEF State
<1>4. [s EXCEPT !.rows = R2, !.row = r2] = [t EXCEPT !.row = r2]
  BY <1>1
<1> QED BY <1>1, <1>3, <1>4 DEF WithRows

\* Whether the next character is skipped.
LEMMA WithSkipIs ==
    ASSUME NEW R, NEW r, NEW c, NEW q, NEW k, NEW k2
    PROVE  WithSkip(State(R, r, c, q, k), k2) = State(R, r, c, q, k2)
BY DEF WithSkip, State

\* A cell ends: it joins the row.
LEMMA EndCellIs ==
    ASSUME NEW R, NEW r, NEW c, NEW q, NEW k
    PROVE  Csv!EndCell(State(R, r, c, q, k)) = State(R, Append(r, c), <<>>, q, k)
<1>1. PICK s, e, t : s = State(R, r, c, q, k) /\ e = <<>> /\ t = Append(r, c)
  OBVIOUS
<1>2. s.row = r /\ s.cell = c
  BY <1>1 DEF State
<1>3. Csv!EndCell(s) = WithRow(s, t, e)
  BY <1>1, <1>2 DEF Csv!EndCell, WithRow
<1>4. WithRow(s, t, e) = State(R, t, e, q, k)
  BY <1>1, WithRowIs
<1> QED BY <1>1, <1>3, <1>4

\* A row ends: it joins the rows unless it is blank.
LEMMA EndRowIs ==
    ASSUME NEW R, NEW r, NEW c, NEW q, NEW k
    PROVE  Csv!EndRow(State(R, r, c, q, k)) = State(AddRow(R, r), <<>>, c, q, k)
<1>1. PICK cells, e : cells = CleanRow(r) /\ e = <<>>
  OBVIOUS
<1>2. AddRow(R, r) = IF \E j \in DOMAIN cells : cells[j] # <<>> THEN Append(R, cells) ELSE R
  BY <1>1 DEF AddRow
<1>3. PICK s : s = State(R, r, c, q, k)
  OBVIOUS
<1>4. s.row = r /\ s.rows = R
  BY <1>3 DEF State
<1>5. Csv!EndRow(s) =
        [s EXCEPT !.rows = IF \E j \in DOMAIN cells : cells[j] # <<>> THEN Append(@, cells) ELSE @,
                  !.row = <<>>]
  BY <1>1, <1>4 DEF Csv!EndRow, CleanRow
<1>6. Csv!EndRow(s) = WithRows(s, AddRow(R, r), e)
  BY <1>1, <1>2, <1>4, <1>5 DEF WithRows
<1>7. WithRows(s, AddRow(R, r), e) = State(AddRow(R, r), e, c, q, k)
  BY <1>3, WithRowsIs
<1> QED BY <1>1, <1>3, <1>6, <1>7

\* A character without a meaning, between the quotes of no cell.
LEMMA TakesPlain ==
    ASSUME NEW R, NEW r, NEW c, NEW char, char \notin Special, NEW next
    PROVE  Csv!Take(Between(R, r, c), char, next) = Between(R, r, Append(c, char))
BY DEF Csv!Take, Between, State, Special

\* Any character but a quote, inside quotes.
LEMMA TakesQuoted ==
    ASSUME NEW R, NEW r, NEW c, NEW char, char # Quote, NEW next
    PROVE  Csv!Take(Inside(R, r, c), char, next) = Inside(R, r, Append(c, char))
BY DEF Csv!Take, Inside, State

\* A quote opens a cell, is doubled inside it, or closes it.
LEMMA TakesQuote ==
    ASSUME NEW R, NEW r, NEW c, NEW next
    PROVE  /\ Csv!Take(State(R, r, c, FALSE, FALSE), Quote, next) = State(R, r, c, TRUE, FALSE)
           /\ Csv!Take(State(R, r, c, TRUE, FALSE), Quote, Quote)
                = State(R, r, Append(c, Quote), TRUE, TRUE)
           /\ next # Quote => Csv!Take(State(R, r, c, TRUE, FALSE), Quote, next)
                                = State(R, r, c, FALSE, FALSE)
<1>1. Csv!Take(State(R, r, c, FALSE, FALSE), Quote, next) = State(R, r, c, TRUE, FALSE)
  BY DEF Csv!Take, Csv!TakeQuote, State
<1>2. Csv!Take(State(R, r, c, TRUE, FALSE), Quote, Quote)
        = State(R, r, Append(c, Quote), TRUE, TRUE)
  BY DEF Csv!Take, Csv!TakeQuote, State
<1>3. ASSUME next # Quote
      PROVE  Csv!Take(State(R, r, c, TRUE, FALSE), Quote, next) = State(R, r, c, FALSE, FALSE)
  BY <1>3 DEF Csv!Take, Csv!TakeQuote, State
<1> QED BY <1>1, <1>2, <1>3

\* A character that was taken with the one before it.
LEMMA TakesSkipped ==
    ASSUME NEW R, NEW r, NEW c, NEW q, NEW char, NEW next
    PROVE  Csv!Take(State(R, r, c, q, TRUE), char, next) = State(R, r, c, q, FALSE)
BY DEF Csv!Take, State

\* A comma ends a cell.
LEMMA TakesComma ==
    ASSUME NEW R, NEW r, NEW c, NEW next
    PROVE  Csv!Take(Between(R, r, c), Comma, next) = Between(R, Append(r, c), <<>>)
<1>1. PICK s, n : n = FALSE /\ s = State(R, r, c, n, n)
  OBVIOUS
<1>2. s.skip = FALSE /\ s.quoted = FALSE
  BY <1>1 DEF State
<1>3. Csv!Take(s, Comma, next) = Csv!EndCell(s)
  BY <1>2, SignsDifferIs DEF Csv!Take, SignsDiffer
<1>4. Csv!EndCell(s) = State(R, Append(r, c), <<>>, n, n)
  BY <1>1, EndCellIs
<1> QED BY <1>1, <1>3, <1>4 DEF Between

\* The end of a line ends the row; of two characters the second is skipped.
LEMMA TakesEnd ==
    ASSUME NEW R, NEW r, NEW c
    PROVE  /\ \A next : Csv!Take(Between(R, r, c), LF, next)
                          = Between(AddRow(R, Append(r, c)), <<>>, <<>>)
           /\ Csv!Take(Between(R, r, c), CR, LF)
                = State(AddRow(R, Append(r, c)), <<>>, <<>>, FALSE, TRUE)
<1>1. PICK s, t, n, y, A : /\ n = FALSE /\ y = TRUE /\ A = AddRow(R, Append(r, c))
                           /\ s = State(R, r, c, n, n) /\ t = State(A, <<>>, <<>>, n, n)
  OBVIOUS
<1>2. s.skip = FALSE /\ s.quoted = FALSE
  BY <1>1 DEF State
<1>3. Csv!EndRow(Csv!EndCell(s)) = t
  <2>1. Csv!EndCell(s) = State(R, Append(r, c), <<>>, n, n)
    BY <1>1, EndCellIs
  <2>2. Csv!EndRow(State(R, Append(r, c), <<>>, n, n)) = t
    BY <1>1, EndRowIs
  <2> QED BY <2>1, <2>2
<1>4. ASSUME NEW char \in {CR, LF}, NEW next
      PROVE  Csv!Take(s, char, next) = [t EXCEPT !.skip = char = CR /\ next = LF]
  BY <1>2, <1>3, <1>4, SignsDifferIs DEF Csv!Take, SignsDiffer
<1>5. ASSUME NEW next PROVE Csv!Take(s, LF, next) = t
  <2>1. (LF = CR /\ next = LF) = n
    BY <1>1, SignsDifferIs DEF SignsDiffer
  <2>2. Csv!Take(s, LF, next) = WithSkip(t, n)
    BY <1>4, <2>1 DEF WithSkip
  <2>3. WithSkip(t, n) = t
    BY <1>1, WithSkipIs
  <2> QED BY <2>2, <2>3
<1>6. Csv!Take(s, CR, LF) = State(A, <<>>, <<>>, n, y)
  <2>1. (CR = CR /\ LF = LF) = y
    BY <1>1
  <2>2. Csv!Take(s, CR, LF) = WithSkip(t, y)
    BY <1>4, <2>1 DEF WithSkip
  <2>3. WithSkip(t, y) = State(A, <<>>, <<>>, n, y)
    <3>1. WithSkip(State(A, <<>>, <<>>, n, n), y) = State(A, <<>>, <<>>, n, y)
      BY WithSkipIs
    <3> QED BY <1>1, <3>1
  <2> QED BY <2>2, <2>3
<1>7. s = Between(R, r, c) /\ t = Between(A, <<>>, <<>>)
  BY <1>1 DEF Between
<1>8. \A next : Csv!Take(Between(R, r, c), LF, next) = Between(A, <<>>, <<>>)
  BY <1>5, <1>7
<1>9. Csv!Take(Between(R, r, c), CR, LF) = State(A, <<>>, <<>>, FALSE, TRUE)
  BY <1>1, <1>6, <1>7
<1> QED BY <1>1, <1>8, <1>9

-----------------------------------------------------------------------------
(* The parser's runs                                                       *)

Takes(text, s, i) == Csv!Take(s, text[i], Look(text, i))
RunIs(f, text, n) ==
    f = [i \in 0..n |-> IF i = 0 THEN Csv!Start ELSE Takes(text, f[i - 1], i)]

\* The parser has a state after each character.
LEMMA RunsExist ==
    ASSUME NEW text, NEW n \in Nat
    PROVE  \E f : RunIs(f, text, n)
<1>1. PICK P : P = {k \in 0..n : \E f : RunIs(f, text, k)}
  OBVIOUS
<1>2. 0 \in P
  <2>1. PICK f : f = [i \in 0..0 |-> Csv!Start]
    OBVIOUS
  <2>2. \A i \in 0..0 : f[i] = IF i = 0 THEN Csv!Start ELSE Takes(text, f[i - 1], i)
    BY <2>1
  <2>3. f = [i \in 0..0 |-> f[i]]
    BY <2>1
  <2>4. RunIs(f, text, 0)
    BY <2>2, <2>3 DEF RunIs
  <2>5. 0 \in 0..n
    OBVIOUS
  <2> QED BY <1>1, <2>4, <2>5
<1>3. ASSUME NEW k \in 1..n, k - 1 \in P PROVE k \in P
  <2>1. PICK h : RunIs(h, text, k - 1)
    BY <1>1, <1>3
  <2>2. PICK f : f = [i \in 0..k |-> IF i = k THEN Takes(text, h[k - 1], k) ELSE h[i]]
    OBVIOUS
  <2>3. \A i \in 0..(k - 1) : h[i] = IF i = 0 THEN Csv!Start ELSE Takes(text, h[i - 1], i)
    BY <2>1 DEF RunIs
  <2>4. k \in 0..k /\ \A i \in 0..(k - 1) : i \in 0..k /\ i # k
    OBVIOUS
  <2>5. f[k] = Takes(text, h[k - 1], k) /\ \A i \in 0..(k - 1) : f[i] = h[i]
    BY <2>2, <2>4
  <2>6. ASSUME NEW i \in 0..k PROVE f[i] = IF i = 0 THEN Csv!Start ELSE Takes(text, f[i - 1], i)
    <3>1. CASE i = k
      <4>1. k - 1 \in 0..(k - 1) /\ i # 0
        BY <3>1
      <4> QED BY <3>1, <4>1, <2>5
    <3>2. CASE i # k /\ i = 0
      <4>1. i \in 0..(k - 1)
        BY <3>2
      <4> QED BY <3>2, <4>1, <2>3, <2>5
    <3>3. CASE i # k /\ i # 0
      <4>1. i \in 0..(k - 1) /\ i - 1 \in 0..(k - 1)
        BY <3>3
      <4> QED BY <3>3, <4>1, <2>3, <2>5
    <3> QED BY <3>1, <3>2, <3>3
  <2>7. f = [i \in 0..k |-> f[i]]
    BY <2>2
  <2>8. RunIs(f, text, k)
    BY <2>6, <2>7 DEF RunIs
  <2>9. k \in 0..n
    OBVIOUS
  <2> QED BY <1>1, <2>8, <2>9
<1>4. \A k \in 0..n : k \in P
  BY <1>2, <1>3, UpTo
<1>5. n \in P
  BY <1>4
<1> QED BY <1>1, <1>5

ParserRun(f, text) ==
    /\ f[0] = State(<<>>, <<>>, <<>>, FALSE, FALSE)
    /\ \A i \in 1..Len(text) : f[i] = Takes(text, f[i - 1], i)

\* What the parser answers for a text is what a run of it ends with.
LEMMA ParserRuns ==
    ASSUME NEW text, Len(text) \in Nat
    PROVE  \E f : /\ ParserRun(f, text)
                  /\ Csv!ParseCsvRows(text) = Csv!EndRow(Csv!EndCell(f[Len(text)])).rows
<1>1. PICK f : f = CHOOSE all : RunIs(all, text, Len(text))
  OBVIOUS
<1>2. RunIs(f, text, Len(text))
  BY <1>1, RunsExist
<1>3. Csv!ParseCsvRows(text) = Csv!EndRow(Csv!EndCell(f[Len(text)])).rows
  BY <1>1 DEF Csv!ParseCsvRows, RunIs, Takes, Look
<1>4. PICK n \in Nat : n = Len(text)
  OBVIOUS
<1>5. \A i \in 0..n : f[i] = IF i = 0 THEN Csv!Start ELSE Takes(text, f[i - 1], i)
  BY <1>2, <1>4 DEF RunIs
<1>6. f[0] = Csv!Start
  <2>1. 0 \in 0..n
    OBVIOUS
  <2> QED BY <1>5, <2>1
<1>7. ASSUME NEW i \in 1..n PROVE f[i] = Takes(text, f[i - 1], i)
  <2>1. i \in 0..n /\ i # 0
    OBVIOUS
  <2> QED BY <1>5, <2>1
<1>8. Csv!Start = State(<<>>, <<>>, <<>>, FALSE, FALSE)
  BY DEF Csv!Start, State
<1> QED BY <1>3, <1>4, <1>6, <1>7, <1>8 DEF ParserRun

-----------------------------------------------------------------------------
(* The cells of a text                                                     *)

Parsing(f, text) == Len(text) \in Nat /\ ParserRun(f, text)
Prefix(w, i) == [j \in 1..i |-> w[j]]
Signs == Chars \cup Special

\* A text grows by its characters.
LEMMA PrefixIs ==
    ASSUME NEW S, NEW w \in Seq(S)
    PROVE  /\ Prefix(w, 0) = <<>> /\ Prefix(w, Len(w)) = w
           /\ \A i \in 1..Len(w) : Append(Prefix(w, i - 1), w[i]) = Prefix(w, i)
<1>1. PICK n \in Nat : n = Len(w)
  OBVIOUS
<1>2. w = [j \in 1..n |-> w[j]] /\ \A i \in 1..n : w[i] \in S
  BY <1>1
<1>3. Prefix(w, n) = w
  BY <1>2 DEF Prefix
<1>4. Prefix(w, 0) = <<>>
  <2>1. Prefix(w, 0) \in Seq(S) /\ Len(Prefix(w, 0)) = 0
    BY DEF Prefix
  <2> QED BY <2>1
<1>5. ASSUME NEW i \in 1..n PROVE Append(Prefix(w, i - 1), w[i]) = Prefix(w, i)
  <2>0. PICK k \in Nat : k = i - 1
    <3>1. i - 1 \in Nat
      OBVIOUS
    <3> QED BY <3>1
  <2>1. PICK u, v : k = i - 1 /\ u = Prefix(w, i - 1) /\ v = Prefix(w, i)
    BY <2>0
  <2>2. k \in 0..n /\ i = k + 1 /\ \A j \in 1..i : j \in 1..n
    BY <2>1
  <2>3. u = [j \in 1..k |-> w[j]] /\ v = [j \in 1..(k + 1) |-> w[j]]
    BY <2>1, <2>2 DEF Prefix
  <2>4. u \in Seq(S) /\ v \in Seq(S) /\ Len(u) = k /\ Len(v) = k + 1
    <3>1. \A j \in 1..k : w[j] \in S
      BY <1>2, <2>2
    <3>2. \A j \in 1..(k + 1) : w[j] \in S
      BY <1>2, <2>2
    <3> QED BY <2>3, <3>1, <3>2
  <2>5. PICK x \in S : x = w[i]
    BY <1>2
  <2>6. Append(u, x) \in Seq(S) /\ Len(Append(u, x)) = k + 1
    BY <2>4
  <2>7. \A j \in 1..(k + 1) : Append(u, x)[j] = v[j]
    BY <2>2, <2>3, <2>4, <2>5
  <2>8. Append(u, x) = v
    BY <2>4, <2>6, <2>7
  <2> QED BY <2>1, <2>5, <2>8
<1> QED BY <1>1, <1>3, <1>4, <1>5

\* The state after a character is a step from the one before.
LEMMA StepAt ==
    ASSUME NEW f, NEW text, Parsing(f, text), NEW p \in Nat, p + 1 <= Len(text)
    PROVE  f[p + 1] = Csv!Take(f[p], text[p + 1], Look(text, p + 1))
<1>1. PICK i : i = p + 1
  OBVIOUS
<1>2. i \in 1..Len(text) /\ i - 1 = p
  BY <1>1 DEF Parsing
<1>3. f[i] = Takes(text, f[i - 1], i)
  BY <1>2 DEF Parsing, ParserRun
<1> QED BY <1>1, <1>2, <1>3 DEF Takes

\* A cell without signs that matter stands for itself.
LEMMA PlainIsRead ==
    ASSUME NEW w \in Seq(Signs), NEW f, NEW text, Parsing(f, text), NEW p \in Nat,
           Spells(text, p, w), \A i \in 1..Len(w) : w[i] \notin Special,
           NEW R, NEW r, f[p] = Between(R, r, <<>>)
    PROVE  f[p + Len(w)] = Between(R, r, w)
<1>1. PICK n \in Nat : n = Len(w)
  OBVIOUS
<1>2. /\ p + n <= Len(text) /\ Len(text) \in Nat
      /\ \A i \in 1..n : text[p + i] = w[i] /\ w[i] \notin Special
  BY <1>1 DEF Spells, Parsing
<1>3. PICK P : P = {i \in 0..n : f[p + i] = Between(R, r, Prefix(w, i))}
  OBVIOUS
<1>4. 0 \in P
  <2>1. 0 \in 0..n /\ p + 0 = p
    OBVIOUS
  <2>2. Prefix(w, 0) = <<>>
    BY PrefixIs
  <2> QED BY <1>3, <2>1, <2>2
<1>5. ASSUME NEW i \in 1..n, i - 1 \in P PROVE i \in P
  <2>1. PICK m : m = p + (i - 1)
    OBVIOUS
  <2>2. m \in Nat /\ m + 1 = p + i /\ m + 1 <= Len(text) /\ i \in 0..n
    BY <1>2, <2>1
  <2>3. f[m + 1] = Csv!Take(f[m], text[m + 1], Look(text, m + 1))
    BY <2>2, StepAt
  <2>4. f[m] = Between(R, r, Prefix(w, i - 1))
    BY <1>3, <1>5, <2>1
  <2>5. text[m + 1] = w[i] /\ w[i] \notin Special
    BY <1>2, <2>2
  <2>6. f[m + 1] = Between(R, r, Append(Prefix(w, i - 1), w[i]))
    <3>1. PICK x, y, u : x = w[i] /\ y = Look(text, m + 1) /\ u = Prefix(w, i - 1)
      OBVIOUS
    <3>2. x \notin Special
      BY <2>5, <3>1
    <3>3. Csv!Take(Between(R, r, u), x, y) = Between(R, r, Append(u, x))
      BY <3>2, TakesPlain
    <3> QED BY <2>3, <2>4, <2>5, <3>1, <3>3
  <2>7. Append(Prefix(w, i - 1), w[i]) = Prefix(w, i)
    BY <1>1, PrefixIs
  <2>8. f[p + i] = Between(R, r, Prefix(w, i))
    BY <2>2, <2>6, <2>7
  <2> QED BY <1>3, <2>2, <2>8
<1>6. \A i \in 0..n : i \in P
  BY <1>4, <1>5, UpTo
<1>7. f[p + n] = Between(R, r, Prefix(w, n))
  BY <1>3, <1>6
<1>8. Prefix(w, n) = w
  BY <1>1, PrefixIs
<1> QED BY <1>1, <1>7, <1>8

\* Within quotes a sign stands for itself, and a quote for two.
Doubled(w) == [i \in DOMAIN w |-> IF w[i] = Quote THEN <<Quote, Quote>> ELSE <<w[i]>>]

\* The characters of a cell with its quotes doubled are texts.
LEMMA DoubledPieces ==
    ASSUME NEW w \in Seq(Signs)
    PROVE  Pieces(Doubled(w), Len(w), Signs)
<1>1. PICK n \in Nat : n = Len(w) /\ DOMAIN w = 1..n
  OBVIOUS
<1>2. ASSUME NEW i \in 1..n PROVE Doubled(w)[i] \in Seq(Signs)
  <2>1. Doubled(w)[i] = IF w[i] = Quote THEN <<Quote, Quote>> ELSE <<w[i]>>
    BY <1>1 DEF Doubled
  <2>2. Quote \in Signs /\ w[i] \in Signs
    BY <1>1 DEF Signs, Special
  <2> QED BY <2>1, <2>2
<1>3. Len(Doubled(w)) = n
  BY <1>1 DEF Doubled
<1> QED BY <1>1, <1>2, <1>3 DEF Pieces

\* What stands between the quotes of a cell is read as the cell.
LEMMA InsideIsRead ==
    ASSUME NEW w \in Seq(Signs), NEW f, NEW text, Parsing(f, text), NEW p \in Nat,
           Spells(text, p, Concat(Doubled(w))),
           NEW R, NEW r, f[p] = Inside(R, r, <<>>)
    PROVE  f[p + Len(Concat(Doubled(w)))] = Inside(R, r, w)
<1>0. PICK n \in Nat : n = Len(w) /\ DOMAIN w = 1..n
  OBVIOUS
<1>1. PICK q : n = Len(w) /\ DOMAIN w = 1..n /\ q = Doubled(w)
  BY <1>0
<1>2. Pieces(q, n, Signs)
  BY <1>1, DoubledPieces
<1>3. Len(text) \in Nat
  BY DEF Parsing
<1>4. Spells(text, p, Concat(q))
  BY <1>1
<1>5. PICK off : Offsets(off, text, p, q, n)
  BY <1>2, <1>3, <1>4, OffsetsExist
<1>6. PICK P : P = {i \in 0..n : f[off[i]] = Inside(R, r, Prefix(w, i))}
  OBVIOUS
<1>7. 0 \in P
  <2>1. 0 \in 0..n /\ off[0] = p
    BY <1>5 DEF Offsets
  <2>2. Prefix(w, 0) = <<>>
    BY PrefixIs
  <2> QED BY <1>6, <2>1, <2>2
<1>8. ASSUME NEW i \in 1..n, i - 1 \in P PROVE i \in P
  <2>1. PICK m, b, u, v : /\ m = off[i - 1] /\ b = q[i]
                          /\ u = Prefix(w, i - 1) /\ v = Prefix(w, i)
    OBVIOUS
  <2>2. i \in 0..n /\ i - 1 \in 0..n
    OBVIOUS
  <2>3. m \in Nat /\ off[i] = m + Len(b) /\ Spells(text, m, b)
    BY <1>5, <2>1, <2>2 DEF Offsets
  <2>4. f[m] = State(R, r, u, TRUE, FALSE)
    BY <1>6, <1>8, <2>1 DEF Inside
  <2>5. Append(u, w[i]) = v
    BY <1>1, <2>1, PrefixIs
  <2>6. b = IF w[i] = Quote THEN <<Quote, Quote>> ELSE <<w[i]>>
    BY <1>1, <2>1 DEF Doubled
  <2>7. CASE w[i] # Quote
    <3>1. b = <<w[i]>> /\ Len(b) = 1 /\ b[1] = w[i]
      BY <2>6, <2>7
    <3>2. m + 1 <= Len(text) /\ text[m + 1] = w[i]
      BY <2>3, <3>1 DEF Spells
    <3>3. f[m + 1] = Csv!Take(f[m], text[m + 1], Look(text, m + 1))
      BY <2>3, <3>2, StepAt
    <3>4. f[m + 1] = Inside(R, r, Append(u, w[i]))
      <4>1. PICK x, y : x = w[i] /\ y = Look(text, m + 1)
        OBVIOUS
      <4>2. x # Quote
        BY <2>7, <4>1
      <4>3. Csv!Take(Inside(R, r, u), x, y) = Inside(R, r, Append(u, x))
        BY <4>2, TakesQuoted
      <4>4. f[m] = Inside(R, r, u)
        BY <2>4 DEF Inside
      <4> QED BY <3>2, <3>3, <4>1, <4>3, <4>4
    <3> QED BY <1>6, <2>1, <2>2, <2>3, <2>5, <3>1, <3>4
  <2>8. CASE w[i] = Quote
    <3>1. b = <<Quote, Quote>> /\ Len(b) = 2 /\ b[1] = Quote /\ b[2] = Quote
      BY <2>6, <2>8
    <3>2. m + 2 <= Len(text) /\ text[m + 1] = Quote /\ text[m + 2] = Quote
      BY <2>3, <3>1 DEF Spells
    <3>3. PICK k : k = m + 1
      OBVIOUS
    <3>4. k \in Nat /\ k + 1 = m + 2 /\ k < Len(text) /\ m + 1 <= Len(text) /\ k + 1 <= Len(text)
      BY <1>3, <2>3, <3>2, <3>3
    <3>5. Look(text, k) = Quote
      BY <3>2, <3>4 DEF Look
    <3>6. f[k] = Csv!Take(f[m], Quote, Quote)
      BY <2>3, <3>2, <3>3, <3>4, <3>5, StepAt
    <3>7. f[k] = State(R, r, Append(u, Quote), TRUE, TRUE)
      BY <2>4, <3>6, TakesQuote
    <3>8. f[k + 1] = Csv!Take(f[k], text[k + 1], Look(text, k + 1))
      BY <3>4, StepAt
    <3>9. f[k + 1] = State(R, r, Append(u, Quote), TRUE, FALSE)
      BY <3>7, <3>8, TakesSkipped
    <3> QED BY <1>6, <2>1, <2>2, <2>3, <2>5, <2>8, <3>1, <3>4, <3>9 DEF Inside
  <2> QED BY <2>7, <2>8
<1>9. \A i \in 0..n : i \in P
  BY <1>7, <1>8, UpTo
<1>10. f[off[n]] = Inside(R, r, Prefix(w, n))
  BY <1>6, <1>9
<1>11. Prefix(w, n) = w
  BY <1>1, PrefixIs
<1>12. off[n] = p + Len(Concat(q))
  BY <1>5 DEF Offsets
<1> QED BY <1>1, <1>10, <1>11, <1>12

\* A printed cell is a text.
LEMMA CellSeq ==
    ASSUME NEW w \in Seq(Signs)
    PROVE  Concat(Doubled(w)) \in Seq(Signs) /\ PrintCell(w) \in Seq(Signs)
<1>1. PICK n \in Nat : n = Len(w) /\ Pieces(Doubled(w), n, Signs)
  BY DoubledPieces
<1>2. PICK g : Joined(g, Doubled(w), n, Signs)
  BY <1>1, ConcatIs
<1>3. Concat(Doubled(w)) \in Seq(Signs)
  BY <1>2 DEF Joined
<1>4. <<Quote>> \in Seq(Signs)
  BY DEF Signs, Special
<1>5. (<<Quote>> \o Concat(Doubled(w))) \o <<Quote>> \in Seq(Signs)
  BY <1>3, <1>4
<1>6. PrintCell(w) \in {w, (<<Quote>> \o Concat(Doubled(w))) \o <<Quote>>}
  BY DEF PrintCell, Doubled
<1> QED BY <1>3, <1>5, <1>6

\* A cell is read back, unless a quote follows it.
LEMMA CellIsRead ==
    ASSUME NEW w \in Seq(Signs), NEW f, NEW text, Parsing(f, text), NEW p \in Nat,
           Spells(text, p, PrintCell(w)), Look(text, p + Len(PrintCell(w))) # Quote,
           NEW R, NEW r, f[p] = Between(R, r, <<>>)
    PROVE  f[p + Len(PrintCell(w))] = Between(R, r, w)
<1>1. CASE ~ \E i \in DOMAIN w : w[i] \in Special
  <2>1. PrintCell(w) = w
    BY <1>1 DEF PrintCell, Special
  <2>2. \A i \in 1..Len(w) : w[i] \notin Special
    BY <1>1
  <2> QED BY <2>1, <2>2, PlainIsRead
<1>2. CASE \E i \in DOMAIN w : w[i] \in Special
  <2>1. PICK c, o, t : /\ c = Concat(Doubled(w)) /\ o = <<Quote>> /\ t = o \o c
    OBVIOUS
  <2>2. PrintCell(w) = t \o o
    BY <1>2, <2>1 DEF PrintCell, Special, Doubled
  <2>3. o \in Seq(Signs) /\ Len(o) = 1 /\ o[1] = Quote
    BY <2>1 DEF Signs, Special
  <2>4. c \in Seq(Signs) /\ t \in Seq(Signs)
    BY <2>1, <2>3, CellSeq
  <2>5. Len(text) \in Nat
    BY DEF Parsing
  <2>6. Spells(text, p, t \o o)
    BY <2>2
  <2>7. /\ Spells(text, p, t) /\ Spells(text, p + Len(t), o)
        /\ Len(t \o o) = Len(t) + Len(o) /\ p + Len(t) \in Nat
    BY <2>3, <2>4, <2>5, <2>6, SpellsParts
  <2>8. Spells(text, p, o \o c)
    BY <2>1, <2>7
  <2>9. /\ Spells(text, p, o) /\ Spells(text, p + Len(o), c)
        /\ Len(o \o c) = Len(o) + Len(c) /\ p + Len(o) \in Nat
    BY <2>3, <2>4, <2>5, <2>8, SpellsParts
  <2>10. p + 1 <= Len(text) /\ text[p + 1] = Quote
    BY <2>3, <2>9 DEF Spells
  <2>11. f[p + 1] = Csv!Take(f[p], text[p + 1], Look(text, p + 1))
    BY <2>10, StepAt
  <2>12. f[p + 1] = Inside(R, r, <<>>)
    <3>1. f[p] = State(R, r, <<>>, FALSE, FALSE)
      BY DEF Between
    <3>2. Csv!Take(State(R, r, <<>>, FALSE, FALSE), Quote, Look(text, p + 1))
            = State(R, r, <<>>, TRUE, FALSE)
      BY TakesQuote
    <3> QED BY <2>10, <2>11, <3>1, <3>2 DEF Inside
  <2>13. f[(p + 1) + Len(c)] = Inside(R, r, w)
    <3>1. p + 1 \in Nat /\ Spells(text, p + 1, Concat(Doubled(w)))
      BY <2>1, <2>3, <2>9
    <3>2. f[(p + 1) + Len(Concat(Doubled(w)))] = Inside(R, r, w)
      BY <2>12, <3>1, InsideIsRead
    <3> QED BY <2>1, <3>2
  <2>14. PICK m : m = p + Len(t)
    OBVIOUS
  <2>15. Len(c) \in Nat /\ Len(t) = 1 + Len(c)
    BY <2>1, <2>3, <2>4, <2>9
  <2>16. m \in Nat /\ (p + 1) + Len(c) = m /\ m + 1 = p + Len(PrintCell(w))
    BY <2>2, <2>3, <2>7, <2>14, <2>15
  <2>17. m + 1 <= Len(text) /\ text[m + 1] = Quote
    BY <2>3, <2>7, <2>14 DEF Spells
  <2>18. f[m + 1] = Csv!Take(f[m], Quote, Look(text, m + 1))
    BY <2>16, <2>17, StepAt
  <2>19. f[m] = State(R, r, w, TRUE, FALSE)
    BY <2>13, <2>16 DEF Inside
  <2>20. Look(text, m + 1) # Quote
    BY <2>16
  <2>21. f[m + 1] = State(R, r, w, FALSE, FALSE)
    BY <2>18, <2>19, <2>20, TakesQuote
  <2> QED BY <2>16, <2>21 DEF Between
<1> QED BY <1>1, <1>2

-----------------------------------------------------------------------------
(* The rows of a text                                                      *)

RowPieces(cells) == [i \in DOMAIN cells |->
                       (IF i = 1 THEN <<>> ELSE <<Comma>>) \o PrintCell(cells[i])]
RowOf(cells, m) ==
    /\ m \in Nat /\ Len(cells) = m /\ DOMAIN cells = 1..m /\ cells \in Seq(Seq(Signs))
    /\ \A i \in 1..m : cells[i] \in Seq(Signs)

\* So are the marks between cells and the ends of lines.
LEMMA MarksAreTexts ==
    /\ <<>> \in Seq(Signs) /\ <<Comma>> \in Seq(Signs)
    /\ \A eol \in {<<LF>>, <<CR, LF>>} : eol \in Seq(Signs)
<1>1. Comma \in Signs /\ CR \in Signs /\ LF \in Signs
  BY DEF Signs, Special
<1>2. <<Comma>> \in Seq(Signs) /\ <<LF>> \in Seq(Signs) /\ <<CR, LF>> \in Seq(Signs)
  BY <1>1
<1> QED BY <1>2

\* A printed row is made of its cells and the commas before them.
LEMMA RowPiecesAre ==
    ASSUME NEW cells, NEW m \in Nat, RowOf(cells, m)
    PROVE  Pieces(RowPieces(cells), m, Signs) /\ PrintRow(cells) \in Seq(Signs)
<1>1. ASSUME NEW i \in 1..m PROVE RowPieces(cells)[i] \in Seq(Signs)
  <2>1. PICK a, b : a = (IF i = 1 THEN <<>> ELSE <<Comma>>) /\ b = PrintCell(cells[i])
    OBVIOUS
  <2>2. a \in Seq(Signs)
    BY <2>1, MarksAreTexts
  <2>3. b \in Seq(Signs)
    BY <2>1, CellSeq DEF RowOf
  <2>4. RowPieces(cells)[i] = a \o b
    BY <2>1 DEF RowPieces, RowOf
  <2> QED BY <2>2, <2>3, <2>4
<1>2. Len(RowPieces(cells)) = m
  BY DEF RowPieces, RowOf
<1>3. Pieces(RowPieces(cells), m, Signs)
  BY <1>1, <1>2 DEF Pieces
<1>4. PICK g : Joined(g, RowPieces(cells), m, Signs)
  BY <1>3, ConcatIs
<1>5. PrintRow(cells) = g[m] /\ m \in 0..m
  BY <1>4 DEF Joined, PrintRow, RowPieces
<1> QED BY <1>3, <1>4, <1>5 DEF Joined

\* A row that is read is handed on, be it that of a line without any sign.
LEMMA BlankAddsNothing == ASSUME NEW R PROVE AddRow(R, << <<>> >>) = R /\ AddRow(R, <<>>) = R
<1>1. Csv!Trimmed(<<>>) = <<>>
  BY DEF Csv!Trimmed
<1>2. CleanRow(<< <<>> >>)[1] = <<>> /\ DOMAIN CleanRow(<< <<>> >>) = {1}
  BY <1>1 DEF CleanRow
<1>3. DOMAIN CleanRow(<<>>) = {}
  BY DEF CleanRow
<1> QED BY <1>2, <1>3 DEF AddRow

RowReads(R, s, cells) ==
    \E r, c : s = Between(R, r, c) /\ AddRow(R, Append(r, c)) = AddRow(R, cells)

\* A printed row is read as its cells, the last of them not yet ended.
LEMMA RowIsRead ==
    ASSUME NEW cells, NEW m \in Nat, RowOf(cells, m), NEW f, NEW text, Parsing(f, text),
           NEW p \in Nat, Spells(text, p, PrintRow(cells)),
           Look(text, p + Len(PrintRow(cells))) # Quote,
           NEW R, f[p] = Between(R, <<>>, <<>>)
    PROVE  RowReads(R, f[p + Len(PrintRow(cells))], cells)
<1>1. PICK q : q = RowPieces(cells)
  OBVIOUS
<1>2. Pieces(q, m, Signs) /\ PrintRow(cells) = Concat(q)
  BY <1>1, RowPiecesAre DEF PrintRow, RowPieces
<1>3. Len(text) \in Nat /\ Spells(text, p, Concat(q))
  BY <1>2 DEF Parsing
<1>4. PICK off : Offsets(off, text, p, q, m)
  BY <1>2, <1>3, OffsetsExist
<1>5. off[0] = p /\ off[m] = p + Len(PrintRow(cells))
  BY <1>2, <1>4 DEF Offsets
<1>6. PICK P : P = {i \in 0..m : i # 0 => f[off[i]] = Between(R, Prefix(cells, i - 1), cells[i])}
  OBVIOUS
<1>7. 0 \in P
  <2>1. 0 \in 0..m
    OBVIOUS
  <2> QED BY <1>6, <2>1
<1>8. ASSUME NEW i \in 1..m, i - 1 \in P PROVE i \in P
  <2>1. PICK k, w, a, b : /\ k = off[i - 1] /\ w = cells[i] /\ b = PrintCell(w)
                          /\ a = (IF i = 1 THEN <<>> ELSE <<Comma>>)
    OBVIOUS
  <2>2. w \in Seq(Signs) /\ b \in Seq(Signs) /\ a \in Seq(Signs)
    <3>1. w \in Seq(Signs)
      BY <2>1 DEF RowOf
    <3>2. a \in Seq(Signs)
      BY <2>1, MarksAreTexts
    <3> QED BY <2>1, <3>1, <3>2, CellSeq
  <2>3. q[i] = a \o b
    BY <1>1, <2>1 DEF RowPieces, RowOf
  <2>4. i - 1 \in 0..m /\ i \in 0..m /\ i # 0
    OBVIOUS
  <2>5. k \in Nat /\ off[i] = k + Len(a \o b) /\ Spells(text, k, a \o b)
    BY <1>4, <2>1, <2>3, <2>4 DEF Offsets
  <2>6. /\ Spells(text, k, a) /\ Spells(text, k + Len(a), b)
        /\ Len(a \o b) = Len(a) + Len(b) /\ k + Len(a) \in Nat
    BY <1>3, <2>2, <2>5, SpellsParts
  <2>7. PICK l \in Nat : l = k + Len(a)
    BY <2>6
  <2>8. Len(a) \in Nat /\ Len(b) \in Nat
    BY <2>2
  <2>9. off[i] = l + Len(b)
    BY <2>5, <2>6, <2>7, <2>8
  <2>10. f[l] = Between(R, Prefix(cells, i - 1), <<>>)
    <3>1. CASE i = 1
      <4>1. i - 1 = 0 /\ Len(a) = 0
        BY <2>1, <3>1
      <4>2. Prefix(cells, 0) = <<>>
        BY PrefixIs DEF RowOf
      <4>3. l = p
        BY <1>5, <2>1, <2>7, <4>1
      <4> QED BY <4>1, <4>2, <4>3
    <3>2. CASE i # 1
      <4>1. a = <<Comma>> /\ Len(a) = 1 /\ a[1] = Comma
        BY <2>1, <3>2
      <4>2. l = k + 1 /\ k + 1 <= Len(text) /\ text[k + 1] = Comma
        BY <2>6, <2>7, <4>1 DEF Spells
      <4>3. f[k + 1] = Csv!Take(f[k], Comma, Look(text, k + 1))
        BY <2>5, <4>2, StepAt
      <4>4. i - 1 # 0 /\ i - 1 \in 1..m
        BY <3>2
      <4>5. f[k] = Between(R, Prefix(cells, (i - 1) - 1), cells[i - 1])
        BY <1>6, <1>8, <2>1, <4>4
      <4>6. Append(Prefix(cells, (i - 1) - 1), cells[i - 1]) = Prefix(cells, i - 1)
        BY <4>4, PrefixIs DEF RowOf
      <4>7. f[k + 1] = Between(R, Append(Prefix(cells, (i - 1) - 1), cells[i - 1]), <<>>)
        BY <4>3, <4>5, TakesComma
      <4> QED BY <4>2, <4>6, <4>7
    <3> QED BY <3>1, <3>2
  <2>11. Look(text, l + Len(b)) # Quote
    <3>1. CASE i = m
      BY <1>5, <2>9, <3>1
    <3>2. CASE i # m
      <4>1. PICK j : j = i + 1
        OBVIOUS
      <4>2. j \in 1..m /\ j - 1 = i /\ j # 1
        BY <3>2, <4>1
      <4>3. PICK d, h : d = PrintCell(cells[j]) /\ h = <<Comma>>
        OBVIOUS
      <4>4. q[j] = h \o d
        BY <1>1, <4>2, <4>3 DEF RowPieces, RowOf
      <4>5. d \in Seq(Signs) /\ h \in Seq(Signs)
        <5>1. cells[j] \in Seq(Signs)
          BY <4>2 DEF RowOf
        <5> QED BY <4>3, <5>1, CellSeq DEF Signs, Special
      <4>6. PICK o \in Nat : o = off[i]
        BY <1>4, <2>4 DEF Offsets
      <4>7. Spells(text, o, h \o d)
        BY <1>4, <4>2, <4>4, <4>6 DEF Offsets
      <4>8. Spells(text, o, h)
        BY <1>3, <4>5, <4>7, SpellsParts
      <4>9. Len(h) = 1 /\ h[1] = Comma
        BY <4>3
      <4>10. o + 1 <= Len(text) /\ text[o + 1] = Comma
        BY <4>8, <4>9 DEF Spells
      <4>11. Look(text, o) = Comma
        BY <1>3, <4>10 DEF Look
      <4>12. Comma # Quote
        BY SignsDifferIs DEF SignsDiffer
      <4> QED BY <2>9, <4>6, <4>11, <4>12
    <3> QED BY <3>1, <3>2
  <2>12. f[l + Len(PrintCell(w))] = Between(R, Prefix(cells, i - 1), w)
    <3>1. Spells(text, l, PrintCell(w)) /\ Look(text, l + Len(PrintCell(w))) # Quote
      BY <2>1, <2>6, <2>7, <2>11
    <3> QED BY <2>2, <2>10, <3>1, CellIsRead
  <2> QED BY <1>6, <2>1, <2>4, <2>9, <2>12
<1>9. \A i \in 0..m : i \in P
  BY <1>7, <1>8, UpTo
<1>10. CASE m = 0
  <2>1. f[off[m]] = Between(R, <<>>, <<>>)
    BY <1>5, <1>10
  <2>2. cells = <<>> /\ Append(<<>>, <<>>) = << <<>> >>
    BY <1>10 DEF RowOf
  <2>3. AddRow(R, Append(<<>>, <<>>)) = AddRow(R, cells)
    BY <2>2, BlankAddsNothing
  <2> QED BY <1>5, <2>1, <2>3 DEF RowReads
<1>11. CASE m # 0
  <2>1. m \in 1..m /\ m \in 0..m
    BY <1>11
  <2>2. f[off[m]] = Between(R, Prefix(cells, m - 1), cells[m])
    BY <1>6, <1>9, <1>11, <2>1
  <2>3. Append(Prefix(cells, m - 1), cells[m]) = cells
    BY <2>1, PrefixIs DEF RowOf
  <2> QED BY <1>5, <2>2, <2>3 DEF RowReads
<1> QED BY <1>10, <1>11

LineEnd(eol) == eol \in {<<LF>>, <<CR, LF>>}

\* The end of a line hands the row on.
LEMMA LineIsRead ==
    ASSUME NEW cells, NEW m \in Nat, RowOf(cells, m), NEW f, NEW text, Parsing(f, text),
           NEW eol, LineEnd(eol),
           NEW p \in Nat, Spells(text, p, PrintRow(cells) \o eol),
           NEW R, f[p] = Between(R, <<>>, <<>>)
    PROVE  f[p + Len(PrintRow(cells) \o eol)] = Between(AddRow(R, cells), <<>>, <<>>)
<1>1. PICK w : w = PrintRow(cells)
  OBVIOUS
<1>2. w \in Seq(Signs) /\ eol \in Seq(Signs)
  <2>1. eol \in Seq(Signs)
    BY MarksAreTexts, Zenon DEF LineEnd
  <2> QED BY <1>1, <2>1, RowPiecesAre
<1>3. Len(text) \in Nat /\ Spells(text, p, w \o eol)
  BY <1>1 DEF Parsing
<1>4. /\ Spells(text, p, w) /\ Spells(text, p + Len(w), eol)
      /\ Len(w \o eol) = Len(w) + Len(eol) /\ p + Len(w) \in Nat
  BY <1>2, <1>3, SpellsParts
<1>5. PICK k \in Nat : k = p + Len(w)
  BY <1>4
<1>6. \/ Len(eol) = 1 /\ eol[1] = LF
      \/ Len(eol) = 2 /\ eol[1] = CR /\ eol[2] = LF
  BY DEF LineEnd
<1>7. k + Len(eol) <= Len(text) /\ \A j \in 1..Len(eol) : text[k + j] = eol[j]
  BY <1>4, <1>5 DEF Spells
<1>8. k + 1 <= Len(text) /\ text[k + 1] = eol[1] /\ k < Len(text)
  BY <1>3, <1>6, <1>7
<1>9. Look(text, k) # Quote
  <2>1. Look(text, k) = eol[1]
    BY <1>8 DEF Look
  <2> QED BY <1>6, <2>1, SignsDifferIs DEF SignsDiffer
<1>10. RowReads(R, f[k], cells)
  <2>1. Spells(text, p, PrintRow(cells)) /\ Look(text, p + Len(PrintRow(cells))) # Quote
    BY <1>1, <1>4, <1>5, <1>9
  <2> QED BY <1>1, <1>5, <2>1, RowIsRead
<1>11. PICK r, c : f[k] = Between(R, r, c) /\ AddRow(R, Append(r, c)) = AddRow(R, cells)
  BY <1>10 DEF RowReads
<1>12. f[k + 1] = Csv!Take(f[k], eol[1], Look(text, k + 1))
  BY <1>8, StepAt
<1>13. Len(w) \in Nat
  BY <1>2
<1>14. CASE Len(eol) = 1 /\ eol[1] = LF
  <2>1. f[k + 1] = Between(AddRow(R, Append(r, c)), <<>>, <<>>)
    <3>1. PICK y : y = Look(text, k + 1)
      OBVIOUS
    <3>2. Csv!Take(Between(R, r, c), LF, y) = Between(AddRow(R, Append(r, c)), <<>>, <<>>)
      BY TakesEnd
    <3> QED BY <1>11, <1>12, <1>14, <3>1, <3>2
  <2>2. p + Len(w \o eol) = k + 1
    BY <1>4, <1>5, <1>13, <1>14
  <2> QED BY <1>1, <1>11, <2>1, <2>2
<1>15. CASE Len(eol) = 2 /\ eol[1] = CR /\ eol[2] = LF
  <2>1. PICK l : l = k + 1
    OBVIOUS
  <2>2. text[k + 2] = LF /\ k + 2 <= Len(text)
    BY <1>7, <1>15
  <2>3. l \in Nat /\ l + 1 = k + 2 /\ l + 1 <= Len(text) /\ l < Len(text)
    BY <1>3, <2>1, <2>2
  <2>4. Look(text, l) = LF
    BY <2>2, <2>3 DEF Look
  <2>5. f[l] = State(AddRow(R, Append(r, c)), <<>>, <<>>, FALSE, TRUE)
    BY <1>11, <1>12, <1>15, <2>1, <2>4, TakesEnd
  <2>6. f[l + 1] = Csv!Take(f[l], text[l + 1], Look(text, l + 1))
    BY <2>3, StepAt
  <2>7. f[l + 1] = Between(AddRow(R, Append(r, c)), <<>>, <<>>)
    <3>1. PICK s : s = AddRow(R, Append(r, c))
      OBVIOUS
    <3>2. PICK x, y : x = text[l + 1] /\ y = Look(text, l + 1)
      OBVIOUS
    <3>3. Csv!Take(State(s, <<>>, <<>>, FALSE, TRUE), x, y) = State(s, <<>>, <<>>, FALSE, FALSE)
      BY TakesSkipped
    <3>4. f[l + 1] = State(s, <<>>, <<>>, FALSE, FALSE)
      BY <2>5, <2>6, <3>1, <3>2, <3>3, Zenon
    <3> QED BY <3>1, <3>4, Zenon DEF Between
  <2>8. p + Len(w \o eol) = l + 1
    BY <1>4, <1>5, <1>13, <1>15, <2>3
  <2> QED BY <1>1, <1>11, <2>7, <2>8
<1> QED BY <1>6, <1>14, <1>15

-----------------------------------------------------------------------------
(* The tables that are written are read back                               *)

LinePieces(in) ==
    [i \in DOMAIN in.rows |->
       PrintRow(in.rows[i]) \o (IF i < Len(in.rows) \/ in.ends THEN in.eol ELSE <<>>)]
CleanPieces(rows) ==
    [i \in DOMAIN rows |-> IF \E j \in DOMAIN CleanRow(rows[i]) : CleanRow(rows[i])[j] # <<>>
                           THEN <<CleanRow(rows[i])>> ELSE <<>>]

\* The text of a table is its lines joined.
LEMMA WrittenIs == ASSUME NEW in PROVE TextOf(in) = Concat(LinePieces(in))
BY DEF TextOf, LinePieces

\* The cleaned table is its rows joined, without the blank ones.
LEMMA CleanedIs == ASSUME NEW rows PROVE Cleaned(rows) = Concat(CleanPieces(rows))
BY DEF Cleaned, CleanPieces, CleanRow

\* A sequence over a set is one over a larger set.
LEMMA WiderSeq ==
    ASSUME NEW S, NEW T, S \subseteq T, NEW w \in Seq(S)
    PROVE  w \in Seq(T)
OBVIOUS

\* A table has rows of cells.
LEMMA RowsAre ==
    ASSUME NEW rows, rows \in Seq(Seq(Seq(Chars)))
    PROVE  /\ Len(rows) \in Nat /\ DOMAIN rows = 1..Len(rows)
           /\ \A i \in 1..Len(rows) : RowOf(rows[i], Len(rows[i]))
<1>1. Len(rows) \in Nat /\ DOMAIN rows = 1..Len(rows)
  OBVIOUS
<1>2. ASSUME NEW i \in 1..Len(rows) PROVE RowOf(rows[i], Len(rows[i]))
  <2>1. PICK r : r = rows[i]
    OBVIOUS
  <2>2. r \in Seq(Seq(Chars))
    BY <2>1
  <2>3. Len(r) \in Nat /\ DOMAIN r = 1..Len(r) /\ \A j \in 1..Len(r) : r[j] \in Seq(Chars)
    BY <2>2
  <2>4. Seq(Chars) \subseteq Seq(Signs)
    <3>1. Chars \subseteq Signs
      BY DEF Signs
    <3> QED BY <3>1, WiderSeq
  <2>5. \A j \in 1..Len(r) : r[j] \in Seq(Signs)
    BY <2>3, <2>4
  <2>6. r \in Seq(Seq(Signs))
    BY <2>2, <2>4, WiderSeq
  <2> QED BY <2>1, <2>3, <2>5, <2>6 DEF RowOf
<1> QED BY <1>1, <1>2

\* Cleaned is what the rows add, one after the other.
LEMMA CleanedAdds ==
    ASSUME NEW rows, rows \in Seq(Seq(Seq(Chars))), NEW n \in Nat, n = Len(rows)
    PROVE  \E g : /\ g[0] = <<>> /\ g[n] = Cleaned(rows)
                  /\ \A i \in 1..n : g[i] = AddRow(g[i - 1], rows[i])
<1>1. PICK q, S : q = CleanPieces(rows) /\ S = {CleanRow(rows[i]) : i \in 1..n}
  OBVIOUS
<1>2. DOMAIN rows = 1..n
  OBVIOUS
<1>3. \A i \in 1..n : q[i] = IF \E j \in DOMAIN CleanRow(rows[i]) : CleanRow(rows[i])[j] # <<>>
                             THEN <<CleanRow(rows[i])>> ELSE <<>>
  BY <1>1, <1>2 DEF CleanPieces
<1>4. ASSUME NEW i \in 1..n PROVE q[i] \in Seq(S) /\ CleanRow(rows[i]) \in S
  <2>1. CleanRow(rows[i]) \in S
    BY <1>1
  <2>2. <<CleanRow(rows[i])>> \in Seq(S) /\ <<>> \in Seq(S)
    BY <2>1
  <2>3. q[i] = <<CleanRow(rows[i])>> \/ q[i] = <<>>
    BY <1>3
  <2> QED BY <2>1, <2>2, <2>3
<1>5. Len(q) = n
  BY <1>1, <1>2 DEF CleanPieces
<1>6. Pieces(q, n, S)
  BY <1>4, <1>5 DEF Pieces
<1>7. PICK g : Joined(g, q, n, S)
  BY <1>6, ConcatIs
<1>8. ASSUME NEW i \in 1..n PROVE g[i] = AddRow(g[i - 1], rows[i])
  <2>1. PICK a, c, t : a = g[i - 1] /\ c = CleanRow(rows[i]) /\ t = q[i]
    OBVIOUS
  <2>2. i - 1 \in 0..n
    OBVIOUS
  <2>3. a \in Seq(S) /\ g[i] = a \o t /\ c \in S
    BY <1>4, <1>7, <2>1, <2>2 DEF Joined
  <2>4. a \o <<c>> = Append(a, c) /\ a \o <<>> = a
    BY <2>3
  <2>5. t = IF \E j \in DOMAIN c : c[j] # <<>> THEN <<c>> ELSE <<>>
    BY <1>3, <2>1
  <2>6. AddRow(a, rows[i]) = IF \E j \in DOMAIN c : c[j] # <<>> THEN Append(a, c) ELSE a
    BY <2>1 DEF AddRow
  <2> QED BY <2>1, <2>3, <2>4, <2>5, <2>6
<1>9. g[0] = <<>> /\ g[n] = Cleaned(rows)
  BY <1>1, <1>7, CleanedIs DEF Joined
<1> QED BY <1>8, <1>9

\* A table that is written is read back, but for the blanks around its cells
\* and its blank rows.
LEMMA TableIsRead ==
    ASSUME NEW in, CsvInput(in)
    PROVE  Csv!ParseCsvRows(TextOf(in)) = Cleaned(in.rows)
<1>1. PICK rows, eol, n, q, text : /\ rows = in.rows /\ eol = in.eol /\ n = Len(rows)
                                   /\ q = LinePieces(in) /\ text = TextOf(in)
  OBVIOUS
<1>2. rows \in Seq(Seq(Seq(Chars)))
  BY <1>1 DEF CsvInput
<1>3. n \in Nat /\ DOMAIN rows = 1..n /\ \A i \in 1..n : RowOf(rows[i], Len(rows[i]))
  BY <1>1, <1>2, RowsAre
<1>4. LineEnd(eol)
  BY <1>1 DEF CsvInput, LineEnd
<1>5. /\ Len(q) = n
      /\ \A i \in 1..n : q[i] = PrintRow(rows[i]) \o (IF i < n \/ in.ends THEN eol ELSE <<>>)
  <2>1. q = [i \in 1..n |->
               PrintRow(rows[i]) \o (IF i < n \/ in.ends THEN eol ELSE <<>>)]
    BY <1>1, <1>3 DEF LinePieces
  <2>2. Len(q) = n
    BY <1>3, <2>1
  <2> QED BY <2>1, <2>2
<1>6. ASSUME NEW i \in 1..n PROVE q[i] \in Seq(Signs) /\ PrintRow(rows[i]) \in Seq(Signs)
  <2>1. PICK a, b : a = PrintRow(rows[i]) /\ b = IF i < n \/ in.ends THEN eol ELSE <<>>
    OBVIOUS
  <2>2. a \in Seq(Signs)
    <3>1. RowOf(rows[i], Len(rows[i])) /\ Len(rows[i]) \in Nat
      BY <1>3 DEF RowOf
    <3> QED BY <2>1, <3>1, RowPiecesAre
  <2>3. b \in Seq(Signs)
    <3>1. eol \in Seq(Signs) /\ <<>> \in Seq(Signs)
      BY <1>4, MarksAreTexts, Zenon DEF LineEnd
    <3> QED BY <2>1, <3>1
  <2>4. q[i] = a \o b
    BY <1>5, <2>1
  <2> QED BY <2>1, <2>2, <2>3, <2>4
<1>7. Pieces(q, n, Signs)
  BY <1>3, <1>5, <1>6 DEF Pieces
<1>8. text = Concat(q)
  BY <1>1, WrittenIs
<1>9. PICK join : Joined(join, q, n, Signs)
  BY <1>3, <1>7, ConcatIs
<1>10. text \in Seq(Signs)
  <2>1. n \in 0..n
    BY <1>3
  <2> QED BY <1>8, <1>9, <2>1 DEF Joined
<1>11. PICK l \in Nat : l = Len(text)
  BY <1>10
<1>12. Spells(text, 0, text)
  <2>1. 0 + l <= l /\ \A j \in 1..l : 0 + j = j
    OBVIOUS
  <2> QED BY <1>11, <2>1 DEF Spells
<1>13. PICK off : Offsets(off, text, 0, q, n)
  <2>1. Spells(text, 0, Concat(q)) /\ Len(text) \in Nat /\ 0 \in Nat
    BY <1>8, <1>11, <1>12
  <2> QED BY <1>3, <1>7, <2>1, OffsetsExist
<1>14. off[0] = 0 /\ off[n] = l
  BY <1>8, <1>11, <1>13 DEF Offsets
<1>15. PICK g : /\ g[0] = <<>> /\ g[n] = Cleaned(rows)
                /\ \A i \in 1..n : g[i] = AddRow(g[i - 1], rows[i])
  BY <1>1, <1>2, <1>3, CleanedAdds
<1>16. PICK f : /\ ParserRun(f, text)
                /\ Csv!ParseCsvRows(text) = Csv!EndRow(Csv!EndCell(f[l])).rows
  BY <1>11, ParserRuns
<1>17. Parsing(f, text)
  BY <1>11, <1>16 DEF Parsing
<1>18. f[0] = Between(<<>>, <<>>, <<>>)
  BY <1>16 DEF ParserRun, Between
<1>19. PICK P : P = {i \in 0..n : (i = 0 \/ i < n \/ in.ends)
                                     => f[off[i]] = Between(g[i], <<>>, <<>>)}
  OBVIOUS
<1>20. 0 \in P
  BY <1>3, <1>14, <1>15, <1>18, <1>19
<1>21. ASSUME NEW i \in 1..n, i - 1 \in P PROVE i \in P
  <2>1. i - 1 \in 0..n /\ i \in 0..n /\ i # 0 /\ i - 1 < n
    BY <1>3
  <2>2. PICK p, R, r : p = off[i - 1] /\ R = g[i - 1] /\ r = rows[i]
    OBVIOUS
  <2>3. f[p] = Between(R, <<>>, <<>>)
    BY <1>19, <1>21, <2>1, <2>2
  <2>4. p \in Nat /\ off[i] = p + Len(q[i]) /\ Spells(text, p, q[i])
    BY <1>13, <2>1, <2>2 DEF Offsets
  <2>5. ASSUME i < n \/ in.ends PROVE f[off[i]] = Between(g[i], <<>>, <<>>)
    <3>1. q[i] = PrintRow(r) \o eol
      BY <1>5, <2>2, <2>5
    <3>2. RowOf(r, Len(r)) /\ Len(r) \in Nat
      BY <1>3, <2>2 DEF RowOf
    <3>3. Spells(text, p, PrintRow(r) \o eol)
      BY <2>4, <3>1
    <3>4. f[p + Len(PrintRow(r) \o eol)] = Between(AddRow(R, r), <<>>, <<>>)
      <4>1. PICK m \in Nat : RowOf(r, m)
        BY <3>2
      <4> QED BY <1>4, <1>17, <2>3, <2>4, <3>3, <4>1, LineIsRead
    <3>5. g[i] = AddRow(R, r)
      BY <1>15, <2>2
    <3> QED BY <2>4, <3>1, <3>4, <3>5
  <2> QED BY <1>19, <2>1, <2>5
<1>22. \A i \in 0..n : i \in P
  <2>1. \A i \in 1..n : i - 1 \in P => i \in P
    BY <1>21
  <2> QED BY <1>3, <1>20, <2>1, UpTo
<1>23. ASSUME NEW R, NEW r, NEW c
       PROVE  Csv!EndRow(Csv!EndCell(Between(R, r, c))).rows = AddRow(R, Append(r, c))
  <2>1. PICK no, e, t, A : no = FALSE /\ e = <<>> /\ t = Append(r, c) /\ A = AddRow(R, t)
    OBVIOUS
  <2>2. Between(R, r, c) = State(R, r, c, no, no)
    BY <2>1 DEF Between
  <2>3. Csv!EndCell(State(R, r, c, no, no)) = State(R, t, e, no, no)
    BY <2>1, EndCellIs
  <2>4. Csv!EndRow(State(R, t, e, no, no)) = State(A, e, e, no, no)
    BY <2>1, EndRowIs
  <2>5. State(A, e, e, no, no).rows = A
    BY DEF State
  <2> QED BY <2>1, <2>2, <2>3, <2>4, <2>5
<1>24. CASE n = 0 \/ in.ends
  <2>1. n \in 0..n
    BY <1>3
  <2>2. f[l] = Between(g[n], <<>>, <<>>)
    BY <1>14, <1>19, <1>22, <1>24, <2>1
  <2>3. Csv!ParseCsvRows(text) = AddRow(g[n], Append(<<>>, <<>>))
    <3>1. PICK e, R : e = <<>> /\ R = g[n]
      OBVIOUS
    <3>2. Csv!EndRow(Csv!EndCell(Between(R, e, e))).rows = AddRow(R, Append(e, e))
      BY <1>23
    <3> QED BY <1>16, <2>2, <3>1, <3>2
  <2>4. Append(<<>>, <<>>) = << <<>> >>
    OBVIOUS
  <2>5. AddRow(g[n], << <<>> >>) = g[n]
    BY BlankAddsNothing
  <2> QED BY <1>1, <1>15, <2>3, <2>4, <2>5
<1>25. CASE n # 0 /\ ~in.ends
  <2>1. n \in 1..n /\ n - 1 \in 0..n /\ n - 1 < n /\ ~ (n < n)
    BY <1>3, <1>25
  <2>2. PICK p, R, r, w : /\ p = off[n - 1] /\ R = g[n - 1] /\ r = rows[n]
                          /\ w = PrintRow(rows[n])
    OBVIOUS
  <2>3. f[p] = Between(R, <<>>, <<>>)
    BY <1>19, <1>22, <2>1, <2>2
  <2>4. q[n] = w
    <3>1. q[n] = w \o <<>>
      BY <1>5, <1>25, <2>1, <2>2
    <3>2. w \in Seq(Signs)
      BY <1>6, <2>1, <2>2
    <3> QED BY <3>1, <3>2
  <2>5. p \in Nat /\ l = p + Len(w) /\ Spells(text, p, w)
    BY <1>13, <1>14, <2>1, <2>2, <2>4 DEF Offsets
  <2>6. Look(text, l) # Quote
    BY <1>11, SignsDifferIs DEF Look, SignsDiffer
  <2>7. RowOf(r, Len(r)) /\ Len(r) \in Nat /\ w = PrintRow(r)
    BY <1>3, <2>1, <2>2 DEF RowOf
  <2>8. RowReads(R, f[l], r)
    <3>1. /\ Spells(text, p, PrintRow(r)) /\ Look(text, p + Len(PrintRow(r))) # Quote
          /\ l = p + Len(PrintRow(r))
      BY <2>5, <2>6, <2>7
    <3> QED BY <1>17, <2>3, <2>5, <2>7, <3>1, RowIsRead
  <2>9. PICK u, c : f[l] = Between(R, u, c) /\ AddRow(R, Append(u, c)) = AddRow(R, r)
    BY <2>8 DEF RowReads
  <2>10. Csv!ParseCsvRows(text) = AddRow(R, Append(u, c))
    BY <1>16, <1>23, <2>9
  <2>11. g[n] = AddRow(R, r)
    BY <1>15, <2>1, <2>2
  <2> QED BY <1>1, <1>15, <2>9, <2>10, <2>11
<1> QED BY <1>24, <1>25

-----------------------------------------------------------------------------
(* The tables                                                              *)

\* A topic's input is one of its inputs, and once it is evaluated the result is
\* the operator's; the row of an edge is what the provider told of it last.
TablesInv ==
    /\ topic = "csv" => /\ CsvInput(input)
                        /\ done => result = Csv!ParseCsvRows(TextOf(input))
    /\ topic = "file" => /\ FileInput(input)
                         /\ done => result = Csv!Import("auto", input.header, <<Line(input)>>)
    /\ topic = "names" => NameInput(input) /\ (done => result = Csv!Stored(input.current, input))
    /\ topic = "hours" => HourInput(input) /\ (done => result = SolverHours(input))
    /\ topic = "city" => /\ CityInput(input)
                         /\ done => result = City!CityPage(input.places, input.rows, input.province)
    /\ topic = "tally" =>
          /\ TallyInput(input)
          /\ done => result = City!ResolveCityStatus(TallyOf(input.nodes, input.without))
    /\ topic = "edge" => EdgeInput(input) /\ EdgeHolds(input, result)

\* An input is chosen from its own inputs.
LEMMA TablesInvStarts == TablesInit => TablesInv
<1> SUFFICES ASSUME TablesInit PROVE TablesInv
  OBVIOUS
<1>1. done = FALSE /\ result = <<>>
  BY DEF TablesInit
<1>2. CASE topic = "csv" /\ input \in CsvInputs
  <2>1. CsvInput(input)
    BY <1>2, PureAssumption
  <2> QED BY <1>1, <1>2, <2>1 DEF TablesInv
<1>3. CASE topic = "file" /\ input \in FileInputs
  <2>1. FileInput(input)
    BY <1>3, PureAssumption
  <2> QED BY <1>1, <1>3, <2>1 DEF TablesInv
<1>4. CASE topic = "names" /\ input \in NameInputs
  <2>1. NameInput(input)
    BY <1>4, PureAssumption
  <2> QED BY <1>1, <1>4, <2>1 DEF TablesInv
<1>5. CASE topic = "hours" /\ input \in HourInputs
  <2>1. HourInput(input)
    BY <1>5, PureAssumption
  <2> QED BY <1>1, <1>5, <2>1 DEF TablesInv
<1>6. CASE topic = "city" /\ input \in CityInputs
  <2>1. CityInput(input)
    BY <1>6, PureAssumption
  <2> QED BY <1>1, <1>6, <2>1 DEF TablesInv
<1>7. CASE topic = "tally" /\ input \in TallyInputs
  <2>1. TallyInput(input)
    BY <1>7, PureAssumption
  <2> QED BY <1>1, <1>7, <2>1 DEF TablesInv
<1>8. CASE topic = "edge" /\ input \in [meters : Distances, last : {NothingTold}]
  <2>1. EdgeInput(input) /\ input.meters \in Distances /\ input.last = NothingTold
    BY <1>8 DEF EdgeInput
  <2>2. input.meters \in Nat \ {0}
    BY <2>1, PureAssumption
  <2>3. LastFine(NothingTold)
    BY DEF LastFine, NothingTold, MinuteFigures, MeterFigures
  <2>4. EdgeHolds(input, result)
    BY <1>1, <2>1, <2>2, <2>3 DEF EdgeHolds
  <2> QED BY <1>1, <1>8, <2>1, <2>4 DEF TablesInv
<1> QED BY <1>2, <1>3, <1>4, <1>5, <1>6, <1>7, <1>8, Zenon DEF TablesInit

\* Evaluating sets the result of the operator beside the input.
LEMMA EvaluateKeeps == TablesInv /\ Evaluate => TablesInv'
<1> SUFFICES ASSUME TablesInv, Evaluate PROVE TablesInv'
  OBVIOUS
<1>1. topic' = topic /\ input' = input
  BY DEF Evaluate
<1>2. \/ topic = "csv" /\ result' = Csv!ParseCsvRows(TextOf(input))
      \/ topic = "file" /\ result' = Csv!Import("auto", input.header, <<Line(input)>>)
      \/ topic = "names" /\ result' = Csv!Stored(input.current, input)
      \/ topic = "hours" /\ result' = SolverHours(input)
      \/ topic = "city" /\ result' = City!CityPage(input.places, input.rows, input.province)
      \/ topic = "tally" /\ result' = City!ResolveCityStatus(TallyOf(input.nodes, input.without))
  BY Zenon DEF Evaluate
<1> QED BY <1>1, <1>2 DEF TablesInv

\* A recompute keeps the row as the provider told it last.
LEMMA RemeasureKeeps == TablesInv /\ Remeasure => TablesInv'
<1> SUFFICES ASSUME TablesInv, Remeasure PROVE TablesInv'
  OBVIOUS
<1>1. topic = "edge" /\ topic' = topic /\ done' = done
  BY DEF Remeasure
<1>2. EdgeInput(input) /\ EdgeHolds(input, result)
  BY <1>1 DEF TablesInv
<1>3. PICK modes \in (SUBSET {"driving", "walking", "transit"}) \ {{}},
           driving \in DrivingReplies, walking \in WalkingReplies, transit \in TransitReplies,
           names \in CityNames, known \in Known :
        /\ "driving" \in modes \/ driving = Silence
        /\ "walking" \in modes \/ walking = Silence
        /\ "transit" \in modes \/ transit = Thrown
        /\ result' = <<Remeasured(modes, driving, walking, transit, names, known)>>
        /\ input' = [input EXCEPT !.last =
             LastTold(@, driving, walking, IF known \in Asked(names) THEN transit ELSE Thrown)]
  BY <1>1 DEF Remeasure
<1>4. /\ \A k \in 1..3 : IsReply(driving[k])
      /\ \A k \in 1..3 : IsReply(walking[k])
      /\ IsReply(transit)
  BY <1>3, PureAssumption
<1>5. NamesFine(names)
  BY <1>3, PureAssumption DEF NamesFine
<1>6. PICK in, rows, told, last, now :
        /\ in = input /\ rows = result
        /\ told = ToldBy(driving, walking, transit, names, known)
        /\ last = LastTold(in.last, driving, walking, Heeded(known, transit, names))
        /\ now = Renewed(in, last)
  OBVIOUS
<1>7. EdgeHolds(now, <<Figures!EdgeRow(modes, told, rows, in.meters)>>)
  <2>1. EdgeInput(in) /\ EdgeHolds(in, rows)
    BY <1>2, <1>6
  <2> QED BY <1>3, <1>4, <1>5, <1>6, <2>1, RemeasureHolds
<1>8. input' = now
  BY <1>3, <1>6 DEF Heeded, Renewed
<1>9. result' = <<Figures!EdgeRow(modes, told, rows, in.meters)>>
  BY <1>3, <1>6 DEF Remeasured, ToldBy
<1>10. EdgeInput(now)
  <2>1. in = [meters |-> in.meters, last |-> in.last]
    BY <1>2, <1>6 DEF EdgeInput
  <2> QED BY <1>6, <2>1 DEF EdgeInput, Renewed
<1>11. EdgeInput(input)' /\ EdgeHolds(input, result)'
  BY <1>7, <1>8, <1>9, <1>10
<1> QED BY <1>1, <1>11 DEF TablesInv

\* An input stays what it is, and the result is the operator's.
THEOREM TablesKeepInv == TablesSpec => []TablesInv
<1>1. TablesInv /\ UNCHANGED tableVars => TablesInv'
  BY DEF TablesInv, tableVars
<1>2. TablesInv /\ [TablesNext]_tableVars => TablesInv'
  BY <1>1, EvaluateKeeps, RemeasureKeeps DEF TablesNext
<1> QED BY <1>2, TablesInvStarts, PTL DEF TablesSpec

-----------------------------------------------------------------------------
(* What the importer reads                                                 *)

\* parseCsvRows, detectDatasetType and the merging of names: whatever table is
\* written as RFC 4180 says is read back, a file is not taken for another
\* dataset than its own, and no name that is stored shows through an import.
THEOREM FilesAreRead == TablesSpec => []ImportedFilesAreRead
<1>1. TablesInv => CsvRoundTrip
  BY TableIsRead DEF TablesInv, CsvRoundTrip, Done
<1>2. TablesInv => FilesToldApart
  <2> SUFFICES ASSUME TablesInv, Done("file"), ~result.refused
               PROVE  /\ result.dataset = input.dataset
                      /\ result.fate[1] = "row" => input.facts.country.text \in {"CN", "MN"}
    BY DEF FilesToldApart
  <2>1. FileInput(input) /\ result = Csv!Import("auto", input.header, <<Line(input)>>)
    BY DEF TablesInv, Done
  <2>2. FileIsTold(input)
    BY <2>1, FileIsToldApart
  <2> QED BY <2>1, <2>2 DEF FileIsTold
<1>3. TablesInv => StoredNamesNeverShow
  BY NamesAreOfFile DEF TablesInv, StoredNamesNeverShow, Done, NamesOfFile
<1>4. TablesInv => ImportedFilesAreRead
  BY <1>1, <1>2, <1>3 DEF ImportedFilesAreRead
<1> QED BY <1>4, TablesKeepInv, PTL

\* toSolverPayload and the validators of opening hours: the solver is told of a
\* last entry that the spot is open at, of the hours of the last rule for each
\* weekday, and of a queue that is accepted again.
THEOREM SolverIsTold == TablesSpec => []SolverHoursHold
<1>1. TablesInv => SolverHoursHold
  <2> SUFFICES ASSUME TablesInv, Done("hours"), result # <<>> PROVE SolverHoursHold
    BY DEF SolverHoursHold
  <2>1. HourInput(input) /\ result = SolverHours(input)
    BY DEF TablesInv, Done
  <2>2. SolverToldTrue(input)
    BY <2>1, HoursReachSolver
  <2> QED BY <2>1, <2>2, Zenon DEF SolverToldTrue, SolverHoursHold
<1> QED BY <1>1, TablesKeepInv, PTL

\* resolveCityStatus, resolveNodeStatus and assertMatrixReady: a city is shown
\* ready just when its nodes are, and where the page says that trips can be
\* generated, generateItinerary turns no selection of its points away but for
\* want of an airport.
THEOREM ReadyIsUsable == TablesSpec => []ReadyMeansUsable
<1>1. TablesInv => ReadyCityHasReadyNodes
  <2> SUFFICES ASSUME TablesInv PROVE ReadyCityHasReadyNodes
    OBVIOUS
  <2>1. ASSUME Done("city")
        PROVE  LET nodes == DOMAIN result.nodes
               IN  Cardinality(nodes) <= Rounding =>
                     (result.status = "ready"
                        <=> Cardinality(nodes) > 1 /\ \A i \in nodes : result.nodes[i] = "ready")
    <3>1. CityInput(input) /\ result = City!CityPage(input.places, input.rows, input.province)
      BY <2>1 DEF TablesInv, Done
    <3>2. IsFiniteSet(input.places) /\ \A e \in DOMAIN input.rows : input.rows[e].modes \subseteq City!Modes
      BY <3>1 DEF CityInput
    <3> QED BY <3>1, <3>2, PageAgrees
  <2>2. ASSUME Done("tally"), input.nodes <= Rounding PROVE result = "ready" <=> input.without = 0
    <3>1. TallyInput(input) /\ result = City!ResolveCityStatus(TallyOf(input.nodes, input.without))
      BY <2>2 DEF TablesInv, Done
    <3> QED BY <2>2, <3>1, TallyAgrees DEF TallyInput
  <2> QED BY <2>1, <2>2 DEF ReadyCityHasReadyNodes
<1>2. TablesInv => CanGenerateIsTrue
  <2> SUFFICES ASSUME TablesInv, Done("city"), result.canGenerate, result.issues = {},
                      NEW home \in IF input.province = City!Anywhere
                                   THEN {p.province : p \in input.places} ELSE {input.province},
                      City!Hotels(input.places, home) # {},
                      NEW selected \in (SUBSET {p.id : p \in {q \in input.places :
                        q.kind # "hotel" /\ q.published /\ q.province = home}}) \ {{}}
               PROVE  /\ City!Refusal(selected, input.places, home) = "none"
                      /\ RefusedForAirport(selected, input.places, input.airports, home)
                      /\ City!CheckMatrixCoverage(selected, input.places, input.rows, home)
    BY DEF CanGenerateIsTrue
  <2>1. CityInput(input) /\ result = City!CityPage(input.places, input.rows, input.province)
    BY DEF TablesInv, Done
  <2>2. \A p \in input.places : /\ p.province # City!Anywhere
                                /\ p.anchors \subseteq City!AnchorsOf(p.kind)
                                /\ \A q \in input.places : p.id = q.id => p = q
    BY <2>1 DEF CityInput
  <2>3. PICK places, rows, province, airports :
           /\ places = input.places /\ rows = input.rows
           /\ province = input.province /\ airports = input.airports
    OBVIOUS
  <2>4. /\ \A p \in places : /\ p.province # City!Anywhere
                             /\ p.anchors \subseteq City!AnchorsOf(p.kind)
                             /\ \A q \in places : p.id = q.id => p = q
        /\ City!CityPage(places, rows, province).canGenerate
        /\ City!CityPage(places, rows, province).issues = {}
    BY <2>1, <2>2, <2>3
  <2>5. /\ home \in IF province = City!Anywhere THEN {p.province : p \in places} ELSE {province}
        /\ City!Hotels(places, home) # {}
        /\ selected \in (SUBSET {p.id : p \in {q \in places :
                           q.kind # "hotel" /\ q.published /\ q.province = home}}) \ {{}}
    BY <2>3
  <2>6. /\ City!Refusal(selected, places, home) = "none"
        /\ RefusedForAirport(selected, places, airports, home)
        /\ City!CheckMatrixCoverage(selected, places, rows, home)
    BY <2>4, <2>5, PlannerAgrees, Zenon
  <2> QED BY <2>3, <2>6
<1>3. TablesInv => ReadyMeansUsable
  BY <1>1, <1>2 DEF ReadyMeansUsable
<1> QED BY <1>3, TablesKeepInv, PTL

\* recomputeEdge and the fetchers it calls: after any recomputes the row of an
\* edge has the last figures the provider told and the last word it had.
THEOREM RowsKeepAnswers == TablesSpec => []RowKeepsAnswers
<1>1. TablesInv => RowKeepsAnswers
  <2> SUFFICES ASSUME TablesInv, topic = "edge", result # <<>> PROVE RowKeepsAnswers
    BY DEF RowKeepsAnswers
  <2>1. EdgeHolds(input, result)
    BY DEF TablesInv
  <2>2. RowFits(result[1], input.meters, input.last)
    BY <2>1 DEF EdgeHolds
  <2>3. Figures!Counted(result[1]) = {"driving", "walkingMinutes", input.last.word}
                                    \cup IF input.last.walk = 0 THEN {} ELSE {"walking"}
    BY <2>1, CountedIs
  <2> QED BY <2>2, <2>3 DEF RowKeepsAnswers, RowFits
<1> QED BY <1>1, TablesKeepInv, PTL

===============================================================================
