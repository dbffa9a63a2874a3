--------------------------- MODULE MCTransitCache ---------------------------
(* Two places of two tables; coordinates are interchangeable. What places   *)
(* there are at the start is in one city, and may leave it and come back.   *)
EXTENDS TransitCache, TLC

CONSTANTS p1, p2, Home

MCTypeOf == p1 :> "spot" @@ p2 :> "hotel"
Interchangeable == Permutations(Editors) \cup Permutations(Runs)
                     \cup Permutations(Coordinates)

HomeInit == Init /\ \A p \in Points : place[p].row = "live" => place[p].city = Home
HomeSpec == HomeInit /\ [][Next]_vars
=============================================================================
