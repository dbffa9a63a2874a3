----------------------------- MODULE MCItinerary -----------------------------
(* Instance for TLC: three points, two hotels; rows in one direction
   for every pair, or for all but one. *)
EXTENDS Itinerary

CONSTANTS p, q, r, g, h

MCNear == {<<g, p>>}
OneWay == {<<p, q>>, <<p, r>>, <<r, q>>, <<g, p>>, <<h, p>>, <<q, g>>, <<h, q>>,
           <<g, r>>, <<r, h>>, <<g, h>>}
MCEdgeSets == {OneWay, OneWay \ {<<h, q>>}}

==============================================================================
