---------------------------- MODULE MCBackground ----------------------------
(***************************************************************************)
(* The two parts of ContentParts whose promises need time to go on: the    *)
(* planner's response cache and the notifications with their digest. Each  *)
(* fairness condition speaks of the behaviours of its own part.            *)
(***************************************************************************)
EXTENDS ContentParts

\* listCities queries two tables, listCityPoints the airports as well.
MCReads == [k \in Keys |-> IF k = "cities" THEN Tables \ {"airport"} ELSE Tables]

Planner(A) == part = "planner" /\ A
    /\ UNCHANGED <<part, digestVars, calendarVars, importVars, placeVars>>
Notices(A) == part = "notices" /\ A
    /\ UNCHANGED <<part, vars, calendarVars, importVars, placeVars>>

PartsFairness ==
    /\ WF_allVars(Planner(Tick))
    /\ \A q \in Readers : WF_allVars(Planner(\E t \in Tables : Query(q, t)))
                            /\ WF_allVars(Planner(Set(q)))
    /\ \A a \in Editors : WF_allVars(Planner(InvalidateAll(a)))
    /\ WF_allVars(Notices(Digest!Start))
    /\ WF_allVars(Notices(Digest!Nine)) /\ WF_allVars(Notices(Digest!Midnight))
    /\ WF_allVars(Notices(Digest!CleanupProbes \/ Digest!CleanupDeletes))
    /\ WF_allVars(Notices(Digest!Fire)) /\ WF_allVars(Notices(Digest!DigestStep))

FairPartsSpec == PartsSpec /\ PartsFairness

\* Once failures cease, a notification that stays unread comes in a digest:
\* the timer is always set again, by the run that ends or by the next process.
DigestComes == Digest!DigestComes

=============================================================================
