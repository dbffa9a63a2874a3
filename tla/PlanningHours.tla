---------------------------- MODULE PlanningHours ----------------------------
(***************************************************************************)
(* Opening hours: how a form's rules are normalised before they are stored *)
(* (planning-metadata.util.ts), which of them are refused together with a  *)
(* last entry (SpotAdminService), and what the planner makes of them for   *)
(* the solver (TripPlannerService). Times are minutes of the day; hours    *)
(* are functions from some weekdays to the periods of that day.            *)
(***************************************************************************)
EXTENDS Integers, Sequences, SequencesExt

None == -1
Weekdays == 0..6
Period(start, end) == [start |-> start, end |-> end]

\* Rules are a sequence of [weekday, periods].
Acceptable(rules) ==
    \A i \in DOMAIN rules : /\ rules[i].weekday \in Weekdays
                            /\ rules[i].periods # {}
                            /\ \A p \in rules[i].periods : p.start < p.end

\* A fault: the first rule of a weekday is kept.
FirstOfWeekday(rules) ==
    [w \in {rules[i].weekday : i \in DOMAIN rules} |->
        rules[SelectInSeq(rules, LAMBDA rule : rule.weekday = w)].periods]

\* normalizeOpeningHours of acceptable rules: the last rule of a weekday is.
NormalizeOpeningHours(rules) ==
    [w \in {rules[i].weekday : i \in DOMAIN rules} |->
        rules[SelectLastInSeq(rules, LAMBDA rule : rule.weekday = w)].periods]

Closings(hours) == UNION {{p.end : p \in hours[w]} : w \in DOMAIN hours}
LatestClosingTime(hours) == CHOOSE t \in Closings(hours) : \A u \in Closings(hours) : u <= t

\* normalizePlanningMetadata: what it accepts of hours and a last entry.
PlanningMetadataValid(rules, lastEntry) ==
    /\ Acceptable(rules)
    /\ LET hours == NormalizeOpeningHours(rules)
       IN  lastEntry # None /\ Closings(hours) # {} => lastEntry <= LatestClosingTime(hours)

\* The same of a shopping place, which has no last entry.
ShoppingMetadataValid(rules) == Acceptable(rules)

\* normalizeQueueProfile: minutes by kind of day; kinds given as null go.
QueueKinds == {"weekdayMinutes", "weekendMinutes", "holidayMinutes"}
QueueAccepted(profile) ==
    /\ DOMAIN profile \subseteq QueueKinds
    /\ \A k \in DOMAIN profile : profile[k] \in {None} \cup 0..1440
NormalizeQueueProfile(profile) ==
    [k \in {j \in DOMAIN profile : profile[j] # None} |-> profile[k]]

\* buildUniformOpeningHours, and the hours of a spot that has none.
Uniform(start, end) == [w \in Weekdays |-> {Period(start, end)}]
ResolveSpotOpeningHours(hours) == IF DOMAIN hours = {} THEN Uniform(540, 1080) ELSE hours
ResolveShoppingOpeningHours(hours) == IF DOMAIN hours = {} THEN Uniform(600, 1320) ELSE hours

\* A fault: the hour is not cut off at midnight.
LastEntryWraps(hours, lastEntry) ==
    IF lastEntry # None THEN lastEntry ELSE (LatestClosingTime(hours) - 60) % 1440

\* resolveSpotLastEntryTimeForSolver: an hour before the latest closing.
ResolveSpotLastEntry(hours, lastEntry) ==
    IF lastEntry # None THEN lastEntry
    ELSE IF LatestClosingTime(hours) > 60 THEN LatestClosingTime(hours) - 60 ELSE 0

\* mapSpotToGeneratedPlannerPoint normalises the stored profile once more.
SolverSpot(rules, lastEntry, queue) ==
    LET hours == ResolveSpotOpeningHours(NormalizeOpeningHours(rules))
    IN  [hours |-> hours, lastEntry |-> ResolveSpotLastEntry(hours, lastEntry),
         queue |-> NormalizeQueueProfile(NormalizeQueueProfile(queue))]

SolverShopping(rules) ==
    [hours |-> ResolveShoppingOpeningHours(NormalizeOpeningHours(rules))]
=============================================================================
