---------------------------- MODULE Notifications ----------------------------
(***************************************************************************)
(* The notifications of users, the digest of the unread ones mailed every  *)
(* morning at nine, and the cleanup of the read ones. The digest's timer   *)
(* is set for the next nine o'clock when the process starts and when a run *)
(* ends. Only a mail that fails is caught: a statement that fails in a run *)
(* or in a cleanup is a rejection nobody handles and ends the process,     *)
(* which its container starts again.                                       *)
(*                                                                         *)
(* One notification stands for the unread ones of a user. Nothing in src/  *)
(* calls createNotification yet; Create is what it does when called.       *)
(***************************************************************************)
EXTENDS Integers, FiniteSets

CONSTANTS
    Users,        \* users with a verified address
    MaxFaults     \* bound: statements and mails that fail

VARIABLES
    note,      \* note[u]: "none", "unread", "read", or "old": read long ago
    ready,     \* the table exists: its migration has run
    process,   \* "down", "starting" or "up"
    hour,      \* "early": before nine, or "late"
    timer,     \* when the digest is due: "never", "today" or "tomorrow"
    run,       \* the digest run of the process
    cleanup,   \* its cleanup: "idle", "probe" or "delete"
    faults,    \* failures so far
    news,      \* ghost: users with a notification they have not read and no
               \* digest has counted or shown
    mailed     \* ghost: mailed[u]: digests to u since nine o'clock

vars == <<note, ready, process, hour, timer, run, cleanup, faults, news, mailed>>

-----------------------------------------------------------------------------
NoRun == [at |-> "idle", todo |-> {}, user |-> {}, seen |-> FALSE]
TypeOK ==
    /\ note \in [Users -> {"none", "unread", "read", "old"}]
    /\ ready \in BOOLEAN
    /\ process \in {"down", "starting", "up"}
    /\ hour \in {"early", "late"}
    /\ timer \in {"never", "today", "tomorrow"}
    /\ run \in [at : {"idle", "probe", "list", "preview", "send"},
                todo : SUBSET Users, user : SUBSET Users, seen : BOOLEAN]
    /\ cleanup \in {"idle", "probe", "delete"}
    /\ faults \in 0..MaxFaults
    /\ news \subseteq Users
    /\ mailed \in [Users -> Nat]

Init ==
    /\ note = [u \in Users |-> "none"]
    /\ ready \in BOOLEAN
    /\ process = "down"
    /\ hour \in {"early", "late"}
    /\ timer = "never"
    /\ run = NoRun /\ cleanup = "idle" /\ faults = 0
    /\ news = {} /\ mailed = [u \in Users |-> 0]

time == <<hour, timer>>
jobs == <<run, cleanup>>
env == <<note, ready, news>>

\* Mutant: the time is set to nine and not moved to tomorrow.
NineToday == "today"

\* msUntilNextDigestWindow
NextWindow == IF hour = "early" THEN "today" ELSE "tomorrow"

-----------------------------------------------------------------------------
(* NotificationsService                                                    *)

Create(u) ==
    /\ ready
    /\ note[u] # "unread"
    /\ note' = [note EXCEPT ![u] = "unread"]
    /\ news' = news \cup {u}
    /\ UNCHANGED <<ready, process, time, jobs, faults, mailed>>

\* markAsRead, markAllAsRead. The row that is read, then saved, cannot be one
\* the cleanup takes between the two.
Read(u) ==
    /\ note[u] = "unread"
    /\ note' = [note EXCEPT ![u] = "read"]
    /\ news' = news \ {u}
    /\ UNCHANGED <<ready, process, time, jobs, faults, mailed>>

-----------------------------------------------------------------------------
(* The process                                                             *)

\* onModuleInit: the digest is scheduled, and a first cleanup waited for.
Start ==
    /\ process = "down"
    /\ process' = "starting"
    /\ timer' = NextWindow
    /\ cleanup' = "probe"
    /\ UNCHANGED <<env, hour, run, faults, mailed>>

Dead == process' = "down" /\ timer' = "never" /\ run' = NoRun /\ cleanup' = "idle"

\* A statement of the run or of the cleanup fails.
Rejects ==
    /\ run.at \in {"probe", "list", "preview"} \/ cleanup # "idle"
    /\ faults < MaxFaults
    /\ faults' = faults + 1
    /\ Dead
    /\ UNCHANGED <<env, hour, mailed>>

-----------------------------------------------------------------------------
(* NotificationCleanupService                                              *)

CleanupTick ==
    /\ process = "up" /\ cleanup = "idle"
    /\ cleanup' = "probe"
    /\ UNCHANGED <<env, process, time, run, faults, mailed>>

CleanupEnds ==
    /\ cleanup' = "idle"
    /\ process' = "up"
    /\ UNCHANGED <<ready, time, run, faults, news, mailed>>

CleanupProbes ==
    /\ cleanup = "probe"
    /\ \/ /\ ready
          /\ cleanup' = "delete"
          /\ UNCHANGED <<env, process, time, run, faults, mailed>>
       \/ ~ready /\ CleanupEnds /\ UNCHANGED note

CleanupDeletes ==
    /\ cleanup = "delete"
    /\ note' = [u \in Users |-> IF note[u] = "old" THEN "none" ELSE note[u]]
    /\ CleanupEnds

-----------------------------------------------------------------------------
(* NotificationDigestService                                               *)

Fire ==
    /\ process # "down" /\ timer = "today" /\ hour = "late"
    /\ run' = [NoRun EXCEPT !.at = "probe"]
    /\ timer' = "never"
    /\ UNCHANGED <<env, process, hour, cleanup, faults, mailed>>

\* Mutant: the next run is not scheduled.
RunEndsOnly ==
    /\ run' = NoRun
    /\ UNCHANGED timer

\* runAndReschedule's finally.
RunEnds ==
    /\ run' = NoRun
    /\ timer' = NextWindow

Probe ==
    /\ run.at = "probe"
    /\ IF ready THEN run' = [run EXCEPT !.at = "list"] /\ UNCHANGED timer
                ELSE RunEnds
    /\ UNCHANGED <<env, process, hour, cleanup, faults, mailed>>

\* The users with unread notifications are counted in one statement.
List ==
    LET unread == {u \in Users : note[u] = "unread"} IN
    /\ run.at = "list"
    /\ IF unread = {} THEN RunEnds
       ELSE run' = [run EXCEPT !.at = "preview", !.todo = unread] /\ UNCHANGED timer
    /\ UNCHANGED <<env, process, hour, cleanup, faults, mailed>>

\* The latest unread ones are read for the mail: there may be none by now.
Preview(u) ==
    /\ run.at = "preview" /\ u \in run.todo
    /\ run' = [run EXCEPT !.at = "send", !.user = {u}, !.seen = note[u] = "unread"]
    /\ UNCHANGED <<env, process, time, cleanup, faults, mailed>>

\* The mail is accepted, or fails and is logged; the next user is taken.
Send(accepted) ==
    LET rest == run.todo \ run.user IN
    /\ run.at = "send"
    /\ IF accepted
       THEN /\ mailed' = [u \in Users |-> mailed[u] + Cardinality({u} \cap run.user)]
            /\ news' = IF run.seen THEN news \ run.user ELSE news
            /\ UNCHANGED faults
       ELSE /\ faults < MaxFaults
            /\ faults' = faults + 1
            /\ UNCHANGED <<mailed, news>>
    /\ IF rest = {} THEN RunEnds
       ELSE run' = [NoRun EXCEPT !.at = "preview", !.todo = rest] /\ UNCHANGED timer
    /\ UNCHANGED <<note, ready, process, hour, cleanup>>

-----------------------------------------------------------------------------
(* Time                                                                    *)

Nine ==
    /\ hour = "early"
    /\ hour' = "late"
    /\ mailed' = [u \in Users |-> 0]
    /\ UNCHANGED <<env, process, timer, jobs, faults>>

\* A timer that is due fires before the day is over.
Midnight ==
    /\ hour = "late"
    /\ process = "down" \/ timer # "today"
    /\ hour' = "early"
    /\ timer' = IF timer = "tomorrow" THEN "today" ELSE timer
    /\ UNCHANGED <<env, process, jobs, faults, mailed>>

GrowsOld(u) ==
    /\ note[u] = "read"
    /\ note' = [note EXCEPT ![u] = "old"]
    /\ UNCHANGED <<ready, process, time, jobs, faults, news, mailed>>

Migrate ==
    /\ ~ready
    /\ ready' = TRUE
    /\ UNCHANGED <<note, process, time, jobs, faults, news, mailed>>

DigestStep == Probe \/ List \/ (\E u \in Users : Preview(u)) \/ Send(TRUE)

Next ==
    \/ \E u \in Users : Create(u) \/ Read(u) \/ GrowsOld(u)
    \/ Start \/ Rejects
    \/ CleanupTick \/ CleanupProbes \/ CleanupDeletes
    \/ Fire \/ DigestStep \/ Send(FALSE)
    \/ Nine \/ Midnight \/ Migrate

\* The container starts a process that ended, the clock goes on, and a
\* process goes on with what it has begun.
Fairness ==
    /\ WF_vars(Start) /\ WF_vars(Nine) /\ WF_vars(Midnight)
    /\ WF_vars(CleanupProbes \/ CleanupDeletes)
    /\ WF_vars(Fire) /\ WF_vars(DigestStep)

-----------------------------------------------------------------------------
\* Whatever fails and however often the process starts again, a user gets at
\* most one digest from one nine o'clock to the next.
OncePerMorning == \A u \in Users : mailed[u] <= 1

\* Once failures cease, a notification that stays unread comes in a digest:
\* the timer is always set again, by the run that ends or by the next process.
DigestComes == \A u \in Users : (ready /\ u \in news) ~> (u \notin news)

=============================================================================
