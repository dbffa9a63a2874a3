----------------------------- MODULE MatrixJobs -----------------------------
(***************************************************************************)
(* The matrix recompute queue of MatrixAdminService: rows of the table     *)
(* matrix_recompute_jobs, the timer that starts invocations of             *)
(* runPendingMatrixJob, the recompute calls of TransitCachePrecompute-     *)
(* Service with the progress they report, and the administrator's requests *)
(* that create, list and remove jobs.                                      *)
(*                                                                         *)
(* A step of an invocation ends where the code awaits the database or the  *)
(* map provider.  A failed database call has not taken effect.  The        *)
(* process dies on an error nobody catches (setInterval's callback is      *)
(* `void this.runPendingMatrixJob()`) and is started again.                *)
(***************************************************************************)
EXTENDS MatrixTally

CONSTANTS
    MaxJobs,    \* bound: jobs ever created, numbered in the order of createdAt
    Workers,    \* invocations of runPendingMatrixJob that may be under way
    Handlers,   \* administrator requests that may be under way
    MaxFaults   \* bound: failed database calls and process deaths

ASSUME JobsAssumption == MaxJobs \in Nat /\ MaxFaults \in Nat

VARIABLES
    rows,               \* the table, one row per job number
    created,            \* how many jobs have been created
    matrixJobsTableReady,
    jobWorkerRunning,
    pc,                 \* pc[w]: what invocation w awaits
    held,               \* held[w]: the job it found, then claimed
    entity,             \* entity[w]: its `job`, the entity it read after the claim
    refreshed,          \* refreshed[w]: the entity it read after the recompute
    found,              \* found[w]: the row the failure save's SELECT returned
    work,               \* work[w]: the recompute it runs
    late,               \* calls whose sibling failed: nobody awaits them now
    request,            \* request[h]: what request h awaits, and for which job
    cached,             \* ghost: edges stored on behalf of each job
    missed,             \* ghost: edges counted for each job whose upsert failed
    stranded,           \* ghost: jobs that were running when the process died
    faults              \* how many faults there have been

table == <<rows, created>>
invocation == <<pc, held, entity, refreshed, found, work>>
upserts == <<cached, missed>>
ghosts == <<upserts, stranded, faults>>
vars == <<table, matrixJobsTableReady, jobWorkerRunning, invocation, late,
          request, ghosts>>

-----------------------------------------------------------------------------
(* Values                                                                  *)

Jobs == 1..MaxJobs
NoJob == 0

Finished == {"completed", "partial", "failed"}
Status == {"absent", "pending", "running"} \cup Finished

Row == [scope : {"city", "point"}, modes : SUBSET Modes, status : Status,
        total : Nat, tally : Tally]

NoRow == [scope |-> "city", modes |-> {}, status |-> "absent",
          total |-> 0, tally |-> NoEdges]

\* A call of recomputeEdgesToDestination: origins it has handled, and the
\* chunk whose edges are upserted but not yet reported (NoEdges if none).
Call == [on : BOOLEAN, handled : Nat, chunk : Tally]
NoCall == [on |-> FALSE, handled |-> 0, chunk |-> NoEdges]
NewCall == [on |-> TRUE, handled |-> 0, chunk |-> NoEdges]

Work == [points : Nat, dest : Nat, calls : [Dests -> Call]]
NoWork == [points |-> 0, dest |-> 0, calls |-> [d \in Dests |-> NoCall]]

\* After these steps the invocation has the job; before them it looks for one.
Holding == {"reread", "load", "saveTotal", "resolve", "points", "work",
            "refresh", "saveDone", "saveFail", "updateFail"}
Phase == {"idle", "probe", "find", "claim"} \cup Holding

RequestPhase == {"idle", "probe", "insert", "check", "delete"}
Idle == [op |-> "list", at |-> "idle", job |-> NoJob]

TypeOK ==
    /\ rows \in [Jobs -> Row]
    /\ created \in 0..MaxJobs
    /\ matrixJobsTableReady \in BOOLEAN
    /\ jobWorkerRunning \in BOOLEAN
    /\ pc \in [Workers -> Phase]
    /\ held \in [Workers -> Jobs \cup {NoJob}]
    /\ entity \in [Workers -> Row]
    /\ refreshed \in [Workers -> Row]
    /\ found \in [Workers -> Row]
    /\ work \in [Workers -> Work]
    /\ late \in SUBSET [job : Jobs, chunk : Tally]
    /\ request \in [Handlers -> [op : {"create", "list", "remove"},
                                 at : RequestPhase, job : Jobs \cup {NoJob}]]
    /\ cached \in [Jobs -> Tally]
    /\ missed \in [Jobs -> Tally]
    /\ stranded \in SUBSET Jobs
    /\ faults \in Nat

Init ==
    /\ rows = [j \in Jobs |-> NoRow]
    /\ created = 0
    /\ matrixJobsTableReady = FALSE
    /\ jobWorkerRunning = FALSE
    /\ pc = [w \in Workers |-> "idle"]
    /\ held = [w \in Workers |-> NoJob]
    /\ entity = [w \in Workers |-> NoRow]
    /\ refreshed = [w \in Workers |-> NoRow]
    /\ found = [w \in Workers |-> NoRow]
    /\ work = [w \in Workers |-> NoWork]
    /\ late = {}
    /\ request = [h \in Handlers |-> Idle]
    /\ cached = [j \in Jobs |-> NoEdges]
    /\ missed = [j \in Jobs |-> NoEdges]
    /\ stranded = {}
    /\ faults = 0

Fault == /\ faults < MaxFaults
         /\ faults' = faults + 1

-----------------------------------------------------------------------------
(* runPendingMatrixJob: the timer's invocation, up to the claim            *)

\* The flag is read before the table probe is awaited.  When the table is
\* known to be there the await takes no time, so the flag is set at once.
Tick(w) ==
    /\ pc[w] = "idle"
    /\ ~jobWorkerRunning
    /\ IF matrixJobsTableReady
       THEN /\ pc' = [pc EXCEPT ![w] = "find"]
            /\ jobWorkerRunning' = TRUE
       ELSE /\ pc' = [pc EXCEPT ![w] = "probe"]
            /\ UNCHANGED jobWorkerRunning
    /\ UNCHANGED <<table, matrixJobsTableReady, held, entity, refreshed, found, work,
                   late, request, ghosts>>

\* The flag is not read again after the probe.
ProbeAnswers(w) ==
    /\ pc[w] = "probe"
    /\ matrixJobsTableReady' = TRUE
    /\ jobWorkerRunning' = TRUE
    /\ pc' = [pc EXCEPT ![w] = "find"]
    /\ UNCHANGED <<table, held, entity, refreshed, found, work, late, request, ghosts>>

ProbeFails(w) ==
    /\ pc[w] = "probe"
    /\ Fault
    /\ matrixJobsTableReady' = FALSE
    /\ pc' = [pc EXCEPT ![w] = "idle"]
    /\ UNCHANGED <<table, jobWorkerRunning, held, entity, refreshed, found, work, late,
                   request, upserts, stranded>>

\* Mutant of Return: no `finally`, the flag stays set.
ReturnWithFlagSet(w) ==
    /\ pc' = [pc EXCEPT ![w] = "idle"]
    /\ held' = [held EXCEPT ![w] = NoJob]
    /\ entity' = [entity EXCEPT ![w] = NoRow]
    /\ refreshed' = [refreshed EXCEPT ![w] = NoRow]
    /\ found' = [found EXCEPT ![w] = NoRow]
    /\ work' = [work EXCEPT ![w] = NoWork]
    /\ UNCHANGED jobWorkerRunning

\* `finally`: the invocation is over, and it clears the flag whoever set it.
Return(w) ==
    /\ pc' = [pc EXCEPT ![w] = "idle"]
    /\ jobWorkerRunning' = FALSE
    /\ held' = [held EXCEPT ![w] = NoJob]
    /\ entity' = [entity EXCEPT ![w] = NoRow]
    /\ refreshed' = [refreshed EXCEPT ![w] = NoRow]
    /\ found' = [found EXCEPT ![w] = NoRow]
    /\ work' = [work EXCEPT ![w] = NoWork]

Pending == {j \in Jobs : rows[j].status = "pending"}

\* Mutant of Oldest: createdAt descending.
Newest(j) == j \in Pending /\ \A k \in Pending : k <= j

Oldest(j) == j \in Pending /\ \A k \in Pending : j <= k

FindPending(w) ==
    /\ pc[w] = "find"
    /\ \/ /\ Pending = {}
          /\ Return(w)
       \/ /\ \E j \in Jobs : Oldest(j) /\ held' = [held EXCEPT ![w] = j]
          /\ pc' = [pc EXCEPT ![w] = "claim"]
          /\ UNCHANGED <<jobWorkerRunning, entity, refreshed, found, work>>
    /\ UNCHANGED <<table, matrixJobsTableReady, late, request, ghosts>>

\* Mutant of Claim: the UPDATE does not ask for status = 'pending'.
ClaimById(w) ==
    /\ pc[w] = "claim"
    /\ rows' = [rows EXCEPT ![held[w]].status = "running",
                            ![held[w]].tally = NoEdges]
    /\ pc' = [pc EXCEPT ![w] = "reread"]
    /\ UNCHANGED <<created, matrixJobsTableReady, jobWorkerRunning, held, entity,
                   refreshed, found, work, late, request, ghosts>>

\* UPDATE ... SET status = 'running', counters 0 WHERE id AND status = 'pending'.
\* An invocation that finds the row taken gives up until the next tick.
Claim(w) ==
    /\ pc[w] = "claim"
    /\ LET j == held[w]
       IN  \/ /\ rows[j].status = "pending"
              /\ rows' = [rows EXCEPT ![j].status = "running",
                                      ![j].tally = NoEdges]
              /\ pc' = [pc EXCEPT ![w] = "reread"]
              /\ UNCHANGED <<jobWorkerRunning, held, entity, refreshed, found, work>>
           \/ /\ rows[j].status # "pending"
              /\ Return(w)
              /\ UNCHANGED rows
    /\ UNCHANGED <<created, matrixJobsTableReady, late, request, ghosts>>

Reread(w) ==
    /\ pc[w] = "reread"
    /\ LET j == held[w]
       IN  IF rows[j].status = "absent" THEN Return(w)
           ELSE /\ entity' = [entity EXCEPT ![w] = rows[j]]
                /\ pc' = [pc EXCEPT ![w] = "load"]
                /\ UNCHANGED <<jobWorkerRunning, held, refreshed, found, work>>
    /\ UNCHANGED <<table, matrixJobsTableReady, late, request, ghosts>>

-----------------------------------------------------------------------------
(* processMatrixJob, up to the recompute                                   *)

\* loadCityNodes gives the total; places are edited meanwhile, so the number
\* of nodes is any number at each reading.
LoadNodes(w) ==
    /\ pc[w] = "load"
    /\ \E n \in 0..MaxNodes :
          entity' = [entity EXCEPT ![w].total = TotalEdges(entity[w].scope, n)]
    /\ pc' = [pc EXCEPT ![w] = "saveTotal"]
    /\ UNCHANGED <<table, matrixJobsTableReady, jobWorkerRunning, held, refreshed,
                   found, work, late, request, ghosts>>

\* TypeORM's save is a SELECT and an UPDATE of the columns in which the entity
\* differs, or an INSERT.  One step here and in SaveDone: while the invocation
\* waits there, nobody else writes its row (HeldRowIsRunning, and no chunk is
\* under way).  The save of the catch block takes two, SelectFailed and SaveFail.
SaveTotal(w) ==
    /\ pc[w] = "saveTotal"
    /\ rows' = [rows EXCEPT ![held[w]] = entity[w]]
    /\ pc' = [pc EXCEPT ![w] =
                IF entity[w].scope = "city" THEN "points" ELSE "resolve"]
    /\ UNCHANGED <<created, matrixJobsTableReady, jobWorkerRunning, held, entity,
                   refreshed, found, work, late, request, ghosts>>

\* resolvePointById throws NotFound when the place has been deleted.
ResolvePoint(w) ==
    /\ pc[w] = "resolve"
    /\ \E step \in {"points", "saveFail"} : pc' = [pc EXCEPT ![w] = step]
    /\ UNCHANGED <<table, matrixJobsTableReady, jobWorkerRunning, held, entity,
                   refreshed, found, work, late, request, ghosts>>

StartBatch(scope, n, d) ==
    [points |-> n, dest |-> d,
     calls |-> [e \in Dests |->
                  IF e \in Batch(scope, n, d) THEN NewCall ELSE NoCall]]

Running(k) == {d \in Dests : k.calls[d].on}

\* What is left of the work k: the calls still running, or the next batch.
Resume(scope, k) ==
    IF Running(k) # {} THEN k
    ELSE StartBatch(scope, k.points, NextDest(scope, k.dest))

\* w goes on with work k; the recompute is over when no call is left.
GoOn(w, k) ==
    /\ work' = [work EXCEPT ![w] = k]
    /\ pc' = [pc EXCEPT ![w] = IF Running(k) = {} THEN "refresh" ELSE "work"]

\* recomputeCity and recomputePointNeighborhood: the points are loaded again.
\* n = 0 also stands for AMAP disabled and for invalid coordinates.
LoadPoints(w) ==
    /\ pc[w] = "points"
    /\ LET scope == entity[w].scope
       IN  \E n \in 0..MaxNodes :
              GoOn(w, IF WorthCalling(scope, n)
                      THEN StartBatch(scope, n, FirstDest(scope)) ELSE NoWork)
    /\ UNCHANGED <<table, matrixJobsTableReady, jobWorkerRunning, held, entity,
                   refreshed, found, late, request, ghosts>>

-----------------------------------------------------------------------------
(* recomputeEdgesToDestination                                             *)

\* The next chunk's edges: how many, and how many are ready for each counter.
Chunks(size) == {[edges |-> size, ready |-> r] : r \in [Counters -> 0..size]}

\* The upserts of a chunk of job j store the edges c.  upsertEdge catches its
\* error, so the caller counts the edges m, which were not stored, as well.
Upsert(j, c, m) ==
    /\ cached' = [cached EXCEPT ![j] = Plus(@, c)]
    /\ missed' = [missed EXCEPT ![j] = Plus(@, m)]
    /\ IF m = NoEdges THEN UNCHANGED faults ELSE Fault

\* Fetch a chunk from the map provider and upsert its edges.  Provider errors
\* are swallowed: they show in the counts of ready edges at most.
ComputeChunk(w, d) ==
    /\ pc[w] = "work"
    /\ LET call == work[w].calls[d]
           rest == Origins(entity[w].scope, work[w].points, d) - call.handled
           size == ChunkSize(rest)
       IN  /\ call.on
           /\ call.chunk = NoEdges
           /\ rest > 0
           /\ \E lost \in 0..size :
                \E c \in Chunks(size - lost), m \in Chunks(lost) :
                  /\ work' = [work EXCEPT ![w].calls[d].chunk = Plus(c, m)]
                  /\ Upsert(held[w], c, m)
    /\ UNCHANGED <<table, matrixJobsTableReady, jobWorkerRunning, pc, held, entity,
                   refreshed, found, late, request, stranded>>

\* applyJobChunkProgress: an UPDATE by id that looks at no status.
AddProgress(j, c) ==
    rows' = IF rows[j].status = "absent" THEN rows
            ELSE [rows EXCEPT ![j].tally = Plus(@, c)]

\* Mutant of ReportChunk: the callback gets `summary`, the running sum of the
\* call, in place of `chunkSummary`.
ReportSummary(w, d) ==
    /\ pc[w] = "work"
    /\ LET call == work[w].calls[d]
           scope == entity[w].scope
           handled == call.handled + call.chunk.edges
           next == IF handled >= Origins(scope, work[w].points, d) THEN NoCall
                   ELSE [on |-> TRUE, handled |-> handled, chunk |-> NoEdges]
       IN  /\ call.on
           /\ call.chunk # NoEdges
           /\ AddProgress(held[w], [call.chunk EXCEPT !.edges = handled])
           /\ GoOn(w, Resume(scope, [work[w] EXCEPT !.calls[d] = next]))
    /\ UNCHANGED <<created, matrixJobsTableReady, jobWorkerRunning, held, entity,
                   refreshed, found, late, request, ghosts>>

ReportChunk(w, d) ==
    /\ pc[w] = "work"
    /\ LET call == work[w].calls[d]
           scope == entity[w].scope
           handled == call.handled + call.chunk.edges
           next == IF handled >= Origins(scope, work[w].points, d) THEN NoCall
                   ELSE [on |-> TRUE, handled |-> handled, chunk |-> NoEdges]
       IN  /\ call.on
           /\ call.chunk # NoEdges
           /\ AddProgress(held[w], call.chunk)
           /\ GoOn(w, Resume(scope, [work[w] EXCEPT !.calls[d] = next]))
    /\ UNCHANGED <<created, matrixJobsTableReady, jobWorkerRunning, held, entity,
                   refreshed, found, late, request, ghosts>>

\* The UPDATE fails.  A city recompute drops that destination and goes on; a
\* point recompute fails, and the call running beside this one (Promise.all)
\* goes on with nobody to wait for it.
ReportFails(w, d) ==
    /\ pc[w] = "work"
    /\ Fault
    /\ LET call == work[w].calls[d]
           k == [work[w] EXCEPT !.calls[d] = NoCall]
       IN  /\ call.on
           /\ call.chunk # NoEdges
           /\ IF entity[w].scope = "city"
              THEN /\ GoOn(w, Resume("city", k))
                   /\ UNCHANGED late
              ELSE /\ late' = late \cup {[job |-> held[w], chunk |-> k.calls[e].chunk]
                                           : e \in Running(k)}
                   /\ work' = [work EXCEPT ![w] = NoWork]
                   /\ pc' = [pc EXCEPT ![w] = "saveFail"]
    /\ UNCHANGED <<table, matrixJobsTableReady, jobWorkerRunning, held, entity,
                   refreshed, found, request, upserts, stranded>>

\* A call nobody waits for: outbound, so it has one origin.
LateCompute(l) ==
    /\ l.chunk = NoEdges
    /\ \E lost \in 0..1 :
         \E c \in Chunks(1 - lost), m \in Chunks(lost) :
           /\ late' = (late \ {l}) \cup {[l EXCEPT !.chunk = Plus(c, m)]}
           /\ Upsert(l.job, c, m)
    /\ UNCHANGED <<table, matrixJobsTableReady, jobWorkerRunning, invocation,
                   request, stranded>>

LateReport(l) ==
    /\ l.chunk # NoEdges
    /\ AddProgress(l.job, l.chunk)
    /\ late' = late \ {l}
    /\ UNCHANGED <<created, matrixJobsTableReady, jobWorkerRunning, invocation,
                   request, ghosts>>

LateFails(l) ==
    /\ l.chunk # NoEdges
    /\ Fault
    /\ late' = late \ {l}
    /\ UNCHANGED <<table, matrixJobsTableReady, jobWorkerRunning, invocation,
                   request, upserts, stranded>>

-----------------------------------------------------------------------------
(* processMatrixJob, after the recompute                                   *)

\* Mutant of Refresh: the entity of the claim is finished and saved.
RefreshNothing(w) ==
    /\ pc[w] = "refresh"
    /\ LET row == entity[w]
       IN  refreshed' = [refreshed EXCEPT ![w] =
             [row EXCEPT !.status = JobStatus(row.modes, row.total, row.tally)]]
    /\ pc' = [pc EXCEPT ![w] = "saveDone"]
    /\ UNCHANGED <<table, matrixJobsTableReady, jobWorkerRunning, held, entity,
                   found, work, late, request, ghosts>>

\* findOneOrFail, then the status computed from the counts just read.
Refresh(w) ==
    /\ pc[w] = "refresh"
    /\ LET row == rows[held[w]]
       IN  IF row.status = "absent"
           THEN /\ pc' = [pc EXCEPT ![w] = "saveFail"]
                /\ UNCHANGED refreshed
           ELSE /\ refreshed' = [refreshed EXCEPT ![w] =
                     [row EXCEPT !.status = JobStatus(row.modes, row.total, row.tally)]]
                /\ pc' = [pc EXCEPT ![w] = "saveDone"]
    /\ UNCHANGED <<table, matrixJobsTableReady, jobWorkerRunning, held, entity,
                   found, work, late, request, ghosts>>

SaveDone(w) ==
    /\ pc[w] = "saveDone"
    /\ rows' = [rows EXCEPT ![held[w]] = refreshed[w]]
    /\ Return(w)
    /\ UNCHANGED <<created, matrixJobsTableReady, late, request, ghosts>>

\* Mutant of StepFails: no catch block, only the `finally` of the caller.
StepFailsUncaught(w) ==
    /\ pc[w] \in {"load", "saveTotal", "resolve", "points", "refresh", "saveDone"}
    /\ Fault
    /\ Return(w)
    /\ UNCHANGED <<table, matrixJobsTableReady, late, request, upserts, stranded>>

\* An error inside the try block.  The errors that reach it come from the
\* database, so the status is never the rate_limited of a provider error.
StepFails(w) ==
    /\ pc[w] \in {"load", "saveTotal", "resolve", "points", "refresh", "saveDone"}
    /\ Fault
    /\ pc' = [pc EXCEPT ![w] = "saveFail"]
    /\ UNCHANGED <<table, matrixJobsTableReady, jobWorkerRunning, held, entity,
                   refreshed, found, work, late, request, upserts, stranded>>

\* The catch block saves the entity read after the claim: a SELECT first, ...
SelectFailed(w) ==
    /\ pc[w] = "saveFail"
    /\ found' = [found EXCEPT ![w] = rows[held[w]]]
    /\ pc' = [pc EXCEPT ![w] = "updateFail"]
    /\ UNCHANGED <<table, matrixJobsTableReady, jobWorkerRunning, held, entity,
                   refreshed, work, late, request, ghosts>>

\* The row after an UPDATE of the columns in which entity e differs from `was`.
Updated(row, e, was) ==
    LET Column(new, old, now) == IF new = old THEN now ELSE new
    IN  [scope |-> row.scope, modes |-> row.modes,
         status |-> Column(e.status, was.status, row.status),
         total |-> Column(e.total, was.total, row.total),
         tally |-> [edges |-> Column(e.tally.edges, was.tally.edges, row.tally.edges),
                    ready |-> [c \in Counters |->
                        Column(e.tally.ready[c], was.tally.ready[c], row.tally.ready[c])]]]

\* Mutant of SaveFail: the catch block logs and saves nothing.
FailWithoutSave(w) ==
    /\ pc[w] = "updateFail"
    /\ Return(w)
    /\ UNCHANGED <<table, matrixJobsTableReady, late, request, ghosts>>

\* ... then an UPDATE, or an INSERT if there was no row.  Its counts are those
\* of the claim: they replace the progress the SELECT saw, and leave alone what
\* a late call has reported since to a counter that was still 0 then.
SaveFail(w) ==
    /\ pc[w] = "updateFail"
    /\ LET e == [entity[w] EXCEPT !.status = "failed"]
           row == rows[held[w]]
       IN  rows' = [rows EXCEPT ![held[w]] =
                      IF found[w].status = "absent" THEN e
                      ELSE IF row.status = "absent" THEN row
                      ELSE Updated(row, e, found[w])]
    /\ Return(w)
    /\ UNCHANGED <<created, matrixJobsTableReady, late, request, ghosts>>

-----------------------------------------------------------------------------
(* The administrator's requests                                            *)

\* recomputeCity and recomputePoint (create), listJobs, removeJob.
Request(h, op, j) ==
    /\ request[h].at = "idle"
    /\ op # "list" \/ ~matrixJobsTableReady
    /\ LET first == CASE op = "create" -> "insert"
                      [] op = "remove" -> "check"
                      [] op = "list" -> "idle"
       IN  request' = [request EXCEPT ![h] =
             [op |-> op, job |-> j,
              at |-> IF matrixJobsTableReady THEN first ELSE "probe"]]
    /\ UNCHANGED <<table, matrixJobsTableReady, jobWorkerRunning, invocation, late,
                   ghosts>>

RequestProbeAnswers(h) ==
    /\ request[h].at = "probe"
    /\ matrixJobsTableReady' = TRUE
    /\ request' = [request EXCEPT ![h] =
         CASE @.op = "create" -> [@ EXCEPT !.at = "insert"]
           [] @.op = "remove" -> [@ EXCEPT !.at = "check"]
           [] @.op = "list" -> Idle]
    /\ UNCHANGED <<table, jobWorkerRunning, invocation, late, ghosts>>

RequestProbeFails(h) ==
    /\ request[h].at = "probe"
    /\ Fault
    /\ matrixJobsTableReady' = FALSE
    /\ request' = [request EXCEPT ![h] = Idle]
    /\ UNCHANGED <<table, jobWorkerRunning, invocation, late, upserts, stranded>>

\* createMatrixJob; the id is the database's, so it is the next number.
InsertJob(h, scope, modes) ==
    /\ request[h].at = "insert"
    /\ created < MaxJobs
    /\ created' = created + 1
    /\ rows' = [rows EXCEPT ![created + 1] =
                  [scope |-> scope, modes |-> modes, status |-> "pending",
                   total |-> 0, tally |-> NoEdges]]
    /\ request' = [request EXCEPT ![h] = Idle]
    /\ UNCHANGED <<matrixJobsTableReady, jobWorkerRunning, invocation, late, ghosts>>

\* Mutant of CheckRemovable: running jobs may be removed.
CheckNotPending(h) ==
    /\ request[h].at = "check"
    /\ IF rows[request[h].job].status \in {"absent", "pending"}
       THEN request' = [request EXCEPT ![h] = Idle]
       ELSE request' = [request EXCEPT ![h].at = "delete"]
    /\ UNCHANGED <<table, matrixJobsTableReady, jobWorkerRunning, invocation, late,
                   ghosts>>

\* removeJob reads the row and its status, then deletes by id alone.
CheckRemovable(h) ==
    /\ request[h].at = "check"
    /\ IF rows[request[h].job].status \in {"absent", "pending", "running"}
       THEN request' = [request EXCEPT ![h] = Idle]
       ELSE request' = [request EXCEPT ![h].at = "delete"]
    /\ UNCHANGED <<table, matrixJobsTableReady, jobWorkerRunning, invocation, late,
                   ghosts>>

DeleteJob(h) ==
    /\ request[h].at = "delete"
    /\ rows' = [rows EXCEPT ![request[h].job] = NoRow]
    /\ request' = [request EXCEPT ![h] = Idle]
    /\ UNCHANGED <<created, matrixJobsTableReady, jobWorkerRunning, invocation, late,
                   ghosts>>

RequestFails(h) ==
    /\ request[h].at \in {"insert", "check", "delete"}
    /\ Fault
    /\ request' = [request EXCEPT ![h] = Idle]
    /\ UNCHANGED <<table, matrixJobsTableReady, jobWorkerRunning, invocation, late,
                   upserts, stranded>>

-----------------------------------------------------------------------------
(* The process                                                             *)

\* The process dies: it is killed or redeployed, or a database error leaves
\* claimNextPendingJob or the catch block and nobody handles the rejection.
\* What was in memory is gone; onModuleInit looks at no running row.
Crash ==
    /\ Fault
    /\ matrixJobsTableReady' = FALSE
    /\ jobWorkerRunning' = FALSE
    /\ pc' = [w \in Workers |-> "idle"]
    /\ held' = [w \in Workers |-> NoJob]
    /\ entity' = [w \in Workers |-> NoRow]
    /\ refreshed' = [w \in Workers |-> NoRow]
    /\ found' = [w \in Workers |-> NoRow]
    /\ work' = [w \in Workers |-> NoWork]
    /\ late' = {}
    /\ request' = [h \in Handlers |-> Idle]
    /\ stranded' = stranded \cup {j \in Jobs : rows[j].status = "running"}
    /\ UNCHANGED <<table, upserts>>

\* What the code of an invocation does once the database has answered.
Step(w) ==
    \/ ProbeAnswers(w) \/ FindPending(w) \/ Claim(w) \/ Reread(w)
    \/ LoadNodes(w) \/ SaveTotal(w) \/ ResolvePoint(w) \/ LoadPoints(w)
    \/ \E d \in Dests : ComputeChunk(w, d) \/ ReportChunk(w, d)
    \/ Refresh(w) \/ SaveDone(w) \/ SelectFailed(w) \/ SaveFail(w)

StepFaults(w) ==
    \/ ProbeFails(w)
    \/ StepFails(w)
    \/ \E d \in Dests : ReportFails(w, d)

RequestStep(h) ==
    \/ \E j \in Jobs : Request(h, "remove", j)
    \/ \E op \in {"create", "list"} : Request(h, op, NoJob)
    \/ RequestProbeAnswers(h) \/ RequestProbeFails(h)
    \/ \E scope \in {"city", "point"}, modes \in (SUBSET Modes) \ {{}} :
          InsertJob(h, scope, modes)
    \/ CheckRemovable(h) \/ DeleteJob(h) \/ RequestFails(h)

Next ==
    \/ \E w \in Workers : Tick(w) \/ Step(w) \/ StepFaults(w)
    \/ \E l \in late : LateCompute(l) \/ LateReport(l) \/ LateFails(l)
    \/ \E h \in Handlers : RequestStep(h)
    \/ Crash

Spec == Init /\ [][Next]_vars

\* setInterval fires again and again, and the database answers every call: a
\* call answers or, at most MaxFaults times, fails.  Nothing is fair about
\* the administrator's requests or about crashes.
Fairness == \A w \in Workers : WF_vars(Tick(w)) /\ WF_vars(Step(w))

LiveSpec == Spec /\ Fairness

-----------------------------------------------------------------------------
(* Properties                                                              *)

\* Several invocations can be under way at once, because the flag is read
\* before the table probe and any of them clears it.  The conditional UPDATE
\* of claimNextPendingJob still gives each job to one invocation.
OneWorkerPerJob ==
    \A v, w \in Workers :
        v # w /\ pc[v] \in Holding /\ pc[w] \in Holding => held[v] # held[w]

\* From the claim to the last save the row is there and running: removeJob's
\* unprotected check-then-delete never takes a row from under an invocation,
\* and no save of another invocation overwrites it.
HeldRowIsRunning ==
    \A w \in Workers : pc[w] \in Holding => rows[held[w]].status = "running"

\* A running row is being worked on, unless the process died while it was:
\* nothing else leaves a row behind in the status that neither the worker
\* (which takes pending rows) nor removeJob (which refuses it) ever clears.
StrandedOnlyByCrash ==
    \A j \in Jobs : rows[j].status = "running" =>
        \/ j \in stranded
        \/ \E w \in Workers : pc[w] \in Holding /\ held[w] = j

\* Every edge the recompute counted for job j, stored or not.
Counted(j) == Plus(cached[j], missed[j])

\* A row never shows more edges, or more ready edges, than were stored for it,
\* but by those whose upsert error was swallowed, whatever chunk reports are
\* lost, late or overwritten by the catch block's stale entity.  In no mode does
\* it show more ready edges than edges, unless it failed: that save may reset
\* the edges and leave a ready counter that a late report has just raised.
ProgressIsReal ==
    \A j \in Jobs :
        /\ AtMost(rows[j].tally, Counted(j))
        /\ \/ rows[j].status = "failed"
           \/ \A c \in Counters : rows[j].tally.ready[c] <= rows[j].tally.edges

\* A job that shows completed has had at least its expected edges stored, each
\* ready for every mode it selected, but for those whose upsert error was
\* swallowed: late chunks, failed reports and stale saves cannot make up for
\* edges that were not computed.
CompletedIsEarned ==
    \A j \in Jobs : rows[j].status = "completed" =>
        rows[j].total = 0 \/ ModesReady(rows[j].modes, rows[j].total, Counted(j))

\* The counts of a row go down only where the code throws progress away: the
\* failure save, or the removal of the row.  In particular no chunk is
\* reported between the read and the save of the final status, which would be
\* lost by that save.
ProgressLostOnlyByFailure ==
    [][\A j \in Jobs :
          AtMost(rows[j].tally, rows'[j].tally)
            \/ rows'[j].status \in {"failed", "absent"}]_vars

\* The table is a JobBoard: one start and one finish per job, oldest first,
\* removal last.
Board == INSTANCE JobBoard WITH
    phase <- [j \in Jobs |-> rows[j].status],
    submitted <- created

BoardSpec == Board!Spec

\* An invocation that has claimed a job works on it alone and over a running
\* row, and a running row without an invocation was left by a crash.
WorkersHoldTheirJobs == OneWorkerPerJob /\ HeldRowIsRunning /\ StrandedOnlyByCrash

\* What a row counts, and that it is completed, was earned by edges that were
\* stored, or by an upsert that failed and was counted all the same.
ProgressIsEarned == ProgressIsReal /\ CompletedIsEarned

\* Every job is eventually claimed and finished, whatever overlapping
\* invocations, table probes and failures come before, unless the process dies
\* while the job is running.
JobsFinish ==
    \A j \in Jobs : rows[j].status \in {"pending", "running"} ~>
        (rows[j].status \in Finished \cup {"absent"} \/ j \in stranded)

=============================================================================
