-------------------------- MODULE MatrixJobs_proofs --------------------------
(***************************************************************************)
(* Theorems about MatrixJobs: type correctness, the exclusive hold of an   *)
(* invocation on its job, that the table is a JobBoard, and that what a    *)
(* row counts was earned by edges the recompute handled for it.            *)
(***************************************************************************)
EXTENDS MatrixJobs, TLAPS

-----------------------------------------------------------------------------
(* Types of the values                                                     *)

\* The empty values are values.
LEMMA EmptyValues ==
    /\ NoEdges \in Tally
    /\ NoRow \in Row
    /\ NoCall \in Call
    /\ NewCall \in Call
    /\ NoWork \in Work
<1>1. NoEdges \in Tally
  BY DEF NoEdges, Tally
<1>2. NoRow \in Row
  BY <1>1 DEF NoRow, Row, Status
<1>3. NoCall \in Call /\ NewCall \in Call
  BY <1>1 DEF NoCall, NewCall, Call
<1>4. NoWork \in Work
  BY <1>3 DEF NoWork, Work
<1> QED
  BY <1>1, <1>2, <1>3, <1>4

\* Adding a chunk to a tally gives a tally.
LEMMA PlusType ==
    ASSUME NEW s \in Tally, NEW t \in Tally
    PROVE  Plus(s, t) \in Tally
BY DEF Plus, Tally

\* The expected number of edges is never negative.
LEMMA TotalEdgesType ==
    ASSUME NEW scope, NEW n \in Nat
    PROVE  TotalEdges(scope, n) \in Nat
<1>1. CASE n <= 1
  BY <1>1 DEF TotalEdges
<1>2. CASE n > 1
  <2>1. n * (n - 1) \in Nat
    <3>1. n - 1 \in Nat
      BY <1>2
    <3> QED
      BY <3>1
  <2>2. (n - 1) * 2 \in Nat
    BY <1>2
  <2> QED
    BY <1>2, <2>1, <2>2 DEF TotalEdges
<1> QED
  BY <1>1, <1>2

\* A recompute ends with one of the three final statuses.
LEMMA JobStatusType ==
    ASSUME NEW modes, NEW expected, NEW t
    PROVE  JobStatus(modes, expected, t) \in Finished
BY DEF JobStatus, Finished

\* A chunk of a positive number of origins is a tally.
LEMMA ChunkType ==
    ASSUME NEW size \in Nat, NEW c \in Chunks(size)
    PROVE  c \in Tally
BY DEF Chunks, Tally

\* Starting a batch, and going on with a recompute, gives a recompute.
LEMMA StartBatchType ==
    ASSUME NEW scope, NEW n \in Nat, NEW d \in Nat
    PROVE  StartBatch(scope, n, d) \in Work
BY EmptyValues DEF StartBatch, Work

LEMMA ResumeType ==
    ASSUME NEW scope, NEW k \in Work
    PROVE  Resume(scope, k) \in Work
<1>1. NextDest(scope, k.dest) \in Nat /\ k.points \in Nat
  BY DEF NextDest, Concurrency, Work
<1> QED
  BY <1>1, StartBatchType DEF Resume

\* A chunk of which some edges were lost is a tally, and so is what was stored.
LEMMA SplitType ==
    ASSUME NEW size \in Nat, NEW lost \in 0..size,
           NEW c \in Chunks(size - lost), NEW m \in Chunks(lost)
    PROVE  c \in Tally /\ m \in Tally /\ Plus(c, m) \in Tally
<1>1. lost \in Nat /\ size - lost \in Nat
  OBVIOUS
<1>2. c \in Tally /\ m \in Tally
  BY <1>1, ChunkType
<1> QED
  BY <1>2, PlusType

\* Updating columns of a row gives a row.
LEMMA UpdatedType ==
    ASSUME NEW row \in Row, NEW e \in Row, NEW was
    PROVE  Updated(row, e, was) \in Row
<1> DEFINE u == Updated(row, e, was)
<1>1. /\ u.scope = row.scope /\ u.modes = row.modes
      /\ u.status \in {e.status, row.status} /\ u.total \in {e.total, row.total}
      /\ u.tally.edges \in {e.tally.edges, row.tally.edges}
  BY DEF Updated
<1>2. u.tally.ready \in [Counters -> Nat]
  BY DEF Updated, Row, Tally
<1>3. u.tally \in Tally
  BY <1>1, <1>2 DEF Updated, Row, Tally
<1> QED
  BY <1>1, <1>3 DEF Updated, Row

-----------------------------------------------------------------------------
(* Type correctness                                                        *)

\* Return resets what belongs to the invocation.
LEMMA ReturnType ==
    ASSUME TypeOK, NEW w \in Workers, Return(w)
    PROVE  /\ jobWorkerRunning' \in BOOLEAN
           /\ pc' \in [Workers -> Phase]
           /\ held' \in [Workers -> Jobs \cup {NoJob}]
           /\ entity' \in [Workers -> Row]
           /\ refreshed' \in [Workers -> Row]
           /\ found' \in [Workers -> Row]
           /\ work' \in [Workers -> Work]
BY EmptyValues DEF TypeOK, Return, Phase

\* A table row whose tally grows is still a row.
LEMMA AddProgressType ==
    ASSUME rows \in [Jobs -> Row], NEW j \in Jobs, NEW c \in Tally, AddProgress(j, c)
    PROVE  rows' \in [Jobs -> Row]
<1>1. Plus(rows[j].tally, c) \in Tally
  BY PlusType DEF Row
<1> QED
  BY <1>1 DEF AddProgress, Row

\* The ghosts of a chunk that is upserted keep their types.
LEMMA UpsertType ==
    ASSUME TypeOK, NEW j \in Jobs, NEW c \in Tally, NEW m \in Tally, Upsert(j, c, m)
    PROVE  /\ cached' \in [Jobs -> Tally]
           /\ missed' \in [Jobs -> Tally]
           /\ faults' \in Nat
<1>1. Plus(cached[j], c) \in Tally /\ Plus(missed[j], m) \in Tally
  BY PlusType DEF TypeOK
<1>2. faults' \in Nat
  BY DEF TypeOK, Upsert, Fault
<1> QED
  BY <1>1, <1>2 DEF TypeOK, Upsert

\* Going on with some work keeps the types of pc and work.
LEMMA GoOnType ==
    ASSUME TypeOK, NEW w \in Workers, NEW k \in Work, GoOn(w, k)
    PROVE  pc' \in [Workers -> Phase] /\ work' \in [Workers -> Work]
BY DEF TypeOK, GoOn, Phase, Holding

\* An invocation that has, or is about to claim, a job really has one.
HeldIsJob == \A w \in Workers : pc[w] \in Holding \cup {"claim"} => held[w] \in Jobs

\* A request past its table probe that is about a job names one.
RequestNamesJob ==
    \A h \in Handlers :
        \/ request[h].at \in {"check", "delete"}
        \/ request[h].at = "probe" /\ request[h].op = "remove"
        => request[h].job \in Jobs

Typed == TypeOK /\ HeldIsJob /\ RequestNamesJob

LEMMA TypedInit == Init => Typed
<1> SUFFICES ASSUME Init PROVE Typed
  OBVIOUS
<1> USE EmptyValues, JobsAssumption DEF Init
<1>1. TypeOK
  <2>1. matrixJobsTableReady \in BOOLEAN /\ jobWorkerRunning \in BOOLEAN
    OBVIOUS
  <2>2. created \in 0..MaxJobs /\ faults \in Nat
    OBVIOUS
  <2>3. pc \in [Workers -> Phase] /\ held \in [Workers -> Jobs \cup {NoJob}]
    BY DEF Phase
  <2>4. request \in [Handlers -> [op : {"create", "list", "remove"},
                                 at : RequestPhase, job : Jobs \cup {NoJob}]]
    BY DEF Idle, RequestPhase
  <2> QED
    BY <2>1, <2>2, <2>3, <2>4 DEF TypeOK
<1>2. HeldIsJob
  BY DEF HeldIsJob, Holding
<1>3. RequestNamesJob
  BY DEF RequestNamesJob, Idle
<1> QED
  BY <1>1, <1>2, <1>3 DEF Typed

LEMMA TypedStep == Typed /\ [Next]_vars => Typed'
<1> SUFFICES ASSUME Typed, [Next]_vars PROVE Typed'
  OBVIOUS
<1> USE DEF Typed, table, upserts, ghosts, Fault
<1>1. ASSUME NEW w \in Workers, Tick(w) PROVE Typed'
  BY <1>1 DEF TypeOK, HeldIsJob, RequestNamesJob, Tick, Phase, Holding
<1>2. ASSUME NEW w \in Workers, ProbeAnswers(w) PROVE Typed'
  BY <1>2 DEF TypeOK, HeldIsJob, RequestNamesJob, ProbeAnswers, Phase, Holding
<1>3. ASSUME NEW w \in Workers, ProbeFails(w) PROVE Typed'
  <2>1. matrixJobsTableReady' \in BOOLEAN /\ jobWorkerRunning' \in BOOLEAN
    BY <1>3 DEF ProbeFails, TypeOK
  <2>2. pc' \in [Workers -> Phase] /\ faults' \in Nat
    BY <1>3 DEF ProbeFails, TypeOK, Phase
  <2>3. HeldIsJob' /\ RequestNamesJob'
    BY <1>3 DEF ProbeFails, TypeOK, HeldIsJob, RequestNamesJob, Holding
  <2> QED
    BY <1>3, <2>1, <2>2, <2>3 DEF ProbeFails, TypeOK
<1>4. ASSUME NEW w \in Workers, FindPending(w) PROVE Typed'
  <2>1. CASE Return(w)
    BY <1>4, <2>1, ReturnType
    DEF TypeOK, HeldIsJob, RequestNamesJob, FindPending, Return, Holding
  <2>2. CASE ~Return(w)
    BY <1>4, <2>2 DEF TypeOK, HeldIsJob, RequestNamesJob, FindPending, Phase, Holding
  <2> QED
    BY <2>1, <2>2
<1>5. ASSUME NEW w \in Workers, Claim(w) PROVE Typed'
  <2>0. held[w] \in Jobs
    BY <1>5 DEF HeldIsJob, Claim
  <2>1. CASE Return(w) /\ UNCHANGED rows
    BY <1>5, <2>1, ReturnType
    DEF TypeOK, HeldIsJob, RequestNamesJob, Claim, Return, Holding
  <2>2. CASE rows[held[w]].status = "pending"
    <3>1. rows' \in [Jobs -> Row]
      <4>1. [rows[held[w]] EXCEPT !.status = "running", !.tally = NoEdges] \in Row
        BY <2>0, EmptyValues DEF TypeOK, Row, Status
      <4>2. rows' = [rows EXCEPT ![held[w]] =
                       [rows[held[w]] EXCEPT !.status = "running", !.tally = NoEdges]]
        BY <1>5, <2>0, <2>2 DEF TypeOK, Claim
      <4> QED
        BY <4>1, <4>2 DEF TypeOK
    <3> QED
      BY <1>5, <2>2, <2>0, <3>1
      DEF TypeOK, HeldIsJob, RequestNamesJob, Claim, Phase, Holding
  <2> QED
    BY <1>5, <2>1, <2>2 DEF Claim
<1>6. ASSUME NEW w \in Workers, Reread(w) PROVE Typed'
  <2>0. held[w] \in Jobs /\ rows[held[w]] \in Row
    BY <1>6 DEF HeldIsJob, Reread, Holding, TypeOK
  <2>1. CASE rows[held[w]].status = "absent"
    <3>1. Return(w)
      BY <1>6, <2>1 DEF Reread
    <3> QED
      BY <1>6, <3>1, ReturnType
      DEF TypeOK, HeldIsJob, RequestNamesJob, Reread, Return, Holding
  <2>2. CASE rows[held[w]].status # "absent"
    BY <1>6, <2>0, <2>2 DEF TypeOK, HeldIsJob, RequestNamesJob, Reread, Phase, Holding
  <2> QED
    BY <2>1, <2>2
<1>7. ASSUME NEW w \in Workers, LoadNodes(w) PROVE Typed'
  <2>1. PICK n \in 0..MaxNodes :
           entity' = [entity EXCEPT ![w].total = TotalEdges(entity[w].scope, n)]
    BY <1>7 DEF LoadNodes
  <2>2. TotalEdges(entity[w].scope, n) \in Nat
    BY TotalEdgesType, TallyAssumption
  <2>3. entity' \in [Workers -> Row]
    <3>1. [entity[w] EXCEPT !.total = TotalEdges(entity[w].scope, n)] \in Row
      <4>1. entity[w] \in Row
        BY DEF TypeOK
      <4> QED
        BY <2>2, <4>1 DEF Row
    <3> QED
      BY <2>1, <3>1 DEF TypeOK
  <2> QED
    BY <1>7, <2>3 DEF TypeOK, HeldIsJob, RequestNamesJob, LoadNodes, Phase, Holding
<1>8. ASSUME NEW w \in Workers, SaveTotal(w) PROVE Typed'
  BY <1>8 DEF TypeOK, HeldIsJob, RequestNamesJob, SaveTotal, Phase, Holding
<1>9. ASSUME NEW w \in Workers, ResolvePoint(w) PROVE Typed'
  BY <1>9 DEF TypeOK, HeldIsJob, RequestNamesJob, ResolvePoint, Phase, Holding
<1>10. ASSUME NEW w \in Workers, LoadPoints(w) PROVE Typed'
  <2>1. PICK n \in 0..MaxNodes :
           GoOn(w, IF WorthCalling(entity[w].scope, n)
                   THEN StartBatch(entity[w].scope, n, FirstDest(entity[w].scope))
                   ELSE NoWork)
    BY <1>10 DEF LoadPoints
  <2> DEFINE k == IF WorthCalling(entity[w].scope, n)
                  THEN StartBatch(entity[w].scope, n, FirstDest(entity[w].scope))
                  ELSE NoWork
  <2>2. n \in Nat /\ FirstDest(entity[w].scope) \in Nat
    BY TallyAssumption DEF FirstDest
  <2>3. k \in Work
    BY <2>2, StartBatchType, EmptyValues
  <2>4. pc' \in [Workers -> Phase] /\ work' \in [Workers -> Work]
    BY <2>1, <2>3, GoOnType
  <2>5. \A v \in Workers : pc'[v] \in Holding \cup {"claim"} => pc[v] \in Holding \cup {"claim"}
    BY <1>10, <2>1 DEF GoOn, TypeOK, Holding, LoadPoints
  <2> QED
    BY <1>10, <2>4, <2>5 DEF TypeOK, HeldIsJob, RequestNamesJob, LoadPoints
<1>11. ASSUME NEW w \in Workers, NEW d \in Dests, ComputeChunk(w, d) PROVE Typed'
  <2> DEFINE rest == Origins(entity[w].scope, work[w].points, d) - work[w].calls[d].handled
  <2> DEFINE size == ChunkSize(rest)
  <2>1. PICK lost \in 0..size :
           \E c \in Chunks(size - lost), m \in Chunks(lost) :
              /\ work' = [work EXCEPT ![w].calls[d].chunk = Plus(c, m)]
              /\ Upsert(held[w], c, m)
    BY <1>11 DEF ComputeChunk
  <2>1a. PICK c \in Chunks(size - lost), m \in Chunks(lost) :
              /\ work' = [work EXCEPT ![w].calls[d].chunk = Plus(c, m)]
              /\ Upsert(held[w], c, m)
    BY <2>1
  <2>2. work[w] \in Work /\ held[w] \in Jobs
    BY <1>11 DEF TypeOK, HeldIsJob, ComputeChunk, Holding
  <2>3. rest \in Int /\ rest > 0
    BY <1>11, <2>2 DEF ComputeChunk, Origins, Work, Call
  <2>4. size \in Nat
    BY <2>3, TallyAssumption DEF ChunkSize
  <2>5. c \in Tally /\ m \in Tally /\ Plus(c, m) \in Tally
    <3> HIDE DEF size
    <3> QED
      BY <2>4, SplitType
  <2>6. work' \in [Workers -> Work]
    <3>1. [work[w].calls[d] EXCEPT !.chunk = Plus(c, m)] \in Call
      BY <2>2, <2>5 DEF Work, Call
    <3>2. [work[w] EXCEPT !.calls[d] = [work[w].calls[d] EXCEPT !.chunk = Plus(c, m)]] \in Work
      BY <2>2, <3>1 DEF Work
    <3> QED
      BY <2>1a, <3>2 DEF TypeOK
  <2>7. cached' \in [Jobs -> Tally] /\ missed' \in [Jobs -> Tally] /\ faults' \in Nat
    BY <2>1a, <2>2, <2>5, UpsertType
  <2> QED
    BY <1>11, <2>6, <2>7 DEF TypeOK, HeldIsJob, RequestNamesJob, ComputeChunk
<1>12. ASSUME NEW w \in Workers, NEW d \in Dests, ReportChunk(w, d) PROVE Typed'
  <2> DEFINE call == work[w].calls[d]
             handled == call.handled + call.chunk.edges
             next == IF handled >= Origins(entity[w].scope, work[w].points, d) THEN NoCall
                     ELSE [on |-> TRUE, handled |-> handled, chunk |-> NoEdges]
             k == [work[w] EXCEPT !.calls[d] = next]
             r == Resume(entity[w].scope, k)
  <2>1. AddProgress(held[w], call.chunk) /\ GoOn(w, r) /\ pc[w] = "work"
    BY <1>12 DEF ReportChunk
  <2>2. work[w] \in Work /\ held[w] \in Jobs
    BY <2>1 DEF TypeOK, HeldIsJob, Holding
  <2>3. call \in Call /\ call.chunk \in Tally
    BY <2>2 DEF Work, Call
  <2>4. handled \in Nat
    BY <2>3 DEF Call, Tally
  <2>5. next \in Call
    BY <2>4, EmptyValues DEF Call
  <2>6. k \in Work
    BY <2>2, <2>5 DEF Work
  <2>7. r \in Work
    BY <2>6, ResumeType
  <2>8. pc' \in [Workers -> Phase] /\ work' \in [Workers -> Work]
    BY <2>1, <2>7, GoOnType
  <2>9. rows' \in [Jobs -> Row]
    BY <2>1, <2>2, <2>3, AddProgressType DEF TypeOK
  <2>10. \A v \in Workers : pc'[v] \in Holding \cup {"claim"} => pc[v] \in Holding \cup {"claim"}
    BY <2>1 DEF GoOn, TypeOK, Holding
  <2> QED
    BY <1>12, <2>8, <2>9, <2>10 DEF TypeOK, HeldIsJob, RequestNamesJob, ReportChunk
<1>13. ASSUME NEW w \in Workers, NEW d \in Dests, ReportFails(w, d) PROVE Typed'
  <2> DEFINE k == [work[w] EXCEPT !.calls[d] = NoCall]
             r == Resume("city", k)
  <2>1. work[w] \in Work /\ held[w] \in Jobs /\ pc[w] = "work"
    BY <1>13 DEF TypeOK, HeldIsJob, Holding, ReportFails
  <2>a. /\ UNCHANGED <<table, matrixJobsTableReady, jobWorkerRunning, held, entity,
                       refreshed, found, request, upserts, stranded>>
        /\ faults' \in Nat
    BY <1>13 DEF ReportFails, Fault, TypeOK
  <2>2. k \in Work
    BY <2>1, EmptyValues DEF Work
  <2>3. CASE entity[w].scope = "city"
    <3>1. GoOn(w, r) /\ UNCHANGED late
      BY <1>13, <2>3 DEF ReportFails
    <3>2. pc' \in [Workers -> Phase] /\ work' \in [Workers -> Work]
      BY <3>1, <2>2, ResumeType, GoOnType
    <3>3. \A v \in Workers : pc'[v] \in Holding \cup {"claim"} => pc[v] \in Holding \cup {"claim"}
      BY <3>1, <2>1 DEF GoOn, TypeOK, Holding
    <3>4. TypeOK'
      BY <2>a, <3>1, <3>2 DEF TypeOK, table
    <3> QED
      BY <2>a, <3>3, <3>4 DEF HeldIsJob, RequestNamesJob
  <2>4. CASE entity[w].scope # "city"
    <3>1. /\ late' = late \cup {[job |-> held[w], chunk |-> k.calls[e].chunk]
                                 : e \in Running(k)}
          /\ work' = [work EXCEPT ![w] = NoWork]
          /\ pc' = [pc EXCEPT ![w] = "saveFail"]
      BY <1>13, <2>4 DEF ReportFails
    <3>2. \A e \in Running(k) : k.calls[e].chunk \in Tally
      BY <2>2 DEF Running, Work, Call
    <3>3. late' \in SUBSET [job : Jobs, chunk : Tally]
      BY <3>1, <3>2, <2>1 DEF TypeOK
    <3>4. work' \in [Workers -> Work]
      BY <3>1, EmptyValues DEF TypeOK
    <3>5. pc' \in [Workers -> Phase]
      BY <3>1 DEF TypeOK, Phase, Holding
    <3>6. \A v \in Workers : pc'[v] \in Holding \cup {"claim"} => pc[v] \in Holding \cup {"claim"}
      BY <3>1, <2>1 DEF TypeOK, Holding
    <3>7. TypeOK'
      BY <2>a, <3>3, <3>4, <3>5 DEF TypeOK, table
    <3> QED
      BY <2>a, <3>6, <3>7 DEF HeldIsJob, RequestNamesJob
  <2> QED
    BY <2>3, <2>4
<1>14. ASSUME NEW l \in late, LateCompute(l) PROVE Typed'
  <2>1. PICK lost \in 0..1 :
           \E c \in Chunks(1 - lost), m \in Chunks(lost) :
              /\ late' = (late \ {l}) \cup {[l EXCEPT !.chunk = Plus(c, m)]}
              /\ Upsert(l.job, c, m)
    BY <1>14 DEF LateCompute
  <2>1a. PICK c \in Chunks(1 - lost), m \in Chunks(lost) :
              /\ late' = (late \ {l}) \cup {[l EXCEPT !.chunk = Plus(c, m)]}
              /\ Upsert(l.job, c, m)
    BY <2>1
  <2>2. c \in Tally /\ m \in Tally /\ Plus(c, m) \in Tally /\ l.job \in Jobs
    BY SplitType DEF TypeOK
  <2>3. late' \in SUBSET [job : Jobs, chunk : Tally]
    BY <2>1a, <2>2 DEF TypeOK
  <2>4. cached' \in [Jobs -> Tally] /\ missed' \in [Jobs -> Tally] /\ faults' \in Nat
    BY <2>1a, <2>2, UpsertType
  <2> QED
    BY <1>14, <2>3, <2>4 DEF TypeOK, HeldIsJob, RequestNamesJob, LateCompute, invocation
<1>15. ASSUME NEW l \in late, LateReport(l) PROVE Typed'
  <2>1. rows' \in [Jobs -> Row]
    BY <1>15, AddProgressType DEF TypeOK, LateReport
  <2> QED
    BY <1>15, <2>1 DEF TypeOK, HeldIsJob, RequestNamesJob, LateReport, invocation
<1>16. ASSUME NEW l \in late, LateFails(l) PROVE Typed'
  BY <1>16 DEF TypeOK, HeldIsJob, RequestNamesJob, LateFails, invocation
<1>17. ASSUME NEW w \in Workers, Refresh(w) PROVE Typed'
  <2> DEFINE row == rows[held[w]]
             status == JobStatus(row.modes, row.total, row.tally)
  <2>1. held[w] \in Jobs /\ row \in Row
    BY <1>17 DEF TypeOK, HeldIsJob, Holding, Refresh
  <2>2. [row EXCEPT !.status = status] \in Row
    BY <2>1, JobStatusType DEF Row, Status
  <2>3. refreshed' \in [Workers -> Row]
    BY <1>17, <2>2 DEF TypeOK, Refresh
  <2>4. /\ pc' \in [Workers -> Phase]
        /\ \A v \in Workers : pc'[v] \in Holding \cup {"claim"} => pc[v] \in Holding \cup {"claim"}
    BY <1>17 DEF TypeOK, Refresh, Phase, Holding
  <2> QED
    BY <1>17, <2>3, <2>4 DEF TypeOK, HeldIsJob, RequestNamesJob, Refresh
<1>18. ASSUME NEW w \in Workers, SaveDone(w) PROVE Typed'
  <2>1. rows' \in [Jobs -> Row]
    BY <1>18 DEF TypeOK, SaveDone
  <2> QED
    BY <1>18, <2>1, ReturnType
    DEF TypeOK, HeldIsJob, RequestNamesJob, SaveDone, Return, Holding
<1>19. ASSUME NEW w \in Workers, StepFails(w) PROVE Typed'
  BY <1>19 DEF TypeOK, HeldIsJob, RequestNamesJob, StepFails, Phase, Holding
<1>20a. ASSUME NEW w \in Workers, SelectFailed(w) PROVE Typed'
  <2>1. held[w] \in Jobs /\ rows[held[w]] \in Row
    BY <1>20a DEF TypeOK, HeldIsJob, Holding, SelectFailed
  <2>2. found' \in [Workers -> Row]
    BY <1>20a, <2>1 DEF TypeOK, SelectFailed
  <2>3. /\ pc' \in [Workers -> Phase]
        /\ \A v \in Workers : pc'[v] \in Holding \cup {"claim"} => pc[v] \in Holding \cup {"claim"}
    BY <1>20a DEF TypeOK, SelectFailed, Phase, Holding
  <2> QED
    BY <1>20a, <2>2, <2>3 DEF TypeOK, HeldIsJob, RequestNamesJob, SelectFailed
<1>20. ASSUME NEW w \in Workers, SaveFail(w) PROVE Typed'
  <2> DEFINE e == [entity[w] EXCEPT !.status = "failed"]
             row == rows[held[w]]
             saved == IF found[w].status = "absent" THEN e
                      ELSE IF row.status = "absent" THEN row
                      ELSE Updated(row, e, found[w])
  <2>1. held[w] \in Jobs /\ row \in Row
    BY <1>20 DEF TypeOK, HeldIsJob, Holding, SaveFail
  <2>2. e \in Row
    <3>1. entity[w] \in Row /\ "failed" \in Status
      BY DEF TypeOK, Status, Finished
    <3> QED
      BY <3>1 DEF Row
  <2>3. saved \in Row
    <3> HIDE DEF e, row
    <3> QED
      BY <2>1, <2>2, UpdatedType
  <2>4. rows' = [rows EXCEPT ![held[w]] = saved]
    BY <1>20 DEF SaveFail
  <2>5. rows' \in [Jobs -> Row]
    <3> HIDE DEF saved
    <3> QED
      BY <2>3, <2>4 DEF TypeOK
  <2> QED
    BY <1>20, <2>5, ReturnType
    DEF TypeOK, HeldIsJob, RequestNamesJob, SaveFail, Return, Holding
<1>21. ASSUME NEW h \in Handlers, NEW j \in Jobs, Request(h, "remove", j) PROVE Typed'
  BY <1>21 DEF TypeOK, HeldIsJob, RequestNamesJob, Request, RequestPhase, invocation
<1>22. ASSUME NEW h \in Handlers, NEW op \in {"create", "list"}, Request(h, op, NoJob)
       PROVE  Typed'
  BY <1>22 DEF TypeOK, HeldIsJob, RequestNamesJob, Request, RequestPhase, invocation
<1>23. ASSUME NEW h \in Handlers, RequestProbeAnswers(h) PROVE Typed'
  BY <1>23
  DEF TypeOK, HeldIsJob, RequestNamesJob, RequestProbeAnswers, RequestPhase, Idle, invocation
<1>24. ASSUME NEW h \in Handlers, RequestProbeFails(h) PROVE Typed'
  <2>1. matrixJobsTableReady' \in BOOLEAN /\ jobWorkerRunning' \in BOOLEAN
    BY <1>24 DEF RequestProbeFails, TypeOK
  <2>2. Idle \in [op : {"create", "list", "remove"}, at : RequestPhase, job : Jobs \cup {NoJob}]
    BY DEF Idle, RequestPhase
  <2>3. faults' \in Nat
    BY <1>24 DEF RequestProbeFails, TypeOK
  <2>4. HeldIsJob' /\ RequestNamesJob'
    BY <1>24 DEF RequestProbeFails, TypeOK, HeldIsJob, RequestNamesJob, Idle, invocation
  <2> QED
    BY <1>24, <2>1, <2>2, <2>3, <2>4 DEF RequestProbeFails, TypeOK, invocation
<1>25. ASSUME NEW h \in Handlers, NEW scope \in {"city", "point"},
              NEW modes \in (SUBSET Modes) \ {{}}, InsertJob(h, scope, modes)
       PROVE  Typed'
  <2>1. created + 1 \in Jobs /\ created' \in 0..MaxJobs
    BY <1>25, JobsAssumption DEF TypeOK, InsertJob, Jobs
  <2>2. rows' \in [Jobs -> Row]
    BY <1>25, <2>1, EmptyValues DEF TypeOK, InsertJob, Row, Status
  <2> QED
    BY <1>25, <2>1, <2>2
    DEF TypeOK, HeldIsJob, RequestNamesJob, InsertJob, RequestPhase, Idle, invocation
<1>26. ASSUME NEW h \in Handlers, CheckRemovable(h) PROVE Typed'
  BY <1>26
  DEF TypeOK, HeldIsJob, RequestNamesJob, CheckRemovable, RequestPhase, Idle, invocation
<1>27. ASSUME NEW h \in Handlers, DeleteJob(h) PROVE Typed'
  BY <1>27, EmptyValues
  DEF TypeOK, HeldIsJob, RequestNamesJob, DeleteJob, RequestPhase, Idle, invocation
<1>28. ASSUME NEW h \in Handlers, RequestFails(h) PROVE Typed'
  BY <1>28
  DEF TypeOK, HeldIsJob, RequestNamesJob, RequestFails, RequestPhase, Idle, invocation
<1>29. CASE Crash
  <2>1. matrixJobsTableReady' \in BOOLEAN /\ jobWorkerRunning' \in BOOLEAN
    BY <1>29 DEF Crash
  <2>2. Idle \in [op : {"create", "list", "remove"}, at : RequestPhase, job : Jobs \cup {NoJob}]
    BY DEF Idle, RequestPhase
  <2>3. /\ faults' \in Nat
        /\ stranded' \in SUBSET Jobs
        /\ pc' \in [Workers -> Phase]
        /\ held' \in [Workers -> Jobs \cup {NoJob}]
    BY <1>29 DEF Crash, TypeOK, Phase
  <2>4. HeldIsJob' /\ RequestNamesJob'
    BY <1>29 DEF Crash, HeldIsJob, RequestNamesJob, Idle, Holding
  <2> QED
    BY <1>29, <2>1, <2>2, <2>3, <2>4, EmptyValues DEF Crash, TypeOK
<1>30. CASE UNCHANGED vars
  BY <1>30 DEF TypeOK, HeldIsJob, RequestNamesJob, vars, invocation
<1> QED
  BY <1>1, <1>2, <1>3, <1>4, <1>5, <1>6, <1>7, <1>8, <1>9, <1>10, <1>11, <1>12,
     <1>13, <1>14, <1>15, <1>16, <1>17, <1>18, <1>19, <1>20, <1>20a, <1>21, <1>22, <1>23,
     <1>24, <1>25, <1>26, <1>27, <1>28, <1>29, <1>30
  DEF Next, Step, StepFaults, RequestStep

\* Every variable keeps its type: totals and counts stay natural numbers, and
\* statuses stay among those the code writes.
THEOREM TypeCorrect == Spec => []TypeOK
<1>1. Typed => TypeOK
  BY DEF Typed
<1> QED
  BY <1>1, TypedInit, TypedStep, PTL DEF Spec

-----------------------------------------------------------------------------
(* Exclusive hold                                                          *)

\* Rows exist only for the jobs created so far: an insert takes a new number.
CreatedRows == \A j \in Jobs : rows[j].status # "absent" => j <= created

\* What an invocation will save keeps the row running until the last save, and
\* the row that the failure save found is a running one.
EntityIsRunning ==
    \A w \in Workers :
        /\ pc[w] \in Holding \ {"reread"} => entity[w].status = "running"
        /\ pc[w] = "updateFail" => found[w].status = "running"

RefreshedIsFinished ==
    \A w \in Workers : pc[w] = "saveDone" => refreshed[w].status \in Finished

\* A delete about to be sent is for a row that was finished when it was
\* checked, and finished rows stay finished.
DeletesFinished ==
    \A h \in Handlers : request[h].at = "delete" =>
        /\ rows[request[h].job].status \in Finished \cup {"absent"}
        /\ request[h].job <= created

\* The job an invocation is about to claim is still the oldest candidate.
FoundIsOldest ==
    \A w \in Workers : pc[w] = "claim" =>
        /\ held[w] <= created
        /\ \A k \in Jobs : k < held[w] => rows[k].status # "pending"

\* The inductive invariant.
Hold ==
    /\ Typed
    /\ CreatedRows
    /\ HeldRowIsRunning
    /\ OneWorkerPerJob
    /\ EntityIsRunning
    /\ RefreshedIsFinished
    /\ DeletesFinished
    /\ FoundIsOldest
    /\ StrandedOnlyByCrash

LEMMA HoldInit == Init => Hold
<1> SUFFICES ASSUME Init PROVE Hold
  OBVIOUS
<1>1. Typed
  BY TypedInit
<1> QED
  BY <1>1
  DEF Init, Hold, CreatedRows, HeldRowIsRunning, OneWorkerPerJob, EntityIsRunning,
      RefreshedIsFinished, DeletesFinished, FoundIsOldest, StrandedOnlyByCrash,
      NoRow, Idle, Holding

\* Reporting a chunk changes no status.
LEMMA AddProgressStatus ==
    ASSUME Typed, NEW i \in Jobs, NEW c, AddProgress(i, c)
    PROVE  \A j \in Jobs : rows'[j].status = rows[j].status
BY DEF Typed, TypeOK, AddProgress, Row

\* Steps that change no status, take up and drop no job, and send no delete.
Quiet ==
    /\ \A j \in Jobs : rows'[j].status = rows[j].status
    /\ UNCHANGED <<created, held, stranded>>
    /\ \A w \in Workers :
          /\ pc'[w] \in Holding \/ pc[w] \in Holding => pc'[w] \in Holding /\ pc[w] \in Holding
          /\ pc'[w] = "claim" => pc[w] = "claim"
          /\ pc'[w] \in Holding => entity'[w].status = "running" \/ pc'[w] = "reread"
          /\ pc'[w] = "updateFail" => found'[w].status = "running"
          /\ pc'[w] = "saveDone" => refreshed'[w].status \in Finished
    /\ \A h \in Handlers : request'[h].at = "delete" =>
          /\ request'[h].job \in Jobs
          /\ rows[request'[h].job].status \in Finished
               \/ (request[h].at = "delete" /\ request'[h].job = request[h].job)

LEMMA QuietKeepsHold ==
    ASSUME Hold, Typed', Quiet
    PROVE  Hold'
<1>0. Typed
  BY DEF Hold
<1>1. CreatedRows' /\ HeldRowIsRunning'
  BY <1>0 DEF Hold, Quiet, Typed, HeldIsJob, CreatedRows, HeldRowIsRunning, Holding
<1>2. OneWorkerPerJob' /\ StrandedOnlyByCrash'
  BY DEF Hold, Quiet, OneWorkerPerJob, StrandedOnlyByCrash
<1>3. EntityIsRunning' /\ RefreshedIsFinished'
  BY DEF Quiet, EntityIsRunning, RefreshedIsFinished, Holding
<1>4. DeletesFinished'
  <2> SUFFICES ASSUME NEW h \in Handlers, request'[h].at = "delete"
               PROVE  /\ rows'[request'[h].job].status \in Finished \cup {"absent"}
                      /\ request'[h].job <= created'
    BY DEF DeletesFinished
  <2>1. PICK j \in Jobs : j = request'[h].job
    BY DEF Quiet
  <2>2. rows'[j].status = rows[j].status /\ created' = created
    BY DEF Quiet
  <2>3. CASE rows[j].status \in Finished
    <3>1. j <= created
      BY <2>3 DEF Hold, CreatedRows, Finished
    <3> QED
      BY <2>1, <2>2, <2>3, <3>1
  <2>4. CASE request[h].at = "delete" /\ request[h].job = j
    BY <2>1, <2>2, <2>4 DEF Hold, DeletesFinished
  <2> QED
    BY <2>1, <2>3, <2>4 DEF Quiet
<1>5. FoundIsOldest'
  BY DEF Hold, Quiet, FoundIsOldest
<1> QED
  BY <1>1, <1>2, <1>3, <1>4, <1>5 DEF Hold

\* An invocation that is not holding, or whose row is not running any more, may
\* return.
LEMMA ReturnKeepsHold ==
    ASSUME Hold, Typed', NEW w \in Workers, Return(w),
           UNCHANGED <<rows, created, request, stranded>>,
           pc[w] \notin Holding
    PROVE  Hold'
BY DEF Hold, Typed, TypeOK, Return, CreatedRows, HeldRowIsRunning, OneWorkerPerJob,
       EntityIsRunning, RefreshedIsFinished, DeletesFinished, FoundIsOldest,
       StrandedOnlyByCrash, Holding

\* The last save of an invocation finishes its row.
LEMMA FinishKeepsHold ==
    ASSUME Hold, Typed', NEW w \in Workers, Return(w), pc[w] \in Holding,
           NEW row, row.status \in Finished, rows' = [rows EXCEPT ![held[w]] = row],
           UNCHANGED <<created, request, stranded>>
    PROVE  Hold'
<1>1. held[w] \in Jobs
  BY DEF Hold, Typed, HeldIsJob
<1>2. \A j \in Jobs : rows'[j].status =
                      IF j = held[w] THEN row.status ELSE rows[j].status
  BY <1>1 DEF Hold, Typed, TypeOK
<1>3. \A v \in Workers : /\ pc'[v] = IF v = w THEN "idle" ELSE pc[v]
                         /\ v # w => /\ held'[v] = held[v]
                                     /\ entity'[v] = entity[v]
                                     /\ refreshed'[v] = refreshed[v]
                                     /\ found'[v] = found[v]
  BY DEF Hold, Typed, TypeOK, Return
<1>4. row.status \notin {"absent", "pending", "running"}
  BY DEF Finished
<1>5. rows[held[w]].status = "running" /\ held[w] <= created
  BY <1>1 DEF Hold, HeldRowIsRunning, CreatedRows
<1>6. CreatedRows'
  BY <1>2, <1>5 DEF Hold, CreatedRows
<1>7. HeldRowIsRunning' /\ OneWorkerPerJob'
  BY <1>1, <1>2, <1>3 DEF Hold, Typed, HeldIsJob, HeldRowIsRunning, OneWorkerPerJob, Holding
<1>8. EntityIsRunning' /\ RefreshedIsFinished'
  BY <1>3 DEF Hold, EntityIsRunning, RefreshedIsFinished, Holding
<1>9. DeletesFinished'
  BY <1>2 DEF Hold, Typed, RequestNamesJob, DeletesFinished
<1>10. FoundIsOldest'
  BY <1>2, <1>3, <1>4 DEF Hold, FoundIsOldest
<1>11. StrandedOnlyByCrash'
  BY <1>2, <1>3, <1>4 DEF Hold, StrandedOnlyByCrash
<1> QED
  BY <1>6, <1>7, <1>8, <1>9, <1>10, <1>11 DEF Hold

\* The failure save leaves a running row failed, and each of its counts either
\* at what the entity has or as it was.
LEMMA SavedFails ==
    ASSUME Typed, NEW w \in Workers, SaveFail(w),
           rows[held[w]].status = "running", found[w].status = "running"
    PROVE  \E row \in Row :
              /\ rows' = [rows EXCEPT ![held[w]] = row]
              /\ row.status = "failed"
              /\ row.tally.edges \in {entity[w].tally.edges, rows[held[w]].tally.edges}
              /\ \A c \in Counters : row.tally.ready[c] \in
                     {entity[w].tally.ready[c], rows[held[w]].tally.ready[c]}
<1> DEFINE e == [entity[w] EXCEPT !.status = "failed"]
           row == rows[held[w]]
<1>1. held[w] \in Jobs /\ row \in Row
  BY DEF Typed, TypeOK, HeldIsJob, Holding, SaveFail
<1>2. entity[w] \in Row
  BY DEF Typed, TypeOK
<1>3. e \in Row /\ e.status = "failed" /\ e.tally = entity[w].tally
  <2>1. "failed" \in Status
    BY DEF Status, Finished
  <2> QED
    BY <1>2, <2>1 DEF Row
<1> HIDE DEF e
<1> DEFINE u == Updated(row, e, found[w])
<1>4. rows' = [rows EXCEPT ![held[w]] = u]
  BY DEF SaveFail, e
<1>5. u \in Row
  BY <1>1, <1>3, UpdatedType
<1>6. /\ u.status = "failed"
      /\ u.tally.edges \in {e.tally.edges, row.tally.edges}
      /\ \A c \in Counters : u.tally.ready[c] \in {e.tally.ready[c], row.tally.ready[c]}
  BY <1>3 DEF Updated
<1> HIDE DEF u
<1> QED
  BY <1>3, <1>4, <1>5, <1>6

LEMMA HoldStep == Hold /\ [Next]_vars => Hold'
<1> SUFFICES ASSUME Hold, [Next]_vars PROVE Hold'
  OBVIOUS
<1> USE DEF table, upserts, ghosts, Fault
<1>0. Typed /\ Typed'
  BY TypedStep DEF Hold
<1>e. \A w \in Workers :
         /\ pc[w] \in Holding => entity[w].status = "running" \/ pc[w] = "reread"
         /\ pc[w] = "updateFail" => found[w].status = "running"
  BY DEF Hold, EntityIsRunning
<1>r. \A w \in Workers : pc[w] = "saveDone" => refreshed[w].status \in Finished
  BY DEF Hold, RefreshedIsFinished
<1>h. \A w \in Workers : pc[w] \in Holding => held[w] \in Jobs /\ rows[held[w]].status = "running"
  BY DEF Hold, HeldRowIsRunning, Typed, HeldIsJob
<1>d. \A h \in Handlers : request[h].at = "delete" => request[h].job \in Jobs
  BY DEF Hold, Typed, RequestNamesJob
<1> USE DEF Holding
<1>1. ASSUME NEW w \in Workers, Tick(w) PROVE Hold'
  <2>1. Quiet
    BY <1>1, <1>0, <1>e, <1>r, <1>d DEF Quiet, Tick, Typed, TypeOK
  <2> QED
    BY <1>0, <2>1, QuietKeepsHold
<1>2. ASSUME NEW w \in Workers, ProbeAnswers(w) PROVE Hold'
  <2>1. Quiet
    BY <1>2, <1>0, <1>e, <1>r, <1>d DEF Quiet, ProbeAnswers, Typed, TypeOK
  <2> QED
    BY <1>0, <2>1, QuietKeepsHold
<1>3. ASSUME NEW w \in Workers, ProbeFails(w) PROVE Hold'
  <2>1. Quiet
    BY <1>3, <1>0, <1>e, <1>r, <1>d DEF Quiet, ProbeFails, Typed, TypeOK
  <2> QED
    BY <1>0, <2>1, QuietKeepsHold
<1>4. ASSUME NEW w \in Workers, FindPending(w) PROVE Hold'
  <2>1. CASE Return(w)
    BY <1>0, <1>4, <2>1, ReturnKeepsHold DEF FindPending
  <2>2. CASE ~Return(w)
    <3>1. PICK j \in Jobs : Oldest(j) /\ held' = [held EXCEPT ![w] = j]
      BY <1>4, <2>2 DEF FindPending
    <3>2. /\ pc[w] = "find" /\ pc' = [pc EXCEPT ![w] = "claim"]
          /\ UNCHANGED <<rows, created, request, stranded, entity, refreshed, found>>
      BY <1>4, <2>2 DEF FindPending
    <3>3. j <= created /\ \A k \in Jobs : k < j => rows[k].status # "pending"
      BY <3>1 DEF Oldest, Pending, Hold, CreatedRows, Jobs
    <3>4. \A v \in Workers :
            /\ pc'[v] = IF v = w THEN "claim" ELSE pc[v]
            /\ held'[v] = IF v = w THEN j ELSE held[v]
      BY <1>0, <3>1, <3>2 DEF Typed, TypeOK
    <3> QED
      BY <1>0, <3>2, <3>3, <3>4
      DEF Hold, CreatedRows, HeldRowIsRunning, OneWorkerPerJob, EntityIsRunning,
          RefreshedIsFinished, DeletesFinished, FoundIsOldest, StrandedOnlyByCrash
  <2> QED
    BY <2>1, <2>2
<1>5. ASSUME NEW w \in Workers, Claim(w) PROVE Hold'
  <2>1. CASE Return(w) /\ UNCHANGED rows
    BY <1>0, <1>5, <2>1, ReturnKeepsHold DEF Claim
  <2>2. CASE ~(Return(w) /\ UNCHANGED rows)
    <3>1. held[w] \in Jobs /\ pc[w] = "claim" /\ rows[held[w]].status = "pending"
      BY <1>0, <1>5, <2>2 DEF Claim, Typed, HeldIsJob
    <3>2. /\ \A j \in Jobs : rows'[j].status =
                              IF j = held[w] THEN "running" ELSE rows[j].status
          /\ \A v \in Workers : pc'[v] = IF v = w THEN "reread" ELSE pc[v]
          /\ UNCHANGED <<created, held, entity, refreshed, found, request, stranded>>
      BY <1>0, <1>5, <2>2, <3>1 DEF Claim, Typed, TypeOK, Row
    <3>3. CreatedRows' /\ FoundIsOldest' /\ EntityIsRunning' /\ RefreshedIsFinished'
      BY <3>1, <3>2
      DEF Hold, CreatedRows, FoundIsOldest, EntityIsRunning, RefreshedIsFinished
    <3>4. HeldRowIsRunning' /\ OneWorkerPerJob'
      BY <1>0, <3>1, <3>2
      DEF Hold, HeldRowIsRunning, OneWorkerPerJob, Typed, HeldIsJob
    <3>5. StrandedOnlyByCrash'
      BY <3>1, <3>2 DEF Hold, StrandedOnlyByCrash
    <3>6. DeletesFinished'
      BY <1>d, <3>1, <3>2 DEF Hold, DeletesFinished, Finished
    <3> QED
      BY <1>0, <3>3, <3>4, <3>5, <3>6 DEF Hold
  <2> QED
    BY <2>1, <2>2
<1>6. ASSUME NEW w \in Workers, Reread(w) PROVE Hold'
  <2>1. Quiet
    BY <1>6, <1>0, <1>e, <1>r, <1>d, <1>h DEF Quiet, Reread, Typed, TypeOK
  <2> QED
    BY <1>0, <2>1, QuietKeepsHold
<1>7. ASSUME NEW w \in Workers, LoadNodes(w) PROVE Hold'
  <2>1. PICK t : entity' = [entity EXCEPT ![w].total = t]
    BY <1>7 DEF LoadNodes
  <2>2. entity'[w].status = entity[w].status
    BY <1>0, <2>1 DEF Typed, TypeOK, Row
  <2>3. Quiet
    BY <1>7, <1>0, <1>e, <1>r, <1>d, <2>1, <2>2 DEF Quiet, LoadNodes, Typed, TypeOK
  <2> QED
    BY <1>0, <2>3, QuietKeepsHold
<1>8. ASSUME NEW w \in Workers, SaveTotal(w) PROVE Hold'
  <2>1. \A j \in Jobs : rows'[j].status = rows[j].status
    BY <1>8, <1>0, <1>e, <1>h DEF SaveTotal, Typed, TypeOK
  <2>2. Quiet
    BY <1>8, <1>0, <1>e, <1>r, <1>d, <2>1 DEF Quiet, SaveTotal, Typed, TypeOK
  <2> QED
    BY <1>0, <2>2, QuietKeepsHold
<1>9. ASSUME NEW w \in Workers, ResolvePoint(w) PROVE Hold'
  <2>1. Quiet
    BY <1>9, <1>0, <1>e, <1>r, <1>d DEF Quiet, ResolvePoint, Typed, TypeOK
  <2> QED
    BY <1>0, <2>1, QuietKeepsHold
<1>10. ASSUME NEW w \in Workers, LoadPoints(w) PROVE Hold'
  <2>1. Quiet
    BY <1>10, <1>0, <1>e, <1>r, <1>d DEF Quiet, LoadPoints, GoOn, Typed, TypeOK
  <2> QED
    BY <1>0, <2>1, QuietKeepsHold
<1>11. ASSUME NEW w \in Workers, NEW d \in Dests, ComputeChunk(w, d) PROVE Hold'
  <2>1. Quiet
    BY <1>11, <1>0, <1>e, <1>r, <1>d DEF Quiet, ComputeChunk, Typed, TypeOK
  <2> QED
    BY <1>0, <2>1, QuietKeepsHold
<1>12. ASSUME NEW w \in Workers, NEW d \in Dests, ReportChunk(w, d) PROVE Hold'
  <2>1. \A j \in Jobs : rows'[j].status = rows[j].status
    BY <1>12, <1>0, <1>h, AddProgressStatus DEF ReportChunk
  <2>2. Quiet
    BY <1>12, <1>0, <1>e, <1>r, <1>d, <2>1 DEF Quiet, ReportChunk, GoOn, Typed, TypeOK
  <2> QED
    BY <1>0, <2>2, QuietKeepsHold
<1>13. ASSUME NEW w \in Workers, NEW d \in Dests, ReportFails(w, d) PROVE Hold'
  <2>1. Quiet
    BY <1>13, <1>0, <1>e, <1>r, <1>d DEF Quiet, ReportFails, GoOn, Typed, TypeOK
  <2> QED
    BY <1>0, <2>1, QuietKeepsHold
<1>14. ASSUME NEW l \in late, LateCompute(l) PROVE Hold'
  <2>1. Quiet
    BY <1>14, <1>0, <1>e, <1>r, <1>d DEF Quiet, LateCompute, invocation, Typed, TypeOK
  <2> QED
    BY <1>0, <2>1, QuietKeepsHold
<1>15. ASSUME NEW l \in late, LateReport(l) PROVE Hold'
  <2>1. l.job \in Jobs
    BY <1>0 DEF Typed, TypeOK
  <2>2. \A j \in Jobs : rows'[j].status = rows[j].status
    BY <1>15, <1>0, <2>1, AddProgressStatus DEF LateReport
  <2>3. Quiet
    BY <1>15, <1>0, <1>e, <1>r, <1>d, <2>2 DEF Quiet, LateReport, invocation, Typed, TypeOK
  <2> QED
    BY <1>0, <2>3, QuietKeepsHold
<1>16. ASSUME NEW l \in late, LateFails(l) PROVE Hold'
  <2>1. Quiet
    BY <1>16, <1>0, <1>e, <1>r, <1>d DEF Quiet, LateFails, invocation, Typed, TypeOK
  <2> QED
    BY <1>0, <2>1, QuietKeepsHold
<1>17. ASSUME NEW w \in Workers, Refresh(w) PROVE Hold'
  <2>1. held[w] \in Jobs /\ rows[held[w]] \in Row /\ rows[held[w]].status = "running"
    BY <1>17, <1>0, <1>h DEF Refresh, Typed, TypeOK
  <2> DEFINE status == JobStatus(rows[held[w]].modes, rows[held[w]].total, rows[held[w]].tally)
  <2>2. refreshed' = [refreshed EXCEPT ![w] = [rows[held[w]] EXCEPT !.status = status]]
    BY <1>17, <2>1 DEF Refresh
  <2>3. refreshed'[w].status \in Finished
    BY <1>0, <2>1, <2>2, JobStatusType DEF Typed, TypeOK, Row
  <2>4. Quiet
    BY <1>17, <1>0, <1>e, <1>r, <1>d, <2>1, <2>3 DEF Quiet, Refresh, Typed, TypeOK
  <2> QED
    BY <1>0, <2>4, QuietKeepsHold
<1>18. ASSUME NEW w \in Workers, SaveDone(w) PROVE Hold'
  BY <1>18, <1>0, <1>r, FinishKeepsHold DEF SaveDone
<1>19. ASSUME NEW w \in Workers, StepFails(w) PROVE Hold'
  <2>1. Quiet
    BY <1>19, <1>0, <1>e, <1>r, <1>d DEF Quiet, StepFails, Typed, TypeOK
  <2> QED
    BY <1>0, <2>1, QuietKeepsHold
<1>20a. ASSUME NEW w \in Workers, SelectFailed(w) PROVE Hold'
  <2>1. Quiet
    BY <1>20a, <1>0, <1>e, <1>r, <1>d, <1>h DEF Quiet, SelectFailed, Typed, TypeOK
  <2> QED
    BY <1>0, <2>1, QuietKeepsHold
<1>20. ASSUME NEW w \in Workers, SaveFail(w) PROVE Hold'
  <2>1. held[w] \in Jobs /\ pc[w] = "updateFail" /\ rows[held[w]].status = "running"
    BY <1>20, <1>h DEF SaveFail
  <2>2. PICK row : row.status = "failed" /\ rows' = [rows EXCEPT ![held[w]] = row]
    BY <1>20, <1>0, <1>e, <2>1, SavedFails
  <2>3. row.status \in Finished
    BY <2>2 DEF Finished
  <2>4. Return(w) /\ UNCHANGED <<created, request, stranded>>
    BY <1>20 DEF SaveFail
  <2> QED
    BY <1>0, <2>1, <2>2, <2>3, <2>4, FinishKeepsHold
<1>21. ASSUME NEW h \in Handlers, NEW j \in Jobs, Request(h, "remove", j) PROVE Hold'
  <2>1. Quiet
    BY <1>21, <1>0, <1>e, <1>r, <1>d DEF Quiet, Request, invocation, Typed, TypeOK
  <2> QED
    BY <1>0, <2>1, QuietKeepsHold
<1>22. ASSUME NEW h \in Handlers, NEW op \in {"create", "list"}, Request(h, op, NoJob) PROVE Hold'
  <2>1. Quiet
    BY <1>22, <1>0, <1>e, <1>r, <1>d DEF Quiet, Request, invocation, Typed, TypeOK
  <2> QED
    BY <1>0, <2>1, QuietKeepsHold
<1>23. ASSUME NEW h \in Handlers, RequestProbeAnswers(h) PROVE Hold'
  <2>1. Quiet
    BY <1>23, <1>0, <1>e, <1>r, <1>d DEF Quiet, RequestProbeAnswers, invocation, Idle, Typed, TypeOK
  <2> QED
    BY <1>0, <2>1, QuietKeepsHold
<1>24. ASSUME NEW h \in Handlers, RequestProbeFails(h) PROVE Hold'
  <2>1. Quiet
    BY <1>24, <1>0, <1>e, <1>r, <1>d DEF Quiet, RequestProbeFails, invocation, Idle, Typed, TypeOK
  <2> QED
    BY <1>0, <2>1, QuietKeepsHold
<1>25. ASSUME NEW h \in Handlers, NEW scope \in {"city", "point"},
              NEW modes \in (SUBSET Modes) \ {{}}, InsertJob(h, scope, modes)
       PROVE  Hold'
  <2>1. created \in Nat /\ created + 1 \in Jobs /\ created' = created + 1
    BY <1>25, <1>0, JobsAssumption DEF InsertJob, Typed, TypeOK, Jobs
  <2>2. rows[created + 1].status = "absent"
    BY <2>1 DEF Hold, CreatedRows
  <2>3. /\ \A j \in Jobs : rows'[j].status =
                            IF j = created + 1 THEN "pending" ELSE rows[j].status
        /\ UNCHANGED <<pc, held, entity, refreshed, found, stranded>>
        /\ \A g \in Handlers : request'[g].at = "delete" =>
              request[g].at = "delete" /\ request'[g].job = request[g].job
    BY <1>25, <1>0, <2>1 DEF InsertJob, invocation, Typed, TypeOK, Idle
  <2>4. CreatedRows' /\ FoundIsOldest'
    BY <1>0, <2>1, <2>3 DEF Hold, CreatedRows, FoundIsOldest, Typed, HeldIsJob, Jobs
  <2>5. HeldRowIsRunning' /\ OneWorkerPerJob' /\ EntityIsRunning' /\ RefreshedIsFinished'
    BY <1>h, <2>2, <2>3
    DEF Hold, HeldRowIsRunning, OneWorkerPerJob, EntityIsRunning, RefreshedIsFinished
  <2>6. StrandedOnlyByCrash'
    BY <2>3 DEF Hold, StrandedOnlyByCrash
  <2>7. DeletesFinished'
    BY <1>d, <2>1, <2>3 DEF Hold, DeletesFinished, Jobs
  <2> QED
    BY <1>0, <2>4, <2>5, <2>6, <2>7 DEF Hold
<1>26. ASSUME NEW h \in Handlers, CheckRemovable(h) PROVE Hold'
  <2>1. request[h].job \in Jobs
    BY <1>26, <1>0 DEF CheckRemovable, Typed, RequestNamesJob
  <2>2. rows[request[h].job].status \in Status
    BY <1>0, <2>1 DEF Typed, TypeOK, Row
  <2>3. Quiet
    BY <1>26, <1>0, <1>e, <1>r, <1>d, <2>1, <2>2
    DEF Quiet, CheckRemovable, invocation, Idle, Status, Finished, Typed, TypeOK
  <2> QED
    BY <1>0, <2>3, QuietKeepsHold
<1>27. ASSUME NEW h \in Handlers, DeleteJob(h) PROVE Hold'
  <2>1. request[h].job \in Jobs /\ rows[request[h].job].status \notin {"pending", "running"}
    BY <1>27, <1>d DEF DeleteJob, Hold, DeletesFinished, Finished
  <2>2. /\ \A j \in Jobs : rows'[j].status =
                            IF j = request[h].job THEN "absent" ELSE rows[j].status
        /\ UNCHANGED <<created, pc, held, entity, refreshed, found, stranded>>
        /\ \A g \in Handlers : request'[g].at = "delete" =>
              request[g].at = "delete" /\ request'[g].job = request[g].job
    BY <1>27, <1>0, <2>1 DEF DeleteJob, NoRow, invocation, Idle, Typed, TypeOK
  <2>3. CreatedRows' /\ FoundIsOldest' /\ StrandedOnlyByCrash'
    BY <2>2 DEF Hold, CreatedRows, FoundIsOldest, StrandedOnlyByCrash
  <2>4. HeldRowIsRunning' /\ OneWorkerPerJob' /\ EntityIsRunning' /\ RefreshedIsFinished'
    BY <1>h, <2>1, <2>2
    DEF Hold, HeldRowIsRunning, OneWorkerPerJob, EntityIsRunning, RefreshedIsFinished
  <2>5. DeletesFinished'
    BY <1>d, <2>2 DEF Hold, DeletesFinished
  <2> QED
    BY <1>0, <2>3, <2>4, <2>5 DEF Hold
<1>28. ASSUME NEW h \in Handlers, RequestFails(h) PROVE Hold'
  <2>1. Quiet
    BY <1>28, <1>0, <1>e, <1>r, <1>d DEF Quiet, RequestFails, invocation, Idle, Typed, TypeOK
  <2> QED
    BY <1>0, <2>1, QuietKeepsHold
<1>29. CASE Crash
  <2>1. /\ \A w \in Workers : pc'[w] = "idle"
        /\ \A h \in Handlers : request'[h].at = "idle"
        /\ UNCHANGED <<rows, created>>
    BY <1>29 DEF Crash, Idle
  <2>2. stranded' = stranded \cup {j \in Jobs : rows[j].status = "running"}
    BY <1>29 DEF Crash
  <2> QED
    BY <1>0, <2>1, <2>2
    DEF Hold, CreatedRows, HeldRowIsRunning, OneWorkerPerJob, EntityIsRunning,
        RefreshedIsFinished, DeletesFinished, FoundIsOldest, StrandedOnlyByCrash
<1>30. CASE UNCHANGED vars
  <2>1. Quiet
    BY <1>30, <1>e, <1>r, <1>d DEF Quiet, vars, invocation
  <2> QED
    BY <1>0, <2>1, QuietKeepsHold
<1> QED
  BY <1>1, <1>2, <1>3, <1>4, <1>5, <1>6, <1>7, <1>8, <1>9, <1>10, <1>11, <1>12, <1>13, <1>14, <1>15, <1>16, <1>17, <1>18, <1>19, <1>20, <1>20a, <1>21, <1>22, <1>23, <1>24, <1>25, <1>26, <1>27, <1>28, <1>29, <1>30
  DEF Next, Step, StepFaults, RequestStep

LEMMA HoldAlways == Spec => []Hold
BY HoldInit, HoldStep, PTL DEF Spec

\* No two invocations work on one job, for any number of jobs, overlapping
\* invocations, requests and faults: the conditional UPDATE is enough even
\* though the flag jobWorkerRunning is not.
THEOREM ExclusiveWorker == Spec => []OneWorkerPerJob
<1>1. Hold => OneWorkerPerJob
  BY DEF Hold
<1> QED
  BY <1>1, HoldAlways, PTL

\* The row of a job stays there, and running, for as long as an invocation
\* works on it.
THEOREM HeldRowStays == Spec => []HeldRowIsRunning
<1>1. Hold => HeldRowIsRunning
  BY DEF Hold
<1> QED
  BY <1>1, HoldAlways, PTL

\* A running row that no invocation works on was left behind by a crash.
THEOREM OnlyCrashStrands == Spec => []StrandedOnlyByCrash
<1>1. Hold => StrandedOnlyByCrash
  BY DEF Hold
<1> QED
  BY <1>1, HoldAlways, PTL

-----------------------------------------------------------------------------
(* MatrixJobs implements JobBoard                                          *)

SameBoard == /\ \A j \in Jobs : rows'[j].status = rows[j].status
             /\ created' = created

\* Job j alone moves, to status s.
Moves(j, s) ==
    /\ created' = created
    /\ \A k \in Jobs : rows'[k].status = IF k = j THEN s ELSE rows[k].status

LEMMA BoardInit == Init => Board!Init
BY DEF Init, Board!Init, Board!Jobs, Jobs, NoRow

LEMMA SameBoardStutters == SameBoard => UNCHANGED Board!vars
BY DEF SameBoard, Board!vars

LEMMA MovesMaps ==
    ASSUME NEW j \in Jobs, NEW s, Moves(j, s)
    PROVE  /\ [k \in Jobs |-> rows'[k].status] =
                [[k \in Jobs |-> rows[k].status] EXCEPT ![j] = s]
           /\ created' = created
BY DEF Moves

LEMMA BoardStep == Hold /\ [Next]_vars => [Board!Next]_(Board!vars)
<1> SUFFICES ASSUME Hold, [Next]_vars PROVE Board!Next \/ UNCHANGED Board!vars
  OBVIOUS
<1> USE DEF table, ghosts
<1>0. Typed
  BY DEF Hold
<1>h. \A w \in Workers : pc[w] \in Holding => held[w] \in Jobs /\ rows[held[w]].status = "running"
  BY DEF Hold, HeldRowIsRunning, Typed, HeldIsJob
<1>b. ASSUME NEW j \in Jobs, Board!Start(j) \/ Board!Finish(j) \/ Board!Remove(j)
      PROVE  Board!Next
  BY <1>b DEF Board!Next, Board!Jobs, Jobs
<1>f. ASSUME NEW j \in Jobs, rows[j].status = "running", NEW s \in Finished, Moves(j, s)
      PROVE  Board!Next
  <2>1. Board!Finish(j)
    BY <1>f, MovesMaps DEF Board!Finish, Board!Outcomes, Finished
  <2> QED
    BY <2>1, <1>b
<1> SUFFICES ASSUME ~SameBoard PROVE Board!Next
  BY SameBoardStutters
<1>1. ASSUME NEW w \in Workers, Tick(w) PROVE SameBoard
  BY <1>1 DEF SameBoard, Tick
<1>2. ASSUME NEW w \in Workers, ProbeAnswers(w) PROVE SameBoard
  BY <1>2 DEF SameBoard, ProbeAnswers
<1>3. ASSUME NEW w \in Workers, ProbeFails(w) PROVE SameBoard
  BY <1>3 DEF SameBoard, ProbeFails
<1>4. ASSUME NEW w \in Workers, FindPending(w) PROVE SameBoard
  BY <1>4 DEF SameBoard, FindPending
<1>5. ASSUME NEW w \in Workers, Claim(w) PROVE SameBoard \/ Board!Next
  <2>1. CASE UNCHANGED rows
    BY <1>5, <2>1 DEF SameBoard, Claim
  <2>2. CASE ~UNCHANGED rows
    <3>0. PICK j \in Jobs : j = held[w]
      BY <1>0, <1>5 DEF Claim, Typed, HeldIsJob
    <3>1. pc[w] = "claim" /\ rows[j].status = "pending"
      BY <1>0, <1>5, <2>2, <3>0 DEF Claim
    <3>2. Moves(j, "running")
      <4>1. /\ rows' = [rows EXCEPT ![j].status = "running", ![j].tally = NoEdges]
            /\ created' = created
        BY <1>5, <2>2, <3>0 DEF Claim
      <4> QED
        BY <1>0, <4>1 DEF Moves, Typed, TypeOK, Row
    <3>3. \A k \in Jobs : k < j => rows[k].status # "pending"
      BY <3>0, <3>1 DEF Hold, FoundIsOldest
    <3>4. Board!Start(j)
      BY <3>1, <3>2, <3>3, MovesMaps DEF Board!Start, Board!Jobs, Jobs
    <3> QED
      BY <3>4, <1>b
  <2> QED
    BY <2>1, <2>2
<1>6. ASSUME NEW w \in Workers, Reread(w) PROVE SameBoard
  BY <1>6 DEF SameBoard, Reread
<1>7. ASSUME NEW w \in Workers, LoadNodes(w) PROVE SameBoard
  BY <1>7 DEF SameBoard, LoadNodes
<1>8. ASSUME NEW w \in Workers, SaveTotal(w) PROVE SameBoard
  <2>1. held[w] \in Jobs /\ rows[held[w]].status = "running" /\ entity[w].status = "running"
    BY <1>8, <1>h DEF SaveTotal, Holding, Hold, EntityIsRunning
  <2> QED
    BY <1>0, <1>8, <2>1 DEF SameBoard, SaveTotal, Typed, TypeOK
<1>9. ASSUME NEW w \in Workers, ResolvePoint(w) PROVE SameBoard
  BY <1>9 DEF SameBoard, ResolvePoint
<1>10. ASSUME NEW w \in Workers, LoadPoints(w) PROVE SameBoard
  BY <1>10 DEF SameBoard, LoadPoints
<1>11. ASSUME NEW w \in Workers, NEW d \in Dests, ComputeChunk(w, d) PROVE SameBoard
  BY <1>11 DEF SameBoard, ComputeChunk
<1>12. ASSUME NEW w \in Workers, NEW d \in Dests, ReportChunk(w, d) PROVE SameBoard
  <2>1. held[w] \in Jobs
    BY <1>12, <1>h DEF ReportChunk, Holding
  <2> QED
    BY <1>0, <1>12, <2>1, AddProgressStatus DEF SameBoard, ReportChunk
<1>13. ASSUME NEW w \in Workers, NEW d \in Dests, ReportFails(w, d) PROVE SameBoard
  BY <1>13 DEF SameBoard, ReportFails
<1>14. ASSUME NEW l \in late, LateCompute(l) PROVE SameBoard
  BY <1>14 DEF SameBoard, LateCompute
<1>15. ASSUME NEW l \in late, LateReport(l) PROVE SameBoard
  <2>1. l.job \in Jobs
    BY <1>0 DEF Typed, TypeOK
  <2> QED
    BY <1>0, <1>15, <2>1, AddProgressStatus DEF SameBoard, LateReport
<1>16. ASSUME NEW l \in late, LateFails(l) PROVE SameBoard
  BY <1>16 DEF SameBoard, LateFails
<1>17. ASSUME NEW w \in Workers, Refresh(w) PROVE SameBoard
  BY <1>17 DEF SameBoard, Refresh
<1>18. ASSUME NEW w \in Workers, SaveDone(w) PROVE Board!Next
  <2>1. held[w] \in Jobs /\ rows[held[w]].status = "running" /\ refreshed[w].status \in Finished
    BY <1>18, <1>h DEF SaveDone, Holding, Hold, RefreshedIsFinished
  <2>2. Moves(held[w], refreshed[w].status)
    BY <1>0, <1>18, <2>1 DEF Moves, SaveDone, Typed, TypeOK
  <2> QED
    BY <2>1, <2>2, <1>f
<1>19. ASSUME NEW w \in Workers, StepFails(w) PROVE SameBoard
  BY <1>19 DEF SameBoard, StepFails
<1>20a. ASSUME NEW w \in Workers, SelectFailed(w) PROVE SameBoard
  BY <1>20a DEF SameBoard, SelectFailed
<1>20. ASSUME NEW w \in Workers, SaveFail(w) PROVE Board!Next
  <2>1. held[w] \in Jobs /\ rows[held[w]].status = "running" /\ found[w].status = "running"
    BY <1>20, <1>h DEF SaveFail, Holding, Hold, EntityIsRunning
  <2>2. PICK row : row.status = "failed" /\ rows' = [rows EXCEPT ![held[w]] = row]
    BY <1>0, <1>20, <2>1, SavedFails
  <2>3. Moves(held[w], "failed") /\ "failed" \in Finished
    BY <1>0, <1>20, <2>1, <2>2 DEF Moves, SaveFail, Typed, TypeOK, Finished
  <2> QED
    BY <2>1, <2>3, <1>f
<1>21. ASSUME NEW h \in Handlers, NEW op, NEW j, Request(h, op, j) PROVE SameBoard
  BY <1>21 DEF SameBoard, Request
<1>23. ASSUME NEW h \in Handlers, RequestProbeAnswers(h) PROVE SameBoard
  BY <1>23 DEF SameBoard, RequestProbeAnswers
<1>24. ASSUME NEW h \in Handlers, RequestProbeFails(h) PROVE SameBoard
  BY <1>24 DEF SameBoard, RequestProbeFails
<1>25. ASSUME NEW h \in Handlers, NEW scope \in {"city", "point"},
              NEW modes \in (SUBSET Modes) \ {{}}, InsertJob(h, scope, modes)
       PROVE  Board!Next
  <2>1. /\ created \in Nat /\ created + 1 \in Jobs
        /\ created < MaxJobs /\ created' = created + 1
    BY <1>25, <1>0, JobsAssumption DEF InsertJob, Typed, TypeOK, Jobs
  <2>2. \A j \in Jobs : rows'[j].status =
                        IF j = created + 1 THEN "pending" ELSE rows[j].status
    BY <1>25, <1>0, <2>1 DEF InsertJob, Typed, TypeOK
  <2>3. [k \in Jobs |-> rows'[k].status] =
           [[k \in Jobs |-> rows[k].status] EXCEPT ![created + 1] = "pending"]
    BY <2>2
  <2>4. Board!Submit
    BY <2>1, <2>3 DEF Board!Submit
  <2> QED
    BY <2>4 DEF Board!Next
<1>26. ASSUME NEW h \in Handlers, CheckRemovable(h) PROVE SameBoard
  BY <1>26 DEF SameBoard, CheckRemovable
<1>27. ASSUME NEW h \in Handlers, DeleteJob(h) PROVE SameBoard \/ Board!Next
  <2>0. PICK j \in Jobs : j = request[h].job
    BY <1>27 DEF DeleteJob, Hold, Typed, RequestNamesJob
  <2>1. rows[j].status \in Finished \cup {"absent"}
    BY <1>27, <2>0 DEF DeleteJob, Hold, DeletesFinished
  <2>2. Moves(j, "absent")
    BY <1>0, <1>27, <2>0, <2>1 DEF Moves, DeleteJob, NoRow, Typed, TypeOK
  <2>3. CASE rows[j].status = "absent"
    BY <2>2, <2>3 DEF Moves, SameBoard
  <2>4. CASE rows[j].status \in Finished
    <3>1. Board!Remove(j)
      BY <2>1, <2>2, <2>4, MovesMaps DEF Board!Remove, Board!Outcomes, Finished
    <3> QED
      BY <3>1, <1>b
  <2> QED
    BY <2>1, <2>3, <2>4
<1>28. ASSUME NEW h \in Handlers, RequestFails(h) PROVE SameBoard
  BY <1>28 DEF SameBoard, RequestFails
<1>29. ASSUME Crash PROVE SameBoard
  BY <1>29 DEF SameBoard, Crash
<1>30. ASSUME UNCHANGED vars PROVE SameBoard
  BY <1>30 DEF SameBoard, vars
<1> QED
  BY <1>1, <1>2, <1>3, <1>4, <1>5, <1>6, <1>7, <1>8, <1>9, <1>10, <1>11, <1>12, <1>13, <1>14, <1>15, <1>16, <1>17, <1>18, <1>19, <1>20, <1>20a, <1>21, <1>23, <1>24, <1>25, <1>26, <1>27, <1>28, <1>29, <1>30
  DEF Next, Step, StepFaults, RequestStep

\* The table is a JobBoard for every instance: each job is started once, the
\* oldest first, finished once, and removed only after that.
THEOREM QueueIsBoard == Spec => BoardSpec
<1>1. Init => Board!Init
  BY BoardInit
<1>2. Hold /\ [Next]_vars => [Board!Next]_(Board!vars)
  BY BoardStep
<1> QED
  BY <1>1, <1>2, HoldAlways, PTL DEF Spec, BoardSpec, Board!Spec

\* No two invocations share a job, a held row is running, and only a crash
\* leaves a running row without one.
THEOREM WorkersHold == Spec => []WorkersHoldTheirJobs
<1>1. Hold => WorkersHoldTheirJobs
  BY DEF Hold, WorkersHoldTheirJobs
<1>2. QED
  BY <1>1, HoldAlways, PTL

-----------------------------------------------------------------------------
(* Tallies: sums and comparisons                                           *)

\* In no mode are there more ready edges than edges.
Sound(t) == \A c \in Counters : t.ready[c] <= t.edges

\* Sums of tallies: the empty one is neutral, the order of chunks is free, and
\* a sum is never less than its parts.
LEMMA PlusNone ==
    ASSUME NEW s \in Tally
    PROVE  Plus(s, NoEdges) = s /\ AtMost(NoEdges, s) /\ AtMost(s, s)
BY DEF Plus, NoEdges, Tally, AtMost

LEMMA PlusSwap ==
    ASSUME NEW s \in Tally, NEW c \in Tally, NEW d \in Tally
    PROVE  Plus(Plus(s, c), d) = Plus(Plus(s, d), c)
BY DEF Plus, Tally

LEMMA PlusGrows ==
    ASSUME NEW s \in Tally, NEW t \in Tally, NEW c \in Tally, AtMost(s, t)
    PROVE  AtMost(s, Plus(t, c)) /\ AtMost(Plus(s, c), Plus(t, c))
BY DEF Plus, Tally, AtMost

LEMMA AtMostThrough ==
    ASSUME NEW s \in Tally, NEW t \in Tally, NEW u \in Tally,
           AtMost(s, t), AtMost(t, u)
    PROVE  AtMost(s, u)
BY DEF Tally, AtMost

LEMMA SoundPlus ==
    ASSUME NEW s \in Tally, NEW t \in Tally, Sound(s), Sound(t)
    PROVE  Sound(Plus(s, t))
BY DEF Plus, Tally, Sound

LEMMA SoundChunk ==
    ASSUME NEW size \in Nat, NEW c \in Chunks(size)
    PROVE  Sound(c)
BY DEF Chunks, Sound

LEMMA SoundNone == Sound(NoEdges)
BY DEF Sound, NoEdges

\* What is ready in s is ready in anything s is at most.
LEMMA ReadyGrows ==
    ASSUME NEW modes \in SUBSET Modes, NEW expected \in Nat,
           NEW s \in Tally, NEW t \in Tally, AtMost(s, t),
           ModesReady(modes, expected, s)
    PROVE  ModesReady(modes, expected, t)
<1>1. Required(modes) \subseteq Counters
  BY TallyAssumption DEF Required
<1> QED
  BY <1>1 DEF ModesReady, AtMost, Tally

-----------------------------------------------------------------------------
(* The calls of a recompute have room in the row                           *)

\* A row that shows t, of a job for which u was counted, can count c as well.
Room(t, u, c) == AtMost(Plus(t, c), u)

\* The calls k of a recompute whose row shows t, of a job for which u was
\* upserted: at most two neighbours run, and what they have upserted and not
\* reported has room in the row.
CallsHaveRoom(t, u, k) ==
    /\ \A d, e \in Dests : k[d].on /\ k[e].on => d - e \in -1..1
    /\ \A d \in Dests : /\ Sound(k[d].chunk)
                        /\ ~k[d].on => k[d].chunk = NoEdges
                        /\ Room(t, u, k[d].chunk)
    /\ \A d, e \in Dests : d # e => Room(Plus(t, k[d].chunk), u, k[e].chunk)

LEMMA CallsStart ==
    ASSUME NEW t \in Tally, NEW u \in Tally, AtMost(t, u),
           NEW scope, NEW n \in Nat, NEW d \in Nat
    PROVE  CallsHaveRoom(t, u, StartBatch(scope, n, d).calls)
<1> DEFINE k == StartBatch(scope, n, d).calls
<1>1. \A e \in Dests : /\ k[e].chunk = NoEdges
                       /\ k[e].on => e \in {d, d + 1}
  BY DEF StartBatch, Batch, NewCall, NoCall, Concurrency
<1>2. \A e, f \in Dests : k[e].on /\ k[f].on => e - f \in -1..1
  BY <1>1
<1>3. Plus(t, NoEdges) = t
  BY PlusNone
<1>4. \A e \in Dests : Sound(k[e].chunk) /\ Room(t, u, k[e].chunk)
  BY <1>1, <1>3, SoundNone DEF Room
<1>5. \A e, f \in Dests : Room(Plus(t, k[e].chunk), u, k[f].chunk)
  BY <1>1, <1>3 DEF Room
<1> QED
  BY <1>1, <1>2, <1>4, <1>5 DEF CallsHaveRoom

\* A chunk is upserted and recorded as not reported.
LEMMA CallsCompute ==
    ASSUME NEW t \in Tally, NEW u \in Tally, NEW k \in [Dests -> Call],
           CallsHaveRoom(t, u, k), NEW d \in Dests, k[d].on,
           k[d].chunk = NoEdges, NEW c \in Tally, Sound(c)
    PROVE  CallsHaveRoom(t, Plus(u, c), [k EXCEPT ![d].chunk = c])
<1> DEFINE m == [k EXCEPT ![d].chunk = c]
<1>0. \A e \in Dests : k[e].chunk \in Tally
  BY DEF Call
<1>1. \A e \in Dests : /\ m[e].on = k[e].on
                       /\ m[e].chunk = IF e = d THEN c ELSE k[e].chunk
  BY DEF Call
<1>2. Room(t, u, NoEdges) /\ AtMost(t, u)
  BY PlusNone DEF CallsHaveRoom, Room
<1>3. ASSUME NEW e \in Dests
      PROVE  /\ Sound(m[e].chunk)
             /\ ~m[e].on => m[e].chunk = NoEdges
             /\ Room(t, Plus(u, c), m[e].chunk)
  <2>1. CASE e = d
    BY <1>1, <1>2, <2>1, PlusGrows DEF Room
  <2>2. CASE e # d
    <3>1. Plus(t, k[e].chunk) \in Tally /\ AtMost(Plus(t, k[e].chunk), u)
      BY <1>0, PlusType DEF CallsHaveRoom, Room
    <3>2. AtMost(Plus(t, k[e].chunk), Plus(u, c))
      BY <3>1, PlusGrows
    <3> QED
      BY <1>1, <2>2, <3>2 DEF CallsHaveRoom, Room
  <2> QED
    BY <2>1, <2>2
<1>4. ASSUME NEW e \in Dests, NEW f \in Dests, e # f
      PROVE  Room(Plus(t, m[e].chunk), Plus(u, c), m[f].chunk)
  <2>1. /\ Plus(t, k[e].chunk) \in Tally /\ AtMost(Plus(t, k[e].chunk), u)
        /\ Plus(t, k[f].chunk) \in Tally /\ AtMost(Plus(t, k[f].chunk), u)
    BY <1>0, PlusType DEF CallsHaveRoom, Room
  <2>2. CASE e = d
    <3>1. AtMost(Plus(Plus(t, k[f].chunk), c), Plus(u, c))
      BY <2>1, PlusGrows
    <3>2. Plus(Plus(t, c), k[f].chunk) = Plus(Plus(t, k[f].chunk), c)
      BY <1>0, PlusSwap
    <3> QED
      BY <1>1, <1>4, <2>2, <3>1, <3>2 DEF Room
  <2>3. CASE f = d
    BY <1>1, <1>4, <2>1, <2>3, PlusGrows DEF Room
  <2>4. CASE e # d /\ f # d
    <3>1. /\ Plus(Plus(t, k[e].chunk), k[f].chunk) \in Tally
          /\ AtMost(Plus(Plus(t, k[e].chunk), k[f].chunk), u)
      BY <1>0, <1>4, <2>1, PlusType DEF CallsHaveRoom, Room
    <3> QED
      BY <1>1, <2>4, <3>1, PlusGrows DEF Room
  <2> QED
    BY <2>2, <2>3, <2>4
<1>5. \A e, f \in Dests : m[e].on /\ m[f].on => e - f \in -1..1
  BY <1>1 DEF CallsHaveRoom
<1> QED
  BY <1>3, <1>4, <1>5 DEF CallsHaveRoom

\* A chunk is reported, and its call goes on or is over.
LEMMA CallsReport ==
    ASSUME NEW t \in Tally, NEW u \in Tally, NEW k \in [Dests -> Call],
           CallsHaveRoom(t, u, k), NEW d \in Dests, k[d].on,
           NEW next \in Call, next.chunk = NoEdges
    PROVE  CallsHaveRoom(Plus(t, k[d].chunk), u, [k EXCEPT ![d] = next])
<1> DEFINE s == Plus(t, k[d].chunk)
           m == [k EXCEPT ![d] = next]
<1>0. s \in Tally /\ AtMost(s, u) /\ Plus(s, NoEdges) = s
  BY PlusType, PlusNone DEF CallsHaveRoom, Room, Call
<1>1. \A e \in Dests : m[e] = IF e = d THEN next ELSE k[e]
  OBVIOUS
<1>2. \A e \in Dests : /\ Sound(m[e].chunk)
                       /\ ~m[e].on => m[e].chunk = NoEdges
                       /\ Room(s, u, m[e].chunk)
  BY <1>0, <1>1, SoundNone DEF CallsHaveRoom, Room
<1>3. \A e, f \in Dests : m[e].on /\ m[f].on => e - f \in -1..1
  BY <1>1 DEF CallsHaveRoom, Dests
<1>4. ASSUME NEW e \in Dests, NEW f \in Dests, e # f
      PROVE  Room(Plus(s, m[e].chunk), u, m[f].chunk)
  <2>1. m[e].chunk = NoEdges \/ m[f].chunk = NoEdges
    <3>1. CASE e = d \/ f = d
      BY <1>1, <3>1
    <3>2. CASE e # d /\ f # d
      <4>1. d \in Int /\ e \in Int /\ f \in Int
        BY TallyAssumption DEF Dests
      <4>2. ~(k[e].on /\ k[f].on)
        BY <1>4, <3>2, <4>1 DEF CallsHaveRoom
      <4> QED
        BY <1>1, <3>2, <4>2 DEF CallsHaveRoom
    <3> QED
      BY <3>1, <3>2
  <2>2. CASE m[e].chunk = NoEdges
    BY <1>0, <1>2, <2>2 DEF Room
  <2>3. CASE m[f].chunk = NoEdges
    <3>1. m[e].chunk \in Tally
      BY <1>1 DEF Call
    <3>2. Plus(Plus(s, m[e].chunk), NoEdges) = Plus(s, m[e].chunk)
      BY <1>0, <3>1, PlusType, PlusNone
    <3> QED
      BY <1>2, <2>3, <3>2 DEF Room
  <2> QED
    BY <2>1, <2>2, <2>3
<1> QED
  BY <1>2, <1>3, <1>4 DEF CallsHaveRoom

\* A call is given up: its chunk stays upserted and is never reported.
LEMMA CallsDrop ==
    ASSUME NEW t \in Tally, NEW u \in Tally, NEW k \in [Dests -> Call],
           CallsHaveRoom(t, u, k), AtMost(t, u), NEW d \in Dests
    PROVE  CallsHaveRoom(t, u, [k EXCEPT ![d] = NoCall])
<1> DEFINE m == [k EXCEPT ![d] = NoCall]
<1>0. Plus(t, NoEdges) = t
  BY PlusNone
<1>1. \A e \in Dests : m[e] = IF e = d THEN NoCall ELSE k[e]
  OBVIOUS
<1>2. NoCall.chunk = NoEdges /\ ~NoCall.on
  BY DEF NoCall
<1>3. \A e \in Dests : /\ Sound(m[e].chunk)
                       /\ ~m[e].on => m[e].chunk = NoEdges
                       /\ Room(t, u, m[e].chunk)
  BY <1>0, <1>1, <1>2, SoundNone DEF CallsHaveRoom, Room
<1>4. \A e, f \in Dests : m[e].on /\ m[f].on => e - f \in -1..1
  BY <1>1, <1>2 DEF CallsHaveRoom
<1>5. ASSUME NEW e \in Dests, NEW f \in Dests, e # f
      PROVE  Room(Plus(t, m[e].chunk), u, m[f].chunk)
  <2>1. CASE e = d
    BY <1>0, <1>1, <1>2, <1>3, <2>1 DEF Room
  <2>2. CASE f = d
    <3>1. Plus(t, m[e].chunk) \in Tally
      BY <1>1, PlusType, EmptyValues DEF Call
    <3>2. Plus(Plus(t, m[e].chunk), NoEdges) = Plus(t, m[e].chunk)
      BY <3>1, PlusNone
    <3> QED
      BY <1>1, <1>2, <1>3, <2>2, <3>2 DEF Room
  <2>3. CASE e # d /\ f # d
    BY <1>1, <1>5, <2>3 DEF CallsHaveRoom
  <2> QED
    BY <2>1, <2>2, <2>3
<1> QED
  BY <1>3, <1>4, <1>5 DEF CallsHaveRoom

\* The next batch starts when no call is left.
LEMMA CallsResume ==
    ASSUME NEW t \in Tally, NEW u \in Tally, AtMost(t, u),
           NEW scope, NEW k \in Work, CallsHaveRoom(t, u, k.calls)
    PROVE  CallsHaveRoom(t, u, Resume(scope, k).calls)
<1>1. NextDest(scope, k.dest) \in Nat /\ k.points \in Nat
  BY DEF NextDest, Concurrency, Work
<1> QED
  BY <1>1, CallsStart DEF Resume


-----------------------------------------------------------------------------
(* Progress is earned                                                      *)

\* A row is sound, unless it failed, and within what was counted; it starts from
\* nothing; and if it shows completed, that was earned.
JobIsReal(j) ==
    /\ rows[j].status = "failed" \/ Sound(rows[j].tally)
    /\ AtMost(rows[j].tally, Counted(j))
    /\ rows[j].status \in {"absent", "pending"} => rows[j].tally = NoEdges
    /\ rows[j].status = "completed" =>
          rows[j].total = 0 \/ ModesReady(rows[j].modes, rows[j].total, Counted(j))

\* Between the read and the save of the final status nothing was counted.
FinalIsFresh(w) ==
    LET row == rows[held[w]]
    IN  refreshed[w] = [row EXCEPT !.status = JobStatus(row.modes, row.total, row.tally)]

\* An invocation counts nothing before its recompute, and the entity it would
\* save on failure shows nothing.
WorkerIsReal(w) ==
    /\ pc[w] \in {"reread", "load", "saveTotal"} => rows[held[w]].tally = NoEdges
    /\ pc[w] \in Holding \ {"reread"} => entity[w].tally = NoEdges
    /\ pc[w] = "work" =>
          CallsHaveRoom(rows[held[w]].tally, Counted(held[w]), work[w].calls)
    /\ pc[w] = "saveDone" => FinalIsFresh(w)

\* The catch block.
Failing == {"saveFail", "updateFail"}

\* A call nobody waits for belongs to a job that has failed or is about to: no
\* invocation reads its row any more, and none will claim it.
LateIsReal(l) ==
    /\ Sound(l.chunk)
    /\ Room(rows[l.job].tally, Counted(l.job), l.chunk)
    /\ l.job <= created
    /\ rows[l.job].status # "pending"
    /\ \A w \in Workers : pc[w] \in Holding /\ held[w] = l.job => pc[w] \in Failing

OneLatePerJob == \A l, m \in late : l.job = m.job => l = m

\* With Hold, the inductive invariant.
Progress ==
    /\ \A j \in Jobs : JobIsReal(j)
    /\ \A w \in Workers : WorkerIsReal(w)
    /\ \A l \in late : LateIsReal(l)
    /\ OneLatePerJob

\* What is upserted adds to what is counted for its job.
LEMMA UpsertCounts ==
    ASSUME TypeOK, NEW j \in Jobs, NEW c \in Tally, NEW m \in Tally, Upsert(j, c, m)
    PROVE  /\ Counted(j)' = Plus(Counted(j), Plus(c, m))
           /\ \A i \in Jobs : i # j => Counted(i)' = Counted(i)
<1>1. /\ cached'[j] = Plus(cached[j], c) /\ missed'[j] = Plus(missed[j], m)
      /\ \A i \in Jobs : i # j => cached'[i] = cached[i] /\ missed'[i] = missed[i]
  BY DEF Upsert, TypeOK
<1>2. cached[j] \in Tally /\ missed[j] \in Tally
  BY DEF TypeOK
<1>3. \A s, t \in Tally :
         Plus(Plus(s, c), Plus(t, m)) = Plus(Plus(s, t), Plus(c, m))
  BY DEF Plus, Tally
<1> QED
  BY <1>1, <1>2, <1>3 DEF Counted

\* A chunk of which some edges were lost is a sound tally.
LEMMA SplitSound ==
    ASSUME NEW size \in Nat, NEW lost \in 0..size,
           NEW c \in Chunks(size - lost), NEW m \in Chunks(lost)
    PROVE  Sound(Plus(c, m))
<1>1. lost \in Nat /\ size - lost \in Nat
  OBVIOUS
<1> QED
  BY <1>1, ChunkType, SoundChunk, SoundPlus

LEMMA ProgressInit == Init => Progress
<1> SUFFICES ASSUME Init PROVE Progress
  OBVIOUS
<1>1. ASSUME NEW j \in Jobs PROVE JobIsReal(j)
  BY EmptyValues, PlusNone, SoundNone DEF Init, JobIsReal, NoRow, Counted
<1> QED
  BY <1>1 DEF Init, Progress, WorkerIsReal, OneLatePerJob, Holding

\* An invocation the step does not touch, nor the row of its job.
LEMMA WorkerKept ==
    ASSUME NEW w \in Workers, WorkerIsReal(w),
           pc'[w] = pc[w], held'[w] = held[w], entity'[w] = entity[w],
           refreshed'[w] = refreshed[w], work'[w] = work[w],
           pc[w] \in Holding => /\ rows'[held[w]] = rows[held[w]]
                                /\ Counted(held[w])' = Counted(held[w])
    PROVE  WorkerIsReal(w)'
BY DEF WorkerIsReal, FinalIsFresh, Holding, Counted

\* An invocation that holds no job.
LEMMA WorkerFree ==
    ASSUME NEW w \in Workers, pc'[w] \notin Holding
    PROVE  WorkerIsReal(w)'
BY DEF WorkerIsReal, Holding

\* Invocation w takes up no job, keeps the one it has or returns, and does not
\* leave the catch block but by returning.
Keeps(w) ==
    pc'[w] \in Holding =>
        /\ pc[w] \in Holding
        /\ held'[w] = held[w]
        /\ pc[w] \in Failing => pc'[w] \in Failing

\* A step that changes no row but that of job j, and upserts for it alone.
LEMMA JobStep ==
    ASSUME Hold, Hold', Progress, NEW j \in Jobs,
           \A k \in Jobs : k # j => rows'[k] = rows[k] /\ Counted(k)' = Counted(k),
           late' = late, created <= created',
           JobIsReal(j)',
           \A w \in Workers : WorkerIsReal(w)' /\ (Keeps(w) \/ held'[w] = j),
           \A l \in late : l.job = j => LateIsReal(l)'
    PROVE  Progress'
<1>1. ASSUME NEW k \in Jobs PROVE JobIsReal(k)'
  BY DEF Progress, JobIsReal
<1>2. ASSUME NEW l \in late, l.job # j PROVE LateIsReal(l)'
  <2>1. l.job \in Jobs /\ created \in Nat /\ created' \in Nat
    BY JobsAssumption DEF Hold, Typed, TypeOK, Jobs
  <2>2. rows'[l.job] = rows[l.job] /\ Counted(l.job)' = Counted(l.job) /\ l.job <= created'
    BY <1>2, <2>1 DEF Progress, LateIsReal, Jobs
  <2> QED
    BY <1>2, <2>2 DEF Progress, LateIsReal, Keeps
<1>3. OneLatePerJob'
  BY DEF Progress, OneLatePerJob
<1> QED
  BY <1>1, <1>2, <1>3 DEF Progress

\* A step that writes no row and upserts nothing.
Still == UNCHANGED <<rows, upserts, late, created>>

LEMMA StillStep ==
    ASSUME Progress, Still, \A w \in Workers : WorkerIsReal(w)' /\ Keeps(w)
    PROVE  Progress'
<1>1. \A l \in late : LateIsReal(l)'
  BY DEF Progress, Still, LateIsReal, Keeps, upserts, Counted
<1> QED
  BY <1>1 DEF Progress, Still, JobIsReal, OneLatePerJob, upserts, Counted

\* A step of invocation w alone that writes no row and upserts nothing.
LEMMA StillStepOf ==
    ASSUME Hold, Progress, Still, NEW w \in Workers, Keeps(w), WorkerIsReal(w)',
           \A v \in Workers : v # w =>
              /\ pc'[v] = pc[v] /\ held'[v] = held[v] /\ entity'[v] = entity[v]
              /\ refreshed'[v] = refreshed[v] /\ work'[v] = work[v]
    PROVE  Progress'
<1>1. ASSUME NEW v \in Workers PROVE WorkerIsReal(v)' /\ Keeps(v)
  BY WorkerKept DEF Keeps, Progress, Still, upserts, Counted
<1> QED
  BY <1>1, StillStep

\* A step of invocation w alone, which writes the row of job j.
LEMMA JobStepOf ==
    ASSUME Hold, Hold', Progress, NEW w \in Workers, NEW j \in Jobs,
           held[w] = j, held'[w] = j \/ pc'[w] \notin Holding,
           pc[w] \in Holding \/ rows[j].status = "pending",
           \A v \in Workers : v # w =>
              /\ pc'[v] = pc[v] /\ held'[v] = held[v] /\ entity'[v] = entity[v]
              /\ refreshed'[v] = refreshed[v] /\ work'[v] = work[v],
           \A k \in Jobs : k # j => rows'[k] = rows[k] /\ Counted(k)' = Counted(k),
           late' = late, created' = created,
           JobIsReal(j)', WorkerIsReal(w)',
           \A l \in late : l.job = j => LateIsReal(l)'
    PROVE  Progress'
<1>1. ASSUME NEW v \in Workers PROVE WorkerIsReal(v)' /\ (Keeps(v) \/ held'[v] = j)
  <2>1. CASE v = w
    BY <2>1 DEF Keeps
  <2>2. CASE v # w
    <3>1. pc[v] \in Holding => held[v] # j /\ held[v] \in Jobs
      BY <2>2 DEF Hold, HeldRowIsRunning, OneWorkerPerJob, Typed, HeldIsJob
    <3>2. WorkerIsReal(v)'
      BY <2>2, <3>1, WorkerKept DEF Progress
    <3> QED
      BY <2>2, <3>2 DEF Keeps
  <2> QED
    BY <2>1, <2>2
<1>2. created <= created'
  BY DEF Hold, Typed, TypeOK
<1> QED
  BY <1>1, <1>2, JobStep

\* A call nobody waits for belongs to no job that an invocation works on.
LEMMA LateElsewhere ==
    ASSUME Progress, NEW w \in Workers,
           pc[w] \in Holding \ Failing \/ rows[held[w]].status = "pending"
    PROVE  \A l \in late : l.job # held[w]
BY DEF Progress, LateIsReal, Holding, Failing


LEMMA ProgressStep == Hold /\ Hold' /\ Progress /\ [Next]_vars => Progress'
<1> SUFFICES ASSUME Hold, Hold', Progress, [Next]_vars PROVE Progress'
  OBVIOUS
<1> USE DEF table, upserts, ghosts, Fault, Counted, Failing
<1>0. TypeOK /\ TypeOK' /\ HeldIsJob
  BY DEF Hold, Typed
<1>h. \A w \in Workers : pc[w] \in Holding => held[w] \in Jobs /\ rows[held[w]].status = "running"
  BY DEF Hold, HeldRowIsRunning, Typed, HeldIsJob
<1>j. \A j \in Jobs : /\ JobIsReal(j)
                      /\ rows[j] \in Row /\ rows[j].tally \in Tally /\ Counted(j) \in Tally
                      /\ AtMost(rows[j].tally, Counted(j))
                      /\ rows[j].status = "failed" \/ Sound(rows[j].tally)
  BY <1>0, PlusType DEF Progress, JobIsReal, TypeOK, Row
<1>w. \A w \in Workers : WorkerIsReal(w)
  BY DEF Progress
<1>s. ASSUME \A w \in Workers : /\ pc'[w] = pc[w] /\ held'[w] = held[w]
                                /\ entity'[w] = entity[w] /\ refreshed'[w] = refreshed[w]
                                /\ work'[w] = work[w],
             Still
      PROVE  Progress'
  <2>1. \A w \in Workers : WorkerIsReal(w)' /\ Keeps(w)
    BY <1>s, <1>w, WorkerKept DEF Still, Keeps
  <2> QED
    BY <1>s, <2>1, StillStep
<1>1. ASSUME NEW w \in Workers, Tick(w) PROVE Progress'
  <2>1. pc'[w] \notin Holding
    BY <1>0, <1>1 DEF Tick, TypeOK, Holding
  <2> QED
    BY <1>0, <1>1, <2>1, WorkerFree, StillStepOf DEF Tick, TypeOK, Still, Keeps
<1>2. ASSUME NEW w \in Workers, ProbeAnswers(w) PROVE Progress'
  <2>1. pc'[w] \notin Holding
    BY <1>0, <1>2 DEF ProbeAnswers, TypeOK, Holding
  <2> QED
    BY <1>0, <1>2, <2>1, WorkerFree, StillStepOf DEF ProbeAnswers, TypeOK, Still, Keeps
<1>3. ASSUME NEW w \in Workers, ProbeFails(w) PROVE Progress'
  <2>1. pc'[w] \notin Holding
    BY <1>0, <1>3 DEF ProbeFails, TypeOK, Holding
  <2> QED
    BY <1>0, <1>3, <2>1, WorkerFree, StillStepOf DEF ProbeFails, TypeOK, Still, Keeps
<1>4. ASSUME NEW w \in Workers, FindPending(w) PROVE Progress'
  <2>1. pc'[w] \notin Holding
    BY <1>0, <1>4 DEF FindPending, Return, TypeOK, Holding
  <2>2. \A v \in Workers : v # w =>
              /\ pc'[v] = pc[v] /\ held'[v] = held[v] /\ entity'[v] = entity[v]
              /\ refreshed'[v] = refreshed[v] /\ work'[v] = work[v]
    BY <1>0, <1>4 DEF FindPending, Return, TypeOK
  <2>3. Still /\ Keeps(w)
    BY <1>4, <2>1 DEF FindPending, Still, Keeps
  <2> QED
    BY <2>1, <2>2, <2>3, WorkerFree, StillStepOf
<1>5. ASSUME NEW w \in Workers, Claim(w) PROVE Progress'
  <2>0. held[w] \in Jobs /\ pc[w] = "claim"
    BY <1>0, <1>5 DEF Claim, HeldIsJob
  <2>1. CASE Return(w) /\ UNCHANGED rows
    <3>1. pc'[w] \notin Holding
      BY <1>0, <2>1 DEF Return, TypeOK, Holding
    <3> QED
      BY <1>0, <1>5, <2>1, <3>1, WorkerFree, StillStepOf
      DEF Claim, Return, TypeOK, Still, Keeps
  <2>2. CASE ~(Return(w) /\ UNCHANGED rows)
    <3> DEFINE j == held[w]
    <3>1. /\ rows[j].status = "pending"
          /\ rows' = [rows EXCEPT ![j].status = "running", ![j].tally = NoEdges]
          /\ pc' = [pc EXCEPT ![w] = "reread"]
          /\ UNCHANGED <<created, held, entity, refreshed, work, late, upserts>>
      BY <1>5, <2>2 DEF Claim
    <3>2. /\ rows'[j] = [rows[j] EXCEPT !.status = "running", !.tally = NoEdges]
          /\ \A k \in Jobs : k # j => rows'[k] = rows[k]
      BY <1>0, <2>0, <3>1 DEF TypeOK
    <3>3. rows'[j].status = "running" /\ rows'[j].tally = NoEdges
      BY <1>j, <2>0, <3>2 DEF Row
    <3>4. JobIsReal(j)'
      BY <1>j, <2>0, <3>1, <3>3, PlusNone, SoundNone DEF JobIsReal
    <3>5. pc'[w] = "reread" /\ held'[w] = j
      BY <1>0, <3>1 DEF TypeOK
    <3>6. WorkerIsReal(w)'
      BY <3>3, <3>5 DEF WorkerIsReal
    <3>7. \A l \in late : l.job # j
      BY <3>1, LateElsewhere
    <3> HIDE DEF j
    <3> QED
      BY <1>0, <2>0, <3>1, <3>2, <3>4, <3>5, <3>6, <3>7, JobStepOf DEF TypeOK, j
  <2> QED
    BY <2>1, <2>2
<1>6. ASSUME NEW w \in Workers, Reread(w) PROVE Progress'
  <2>1. /\ pc[w] = "reread" /\ rows[held[w]].status = "running"
        /\ rows[held[w]].tally = NoEdges
    BY <1>6, <1>h, <1>w DEF Reread, WorkerIsReal, Holding
  <2>2. /\ entity' = [entity EXCEPT ![w] = rows[held[w]]]
        /\ pc' = [pc EXCEPT ![w] = "load"]
        /\ UNCHANGED <<table, held, refreshed, work, late, upserts>>
    BY <1>6, <2>1 DEF Reread
  <2>3. WorkerIsReal(w)'
    BY <1>0, <2>1, <2>2 DEF WorkerIsReal, TypeOK
  <2> QED
    BY <1>0, <2>1, <2>2, <2>3, StillStepOf DEF TypeOK, Still, Keeps, Holding
<1>7. ASSUME NEW w \in Workers, LoadNodes(w) PROVE Progress'
  <2>1. PICK t : entity' = [entity EXCEPT ![w].total = t]
    BY <1>7 DEF LoadNodes
  <2>2. /\ pc[w] = "load" /\ pc' = [pc EXCEPT ![w] = "saveTotal"]
        /\ UNCHANGED <<table, held, refreshed, work, late, upserts>>
    BY <1>7 DEF LoadNodes
  <2>3. entity'[w].tally = NoEdges /\ rows[held[w]].tally = NoEdges
    BY <1>0, <1>w, <2>1, <2>2 DEF WorkerIsReal, TypeOK, Row, Holding
  <2>4. WorkerIsReal(w)'
    BY <1>0, <2>2, <2>3 DEF WorkerIsReal, TypeOK
  <2> QED
    BY <1>0, <2>1, <2>2, <2>4, StillStepOf DEF TypeOK, Still, Keeps, Holding
<1>8. ASSUME NEW w \in Workers, SaveTotal(w) PROVE Progress'
  <2>1. pc[w] = "saveTotal" /\ entity[w] \in Row
    BY <1>0, <1>8 DEF SaveTotal, TypeOK
  <2>0. PICK j \in Jobs : held[w] = j
    BY <1>h, <2>1 DEF Holding
  <2>2. entity[w].status = "running" /\ entity[w].tally = NoEdges
    BY <1>w, <2>1 DEF Hold, EntityIsRunning, WorkerIsReal, Holding
  <2>3. /\ rows'[j] = entity[w] /\ \A k \in Jobs : k # j => rows'[k] = rows[k]
        /\ pc'[w] \in {"points", "resolve"}
        /\ \A v \in Workers : v # w => pc'[v] = pc[v]
        /\ UNCHANGED <<created, held, entity, refreshed, work, late, upserts>>
    BY <1>0, <1>8, <2>0 DEF SaveTotal, TypeOK
  <2>4. JobIsReal(j)'
    BY <1>j, <2>1, <2>2, <2>3, PlusNone, SoundNone DEF JobIsReal
  <2>5. WorkerIsReal(w)'
    BY <2>2, <2>3 DEF WorkerIsReal
  <2>6. \A l \in late : l.job # j
    BY <2>0, <2>1, LateElsewhere DEF Holding
  <2>7. held'[w] = j /\ pc[w] \in Holding
    BY <2>0, <2>1, <2>3 DEF Holding
  <2> QED
    BY <2>0, <2>3, <2>4, <2>5, <2>6, <2>7, JobStepOf
<1>9. ASSUME NEW w \in Workers, ResolvePoint(w) PROVE Progress'
  <2>1. WorkerIsReal(w)'
    BY <1>0, <1>9, <1>w DEF ResolvePoint, WorkerIsReal, TypeOK, Holding
  <2>2. Keeps(w) /\ Still
    BY <1>0, <1>9 DEF ResolvePoint, TypeOK, Still, Keeps, Holding
  <2> QED
    BY <1>0, <1>9, <2>1, <2>2, StillStepOf DEF ResolvePoint, TypeOK
<1>10. ASSUME NEW w \in Workers, LoadPoints(w) PROVE Progress'
  <2> DEFINE scope == entity[w].scope
  <2>1. PICK n \in 0..MaxNodes :
           GoOn(w, IF WorthCalling(scope, n)
                   THEN StartBatch(scope, n, FirstDest(scope)) ELSE NoWork)
    BY <1>10 DEF LoadPoints
  <2> DEFINE k == IF WorthCalling(scope, n)
                  THEN StartBatch(scope, n, FirstDest(scope)) ELSE NoWork
             j == held[w]
  <2>2. /\ pc[w] = "points" /\ j \in Jobs
        /\ UNCHANGED <<table, held, entity, refreshed, late, upserts>>
    BY <1>10, <1>h DEF LoadPoints, Holding
  <2>3. pc'[w] \in {"refresh", "work"} /\ (pc'[w] = "work" => Running(k) # {}) /\ work'[w] = k
    BY <1>0, <2>1 DEF GoOn, TypeOK
  <2>4. Running(NoWork) = {}
    BY DEF Running, NoWork, NoCall
  <2>5. FirstDest(scope) \in Nat /\ n \in Nat
    BY TallyAssumption DEF FirstDest
  <2>6. pc'[w] = "work" => CallsHaveRoom(rows[j].tally, Counted(j), k.calls)
    BY <1>j, <2>2, <2>3, <2>4, <2>5, CallsStart
  <2>7. WorkerIsReal(w)'
    BY <1>w, <2>2, <2>3, <2>6 DEF WorkerIsReal, Holding
  <2>8. Keeps(w) /\ Still
    BY <2>2 DEF Still, Keeps, Holding
  <2>9. \A v \in Workers : v # w => pc'[v] = pc[v] /\ work'[v] = work[v]
    BY <1>0, <2>1 DEF GoOn, TypeOK
  <2> QED
    BY <2>2, <2>7, <2>8, <2>9, StillStepOf
<1>11. ASSUME NEW w \in Workers, NEW d \in Dests, ComputeChunk(w, d) PROVE Progress'
  <2> DEFINE rest == Origins(entity[w].scope, work[w].points, d) - work[w].calls[d].handled
             k == work[w].calls
  <2> DEFINE size == ChunkSize(rest)
  <2>1. PICK lost \in 0..size :
           \E b \in Chunks(size - lost), m \in Chunks(lost) :
              /\ work' = [work EXCEPT ![w].calls[d].chunk = Plus(b, m)]
              /\ Upsert(held[w], b, m)
    BY <1>11 DEF ComputeChunk
  <2>1a. PICK b \in Chunks(size - lost), m \in Chunks(lost) :
              /\ work' = [work EXCEPT ![w].calls[d].chunk = Plus(b, m)]
              /\ Upsert(held[w], b, m)
    BY <2>1
  <2> DEFINE c == Plus(b, m)
  <2>2. work[w] \in Work /\ k \in [Dests -> Call] /\ pc[w] = "work"
    BY <1>0, <1>11 DEF TypeOK, ComputeChunk, Work
  <2>0. PICK j \in Jobs : held[w] = j
    BY <1>h, <2>2 DEF Holding
  <2>3. rest \in Int /\ rest > 0 /\ k[d].on /\ k[d].chunk = NoEdges
    BY <1>11, <2>2 DEF ComputeChunk, Origins, Work, Call
  <2>4. size \in Nat
    BY <2>3, TallyAssumption DEF ChunkSize
  <2>5. b \in Tally /\ m \in Tally /\ c \in Tally /\ Sound(c)
    <3> HIDE DEF size
    <3> QED
      BY <2>4, SplitType, SplitSound
  <2>6. /\ Counted(j)' = Plus(Counted(j), c)
        /\ \A i \in Jobs : i # j => Counted(i)' = Counted(i)
        /\ work'[w].calls = [k EXCEPT ![d].chunk = c]
        /\ \A v \in Workers : v # w => work'[v] = work[v]
        /\ UNCHANGED <<rows, created, pc, held, entity, refreshed, late>>
    <3>1. /\ Counted(j)' = Plus(Counted(j), c)
          /\ \A i \in Jobs : i # j => Counted(i)' = Counted(i)
      BY <1>0, <2>0, <2>1a, <2>5, UpsertCounts
    <3>2. /\ work'[w].calls = [k EXCEPT ![d].chunk = c]
          /\ \A v \in Workers : v # w => work'[v] = work[v]
      BY <1>0, <2>1a, <2>2 DEF TypeOK, Work
    <3> QED
      BY <1>11, <3>1, <3>2 DEF ComputeChunk
  <2> HIDE DEF c
  <2>7. CallsHaveRoom(rows[j].tally, Plus(Counted(j), c), [k EXCEPT ![d].chunk = c])
    <3>1. CallsHaveRoom(rows[j].tally, Counted(j), k)
      BY <1>w, <2>0, <2>2 DEF WorkerIsReal
    <3> QED
      BY <1>j, <2>2, <2>3, <2>5, <3>1, CallsCompute
  <2>8. WorkerIsReal(w)'
    BY <1>w, <2>0, <2>2, <2>6, <2>7 DEF WorkerIsReal
  <2>9. JobIsReal(j)'
    <3>1. AtMost(rows[j].tally, Plus(Counted(j), c)) /\ AtMost(Counted(j), Plus(Counted(j), c))
      BY <1>j, <2>2, <2>5, PlusGrows, PlusNone
    <3>2. /\ rows[j].modes \in SUBSET Modes /\ rows[j].total \in Nat
          /\ Plus(Counted(j), c) \in Tally
      BY <1>j, <2>2, <2>5, PlusType DEF Row
    <3> QED
      BY <1>j, <2>2, <2>6, <3>1, <3>2, ReadyGrows DEF JobIsReal
  <2>10. \A l \in late : l.job # j
    BY <2>0, <2>2, LateElsewhere DEF Holding
  <2>11. held'[w] = j /\ pc[w] \in Holding
    BY <2>0, <2>2, <2>6 DEF Holding
  <2> HIDE DEF k
  <2> QED
    BY <2>0, <2>6, <2>8, <2>9, <2>10, <2>11, JobStepOf
<1>12. ASSUME NEW w \in Workers, NEW d \in Dests, ReportChunk(w, d) PROVE Progress'
  <2> DEFINE call == work[w].calls[d]
             handled == call.handled + call.chunk.edges
             next == IF handled >= Origins(entity[w].scope, work[w].points, d) THEN NoCall
                     ELSE [on |-> TRUE, handled |-> handled, chunk |-> NoEdges]
             k == [work[w] EXCEPT !.calls[d] = next]
             r == Resume(entity[w].scope, k)
  <2>0. PICK j \in Jobs : held[w] = j
    BY <1>12, <1>h DEF ReportChunk, Holding
  <2>1. AddProgress(j, call.chunk) /\ GoOn(w, r) /\ pc[w] = "work" /\ call.on
    BY <1>12, <2>0 DEF ReportChunk
  <2>2. /\ work[w] \in Work /\ work[w].calls \in [Dests -> Call]
        /\ rows[j].status = "running"
    BY <1>0, <1>h, <2>0, <2>1 DEF TypeOK, Holding, Work
  <2> DEFINE t == Plus(rows[j].tally, call.chunk)
  <2>3. call \in Call /\ call.chunk \in Tally /\ handled \in Nat
    BY <2>2 DEF Call, Tally
  <2>4. next \in Call /\ next.chunk = NoEdges
    BY <2>3, EmptyValues DEF Call, NoCall
  <2>5. k \in Work /\ k.calls = [work[w].calls EXCEPT ![d] = next]
    BY <2>2, <2>4 DEF Work
  <2>6. CallsHaveRoom(rows[j].tally, Counted(j), work[w].calls)
    BY <1>w, <2>0, <2>1 DEF WorkerIsReal
  <2>7. t \in Tally /\ AtMost(t, Counted(j)) /\ Sound(t)
    BY <1>j, <2>2, <2>3, <2>6, PlusType, SoundPlus DEF CallsHaveRoom, Room
  <2>8. CallsHaveRoom(t, Counted(j), r.calls)
    <3>1. CallsHaveRoom(t, Counted(j), k.calls)
      <4> HIDE DEF next
      <4> QED
        BY <1>j, <2>1, <2>2, <2>4, <2>5, <2>6, CallsReport
    <3> QED
      BY <1>j, <2>2, <2>5, <2>7, <3>1, CallsResume
  <2>9. /\ rows'[j] = [rows[j] EXCEPT !.tally = t]
        /\ \A i \in Jobs : i # j => rows'[i] = rows[i]
        /\ UNCHANGED <<created, held, entity, refreshed, late, upserts>>
    BY <1>0, <1>12, <2>1, <2>2 DEF ReportChunk, AddProgress, TypeOK
  <2>10. /\ pc'[w] \in {"refresh", "work"} /\ work'[w] = r
         /\ \A v \in Workers : v # w => pc'[v] = pc[v] /\ work'[v] = work[v]
    BY <1>0, <2>1 DEF GoOn, TypeOK
  <2>11. rows'[j].tally = t /\ rows'[j].status = "running"
    BY <1>j, <2>2, <2>9 DEF Row
  <2>12. WorkerIsReal(w)'
    BY <1>w, <2>0, <2>1, <2>8, <2>9, <2>10, <2>11 DEF WorkerIsReal, Holding
  <2>13. JobIsReal(j)'
    BY <2>7, <2>9, <2>11 DEF JobIsReal
  <2>14. \A l \in late : l.job # j
    BY <2>0, <2>1, LateElsewhere DEF Holding
  <2>15. held'[w] = j /\ pc[w] \in Holding
    BY <2>0, <2>1, <2>9 DEF Holding
  <2> HIDE DEF r, t
  <2> QED
    BY <2>0, <2>9, <2>10, <2>12, <2>13, <2>14, <2>15, JobStepOf
<1>13. ASSUME NEW w \in Workers, NEW d \in Dests, ReportFails(w, d) PROVE Progress'
  <2> DEFINE k == [work[w] EXCEPT !.calls[d] = NoCall]
             r == Resume("city", k)
  <2>0. PICK j \in Jobs : held[w] = j
    BY <1>13, <1>h DEF ReportFails, Holding
  <2>1. /\ work[w] \in Work /\ work[w].calls \in [Dests -> Call]
        /\ pc[w] = "work" /\ rows[j].status = "running"
        /\ work[w].calls[d].on
    BY <1>0, <1>13, <1>h, <2>0 DEF TypeOK, Holding, ReportFails, Work
  <2>2. k \in Work /\ k.calls = [work[w].calls EXCEPT ![d] = NoCall]
    BY <2>1, EmptyValues DEF Work
  <2>3. CallsHaveRoom(rows[j].tally, Counted(j), k.calls)
    <3>1. CallsHaveRoom(rows[j].tally, Counted(j), work[w].calls)
      BY <1>w, <2>0, <2>1 DEF WorkerIsReal
    <3> QED
      BY <1>j, <2>1, <2>2, <3>1, CallsDrop
  <2>4. UNCHANGED <<rows, created, held, entity, refreshed, upserts>>
    BY <1>13 DEF ReportFails
  <2>5. entity[w].tally = NoEdges
    BY <1>w, <2>1 DEF WorkerIsReal, Holding
  <2>6. CASE entity[w].scope = "city"
    <3>1. GoOn(w, r) /\ UNCHANGED late
      BY <1>13, <2>6 DEF ReportFails
    <3>2. CallsHaveRoom(rows[j].tally, Counted(j), r.calls)
      BY <1>j, <2>1, <2>2, <2>3, CallsResume
    <3>3. /\ pc'[w] \in {"refresh", "work"} /\ work'[w] = r
          /\ \A v \in Workers : v # w => pc'[v] = pc[v] /\ work'[v] = work[v]
      BY <1>0, <3>1 DEF GoOn, TypeOK
    <3>4. WorkerIsReal(w)'
      BY <2>0, <2>4, <2>5, <3>2, <3>3 DEF WorkerIsReal
    <3>5. Still /\ Keeps(w)
      BY <2>1, <2>4, <3>1 DEF Still, Keeps, Holding
    <3> QED
      BY <2>4, <3>3, <3>4, <3>5, StillStepOf
  <2>7. CASE entity[w].scope # "city"
    <3>1. /\ late' = late \cup {[job |-> j, chunk |-> k.calls[e].chunk] : e \in Running(k)}
          /\ work' = [work EXCEPT ![w] = NoWork]
          /\ pc' = [pc EXCEPT ![w] = "saveFail"]
      BY <1>13, <2>0, <2>7 DEF ReportFails
    <3>2. /\ pc'[w] = "saveFail"
          /\ \A v \in Workers : v # w => pc'[v] = pc[v] /\ work'[v] = work[v]
      BY <1>0, <3>1 DEF TypeOK
    <3>3. ASSUME NEW v \in Workers PROVE WorkerIsReal(v)' /\ Keeps(v)
      <4>1. CASE v = w
        BY <2>1, <2>4, <2>5, <3>2, <4>1 DEF WorkerIsReal, Keeps, Holding
      <4>2. CASE v # w
        BY <1>w, <2>4, <3>2, <4>2, WorkerKept DEF Keeps
      <4> QED
        BY <4>1, <4>2
    <3>4. \A l \in late : l.job # j
      BY <2>0, <2>1, LateElsewhere DEF Holding
    <3>5. ASSUME NEW l \in late PROVE LateIsReal(l)'
      BY <2>4, <3>3 DEF Progress, LateIsReal, Keeps
    <3>6. ASSUME NEW e \in Running(k), NEW l, l = [job |-> j, chunk |-> k.calls[e].chunk]
          PROVE  LateIsReal(l)'
      <4>1. Sound(k.calls[e].chunk) /\ Room(rows[j].tally, Counted(j), k.calls[e].chunk)
        BY <2>3 DEF Running, CallsHaveRoom
      <4>2. j <= created
        BY <2>1 DEF Hold, CreatedRows
      <4>3. \A v \in Workers : pc'[v] \in Holding /\ held'[v] = j => pc'[v] \in Failing
        BY <2>0, <2>1, <2>4, <3>2 DEF Hold, OneWorkerPerJob, Holding
      <4> QED
        BY <2>1, <2>4, <3>6, <4>1, <4>2, <4>3 DEF LateIsReal
    <3>7. ASSUME NEW e \in Running(k), NEW f \in Running(k) PROVE e = f
      <4>1. /\ e \in Dests /\ f \in Dests /\ e # d /\ f # d
            /\ work[w].calls[e].on /\ work[w].calls[f].on
        BY <2>1, <2>2 DEF Running, NoCall
      <4>2. CallsHaveRoom(rows[j].tally, Counted(j), work[w].calls)
        BY <1>w, <2>0, <2>1 DEF WorkerIsReal
      <4>3. e - f \in -1..1 /\ e - d \in -1..1 /\ f - d \in -1..1
        BY <2>1, <4>1, <4>2 DEF CallsHaveRoom
      <4>4. d \in Int /\ e \in Int /\ f \in Int
        BY <4>1, TallyAssumption DEF Dests
      <4> QED
        BY <4>1, <4>3, <4>4
    <3>8. OneLatePerJob'
      <4> DEFINE new == {[job |-> j, chunk |-> k.calls[e].chunk] : e \in Running(k)}
      <4>1. \A l \in new : l.job = j
        OBVIOUS
      <4>2. \A l, m \in new : l = m
        BY <3>7
      <4>3. late' = late \cup new
        BY <3>1
      <4> HIDE DEF new
      <4> QED
        BY <3>4, <4>1, <4>2, <4>3 DEF Progress, OneLatePerJob
    <3>9. \A l \in late' : LateIsReal(l)'
      <4>1. \A l \in late' : \/ l \in late
                             \/ \E e \in Running(k) : l = [job |-> j, chunk |-> k.calls[e].chunk]
        BY <3>1
      <4> QED
        BY <3>5, <3>6, <4>1
    <3>10. \A i \in Jobs : JobIsReal(i)'
      BY <2>4 DEF Progress, JobIsReal
    <3> QED
      BY <3>3, <3>8, <3>9, <3>10 DEF Progress
  <2> QED
    BY <2>6, <2>7
<1>l. ASSUME NEW l \in late
      PROVE  /\ l.job \in Jobs /\ l.chunk \in Tally
             /\ LateIsReal(l) /\ rows[l.job].status # "pending"
             /\ Plus(rows[l.job].tally, l.chunk) \in Tally
             /\ AtMost(Plus(rows[l.job].tally, l.chunk), Counted(l.job))
             /\ \/ rows[l.job].status = "failed"
                \/ Sound(Plus(rows[l.job].tally, l.chunk))
  BY <1>0, <1>j, PlusType, SoundPlus DEF Progress, LateIsReal, Room, TypeOK
<1>14. ASSUME NEW l \in late, LateCompute(l) PROVE Progress'
  <2>1. PICK lost \in 0..1 :
           \E b \in Chunks(1 - lost), x \in Chunks(lost) :
              /\ late' = (late \ {l}) \cup {[l EXCEPT !.chunk = Plus(b, x)]}
              /\ Upsert(l.job, b, x)
    BY <1>14 DEF LateCompute
  <2>1a. PICK b \in Chunks(1 - lost), x \in Chunks(lost) :
              /\ late' = (late \ {l}) \cup {[l EXCEPT !.chunk = Plus(b, x)]}
              /\ Upsert(l.job, b, x)
    BY <2>1
  <2> DEFINE c == Plus(b, x)
  <2>2. /\ b \in Tally /\ x \in Tally /\ c \in Tally /\ Sound(c)
        /\ l.job \in Jobs /\ l.chunk = NoEdges
    BY <1>14, <1>l, SplitType, SplitSound DEF LateCompute
  <2> DEFINE j == l.job
             m == [l EXCEPT !.chunk = c]
  <2>3. /\ Counted(j)' = Plus(Counted(j), c)
        /\ \A i \in Jobs : i # j => Counted(i)' = Counted(i)
        /\ UNCHANGED <<rows, created, invocation>>
    <3>1. /\ Counted(j)' = Plus(Counted(j), c)
          /\ \A i \in Jobs : i # j => Counted(i)' = Counted(i)
      BY <1>0, <2>1a, <2>2, UpsertCounts
    <3> QED
      BY <1>14, <3>1 DEF LateCompute
  <2>0. late' = (late \ {l}) \cup {m}
    BY <2>1a
  <2> HIDE DEF c
  <2>4. m.job = j /\ m.chunk = c
    BY <1>0 DEF TypeOK
  <2>5. \A w \in Workers : pc[w] \in Holding /\ held[w] = j => pc[w] \in Failing
    BY <1>l DEF LateIsReal
  <2>6. ASSUME NEW w \in Workers PROVE WorkerIsReal(w)'
    <3>1. CASE pc[w] \in Holding /\ held[w] = j
      BY <1>w, <2>3, <2>5, <3>1 DEF WorkerIsReal, invocation
    <3>2. CASE ~(pc[w] \in Holding /\ held[w] = j)
      BY <1>w, <1>h, <2>3, <3>2, WorkerKept DEF invocation
    <3> QED
      BY <3>1, <3>2
  <2>7. AtMost(rows[j].tally, Plus(Counted(j), c)) /\ AtMost(Counted(j), Plus(Counted(j), c))
    BY <1>j, <2>2, PlusGrows, PlusNone
  <2>8. ASSUME NEW i \in Jobs PROVE JobIsReal(i)'
    <3>1. CASE i = j
      <4>1. /\ rows[j].modes \in SUBSET Modes /\ rows[j].total \in Nat
            /\ Plus(Counted(j), c) \in Tally
        BY <1>j, <2>2, PlusType DEF Row
      <4> QED
        BY <1>j, <2>2, <2>3, <2>7, <3>1, <4>1, ReadyGrows DEF JobIsReal
    <3>2. CASE i # j
      BY <1>j, <2>3, <3>2 DEF JobIsReal
    <3> QED
      BY <3>1, <3>2
  <2>9. LateIsReal(m)'
    <3>1. Room(rows[j].tally, Plus(Counted(j), c), c)
      BY <1>j, <2>2, PlusGrows DEF Room
    <3>2. \A n : n = m => LateIsReal(n)'
      BY <1>l, <2>2, <2>3, <2>4, <2>5, <3>1 DEF LateIsReal, invocation
    <3> QED
      BY <3>2
  <2>10. \A n \in late : n # l => n.job # j
    BY DEF Progress, OneLatePerJob
  <2>11. ASSUME NEW n \in late, n # l PROVE LateIsReal(n)'
    BY <1>l, <2>3, <2>10, <2>11 DEF LateIsReal, invocation
  <2>12. \A n \in late' : n = m \/ (n \in late /\ n # l)
    BY <2>0
  <2>13. \A n \in late' : LateIsReal(n)'
    BY <2>9, <2>11, <2>12
  <2>14. OneLatePerJob'
    <3> HIDE DEF m
    <3> QED
      BY <2>4, <2>10, <2>12 DEF Progress, OneLatePerJob
  <2> QED
    BY <2>6, <2>8, <2>13, <2>14 DEF Progress
<1>15. ASSUME NEW l \in late, LateReport(l) PROVE Progress'
  <2> DEFINE j == l.job
             t == Plus(rows[j].tally, l.chunk)
  <2>1. /\ j \in Jobs /\ t \in Tally /\ AtMost(t, Counted(j))
        /\ rows[j].status = "failed" \/ Sound(t)
        /\ rows[j].status # "pending"
    BY <1>l
  <2>2. /\ rows'[j] = IF rows[j].status = "absent" THEN rows[j]
                      ELSE [rows[j] EXCEPT !.tally = t]
        /\ \A i \in Jobs : i # j => rows'[i] = rows[i]
        /\ late' = late \ {l}
        /\ UNCHANGED <<created, invocation, upserts>>
    BY <1>0, <1>15, <2>1 DEF LateReport, AddProgress, TypeOK
  <2>3. /\ rows'[j].status = rows[j].status /\ rows'[j].modes = rows[j].modes
        /\ rows'[j].total = rows[j].total
        /\ rows[j].status # "absent" => rows'[j].tally = t
    BY <1>j, <2>1, <2>2 DEF Row
  <2>4. ASSUME NEW i \in Jobs PROVE JobIsReal(i)'
    <3>1. CASE i = j
      <4>1. CASE rows[j].status = "absent"
        BY <1>j, <2>1, <2>2, <3>1, <4>1 DEF JobIsReal
      <4>2. CASE rows[j].status # "absent"
        BY <1>j, <2>1, <2>2, <2>3, <3>1, <4>2 DEF JobIsReal
      <4> QED
        BY <4>1, <4>2
    <3>2. CASE i # j
      BY <1>j, <2>2, <3>2 DEF JobIsReal
    <3> QED
      BY <3>1, <3>2
  <2>5. \A w \in Workers : pc[w] \in Holding /\ held[w] = j => pc[w] \in Failing
    BY <1>l DEF LateIsReal
  <2>6. ASSUME NEW w \in Workers PROVE WorkerIsReal(w)'
    <3>1. CASE pc[w] \in Holding /\ held[w] = j
      BY <1>w, <2>2, <2>5, <3>1 DEF WorkerIsReal, invocation
    <3>2. CASE ~(pc[w] \in Holding /\ held[w] = j)
      BY <1>w, <1>h, <2>2, <3>2, WorkerKept DEF invocation
    <3> QED
      BY <3>1, <3>2
  <2>7. \A n \in late : n # l => n.job # j
    BY DEF Progress, OneLatePerJob
  <2>8. ASSUME NEW n \in late, n # l PROVE LateIsReal(n)'
    BY <1>l, <2>2, <2>7, <2>8 DEF LateIsReal, invocation
  <2>9. OneLatePerJob'
    BY <2>2 DEF Progress, OneLatePerJob
  <2> QED
    BY <2>2, <2>4, <2>6, <2>8, <2>9 DEF Progress
<1>16. ASSUME NEW l \in late, LateFails(l) PROVE Progress'
  <2>1. /\ late' = late \ {l}
        /\ UNCHANGED <<rows, created, invocation, upserts>>
    BY <1>16 DEF LateFails
  <2>2. \A w \in Workers : WorkerIsReal(w)'
    BY <1>w, <2>1, WorkerKept DEF invocation
  <2>3. \A n \in late' : LateIsReal(n)'
    BY <2>1 DEF Progress, LateIsReal, invocation
  <2> QED
    BY <2>1, <2>2, <2>3 DEF Progress, JobIsReal, OneLatePerJob
<1>17. ASSUME NEW w \in Workers, Refresh(w) PROVE Progress'
  <2> DEFINE row == rows[held[w]]
  <2>1. pc[w] = "refresh" /\ row.status = "running" /\ row \in Row
    BY <1>0, <1>17, <1>h DEF Refresh, Holding, TypeOK
  <2>2. /\ refreshed' = [refreshed EXCEPT ![w] =
                           [row EXCEPT !.status = JobStatus(row.modes, row.total, row.tally)]]
        /\ pc' = [pc EXCEPT ![w] = "saveDone"]
        /\ UNCHANGED <<table, held, entity, work, late, upserts>>
    BY <1>17, <2>1 DEF Refresh
  <2>3. WorkerIsReal(w)'
    BY <1>0, <1>w, <2>1, <2>2 DEF WorkerIsReal, FinalIsFresh, TypeOK, Holding
  <2>4. Keeps(w) /\ Still
    BY <1>0, <2>1, <2>2 DEF TypeOK, Still, Keeps, Holding
  <2> QED
    BY <1>0, <2>2, <2>3, <2>4, StillStepOf DEF TypeOK
<1>18. ASSUME NEW w \in Workers, SaveDone(w) PROVE Progress'
  <2>0. PICK j \in Jobs : held[w] = j
    BY <1>18, <1>h DEF SaveDone, Holding
  <2>1. /\ pc[w] = "saveDone" /\ FinalIsFresh(w)
        /\ rows[j] \in Row /\ rows[j].status = "running"
    BY <1>18, <1>w, <1>j, <1>h, <2>0 DEF SaveDone, WorkerIsReal, Holding
  <2> DEFINE s == JobStatus(rows[j].modes, rows[j].total, rows[j].tally)
  <2>2. refreshed[w] = [rows[j] EXCEPT !.status = s]
    BY <2>0, <2>1 DEF FinalIsFresh
  <2>3. /\ rows'[j] = [rows[j] EXCEPT !.status = s]
        /\ \A i \in Jobs : i # j => rows'[i] = rows[i]
        /\ UNCHANGED <<created, late, upserts>>
    BY <1>0, <1>18, <2>0, <2>2 DEF SaveDone, TypeOK
  <2>4. /\ pc'[w] \notin Holding
        /\ \A v \in Workers : v # w =>
              /\ pc'[v] = pc[v] /\ held'[v] = held[v] /\ entity'[v] = entity[v]
              /\ refreshed'[v] = refreshed[v] /\ work'[v] = work[v]
    BY <1>0, <1>18 DEF SaveDone, Return, TypeOK, Holding
  <2>5. s \in Finished
    BY JobStatusType
  <2>6. s = "completed" =>
           rows[j].total = 0 \/ ModesReady(rows[j].modes, rows[j].total, Counted(j))
    <3> SUFFICES ASSUME s = "completed", rows[j].total # 0
                 PROVE  ModesReady(rows[j].modes, rows[j].total, Counted(j))
      OBVIOUS
    <3>1. ModesReady(rows[j].modes, rows[j].total, rows[j].tally)
      BY DEF JobStatus
    <3>2. rows[j].modes \in SUBSET Modes /\ rows[j].total \in Nat
      BY <2>1 DEF Row
    <3> QED
      BY <1>j, <3>1, <3>2, ReadyGrows
  <2>7. JobIsReal(j)'
    <3>1. /\ rows'[j].status = s /\ rows'[j].tally = rows[j].tally
          /\ rows'[j].modes = rows[j].modes /\ rows'[j].total = rows[j].total
          /\ Counted(j)' = Counted(j)
      BY <2>1, <2>3 DEF Row
    <3> HIDE DEF s
    <3> QED
      BY <1>j, <2>1, <2>5, <2>6, <3>1 DEF JobIsReal, Finished
  <2>8. WorkerIsReal(w)'
    BY <2>4, WorkerFree
  <2>9. (\A l \in late : l.job # j) /\ pc[w] \in Holding
    BY <2>0, <2>1, LateElsewhere DEF Holding
  <2> HIDE DEF s
  <2> QED
    BY <2>0, <2>3, <2>4, <2>7, <2>8, <2>9, JobStepOf
<1>19. ASSUME NEW w \in Workers, StepFails(w) PROVE Progress'
  <2>1. /\ pc[w] \in Holding \ ({"reread"} \cup Failing) /\ pc' = [pc EXCEPT ![w] = "saveFail"]
        /\ UNCHANGED <<table, held, entity, refreshed, work, late, upserts>>
    BY <1>19 DEF StepFails, Holding
  <2>2. WorkerIsReal(w)'
    BY <1>0, <1>w, <2>1 DEF WorkerIsReal, TypeOK, Holding
  <2>3. Keeps(w) /\ Still
    BY <1>0, <2>1 DEF TypeOK, Still, Keeps, Holding
  <2> QED
    BY <1>0, <2>1, <2>2, <2>3, StillStepOf DEF TypeOK
<1>20a. ASSUME NEW w \in Workers, SelectFailed(w) PROVE Progress'
  <2>1. /\ pc[w] = "saveFail" /\ pc' = [pc EXCEPT ![w] = "updateFail"]
        /\ UNCHANGED <<table, held, entity, refreshed, work, late, upserts>>
    BY <1>20a DEF SelectFailed
  <2>2. WorkerIsReal(w)'
    BY <1>0, <1>w, <2>1 DEF WorkerIsReal, TypeOK, Holding
  <2>3. Keeps(w) /\ Still
    BY <1>0, <2>1 DEF TypeOK, Still, Keeps, Holding
  <2> QED
    BY <1>0, <2>1, <2>2, <2>3, StillStepOf DEF TypeOK
<1>20. ASSUME NEW w \in Workers, SaveFail(w) PROVE Progress'
  <2>0. PICK j \in Jobs : held[w] = j
    BY <1>20, <1>h DEF SaveFail, Holding
  <2>1. /\ pc[w] = "updateFail" /\ entity[w].tally = NoEdges
        /\ rows[j].status = "running" /\ found[w].status = "running"
    BY <1>20, <1>w, <1>h, <2>0 DEF SaveFail, WorkerIsReal, Holding, Hold, EntityIsRunning
  <2>2. PICK row \in Row :
           /\ rows' = [rows EXCEPT ![j] = row]
           /\ row.status = "failed"
           /\ row.tally.edges \in {NoEdges.edges, rows[j].tally.edges}
           /\ \A c \in Counters : row.tally.ready[c] \in
                  {NoEdges.ready[c], rows[j].tally.ready[c]}
    BY <1>20, <2>0, <2>1, SavedFails DEF Hold
  <2>3. /\ rows'[j] = row /\ rows'[j].status = "failed"
        /\ \A i \in Jobs : i # j => rows'[i] = rows[i]
        /\ UNCHANGED <<created, late, upserts>>
    BY <1>0, <1>20, <2>2 DEF SaveFail, TypeOK
  <2>3a. row.tally \in Tally /\ AtMost(row.tally, rows[j].tally)
    BY <1>j, <2>2 DEF AtMost, NoEdges, Row, Tally
  <2>4. /\ pc'[w] \notin Holding
        /\ \A v \in Workers : v # w =>
              /\ pc'[v] = pc[v] /\ held'[v] = held[v] /\ entity'[v] = entity[v]
              /\ refreshed'[v] = refreshed[v] /\ work'[v] = work[v]
    BY <1>0, <1>20 DEF SaveFail, Return, TypeOK, Holding
  <2>5. JobIsReal(j)'
    <3>1. AtMost(row.tally, Counted(j))
      <4> HIDE DEF Counted
      <4> QED
        BY <1>j, <2>3a, AtMostThrough
    <3> QED
      BY <2>3, <3>1 DEF JobIsReal
  <2>6. WorkerIsReal(w)'
    BY <2>4, WorkerFree
  <2>7. ASSUME NEW l \in late, l.job = j PROVE LateIsReal(l)'
    <3>1. AtMost(Plus(row.tally, l.chunk), Counted(j))
      <4>1. AtMost(Plus(row.tally, l.chunk), Plus(rows[j].tally, l.chunk))
        BY <1>j, <1>l, <2>3a, PlusGrows
      <4>2. Plus(row.tally, l.chunk) \in Tally
        BY <1>l, <2>3a, PlusType
      <4> HIDE DEF Counted
      <4> QED
        BY <1>j, <1>l, <2>7, <4>1, <4>2, AtMostThrough
    <3>2. \A v \in Workers : pc'[v] \in Holding /\ held'[v] = j => pc'[v] \in Failing
      BY <1>l, <2>4, <2>7 DEF LateIsReal
    <3> QED
      BY <1>l, <2>3, <2>7, <3>1, <3>2 DEF LateIsReal, Room
  <2>8. pc[w] \in Holding
    BY <2>1 DEF Holding
  <2> QED
    BY <2>0, <2>3, <2>4, <2>5, <2>6, <2>7, <2>8, JobStepOf
<1>21. ASSUME NEW h \in Handlers, NEW op, NEW j, Request(h, op, j) PROVE Progress'
  BY <1>21, <1>s DEF Request, invocation, Still
<1>23. ASSUME NEW h \in Handlers, RequestProbeAnswers(h) PROVE Progress'
  BY <1>23, <1>s DEF RequestProbeAnswers, invocation, Still
<1>24. ASSUME NEW h \in Handlers, RequestProbeFails(h) PROVE Progress'
  BY <1>24, <1>s DEF RequestProbeFails, invocation, Still
<1>25. ASSUME NEW h \in Handlers, NEW scope \in {"city", "point"},
              NEW modes \in (SUBSET Modes) \ {{}}, InsertJob(h, scope, modes)
       PROVE  Progress'
  <2>0. PICK j \in Jobs : j = created + 1
    BY <1>0, <1>25, JobsAssumption DEF InsertJob, TypeOK, Jobs
  <2>1. created \in Nat /\ created' = created + 1
    BY <1>0, <1>25, JobsAssumption DEF InsertJob, TypeOK
  <2>2. rows[j].status = "absent"
    BY <2>0, <2>1 DEF Hold, CreatedRows
  <2>3. /\ rows'[j].status = "pending" /\ rows'[j].tally = NoEdges
        /\ \A i \in Jobs : i # j => rows'[i] = rows[i]
        /\ UNCHANGED <<invocation, late, upserts>>
    BY <1>0, <1>25, <2>0 DEF InsertJob, TypeOK
  <2>4. JobIsReal(j)'
    BY <1>j, <2>3, PlusNone, SoundNone DEF JobIsReal
  <2>5. \A w \in Workers : WorkerIsReal(w)' /\ Keeps(w)
    BY <1>w, <1>h, <2>2, <2>3, WorkerKept DEF invocation, Keeps
  <2>6. ASSUME NEW l \in late PROVE l.job # j
    BY <1>l, <2>0, <2>1 DEF LateIsReal, Jobs
  <2> QED
    BY <2>1, <2>3, <2>4, <2>5, <2>6, JobStep
<1>26. ASSUME NEW h \in Handlers, CheckRemovable(h) PROVE Progress'
  BY <1>26, <1>s DEF CheckRemovable, invocation, Still
<1>27. ASSUME NEW h \in Handlers, DeleteJob(h) PROVE Progress'
  <2>0. PICK j \in Jobs : j = request[h].job
    BY <1>27 DEF DeleteJob, Hold, Typed, RequestNamesJob
  <2>1. rows[j].status \notin {"pending", "running"}
    BY <1>27, <2>0 DEF DeleteJob, Hold, DeletesFinished, Finished
  <2>2. /\ rows'[j] = NoRow
        /\ \A i \in Jobs : i # j => rows'[i] = rows[i]
        /\ UNCHANGED <<created, invocation, late, upserts>>
    BY <1>0, <1>27, <2>0 DEF DeleteJob, TypeOK
  <2>3. rows'[j].status = "absent" /\ rows'[j].tally = NoEdges
    BY <2>2 DEF NoRow
  <2>4. JobIsReal(j)'
    BY <1>j, <2>2, <2>3, PlusNone, SoundNone DEF JobIsReal
  <2>5. \A w \in Workers : WorkerIsReal(w)' /\ Keeps(w)
    BY <1>w, <1>h, <2>1, <2>2, WorkerKept DEF invocation, Keeps
  <2>6. ASSUME NEW l \in late, l.job = j PROVE LateIsReal(l)'
    <3>1. AtMost(Plus(NoEdges, l.chunk), Counted(j))
      <4>1. AtMost(Plus(NoEdges, l.chunk), Plus(rows[j].tally, l.chunk))
        BY <1>j, <1>l, PlusNone, PlusGrows, EmptyValues
      <4> QED
        BY <1>j, <1>l, <2>6, <4>1, PlusType, EmptyValues, AtMostThrough
    <3> QED
      BY <1>l, <2>2, <2>3, <2>6, <3>1 DEF LateIsReal, Room, invocation
  <2>7. created <= created'
    BY <1>0, <2>2 DEF TypeOK
  <2> QED
    BY <2>2, <2>4, <2>5, <2>6, <2>7, JobStep
<1>28. ASSUME NEW h \in Handlers, RequestFails(h) PROVE Progress'
  BY <1>28, <1>s DEF RequestFails, invocation, Still
<1>29. CASE Crash
  <2>1. /\ late' = {} /\ UNCHANGED <<rows, created, upserts>>
        /\ \A w \in Workers : pc'[w] \notin Holding
    BY <1>29 DEF Crash, Holding
  <2>2. \A w \in Workers : WorkerIsReal(w)'
    BY <2>1, WorkerFree
  <2> QED
    BY <2>1, <2>2 DEF Progress, JobIsReal, OneLatePerJob
<1>30. CASE UNCHANGED vars
  BY <1>30, <1>s DEF vars, invocation, Still
<1> QED
  BY <1>1, <1>2, <1>3, <1>4, <1>5, <1>6, <1>7, <1>8, <1>9, <1>10, <1>11, <1>12, <1>13, <1>14, <1>15, <1>16, <1>17, <1>18, <1>19, <1>20, <1>20a, <1>21, <1>23, <1>24, <1>25, <1>26, <1>27, <1>28, <1>29, <1>30
  DEF Next, Step, StepFaults, RequestStep

LEMMA ProgressAlways == Spec => [](Hold /\ Progress)
<1>1. Init => Hold /\ Progress
  BY HoldInit, ProgressInit
<1>2. (Hold /\ Progress) /\ [Next]_vars => (Hold /\ Progress)'
  BY HoldStep, ProgressStep
<1> QED
  BY <1>1, <1>2, PTL DEF Spec

\* No row shows more edges, or more ready edges, than were stored for its job or
\* counted although their upsert failed, and none shows completed without them,
\* whatever reports are lost, late or overwritten by a stale entity, for any
\* number of jobs, nodes and modes.
THEOREM ProgressEarned == Spec => []ProgressIsEarned
<1>1. Progress => ProgressIsEarned
  BY DEF Progress, JobIsReal, Sound, ProgressIsEarned, ProgressIsReal, CompletedIsEarned
<1> QED
  BY <1>1, ProgressAlways, PTL

\* What a step leaves of the counts of every row.
CountsKept ==
    \A j \in Jobs : \/ AtMost(rows[j].tally, rows'[j].tally)
                    \/ rows'[j].status \in {"failed", "absent"}

\* A step that changes one row, and not its counts downwards.
LEMMA RowCounts ==
    ASSUME Hold, NEW j \in Jobs, \A k \in Jobs : k # j => rows'[k] = rows[k],
           AtMost(rows[j].tally, rows'[j].tally) \/ rows'[j].status \in {"failed", "absent"}
    PROVE  CountsKept
<1>1. \A k \in Jobs : rows[k].tally \in Tally
  BY DEF Hold, Typed, TypeOK, Row
<1> QED
  BY <1>1, PlusNone DEF CountsKept

LEMMA CountsStep == Hold /\ Progress /\ [Next]_vars => CountsKept
<1> SUFFICES ASSUME Hold, Progress, [Next]_vars PROVE CountsKept
  OBVIOUS
<1> USE DEF table
<1>0. TypeOK /\ HeldIsJob /\ RequestNamesJob
  BY DEF Hold, Typed
<1>h. \A w \in Workers : pc[w] \in Holding => held[w] \in Jobs /\ rows[held[w]].status = "running"
  BY DEF Hold, HeldRowIsRunning, Typed, HeldIsJob
<1>w. \A w \in Workers : WorkerIsReal(w)
  BY DEF Progress
<1>j. \A j \in Jobs : rows[j] \in Row /\ rows[j].tally \in Tally /\ JobIsReal(j)
  BY <1>0 DEF TypeOK, Row, Progress
<1>s. ASSUME UNCHANGED rows PROVE CountsKept
  BY <1>j, <1>s, PlusNone DEF CountsKept
<1>a. ASSUME NEW j \in Jobs, NEW c \in Tally, AddProgress(j, c) PROVE CountsKept
  <2>1. \A k \in Jobs : k # j => rows'[k] = rows[k]
    BY <1>0, <1>a DEF AddProgress, TypeOK
  <2>2. AtMost(rows[j].tally, rows'[j].tally)
    <3>1. CASE rows[j].status = "absent"
      BY <1>a, <1>j, <3>1, PlusNone DEF AddProgress
    <3>2. CASE rows[j].status # "absent"
      <4>1. rows'[j].tally = Plus(rows[j].tally, c)
        BY <1>0, <1>a, <1>j, <3>2 DEF AddProgress, TypeOK, Row
      <4> QED
        BY <1>j, <4>1, PlusNone, PlusGrows
    <3> QED
      BY <3>1, <3>2
  <2> QED
    BY <2>1, <2>2, RowCounts
<1>5. ASSUME NEW w \in Workers, Claim(w) PROVE CountsKept
  <2>1. CASE UNCHANGED rows
    BY <2>1, <1>s
  <2>2. CASE ~UNCHANGED rows
    <3>0. PICK j \in Jobs : held[w] = j
      BY <1>0, <1>5 DEF Claim, HeldIsJob
    <3>1. /\ rows[j].status = "pending"
          /\ rows' = [rows EXCEPT ![j].status = "running", ![j].tally = NoEdges]
      BY <1>5, <2>2, <3>0 DEF Claim
    <3>2. rows[j].tally = NoEdges
      BY <1>j, <3>1 DEF JobIsReal
    <3>3. rows'[j].tally = NoEdges /\ \A k \in Jobs : k # j => rows'[k] = rows[k]
      BY <1>0, <1>j, <3>1 DEF TypeOK, Row
    <3> QED
      BY <3>2, <3>3, PlusNone, EmptyValues, RowCounts
  <2> QED
    BY <2>1, <2>2
<1>8. ASSUME NEW w \in Workers, SaveTotal(w) PROVE CountsKept
  <2>0. PICK j \in Jobs : held[w] = j
    BY <1>8, <1>h DEF SaveTotal, Holding
  <2>1. rows[j].tally = NoEdges /\ entity[w].tally = NoEdges
    BY <1>8, <1>w, <2>0 DEF SaveTotal, WorkerIsReal, Holding
  <2>2. rows'[j] = entity[w] /\ \A k \in Jobs : k # j => rows'[k] = rows[k]
    BY <1>0, <1>8, <2>0 DEF SaveTotal, TypeOK
  <2> QED
    BY <2>1, <2>2, PlusNone, EmptyValues, RowCounts
<1>12. ASSUME NEW w \in Workers, NEW d \in Dests, ReportChunk(w, d) PROVE CountsKept
  <2>1. held[w] \in Jobs /\ work[w].calls[d].chunk \in Tally
    BY <1>0, <1>12, <1>h DEF ReportChunk, Holding, TypeOK, Work, Call
  <2> QED
    BY <1>12, <1>a, <2>1 DEF ReportChunk
<1>15. ASSUME NEW l \in late, LateReport(l) PROVE CountsKept
  <2>1. l.job \in Jobs /\ l.chunk \in Tally
    BY <1>0 DEF TypeOK
  <2> QED
    BY <1>15, <1>a, <2>1 DEF LateReport
<1>18. ASSUME NEW w \in Workers, SaveDone(w) PROVE CountsKept
  <2>0. PICK j \in Jobs : held[w] = j
    BY <1>18, <1>h DEF SaveDone, Holding
  <2>1. FinalIsFresh(w)
    BY <1>18, <1>w DEF SaveDone, WorkerIsReal
  <2>2. rows'[j] = refreshed[w] /\ \A k \in Jobs : k # j => rows'[k] = rows[k]
    BY <1>0, <1>18, <2>0 DEF SaveDone, TypeOK
  <2>3. rows'[j].tally = rows[j].tally
    BY <1>j, <2>0, <2>1, <2>2 DEF FinalIsFresh, Row
  <2> QED
    BY <1>j, <2>2, <2>3, PlusNone, RowCounts
<1>20. ASSUME NEW w \in Workers, SaveFail(w) PROVE CountsKept
  <2>0. PICK j \in Jobs : held[w] = j
    BY <1>20, <1>h DEF SaveFail, Holding
  <2>1. rows[j].status = "running" /\ found[w].status = "running"
    BY <1>20, <1>h, <2>0 DEF SaveFail, Holding, Hold, EntityIsRunning
  <2>2. PICK row : row.status = "failed" /\ rows' = [rows EXCEPT ![j] = row]
    BY <1>20, <2>0, <2>1, SavedFails DEF Hold
  <2>3. rows'[j].status = "failed" /\ \A k \in Jobs : k # j => rows'[k] = rows[k]
    BY <1>0, <2>2 DEF TypeOK
  <2> QED
    BY <2>3, RowCounts
<1>25. ASSUME NEW h \in Handlers, NEW scope \in {"city", "point"},
              NEW modes \in (SUBSET Modes) \ {{}}, InsertJob(h, scope, modes)
       PROVE  CountsKept
  <2>0. PICK j \in Jobs : j = created + 1
    BY <1>0, <1>25, JobsAssumption DEF InsertJob, TypeOK, Jobs
  <2>1. created \in Nat
    BY <1>0, JobsAssumption DEF TypeOK
  <2>2. rows[j].status = "absent"
    BY <2>0, <2>1 DEF Hold, CreatedRows
  <2>3. rows[j].tally = NoEdges
    BY <1>j, <2>2 DEF JobIsReal
  <2>4. rows'[j].tally = NoEdges /\ \A k \in Jobs : k # j => rows'[k] = rows[k]
    BY <1>0, <1>25, <2>0 DEF InsertJob, TypeOK
  <2> QED
    BY <2>3, <2>4, PlusNone, EmptyValues, RowCounts
<1>27. ASSUME NEW h \in Handlers, DeleteJob(h) PROVE CountsKept
  <2>0. PICK j \in Jobs : j = request[h].job
    BY <1>0, <1>27 DEF DeleteJob, RequestNamesJob
  <2>1. rows'[j] = NoRow /\ \A k \in Jobs : k # j => rows'[k] = rows[k]
    BY <1>0, <1>27, <2>0 DEF DeleteJob, TypeOK
  <2> QED
    BY <2>1, RowCounts DEF NoRow
<1>u. ASSUME NEW w \in Workers,
             Tick(w) \/ ProbeAnswers(w) \/ ProbeFails(w) \/ FindPending(w) \/ Reread(w)
               \/ LoadNodes(w) \/ ResolvePoint(w) \/ LoadPoints(w) \/ Refresh(w)
               \/ StepFails(w) \/ SelectFailed(w) \/ \E d \in Dests : ComputeChunk(w, d) \/ ReportFails(w, d)
      PROVE  CountsKept
  <2>1. UNCHANGED rows
    BY <1>u
    DEF Tick, ProbeAnswers, ProbeFails, FindPending, Reread, LoadNodes, ResolvePoint,
        LoadPoints, Refresh, StepFails, SelectFailed, ComputeChunk, ReportFails
  <2> QED
    BY <2>1, <1>s
<1>v. ASSUME NEW h \in Handlers,
             \/ \E op, j : Request(h, op, j)
             \/ RequestProbeAnswers(h) \/ RequestProbeFails(h)
             \/ CheckRemovable(h) \/ RequestFails(h)
      PROVE  CountsKept
  BY <1>v, <1>s
  DEF Request, RequestProbeAnswers, RequestProbeFails, CheckRemovable, RequestFails
<1>x. ASSUME NEW l \in late, LateCompute(l) \/ LateFails(l) PROVE CountsKept
  BY <1>x, <1>s DEF LateCompute, LateFails
<1>y. CASE Crash \/ UNCHANGED vars
  BY <1>y, <1>s DEF Crash, vars
<1> QED
  BY <1>5, <1>8, <1>12, <1>15, <1>18, <1>20, <1>25, <1>27, <1>u, <1>v, <1>x, <1>y
  DEF Next, Step, StepFaults, RequestStep

\* The counts of a row never go down but by the failure save or the removal of
\* the row: no chunk is reported between the read and the save of the final
\* status, whoever runs beside that invocation.
THEOREM ProgressKept == Spec => ProgressLostOnlyByFailure
<1>1. Hold /\ Progress /\ [Next]_vars =>
        [\A j \in Jobs :
            AtMost(rows[j].tally, rows'[j].tally)
              \/ rows'[j].status \in {"failed", "absent"}]_vars
  BY CountsStep DEF CountsKept
<1> QED
  BY <1>1, ProgressAlways, PTL DEF Spec, ProgressLostOnlyByFailure

=============================================================================
