-------------------------- MODULE UploadBatch_proofs --------------------------
(***************************************************************************)
(* Proofs about UploadBatch.  Types first, with what any step may do to a  *)
(* request (StepShape).  Then Held: a request at work on a key is the one  *)
(* its item names, unless the batch is deleted, and no two requests work   *)
(* on one key.  With it a request can trust what it has read of an object, *)
(* but for the client and for refused requests (Judged).                   *)
(***************************************************************************)
EXTENDS UploadBatch, TLAPS, FiniteSetTheorems

LEMMA TypeInductive == /\ Init => TypeOK
                       /\ TypeOK /\ [Next]_vars => TypeOK'
<1>1. Init => TypeOK
  BY UploadAssumption DEF Init, TypeOK, Idle
<1>2. ASSUME TypeOK, [Next]_vars PROVE TypeOK'
  <2> USE <1>2
  <2> DEFINE Request == [at : Phase, key : Keys]
  <2>r. ASSUME NEW q \in Requests, NEW k \in Keys, NEW at \in Phase,
               NEW on \in Phase, Awaits(q, at, k), GoesTo(q, on)
        PROVE  request' \in [Requests -> Request \cup {[at |-> "idle"]}]
    <3>1. [request[q] EXCEPT !.at = on] \in Request
      BY <2>r DEF Awaits
    <3> QED BY <2>r, <3>1 DEF GoesTo, TypeOK
  <2>e. ASSUME NEW q \in Requests, Ends(q)
        PROVE  request' \in [Requests -> Request \cup {[at |-> "idle"]}]
    BY <2>e DEF Ends, Idle, TypeOK
  <2>1. ASSUME NEW b \in Batches, CreateStsCredential(b) \/ Expire(b) PROVE TypeOK'
    BY <2>1 DEF CreateStsCredential, Expire, TypeOK, ghosts, bucket
  <2>2. ASSUME NEW k \in Keys, PutObject(k) \/ PutObjectAcl(k) PROVE TypeOK'
    BY <2>2, UploadAssumption DEF PutObject, PutObjectAcl, File, TypeOK, ghosts
  <2>3. ASSUME NEW q \in Requests, NEW k \in Keys,
               \/ ReserveUploadSlot(q, k)
               \/ \E b \in Batches : AnswerAtOnce(q, b, k) \/ RefuseUpload(q, b, k)
        PROVE  TypeOK'
    <3>1. ASSUME NEW b \in Batches, AnswerAtOnce(q, b, k) PROVE TypeOK'
      BY <3>1 DEF AnswerAtOnce, TypeOK, ghosts, bucket, vars
    <3>2. CASE ReserveUploadSlot(q, k)
      BY <3>2 DEF ReserveUploadSlot, TypeOK, ghosts, bucket, Item, Phase, Working
    <3>3. ASSUME NEW b \in Batches, RefuseUpload(q, b, k) PROVE TypeOK'
      BY <3>3 DEF RefuseUpload, TypeOK, ghosts, bucket, Phase
    <3> QED BY <2>3, <3>1, <3>2, <3>3
  <2>4. ASSUME NEW q \in Requests, NEW k \in Keys, Step(q, k) PROVE TypeOK'
    <3>1. CASE DeleteRefused(q, k)
      BY <3>1, <2>e DEF DeleteRefused, Deleted, TypeOK
    <3>2. CASE Head(q, k)
      <4>1. request' \in [Requests -> Request \cup {[at |-> "idle"]}]
        BY <3>2, <2>r DEF Head, Phase, Working
      <4>2. /\ changed' \in [Keys -> {"nothing", "acl", "file"}]
            /\ swept' \in SUBSET Keys /\ unjudged' \in SUBSET Keys
        BY <3>2 DEF Head, Inspected, TypeOK
      <4> QED BY <3>2, <4>1, <4>2 DEF Head, TypeOK
    <3>3. CASE Validate(q, k)
      <4>1. request' \in [Requests -> Request \cup {[at |-> "idle"]}]
        BY <3>3, <2>r DEF Validate, Phase, Working
      <4> QED BY <3>3, <4>1 DEF Validate, TypeOK, ghosts, bucket
    <3>4. CASE SetAcl(q, k)
      <4>1. request' \in [Requests -> Request \cup {[at |-> "idle"]}]
        BY <3>4, <2>r DEF SetAcl, Phase, Working
      <4> QED BY <3>4, <4>1 DEF SetAcl, TypeOK, ghosts, bucket
    <3>5. CASE Moderate(q, k)
      <4>1. request' \in [Requests -> Request \cup {[at |-> "idle"]}]
        BY <3>5, <2>r DEF Moderate, Phase, Working
      <4> QED BY <3>5, <4>1 DEF Moderate, TypeOK, ghosts, bucket
    <3>6. CASE Finalize(q, k)
      <4>1. request' \in [Requests -> Request \cup {[at |-> "idle"]}]
        BY <3>6, <2>r, <2>e DEF Finalize, Phase, Working
      <4>2. item' \in [Keys -> Item \cup {NoItem}]
        BY <3>6 DEF Finalize, Completed, Reserved, Item, TypeOK
      <4> QED BY <3>6, <4>1, <4>2 DEF Finalize, TypeOK, ghosts, bucket
    <3>7. CASE Reject(q, k)
      <4>1. request' \in [Requests -> Request \cup {[at |-> "idle"]}]
        BY <3>7, <2>r DEF Reject, Phase, Working
      <4> QED BY <3>7, <4>1 DEF Reject, Deleted, TypeOK
    <3>8. CASE ReleaseUploadSlot(q, k)
      BY <3>8, <2>e DEF ReleaseUploadSlot, TypeOK, ghosts, bucket
    <3> QED BY <2>4, <3>1, <3>2, <3>3, <3>4, <3>5, <3>6, <3>7, <3>8 DEF Step
  <2>5. ASSUME NEW q \in Requests, NEW k \in Keys, StepFails(q, k) PROVE TypeOK'
    <3>f. faults' \in Nat
      BY <2>5 DEF StepFails, DeleteRefusedFails, HeadFails, ValidateFails,
           SetAclFails, ModerateFails, FinalizeFails, RejectFails, ReleaseFails,
           Fault, TypeOK
    <3>1. CASE DeleteRefusedFails(q, k)
      BY <3>1, <3>f, <2>e DEF DeleteRefusedFails, TypeOK, ghosts, bucket
    <3>2. CASE HeadFails(q, k) \/ ValidateFails(q, k) \/ SetAclFails(q, k)
      <4>1. request' \in [Requests -> Request \cup {[at |-> "idle"]}]
        BY <3>2, <2>r DEF HeadFails, ValidateFails, SetAclFails, Phase, Working
      <4> QED BY <3>2, <3>f, <4>1
          DEF HeadFails, ValidateFails, SetAclFails, TypeOK, ghosts, bucket
    <3>3. CASE ModerateFails(q, k) \/ RejectFails(q, k)
      <4>1. request' \in [Requests -> Request \cup {[at |-> "idle"]}]
        BY <3>3, <2>r DEF ModerateFails, RejectFails, Phase, Working
      <4> QED BY <3>3, <3>f, <4>1 DEF ModerateFails, RejectFails, TypeOK, bucket
    <3>4. CASE FinalizeFails(q, k)
      <4>1. request' \in [Requests -> Request \cup {[at |-> "idle"]}]
        BY <3>4, <2>r DEF FinalizeFails, Phase, Working
      <4>2. item' \in [Keys -> Item \cup {NoItem}]
        BY <3>4 DEF FinalizeFails, Completed, Reserved, Item, TypeOK
      <4> QED BY <3>4, <3>f, <4>1, <4>2 DEF FinalizeFails, TypeOK, ghosts, bucket
    <3>5. CASE ReleaseFails(q, k)
      BY <3>5, <3>f, <2>e DEF ReleaseFails, TypeOK, bucket
    <3> QED BY <2>5, <3>1, <3>2, <3>3, <3>4, <3>5 DEF StepFails
  <2>6. CASE CleanupExpiredBatches
    BY <2>6 DEF CleanupExpiredBatches, TypeOK, ghosts, bucket
  <2>7. CASE Crash
    BY <2>7 DEF Crash, Fault, Idle, TypeOK, bucket
  <2>8. CASE UNCHANGED vars
    BY <2>8 DEF TypeOK, ghosts, bucket, vars
  <2> QED BY <2>1, <2>2, <2>3, <2>4, <2>5, <2>6, <2>7, <2>8 DEF Next
<1> QED BY <1>1, <1>2

\* Rows, objects and requests keep their types, for any batches and keys.
THEOREM TypeCorrect == Spec => []TypeOK
BY TypeInductive, PTL DEF Spec

-----------------------------------------------------------------------------
(* What a step of a request may do                                         *)

Works(q, k) == request[q].at \in Working /\ request[q].key = k

LEMMA StepShape ==
  ASSUME TypeOK, NEW q \in Requests, NEW k \in Keys, Step(q, k) \/ StepFails(q, k)
  PROVE  /\ batch' = batch
         /\ \A p \in Requests \ {q} : request'[p] = request[p]
         /\ \A j \in Keys \ {k} : item'[j] = item[j]
         /\ Works(q, k) \/ Awaits(q, "refuse", k)
         /\ \/ request'[q] = Idle
            \/ Works(q, k) /\ Works(q, k)'
         /\ \/ item'[k] = item[k]
            \/ /\ Reserved(q, k) /\ item'[k] = [status |-> "completed", by |-> q]
               /\ request[q].at = "finalize" /\ request'[q].at \in {"idle", "release"}
            \/ /\ Reserved(q, k) /\ item'[k] = NoItem
               /\ request[q].at = "release" /\ request'[q] = Idle
         /\ request[q].at = "release" => request'[q] = Idle
<1> USE DEF TypeOK, Awaits, GoesTo, Ends, Idle, Works, Working, bucket, Deleted
<1>1. CASE DeleteRefused(q, k) \/ DeleteRefusedFails(q, k)
  BY <1>1 DEF DeleteRefused, DeleteRefusedFails
<1>2. CASE Head(q, k) \/ HeadFails(q, k) \/ Validate(q, k) \/ ValidateFails(q, k)
  BY <1>2 DEF Head, HeadFails, Validate, ValidateFails
<1>3. CASE SetAcl(q, k) \/ SetAclFails(q, k) \/ Moderate(q, k) \/ ModerateFails(q, k)
  BY <1>3 DEF SetAcl, SetAclFails, Moderate, ModerateFails
<1>4. CASE Finalize(q, k) \/ FinalizeFails(q, k)
  BY <1>4 DEF Finalize, FinalizeFails, Completed, Reserved
<1>5. CASE Reject(q, k) \/ RejectFails(q, k)
  BY <1>5 DEF Reject, RejectFails
<1>6. CASE ReleaseUploadSlot(q, k) \/ ReleaseFails(q, k)
  BY <1>6 DEF ReleaseUploadSlot, ReleaseFails
<1> QED BY <1>1, <1>2, <1>3, <1>4, <1>5, <1>6 DEF Step, StepFails

-----------------------------------------------------------------------------
(* Requests and the items they hold                                        *)

LEMMA ItemsDiffer ==
  ASSUME NEW k, NEW q
  PROVE  /\ item[k] = NoItem => ~Reserved(q, k)
         /\ item[k] = NoItem => item[k] # [status |-> "completed", by |-> q]
         /\ Reserved(q, k) => item[k] # [status |-> "completed", by |-> q]
         /\ \A p : Reserved(q, k) /\ Reserved(p, k) => p = q
<1>1. ASSUME Reserved(q, k)
      PROVE  item[k].status = "processing" /\ item[k].by = q
  BY <1>1 DEF Reserved
<1>2. ASSUME item[k] = [status |-> "completed", by |-> q]
      PROVE  item[k].status = "completed"
  BY <1>2
<1>3. ASSUME item[k] = NoItem PROVE item[k].status = "none"
  BY <1>3 DEF NoItem
<1>4. \A p : Reserved(p, k) => item[k].by = p
  BY DEF Reserved
<1> QED BY <1>1, <1>2, <1>3, <1>4

\* Items are rows of a batch that is there.
ItemsHaveBatch == \A k \in Keys : batch[BatchOf[k]] # "open" => item[k] = NoItem

\* The item of a request at work is its own, and processing, until the
\* request has finalized it or the batch is deleted.
ItemIsHeld ==
    \A q \in Requests, k \in Keys : Works(q, k) =>
        \/ batch[BatchOf[k]] = "deleted"
        \/ Reserved(q, k)
        \/ request[q].at = "release" /\ item[k] = [status |-> "completed", by |-> q]

OneWorker ==
    \A p, q \in Requests, k \in Keys : Works(p, k) /\ Works(q, k) => p = q

Held == ItemsHaveBatch /\ ItemIsHeld /\ OneWorker

LEMMA HeldInductive == /\ Init => Held
                       /\ TypeOK /\ Held /\ [Next]_vars => Held'
<1>1. Init => Held
  BY DEF Init, Held, ItemsHaveBatch, ItemIsHeld, OneWorker, Works, Working, Idle
<1>2. ASSUME TypeOK, Held, [Next]_vars PROVE Held'
  <2> USE <1>2
  <2> USE DEF Held, Works
  <2>1. ASSUME NEW b \in Batches, CreateStsCredential(b) \/ Expire(b) PROVE Held'
    <3>1. /\ request' = request /\ item' = item
          /\ \A c \in Batches :
               /\ batch[c] = "open" => batch'[c] = "open"
               /\ batch[c] = "deleted" => batch'[c] = "deleted"
      BY <2>1 DEF CreateStsCredential, Expire, TypeOK
    <3>2. BatchOf \in [Keys -> Batches]
      BY UploadAssumption
    <3>3. ItemsHaveBatch'
      <4> SUFFICES ASSUME NEW j \in Keys, batch'[BatchOf[j]] # "open"
                   PROVE  item'[j] = NoItem
        BY DEF ItemsHaveBatch
      <4>1. BatchOf[j] \in Batches /\ batch[BatchOf[j]] # "open"
        BY <3>1, <3>2
      <4> QED BY <3>1, <4>1 DEF ItemsHaveBatch
    <3>4. ItemIsHeld'
      <4>1. \A p \in Requests, j \in Keys :
               /\ Works(p, j)' <=> Works(p, j)
               /\ Reserved(p, j)' <=> Reserved(p, j)
               /\ request'[p].at = request[p].at /\ item'[j] = item[j]
        BY <3>1 DEF Reserved
      <4> HIDE DEF Works
      <4> QED BY <3>1, <3>2, <4>1 DEF ItemIsHeld
    <3>5. OneWorker'
      BY <3>1 DEF OneWorker
    <3> QED BY <3>3, <3>4, <3>5
  <2>2. ASSUME NEW k \in Keys, PutObject(k) \/ PutObjectAcl(k) PROVE Held'
    BY <2>2 DEF PutObject, PutObjectAcl, ItemsHaveBatch, ItemIsHeld, OneWorker, Reserved
  <2>3. ASSUME NEW q \in Requests, NEW k \in Keys, ReserveUploadSlot(q, k) PROVE Held'
    <3>1. /\ batch' = batch /\ batch[BatchOf[k]] = "open" /\ item[k] = NoItem
          /\ item' = [item EXCEPT ![k] = [status |-> "processing", by |-> q]]
          /\ request' = [request EXCEPT ![q] = [at |-> "head", key |-> k]]
      BY <2>3 DEF ReserveUploadSlot
    <3>3. \A p \in Requests : ~Works(p, k)
      <4> SUFFICES ASSUME NEW p \in Requests, Works(p, k) PROVE FALSE
        OBVIOUS
      <4>1. ~Reserved(p, k) /\ item[k] # [status |-> "completed", by |-> p]
        BY <3>1, ItemsDiffer
      <4>2. batch[BatchOf[k]] # "deleted"
        BY <3>1
      <4> QED BY <4>1, <4>2 DEF ItemIsHeld
    <3>4. ItemsHaveBatch'
      BY <3>1 DEF ItemsHaveBatch, TypeOK
    <3>5. ItemIsHeld'
      BY <3>1, <3>3 DEF ItemIsHeld, Reserved, TypeOK, Working
    <3>6. OneWorker'
      BY <3>1, <3>3 DEF OneWorker, TypeOK, Working
    <3> QED BY <3>4, <3>5, <3>6
  <2>4. ASSUME NEW q \in Requests, NEW b \in Batches, NEW k \in Keys,
               RefuseUpload(q, b, k)
        PROVE  Held'
    BY <2>4 DEF RefuseUpload, ItemsHaveBatch, ItemIsHeld, OneWorker, Reserved,
         TypeOK, Working
  <2>5. ASSUME NEW q \in Requests, NEW k \in Keys, Step(q, k) \/ StepFails(q, k)
        PROVE  Held'
    <3> HIDE DEF Works
    <3>a. /\ batch' = batch
          /\ \A p \in Requests \ {q} : request'[p] = request[p]
          /\ \A j \in Keys \ {k} : item'[j] = item[j]
      BY <2>5, StepShape
    <3>1. \A p \in Requests, j \in Keys : Works(p, j)' =>
             Works(p, j) /\ (p # q => request'[p] = request[p]) /\ (p = q => j = k)
      <4> SUFFICES ASSUME NEW p \in Requests, NEW j \in Keys, Works(p, j)'
                   PROVE  /\ Works(p, j)
                          /\ p # q => request'[p] = request[p]
                          /\ p = q => j = k
        OBVIOUS
      <4>1. CASE p # q
        <5>1. request'[p] = request[p]
          BY <3>a, <4>1
        <5> QED BY <4>1, <5>1 DEF Works
      <4>2. CASE p = q
        <5>1. request'[q] # Idle
          BY <4>2 DEF Works, Idle, Working
        <5>2. Works(q, k) /\ Works(q, k)'
          BY <2>5, <5>1, StepShape
        <5> QED BY <4>2, <5>2 DEF Works
      <4> QED BY <4>1, <4>2
    <3>2. OneWorker'
      BY <3>1 DEF OneWorker
    <3>3. ItemsHaveBatch'
      <4> SUFFICES ASSUME NEW j \in Keys, batch'[BatchOf[j]] # "open"
                   PROVE  item'[j] = NoItem
        BY DEF ItemsHaveBatch
      <4>1. item[j] = NoItem
        BY <3>a DEF ItemsHaveBatch
      <4>2. ~Reserved(q, j)
        BY <4>1, ItemsDiffer
      <4>3. CASE j = k
        <5>1. item'[k] = item[k]
          BY <2>5, <4>2, <4>3, StepShape
        <5> QED BY <4>1, <4>3, <5>1
      <4>4. CASE j # k
        BY <3>a, <4>1, <4>4
      <4> QED BY <4>3, <4>4
    <3>4. ASSUME NEW p \in Requests, NEW j \in Keys, Works(p, j)'
          PROVE  \/ batch'[BatchOf[j]] = "deleted"
                 \/ item'[j] = [status |-> "processing", by |-> p]
                 \/ /\ request'[p].at = "release"
                    /\ item'[j] = [status |-> "completed", by |-> p]
      <4>1. Works(p, j) /\ batch' = batch
        BY <3>a, <3>1, <3>4
      <4>2. CASE p # q
        <5>1. j # k \/ ~Works(q, k)
          BY <4>1, <4>2 DEF OneWorker
        <5>2. item'[j] = item[j] /\ request'[p] = request[p]
          <6>1. CASE j # k
            BY <3>a, <4>2, <6>1
          <6>2. CASE j = k
            <7>1. ~Works(q, k)
              BY <5>1, <6>2
            <7>2. Awaits(q, "refuse", k)
              BY <2>5, <7>1, StepShape
            <7>3. request[q].at \notin {"finalize", "release"}
              BY <7>2 DEF Awaits
            <7>4. item'[k] = item[k]
              BY <2>5, <7>1, <7>3, StepShape
            <7> QED BY <3>a, <4>2, <6>2, <7>4
          <6> QED BY <6>1, <6>2
        <5> QED BY <4>1, <5>2 DEF ItemIsHeld, Reserved
      <4>3. CASE p = q
        <5>1. j = k /\ request'[q] # Idle
          BY <3>1, <3>4, <4>3 DEF Works, Idle, Working
        <5>2. \/ item'[k] = item[k]
              \/ /\ item'[k] = [status |-> "completed", by |-> q]
                 /\ request'[q].at \in {"idle", "release"}
          BY <2>5, <5>1, StepShape
        <5>3. request'[q].at # "idle" /\ request[q].at # "release"
          BY <2>5, <3>4, <4>3, <5>1, StepShape DEF Works, Working
        <5> QED BY <4>1, <4>3, <5>1, <5>2, <5>3 DEF ItemIsHeld, Reserved
      <4> QED BY <4>2, <4>3
    <3>5. ItemIsHeld'
      BY <3>4 DEF ItemIsHeld, Reserved
    <3> QED BY <3>2, <3>3, <3>5
  <2>6. CASE CleanupExpiredBatches
    <3>1. BatchOf \in [Keys -> Batches]
      BY UploadAssumption
    <3> QED BY <2>6, <3>1 DEF CleanupExpiredBatches, Stale, TypeOK,
              ItemsHaveBatch, ItemIsHeld, OneWorker, Reserved
  <2>7. CASE Crash
    BY <2>7 DEF Crash, Idle, Working, ItemsHaveBatch, ItemIsHeld, OneWorker
  <2>8. CASE UNCHANGED vars
    BY <2>8 DEF vars, ItemsHaveBatch, ItemIsHeld, OneWorker, Reserved
  <2> QED BY <2>1, <2>2, <2>3, <2>4, <2>5, <2>6, <2>7, <2>8 DEF Next, AnswerAtOnce
<1> QED BY <1>1, <1>2

LEMMA HeldAlways == Spec => [](TypeOK /\ Held)
BY TypeInductive, HeldInductive, PTL DEF Spec

-----------------------------------------------------------------------------
(* Items and requests                                                      *)

LEMMA WorkerInductive == /\ Init => ProcessingHasWorker
                         /\ TypeOK /\ ProcessingHasWorker /\ [Next]_vars
                              => ProcessingHasWorker'
<1>1. Init => ProcessingHasWorker
  BY DEF Init, ProcessingHasWorker, NoItem
<1>2. ASSUME TypeOK, ProcessingHasWorker, [Next]_vars PROVE ProcessingHasWorker'
  <2> USE <1>2
  <2>1. ASSUME NEW b \in Batches, CreateStsCredential(b) \/ Expire(b)
        PROVE  ProcessingHasWorker'
    BY <2>1 DEF CreateStsCredential, Expire, ghosts, bucket, ProcessingHasWorker
  <2>2. ASSUME NEW k \in Keys, PutObject(k) \/ PutObjectAcl(k) PROVE ProcessingHasWorker'
    BY <2>2 DEF PutObject, PutObjectAcl, ghosts, ProcessingHasWorker
  <2>3. ASSUME NEW q \in Requests, NEW k \in Keys,
               \/ ReserveUploadSlot(q, k)
               \/ \E b \in Batches : RefuseUpload(q, b, k)
        PROVE  ProcessingHasWorker'
    <3>1. request[q].at = "idle" /\ stranded' = stranded
      BY <2>3 DEF ReserveUploadSlot, RefuseUpload, Idle, ghosts, bucket
    <3>2. ASSUME NEW j \in Keys, item[j].status = "processing", j \notin stranded
          PROVE  request'[item[j].by] = request[item[j].by] /\ item'[j] = item[j]
      <4>1. item[j].by # q
        BY <3>1, <3>2 DEF ProcessingHasWorker, Working
      <4>2. item'[j] = item[j]
        BY <2>3, <3>2 DEF ReserveUploadSlot, RefuseUpload, NoItem, TypeOK
      <4>3. item[j].by \in Requests
        BY <3>2 DEF TypeOK, Item, NoItem
      <4> QED BY <2>3, <4>1, <4>2, <4>3
          DEF ReserveUploadSlot, RefuseUpload, TypeOK
    <3>3. ASSUME NEW j \in Keys, item'[j].status = "processing", item'[j] # item[j]
          PROVE  request'[item'[j].by].at \in Working /\ request'[item'[j].by].key = j
      BY <2>3, <3>3 DEF ReserveUploadSlot, RefuseUpload, TypeOK, Working
    <3> QED BY <3>1, <3>2, <3>3 DEF ProcessingHasWorker
  <2>4. ASSUME NEW q \in Requests, NEW k \in Keys, Step(q, k) \/ StepFails(q, k)
        PROVE  ProcessingHasWorker'
    <3>1. /\ \A p \in Requests \ {q} : request'[p] = request[p]
          /\ \A j \in Keys \ {k} : item'[j] = item[j]
          /\ Works(q, k) \/ Awaits(q, "refuse", k)
          /\ request'[q] = Idle \/ Works(q, k)'
      BY <2>4, StepShape
    <3>2. \/ item'[k] = item[k] \/ item'[k].status # "processing"
      <4>1. CASE item'[k] = [status |-> "completed", by |-> q]
        BY <4>1
      <4>2. CASE item'[k] = NoItem
        BY <4>2 DEF NoItem
      <4> QED BY <2>4, <4>1, <4>2, StepShape
    <3>3. stranded \subseteq stranded'
      BY <2>4 DEF Step, StepFails, DeleteRefused, Head, Validate, SetAcl, Moderate,
           Finalize, Reject, ReleaseUploadSlot, DeleteRefusedFails, HeadFails,
           ValidateFails, SetAclFails, ModerateFails, FinalizeFails, RejectFails,
           ReleaseFails, ghosts, Inspected
    <3>4. ASSUME Reserved(q, k)', request'[q] = Idle PROVE k \in stranded'
      <4>1. CASE DeleteRefused(q, k) \/ DeleteRefusedFails(q, k)
        <5>1. item[k].status = "processing" /\ item[k].by = q
              /\ request[q].at = "refuse"
          BY <3>4, <4>1 DEF DeleteRefused, DeleteRefusedFails, Reserved, Awaits
        <5> QED BY <3>3, <5>1 DEF ProcessingHasWorker, Working
      <4>2. CASE ReleaseUploadSlot(q, k)
        <5>0. item' = [item EXCEPT ![k] = IF Reserved(q, k) THEN NoItem ELSE item[k]]
          BY <4>2 DEF ReleaseUploadSlot
        <5>1. item'[k] = NoItem \/ (~Reserved(q, k) /\ item'[k] = item[k])
          BY <5>0, Zenon DEF TypeOK
        <5>2. item'[k] = NoItem => ~Reserved(q, k)'
          BY DEF Reserved, NoItem
        <5> QED BY <3>4, <5>1, <5>2 DEF Reserved
      <4>3. CASE ReleaseFails(q, k)
        BY <4>3 DEF ReleaseFails
      <4>4. CASE Finalize(q, k)
        <5>1. \/ item'[k].status = "completed"
              \/ request'[q].at = "release"
          BY <4>4 DEF Finalize, Completed, Reserved, GoesTo, Awaits, TypeOK
        <5> QED BY <3>4, <5>1 DEF Reserved, Idle
      <4>5. CASE Head(q, k) \/ Validate(q, k) \/ SetAcl(q, k) \/ Moderate(q, k)
                 \/ Reject(q, k) \/ HeadFails(q, k) \/ ValidateFails(q, k)
                 \/ SetAclFails(q, k) \/ ModerateFails(q, k) \/ FinalizeFails(q, k)
                 \/ RejectFails(q, k)
        BY <3>4, <4>5 DEF Head, Validate, SetAcl, Moderate, Reject, HeadFails,
             ValidateFails, SetAclFails, ModerateFails, FinalizeFails, RejectFails,
             GoesTo, Idle, Awaits, TypeOK
      <4> QED BY <2>4, <4>1, <4>2, <4>3, <4>4, <4>5 DEF Step, StepFails
    <3>5. ASSUME NEW j \in Keys, item'[j].status = "processing", j \notin stranded'
          PROVE  request'[item'[j].by].at \in Working /\ request'[item'[j].by].key = j
      <4>1. item'[j] = item[j]
        BY <3>1, <3>2, <3>5
      <4>2. /\ request[item[j].by].at \in Working /\ request[item[j].by].key = j
            /\ item[j].by \in Requests
        BY <3>3, <3>5, <4>1 DEF ProcessingHasWorker, TypeOK, Item, NoItem
      <4>3. CASE item[j].by # q
        BY <3>1, <4>1, <4>2, <4>3
      <4>4. CASE item[j].by = q
        <5>1. j = k
          BY <3>1, <4>2, <4>4 DEF Works, Awaits, Working
        <5>2. Reserved(q, k)'
          <6>1. item[k] \in Item /\ item[k].status = "processing" /\ item[k].by = q
            BY <3>5, <4>1, <4>4, <5>1 DEF TypeOK, NoItem
          <6>2. item[k] = [status |-> "processing", by |-> q]
            BY <6>1 DEF Item
          <6> QED BY <4>1, <5>1, <6>2 DEF Reserved
        <5> QED BY <3>1, <3>4, <3>5, <4>1, <4>4, <5>1, <5>2 DEF Works
      <4> QED BY <4>3, <4>4
    <3> QED BY <3>5 DEF ProcessingHasWorker
  <2>5. CASE CleanupExpiredBatches
    BY <2>5 DEF CleanupExpiredBatches, ghosts, bucket, NoItem, ProcessingHasWorker, TypeOK
  <2>6. CASE Crash
    BY <2>6 DEF Crash, ProcessingHasWorker
  <2>7. CASE UNCHANGED vars
    BY <2>7 DEF vars, ghosts, bucket, ProcessingHasWorker
  <2> QED BY <2>1, <2>2, <2>3, <2>4, <2>5, <2>6, <2>7 DEF Next, AnswerAtOnce
<1> QED BY <1>1, <1>2

\* For any batches, keys and requests, no path of a request forgets the item
\* it has reserved: one that is processing has its request, or a fault left it.
THEOREM NoItemForgotten == Spec => []ProcessingHasWorker
BY TypeInductive, WorkerInductive, PTL DEF Spec

-----------------------------------------------------------------------------
(* Requests, objects and files                                             *)

\* A public object that moderation would reject, left so by the client, and
\* that nobody has failed to judge.
Exposed(k) == /\ object[k] = "public" /\ file[k] = "unsuitable" /\ Untouched(k)
              /\ k \notin unjudged

LEMMA ExposedStep ==
  ASSUME TypeOK, NEW q \in Requests, NEW k \in Keys, Step(q, k) \/ StepFails(q, k),
         NEW j \in Keys, Exposed(j)'
  PROVE  InHand(q, j)' \/ (Exposed(j) /\ ~InHand(q, j))
<1> USE DEF TypeOK, Awaits, InHand, Exposed, Untouched, GoesTo, Ends, Idle, ghosts,
        bucket, Deleted, Inspected, Missing
<1>1. CASE DeleteRefused(q, k) \/ DeleteRefusedFails(q, k)
  BY <1>1 DEF DeleteRefused, DeleteRefusedFails
<1>2. CASE Head(q, k) \/ HeadFails(q, k)
  BY <1>2 DEF Head, HeadFails
<1>3. CASE Validate(q, k) \/ ValidateFails(q, k)
  BY <1>3 DEF Validate, ValidateFails
<1>4. CASE SetAcl(q, k) \/ SetAclFails(q, k)
  BY <1>4 DEF SetAcl, SetAclFails
<1>5. CASE Moderate(q, k) \/ ModerateFails(q, k)
  BY <1>5 DEF Moderate, ModerateFails
<1>6. CASE Finalize(q, k) \/ FinalizeFails(q, k)
  BY <1>6 DEF Finalize, FinalizeFails
<1>7. CASE Reject(q, k) \/ RejectFails(q, k)
  BY <1>7 DEF Reject, RejectFails
<1>8. CASE ReleaseUploadSlot(q, k) \/ ReleaseFails(q, k)
  BY <1>8 DEF ReleaseUploadSlot, ReleaseFails
<1> QED BY <1>1, <1>2, <1>3, <1>4, <1>5, <1>6, <1>7, <1>8 DEF Step, StepFails

LEMMA RemovedInductive == /\ Init => UnsuitableIsRemoved
                          /\ TypeOK /\ UnsuitableIsRemoved /\ [Next]_vars
                               => UnsuitableIsRemoved'
<1>1. Init => UnsuitableIsRemoved
  BY DEF Init, UnsuitableIsRemoved
<1>2. ASSUME TypeOK, UnsuitableIsRemoved, [Next]_vars, NEW j \in Keys, Exposed(j)'
      PROVE  \E q \in Requests : InHand(q, j)'
  <2> USE <1>2
  <2>0. ASSUME Exposed(j) PROVE \E q \in Requests : InHand(q, j)
    BY <2>0 DEF UnsuitableIsRemoved, Exposed
  <2>1. ASSUME UNCHANGED <<bucket, request, unjudged>>
        PROVE  \E q \in Requests : InHand(q, j)'
    BY <2>1, <2>0 DEF bucket, Exposed, Untouched, InHand, Awaits
  <2>2. ASSUME NEW k \in Keys, PutObject(k) \/ PutObjectAcl(k)
        PROVE  \E q \in Requests : InHand(q, j)'
    <3>1. changed'[k] # "nothing"
      BY <2>2 DEF PutObject, PutObjectAcl, TypeOK
    <3>2. j # k
      BY <3>1 DEF Exposed, Untouched
    <3>3. Exposed(j) /\ request' = request
      BY <2>2, <3>2 DEF PutObject, PutObjectAcl, Exposed, Untouched, ghosts, TypeOK
    <3> QED BY <2>0, <3>3 DEF InHand, Awaits
  <2>3. ASSUME NEW q \in Requests, NEW k \in Keys,
               \/ ReserveUploadSlot(q, k)
               \/ \E b \in Batches : RefuseUpload(q, b, k)
        PROVE  \E p \in Requests : InHand(p, j)'
    <3>1. PICK p \in Requests : InHand(p, j)
      BY <2>3, <2>0 DEF ReserveUploadSlot, RefuseUpload, ghosts, bucket, Exposed, Untouched
    <3>2. p # q
      BY <2>3, <3>1 DEF ReserveUploadSlot, RefuseUpload, InHand, Awaits, Idle
    <3>3. request'[p] = request[p]
      BY <2>3, <3>2 DEF ReserveUploadSlot, RefuseUpload, TypeOK
    <3> QED BY <3>1, <3>3 DEF InHand, Awaits
  <2>4. ASSUME NEW q \in Requests, NEW k \in Keys, Step(q, k) \/ StepFails(q, k)
        PROVE  \E p \in Requests : InHand(p, j)'
    <3>1. CASE Exposed(j) /\ ~InHand(q, j)
      <4>1. PICK p \in Requests : InHand(p, j)
        BY <3>1, <2>0
      <4>2. request'[p] = request[p]
        BY <2>4, <3>1, <4>1, StepShape
      <4> QED BY <4>1, <4>2 DEF InHand, Awaits
    <3> QED BY <2>4, <3>1, ExposedStep
  <2>5. CASE Crash
    BY <2>5 DEF Crash, bucket, Exposed, TypeOK
  <2> QED BY <2>1, <2>2, <2>3, <2>4, <2>5
          DEF Next, AnswerAtOnce, CreateStsCredential, Expire, CleanupExpiredBatches,
              vars, ghosts
<1> QED BY <1>1, <1>2 DEF UnsuitableIsRemoved, Exposed

\* For any batches, keys and requests, an object that moderation would reject
\* and the client has left alone does not stay public, but for failures of the
\* service and of deletions.
THEOREM UnsuitableGoes == Spec => []UnsuitableIsRemoved
BY TypeInductive, RemovedInductive, PTL DEF Spec

-----------------------------------------------------------------------------
(* The ledger of a batch's slots                                           *)

\* What a step does to the items: nothing, to one of them, or to all those
\* of the batches it closes.
LEMMA ItemStep ==
  ASSUME TypeOK, [Next]_vars
  PROVE  \/ /\ item' = item
            /\ \A b \in Batches : openBatch'[b] = openBatch[b]
         \/ /\ batch' = batch
            /\ \E q \in Requests, k \in Keys :
                 \/ ReserveUploadSlot(q, k)
                 \/ /\ \A j \in Keys \ {k} : item'[j] = item[j]
                    /\ Reserved(q, k)
                    /\ item'[k] \in {NoItem, [status |-> "completed", by |-> q]}
         \/ CleanupExpiredBatches
<1>1. ASSUME NEW b \in Batches, CreateStsCredential(b) \/ Expire(b)
      PROVE  item' = item /\ \A c \in Batches : openBatch'[c] = openBatch[c]
  BY <1>1 DEF CreateStsCredential, Expire, TypeOK, openBatch
<1>2. ASSUME UNCHANGED <<batch, item>>
      PROVE  item' = item /\ \A b \in Batches : openBatch'[b] = openBatch[b]
  BY <1>2 DEF openBatch
<1>3. ASSUME NEW q \in Requests, NEW k \in Keys, Step(q, k) \/ StepFails(q, k)
      PROVE  \/ UNCHANGED <<batch, item>>
             \/ /\ batch' = batch
                /\ \A j \in Keys \ {k} : item'[j] = item[j]
                /\ Reserved(q, k)
                /\ item'[k] \in {NoItem, [status |-> "completed", by |-> q]}
  <2>1. /\ batch' = batch
        /\ \A j \in Keys \ {k} : item'[j] = item[j]
        /\ \/ item'[k] = item[k]
           \/ Reserved(q, k) /\ item'[k] \in {NoItem, [status |-> "completed", by |-> q]}
    BY <1>3, StepShape
  <2>2. item \in [Keys -> Item \cup {NoItem}] /\ item' \in [Keys -> Item \cup {NoItem}]
    BY <1>3, TypeInductive DEF TypeOK
  <2>3. CASE item'[k] = item[k]
    <3>1. \A j \in Keys : item'[j] = item[j]
      BY <2>1, <2>3
    <3>2. item' = item
      BY <2>2, <3>1
    <3> QED BY <2>1, <3>2
  <2> QED BY <2>1, <2>3
<1>4. CASE Crash \/ UNCHANGED vars
  BY <1>4, <1>2 DEF Crash, vars
<1>5. ASSUME NEW k \in Keys, PutObject(k) \/ PutObjectAcl(k) PROVE UNCHANGED <<batch, item>>
  BY <1>5 DEF PutObject, PutObjectAcl
<1>6. ASSUME NEW q \in Requests, NEW k \in Keys, NEW b \in Batches,
             AnswerAtOnce(q, b, k) \/ RefuseUpload(q, b, k)
      PROVE  UNCHANGED <<batch, item>>
  BY <1>6 DEF AnswerAtOnce, RefuseUpload, vars
<1>7. ASSUME NEW q \in Requests, NEW k \in Keys, ReserveUploadSlot(q, k)
      PROVE  batch' = batch
  BY <1>7 DEF ReserveUploadSlot
<1> QED BY <1>1, <1>2, <1>3, <1>4, <1>5, <1>6, <1>7 DEF Next

\* A completed item goes only with its batch, for any batches and requests:
\* no request holds it any more, so none can release or complete it.
THEOREM CompletionIsFinal == Spec => CompletedIsFinal
<1>1. ASSUME TypeOK, [Next]_vars, NEW k \in Keys, item[k].status = "completed"
      PROVE  item'[k] = item[k] \/ batch'[BatchOf[k]] = "deleted"
  <2> USE <1>1
  <2>0. item[k] # NoItem /\ \A q \in Requests : ~Reserved(q, k)
    BY DEF NoItem, Reserved
  <2>1. ASSUME NEW q \in Requests, NEW j \in Keys, ReserveUploadSlot(q, j)
        PROVE  item'[k] = item[k]
    BY <2>0, <2>1 DEF ReserveUploadSlot, TypeOK
  <2>2. ASSUME NEW q \in Requests, NEW j \in Keys, Reserved(q, j),
               \A i \in Keys \ {j} : item'[i] = item[i]
        PROVE  item'[k] = item[k]
    BY <2>0, <2>2
  <2>3. CASE CleanupExpiredBatches
    <3>1. BatchOf[k] \in Batches
      BY UploadAssumption
    <3> QED BY <2>3, <3>1 DEF CleanupExpiredBatches
  <2> QED BY <2>1, <2>2, <2>3, ItemStep
<1>2. TypeOK /\ [Next]_vars =>
        [\A k \in Keys : item[k].status = "completed" =>
            item'[k] = item[k] \/ batch'[BatchOf[k]] = "deleted"]_vars
  BY <1>1
<1> QED BY <1>2, TypeCorrect, PTL DEF Spec, CompletedIsFinal

LEMMA AllowanceInductive == /\ Init => WithinAllowance
                            /\ TypeOK /\ WithinAllowance /\ [Next]_vars
                                 => WithinAllowance'
<1>f. \A b \in Batches : IsFiniteSet(ItemsOf(b))
  BY UploadAssumption, FS_Subset DEF ItemsOf
<1>1. Init => WithinAllowance
  <2> SUFFICES ASSUME Init, NEW b \in Batches PROVE Cardinality(ItemsOf(b)) <= Allowed
    BY DEF WithinAllowance
  <2>1. ItemsOf(b) = {}
    BY DEF Init, ItemsOf, NoItem
  <2> QED BY <2>1, FS_EmptySet, UploadAssumption
<1>2. ASSUME TypeOK, WithinAllowance, [Next]_vars, NEW b \in Batches
      PROVE  Cardinality(ItemsOf(b)') <= Allowed
  <2> USE <1>2
  <2>s. ASSUME ItemsOf(b)' \subseteq ItemsOf(b) PROVE Cardinality(ItemsOf(b)') <= Allowed
    <3>1. IsFiniteSet(ItemsOf(b)) /\ Cardinality(ItemsOf(b)) <= Allowed
      BY <1>f DEF WithinAllowance
    <3>2. /\ Cardinality(ItemsOf(b)') <= Cardinality(ItemsOf(b))
          /\ Cardinality(ItemsOf(b)) \in Nat /\ Cardinality(ItemsOf(b)') \in Nat
      BY <2>s, <3>1, FS_Subset, FS_CardinalityType
    <3> QED BY <3>1, <3>2, UploadAssumption
  <2>1. CASE item' = item
    BY <2>1, <2>s DEF ItemsOf
  <2>2. ASSUME NEW q \in Requests, NEW k \in Keys, ReserveUploadSlot(q, k)
        PROVE  Cardinality(ItemsOf(b)') <= Allowed
    <3>1. CASE BatchOf[k] = b
      <4>1. ItemsOf(b)' \subseteq ItemsOf(b) \cup {k}
        BY <2>2 DEF ReserveUploadSlot, ItemsOf, TypeOK
      <4>2. Cardinality(ItemsOf(b)) < Allowed
        BY <2>2, <3>1 DEF ReserveUploadSlot
      <4>3. /\ IsFiniteSet(ItemsOf(b) \cup {k})
            /\ Cardinality(ItemsOf(b)) \in Nat
            /\ Cardinality(ItemsOf(b) \cup {k}) <= Cardinality(ItemsOf(b)) + 1
        <5>1. IsFiniteSet(ItemsOf(b)) /\ Cardinality(ItemsOf(b)) \in Nat
          BY <1>f, FS_CardinalityType
        <5>2. /\ IsFiniteSet(ItemsOf(b) \cup {k})
              /\ \/ Cardinality(ItemsOf(b) \cup {k}) = Cardinality(ItemsOf(b))
                 \/ Cardinality(ItemsOf(b) \cup {k}) = Cardinality(ItemsOf(b)) + 1
          BY <5>1, FS_AddElement, Zenon
        <5> QED BY <5>1, <5>2
      <4>4. /\ Cardinality(ItemsOf(b)') <= Cardinality(ItemsOf(b) \cup {k})
            /\ Cardinality(ItemsOf(b)') \in Nat
            /\ Cardinality(ItemsOf(b) \cup {k}) \in Nat
        BY <4>1, <4>3, FS_Subset, FS_CardinalityType
      <4> QED BY <4>2, <4>3, <4>4, UploadAssumption
    <3>2. CASE BatchOf[k] # b
      BY <2>2, <2>s, <3>2 DEF ReserveUploadSlot, ItemsOf, TypeOK
    <3> QED BY <3>1, <3>2
  <2>3. ASSUME NEW q \in Requests, NEW k \in Keys, Reserved(q, k),
               \A j \in Keys \ {k} : item'[j] = item[j]
        PROVE  Cardinality(ItemsOf(b)') <= Allowed
    <3>1. item[k].status # "none"
      BY <2>3 DEF Reserved
    <3> QED BY <2>3, <2>s, <3>1 DEF ItemsOf
  <2>4. CASE CleanupExpiredBatches
    BY <2>4, <2>s DEF CleanupExpiredBatches, ItemsOf, NoItem
  <2> QED BY <2>1, <2>2, <2>3, <2>4, ItemStep
<1> QED BY <1>1, <1>2 DEF WithinAllowance

\* For any allowance, batches, keys and requests, a batch never has more
\* items than it allows.
THEOREM AllowanceKept == Spec => []WithinAllowance
BY TypeInductive, AllowanceInductive, PTL DEF Spec

-----------------------------------------------------------------------------
(* The ledger implemented                                                  *)

\* Every step on the items of any batches is a step of UploadLedger: a slot
\* is taken, given back or filled, or expired batches are closed together.
THEOREM ItemsAreLedger == Spec => LedgerSpec
<1> DEFINE abstract == <<slotOfItem, openBatch>>
<1>s. /\ SlotOf(NoItem) = "free"
      /\ \A q \in Requests : /\ SlotOf([status |-> "processing", by |-> q]) = "taken"
                             /\ SlotOf([status |-> "completed", by |-> q]) = "filled"
  BY DEF SlotOf, NoItem
<1>t. ASSUME TypeOK, NEW k \in Keys
      PROVE  SlotOf(item[k]) = "free" <=> item[k].status = "none"
  <2>1. item[k].status \in {"none", "processing", "completed"}
    BY <1>t DEF TypeOK, Item, NoItem
  <2> QED BY <2>1 DEF SlotOf
<1>c. \A S : Ledger!Cardinality(S) = Cardinality(S)
  BY Zenon DEF Ledger!Cardinality, Cardinality
<1>1. ASSUME Init PROVE Ledger!Init
  BY <1>1, <1>s DEF Init, Ledger!Init, slotOfItem, openBatch
<1>2. ASSUME TypeOK, Held, [Next]_vars PROVE [Ledger!Next]_abstract
  <2> USE <1>2
  <2>b. BatchOf \in [Keys -> Batches]
    BY UploadAssumption
  <2>i. item \in [Keys -> Item \cup {NoItem}]
    BY DEF TypeOK
  <2>1. CASE item' = item /\ \A b \in Batches : openBatch'[b] = openBatch[b]
    BY <2>1 DEF slotOfItem, openBatch
  <2>2. ASSUME NEW q \in Requests, NEW k \in Keys, ReserveUploadSlot(q, k)
        PROVE  Ledger!Take(k)
    <3>1. /\ batch' = batch /\ batch[BatchOf[k]] = "open" /\ item[k] = NoItem
          /\ item' = [item EXCEPT ![k] = [status |-> "processing", by |-> q]]
          /\ Cardinality(ItemsOf(BatchOf[k])) < Allowed
      BY <2>2 DEF ReserveUploadSlot
    <3>2. Ledger!InUse(BatchOf[k]) = ItemsOf(BatchOf[k])
      <4>1. \A j \in Keys : slotOfItem[j] # "free" <=> item[j].status # "none"
        BY <1>t DEF slotOfItem
      <4> QED BY <4>1 DEF Ledger!InUse, Ledger!KeysOf, ItemsOf
    <3>3. Ledger!Cardinality(Ledger!InUse(BatchOf[k])) < Allowed
      BY <1>c, <3>1, <3>2
    <3>4. slotOfItem' = [slotOfItem EXCEPT ![k] = "taken"]
      BY <1>s, <2>i, <3>1 DEF slotOfItem
    <3>5. slotOfItem[k] = "free"
      BY <1>s, <3>1 DEF slotOfItem
    <3>6. openBatch[BatchOf[k]] /\ openBatch' = openBatch
      BY <2>b, <3>1 DEF openBatch
    <3> QED BY <3>3, <3>4, <3>5, <3>6 DEF Ledger!Take
  <2>3. ASSUME batch' = batch, NEW q \in Requests, NEW k \in Keys, Reserved(q, k),
               \A j \in Keys \ {k} : item'[j] = item[j],
               item'[k] \in {NoItem, [status |-> "completed", by |-> q]}
        PROVE  Ledger!GiveBack(k) \/ Ledger!Fill(k)
    <3>1. slotOfItem[k] = "taken" /\ openBatch' = openBatch
      BY <2>3, <1>s DEF Reserved, openBatch, slotOfItem
    <3>2. slotOfItem' = [slotOfItem EXCEPT ![k] = SlotOf(item'[k])]
      BY <2>3 DEF slotOfItem
    <3> QED BY <1>s, <2>3, <3>1, <3>2 DEF Ledger!GiveBack, Ledger!Fill
  <2>4. CASE CleanupExpiredBatches
    <3>1. /\ Stale # {}
          /\ batch' = [b \in Batches |-> IF b \in Stale THEN "deleted" ELSE batch[b]]
          /\ item' = [k \in Keys |-> IF BatchOf[k] \in Stale THEN NoItem ELSE item[k]]
      BY <2>4 DEF CleanupExpiredBatches
    <3>2. Stale \subseteq Batches /\ \A b \in Stale : batch[b] = "open"
      BY DEF Stale, TypeOK
    <3>3. openBatch' = [b \in Batches |-> openBatch[b] /\ b \notin Stale]
      BY <3>1 DEF openBatch
    <3>4. slotOfItem' =
            [k \in Keys |-> IF BatchOf[k] \in Stale THEN "free" ELSE slotOfItem[k]]
      <4> HIDE DEF Stale
      <4> QED BY <1>s, <3>1 DEF slotOfItem
    <3>5. \A b \in Stale : openBatch[b]
      BY <3>2 DEF openBatch
    <3>6. Ledger!Close(Stale)
      BY <3>1, <3>3, <3>4, <3>5 DEF Ledger!Close
    <3> QED BY <3>2, <3>6 DEF Ledger!Next
  <2> QED BY <2>1, <2>2, <2>3, <2>4, ItemStep DEF Ledger!Next
<1> QED BY <1>1, <1>2, HeldAlways, PTL DEF Spec, LedgerSpec, Ledger!Spec

-----------------------------------------------------------------------------
(* Completed items and their objects                                       *)

\* The object of key k is what a completed item promises, or will be.
Valid(k) == file[k] # "malformed"
Published(k) == object[k] = "public" \/ k \in swept
Accepted(k) == file[k] = "unsuitable" => FailOpen

\* The steps a request may be at with this object: what it has made sure of by
\* then holds, if the client has left the object alone.
Assured(k) ==
    {at \in Phase : Untouched(k) =>
        /\ at \in {"acl", "moderate", "finalize"} => Valid(k)
        /\ at \in {"moderate", "finalize"} => Published(k)
        /\ at = "finalize" => Accepted(k)}

Judged ==
    \A q \in Requests, k \in Keys :
        Works(q, k) /\ Reserved(q, k) => request[q].at \in Assured(k)

Backed == \A k \in Keys : item[k].status = "completed" => "finalize" \in Assured(k)

LEMMA BackedMeans == Backed => CompletedIsBacked
BY DEF Backed, CompletedIsBacked, Assured, Phase, Working, Valid, Published, Accepted

\* The object of a key is as it was, or a refused request has deleted it.
SameObject(k) == /\ object'[k] = object[k] /\ file'[k] = file[k]
                 /\ changed'[k] = changed[k] /\ (k \in swept' <=> k \in swept)
Swept(k) == file'[k] = "none" /\ k \in swept'

LEMMA SameIsSure ==
  ASSUME NEW k \in Keys, SameObject(k) \/ Swept(k)
  PROVE  Assured(k) \subseteq Assured(k)'
BY DEF SameObject, Swept, Assured, Untouched, Valid, Published, Accepted

\* What a step does to objects, and where a request comes from.
LEMMA ObjectStep ==
  ASSUME TypeOK, NEW q \in Requests, NEW k \in Keys, Step(q, k) \/ StepFails(q, k)
  PROVE  /\ \A j \in Keys \ {k} : SameObject(j)
         /\ Awaits(q, "refuse", k) => SameObject(k) \/ Swept(k)
         /\ request[q].at \in {"finalize", "release"} => SameObject(k)
         /\ request[q].at \in Assured(k) => (request[q].at \in Assured(k))'
<1> USE DEF TypeOK, Awaits, GoesTo, Ends, Idle, ghosts, bucket, SameObject, Swept,
        Assured, Phase, Working, Untouched, Valid, Published, Accepted
<1>1. CASE DeleteRefused(q, k) \/ DeleteRefusedFails(q, k)
  BY <1>1 DEF DeleteRefused, DeleteRefusedFails, Deleted
<1>2. CASE Head(q, k) \/ HeadFails(q, k)
  BY <1>2 DEF Head, HeadFails, Inspected
<1>3. CASE Validate(q, k) \/ ValidateFails(q, k)
  BY <1>3 DEF Validate, ValidateFails
<1>4. CASE SetAcl(q, k) \/ SetAclFails(q, k)
  BY <1>4 DEF SetAcl, SetAclFails
<1>5. CASE Moderate(q, k) \/ ModerateFails(q, k)
  BY <1>5 DEF Moderate, ModerateFails
<1>6. CASE Finalize(q, k) \/ FinalizeFails(q, k)
  BY <1>6 DEF Finalize, FinalizeFails
<1>7. CASE Reject(q, k) \/ RejectFails(q, k)
  BY <1>7 DEF Reject, RejectFails, Deleted
<1>8. CASE ReleaseUploadSlot(q, k) \/ ReleaseFails(q, k)
  BY <1>8 DEF ReleaseUploadSlot, ReleaseFails
<1> QED BY <1>1, <1>2, <1>3, <1>4, <1>5, <1>6, <1>7, <1>8 DEF Step, StepFails

LEMMA BackedInductive ==
    /\ Init => Judged /\ Backed
    /\ TypeOK /\ Held /\ Judged /\ Backed /\ [Next]_vars => Judged' /\ Backed'
<1>1. Init => Judged /\ Backed
  BY DEF Init, Judged, Backed, Works, Working, Idle, NoItem
<1>2. ASSUME TypeOK, Held, Judged, Backed, [Next]_vars PROVE Judged' /\ Backed'
  <2> USE <1>2
  <2>p. ASSUME \A j \in Keys : Assured(j) \subseteq Assured(j)',
               UNCHANGED <<item, request>>
        PROVE  Judged' /\ Backed'
    BY <2>p DEF Judged, Backed, Works, Reserved
  <2>1. ASSUME NEW b \in Batches, CreateStsCredential(b) \/ Expire(b)
        PROVE  Judged' /\ Backed'
    BY <2>1, <2>p, SameIsSure
       DEF CreateStsCredential, Expire, ghosts, bucket, SameObject
  <2>2. ASSUME NEW k \in Keys, PutObject(k) \/ PutObjectAcl(k)
        PROVE  Judged' /\ Backed'
    <3>1. ~Untouched(k)' /\ \A j \in Keys \ {k} : SameObject(j)
      BY <2>2 DEF PutObject, PutObjectAcl, Untouched, SameObject, ghosts, TypeOK
    <3>2. ASSUME NEW j \in Keys PROVE Assured(j) \subseteq Assured(j)'
      <4>1. CASE j = k
        BY <3>1, <4>1 DEF Assured
      <4>2. CASE j # k
        BY <3>1, <4>2, SameIsSure
      <4> QED BY <4>1, <4>2
    <3> QED BY <2>2, <3>2, <2>p DEF PutObject, PutObjectAcl
  <2>3. ASSUME NEW q \in Requests, NEW k \in Keys,
               \/ ReserveUploadSlot(q, k)
               \/ \E b \in Batches : RefuseUpload(q, b, k)
        PROVE  Judged' /\ Backed'
    <3>1. /\ \A j \in Keys : SameObject(j)
          /\ request[q].at = "idle" /\ request'[q].at \in {"head", "refuse"}
          /\ \A p \in Requests \ {q} : request'[p] = request[p]
          /\ \A j \in Keys : \/ item'[j] = item[j]
                             \/ item'[j] = [status |-> "processing", by |-> q]
      BY <2>3 DEF ReserveUploadSlot, RefuseUpload, Idle, ghosts, bucket, SameObject, TypeOK
    <3>2. Backed'
      <4>1. ASSUME NEW j \in Keys, item'[j].status = "completed"
            PROVE  ("finalize" \in Assured(j))'
        <5>1. item'[j] = item[j]
          BY <3>1, <4>1
        <5> QED BY <3>1, <4>1, <5>1, SameIsSure DEF Backed
      <4> QED BY <4>1 DEF Backed
    <3>3. ASSUME NEW p \in Requests, NEW j \in Keys, Works(p, j)', Reserved(p, j)'
          PROVE  (request[p].at \in Assured(j))'
      <4>1. CASE p = q
        BY <3>1, <4>1 DEF Assured, Phase, Working
      <4>2. CASE p # q
        <5>1. item'[j].by = p
          BY <3>3 DEF Reserved
        <5>2. item'[j] = item[j] /\ request'[p] = request[p]
          BY <3>1, <4>2, <5>1
        <5>3. request[p].at \in Assured(j)
          BY <3>3, <5>2 DEF Judged, Works, Reserved
        <5> QED BY <3>1, <5>2, <5>3, SameIsSure
      <4> QED BY <4>1, <4>2
    <3> QED BY <3>2, <3>3 DEF Judged
  <2>4. ASSUME NEW q \in Requests, NEW k \in Keys, Step(q, k) \/ StepFails(q, k)
        PROVE  Judged' /\ Backed'
    <3>1. /\ \A p \in Requests \ {q} : request'[p] = request[p]
          /\ \A j \in Keys \ {k} : item'[j] = item[j]
          /\ request'[q] = Idle \/ (Works(q, k) /\ Works(q, k)')
          /\ Works(q, k) \/ Awaits(q, "refuse", k)
      BY <2>4, StepShape
    <3>2. \/ item'[k] = item[k]
          \/ /\ item'[k] = [status |-> "completed", by |-> q]
             /\ Reserved(q, k) /\ request[q].at = "finalize"
          \/ item'[k] = NoItem
      BY <2>4, StepShape
    <3>3. \A j \in Keys \ {k} : SameObject(j)
      BY <2>4, ObjectStep
    <3>4. ASSUME NEW j \in Keys, item'[j].status = "completed"
          PROVE  ("finalize" \in Assured(j))'
      <4>1. CASE j # k
        BY <3>1, <3>3, <3>4, <4>1, SameIsSure DEF Backed
      <4>2. CASE j = k /\ item'[k] = item[k]
        <5>1. item[k].status = "completed" /\ item[k] # NoItem /\ ~Reserved(q, k)
          BY <3>4, <4>2 DEF NoItem, Reserved
        <5>2. batch[BatchOf[k]] # "deleted"
          BY <5>1 DEF Held, ItemsHaveBatch
        <5>3. Works(q, k) => request[q].at = "release"
          BY <5>1, <5>2 DEF Held, ItemIsHeld
        <5>4. SameObject(k) \/ Swept(k)
          BY <2>4, <3>1, <5>3, ObjectStep
        <5> QED BY <4>2, <5>1, <5>4, SameIsSure DEF Backed
      <4>3. CASE j = k /\ item'[k] # item[k]
        <5>1. Reserved(q, k) /\ request[q].at = "finalize"
          BY <3>2, <3>4, <4>3 DEF NoItem
        <5>2. Works(q, k)
          BY <3>1, <5>1 DEF Awaits
        <5>3. "finalize" \in Assured(k) /\ SameObject(k)
          BY <2>4, <5>1, <5>2, ObjectStep DEF Judged
        <5> QED BY <4>3, <5>3, SameIsSure
      <4> QED BY <4>1, <4>2, <4>3
    <3>5. ASSUME NEW j \in Keys, NEW p \in Requests, Reserved(p, j)'
          PROVE  Reserved(p, j)
      <4>1. item'[j] = [status |-> "processing", by |-> p] /\ item'[j].status = "processing"
        BY <3>5 DEF Reserved
      <4>2. item'[j] = item[j]
        BY <3>1, <3>2, <4>1 DEF NoItem
      <4> QED BY <4>1, <4>2 DEF Reserved
    <3>6. ASSUME NEW p \in Requests, NEW j \in Keys, Works(p, j)', Reserved(p, j)'
          PROVE  (request[p].at \in Assured(j))'
      <4>1. CASE p = q
        <5>1. j = k /\ Works(q, k)
          BY <3>1, <3>6, <4>1 DEF Works, Idle, Working
        <5>2. request[q].at \in Assured(k)
          BY <3>5, <3>6, <4>1, <5>1 DEF Judged
        <5>3. (request[q].at \in Assured(k))'
          BY <2>4, <5>2, ObjectStep
        <5> QED BY <4>1, <5>1, <5>3
      <4>2. CASE p # q
        <5>1. request'[p] = request[p] /\ Works(p, j) /\ Reserved(p, j)
          BY <3>1, <3>5, <3>6, <4>2 DEF Works
        <5>2. SameObject(j) \/ Swept(j)
          <6>1. CASE j = k
            <7>1. ~Works(q, k)
              BY <4>2, <5>1, <6>1 DEF Held, OneWorker
            <7> QED BY <2>4, <3>1, <6>1, <7>1, ObjectStep
          <6>2. CASE j # k
            BY <3>3, <6>2
          <6> QED BY <6>1, <6>2
        <5>3. request[p].at \in Assured(j)
          BY <5>1 DEF Judged
        <5> QED BY <5>1, <5>2, <5>3, SameIsSure
      <4> QED BY <4>1, <4>2
    <3> QED BY <3>4, <3>6 DEF Judged, Backed
  <2>5. CASE CleanupExpiredBatches
    <3>1. /\ UNCHANGED <<bucket, request, swept>>
          /\ \A j \in Keys : item'[j] = item[j] \/ item'[j] = NoItem
      BY <2>5 DEF CleanupExpiredBatches, ghosts
    <3>2. \A j \in Keys : item'[j].status # "none" => item'[j] = item[j]
      BY <3>1 DEF NoItem
    <3>3. \A j \in Keys : SameObject(j)
      BY <3>1 DEF bucket, SameObject
    <3>4. Backed'
      <4>1. ASSUME NEW j \in Keys, item'[j].status = "completed"
            PROVE  ("finalize" \in Assured(j))'
        BY <3>2, <3>3, <4>1, SameIsSure DEF Backed
      <4> QED BY <4>1 DEF Backed
    <3>5. ASSUME NEW p \in Requests, NEW j \in Keys, Works(p, j)', Reserved(p, j)'
          PROVE  (request[p].at \in Assured(j))'
      <4>1. item'[j].status = "processing"
        BY <3>5 DEF Reserved
      <4>2. Works(p, j) /\ Reserved(p, j) /\ request'[p] = request[p]
        BY <3>1, <3>2, <3>5, <4>1 DEF Works, Reserved
      <4>3. request[p].at \in Assured(j)
        BY <4>2 DEF Judged
      <4> QED BY <3>3, <4>2, <4>3, SameIsSure
    <3> QED BY <3>4, <3>5 DEF Judged
  <2>6. CASE Crash
    <3>1. \A j \in Keys : SameObject(j) /\ item'[j] = item[j]
      BY <2>6 DEF Crash, bucket, SameObject
    <3>2. \A p \in Requests, j \in Keys : ~Works(p, j)'
      BY <2>6 DEF Crash, Idle, Works, Working
    <3>3. ASSUME NEW j \in Keys, item'[j].status = "completed"
          PROVE  ("finalize" \in Assured(j))'
      BY <3>1, <3>3, SameIsSure DEF Backed
    <3> QED BY <3>2, <3>3 DEF Judged, Backed
  <2>7. CASE UNCHANGED vars
    BY <2>7, <2>p, SameIsSure DEF vars, ghosts, bucket, SameObject
  <2> QED BY <2>1, <2>2, <2>3, <2>4, <2>5, <2>6, <2>7 DEF Next, AnswerAtOnce
<1> QED BY <1>1, <1>2

\* For any batches, keys and requests, a completed item's object was inspected,
\* made public and moderated; only the client, or a refused request, of a batch
\* that has expired or had no slot left, may have undone it.
THEOREM CompletedStaysBacked == Spec => []CompletedIsBacked
BY HeldAlways, BackedInductive, BackedMeans, PTL DEF Spec

\* A batch keeps to its allowance, and what the client leaves alone is as the
\* checks found it: completed items are backed, and no object that moderation
\* would reject stays.
THEOREM ItemsStayBacked == Spec => []ItemsAreBacked
BY AllowanceKept, CompletedStaysBacked, UnsuitableGoes, PTL DEF ItemsAreBacked

=============================================================================
