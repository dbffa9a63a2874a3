----------------------------- MODULE UploadBatch -----------------------------
(***************************************************************************)
(* Direct uploads: UploadsService and UploadBatchCleanupService.  A client *)
(* is issued a batch with a credential for its directory, stores files     *)
(* there, and asks for each to be completed.  The request reserves an item *)
(* of the batch, inspects the stored object, makes it public, has it       *)
(* moderated, and finalizes the item or releases it.                       *)
(*                                                                         *)
(* A step of a request ends where the code awaits the database, the object *)
(* store or the moderation service, and sees the object of that time: the  *)
(* credential lets a client write a key, and set its ACL, as often as it   *)
(* likes until the batch expires.  An item's id is represented by the      *)
(* request that reserved it.  OSS_UPLOAD_OBJECT_ACL is public-read.        *)
(***************************************************************************)
EXTENDS FiniteSets, Integers

CONSTANTS
    Batches,
    Keys,         \* object keys; a key lies in the directory of one batch
    BatchOf,      \* BatchOf[k]: that batch
    Requests,     \* requests to complete an upload that may be under way
    Allowed,      \* allowedCount
    FailOpen,     \* moderationFailOpen
    Files,        \* bound: what the client may write under each key
    MaxFaults     \* bound: failed calls and process deaths

\* What an object may be, to the checks: "malformed" is too large or no image.
File == {"fine", "malformed", "unsuitable"}

ASSUME UploadAssumption ==
    /\ BatchOf \in [Keys -> Batches]
    /\ IsFiniteSet(Keys)
    /\ Files \in [Keys -> SUBSET File]
    /\ Allowed \in Nat
    /\ FailOpen \in BOOLEAN
    /\ MaxFaults \in Nat

VARIABLES
    batch,        \* the table upload_batches
    expired,      \* batches past their expiresAt
    item,         \* the table upload_batch_items, by objectKey
    object,       \* the bucket: whether the object is there, and its ACL
    file,         \* file[k]: what the object is
    changed,      \* what the client has changed in it since it was inspected
    request,      \* request[q]: what request q awaits
    stranded,     \* ghost: items whose request died, or could not release them
    swept,        \* ghost: keys a refused request deleted since the inspection
    unjudged,     \* ghost: public objects nobody will delete any more
    faults        \* how many faults there have been

bucket == <<object, file, changed>>
ghosts == <<stranded, swept, unjudged>>
vars == <<batch, expired, item, bucket, request, ghosts, faults>>

-----------------------------------------------------------------------------
(* Values                                                                  *)

Working == {"head", "validate", "acl", "moderate", "finalize", "reject", "release"}
Phase == {"idle", "refuse"} \cup Working

NoItem == [status |-> "none"]
Item == [status : {"processing", "completed"}, by : Requests]

TypeOK ==
    /\ batch \in [Batches -> {"none", "open", "deleted"}]
    /\ expired \in SUBSET Batches
    /\ item \in [Keys -> Item \cup {NoItem}]
    /\ object \in [Keys -> {"absent", "private", "public"}]
    /\ file \in [Keys -> File \cup {"none"}]
    /\ changed \in [Keys -> {"nothing", "acl", "file"}]
    /\ request \in [Requests -> [at : Phase, key : Keys] \cup {[at |-> "idle"]}]
    /\ stranded \in SUBSET Keys
    /\ swept \in SUBSET Keys
    /\ unjudged \in SUBSET Keys
    /\ faults \in Nat

Idle == [at |-> "idle"]

Init ==
    /\ batch = [b \in Batches |-> "none"]
    /\ expired = {}
    /\ item = [k \in Keys |-> NoItem]
    /\ object = [k \in Keys |-> "absent"]
    /\ file = [k \in Keys |-> "none"]
    /\ changed = [k \in Keys |-> "nothing"]
    /\ request = [q \in Requests |-> Idle]
    /\ stranded = {}
    /\ swept = {}
    /\ unjudged = {}
    /\ faults = 0

Fault == /\ faults < MaxFaults
         /\ faults' = faults + 1

ItemsOf(b) == {k \in Keys : BatchOf[k] = b /\ item[k].status # "none"}

\* Request q awaits step `at` of key k.
Awaits(q, at, k) == request[q] = [at |-> at, key |-> k]

\* Request q goes on to this step.
GoesTo(q, at) == request' = [request EXCEPT ![q].at = at]

\* Request q is answered.
Ends(q) == request' = [request EXCEPT ![q] = Idle]

\* The object of key k is deleted.
Deleted(k) ==
    /\ object' = [object EXCEPT ![k] = "absent"]
    /\ file' = [file EXCEPT ![k] = "none"]
    /\ changed' = [changed EXCEPT ![k] = "nothing"]

\* A request that finds the object of key k takes charge of it.
Inspected(k) ==
    /\ changed' = [changed EXCEPT ![k] = "nothing"]
    /\ swept' = swept \ {k}
    /\ unjudged' = unjudged \ {k}

-----------------------------------------------------------------------------
(* Clients                                                                 *)

\* createStsCredential: the batch is saved before the credential is returned.
CreateStsCredential(b) ==
    /\ batch[b] = "none"
    /\ batch' = [batch EXCEPT ![b] = "open"]
    /\ UNCHANGED <<expired, item, bucket, request, ghosts, faults>>

\* The credential and the batch end together.
HasCredential(b) == batch[b] # "none" /\ b \notin expired

\* An object is written, or written over; its ACL is then the bucket's.
PutObject(k) ==
    /\ HasCredential(BatchOf[k])
    /\ object' = [object EXCEPT ![k] = "private"]
    /\ \E f \in Files[k] : file' = [file EXCEPT ![k] = f]
    /\ changed' = [changed EXCEPT ![k] = "file"]
    /\ UNCHANGED <<batch, expired, item, request, ghosts, faults>>

PutObjectAcl(k) ==
    /\ HasCredential(BatchOf[k])
    /\ object[k] # "absent"
    /\ object' = [object EXCEPT ![k] = IF @ = "public" THEN "private" ELSE "public"]
    /\ changed' = [changed EXCEPT ![k] = IF @ = "file" THEN "file" ELSE "acl"]
    /\ UNCHANGED <<batch, expired, item, file, request, ghosts, faults>>

-----------------------------------------------------------------------------
(* reserveUploadSlot: one transaction that holds the batch's row           *)

\* UPLOAD_BATCH_NOT_FOUND, INVALID_UPLOAD_KEY for a key outside the batch's
\* directory, the record of a completed item, or UPLOAD_ALREADY_PROCESSING.
AnswerAtOnce(q, b, k) ==
    /\ request[q] = Idle
    /\ \/ batch[b] = "deleted"
       \/ /\ batch[b] = "open"
          /\ b \notin expired
          /\ BatchOf[k] # b \/ item[k] # NoItem
    /\ UNCHANGED vars

ReserveUploadSlot(q, k) ==
    /\ request[q] = Idle
    /\ batch[BatchOf[k]] = "open"
    /\ BatchOf[k] \notin expired
    /\ item[k] = NoItem
    /\ Cardinality(ItemsOf(BatchOf[k])) < Allowed
    /\ item' = [item EXCEPT ![k] = [status |-> "processing", by |-> q]]
    /\ request' = [request EXCEPT ![q] = [at |-> "head", key |-> k]]
    /\ UNCHANGED <<batch, expired, bucket, ghosts, faults>>

\* UPLOAD_BATCH_EXPIRED, whatever the item and whosever the key, or
\* UPLOAD_BATCH_LIMIT_EXCEEDED: the object is to be deleted.
RefuseUpload(q, b, k) ==
    /\ request[q] = Idle
    /\ batch[b] = "open"
    /\ \/ b \in expired
       \/ BatchOf[k] = b /\ item[k] = NoItem /\ Cardinality(ItemsOf(b)) >= Allowed
    /\ request' = [request EXCEPT ![q] = [at |-> "refuse", key |-> k]]
    /\ UNCHANGED <<batch, expired, item, bucket, ghosts, faults>>

\* safeDeleteObject after a refusal.
DeleteRefused(q, k) ==
    /\ Awaits(q, "refuse", k)
    /\ Deleted(k)
    /\ swept' = swept \cup {k}
    /\ unjudged' = unjudged \ {k}
    /\ Ends(q)
    /\ UNCHANGED <<batch, expired, item, stranded, faults>>

DeleteRefusedFails(q, k) ==
    /\ Awaits(q, "refuse", k)
    /\ Fault
    /\ Ends(q)
    /\ UNCHANGED <<batch, expired, item, bucket, ghosts>>

-----------------------------------------------------------------------------
(* The reserved upload                                                     *)

\* Where the request goes when the object is not there.
Missing(k) == object[k] = "absent"

\* inspectUploadedObjectOrThrow: too large, or not there.
Head(q, k) ==
    /\ Awaits(q, "head", k)
    /\ \/ Missing(k) /\ GoesTo(q, "release") /\ UNCHANGED <<changed, swept, unjudged>>
       \/ ~Missing(k) /\ file[k] = "malformed" /\ GoesTo(q, "reject") /\ Inspected(k)
       \/ ~Missing(k) /\ GoesTo(q, "validate") /\ Inspected(k)
    /\ UNCHANGED <<batch, expired, item, object, file, stranded, faults>>

HeadFails(q, k) ==
    /\ Awaits(q, "head", k)
    /\ Fault
    /\ GoesTo(q, "release")
    /\ UNCHANGED <<batch, expired, item, bucket, ghosts>>

\* validateUploadedImageOrThrow: format and dimensions of the object that is
\* there now; size and MIME type are those of the one inspected.
Validate(q, k) ==
    /\ Awaits(q, "validate", k)
    /\ \/ Missing(k) /\ GoesTo(q, "release")
       \/ /\ file[k] = "malformed" \/ changed[k] = "file"
          /\ ~Missing(k) /\ GoesTo(q, "reject")
       \/ /\ file[k] # "malformed" \/ changed[k] = "file"
          /\ ~Missing(k) /\ GoesTo(q, "acl")
    /\ UNCHANGED <<batch, expired, item, bucket, ghosts, faults>>

\* Any other error is taken for UPLOAD_IMAGE_METADATA_INVALID.
ValidateFails(q, k) ==
    /\ Awaits(q, "validate", k)
    /\ Fault
    /\ GoesTo(q, "reject")
    /\ UNCHANGED <<batch, expired, item, bucket, ghosts>>

\* ensureUploadedObjectAclOrThrow, before moderation.
SetAcl(q, k) ==
    /\ Awaits(q, "acl", k)
    /\ \/ Missing(k) /\ GoesTo(q, "reject") /\ UNCHANGED object
       \/ /\ ~Missing(k)
          /\ object' = [object EXCEPT ![k] = "public"]
          /\ GoesTo(q, "moderate")
    /\ UNCHANGED <<batch, expired, item, file, changed, ghosts, faults>>

SetAclFails(q, k) ==
    /\ Awaits(q, "acl", k)
    /\ Fault
    /\ GoesTo(q, "reject")
    /\ UNCHANGED <<batch, expired, item, bucket, ghosts>>

\* moderateUploadedObjectOrThrow: the service fetches the object by its URL.
\* What it cannot fetch or read is an error of the service.
Moderate(q, k) ==
    /\ Awaits(q, "moderate", k)
    /\ \/ /\ object[k] # "public" \/ file[k] = "malformed"
          /\ GoesTo(q, IF FailOpen THEN "finalize" ELSE "release")
       \/ object[k] = "public" /\ file[k] = "unsuitable" /\ GoesTo(q, "reject")
       \/ object[k] = "public" /\ file[k] # "unsuitable" /\ GoesTo(q, "finalize")
    /\ UNCHANGED <<batch, expired, item, bucket, ghosts, faults>>

\* Mutant: unavailable moderation is taken for consent.
ModerateFailsOpen(q, k) ==
    /\ Awaits(q, "moderate", k)
    /\ Fault
    /\ GoesTo(q, "finalize")
    /\ unjudged' = unjudged \cup {k}
    /\ UNCHANGED <<batch, expired, item, bucket, stranded, swept>>

\* The service is unavailable: the item is released, the object stays public.
ModerateFails(q, k) ==
    /\ Awaits(q, "moderate", k)
    /\ Fault
    /\ GoesTo(q, IF FailOpen THEN "finalize" ELSE "release")
    /\ unjudged' = unjudged \cup {k}
    /\ UNCHANGED <<batch, expired, item, bucket, stranded, swept>>

\* Row id of request q is there and processing.
Reserved(q, k) == item[k] = [status |-> "processing", by |-> q]

Completed(q, k) == [item EXCEPT ![k].status = "completed"]

\* finalizeUploadSlot: no row affected is an error too.
Finalize(q, k) ==
    /\ Awaits(q, "finalize", k)
    /\ \/ Reserved(q, k) /\ item' = Completed(q, k) /\ Ends(q)
       \/ ~Reserved(q, k) /\ UNCHANGED item /\ GoesTo(q, "release")
    /\ UNCHANGED <<batch, expired, bucket, ghosts, faults>>

\* The update fails, or it succeeds and the answer is lost.
FinalizeFails(q, k) ==
    /\ Awaits(q, "finalize", k)
    /\ Fault
    /\ \/ UNCHANGED item
       \/ Reserved(q, k) /\ item' = Completed(q, k)
    /\ GoesTo(q, "release")
    /\ UNCHANGED <<batch, expired, bucket, ghosts>>

\* Mutant: a rejected upload is answered and keeps its item.
RejectAndEnd(q, k) ==
    /\ Awaits(q, "reject", k)
    /\ Deleted(k)
    /\ unjudged' = unjudged \ {k}
    /\ Ends(q)
    /\ UNCHANGED <<batch, expired, item, stranded, swept, faults>>

\* safeDeleteObject, whose error is ignored, before the item is released.
Reject(q, k) ==
    /\ Awaits(q, "reject", k)
    /\ Deleted(k)
    /\ unjudged' = unjudged \ {k}
    /\ GoesTo(q, "release")
    /\ UNCHANGED <<batch, expired, item, stranded, swept, faults>>

RejectFails(q, k) ==
    /\ Awaits(q, "reject", k)
    /\ Fault
    /\ unjudged' = unjudged \cup {k}
    /\ GoesTo(q, "release")
    /\ UNCHANGED <<batch, expired, item, bucket, stranded, swept>>

\* releaseUploadSlot: the item is deleted if it is still processing.
ReleaseUploadSlot(q, k) ==
    /\ Awaits(q, "release", k)
    /\ item' = [item EXCEPT ![k] = IF Reserved(q, k) THEN NoItem ELSE @]
    /\ Ends(q)
    /\ UNCHANGED <<batch, expired, bucket, ghosts, faults>>

ReleaseFails(q, k) ==
    /\ Awaits(q, "release", k)
    /\ Fault
    /\ stranded' = stranded \cup {k}
    /\ Ends(q)
    /\ UNCHANGED <<batch, expired, item, bucket, swept, unjudged>>

-----------------------------------------------------------------------------
(* Time, the cleanup timer and the process                                 *)

Expire(b) ==
    /\ batch[b] # "none"
    /\ b \notin expired
    /\ expired' = expired \cup {b}
    /\ UNCHANGED <<batch, item, bucket, request, ghosts, faults>>

Stale == {b \in expired : batch[b] = "open"}

\* Mutant: the items outlive their batch.
CleanupKeepsItems ==
    /\ Stale # {}
    /\ batch' = [b \in Batches |-> IF b \in Stale THEN "deleted" ELSE batch[b]]
    /\ UNCHANGED <<expired, item, bucket, request, ghosts, faults>>

\* Mutant: batches with an upload under way are left for later.
CleanupIdleBatches ==
    LET idle == {b \in Stale : \A k \in ItemsOf(b) : item[k].status = "completed"}
    IN  /\ idle # {}
        /\ batch' = [b \in Batches |-> IF b \in idle THEN "deleted" ELSE batch[b]]
        /\ item' = [k \in Keys |-> IF BatchOf[k] \in idle THEN NoItem ELSE item[k]]
        /\ UNCHANGED <<expired, bucket, request, ghosts, faults>>

\* cleanupExpiredBatches: the items go with their batch (ON DELETE CASCADE).
CleanupExpiredBatches ==
    /\ Stale # {}
    /\ batch' = [b \in Batches |-> IF b \in Stale THEN "deleted" ELSE batch[b]]
    /\ item' = [k \in Keys |-> IF BatchOf[k] \in Stale THEN NoItem ELSE item[k]]
    /\ UNCHANGED <<expired, bucket, request, ghosts, faults>>

Crash ==
    /\ Fault
    /\ stranded' = stranded \cup {k \in Keys : item[k].status = "processing"}
    /\ unjudged' = unjudged \cup {k \in Keys : object[k] = "public"}
    /\ request' = [q \in Requests |-> Idle]
    /\ UNCHANGED <<batch, expired, item, bucket, swept>>

-----------------------------------------------------------------------------
Step(q, k) ==
    \/ DeleteRefused(q, k) \/ Head(q, k) \/ Validate(q, k) \/ SetAcl(q, k)
    \/ Moderate(q, k) \/ Finalize(q, k) \/ Reject(q, k) \/ ReleaseUploadSlot(q, k)

StepFails(q, k) ==
    \/ DeleteRefusedFails(q, k) \/ HeadFails(q, k) \/ ValidateFails(q, k)
    \/ SetAclFails(q, k) \/ ModerateFails(q, k) \/ FinalizeFails(q, k)
    \/ RejectFails(q, k) \/ ReleaseFails(q, k)

Next ==
    \/ \E b \in Batches : CreateStsCredential(b) \/ Expire(b)
    \/ \E k \in Keys : PutObject(k) \/ PutObjectAcl(k)
    \/ \E q \in Requests, k \in Keys :
         \/ \E b \in Batches : AnswerAtOnce(q, b, k) \/ RefuseUpload(q, b, k)
         \/ ReserveUploadSlot(q, k) \/ Step(q, k) \/ StepFails(q, k)
    \/ CleanupExpiredBatches
    \/ Crash

\* A call that was made is answered; batches expire; the timer fires.
Fairness ==
    /\ \A q \in Requests : WF_vars(\E k \in Keys : Step(q, k))
    /\ \A b \in Batches : WF_vars(Expire(b))
    /\ WF_vars(CleanupExpiredBatches)

Spec == Init /\ [][Next]_vars
FairSpec == Spec /\ Fairness

-----------------------------------------------------------------------------
(* Properties                                                              *)

\* "Upload batch supports at most allowedCount files": whatever requests
\* run together, fail or die, a batch never has more items than that.
WithinAllowance == \A b \in Batches : Cardinality(ItemsOf(b)) <= Allowed

\* An item that is processing has one request at work on it, or was left by
\* a crash or a failed release: no path of a request forgets it.
ProcessingHasWorker ==
    \A k \in Keys : item[k].status = "processing" =>
        \/ k \in stranded
        \/ request[item[k].by].at \in Working /\ request[item[k].by].key = k

\* The client has left the object as the service found it.
Untouched(k) == changed[k] = "nothing"

\* What a request that takes charge of an object has left behind when its item
\* is completed: a public object that is neither too large nor no image, and
\* that moderation accepted.  Only the client, who may change the object after
\* each of these steps, and a request that was refused (on any batch that has
\* expired, or while other files had the batch's slots) may have undone it.
CompletedIsBacked ==
    \A k \in Keys :
        item[k].status = "completed" /\ Untouched(k) /\ k \notin swept =>
            /\ object[k] = "public"
            /\ file[k] # "malformed"
            /\ file[k] = "unsuitable" => FailOpen

\* Request q is to have the object judged, or to delete it.
InHand(q, k) == \E at \in {"validate", "acl", "moderate", "reject"} : Awaits(q, at, k)

\* A public object that moderation would reject, and that the client has left
\* as the service found it, is about to be judged or deleted; it remains only
\* if the service or a deletion failed, or the process died.
UnsuitableIsRemoved ==
    \A k \in Keys :
        object[k] = "public" /\ file[k] = "unsuitable" /\ Untouched(k) =>
            k \in unjudged \/ \E q \in Requests : InHand(q, k)

\* A completed item goes only with its batch, though the answer to its
\* completion is lost and the request releases it.
CompletedIsFinal ==
    [][\A k \in Keys : item[k].status = "completed" =>
          item'[k] = item[k] \/ batch'[BatchOf[k]] = "deleted"]_vars

\* Every item that is processing is completed or gone in the end, also when
\* its request has died: the cleanup timer takes the batch.
ProcessingEnds ==
    \A k \in Keys : item[k].status = "processing" ~> item[k].status # "processing"

\* The batches' items implement UploadLedger.
SlotOf(row) == CASE row.status = "none" -> "free"
                 [] row.status = "processing" -> "taken"
                 [] row.status = "completed" -> "filled"
slotOfItem == [k \in Keys |-> SlotOf(item[k])]
openBatch == [b \in Batches |-> batch[b] # "deleted"]
Ledger == INSTANCE UploadLedger WITH slot <- slotOfItem, open <- openBatch
LedgerSpec == Ledger!Spec

\* A batch has at most its allowance of items, a completed one is backed by
\* its object, and an object moderation would reject does not stay.
ItemsAreBacked == WithinAllowance /\ CompletedIsBacked /\ UnsuitableIsRemoved

=============================================================================
