-------------------------- MODULE BucketLifecycle --------------------------
(***************************************************************************)
(* The life of one S3 bucket: internal/resources/s3.  A bucket must be     *)
(* emptied before it can be deleted, object versions and unfinished        *)
(* multipart uploads alike, and its deletion is held by the former only.   *)
(* The setting followed is versioning.                                     *)
(***************************************************************************)
EXTENDS GatedPass

BucketEnsureSteps  == {"ensure", "head", "create", "tags", "adopt", "attributes", "policy"}
BucketCleanupSteps == {"restore", "release", "untag", "verify", "deny", "empty", "purge", "delete"}

BucketTypeOK == PassTypeOK({"objects", "uploads"}) /\ pc \in {"idle", "cleanup", "persist"} \cup BucketEnsureSteps \cup BucketCleanupSteps

BucketInit == PassInit

s3_Ensure == KeyNotReady

\* Versioning follows an explicit ask; a spec that is silent leaves it alone.
reconcileVersioning(current) == IF view.spec.ask = "unset" THEN current ELSE view.spec.ask

\* ensureWithinTrust: policy and force are refreshed and the attributes
\* reconciled, which is how a bucket that is gone shows.
s3_ensureWithinTrust ==
    /\ pc = "ensure"
    /\ IF NeedsRevalidation(mem)
       THEN GoTo("head") /\ UNCHANGED <<mem, resource>>
       ELSE /\ mem' = [mem EXCEPT !.policy = view.spec.policy, !.force = view.spec.force]
            /\ IF resource.exists
               THEN \/ /\ resource' = [resource EXCEPT !.setting = reconcileVersioning(@)]
                       /\ Done("cleanup", "cleanup")
                    \/ ~calm /\ FailTo("cleanup") /\ UNCHANGED resource
               ELSE GoTo("head") /\ UNCHANGED resource
    /\ UNCHANGED <<userVars, store, view, forgotten, raced>>

\* createBucketIfMissing: HeadBucket ...
headBucket ==
    /\ pc = "head"
    /\ GoTo(IF resource.exists THEN "tags" ELSE "create")
    /\ UNCHANGED <<userVars, store, resource, view, mem, forgotten, raced>>

\* ... and CreateBucket, which tags atomically and fails on a bucket that exists.
createBucketIfMissing ==
    /\ pc = "create"
    /\ IF resource.exists
       THEN FailTo("cleanup") /\ UNCHANGED <<resource, forgotten>>
       ELSE /\ resource' = NewResource(ownerTags, "off", "Active")
            /\ forgotten' = forgotten \cup {"lift", "claim"} /\ Done("tags", "cleanup")
    /\ UNCHANGED <<userVars, store, view, mem, raced>>

readBucketTags == pc = "tags" /\ JudgeTags("attributes")

adoptBucket == pc = "adopt" /\ TagAsOwned("attributes")

reconcileBucketAttributes ==
    /\ pc = "attributes"
    /\ IF resource.exists
       THEN /\ resource' = [resource EXCEPT !.setting = reconcileVersioning(@)]
            /\ Done("policy", "cleanup")
       ELSE FailTo("cleanup") /\ UNCHANGED resource
    /\ UNCHANGED <<userVars, store, view, mem, forgotten, raced>>

\* syncDeclaredPolicy drops the deny before, and not after, the entry is
\* recorded as verified; nothing in between can fail.
reconcileTransportSecurity ==
    /\ pc = "policy"
    /\ IF resource.exists
       THEN /\ resource' = [resource EXCEPT !.deny = Never]
            /\ forgotten' = forgotten \cup {"lift"}
            /\ \/ GoTo("cleanup") /\ mem' = VerifiedEntry(view.spec.policy, view.spec.force)
               \/ ~calm /\ FailTo("cleanup") /\ UNCHANGED mem
       ELSE FailTo("cleanup") /\ UNCHANGED <<resource, mem, forgotten>>
    /\ UNCHANGED <<userVars, store, view, raced>>

s3_Cleanup == CleanupSwitch("release")

s3_restoreDeclared == pc = "restore" /\ LiftDeny([mem EXCEPT !.pending = Never, !.checked = Never], TRUE)

s3_retain == RetainLookup

\* relinquishIfStillTagged rewrites the tag set; the deny is not looked at.
s3_relinquishIfStillTagged ==
    /\ pc = "untag"
    /\ IF resource.exists
       THEN /\ resource' = [resource EXCEPT !.tags = NoTags]
            /\ \/ GoTo("persist") /\ mem' = LetGo
               \/ ~calm /\ FailTo("persist") /\ UNCHANGED mem
       ELSE FailTo("persist") /\ UNCHANGED <<resource, mem>>
    /\ UNCHANGED <<userVars, store, view, forgotten, raced>>

s3_verifyOwned == VerifyThen("purge")

s3_addPendingDeletionDeny == DenyThenMark

\* Any object version or delete marker counts; an upload in progress does not.
bucketIsEmpty == "objects" \notin resource.data

s3_gateOnEmpty == GateOn(bucketIsEmpty, "purge")

\* deleteAllObjectVersions, then abortMultipartUploads: either may stop half
\* way, leaving the rest for the next pass.
deleteAllObjectVersions ==
    /\ pc = "purge"
    /\ \/ resource' = [resource EXCEPT !.data = {}] /\ GoTo("delete")
       \/ /\ ~calm /\ FailTo("persist")
          /\ resource' = [resource EXCEPT !.data = @ \ {"objects"}]
    /\ UNCHANGED <<userVars, store, view, mem, forgotten, raced>>

\* DeleteBucket refuses a bucket that was written to since.
deleteBucket ==
    /\ pc = "delete"
    /\ IF resource.data = {}
       THEN /\ resource' = NoResource
            /\ \/ GoTo("persist") /\ mem' = NoEntry
               \/ ~calm /\ FailTo("persist") /\ UNCHANGED mem
       ELSE FailTo("persist") /\ UNCHANGED <<resource, mem>>
    /\ UNCHANGED <<userVars, store, view, forgotten, raced>>

\* Writers put objects, start uploads and complete them, all of which the deny
\* blocks once it has taken effect; deleting is never blocked.
PutObject ==
    /\ Writable
    /\ \E d \in {"objects", "uploads"} : Outside([resource EXCEPT !.data = @ \cup {d}])
    /\ UNCHANGED raced

CompleteUpload ==
    /\ Writable /\ "uploads" \in resource.data
    /\ Outside([resource EXCEPT !.data = {"objects"}]) /\ UNCHANGED raced

DeleteObjects ==
    /\ resource.data # {}
    /\ \E d \in resource.data : Outside([resource EXCEPT !.data = @ \ {d}])
    /\ UNCHANGED raced

BucketPass ==
    \/ Begin \/ s3_ensureWithinTrust \/ headBucket \/ createBucketIfMissing \/ readBucketTags
    \/ adoptBucket \/ reconcileBucketAttributes \/ reconcileTransportSecurity
    \/ s3_Cleanup \/ s3_restoreDeclared \/ s3_retain \/ s3_relinquishIfStillTagged
    \/ s3_verifyOwned \/ s3_addPendingDeletionDeny \/ s3_gateOnEmpty
    \/ deleteAllObjectVersions \/ deleteBucket \/ Persist

BucketNext ==
    \/ BucketPass \/ Others \/ s3_Ensure \/ CallFails(BucketEnsureSteps, BucketCleanupSteps)
    \/ OutsideDelete \/ PutObject \/ CompleteUpload \/ DeleteObjects
=============================================================================
