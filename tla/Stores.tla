------------------------------- MODULE Stores -------------------------------
(***************************************************************************)
(* Topics, buckets and tables side by side: one resource of any of the     *)
(* three kinds under one CR, so that what they promise in common is stated *)
(* once.  SafeDeletion is that promise.                                    *)
(***************************************************************************)
EXTENDS TopicLifecycle, BucketLifecycle, TableLifecycle

CONSTANT Kinds   \* the kinds of resource considered

ASSUME KindsAssumption == Kinds \subseteq {"topic", "bucket", "table"}

VARIABLE kind    \* "topic", "bucket" or "table"

storeVars == <<vars, kind, missing>>

TypeOK == CASE kind = "topic" -> TopicTypeOK [] kind = "bucket" -> BucketTypeOK [] kind = "table" -> TableTypeOK

Init ==
    /\ kind \in Kinds
    /\ TopicInit /\ BucketInit /\ TableInit

\* A step of each kind, with what it leaves of the variables of the others.
Topic(A)  == kind = "topic" /\ A /\ UNCHANGED <<kind, missing>>
Bucket(A) == kind = "bucket" /\ A /\ UNCHANGED <<kind, missing>>
Table(A)  == kind = "table" /\ A /\ RecordLoss /\ UNCHANGED kind

Next == Topic(TopicNext) \/ Bucket(BucketNext) \/ Table(TableNext)

Spec == Init /\ [][Next]_storeVars

\* Passes run and end, time passes, DynamoDB finishes what it does, and
\* whoever uses a resource stops doing so.
Pass  == Topic(TopicPass) \/ Bucket(BucketPass) \/ Table(TablePass)
Clock == Topic(Tick) \/ Bucket(Tick) \/ Table(Tick)
Drain == Topic(Unsubscribe) \/ Bucket(DeleteObjects) \/ Table(DeleteItems)

FairNext == Next \/ (Calm /\ UNCHANGED <<kind, missing>>)

FairSpec == /\ Init /\ [][FairNext]_storeVars
            /\ WF_storeVars(Pass) /\ WF_storeVars(Clock)
            /\ WF_storeVars(Drain) /\ WF_storeVars(Table(TableSettles))

-----------------------------------------------------------------------------
Mine == resource.exists /\ IsOwnedBy(resource.tags) /\ resource.status # "Deleting"

\* What holds the deletion of a resource: an upload in progress does not.
Held == resource.data \ {"uploads"} # {}

Destroying == pc \in {"purge", "unprotect", "delete"}

SD == INSTANCE SafeDeletion WITH
        Window  <- DeletionQuietWindow, Delay <- DenyDelay, Lag <- ListLag,
        mine    <- Mine,
        closed  <- IF Mine THEN resource.deny ELSE Never,
        notice  <- store.pending,
        full    <- Mine /\ Held,
        filled  <- IF Mine /\ Held THEN resource.shown ELSE ListLag,
        doomed  <- IF ~(Destroying /\ Mine) THEN "no" ELSE IF Forced THEN "forced" ELSE "drained",
        excused <- "lift" \in forgotten

\* Every kind keeps the promise of SafeDeletion: each step of its Ensure,
\* Cleanup, status write, crash and environment is a step of it or changes
\* nothing it sees.  So a topic with subscriptions, a bucket with object
\* versions and a table with items are not destroyed for being empty
\* (gateOnSubscriptions, gateOnEmpty), although the list of subscriptions may
\* miss one for a while: the quiet window outlasts the deny's delay and that lag.
DeletesSafely == SD!Spec /\ []SD!DoomedIsEmpty

\* From the tag read to the last change of a cleanup the resource is this
\* CR's, unless it changed hands in between (verifyOwned, retain).
ChangesOnlyOwned ==
    (Destroying \/ pc \in {"untag", "deny", "empty"}) /\ resource.exists /\ ~raced
        => IsOwnedBy(resource.tags)

\* Once the finalizer is gone nothing is left tagged as the CR's, except a
\* table DynamoDB is still deleting and a resource whose creation or adoption
\* the ledger never recorded.
FinalizerHoldsResource == cr = "gone" /\ Mine => "claim" \in forgotten

\* A table somebody deleted is not replaced by an empty one as long as it
\* stays declared: ensureTable reports TableMissing (dynamodb.go:203-212).
LostTableIsNotReplaced == missing => ~resource.exists

-----------------------------------------------------------------------------
\* Deletion of the CR completes once its resource is no longer used: neither
\* the quiet window, nor a bucket's purge, nor a table's protection and the
\* time it spends UPDATING, holds the finalizer for ever.  A
\* resource whose deny was lifted unrecorded gets no other, nor does a bucket
\* that goes by force: whoever keeps using those can hold their deletion.
DeletionCompletes ==
    [](/\ calm /\ cr = "deleting" /\ pc = "idle"
       /\ ~resource.exists \/ IsOwnedBy(resource.tags)
       /\ "lift" \notin forgotten /\ ~(kind = "bucket" /\ (forceAll \/ store.force))
       => <>(cr = "gone"))
=============================================================================
