--------------------------- MODULE QueueLifecycle ---------------------------
(***************************************************************************)
(* The life of one SQS queue under the operator: internal/resources/sqs    *)
(* (sqs.go, cleanup.go, policy.go), called by the sqs section of a         *)
(* reconcile pass (internal/controller/section_sqs.go).                    *)
(*                                                                         *)
(* A pass reads the CR, ensures the queue if it is declared, then runs     *)
(* Cleanup over its ledger entry, then writes the ledger back; checkpoints *)
(* may write it earlier.  Every AWS call that changes the queue is a step  *)
(* of its own, so that users, producers, consumers, other operators, the   *)
(* clock, a failed call, a failed status write and a crash can come        *)
(* between any two.                                                        *)
(***************************************************************************)
EXTENDS Ledger, Ownership

CONSTANTS
    Declarations,   \* the forms the queue's spec entry takes
    ForeignTags,    \* the tags somebody else may put on the queue
    Arrivals,       \* the counters a message sent may first show up in
    PinsKey,        \* whether the entry pins a KMS key (kms.PinsAKey)
    DenyDelay,      \* ticks until a policy Deny stops every send
    CounterLag      \* ticks a message may be missing from the counters

ASSUME QueueAssumption ==
    /\ Declarations \subseteq [policy : DeletionPolicies, force : BOOLEAN, adopt : BOOLEAN,
                               from : {NoTag} \cup OtherUIDs]
    /\ ForeignTags \subseteq Tags \ {ownerTags}
    /\ Arrivals \subseteq {"Visible", "Delayed"}
    /\ PinsKey \in BOOLEAN
    /\ DenyDelay \in Nat /\ CounterLag \in Nat
    /\ DenyDelay + CounterLag <= DeletionQuietWindow

VARIABLES
    spec,       \* the queue's spec entry, or Undeclared
    cr,         \* "live", "deleting" (deletionTimestamp set) or "gone"
    forceAll,   \* the force-delete-all annotation
    store,      \* the queue's entry in the persisted ledger
    queue,      \* the queue in AWS
    pc,         \* where the running pass is; "idle" between passes
    view,       \* what the pass has read of the CR
    mem,        \* the pass's copy of the ledger entry
    err,        \* the first error of the pass
    calm,       \* no further fault, edit or outside change
    lifted,     \* history: this pass may have left the queue without a deny
    claimed,    \* history: this pass tagged the queue as the CR's
    forgotten,  \* history: such effects that the persisted ledger missed
    raced,      \* history: the queue changed hands since this pass read its tags
    moved       \* history: the spec this pass works from changed under it

vars == <<spec, cr, forceAll, store, queue, pc, view, mem, err, calm,
          lifted, claimed, forgotten, raced, moved>>

passVars    == <<view, mem, err, lifted, claimed>>
historyVars == <<forgotten, raced, moved>>
userVars    == <<spec, cr, forceAll, calm>>

-----------------------------------------------------------------------------
Undeclared == [declared |-> FALSE, policy |-> "Retain", force |-> FALSE,
               adopt |-> FALSE, from |-> NoTag]

Declared(d) == [declared |-> TRUE, policy |-> d.policy, force |-> d.force,
                adopt |-> d.adopt, from |-> d.from]

Specs == {Undeclared} \cup {Declared(d) : d \in Declarations}

\* The message counters of a queue that are not zero.
Counters == {"Visible", "NotVisible", "Delayed"}

\* deny is the age of the pending-deletion deny, sent that of the newest
\* message held, MaxAge when there is none.
Queues == [exists : BOOLEAN, tags : Tags, deny : Age \cup {Never},
           messages : SUBSET Counters, sent : Age]

NoQueue == [exists |-> FALSE, tags |-> NoTags, deny |-> Never,
            messages |-> {}, sent |-> MaxAge]

NewQueue(tags) == [NoQueue EXCEPT !.exists = TRUE, !.tags = tags]

IdleView == [spec |-> Undeclared, deleting |-> FALSE, forceAll |-> FALSE]

EnsureSteps  == {"ensure", "lookup", "create", "adopt", "record", "policy"}
CleanupSteps == {"cleanup", "restore", "release", "untag", "undeny",
                 "verify", "deny", "empty", "delete"}
Steps == {"idle", "persist"} \cup EnsureSteps \cup CleanupSteps

TypeOK ==
    /\ spec \in Specs
    /\ cr \in {"live", "deleting", "gone"}
    /\ forceAll \in BOOLEAN
    /\ store \in Entry
    /\ queue \in Queues
    /\ pc \in Steps
    /\ view \in [spec : Specs, deleting : BOOLEAN, forceAll : BOOLEAN]
    /\ mem \in Entry
    /\ err \in {"none", "failed", "refused"}
    /\ calm \in BOOLEAN /\ lifted \in BOOLEAN /\ claimed \in BOOLEAN
    /\ forgotten \subseteq {"lift", "claim"}
    /\ raced \in BOOLEAN /\ moved \in BOOLEAN

Init ==
    /\ spec \in Specs
    /\ cr = "live" /\ forceAll = FALSE
    /\ store = NoEntry
    /\ queue \in {NoQueue} \cup {NewQueue(t) : t \in ForeignTags}
    /\ pc = "idle" /\ view = IdleView /\ mem = NoEntry /\ err = "none"
    /\ calm = FALSE
    /\ lifted = FALSE /\ claimed = FALSE /\ forgotten = {} /\ raced = FALSE /\ moved = FALSE

-----------------------------------------------------------------------------
(* The pass.  GoTo moves on within it; FailTo also keeps the first error.  *)

GoTo(step) == pc' = step

FailTo(step, reason) ==
    /\ pc' = step
    /\ err' = IF err = "none" THEN reason ELSE err

\* Reconcile reads the CR: spec, annotations and ledger in one object.
Begin ==
    /\ pc = "idle" /\ cr # "gone"
    /\ view' = [spec |-> spec, deleting |-> cr = "deleting", forceAll |-> forceAll]
    /\ mem' = store
    /\ GoTo(IF cr = "live" /\ spec.declared THEN "ensure" ELSE "cleanup")
    /\ UNCHANGED <<userVars, store, queue, err, lifted, claimed, historyVars>>

\* Mutant: the trusted path keeps the captured policy and force.
EnsureTrustedStale ==
    /\ pc = "ensure" /\ ~NeedsRevalidation(mem)
    /\ GoTo(IF queue.exists THEN "cleanup" ELSE "lookup")
    /\ UNCHANGED <<userVars, store, queue, passVars, historyVars>>

\* ensureWithinTrust refreshes policy and force, then only asks whether the
\* queue is still there; any other entry takes the full path.
EnsureTrusted ==
    /\ pc = "ensure" /\ ~NeedsRevalidation(mem)
    /\ mem' = [mem EXCEPT !.policy = view.spec.policy, !.force = view.spec.force]
    /\ \/ GoTo(IF queue.exists THEN "cleanup" ELSE "lookup") /\ UNCHANGED err
       \/ ~calm /\ FailTo("cleanup", "failed")
    /\ UNCHANGED <<userVars, store, queue, view, lifted, claimed, historyVars>>

EnsureUntrusted ==
    /\ pc = "ensure" /\ NeedsRevalidation(mem)
    /\ GoTo("lookup")
    /\ UNCHANGED <<userVars, store, queue, passVars, historyVars>>

\* GetQueueUrl and ListQueueTags, and the ownership rules on what they show.
Lookup ==
    /\ pc = "lookup"
    /\ raced' = FALSE
    /\ \/ ~queue.exists /\ GoTo("create") /\ UNCHANGED err
       \/ queue.exists /\ IsOwnedBy(queue.tags) /\ GoTo("record") /\ UNCHANGED err
       \/ /\ queue.exists /\ ~IsOwnedBy(queue.tags)
          /\ IF CheckExistingOwnership(queue.tags, view.spec.adopt, view.spec.from)
             THEN GoTo("adopt") /\ UNCHANGED err
             ELSE FailTo("cleanup", "refused")
    /\ UNCHANGED <<userVars, store, queue, view, mem, lifted, claimed, forgotten, moved>>

\* CreateQueue tags atomically.  A queue somebody created meanwhile makes it
\* fail, and a lost reply leaves a queue the pass does not record.
createQueue ==
    /\ pc = "create"
    /\ IF queue.exists
       THEN FailTo("cleanup", "failed") /\ UNCHANGED <<queue, lifted, claimed>>
       ELSE /\ queue' = NewQueue(ownerTags)
            /\ lifted' = TRUE /\ claimed' = TRUE
            /\ \/ GoTo("record") /\ UNCHANGED err
               \/ ~calm /\ FailTo("cleanup", "failed")
    /\ UNCHANGED <<userVars, store, view, mem, historyVars>>

\* adoptQueue's TagQueue: it overwrites whatever owner tags are there now.
adoptQueue ==
    /\ pc = "adopt"
    /\ IF queue.exists
       THEN /\ queue' = [queue EXCEPT !.tags = ownerTags]
            /\ lifted' = TRUE /\ claimed' = TRUE
            /\ \/ GoTo("record") /\ UNCHANGED err
               \/ ~calm /\ FailTo("cleanup", "failed")
       ELSE FailTo("cleanup", "failed") /\ UNCHANGED <<queue, lifted, claimed>>
    /\ UNCHANGED <<userVars, store, view, mem, historyVars>>

\* reconcileAttributes, then recordVerified reads the ARN and rebuilds the entry.
recordVerified ==
    /\ pc = "record"
    /\ IF queue.exists
       THEN /\ mem' = VerifiedEntry(view.spec.policy, view.spec.force)
            /\ GoTo("policy") /\ UNCHANGED err
       ELSE FailTo("cleanup", "failed") /\ UNCHANGED mem
    /\ UNCHANGED <<userVars, store, queue, view, lifted, claimed, historyVars>>

\* Mutant: the policy is read and left as it is.
reconcileDeclaredPolicyKept ==
    /\ pc = "policy" /\ GoTo("cleanup")
    /\ UNCHANGED <<userVars, store, queue, passVars, historyVars>>

\* Only after recordVerified (VerifiedSince): the deny is removed.
reconcileDeclaredPolicy ==
    /\ pc = "policy"
    /\ IF queue.exists
       THEN /\ queue' = [queue EXCEPT !.deny = Never]
            /\ lifted' = TRUE
            /\ \/ GoTo("cleanup") /\ UNCHANGED err
               \/ ~calm /\ FailTo("cleanup", "failed")
       ELSE FailTo("cleanup", "failed") /\ UNCHANGED <<queue, lifted>>
    /\ UNCHANGED <<userVars, store, view, mem, claimed, historyVars>>

-----------------------------------------------------------------------------
(* Cleanup, over the entry as Ensure left it.                              *)

StillDeclared == view.spec.declared /\ ~view.deleting

Forced == mem.force \/ view.forceAll

\* Mutant: a queue once found in use is never looked at again.
WaitingOnceChecked ==
    /\ ~Forced /\ mem.pending # Never
    /\ mem.pending < DeletionQuietWindow \/ mem.checked # Never

\* A pending queue inside its quiet window or its backoff is left alone.
Waiting ==
    /\ ~Forced /\ mem.pending # Never
    /\ mem.pending < DeletionQuietWindow \/ ~NeedsEmptyCheck(mem)

\* The switch at the head of Cleanup's loop, and retain's early returns.
Cleanup ==
    /\ pc = "cleanup"
    /\ \/ mem.state = "None" /\ GoTo("persist") /\ UNCHANGED mem
       \/ /\ mem.state # "None" /\ StillDeclared
          /\ GoTo(IF mem.pending = Never THEN "persist" ELSE "restore") /\ UNCHANGED mem
       \/ /\ mem.state = "Relinquished" /\ ~StillDeclared /\ mem.policy = "Retain"
          /\ \/ ~PinsKey /\ GoTo("persist") /\ mem' = NoEntry
             \/ PinsKey /\ ~NeedsRelinquishedRecheck(mem) /\ GoTo("persist") /\ UNCHANGED mem
             \/ PinsKey /\ NeedsRelinquishedRecheck(mem) /\ GoTo("release") /\ UNCHANGED mem
       \/ /\ mem.state = "Verified" /\ ~StillDeclared /\ mem.policy = "Retain"
          /\ GoTo("release") /\ UNCHANGED mem
       \/ /\ mem.state # "None" /\ ~StillDeclared /\ mem.policy = "Delete"
          /\ GoTo(IF Waiting THEN "persist" ELSE "verify") /\ UNCHANGED mem
    /\ UNCHANGED <<userVars, store, queue, view, err, lifted, claimed, historyVars>>

\* restoreDeclared: lift the deny, no tag read, and cancel the deletion.
restoreDeclared ==
    /\ pc = "restore"
    /\ queue' = [queue EXCEPT !.deny = Never]
    /\ lifted' = TRUE
    /\ \/ /\ mem' = [mem EXCEPT !.pending = Never, !.checked = Never]
          /\ GoTo("persist") /\ UNCHANGED err
       \/ ~calm /\ FailTo("persist", "failed") /\ UNCHANGED mem
    /\ UNCHANGED <<userVars, store, view, claimed, historyVars>>

\* What retain keeps of the entry of a queue that was let go.
LetGo == IF PinsKey THEN Relinquished(mem) ELSE NoEntry

\* relinquishIfStillTagged: the reads.
releaseLookup ==
    /\ pc = "release"
    /\ raced' = FALSE
    /\ \/ ~queue.exists /\ GoTo("persist") /\ mem' = NoEntry
       \/ queue.exists /\ ~IsOwnedBy(queue.tags) /\ GoTo("persist") /\ mem' = LetGo
       \/ queue.exists /\ IsOwnedBy(queue.tags) /\ GoTo("untag") /\ UNCHANGED mem
    /\ UNCHANGED <<userVars, store, queue, view, err, lifted, claimed, forgotten, moved>>

\* ... the owner tags go first ...
releaseUntag ==
    /\ pc = "untag"
    /\ queue' = IF queue.exists THEN [queue EXCEPT !.tags = NoTags] ELSE queue
    /\ \/ queue.exists /\ GoTo("undeny") /\ UNCHANGED err
       \/ ~(calm /\ queue.exists) /\ FailTo("persist", "failed")
    /\ UNCHANGED <<userVars, store, view, mem, lifted, claimed, historyVars>>

\* ... and the leftover deny after them.
releaseUndeny ==
    /\ pc = "undeny"
    /\ queue' = [queue EXCEPT !.deny = Never]
    /\ lifted' = TRUE
    /\ \/ queue.exists /\ GoTo("persist") /\ mem' = LetGo /\ UNCHANGED err
       \/ ~(calm /\ queue.exists) /\ FailTo("persist", "failed") /\ UNCHANGED mem
    /\ UNCHANGED <<userVars, store, view, claimed, historyVars>>

\* Mutant: inside the trust window the ledger stands in for the tags.
verifyOwnedTrusting ==
    /\ pc = "verify" /\ raced' = FALSE
    /\ \/ ~queue.exists /\ GoTo("persist") /\ mem' = NoEntry /\ UNCHANGED err
       \/ /\ queue.exists /\ NeedsRevalidation(mem) /\ ~IsOwnedBy(queue.tags)
          /\ FailTo("persist", "refused") /\ UNCHANGED mem
       \/ /\ queue.exists /\ (NeedsRevalidation(mem) => IsOwnedBy(queue.tags))
          /\ GoTo(IF Forced THEN "delete"
                  ELSE IF mem.pending = Never THEN "deny" ELSE "empty")
          /\ UNCHANGED <<mem, err>>
    /\ UNCHANGED <<userVars, store, queue, view, lifted, claimed, forgotten, moved>>

\* deleteUndeclared: ownership is read afresh before anything is changed.
verifyOwned ==
    /\ pc = "verify"
    /\ raced' = FALSE
    /\ \/ ~queue.exists /\ GoTo("persist") /\ mem' = NoEntry /\ UNCHANGED err
       \/ queue.exists /\ ~IsOwnedBy(queue.tags) /\ FailTo("persist", "refused") /\ UNCHANGED mem
       \/ /\ queue.exists /\ IsOwnedBy(queue.tags)
          /\ GoTo(IF Forced THEN "delete"
                  ELSE IF mem.pending = Never THEN "deny" ELSE "empty")
          /\ UNCHANGED <<mem, err>>
    /\ UNCHANGED <<userVars, store, queue, view, lifted, claimed, forgotten, moved>>

\* Mutant: the entry is marked pending before the deny is written.
addPendingDeletionDenyLate ==
    /\ pc = "deny" /\ GoTo("persist") /\ mem' = [mem EXCEPT !.pending = 0]
    /\ UNCHANGED <<userVars, store, queue, view, err, lifted, claimed, historyVars>>

\* gateOnEmpty, first sight: deny sends, then mark the entry pending.
addPendingDeletionDeny ==
    /\ pc = "deny"
    /\ IF queue.exists
       THEN /\ queue' = [queue EXCEPT !.deny = IF @ = Never THEN 0 ELSE @]
            /\ \/ GoTo("persist") /\ mem' = [mem EXCEPT !.pending = 0] /\ UNCHANGED err
               \/ ~calm /\ FailTo("persist", "failed") /\ UNCHANGED mem
       ELSE FailTo("persist", "failed") /\ UNCHANGED <<queue, mem>>
    /\ UNCHANGED <<userVars, store, view, lifted, claimed, historyVars>>

\* The counters AWS may answer with: one message or more, sent within the
\* last CounterLag ticks, may not be counted yet.
ReadableCounters ==
    {queue.messages} \cup (IF queue.sent < CounterLag THEN {{}} ELSE {})

\* Mutant: messages in flight or delayed are overlooked.
queueIsEmptyVisible(counters) == "Visible" \notin counters

queueIsEmpty(counters) == counters = {}

\* gateOnEmpty, later: only an empty queue goes on to be deleted.
gateOnEmpty ==
    /\ pc = "empty"
    /\ IF queue.exists
       THEN /\ UNCHANGED err
            /\ \E counters \in ReadableCounters :
                 IF queueIsEmpty(counters)
                 THEN GoTo("delete") /\ UNCHANGED mem
                 ELSE GoTo("persist") /\ mem' = [mem EXCEPT !.checked = 0]
       ELSE FailTo("persist", "failed") /\ UNCHANGED mem
    /\ UNCHANGED <<userVars, store, queue, view, lifted, claimed, historyVars>>

deleteQueue ==
    /\ pc = "delete"
    /\ queue' = NoQueue
    /\ \/ queue.exists /\ GoTo("persist") /\ mem' = NoEntry /\ UNCHANGED err
       \/ ~(calm /\ queue.exists) /\ FailTo("persist", "failed") /\ UNCHANGED mem
    /\ UNCHANGED <<userVars, store, view, lifted, claimed, historyVars>>

-----------------------------------------------------------------------------
(* The end of a pass.                                                      *)

\* Which effects the ledger now persisted does not know about.
Forgotten(entry) ==
    {f \in forgotten \cup (IF lifted THEN {"lift"} ELSE {})
                     \cup (IF claimed THEN {"claim"} ELSE {}) :
        IF f = "lift" THEN entry.pending # Never ELSE entry.state # "Verified"}

EndPass(entry) ==
    /\ store' = entry
    /\ forgotten' = Forgotten(entry)
    /\ pc' = "idle" /\ view' = IdleView /\ mem' = NoEntry /\ err' = "none"
    /\ lifted' = FALSE /\ claimed' = FALSE /\ raced' = FALSE /\ moved' = FALSE

\* A checkpoint writes the ledger as it stands: a sibling's createKey during
\* Ensure, or the end of a section.  The reply replaces the CR the pass works
\* from, so Cleanup may see another spec than Ensure did.
Checkpoint ==
    /\ pc \in {"cleanup", "persist"} /\ ~view.deleting
    /\ store' = mem
    /\ forgotten' = Forgotten(mem) /\ lifted' = FALSE /\ claimed' = FALSE
    /\ \/ pc = "cleanup" /\ view' = [view EXCEPT !.spec = spec] /\ moved' = (moved \/ spec # view.spec)
       \/ UNCHANGED <<view, moved>>
    /\ UNCHANGED <<userVars, queue, pc, mem, err, raced>>

\* Mutant: an error does not hold the finalizer.
FinalizedDespiteError == view.deleting /\ (mem.state = "None" \/ mem.policy = "Retain")

\* finalize reports done when no entry is left waiting to drain.
Finalized == view.deleting /\ err = "none" /\ (mem.state = "None" \/ mem.policy = "Retain")

\* The status write, then, once everything is gone, the finalizer: a failed
\* write does not hold the finalizer back.
Persist ==
    /\ pc = "persist"
    /\ \/ EndPass(mem)
       \/ ~calm /\ EndPass(store)
    /\ \/ Finalized /\ cr' = "gone"
       \/ ~(Finalized /\ calm) /\ UNCHANGED cr     \* removeFinalizer may fail
    /\ UNCHANGED <<spec, forceAll, calm, queue>>

\* An AWS call, or a sibling's error before it, stops the stage it is in.
CallFails ==
    /\ ~calm
    /\ \/ pc \in EnsureSteps /\ FailTo("cleanup", "failed")
       \/ pc \in CleanupSteps \ {"cleanup"} /\ FailTo("persist", "failed")
    /\ UNCHANGED <<userVars, store, queue, view, mem, lifted, claimed, historyVars>>

Crash ==
    /\ ~calm /\ pc # "idle"
    /\ EndPass(store)
    /\ UNCHANGED <<userVars, queue>>

-----------------------------------------------------------------------------
(* Everybody else.                                                         *)

EditSpec ==
    /\ ~calm /\ cr = "live"
    /\ spec' \in Specs \ {spec}
    /\ UNCHANGED <<cr, forceAll, calm, store, queue, pc, passVars, historyVars>>

DeleteCR ==
    /\ ~calm /\ cr = "live"
    /\ cr' = "deleting"
    /\ UNCHANGED <<spec, forceAll, calm, store, queue, pc, passVars, historyVars>>

AnnotateForceDeleteAll ==
    /\ ~calm /\ cr = "deleting" /\ ~forceAll
    /\ forceAll' = TRUE
    /\ UNCHANGED <<spec, cr, calm, store, queue, pc, passVars, historyVars>>

\* A producer, refused once the deny has taken effect everywhere.
Send ==
    /\ queue.exists /\ (queue.deny = Never \/ queue.deny < DenyDelay)
    /\ \E c \in Arrivals :
         queue' = [queue EXCEPT !.messages = @ \cup {c}, !.sent = 0]
    /\ UNCHANGED <<userVars, store, pc, passVars, historyVars>>

\* Messages become visible, are received, or return after their timeout;
\* others like them may remain where they were.
Move ==
    /\ \E m \in {<<"Delayed", "Visible">>, <<"Visible", "NotVisible">>, <<"NotVisible", "Visible">>} :
         /\ m[1] \in queue.messages
         /\ \E left \in {{}, {m[1]}} :
              queue' = [queue EXCEPT !.messages = (@ \ {m[1]}) \cup left \cup {m[2]}]
    /\ UNCHANGED <<userVars, store, pc, passVars, historyVars>>

\* Consumers delete every message they hold, or all there are.
Acknowledge ==
    /\ "NotVisible" \in queue.messages /\ queue.messages # {"NotVisible"}
    /\ queue' = [queue EXCEPT !.messages = @ \ {"NotVisible"}]
    /\ UNCHANGED <<userVars, store, pc, passVars, historyVars>>

Drain ==
    /\ queue.messages # {}
    /\ queue' = [queue EXCEPT !.messages = {}, !.sent = MaxAge]
    /\ UNCHANGED <<userVars, store, pc, passVars, historyVars>>

\* Somebody deletes the queue, creates one under its name, or changes its tags.
OutsideDelete ==
    /\ ~calm /\ queue.exists
    /\ queue' = NoQueue
    /\ UNCHANGED <<userVars, store, pc, passVars, historyVars>>

OutsideCreate ==
    /\ ~calm /\ ~queue.exists
    /\ \E t \in ForeignTags : queue' = NewQueue(t)
    /\ raced' = (pc # "idle")
    /\ UNCHANGED <<userVars, store, pc, passVars, forgotten, moved>>

OutsideRetag ==
    /\ ~calm /\ queue.exists
    /\ \E t \in ForeignTags : queue' = [queue EXCEPT !.tags = t]
    /\ raced' = (pc # "idle")
    /\ UNCHANGED <<userVars, store, pc, passVars, forgotten, moved>>

Calm ==
    /\ ~calm /\ calm' = TRUE
    /\ UNCHANGED <<spec, cr, forceAll, store, queue, pc, passVars, historyVars>>

Tick ==
    /\ store' = OlderEntry(store) /\ mem' = OlderEntry(mem)
    /\ queue' = [queue EXCEPT !.deny = Older(@), !.sent = Older(@)]
    /\ UNCHANGED <<userVars, pc, view, err, lifted, claimed, historyVars>>

-----------------------------------------------------------------------------
Ensure == \/ EnsureTrusted \/ EnsureUntrusted \/ Lookup \/ createQueue
          \/ adoptQueue \/ recordVerified \/ reconcileDeclaredPolicy

CleanupEntry == \/ Cleanup \/ restoreDeclared
                \/ releaseLookup \/ releaseUntag \/ releaseUndeny
                \/ verifyOwned \/ addPendingDeletionDeny \/ gateOnEmpty \/ deleteQueue

Pass == Begin \/ Ensure \/ CleanupEntry \/ Persist

Faults == CallFails \/ Crash

Users == EditSpec \/ DeleteCR \/ AnnotateForceDeleteAll

Messages == Send \/ Move \/ Acknowledge \/ Drain

Outside == OutsideDelete \/ OutsideCreate \/ OutsideRetag

Next == Pass \/ Checkpoint \/ Faults \/ Users \/ Messages \/ Outside \/ Tick

Spec == Init /\ [][Next]_vars

\* The workqueue runs passes and each goes on to its end, time passes, and
\* the consumers of a queue drain it.
FairSpec == Init /\ [][Next \/ Calm]_vars /\ WF_vars(Pass) /\ WF_vars(Tick) /\ WF_vars(Drain)

-----------------------------------------------------------------------------
(* Safety.                                                                 *)

\* A queue about to be deleted without force holds no message, whatever the
\* lag of its counters: deleteUndeclared's quiet window and gateOnEmpty.  The
\* exceptions are a queue that changed hands after its tags were read, and a
\* lift of the deny the ledger never learnt of.
DeletesOnlyDrained ==
    pc = "delete" /\ queue.exists /\ ~Forced /\ ~raced /\ "lift" \notin forgotten
        => queue.messages = {}

\* From the tag read to the last change of a cleanup (untag, deny, delete)
\* the queue is this CR's, unless it changed hands in between: the trust
\* window never stands in for verifyOwned or relinquishIfStillTagged.
ChangesOnlyOwned ==
    pc \in {"untag", "deny", "empty", "delete"} /\ queue.exists /\ ~raced
        => IsOwnedBy(queue.tags)

\* A queue the persisted ledger calls pending carries the send-blocking deny
\* (addPendingDeletionDeny before markPendingDeletion), unless a lift of it
\* went unrecorded.
PendingMeansDenied ==
    /\ pc = "idle" /\ store.state = "Verified" /\ store.pending # Never
    /\ queue.exists /\ IsOwnedBy(queue.tags)
    => queue.deny # Never \/ "lift" \in forgotten

\* A pass over a declared queue that ends without an error leaves an entry
\* that is verified, carries the policy and force it read, and is not pending,
\* unless a checkpoint changed the spec it works from half way.
CleanPassSettles ==
    pc = "persist" /\ StillDeclared /\ err = "none" /\ ~moved
        => mem = [VerifiedEntry(view.spec.policy, view.spec.force) EXCEPT !.verified = mem.verified]

\* Once the finalizer is gone no queue is left tagged as the CR's, except one
\* whose creation or adoption the ledger never recorded.
FinalizerHoldsQueue ==
    cr = "gone" /\ queue.exists /\ IsOwnedBy(queue.tags) => "claim" \in forgotten

-----------------------------------------------------------------------------
(* Liveness, once faults and edits stop.                                   *)

Obtainable ==
    queue.exists /\ ~IsOwnedBy(queue.tags)
        => CheckExistingOwnership(queue.tags, spec.adopt, spec.from)

\* A declared queue that may be had ends up existing, owned and open to
\* sends: whatever deny an interrupted pass left is lifted, at the latest by
\* reconcileDeclaredPolicy once the trust window has lapsed.
DeclaredQueueOpens ==
    [](calm /\ pc = "idle" /\ cr = "live" /\ spec.declared /\ Obtainable
       => <>[](queue.exists /\ IsOwnedBy(queue.tags) /\ queue.deny = Never))

\* Deletion of the CR completes once its queue drains: the finalizer is not
\* held by the quiet window or by the backoff of the emptiness checks.
DeletionCompletes ==
    [](/\ calm /\ cr = "deleting" /\ pc = "idle" /\ "lift" \notin forgotten
       /\ ~queue.exists \/ IsOwnedBy(queue.tags)
       => <>(cr = "gone"))

-----------------------------------------------------------------------------
(* What the repository says and the code does not always do.               *)

\* docs/architecture.md:67: a queue waiting for deletion is "marked
\* PendingDeletion and denied new writes".
PendingQueueIsDenied ==
    /\ pc = "persist" /\ err = "none" /\ ~StillDeclared /\ ~raced
    /\ mem.state = "Verified" /\ mem.pending # Never
    /\ queue.exists /\ IsOwnedBy(queue.tags)
    => queue.deny # Never
=============================================================================
