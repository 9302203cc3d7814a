----------------------------- MODULE GatedPass -----------------------------
(***************************************************************************)
(* What a reconcile pass over one SNS topic, S3 bucket or DynamoDB table   *)
(* shares: the three sections (section_sns.go, section_s3.go,              *)
(* section_dynamodb.go) call Ensure, then Cleanup over the entry Ensure    *)
(* left, then the pass writes its ledger back.  Each resource's own calls  *)
(* are in the module that EXTENDS this one, a function that several of the *)
(* packages define under its package's name too: sns_Cleanup, s3_Cleanup.  *)
(***************************************************************************)
EXTENDS Ledger, Ownership, FiniteSets

CONSTANTS
    Declarations,   \* the forms the spec entry takes
    ForeignTags,    \* the tags of a resource somebody else creates
    PinsKey,        \* whether the entry pins a KMS key (kms.PinsAKey)
    DenyDelay,      \* ticks until a policy Deny stops every write
    ListLag         \* ticks a subscription may be missing from the list of them

ASSUME GateAssumption ==
    /\ ForeignTags \subseteq Tags \ {ownerTags}
    /\ PinsKey \in BOOLEAN
    /\ DenyDelay \in Nat /\ ListLag \in Nat /\ DenyDelay + ListLag <= DeletionQuietWindow
    /\ \A d \in Declarations :
         d.policy \in DeletionPolicies /\ d.force \in BOOLEAN /\ d.ask \in {"unset", "on", "off"}

VARIABLES
    spec,       \* the resource's spec entry, or Undeclared
    cr,         \* "live", "deleting" (deletionTimestamp set) or "gone"
    forceAll,   \* the force-delete-all annotation
    store,      \* the resource's entry in the persisted ledger
    resource,   \* the resource in AWS
    pc,         \* where the running pass is; "idle" between passes
    view,       \* what the pass has read of the CR
    mem,        \* the pass's copy of the ledger entry
    err,        \* whether the section has met an error
    calm,       \* no further fault, edit or outside change
    forgotten,  \* history: a deny lifted or a resource tagged as the CR's, that the
                \* persisted ledger does not know of
    raced       \* history: the resource changed hands since its tags were read

passVars == <<view, mem, err>>
userVars == <<spec, cr, forceAll, calm>>
vars     == <<userVars, store, resource, pc, passVars, forgotten, raced>>

-----------------------------------------------------------------------------
Undeclared == [declared |-> FALSE, policy |-> "Retain", force |-> FALSE,
               adopt |-> FALSE, from |-> NoTag, ask |-> "unset"]

\* ask is what the entry says of the one setting each module follows.
Declared(d) == [declared |-> TRUE, policy |-> d.policy, force |-> d.force,
                adopt |-> d.adopt, from |-> d.from, ask |-> d.ask]

Specs == {Undeclared} \cup {Declared(d) : d \in Declarations}

\* data is what is kept in the resource, and shown how long the newest of it
\* has had to show in a list; setting is versioning for a bucket and deletion
\* protection for a table.
NoResource == [exists |-> FALSE, tags |-> NoTags, deny |-> Never, data |-> {}, shown |-> ListLag,
               setting |-> "off", status |-> "Active"]

NewResource(tags, setting, status) ==
    [exists |-> TRUE, tags |-> tags, deny |-> Never, data |-> {}, shown |-> ListLag,
     setting |-> setting, status |-> status]

Resource(kinds) ==
    [exists : BOOLEAN, tags : Tags, deny : Age \cup {Never}, data : SUBSET kinds,
     shown : 0 .. ListLag, setting : {"on", "off"}, status : {"Active", "Creating", "Updating", "Deleting"}]

IdleView == [spec |-> Undeclared, deleting |-> FALSE, forceAll |-> FALSE]

\* A ledger entry, with the state of a table that is being created.
GatedEntry == [state : {"None", "Creating", "Verified", "Relinquished"}, policy : DeletionPolicies,
               force : BOOLEAN, verified : Age, pending : Age \cup {Never}, checked : Age \cup {Never}]

PassTypeOK(kinds) ==
    /\ spec \in Specs /\ cr \in {"live", "deleting", "gone"} /\ forceAll \in BOOLEAN
    /\ resource \in Resource(kinds)
    /\ store \in GatedEntry /\ mem \in GatedEntry
    /\ view \in [spec : Specs, deleting : BOOLEAN, forceAll : BOOLEAN]
    /\ err \in BOOLEAN /\ calm \in BOOLEAN /\ raced \in BOOLEAN
    /\ forgotten \subseteq {"lift", "claim"}

PassInit ==
    /\ spec \in Specs /\ cr = "live" /\ forceAll = FALSE /\ calm = FALSE
    /\ store = NoEntry
    /\ resource \in {NoResource} \cup {NewResource(t, "off", "Active") : t \in ForeignTags}
    /\ pc = "idle" /\ view = IdleView /\ mem = NoEntry /\ err = FALSE
    /\ forgotten = {} /\ raced = FALSE

-----------------------------------------------------------------------------
(* The pass.  GoTo moves on within it; FailTo also records an error.       *)

GoTo(step) == pc' = step /\ UNCHANGED err

FailTo(step) == pc' = step /\ err' = TRUE

\* A call that took effect: the reply may be lost.
Done(step, failStep) == GoTo(step) \/ (~calm /\ FailTo(failStep))

\* Reconcile reads the CR; a section without the entry in its spec, and every
\* section of a CR being deleted, goes straight to Cleanup.
Begin ==
    /\ pc = "idle" /\ cr # "gone"
    /\ view' = [spec |-> spec, deleting |-> cr = "deleting", forceAll |-> forceAll]
    /\ mem' = store
    /\ GoTo(IF cr = "live" /\ spec.declared THEN "ensure" ELSE "cleanup")
    /\ UNCHANGED <<userVars, store, resource, forgotten, raced>>

\* A resource whose encryption key is not ready, or cannot be made, is skipped
\* with an error before anything is asked about it.
KeyNotReady ==
    /\ pc = "ensure" /\ ~calm /\ FailTo("cleanup")
    /\ UNCHANGED <<userVars, store, resource, view, mem, forgotten, raced>>

\* The ownership rules, on tags that were just read.
JudgeTags(ownedStep) ==
    /\ raced' = FALSE
    /\ \/ ~resource.exists /\ FailTo("cleanup")
       \/ resource.exists /\ IsOwnedBy(resource.tags) /\ GoTo(ownedStep)
       \/ /\ resource.exists /\ ~IsOwnedBy(resource.tags)
          /\ IF CheckExistingOwnership(resource.tags, view.spec.adopt, view.spec.from)
             THEN GoTo("adopt")
             ELSE FailTo("cleanup")
    /\ UNCHANGED <<userVars, store, resource, view, mem, forgotten>>

\* The owner tags are written over whatever is there now.
TagAsOwned(nextStep) ==
    /\ IF resource.exists
       THEN /\ resource' = [resource EXCEPT !.tags = ownerTags]
            /\ forgotten' = forgotten \cup {"lift", "claim"}
            /\ Done(nextStep, "cleanup")
       ELSE FailTo("cleanup") /\ UNCHANGED <<resource, forgotten>>
    /\ UNCHANGED <<userVars, store, view, mem, raced>>

-----------------------------------------------------------------------------
(* Cleanup, over the entry as Ensure left it.                              *)

StillDeclared == view.spec.declared /\ ~view.deleting

Forced == mem.force \/ view.forceAll

\* Mutant: the quiet window is over one tick early.
WaitingShort ==
    /\ ~Forced /\ mem.pending # Never
    /\ mem.pending + 1 < DeletionQuietWindow \/ ~NeedsEmptyCheck(mem)

\* A pending resource inside its quiet window or its backoff is left alone.
Waiting ==
    /\ ~Forced /\ mem.pending # Never
    /\ mem.pending < DeletionQuietWindow \/ ~NeedsEmptyCheck(mem)

\* The switch at the head of Cleanup's loop, and retain's early returns.
CleanupSwitch(retainStep) ==
    /\ pc = "cleanup"
    /\ \/ mem.state = "None" /\ GoTo("persist") /\ UNCHANGED mem
       \/ /\ mem.state # "None" /\ StillDeclared
          /\ GoTo(IF mem.pending = Never THEN "persist" ELSE "restore") /\ UNCHANGED mem
       \/ /\ mem.state # "None" /\ ~StillDeclared /\ mem.policy = "Retain"
          /\ GoTo(retainStep) /\ UNCHANGED mem
       \/ /\ mem.state # "None" /\ ~StillDeclared /\ mem.policy = "Delete"
          /\ GoTo(IF Waiting THEN "persist" ELSE "verify") /\ UNCHANGED mem
    /\ UNCHANGED <<userVars, store, resource, view, forgotten, raced>>

\* What retain keeps of the entry of a resource that was let go.
LetGo == IF PinsKey THEN Relinquished(mem) ELSE NoEntry

\* retain: an entry relinquished earlier is dropped unless it pins a key, and
\* then rechecked about daily; otherwise the tags are read.
RetainLookup ==
    /\ pc = "release" /\ raced' = FALSE
    /\ IF mem.state = "Relinquished" /\ ~(PinsKey /\ NeedsRelinquishedRecheck(mem))
       THEN GoTo("persist") /\ mem' = IF PinsKey THEN mem ELSE NoEntry
       ELSE \/ ~resource.exists /\ GoTo("persist") /\ mem' = NoEntry
            \/ resource.exists /\ ~IsOwnedBy(resource.tags) /\ GoTo("persist") /\ mem' = LetGo
            \/ resource.exists /\ IsOwnedBy(resource.tags) /\ GoTo("untag") /\ UNCHANGED mem
    /\ UNCHANGED <<userVars, store, resource, view, forgotten>>

\* Mutant: the ledger is believed without reading the tags.
VerifyThenTrusting(destroyStep) ==
    /\ pc = "verify" /\ UNCHANGED <<mem, raced>>
    /\ GoTo(IF Forced THEN destroyStep ELSE IF mem.pending = Never THEN "deny" ELSE "empty")
    /\ UNCHANGED <<userVars, store, resource, view, forgotten>>

\* deleteUndeclared: ownership is read afresh before anything is changed.
VerifyThen(destroyStep) ==
    /\ pc = "verify" /\ raced' = FALSE
    /\ \/ ~resource.exists /\ GoTo("persist") /\ mem' = NoEntry
       \/ resource.exists /\ ~IsOwnedBy(resource.tags) /\ FailTo("persist") /\ UNCHANGED mem
       \/ /\ resource.exists /\ IsOwnedBy(resource.tags) /\ UNCHANGED mem
          /\ GoTo(IF Forced THEN destroyStep
                  ELSE IF mem.pending = Never THEN "deny" ELSE "empty")
    /\ UNCHANGED <<userVars, store, resource, view, forgotten>>

\* The deny goes, by a call that needs the resource or not.
LiftDeny(entry, needed) ==
    /\ resource' = [resource EXCEPT !.deny = Never]
    /\ forgotten' = forgotten \cup {"lift"}
    /\ \/ (needed => resource.exists) /\ GoTo("persist") /\ mem' = entry
       \/ /\ ~calm \/ (needed /\ ~resource.exists)
          /\ FailTo("persist") /\ UNCHANGED mem
    /\ UNCHANGED <<userVars, store, view, raced>>

\* First sight of an undeclared resource: deny writes, then mark it pending.
DenyThenMark ==
    /\ pc = "deny"
    /\ IF resource.exists
       THEN /\ resource' = [resource EXCEPT !.deny = IF @ = Never THEN 0 ELSE @]
            /\ \/ GoTo("persist") /\ mem' = [mem EXCEPT !.pending = 0]
               \/ ~calm /\ FailTo("persist") /\ UNCHANGED mem
       ELSE FailTo("persist") /\ UNCHANGED <<resource, mem>>
    /\ UNCHANGED <<userVars, store, view, forgotten, raced>>

\* Later: only a resource whose gate finds it empty goes on to be destroyed.
GateOn(empty, destroyStep) ==
    /\ pc = "empty"
    /\ IF resource.exists
       THEN IF empty THEN GoTo(destroyStep) /\ UNCHANGED mem
                     ELSE GoTo("persist") /\ mem' = [mem EXCEPT !.checked = 0]
       ELSE FailTo("persist") /\ UNCHANGED mem
    /\ UNCHANGED <<userVars, store, resource, view, forgotten, raced>>

-----------------------------------------------------------------------------
(* The end of a pass.                                                      *)

\* Which effects the ledger now persisted does not know about.
Forgotten(entry) ==
    {f \in forgotten :
        IF f = "lift" THEN entry.pending # Never
                      ELSE entry.state \notin {"Verified", "Creating"}}

EndPass(entry) ==
    /\ store' = entry
    /\ forgotten' = Forgotten(entry)
    /\ pc' = "idle" /\ view' = IdleView /\ mem' = NoEntry /\ err' = FALSE
    /\ raced' = FALSE

\* A checkpoint writes the ledger as it stands; its reply replaces the CR the
\* pass works from, so Cleanup may see another spec than Ensure did.
Checkpoint ==
    /\ pc \in {"cleanup", "persist"} /\ ~view.deleting
    /\ store' = mem
    /\ forgotten' = Forgotten(mem)
    /\ \/ pc = "cleanup" /\ view' = [view EXCEPT !.spec = spec]
       \/ UNCHANGED view
    /\ UNCHANGED <<userVars, resource, pc, mem, err, raced>>

\* Mutant: an error does not hold the finalizer.
FinalizedDespiteError == view.deleting /\ (mem.state = "None" \/ mem.policy = "Retain")

\* A section's finalize reports done when no entry is left waiting.
Finalized == view.deleting /\ ~err /\ (mem.state = "None" \/ mem.policy = "Retain")

\* The status write, which may fail, then the finalizer once all is done.
Persist ==
    /\ pc = "persist"
    /\ \/ EndPass(mem)
       \/ ~calm /\ EndPass(store)
    /\ \/ Finalized /\ cr' = "gone"
       \/ ~(Finalized /\ calm) /\ UNCHANGED cr
    /\ UNCHANGED <<spec, forceAll, calm, resource>>

\* An AWS call, or a sibling's error before it, stops the stage it is in.
CallFails(ensureSteps, cleanupSteps) ==
    /\ ~calm
    /\ \/ pc \in ensureSteps /\ FailTo("cleanup")
       \/ pc \in cleanupSteps /\ FailTo("persist")
    /\ UNCHANGED <<userVars, store, resource, view, mem, forgotten, raced>>

Crash ==
    /\ ~calm /\ pc # "idle"
    /\ EndPass(store)
    /\ UNCHANGED <<userVars, resource>>

-----------------------------------------------------------------------------
(* Everybody else.                                                         *)

EditSpec ==
    /\ ~calm /\ cr = "live"
    /\ spec' \in Specs \ {spec}
    /\ UNCHANGED <<cr, forceAll, calm, store, resource, pc, passVars, forgotten, raced>>

DeleteCR ==
    /\ ~calm /\ cr = "live"
    /\ cr' = "deleting"
    /\ UNCHANGED <<spec, forceAll, calm, store, resource, pc, passVars, forgotten, raced>>

AnnotateForceDeleteAll ==
    /\ ~calm /\ cr = "deleting" /\ ~forceAll
    /\ forceAll' = TRUE
    /\ UNCHANGED <<spec, cr, calm, store, resource, pc, passVars, forgotten, raced>>

Writable == resource.exists /\ (resource.deny = Never \/ resource.deny < DenyDelay)

Outside(new) ==
    /\ resource' = new
    /\ UNCHANGED <<userVars, store, pc, passVars, forgotten>>

\* Somebody deletes the resource, and creates another under its name.
OutsideDelete == ~calm /\ resource.exists /\ Outside(NoResource) /\ UNCHANGED raced

OutsideCreate ==
    /\ ~calm /\ ~resource.exists
    /\ \E t \in ForeignTags : Outside(NewResource(t, "off", "Active"))
    /\ raced' = (pc # "idle")

Calm ==
    /\ ~calm /\ calm' = TRUE
    /\ UNCHANGED <<spec, cr, forceAll, store, resource, pc, passVars, forgotten, raced>>

\* What has had time enough to show goes on showing.
Later(shown) == IF shown = ListLag THEN shown ELSE shown + 1

Tick ==
    /\ store' = OlderEntry(store) /\ mem' = OlderEntry(mem)
    /\ resource' = [resource EXCEPT !.deny = Older(@), !.shown = Later(@)]
    /\ UNCHANGED <<userVars, pc, view, err, forgotten, raced>>

Users == EditSpec \/ DeleteCR \/ AnnotateForceDeleteAll

Others == Checkpoint \/ Crash \/ Users \/ OutsideCreate \/ Tick
=============================================================================
