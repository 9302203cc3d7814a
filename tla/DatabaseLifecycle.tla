------------------------- MODULE DatabaseLifecycle -------------------------
(***************************************************************************)
(* The life of one RDS instance and of its final snapshots:                *)
(* internal/resources/rds (rds.go, cleanup.go).  The operator never        *)
(* deletes an instance.  One that was removed from the spec under          *)
(* deletionPolicy Delete waits for somebody to delete it, and after the    *)
(* quiet window the operator takes a final snapshot, named after the       *)
(* instant the deletion was first noticed: the episode.                    *)
(*                                                                         *)
(* A snapshot name is a member of Episodes.  A new episode takes a name    *)
(* that nothing refers to any more, so the episodes are unbounded while    *)
(* two names are enough: a snapshot that no ledger names, nor ever can     *)
(* again, leaves the model when the next pass begins.  Settings are in     *)
(* DatabaseSettings, the network in NetworkAccess.                         *)
(***************************************************************************)
EXTENDS Ledger, Ownership, FiniteSets

CONSTANTS
    Declarations,   \* the forms the spec entry takes
    ForeignTags,    \* the tags of an instance somebody else creates
    Episodes        \* names of final snapshots

NoEpisode == 0

Claim == -1

ASSUME EpisodesAssumption ==
    /\ Episodes \subseteq Nat \ {NoEpisode} /\ IsFiniteSet(Episodes)
    /\ \E e, f \in Episodes : e # f
    /\ ForeignTags \subseteq Tags \ {ownerTags}
    /\ \A d \in Declarations : d.policy \in DeletionPolicies

VARIABLES
    spec,       \* the instance's spec entry, or Undeclared
    cr,         \* "live", "deleting" (deletionTimestamp set) or "gone"
    store,      \* the persisted ledger: the instance's entry and its snapshot's
    instance,   \* the instance in AWS
    snapshots,  \* the final snapshots in AWS, by name
    pc,         \* where the running pass is; "idle" between passes
    view,       \* what the pass has read
    mem,        \* the pass's copy of the ledger
    err,        \* whether the section has met an error
    calm,       \* no further fault, edit or outside change
    lost,       \* history: a recorded, declared instance was deleted by somebody else
    unrecorded, \* history: snapshots taken or deleted when the reply or the status write was
                \* lost, and Claim for an instance tagged as the CR's and not recorded
    removed     \* history: snapshots somebody else deleted or retagged

passVars == <<view, mem, err>>
userVars == <<spec, cr, calm>>
awsVars  == <<instance, snapshots>>
history  == <<lost, unrecorded, removed>>
vars     == <<userVars, store, awsVars, pc, passVars, history>>

-----------------------------------------------------------------------------
Undeclared == [declared |-> FALSE, policy |-> "Retain", adopt |-> FALSE, from |-> NoTag]

Declared(d) == [declared |-> TRUE, policy |-> d.policy, adopt |-> d.adopt, from |-> d.from]

Specs == {Undeclared} \cup {Declared(d) : d \in Declarations}

NoInstance == [exists |-> FALSE, tags |-> NoTags, status |-> "available"]

NewInstance(tags, status) == [exists |-> TRUE, tags |-> tags, status |-> status]

\* episode names the snapshot ensureFinalSnapshot derives from
\* PendingDeletionSince; verified is the age of LastVerifiedAt.  That of a
\* snapshot is not kept: whether its daily check is due is left open.
NoInstanceEntry == [state |-> "None", policy |-> "Retain", verified |-> 0,
                    pending |-> Never, episode |-> NoEpisode]

\* recordVerified: a rebuilt entry, in which nothing pending survives.
recordVerified(policy) ==
    [NoInstanceEntry EXCEPT !.state = "Verified", !.policy = policy]

\* createInstance's entry, and one whose deletion was cancelled.
recordCreating(policy) ==
    [NoInstanceEntry EXCEPT !.state = "Creating", !.policy = policy]

NotPending(entry) == [entry EXCEPT !.pending = Never, !.episode = NoEpisode]

NoSnapshotEntry == [state |-> "None", id |-> NoEpisode]

NoLedger == [inst |-> NoInstanceEntry, snap |-> NoSnapshotEntry]

WithInstance(ledger, entry) == [inst |-> entry, snap |-> ledger.snap]
WithSnapshot(ledger, entry) == [inst |-> ledger.inst, snap |-> entry]

\* The snapshot's entry once the snapshot is found available.
VerifiedSnapshot(ledger) == WithSnapshot(ledger, [state |-> "Verified", id |-> ledger.snap.id])

\* spec is the entry Ensure works from, declared what Cleanup knows of it.
IdleView == [spec |-> Undeclared, declared |-> FALSE, deleting |-> FALSE, status |-> "available"]

EnsureSteps  == {"ensure", "create", "tags", "adopt", "attributes", "trusted"}
CleanupSteps == {"retire", "deleteSnapshot", "release", "untag", "verify", "snapshot", "createSnapshot", "orphans"}

\* "creating" stands for every status in which the instance cannot be worked on.
Statuses == {"creating", "available"}

InstanceEntries ==
    {e \in [state : {"None", "Creating", "Verified", "Relinquished"},
            policy : DeletionPolicies, verified : Age,
            pending : Age \cup {Never}, episode : Episodes \cup {NoEpisode}] :
        e.pending = Never <=> e.episode = NoEpisode}

SnapshotEntries ==
    {e \in [state : {"None", "Creating", "Verified"}, id : Episodes \cup {NoEpisode}] :
        e.state = "None" <=> e.id = NoEpisode}

Ledgers == [inst : InstanceEntries, snap : SnapshotEntries]

Views == [spec : Specs, declared : BOOLEAN, deleting : BOOLEAN, status : Statuses]

TypeOK ==
    /\ spec \in Specs /\ cr \in {"live", "deleting", "gone"}
    /\ instance \in [exists : BOOLEAN, tags : Tags, status : Statuses]
    /\ snapshots \in [Episodes -> {"none", "creating", "available", "failed", "retagged"}]
    /\ store \in Ledgers /\ mem \in Ledgers
    /\ pc \in {"idle", "cleanup", "persist"} \cup EnsureSteps \cup CleanupSteps
    /\ view \in Views /\ err \in BOOLEAN /\ calm \in BOOLEAN /\ lost \in BOOLEAN
    /\ unrecorded \subseteq Episodes \cup {Claim} /\ removed \subseteq Episodes

\* A CR that is new, or one whose instance an earlier spec declared as Retain.
Init ==
    /\ spec \in Specs /\ cr = "live" /\ calm = FALSE
    /\ \/ /\ store = NoLedger
          /\ instance \in {NoInstance} \cup {NewInstance(t, "available") : t \in ForeignTags}
       \/ /\ store = WithInstance(NoLedger, recordVerified("Retain"))
          /\ instance = NewInstance(ownerTags, "available")
    /\ snapshots = [e \in Episodes |-> "none"]
    /\ pc = "idle" /\ view = IdleView /\ mem = NoLedger /\ err = FALSE
    /\ lost = FALSE /\ unrecorded = {} /\ removed = {}

-----------------------------------------------------------------------------
(* The pass.                                                               *)

GoTo(step) == pc' = step /\ UNCHANGED err

FailTo(step) == pc' = step /\ err' = TRUE

\* Nothing but the pass itself moves.
Reading == UNCHANGED <<userVars, store, awsVars, history>>

Named(ledger) == {ledger.inst.episode, ledger.snap.id}

Begin ==
    /\ pc = "idle" /\ cr # "gone"
    /\ view' = IF cr = "live" THEN [IdleView EXCEPT !.spec = spec, !.declared = spec.declared]
                              ELSE [IdleView EXCEPT !.deleting = TRUE]
    /\ mem' = store
    /\ GoTo(IF cr = "live" /\ spec.declared THEN "ensure" ELSE "cleanup")
    /\ snapshots' = [e \in Episodes |-> IF e \in Named(store) THEN snapshots[e] ELSE "none"]
    /\ unrecorded' = unrecorded \cap (Named(store) \cup {Claim})
    /\ removed' = removed \cap Named(store)
    /\ UNCHANGED <<userVars, store, instance, lost>>

Tracked(entry) == entry.state \notin {"None", "Relinquished"}

\* Mutant: an instance the ledger knows is created again when it is gone.
lookupInstanceRecreating ==
    /\ pc = "ensure" /\ ~instance.exists /\ GoTo("create") /\ UNCHANGED <<view, mem>>
    /\ Reading

\* lookupInstance.  An instance the ledger knows and RDS does not is
\* reported, never replaced; one being created may not be listed yet.
lookupInstance ==
    /\ pc = "ensure" /\ UNCHANGED mem
    /\ \/ /\ instance.exists => instance.status = "creating"
          /\ UNCHANGED view
          /\ IF Tracked(mem.inst) THEN FailTo("cleanup") ELSE GoTo("create")
       \/ /\ instance.exists
          /\ view' = [view EXCEPT !.status = instance.status]
          /\ GoTo(IF NeedsRevalidation(mem.inst) THEN "tags" ELSE "trusted")
    /\ Reading

\* createInstance: the tags are part of the call; the name may be taken.  From here
\* on the instance is the CR's and not recorded.
createInstance ==
    /\ pc = "create"
    /\ IF instance.exists
       THEN FailTo("cleanup") /\ UNCHANGED <<instance, mem, unrecorded>>
       ELSE /\ instance' = NewInstance(ownerTags, "creating") /\ unrecorded' = unrecorded \cup {Claim}
            /\ \/ /\ GoTo("cleanup")
                  /\ mem' = WithInstance(mem, recordCreating(view.spec.policy))
               \/ ~calm /\ FailTo("cleanup") /\ UNCHANGED mem
    /\ UNCHANGED <<userVars, store, snapshots, view, lost, removed>>

\* ensureInstanceOwnership, on tags that were just read.
ensureInstanceOwnership ==
    /\ pc = "tags" /\ UNCHANGED <<view, mem>>
    /\ \/ ~instance.exists /\ FailTo("cleanup")
       \/ instance.exists /\ IsOwnedBy(instance.tags) /\ GoTo("attributes")
       \/ /\ instance.exists /\ ~IsOwnedBy(instance.tags)
          /\ IF CheckExistingOwnership(instance.tags, view.spec.adopt, view.spec.from)
             THEN GoTo("adopt") ELSE FailTo("cleanup")
    /\ Reading

adoptInstance ==
    /\ pc = "adopt"
    /\ IF instance.exists
       THEN /\ instance' = [instance EXCEPT !.tags = ownerTags] /\ unrecorded' = unrecorded \cup {Claim}
            /\ GoTo("attributes") \/ (~calm /\ FailTo("cleanup"))
       ELSE FailTo("cleanup") /\ UNCHANGED <<instance, unrecorded>>
    /\ UNCHANGED <<userVars, store, snapshots, view, mem, lost, removed>>

\* checkInstanceStatus and the attributes, on the status the lookup saw; then
\* an entry that the lookup found trusted keeps what it has and any other is rebuilt.
ensureInstanceObserving ==
    /\ pc \in {"attributes", "trusted"}
    /\ IF view.status # "available"
       THEN FailTo("cleanup") /\ UNCHANGED mem
       ELSE /\ GoTo("cleanup")
            /\ mem' = WithInstance(mem, IF pc = "attributes"
                                        THEN recordVerified(view.spec.policy)
                                        ELSE [mem.inst EXCEPT !.policy = view.spec.policy])
    /\ UNCHANGED view
    /\ Reading

-----------------------------------------------------------------------------
(* Cleanup, over the ledger as Ensure left it.                             *)

\* Mutant: a deletion that is cancelled leaves its snapshot tracked.
CleanupKeepingSnapshot ==
    /\ pc = "cleanup" /\ view' = [IdleView EXCEPT !.declared = view.declared, !.deleting = view.deleting]
    /\ \/ /\ mem.inst.state = "None" \/ view.declared
          /\ GoTo("orphans") /\ mem' = WithInstance(mem, NotPending(mem.inst))
       \/ /\ mem.inst.state # "None" /\ ~view.declared /\ UNCHANGED mem
          /\ GoTo(IF mem.inst.policy = "Delete" THEN "verify" ELSE "release")
    /\ Reading

\* The switch at the head of Cleanup's loop.  restoreDeclared clears what was
\* pending, and a snapshot that was tracked has outlived its purpose.
Cleanup ==
    /\ pc = "cleanup" /\ view' = [IdleView EXCEPT !.declared = view.declared, !.deleting = view.deleting]
    /\ \/ mem.inst.state = "None" /\ GoTo("orphans") /\ UNCHANGED mem
       \/ /\ mem.inst.state # "None" /\ view.declared
          /\ mem' = WithInstance(mem, NotPending(mem.inst))
          /\ GoTo("retire")
       \/ /\ mem.inst.state # "None" /\ ~view.declared /\ UNCHANGED mem
          /\ GoTo(IF mem.inst.policy = "Delete" THEN "verify" ELSE "release")
    /\ Reading

\* retainEntry: a relinquished instance is looked at about daily; one that is
\* gone is dropped, so that declaring it again creates a fresh one.
retainEntry ==
    /\ pc = "release" /\ UNCHANGED view
    /\ LET relinquished == WithInstance(mem, Relinquished(mem.inst))
       IN \/ /\ mem.inst.state = "Relinquished" /\ ~NeedsRelinquishedRecheck(mem.inst)
             /\ GoTo("orphans") /\ UNCHANGED mem
          \/ /\ mem.inst.state # "Relinquished" \/ NeedsRelinquishedRecheck(mem.inst)
             /\ \/ ~instance.exists /\ GoTo("orphans") /\ mem' = WithInstance(mem, NoInstanceEntry)
                \/ instance.exists /\ IsOwnedBy(instance.tags) /\ GoTo("untag") /\ UNCHANGED mem
                \/ instance.exists /\ ~IsOwnedBy(instance.tags) /\ GoTo("orphans") /\ mem' = relinquished
    /\ Reading

relinquishIfStillTagged ==
    /\ pc = "untag"
    /\ IF instance.exists
       THEN /\ instance' = [instance EXCEPT !.tags = NoTags]
            /\ \/ GoTo("orphans") /\ mem' = WithInstance(mem, Relinquished(mem.inst))
               \/ ~calm /\ FailTo("orphans") /\ UNCHANGED mem
       ELSE FailTo("orphans") /\ UNCHANGED <<instance, mem>>
    /\ UNCHANGED <<userVars, store, snapshots, view, history>>

\* A name no ledger and no snapshot uses: the instant is a new one.
FreshEpisode ==
    CHOOSE e \in Episodes :
        /\ snapshots[e] = "none"
        /\ e \notin Named(store) \cup Named(mem)

markPendingDeletion == WithInstance(mem, [mem.inst EXCEPT !.pending = 0, !.episode = FreshEpisode])

\* pendDeletion: ownership is read afresh on every pass.
pendDeletion ==
    /\ pc = "verify" /\ UNCHANGED view
    /\ \/ ~instance.exists /\ GoTo("orphans") /\ mem' = WithInstance(mem, NoInstanceEntry)
       \/ instance.exists /\ ~IsOwnedBy(instance.tags) /\ FailTo("orphans") /\ UNCHANGED mem
       \/ /\ instance.exists /\ IsOwnedBy(instance.tags)
          /\ \/ mem.inst.pending = Never /\ GoTo("orphans") /\ mem' = markPendingDeletion
             \/ /\ mem.inst.pending # Never /\ UNCHANGED mem
                /\ GoTo(IF mem.inst.pending < DeletionQuietWindow THEN "orphans" ELSE "snapshot")
    /\ Reading

\* Mutant: the snapshot of an earlier episode is taken for this one's.
ensureFinalSnapshotAnyEpisode ==
    /\ pc = "snapshot" /\ UNCHANGED view
    /\ \/ mem.snap.state = "Verified" /\ GoTo("orphans") /\ UNCHANGED mem
       \/ mem.snap.id = NoEpisode /\ GoTo("createSnapshot") /\ UNCHANGED mem
       \/ /\ mem.snap.state = "Creating"
          /\ GoTo("orphans")
          /\ mem' = IF snapshots[mem.snap.id] = "available" THEN VerifiedSnapshot(mem) ELSE mem
    /\ Reading

\* ensureFinalSnapshot: the snapshot of an earlier episode is retired first;
\* this episode's is created once and polled until it is available.
ensureFinalSnapshot ==
    /\ pc = "snapshot" /\ UNCHANGED view
    /\ \/ mem.snap.id \notin {NoEpisode, mem.inst.episode} /\ GoTo("retire") /\ UNCHANGED mem
       \/ mem.snap.id = NoEpisode /\ GoTo("createSnapshot") /\ UNCHANGED mem
       \/ /\ mem.snap.id = mem.inst.episode /\ mem.snap.state = "Verified"
          /\ GoTo("orphans") /\ UNCHANGED mem
       \/ /\ mem.snap.id = mem.inst.episode /\ mem.snap.state = "Creating"
          /\ CASE snapshots[mem.snap.id] = "none" -> FailTo("orphans") /\ UNCHANGED mem
               [] snapshots[mem.snap.id] \in {"available", "retagged"} ->
                      GoTo("orphans") /\ mem' = VerifiedSnapshot(mem)
               [] OTHER -> GoTo("orphans") /\ UNCHANGED mem
    /\ Reading

\* CreateDBSnapshot: a snapshot of that name, left by a pass whose ledger was
\* not saved, is taken up; an instance that is not available is refused.
CreateDBSnapshot ==
    /\ pc = "createSnapshot"
    /\ LET id == mem.inst.episode
           recorded == WithSnapshot(mem, [state |-> "Creating", id |-> id])
       IN  IF snapshots[id] # "none" \/ (instance.exists /\ instance.status = "available")
           THEN /\ snapshots' = [snapshots EXCEPT ![id] = IF @ = "none" THEN "creating" ELSE @]
                /\ removed' = removed \ {id}
                /\ \/ GoTo("orphans") /\ mem' = recorded /\ UNCHANGED unrecorded
                   \/ ~calm /\ FailTo("orphans") /\ UNCHANGED mem /\ unrecorded' = unrecorded \cup {id}
           ELSE FailTo("orphans") /\ UNCHANGED <<snapshots, mem, unrecorded, removed>>
    /\ UNCHANGED <<userVars, store, instance, view, lost>>

Forget == WithSnapshot(mem, NoSnapshotEntry)

\* Mutant: a snapshot still being created is forgotten.
retireFinalSnapshotForgetting ==
    /\ pc = "retire" /\ GoTo("orphans") /\ mem' = Forget /\ UNCHANGED view
    /\ Reading

\* retireFinalSnapshot.  RDS answers the description of a snapshot it does not
\* have with an error.
retireFinalSnapshot ==
    /\ pc = "retire" /\ UNCHANGED view
    /\ IF mem.snap.id = NoEpisode
       THEN GoTo("orphans") /\ UNCHANGED mem
       ELSE LET found == snapshots[mem.snap.id]
            IN CASE found = "none" -> FailTo("orphans") /\ UNCHANGED mem
                 [] found = "retagged" -> GoTo("orphans") /\ mem' = Forget
                 [] found = "available" \/ (found # "none" /\ mem.snap.state = "Verified") ->
                        GoTo("deleteSnapshot") /\ UNCHANGED mem
                 [] found = "failed" -> GoTo("orphans") /\ mem' = Forget
                 [] OTHER -> GoTo("orphans") /\ UNCHANGED mem
    /\ Reading

DeleteDBSnapshot ==
    /\ pc = "deleteSnapshot"
    /\ snapshots' = [snapshots EXCEPT ![mem.snap.id] = "none"]
    /\ \/ GoTo("orphans") /\ mem' = Forget /\ UNCHANGED unrecorded
       \/ ~calm /\ FailTo("orphans") /\ UNCHANGED mem /\ unrecorded' = unrecorded \cup {mem.snap.id}
    /\ UNCHANGED <<userVars, store, instance, view, lost, removed>>

\* checkOrphanedSnapshots: the entry of a snapshot whose instance is gone is
\* kept until the snapshot is gone too.
checkOrphanedSnapshots ==
    /\ pc = "orphans" /\ GoTo("persist") /\ UNCHANGED view
    /\ \/ /\ mem.inst.state = "None" /\ mem.snap.id # NoEpisode
          /\ mem' = CASE snapshots[mem.snap.id] = "none" -> Forget
                     [] snapshots[mem.snap.id] \in {"available", "retagged"} -> VerifiedSnapshot(mem)
                     [] OTHER -> mem
       \/ /\ mem.inst.state = "None" => mem.snap.state # "Creating"
          /\ UNCHANGED mem
    /\ Reading

-----------------------------------------------------------------------------
(* The end of a pass.                                                      *)

\* What a ledger that is persisted would be wrong about.
Unknown(ledger) ==
    {e \in Episodes : (ledger.snap.id = e) # (snapshots[e] # "none")}
        \cup (IF instance.exists /\ IsOwnedBy(instance.tags) /\ ~Tracked(ledger.inst) THEN {Claim} ELSE {})

Saved == store' = mem /\ unrecorded' = unrecorded \cap Unknown(mem)

Lost == UNCHANGED store /\ unrecorded' = (unrecorded \cup Episodes) \cap Unknown(store)

EndPass == pc' = "idle" /\ view' = IdleView /\ mem' = NoLedger /\ err' = FALSE

\* A checkpoint writes the ledger as it stands; its reply replaces the CR the
\* pass works from, so Cleanup may see another spec than Ensure did.
Checkpoint ==
    /\ pc \in {"cleanup", "persist"} /\ ~view.deleting
    /\ Saved
    /\ \/ pc = "cleanup" /\ view' = [view EXCEPT !.declared = spec.declared]
       \/ UNCHANGED view
    /\ UNCHANGED <<userVars, awsVars, pc, mem, err, lost, removed>>

\* Mutant: an instance that waits for a manual delete does not hold the finalizer.
FinalizedWhilePending == view.deleting /\ ~err

\* rdsSection's finalize reports done when no instance is left waiting.
Finalized == view.deleting /\ ~err /\ (mem.inst.state = "None" \/ mem.inst.policy = "Retain")

Persist ==
    /\ pc = "persist"
    /\ EndPass /\ (Saved \/ (~calm /\ Lost))
    /\ \/ Finalized /\ cr' = "gone"
       \/ ~(Finalized /\ calm) /\ UNCHANGED cr
    /\ UNCHANGED <<spec, calm, awsVars, lost, removed>>

\* A failed call, and every refusal that leaves nothing behind: a replication
\* request, a subnet group without a grant, an adoption conflict, an immutable setting, a key not ready.
CallFails ==
    /\ ~calm
    /\ \/ pc \in EnsureSteps /\ FailTo("cleanup")
       \/ pc \in CleanupSteps \ {"orphans"} /\ FailTo("orphans")
       \/ pc = "orphans" /\ FailTo("persist")
    /\ UNCHANGED <<view, mem>>
    /\ Reading

Crash ==
    /\ ~calm /\ pc # "idle"
    /\ EndPass /\ Lost
    /\ UNCHANGED <<userVars, awsVars, lost, removed>>

Pass == \/ Begin \/ lookupInstance \/ createInstance \/ ensureInstanceOwnership \/ adoptInstance
        \/ ensureInstanceObserving \/ Cleanup \/ retainEntry \/ relinquishIfStillTagged
        \/ pendDeletion \/ ensureFinalSnapshot \/ CreateDBSnapshot \/ retireFinalSnapshot
        \/ DeleteDBSnapshot \/ checkOrphanedSnapshots \/ Persist

-----------------------------------------------------------------------------
(* Everybody else.                                                         *)

EditSpec ==
    /\ ~calm /\ cr = "live"
    /\ spec' \in Specs \ {spec}
    /\ lost' = (lost /\ spec'.declared)
    /\ UNCHANGED <<cr, calm, store, awsVars, pc, passVars, unrecorded, removed>>

\* The spec of a CR being deleted is not consulted any more.
DeleteCR ==
    /\ ~calm /\ cr = "live"
    /\ cr' = "deleting" /\ spec' = Undeclared /\ lost' = FALSE
    /\ UNCHANGED <<calm, store, awsVars, pc, passVars, unrecorded, removed>>

\* Somebody deletes the instance, and restores or creates one under its name.
OutsideDelete ==
    /\ ~calm /\ instance.exists /\ instance' = NoInstance
    /\ lost' = /\ spec.declared /\ cr = "live" /\ (pc = "idle" \/ view.declared)
               /\ Tracked(store.inst) /\ IsOwnedBy(instance.tags)
    /\ UNCHANGED <<userVars, store, snapshots, pc, passVars, unrecorded, removed>>

OutsideCreate ==
    /\ ~calm /\ ~instance.exists /\ lost' = FALSE
    /\ \E t \in ForeignTags : instance' = NewInstance(t, "available")
    /\ UNCHANGED <<userVars, store, snapshots, pc, passVars, unrecorded, removed>>

InstanceSettles ==
    /\ instance.exists /\ instance.status = "creating"
    /\ instance' = [instance EXCEPT !.status = "available"]
    /\ UNCHANGED <<userVars, store, snapshots, pc, passVars, history>>

SnapshotSettles ==
    /\ \E e \in Episodes, s \in {"available"} \cup (IF calm THEN {} ELSE {"failed"}) :
          snapshots[e] = "creating" /\ snapshots' = [snapshots EXCEPT ![e] = s]
    /\ UNCHANGED <<userVars, store, instance, pc, passVars, history>>

\* Somebody deletes a snapshot, or takes its tags away.
OutsideSnapshot ==
    /\ ~calm
    /\ \E e \in Episodes, s \in {"none", "retagged"} :
          /\ snapshots[e] \in {"available", "failed"} /\ (s = "retagged" => snapshots[e] = "available")
          /\ snapshots' = [snapshots EXCEPT ![e] = s]
          /\ removed' = removed \cup {e}
    /\ UNCHANGED <<userVars, store, instance, pc, passVars, lost, unrecorded>>

Calm ==
    /\ ~calm /\ pc = "idle" /\ calm' = TRUE
    /\ UNCHANGED <<spec, cr, store, awsVars, pc, passVars, history>>

OlderLedger(ledger) ==
    WithInstance(ledger, [ledger.inst EXCEPT !.verified = Older(@), !.pending = Older(@)])

Tick ==
    /\ store' = OlderLedger(store) /\ mem' = OlderLedger(mem)
    /\ UNCHANGED <<userVars, awsVars, pc, view, err, history>>

Next == \/ Pass \/ Checkpoint \/ CallFails \/ Crash
        \/ EditSpec \/ DeleteCR \/ OutsideDelete \/ OutsideCreate
        \/ InstanceSettles \/ SnapshotSettles \/ OutsideSnapshot \/ Tick

Spec == Init /\ [][Next]_vars

\* Passes run and end, time passes, and RDS finishes what it is doing: asked
\* for once faults and edits are over.
FairSpec == /\ Init /\ [][Next \/ Calm]_vars
            /\ WF_vars(calm /\ Pass) /\ WF_vars(calm /\ Tick)
            /\ WF_vars(calm /\ InstanceSettles) /\ WF_vars(calm /\ SnapshotSettles)

-----------------------------------------------------------------------------
\* A declared instance that the ledger knows and somebody deleted is not
\* replaced by an empty one (ensureMissingInstance): until the spec entry is
\* removed, or an instance is put under its name, none of the CR's exists.
LostInstanceIsNotReplaced == lost => ~instance.exists

\* The persisted ledger knows every final snapshot that is still the CR's, and
\* so keeps its KMS key (KMSKeyARN of the snapshot's entry); and a snapshot it
\* calls Verified exists.  Unless the write after CreateDBSnapshot or
\* DeleteDBSnapshot was lost, or somebody else deleted it.
SnapshotsAreKnown ==
    pc = "idle" =>
        /\ \A e \in Episodes :
              snapshots[e] \in {"creating", "available"} => e \in {store.snap.id} \cup unrecorded
        /\ store.snap.state = "Verified" /\ store.snap.id \notin unrecorded \cup removed
              => snapshots[store.snap.id] # "none"

\* Once the finalizer is gone no instance is left with the CR's tags: a Delete
\* policy waited for it to go and a Retain policy let it go (rdsSection's
\* finalize), unless a pass that created or adopted it did not get it recorded.
FinalizerHoldsInstance ==
    cr = "gone" /\ instance.exists /\ IsOwnedBy(instance.tags) => Claim \in unrecorded

Mine == instance.exists /\ IsOwnedBy(instance.tags) /\ instance.status = "available"

Settled == calm /\ pc = "idle" /\ store.snap.id \notin unrecorded \cup removed

\* An instance removed from the spec under policy Delete gets the verified
\* final snapshot of its own episode (pendDeletion, ensureFinalSnapshot),
\* unless its snapshot failed.
RemovedInstanceIsBackedUp ==
    (/\ Settled /\ Mine /\ store.inst.policy = "Delete" /\ Tracked(store.inst)
     /\ cr = "deleting" \/ (cr = "live" /\ ~spec.declared))
        ~> \/ store.snap.state = "Verified" /\ store.snap.id = store.inst.episode
           \/ \E e \in Episodes : snapshots[e] = "failed"

\* An instance declared again is no longer pending, and the snapshot of the
\* cancelled deletion is gone from the ledger (restoreDeclared), unless
\* somebody deleted that snapshot.
CancelledDeletionSettles ==
    (Settled /\ Mine /\ store.inst.state # "None" /\ cr = "live" /\ spec.declared)
        ~> store.inst.pending = Never /\ store.snap.state = "None"
=============================================================================
