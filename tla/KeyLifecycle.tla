---------------------------- MODULE KeyLifecycle ----------------------------
(***************************************************************************)
(* A KMS key declared under kms.resources and one resource encrypted with  *)
(* it through encryption.kmsKeyRef: internal/resources/kms (kms.go,        *)
(* cleanup.go), the kms section that decides which keys are still in use   *)
(* (internal/controller/section_kms.go, internal/decisions), and the order *)
(* of the sections around it (internal/controller/desiredstate.go).        *)
(*                                                                         *)
(* A reconcile pass runs the kms section, then the section of the data,    *)
(* then the iam section, which records on the data's ledger entry the key  *)
(* it is encrypted with; the ledger is checkpointed after each.  A         *)
(* finalize pass runs the data's section first and kms last.  CreateKey    *)
(* takes no name: only the alias, a later call, makes a key findable, so a *)
(* key whose ARN is lost stays behind.                                     *)
(***************************************************************************)
EXTENDS Ownership

CONSTANTS
    NoKey,        \* the absence of one
    Keys,         \* the ARNs CreateKey may hand out: the bound on keys made
    Specs,        \* the specs the user moves between
    ForeignTags   \* the tags a key somebody else made may carry

DeletionPolicies == {"Retain", "Delete"}

\* key, data: declared or not; the data refers to the key whenever declared.
SpecType == [key : BOOLEAN, policy : DeletionPolicies, adopt : BOOLEAN, from : {NoTag} \cup OtherUIDs,
             data : BOOLEAN, dataPolicy : DeletionPolicies]

ASSUME KeyAssumption ==
    /\ NoKey \notin Keys
    /\ Specs \subseteq SpecType
    /\ ForeignTags \subseteq Tags \ {ownerTags}

VARIABLES
    spec, cr,   \* the CR: its spec, and "live", "deleting" or "gone"
    store,      \* the persisted ledger: the entries of the key and the data
    keys,       \* the keys in AWS
    alias,      \* the key the deterministic alias points at
    data,       \* the resource in AWS, and the key it is encrypted with
    pc, view, mem, err,  \* the running pass
    at,         \* the key the pass is working on
    waiting,    \* this finalize pass found the key waiting
    calm,       \* no further fault, edit or outside change
    orphaned,   \* history: keys made or tagged that the persisted ledger missed
    missed,     \* history: the last pass left the data's key unrecorded
    raced       \* history: the key changed hands since this pass read its tags

vars == <<spec, cr, store, keys, alias, data, pc, view, mem, err, at, waiting,
          calm, orphaned, missed, raced>>

crVars   == <<spec, cr, calm>>
awsVars  == <<keys, alias, data>>
history  == <<orphaned, missed, raced>>

-----------------------------------------------------------------------------
\* fresh: verified within the trust window, or, once relinquished, within the
\* recheck interval.  pending: not, within, or past the quiet window.
KeyEntries == [state : {"None", "TagPending", "Verified", "Relinquished"}, arn : Keys \cup {NoKey},
               policy : DeletionPolicies, fresh : BOOLEAN, pending : {"no", "quiet", "due"}]

NoKeyEntry == [state |-> "None", arn |-> NoKey, policy |-> "Retain", fresh |-> FALSE, pending |-> "no"]

\* key is the ARN recordKMSKeyARNs has stamped on the entry, if it has.
DataEntries == [state : {"None", "Verified", "Relinquished"}, policy : DeletionPolicies,
                key : Keys \cup {NoKey}]

NoDataEntry == [state |-> "None", policy |-> "Retain", key |-> NoKey]

Ledgers == [key : KeyEntries, data : DataEntries]

EmptyLedger == [key |-> NoKeyEntry, data |-> NoDataEntry]

\* "Absent" keys have not been made, "Deleted" ones are beyond recovery.
AWSKeys == [state : {"Absent", "Enabled", "Disabled", "PendingDeletion", "Deleted"}, tags : Tags]

Data == [exists : BOOLEAN, key : Keys \cup {NoKey}]

NoData == [exists |-> FALSE, key |-> NoKey]

EnsureSteps == {"kms", "create", "checkpointKey", "alias", "resume", "takeOver", "revive", "enable", "adopt", "tag"}
CleanupSteps == {"cleanup", "relinquish", "untag", "verify", "schedule"}
Steps == {"idle", "stamp", "checkpoint", "data", "checkpointData", "iam", "persist"}
             \cup EnsureSteps \cup CleanupSteps

TypeOK ==
    /\ spec \in Specs /\ cr \in {"live", "deleting", "gone"}
    /\ store \in Ledgers /\ mem \in Ledgers
    /\ keys \in [Keys -> AWSKeys] /\ alias \in Keys \cup {NoKey} /\ data \in Data
    /\ pc \in Steps /\ view \in [spec : SpecType, deleting : BOOLEAN]
    /\ err \in BOOLEAN /\ at \in Keys \cup {NoKey} /\ waiting \in BOOLEAN /\ calm \in BOOLEAN
    /\ orphaned \subseteq Keys /\ missed \in BOOLEAN /\ raced \in BOOLEAN

Unmade == [state |-> "Absent", tags |-> NoTags]

\* The alias is free, or somebody's key is already there.
Init ==
    /\ spec \in Specs /\ cr = "live" /\ calm = FALSE
    /\ store = EmptyLedger /\ mem = EmptyLedger
    /\ data = NoData
    /\ \/ alias = NoKey /\ keys = [k \in Keys |-> Unmade]
       \/ \E k \in Keys, t \in ForeignTags, s \in {"Enabled", "PendingDeletion"} :
            /\ alias = k
            /\ keys = [[j \in Keys |-> Unmade] EXCEPT ![k] = [state |-> s, tags |-> t]]
    /\ pc = "idle" /\ view = [spec |-> spec, deleting |-> FALSE]
    /\ err = FALSE /\ at = NoKey /\ waiting = FALSE
    /\ orphaned = {} /\ missed = FALSE /\ raced = FALSE

-----------------------------------------------------------------------------
(* The pass.                                                               *)

GoTo(step) == pc' = step /\ UNCHANGED err

FailTo(step) == pc' = step /\ err' = TRUE

\* A call whose effect took place, with its reply or without it.
Answered(step) == GoTo(step)
Lost(step)     == ~calm /\ FailTo(step)

Begin ==
    /\ pc = "idle" /\ cr # "gone"
    /\ view' = [spec |-> spec, deleting |-> cr = "deleting"]
    /\ mem' = store
    /\ GoTo(IF cr = "deleting" THEN "data" ELSE "kms")
    /\ UNCHANGED <<crVars, store, awsVars, at, waiting, history>>

\* The pass's ledger with another entry, and the keys with k made, in another
\* state or under other tags.
KeyIs(entry)  == [key |-> entry, data |-> mem.data]
DataIs(entry) == [key |-> mem.key, data |-> entry]
Made(k, t)    == [keys EXCEPT ![k] = [state |-> "Enabled", tags |-> t]]
InState(k, s) == [keys EXCEPT ![k] = [state |-> s, tags |-> keys[k].tags]]
Tagged(k, t)  == [keys EXCEPT ![k] = [state |-> keys[k].state, tags |-> t]]

\* recordKey with the state given; a pending deletion does not survive it.
recordKey(arn, state) ==
    mem' = KeyIs([state |-> state, arn |-> arn, policy |-> view.spec.policy,
                  fresh |-> TRUE, pending |-> "no"])

\* Mutant: an entry whose alias was never confirmed counts as no entry.
ensureKeyVerifiedOnly ==
    /\ pc = "kms"
    /\ \/ ~view.spec.key /\ GoTo("stamp") /\ UNCHANGED at
       \/ view.spec.key /\ mem.key.state = "Verified" /\ at' = mem.key.arn /\ GoTo("resume")
       \/ /\ view.spec.key /\ mem.key.state # "Verified"
          /\ at' = alias /\ GoTo(IF alias = NoKey THEN "create" ELSE "adopt")
    /\ UNCHANGED <<crVars, store, awsVars, view, mem, waiting, history>>

\* ensureKey: the ledger comes first; only without an entry of its own, or
\* with one it let go of, does it look for a key behind the alias.
ensureKey ==
    /\ pc = "kms"
    /\ \/ ~view.spec.key /\ GoTo("stamp") /\ UNCHANGED at
       \/ /\ view.spec.key /\ mem.key.state \in {"TagPending", "Verified"}
          /\ at' = mem.key.arn /\ GoTo("resume")
       \/ /\ view.spec.key /\ mem.key.state \in {"None", "Relinquished"}
          /\ at' = alias /\ GoTo(IF alias = NoKey THEN "create" ELSE "adopt")
    /\ UNCHANGED <<crVars, store, awsVars, view, mem, waiting, history>>

\* CreateKey, which tags atomically; the entry is TagPending until the alias
\* is there.
createKey ==
    /\ pc = "create"
    /\ \/ \E k \in {j \in Keys : keys[j].state = "Absent"} :
            /\ keys' = Made(k, ownerTags)
            /\ \/ at' = k /\ recordKey(k, "TagPending") /\ Answered("checkpointKey") /\ UNCHANGED orphaned
               \/ Lost("stamp") /\ orphaned' = orphaned \cup {k} /\ UNCHANGED <<at, mem>>
       \/ /\ \A k \in Keys : keys[k].state # "Absent"
          /\ FailTo("stamp") /\ UNCHANGED <<keys, at, mem, orphaned>>
    /\ UNCHANGED <<crVars, store, alias, data, view, waiting, missed, raced>>

\* createKey's own checkpoint, before the alias: when it fails, so does the
\* pass's Ensure, with the entry still in memory.  The reply to a checkpoint
\* replaces the CR the pass works from, spec included; the options of the key
\* at hand were copied before.
checkpointKey ==
    /\ pc = "checkpointKey"
    /\ \/ /\ store' = mem /\ GoTo("alias")
          /\ view' \in {view, [view EXCEPT !.spec = [spec EXCEPT !.policy = view.spec.policy]]}
       \/ ~calm /\ FailTo("stamp") /\ UNCHANGED <<store, view>>
    /\ UNCHANGED <<crVars, awsVars, mem, at, waiting, history>>

\* ensureAlias tolerates an alias that is there already if it is this key's.
\* The key policy and rotation, set before it, can only fail (CallFails).
ensureAlias ==
    /\ pc = "alias"
    /\ \/ /\ alias = NoKey
          /\ alias' = at
          /\ \/ recordKey(at, "Verified") /\ Answered("stamp")
             \/ Lost("stamp") /\ UNCHANGED mem
       \/ alias = at /\ recordKey(at, "Verified") /\ GoTo("stamp") /\ UNCHANGED alias
       \/ alias \notin {NoKey, at} /\ FailTo("stamp") /\ UNCHANGED <<alias, mem>>
    /\ UNCHANGED <<crVars, store, keys, data, view, at, waiting, history>>

\* resumeKey: existence and state are read every pass, tags only once trust
\* has lapsed or the key is scheduled for deletion.
resumeKey ==
    /\ pc = "resume"
    /\ raced' = FALSE
    /\ LET key == keys[at]
           trusted == mem.key.state = "Verified" /\ mem.key.fresh
       IN  \/ key.state \in {"Deleted", "Disabled"} /\ FailTo("stamp") /\ UNCHANGED mem
           \/ /\ key.state = "Enabled" /\ trusted
              /\ mem' = KeyIs([mem.key EXCEPT !.policy = view.spec.policy]) /\ GoTo("stamp")
           \/ /\ key.state = "PendingDeletion" \/ (key.state = "Enabled" /\ ~trusted)
              /\ UNCHANGED mem
              /\ \/ /\ IsOwnedBy(key.tags)
                    /\ GoTo(IF key.state = "PendingDeletion" THEN "revive" ELSE "alias")
                 \/ /\ ~IsOwnedBy(key.tags) /\ IsStaleUID(key.tags)
                    /\ MayTransferFrom(view.spec.from, key.tags.uid) /\ GoTo("takeOver")
                 \/ /\ ~IsOwnedBy(key.tags)
                    /\ ~(IsStaleUID(key.tags) /\ MayTransferFrom(view.spec.from, key.tags.uid))
                    /\ FailTo("stamp")
    /\ UNCHANGED <<crVars, store, awsVars, view, at, waiting, orphaned, missed>>

\* AWS refuses to tag a key whose deletion is scheduled.
Taggable == keys[at].state \in {"Enabled", "Disabled"}

\* verifyOrTakeOverKey's TagResource, before any scheduled deletion is cancelled.
takeOverKey ==
    /\ pc = "takeOver"
    /\ IF Taggable
       THEN /\ keys' = Tagged(at, ownerTags)
            /\ Answered("alias") \/ Lost("stamp")
       ELSE FailTo("stamp") /\ UNCHANGED keys
    /\ UNCHANGED <<crVars, store, alias, data, view, mem, at, waiting, history>>

\* Mutant: the revived key is not enabled.
cancelKeyDeletionOnly ==
    /\ pc = "revive" /\ keys[at].state = "PendingDeletion"
    /\ keys' = InState(at, "Disabled")
    /\ Answered("alias") \/ Lost("stamp")
    /\ UNCHANGED <<crVars, store, alias, data, view, mem, at, waiting, history>>

\* reviveKey: CancelKeyDeletion leaves the key disabled ...
cancelKeyDeletion ==
    /\ pc = "revive"
    /\ \/ /\ keys[at].state = "PendingDeletion"
          /\ keys' = InState(at, "Disabled")
          /\ Answered("enable") \/ Lost("stamp")
       \/ keys[at].state # "PendingDeletion" /\ FailTo("stamp") /\ UNCHANGED keys
    /\ UNCHANGED <<crVars, store, alias, data, view, mem, at, waiting, history>>

\* ... and EnableKey enables it; a resumed key goes on to its alias, one being
\* adopted to its tags.
enableKey ==
    /\ pc = "enable"
    /\ \/ /\ keys[at].state \in {"Disabled", "Enabled"}
          /\ keys' = InState(at, "Enabled")
          /\ \/ Answered(IF mem.key.state \in {"TagPending", "Verified"} THEN "alias" ELSE "tag")
             \/ Lost("stamp")
       \/ keys[at].state \notin {"Disabled", "Enabled"} /\ FailTo("stamp") /\ UNCHANGED keys
    /\ UNCHANGED <<crVars, store, alias, data, view, mem, at, waiting, history>>

\* adoptKey on the key behind the alias: one already this CR's is recorded as
\* it is, even while its deletion is scheduled.
adoptKey ==
    /\ pc = "adopt"
    /\ raced' = FALSE
    /\ LET key == keys[at]
       IN  \/ key.state = "Deleted" /\ FailTo("stamp") /\ UNCHANGED mem
           \/ key.state # "Deleted" /\ IsOwnedBy(key.tags) /\ recordKey(at, "Verified") /\ GoTo("stamp")
           \/ /\ key.state # "Deleted" /\ ~IsOwnedBy(key.tags) /\ UNCHANGED mem
              /\ IF CheckExistingOwnership(key.tags, view.spec.adopt, view.spec.from)
                 THEN GoTo(IF key.state = "PendingDeletion" THEN "revive" ELSE "tag")
                 ELSE FailTo("stamp")
    /\ UNCHANGED <<crVars, store, awsVars, view, at, waiting, orphaned, missed>>

\* adoptKey's TagResource, and the record; a disabled key is recorded and
\* reported.
tagAdopted ==
    /\ pc = "tag"
    /\ IF Taggable
       THEN /\ keys' = Tagged(at, ownerTags)
            /\ \/ /\ recordKey(at, "Verified")
                  /\ \/ keys[at].state # "Disabled" /\ GoTo("stamp")
                     \/ keys[at].state = "Disabled" /\ FailTo("stamp")
                     \/ Lost("stamp")     \* ensureKeyPolicy or ensureRotation
                  /\ UNCHANGED orphaned
               \/ Lost("stamp") /\ orphaned' = orphaned \cup {at} /\ UNCHANGED mem
       ELSE FailTo("stamp") /\ UNCHANGED <<keys, mem, orphaned>>
    /\ UNCHANGED <<crVars, store, alias, data, view, at, waiting, missed, raced>>

-----------------------------------------------------------------------------
(* Which key the data needs, and what becomes of a key nobody declares.    *)

\* recordKMSKeyARNs: declared data carries the key the ledger has for it.
Stamped ==
    IF view.spec.data /\ mem.key.arn # NoKey /\ mem.data.state # "None"
    THEN DataIs([mem.data EXCEPT !.key = mem.key.arn])
    ELSE mem

stampInKMS ==
    /\ pc = "stamp" /\ GoTo("cleanup")
    /\ mem' = Stamped /\ at' = NoKey
    /\ UNCHANGED <<crVars, store, awsVars, view, waiting, history>>

stampInIAM ==
    /\ pc = "iam" /\ GoTo("persist")
    /\ mem' = Stamped
    /\ UNCHANGED <<crVars, store, awsVars, view, at, waiting, history>>

\* Mutant: data that was let go no longer holds its key.
HeldWhileVerified == mem.data.state = "Verified" /\ mem.data.key # NoKey /\ mem.data.key = mem.key.arn

\* decisions.KeyHolders: the data's entry holds the key stamped on it.
Held == mem.data.state # "None" /\ mem.data.key # NoKey /\ mem.data.key = mem.key.arn

\* kmsKeysInUse and declaredKeyNames.
KeyDeclared == ~view.deleting /\ (view.spec.key \/ view.spec.data \/ Held)

\* holdKeyForData: retained data keeps its key, draining data makes it wait.
HeldPolicy == IF view.deleting /\ Held THEN "Retain" ELSE mem.key.policy

\* Mutant: retained data makes the key wait as well.
HeldWaitingForAny == view.deleting /\ Held

HeldWaiting == view.deleting /\ Held /\ mem.data.policy = "Delete"

SectionDone == IF view.deleting THEN "persist" ELSE "checkpoint"

Cleanup ==
    /\ pc = "cleanup"
    /\ waiting' = (mem.key.state # "None" /\ HeldWaiting)
    /\ \/ mem.key.state = "None" \/ HeldWaiting
       \/ KeyDeclared
       \/ mem.key.state = "Relinquished" /\ mem.key.fresh /\ HeldPolicy = "Retain"
    /\ mem' = IF mem.key.state # "None" /\ ~HeldWaiting /\ KeyDeclared
              THEN KeyIs([mem.key EXCEPT !.pending = "no"]) ELSE mem
    /\ GoTo(SectionDone)
    /\ UNCHANGED <<crVars, store, awsVars, view, at, history>>

\* The rest of Cleanup's switch: retain, or schedule the deletion.
CleanupUndeclared ==
    /\ pc = "cleanup" /\ mem.key.state # "None" /\ ~HeldWaiting /\ ~KeyDeclared
    /\ ~(mem.key.state = "Relinquished" /\ mem.key.fresh /\ HeldPolicy = "Retain")
    /\ at' = mem.key.arn
    /\ GoTo(IF HeldPolicy = "Retain" THEN "relinquish" ELSE "verify")
    /\ UNCHANGED <<crVars, store, awsVars, view, mem, waiting, history>>

LetGo == KeyIs([mem.key EXCEPT !.state = "Relinquished", !.fresh = TRUE, !.policy = HeldPolicy])

\* Mutant: the tags are taken off whoever's they are.
relinquishUnchecked ==
    /\ pc = "relinquish"
    /\ raced' = FALSE
    /\ \/ keys[at].state = "Deleted" /\ mem' = KeyIs(NoKeyEntry) /\ GoTo(SectionDone)
       \/ keys[at].state # "Deleted" /\ UNCHANGED mem /\ GoTo("untag")
    /\ UNCHANGED <<crVars, store, awsVars, view, at, waiting, orphaned, missed>>

\* relinquishIfStillTagged: the reads ...
relinquish ==
    /\ pc = "relinquish"
    /\ raced' = FALSE
    /\ \/ keys[at].state = "Deleted" /\ mem' = KeyIs(NoKeyEntry) /\ GoTo(SectionDone)
       \/ /\ keys[at].state # "Deleted"
          /\ keys[at].state = "PendingDeletion" \/ ~IsOwnedBy(keys[at].tags)
          /\ mem' = LetGo /\ GoTo(SectionDone)
       \/ /\ keys[at].state \in {"Enabled", "Disabled"} /\ IsOwnedBy(keys[at].tags)
          /\ UNCHANGED mem /\ GoTo("untag")
    /\ UNCHANGED <<crVars, store, awsVars, view, at, waiting, orphaned, missed>>

\* ... and, after the service statements, the tags.
untagKey ==
    /\ pc = "untag"
    /\ IF keys[at].state \in {"Enabled", "Disabled"}
       THEN /\ keys' = Tagged(at, NoTags)
            /\ \/ mem' = LetGo /\ Answered(SectionDone)
               \/ Lost(SectionDone) /\ UNCHANGED mem
       ELSE FailTo(SectionDone) /\ UNCHANGED <<keys, mem>>
    /\ UNCHANGED <<crVars, store, alias, data, view, at, waiting, history>>

\* scheduleDeletion: the reads, the quiet window ...
verifyKey ==
    /\ pc = "verify"
    /\ raced' = FALSE
    /\ LET key == keys[at]
       IN  \/ key.state = "Deleted" /\ mem' = KeyIs(NoKeyEntry)
              /\ GoTo(SectionDone) /\ UNCHANGED waiting
           \/ key.state = "PendingDeletion" /\ GoTo(SectionDone) /\ UNCHANGED <<mem, waiting>>
           \/ /\ key.state \in {"Enabled", "Disabled"} /\ ~IsOwnedBy(key.tags)
              /\ FailTo(SectionDone) /\ UNCHANGED <<mem, waiting>>
           \/ /\ key.state \in {"Enabled", "Disabled"} /\ IsOwnedBy(key.tags)
              /\ IF mem.key.pending = "due"
                 THEN GoTo("schedule") /\ UNCHANGED <<mem, waiting>>
                 ELSE /\ mem' = KeyIs([mem.key EXCEPT !.pending = "quiet"])
                      /\ waiting' = view.deleting /\ GoTo(SectionDone)
    /\ UNCHANGED <<crVars, store, awsVars, view, at, orphaned, missed>>

\* ... and ScheduleKeyDeletion, which ends the entry.
scheduleKeyDeletion ==
    /\ pc = "schedule"
    /\ IF keys[at].state \in {"Enabled", "Disabled"}
       THEN /\ keys' = InState(at, "PendingDeletion")
            /\ \/ mem' = KeyIs(NoKeyEntry) /\ Answered(SectionDone)
               \/ Lost(SectionDone) /\ UNCHANGED mem
       ELSE FailTo(SectionDone) /\ UNCHANGED <<keys, mem>>
    /\ UNCHANGED <<crVars, store, alias, data, view, at, waiting, history>>

-----------------------------------------------------------------------------
(* The data's section, a bucket's say, by what it does to the key's user.  *)

DataDone == IF view.deleting THEN "cleanup" ELSE "checkpointData"

\* Ensure: create or re-encrypt with SharedKeyARN (not within the data's trust
\* window), then record; the upsert keeps the key already stamped on the entry.
ensureData ==
    /\ pc = "data" /\ ~view.deleting /\ view.spec.data
    /\ IF mem.key.arn = NoKey
       THEN FailTo(DataDone) /\ UNCHANGED <<data, mem>>
       ELSE /\ \/ data' = [exists |-> TRUE, key |-> mem.key.arn]
               \/ data.exists /\ mem.data.state = "Verified" /\ UNCHANGED data
            /\ \/ /\ mem' = DataIs([mem.data EXCEPT !.state = "Verified", !.policy = view.spec.dataPolicy])
                  /\ Answered(DataDone)
               \/ Lost(DataDone) /\ UNCHANGED mem
    /\ UNCHANGED <<crVars, store, keys, alias, view, at, waiting, history>>

\* Cleanup: data under Delete waits until it is empty; data under Retain is
\* let go, and its entry kept only while it pins a key (PinsAKey).
cleanupData ==
    /\ pc = "data" /\ (view.deleting \/ ~view.spec.data)
    /\ mem' = IF mem.data.policy = "Delete" THEN mem
              ELSE IF mem.data.state # "None" /\ data.exists /\ mem.data.key # NoKey
              THEN DataIs([mem.data EXCEPT !.state = "Relinquished"])
              ELSE DataIs(NoDataEntry)
    /\ GoTo(DataDone)
    /\ UNCHANGED <<crVars, store, awsVars, view, at, waiting, history>>

\* ... and then it goes.
deleteData ==
    /\ pc = "data" /\ (view.deleting \/ ~view.spec.data)
    /\ mem.data.state # "None" /\ mem.data.policy = "Delete"
    /\ data' = NoData
    /\ \/ mem' = DataIs(NoDataEntry) /\ Answered(DataDone)
       \/ Lost(DataDone) /\ UNCHANGED mem
    /\ UNCHANGED <<crVars, store, keys, alias, view, at, waiting, history>>

-----------------------------------------------------------------------------
(* Checkpoints, and the end of a pass.                                     *)

\* After each section whose status changed.
Checkpoint ==
    /\ \/ pc = "checkpoint" /\ pc' = "data"
       \/ pc = "checkpointData" /\ pc' = "iam"
    /\ \/ /\ store' = mem /\ UNCHANGED err
          /\ view' \in {view, [view EXCEPT !.spec = spec]}
       \/ mem = store /\ UNCHANGED <<store, view, err>>
       \/ ~calm /\ err' = TRUE /\ UNCHANGED <<store, view>>
    /\ at' = NoKey
    /\ UNCHANGED <<crVars, awsVars, mem, waiting, history>>

Unrecorded(ledger) ==
    data.exists /\ data.key # NoKey /\ (ledger.data.state = "None" \/ ledger.data.key # data.key)

Recorded(ledger) == IF ledger.key.state \in {"TagPending", "Verified"} THEN {ledger.key.arn} ELSE {}

EndPass(ledger) ==
    /\ store' = ledger
    /\ missed' = Unrecorded(ledger)
    /\ orphaned' = (orphaned \cup Recorded(mem)) \ Recorded(ledger)
    /\ pc' = "idle" /\ view' = [spec |-> spec, deleting |-> FALSE]
    /\ mem' = EmptyLedger /\ err' = FALSE /\ at' = NoKey /\ waiting' = FALSE /\ raced' = FALSE

FinalizedWhileWaiting ==
    /\ view.deleting /\ ~err
    /\ mem.data.state = "None" \/ mem.data.policy = "Retain"

\* The data no longer blocks, nor does the key.
Finalized ==
    /\ view.deleting /\ ~err /\ ~waiting
    /\ mem.data.state = "None" \/ mem.data.policy = "Retain"

Persist ==
    /\ pc = "persist"
    /\ \/ EndPass(mem)
       \/ ~calm /\ EndPass(store)
    /\ \/ Finalized /\ cr' = "gone"
       \/ ~(Finalized /\ calm) /\ UNCHANGED cr
    /\ UNCHANGED <<spec, calm, awsVars>>

CallFails ==
    /\ ~calm
    /\ \/ pc \in EnsureSteps /\ FailTo("stamp")
       \/ pc \in CleanupSteps \ {"cleanup"} /\ FailTo(SectionDone)
       \/ pc = "data" /\ FailTo(DataDone)
    /\ UNCHANGED <<crVars, store, awsVars, view, mem, at, waiting, history>>

Crash ==
    /\ ~calm /\ pc # "idle"
    /\ EndPass(store)
    /\ UNCHANGED <<crVars, awsVars>>

-----------------------------------------------------------------------------
(* Everybody else.                                                         *)

EditSpec ==
    /\ ~calm /\ cr = "live"
    /\ spec' \in Specs \ {spec}
    /\ UNCHANGED <<cr, calm, store, awsVars, pc, view, mem, err, at, waiting, history>>

DeleteCR ==
    /\ ~calm /\ cr = "live" /\ cr' = "deleting"
    /\ UNCHANGED <<spec, calm, store, awsVars, pc, view, mem, err, at, waiting, history>>

\* Somebody schedules the deletion of a key, or the 30 days of one run out:
\* the alias goes with the key.  Orphans that not even the alias leads to,
\* which no pass looks at again, are left as they are.
Reachable == Keys \ (orphaned \ {alias})

ScheduleOutside ==
    /\ ~calm
    /\ \E k \in Reachable :
         /\ keys[k].state \in {"Enabled", "Disabled"}
         /\ keys' = InState(k, "PendingDeletion")
    /\ UNCHANGED <<crVars, store, alias, data, pc, view, mem, err, at, waiting, history>>

KeyExpires ==
    /\ ~calm
    /\ \E k \in Reachable :
         /\ keys[k].state = "PendingDeletion"
         /\ keys' = InState(k, "Deleted")
         /\ alias' = IF alias = k THEN NoKey ELSE alias
    /\ UNCHANGED <<crVars, store, data, pc, view, mem, err, at, waiting, history>>

RetagOutside ==
    /\ ~calm
    /\ \E k \in Reachable, t \in ForeignTags :
         keys[k].state \in {"Enabled", "Disabled"} /\ keys' = Tagged(k, t)
    /\ raced' = (pc # "idle")
    /\ UNCHANGED <<crVars, store, alias, data, pc, view, mem, err, at, waiting, orphaned, missed>>

\* Somebody points the alias at a key of their own.
AliasOutside ==
    /\ ~calm /\ alias = NoKey
    /\ \E k \in Keys, t \in ForeignTags :
         keys[k].state = "Absent" /\ alias' = k /\ keys' = Made(k, t)
    /\ UNCHANGED <<crVars, store, data, pc, view, mem, err, at, waiting, history>>

\* Time: trust lapses, a relinquished key is due a recheck, a quiet window ends.
Aged(ledger) ==
    [key  |-> [ledger.key EXCEPT !.fresh = FALSE, !.pending = IF @ = "quiet" THEN "due" ELSE @],
     data |-> ledger.data]

Tick ==
    /\ store' = Aged(store) /\ mem' = Aged(mem)
    /\ UNCHANGED <<crVars, awsVars, pc, view, err, at, waiting, history>>

Calm ==
    /\ ~calm /\ calm' = TRUE
    /\ UNCHANGED <<spec, cr, store, awsVars, pc, view, mem, err, at, waiting, history>>
-----------------------------------------------------------------------------
Ensure == \/ ensureKey \/ createKey \/ checkpointKey \/ ensureAlias \/ resumeKey
          \/ takeOverKey \/ cancelKeyDeletion \/ enableKey \/ adoptKey \/ tagAdopted

CleanupKey == \/ stampInKMS \/ Cleanup \/ CleanupUndeclared \/ relinquish \/ untagKey
              \/ verifyKey \/ scheduleKeyDeletion

DataSection == ensureData \/ cleanupData \/ deleteData

Pass == Begin \/ Ensure \/ CleanupKey \/ DataSection \/ Checkpoint \/ stampInIAM \/ Persist

Faults == CallFails \/ Crash

Users == EditSpec \/ DeleteCR

Outside == ScheduleOutside \/ KeyExpires \/ RetagOutside \/ AliasOutside

Next == Pass \/ Faults \/ Users \/ Outside \/ Tick

Spec == Init /\ [][Next]_vars

\* Passes run and go on to their end, time passes, and data that is to be
\* deleted is some day found empty: asked for once faults and edits are over.
FairSpec == /\ Init /\ [][Next \/ Calm]_vars
            /\ WF_vars(calm /\ Pass) /\ WF_vars(calm /\ Tick) /\ SF_vars(calm /\ deleteData)

-----------------------------------------------------------------------------
(* Safety.                                                                 *)

\* A key whose ledger records that data is encrypted with it is never
\* scheduled for deletion by the operator while that data exists: Held and
\* the finalize order keep it, across edits, policy changes, releases and
\* redeclarations.  The exception is data whose key the last pass left
\* unrecorded.
KeyOutlivesData ==
    pc = "schedule" /\ data.exists /\ data.key = at => missed

\* Every usable key tagged as this CR's can be found again: through the
\* ledger or behind the alias.  The exceptions are keys whose ARN was lost
\* between CreateKey and its checkpoint (orphaned).
KeysAreFindable ==
    \A k \in Keys :
        keys[k].state \in {"Enabled", "Disabled"} /\ IsOwnedBy(keys[k].tags)
            => k \in {store.key.arn, mem.key.arn, alias} \cup orphaned

\* A key is untagged or scheduled for deletion only as this CR's own, as read
\* in the same pass.
KeyChangesOnlyOwned ==
    pc \in {"untag", "schedule"} /\ keys[at].state \in {"Enabled", "Disabled"} /\ ~raced
        => IsOwnedBy(keys[at].tags)

\* Once the finalizer is gone no usable key is left tagged as the CR's,
\* except one made or tagged whose record was lost.
FinalizerHoldsKey ==
    cr = "gone" => \A k \in Keys :
        keys[k].state \in {"Enabled", "Disabled"} /\ IsOwnedBy(keys[k].tags) => k \in orphaned

-----------------------------------------------------------------------------
(* Liveness, once faults and edits stop.                                   *)

\* A declared key of this CR whose deletion is scheduled, by whomever, is
\* usable again: resumeKey reads the key's state on every pass.
ScheduledDeletionIsCancelled ==
    \A k \in Keys :
        [](/\ calm /\ cr = "live" /\ spec.key /\ pc = "idle"
           /\ store.key.state = "Verified" /\ store.key.arn = k
           /\ keys[k].state = "PendingDeletion" /\ IsOwnedBy(keys[k].tags)
           => <>(keys[k].state = "Enabled"))

\* Deletion of the CR completes once its data is gone or let go: the key,
\* which waits for it, does not wait for ever.
KeyDeletionCompletes ==
    [](/\ calm /\ cr = "deleting" /\ pc = "idle"
       /\ store.key.state # "None" /\ keys[store.key.arn].state \in {"Enabled", "Disabled"}
              => IsOwnedBy(keys[store.key.arn].tags)
       => <>(cr = "gone"))
=============================================================================
