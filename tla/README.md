# A verification of cloudctl-operator

cloudctl-operator reconciles `AppDependencies` custom resources (CRs) into AWS
resources: SQS queues, SNS topics, S3 buckets, DynamoDB tables, RDS instances,
KMS keys, CloudWatch alarms and an IAM role, plus a ServiceAccount, a ConfigMap
and a Secret in the cluster. This directory models it in TLA+, checks the
models with TLC and proves with TLAPS most of the safety properties, for every
value of the constants.

Sections: [the system](#the-system), [models](#models), [runs](#runs),
[bounds and fairness](#bounds-and-fairness), [finding](#finding),
[behaviours worth knowing](#behaviours-worth-knowing), [proofs](#proofs),
[not modelled](#not-modelled).

## The system

**A pass.** `Reconcile` reads the CR and runs nine sections in order: kms, sqs,
sns, dynamodb, s3, rds, alarms, key policy, iam. A section calls its package's
`Ensure` (bring what is declared about) and then `Cleanup` (deal with what is in
the ledger and no longer declared). One failed section does not stop the next.
When the CR is being deleted, every section's `finalize` runs instead, kms last,
and the finalizer is removed once all of them report done.

**State that survives a pass.**

| where | what |
|---|---|
| the CR's spec | what is declared: deletionPolicy, force, adopt, kmsKeyRef, sharedWith, consumes |
| annotations | adopt-from-uid, force-delete-all, abandon-other-region |
| `status.managedResources` | the ledger: per resource its ARN, captured policy and force, a state (TagPending, Creating, Verified, Relinquished), LastVerifiedAt, PendingDeletionSince, LastEmptyCheckAt, the key it is encrypted with |
| `status.conditions` | one per section, and Ready |
| AWS | the resources, their owner tags, and the deny statement on a resource pending deletion |

**Who acts.** One reconciler per CR (the workqueue never runs two passes of a
CR at once); users who edit and delete CRs; other CRs, which share what they own
and wake each other through watches; producers and consumers of the resources;
other operators and people with access to the account; the clock; AWS itself,
whose counters lag and whose replies get lost.

**What is hard.** Several AWS calls make one change, and the ledger that
records it is written later, by a merge patch whose reply replaces the CR in
memory, spec and generation included. The CR is read from a cache. A pass can
die, or a call or a status write fail, anywhere. Destruction is delayed (quiet
window, emptiness, backoff) and can be cancelled at any moment. Inside the trust
window the ledger stands in for AWS. Keys must outlive data that other sections
clean up. Two CRs that share a database must take their rules and groups down in
an order neither controls. `PROJECT.json` lists these as hazards, each at its
line, with the properties that would catch it.

## Models

| module | what it models |
|---|---|
| `Ownership` | `internal/aws/ownership.go`: owner and UID tags, adoption, takeover from an earlier incarnation |
| `Ledger` | `internal/status/managed_resources.go`: an entry and every timer read from it |
| `QueueLifecycle` | `resources/sqs` and the sqs section: the life of one queue |
| `KeyLifecycle` | `resources/kms`, the kms section and `internal/decisions`: one key and one resource encrypted with it |
| `GatedPass` | what the sns, s3 and dynamodb sections share: the pass, the pending mark, deny, quiet window, release, finalize |
| `TopicLifecycle`, `BucketLifecycle`, `TableLifecycle` | each one's own calls: subscriptions; versions, uploads, purge; deletion protection, table status, the missing table |
| `Stores` | the three side by side, and their refinement of `SafeDeletion` |
| `SafeDeletion` | the abstract promise: closed, noticed, quiet, found empty, destroyed |
| `DatabaseLifecycle` | `resources/rds` rds.go, cleanup.go: one instance and its final snapshots |
| `NetworkAccess` | `resources/rds` securitygroup.go, podnetworkidentity.go: owners and consumers of instances exchanging security groups |
| `DatabaseSettings` | `resources/rds` rds.go, adoption.go, version.go: the settings of an instance against its spec |
| `DatabaseUpkeep` | the two above side by side |
| `ConsumerPass` | `resources/iam/derive.go`: what a reference to another CR resolves to, and the pass of the CR that has it |
| `Subscriptions`, `RoleAccess`, `WorkloadIdentity`, `Alarms` | what depends on such a reference: subscription with the queue's policy; role, policy and ConfigMap; ServiceAccount and trust policy; alarms and the topic's key |
| `Access` | the four side by side |
| `Reconciler` | `internal/controller`, `internal/status`: the pass around the sections |
| `Watches` | `controller/watches`, `controller/predicates`: which change wakes which CR |
| `Operator` | the two above side by side |
| `MC*` | the instances TLC checks |
| `QueueLifecycleProofs` | the proofs about `QueueLifecycle` |
| `KeyLifecycleProofs` | the proofs about `KeyLifecycle` |
| `StoresSteps`, `StoresProofs` | the proofs about `Stores`: what the steps of all three kinds have in common; the actions, `SafeDeletion` and the theorems |
| `DatabaseProofs` | the proofs about `DatabaseLifecycle` |
| `UpkeepProofs` | the proofs about `DatabaseSettings`, and about the consumers of `NetworkAccess`, in `DatabaseUpkeep` |
| `AccessProofs` | the proofs about `Access` and its four parts |
| `OperatorProofs` | the proofs about `Reconciler`, `Watches` and `Operator` |

Modules composed side by side (`Stores`, `DatabaseUpkeep`, `Access`,
`Operator`) have behaviours of each part, chosen at the start: the parts meet in
the code only through the pass, which each of them has, and are stated together
because they promise the same or serve the same object.

**The shape of a pass.** `pc` says where the running pass is ("idle" between
passes), `view` what it has read, `mem` its copy of the ledger, `err` whether it
has met an error. `Begin` reads; every AWS call that changes something is an
action of its own; reads that decide what such a call does are an action before
it; `Persist` writes the ledger and, on deletion, takes the finalizer away. Any
other actor may step in between. Four things can go wrong, each at any point:
`CallFails` (a call has no effect), a lost reply (the effect takes place and the
pass sees an error; inside the action), a failed status write and `Crash`. A
checkpoint writes the ledger early and may replace the spec in `view`.

**QueueLifecycle.** The queue is whether it exists, its tags, the age of its
deny, which of its three message counters are above zero, and the age of its
newest message. `EnsureTrusted` to `reconcileDeclaredPolicy` are `sqs.Ensure`
for one queue. `Cleanup` is the switch over the entry, whose three branches are
`restoreDeclared`, `releaseLookup`/`releaseUntag`/`releaseUndeny` (retain) and
`verifyOwned`/`addPendingDeletionDeny`/`gateOnEmpty`/`deleteQueue`. A deny stops
sends only after `DenyDelay` ticks, and a message may be missing from the
counters for `CounterLag` ticks; `DenyDelay + CounterLag <= DeletionQuietWindow`
is the assumption on AWS that the ten-minute window embodies.

**KeyLifecycle.** Keys are created without a name and found through the ledger
or the alias. `ensureKey` chooses between the entry (`resumeKey`), the alias
(`adoptKey`) and `createKey`. The data's section is reduced to what it does to
the key's user: it appears under the key of the ledger, is released, or is
deleted. `Stamped` is `recordKMSKeyARNs`, run by the kms section and again by the
iam section; `Held`, `HeldPolicy` and `HeldWaiting` decide what an undeclared key
waits for.

**Stores.** `GatedPass` has the switch of `Cleanup` once, with the steps that
differ left to the modules that extend it. `SafeDeletion` sees a resource only
while it is the CR's own: it is closed, then noticed (the persisted pending
mark), and doomed as "drained" only after the notice has stood for the window
and it is empty, or as "forced". What the operator cannot know is explicit
there: a resource may be reopened while the ledger still says pending, which
excuses it until the ledger has caught up. The list of a topic's subscriptions may
miss one for `ListLag` ticks (`hasSubscriptions`), which with `DenyDelay` has to fit
into the window, as for queues; buckets and tables are read as they are.

**DatabaseLifecycle.** The operator never deletes an instance: one removed from
the spec waits for somebody to do it, and gets a final snapshot named after the
instant the removal was noticed, the episode. Two names are enough for any
number of episodes, since a name nothing refers to any more can be used again. From
the call that creates or adopts the instance until a status write records it,
`unrecorded` has the `Claim`.

**NetworkAccess.** The passes of an owner and of a consumer interleave call by
call; each reads the other's ledger as it was when it looked. EC2 refuses to
delete a group that a rule or a network interface names; a group created again
has another ID, so an ID that outlives its group is `Dead`.

**DatabaseSettings.** An instance has settings and changes that are `due` in the
maintenance window. One step describes it and computes the modification, the next
sends it; AWS, people and autoscaling act in between (`raced`).

**Consumers.** The producer is a CR that exists or not, declares the resource,
shares it, has published it, and whose resource exists; `ProducerPass` brings
the latter in line with the former. The consumer asks again in every section,
so the answer may change within a pass. Of a role the ledger has, the tags are read
only outside the trust window; inside it the policy is written without
(`ensureRolePolicy` at `"trusted"`). The tags of alarms are read before, and in a
step of their own from, the calls that replace, put or delete them.

**Reconciler.** A section succeeds, fails, or waits; the subject is what the pass
makes of that. The pass starts from `cache`, which lags behind `api`; a status
patch carries only the lists that differ from the copy it started from, and a
finalizer patch is refused unless the version is current; a status write that
fails is retried soon or not, like any error (`WriteErrors`). `queued` and `armed`
are what will wake the CR: a request in the queue, and the delayed one the last
result asked for.

**Watches.** `Inputs` is what a pass of a CR acts on of other CRs and of the
grant; `seen` is what its last pass found. An event is a difference between server
and cache. Each watch is its predicate and its map function, over the indexes. One
set, `shares`, stands for what a CR shares of every type.

**Time.** `Ledger` keeps a timestamp as its age, which stops growing at `MaxAge`.
Since `MaxAge` tells both sides of every threshold apart, time is unbounded and the state finite.
The other modules need only whether a window has passed.

**History variables** (`lifted`, `claimed`, `forgotten`, `raced`, `moved`,
`orphaned`, `missed`, `lost`, `unrecorded`, `removed`, `agreed`, `missing`) feed
no action of the operator. They name the exceptions in the properties: an effect
whose record was lost, a resource that changed hands between the operator's read
and its write, a spec replaced half way through. Each property says what holds
outside its exception; what happens inside is under
[behaviours worth knowing](#behaviours-worth-knowing). `orphaned` is also read by
`Reachable`, which stops outsiders from acting on keys no pass will look at
again, and `unrecorded` decides when the name of a snapshot may be used again.

## Runs

| run | shows |
|---|---|
| `queue_delete` | **DeletesOnlyDrained**: without force nothing undrained is deleted, whatever the counters' lag. **PendingMeansDenied**: a pending entry means a denied queue. **CleanPassSettles**: a pass without error leaves the entry as the spec it read. |
| `queue_ownership` | **ChangesOnlyOwned**: a cleanup changes only a queue whose tags it has just read as its own. **FinalizerHoldsQueue**: no queue is left tagged after the CR is gone. **TypeOK** |
| `queue_liveness` | **DeclaredQueueOpens**: a declared queue ends up open to sends. **DeletionCompletes** |
| `key_data` | **KeyOutlivesData**: a key goes after its data. **KeysAreFindable**: none of the CR's keys is lost sight of. **FinalizerHoldsKey** |
| `key_ownership` | **KeyChangesOnlyOwned**. **ScheduledDeletionIsCancelled**: a declared key does not stay doomed. **KeyDeletionCompletes** |
| `stores_safe` | **DeletesSafely**: topic, bucket and table implement `SafeDeletion`, and what is destroyed for being empty is empty. **LostTableIsNotReplaced**: a table somebody deleted is not silently made anew. **FinalizerHoldsResource** |
| `stores_live` | **ChangesOnlyOwned**, **DeletionCompletes** for the three |
| `database` | **LostInstanceIsNotReplaced**. **SnapshotsAreKnown**: ledger and final snapshots agree. **RemovedInstanceIsBackedUp**: an instance removed from the spec gets the snapshot of that removal. **CancelledDeletionSettles**: one declared again has it retired. **FinalizerHoldsInstance** |
| `upkeep` | **AccessFollowsSharing**: the rules of an instance come to name the groups its sharing asks for. **ReleaseCompletes**: a consumer is not let go before its group is deleted, and is not held for ever. **NothingDraggedEarly**: no change meant for the maintenance window is applied by another. **NeverWeaker**: storage, backups, version and protection are not taken away. **AdoptionResizesNothing**. **AgreementLasts**: a pass that ends well leaves what is asked for, and it is not asked for again |
| `access` | **SkippedIsInPlace**: what a pass skips as already done is in place. **FinalizerHoldsAccess**: nothing derived survives the CR. **AccessChangesOnlyOwned**: roles, alarms, accounts and policy statements of others are left alone, but for the policy of a role that was retagged inside its trust window. **AccessSettles**: grants follow the producer's sharing |
| `operator` | **ReadyIsEarned**: Ready for a generation means every section's condition is True for it. **NoneForgotten**: something will wake the CR, and without the drift timer if what it depends on has changed. **FinalizerHoldsCR**: the finalizer is there before anything is created and until everything is gone. **StaysInItsRegion**, **FirstRetryIsSoon**, **CRSettles** |
| `queue_pending_open` | a violation ([finding](#finding)) |

Each property has a mutant in `PROJECT.json`: a plausible slip in one mapped
definition (a counter overlooked, a deny written late, a failed read taken for
absence) that makes TLC find the property violated. The type invariants of the
modules hold in the same instances; the one that is proved is in a run.

## Bounds and fairness

- One resource of each type; one alias with at most two keys (`Keys`) and one
  resource that uses them. The properties are about one resource, and resources
  meet only through keys, the pass and checkpoints. Two keys are enough to lose
  one and make another.
- Windows of zero to two ticks, and ages up to `MaxAge`: every comparison is seen
  on both sides of its threshold. `queue_delete` has `DenyDelay = CounterLag = 1`
  and `stores_safe` `DenyDelay = ListLag = 1` against a window of 2, the tight case.
- Specs: Delete with and without force (`queue_delete`); a Retain entry that may
  adopt and take over next to a Delete entry that may not (`queue_ownership`);
  data under Retain and Delete (`key_data`); Delete and Retain with and without
  deletion protection (`stores_safe`); takeover (`stores_live`). Tags: nobody's,
  another CR's, the previous incarnation's.
- `database`: two names of final snapshots. `upkeep`: one owner, one consumer, one
  VPC; settings with two classes, two major versions, two sizes. `access`: one
  producer, one consumer, two ARNs, accounts and alarms; somebody else may make,
  edit and delete alarms in the middle of a pass.
- `operator`: two generations (`MaxGeneration`), so that a pass can be of an older
  one; two sections, one of them global; two regions; two faults in a row
  (`MaxFaults`) of which the second is beyond `LongAfter`; two CRs in `Watches`.
  There the wake-ups of one CR (`subject`) are followed, and the grant changes only
  in behaviours without the other CR, since no watch relates the two; a version
  that follows both at once, of 9.8 million states, was checked as well.
- Keys are interchangeable (`Symmetry`) in the run without temporal properties.
- Faults and edits are unbounded, but for `MaxFaults` and `MaxGeneration`. The
  specifications of liveness add `Calm`, after which there are none: a system
  that is edited or crashes for ever promises nothing.

Fairness:

- weak on `Pass`, `OwnerPass` and `ConsumerPass`: the workqueue requeues every CR,
  at the latest after the drift interval, and a pass runs under deadlines to its
  end. `Reconciler` does not presume the first half: there a pass starts only from
  a request in the queue, and weak fairness is on taking it and on `Deliver`, by
  which the watches and the delayed queue make one;
- weak on `Tick` and `Clock`;
- weak on `Drain` (consumers empty what no longer receives), `TableSettles`,
  `InstanceSettles`, `SnapshotSettles` (AWS finishes what it began), `PodStops`
  (the pods of a CR that is going go), `Producing` (the producer's own passes);
- strong on `deleteData` (data that is to be deleted is some day found empty).

In `KeyLifecycle`, `DatabaseLifecycle` and `Access` fairness is asked for only once
`calm` holds. That assumes less, and is enough: each of their liveness properties
starts from a calm state, and calm lasts.

Nothing is assumed of users, producers of messages or outsiders.

Deadlock is checked except in `access` and `operator`, where nothing happens any
more once the CR is gone and all is quiet.

## Finding

`queue_pending_open` checks a sentence of `docs/architecture.md` (line 66: a resource to be
deleted "is marked `PendingDeletion` and denied new writes") and expects a
violation. `restoreDeclared` lifts the deny before the cleared entry is persisted;
when a queue is redeclared, that write is lost, and the queue is undeclared again,
`gateOnEmpty` finds `PendingDeletionSince` set and does not write the deny. The
queue is pending, open to sends, and stays so. (It is not deleted with messages in
it as long as the counters show them.)

## Behaviours worth knowing

What the models do that a reader of the code may not expect. The properties are
stated so that these are exceptions, and the definitions show them.

**Release and refusal.**
- A retained queue is released tags first, deny second. After a failure between
  the two the next pass no longer recognises it, and its producers stay denied
  (`sqs/cleanup.go:516`; the comment at 481-486 promises both). A retained bucket
  that was pending keeps its deny (`s3/cleanup.go:509`).
- `Cleanup` runs after an `Ensure` that failed: a declared, pending queue that
  `Ensure` has just refused is edited by `restoreDeclared` without its tags being
  read (`sqs/cleanup.go:173`).
- When a dropped queue's entry leaves the ledger before its subscription does, the
  subscription is not found again (`sqs/cleanup.go:366`) and blocks the topic's
  deletion. The same follows a lost `Subscribe` reply.

**Keys.**
- A new entry carries its key only after the kms or the iam section has run again;
  a pass that ends before leaves it unstamped (`section_iam.go:94`).
- A pass that ends between CancelKeyDeletion and EnableKey leaves the key disabled;
  the next one reports it and does not enable it (`kms.go:554`).

**Databases.**
- An instance removed from the spec, deleted by hand and declared again has its
  final snapshot, by then the last copy, deleted (`rds/cleanup.go:145`).
- A final snapshot somebody else deleted makes every pass fail
  (`rds/cleanup.go:386`).
- A group created when the authorisation that follows fails is not recorded; one
  consumer group that has vanished fails the whole authorisation call; a consumer
  that moves to another VPC leaves its old group. An owner without a grant only
  narrows the rules of a group it knows (`Governs`).
- An instance modified by somebody between describe and modify may have a retention
  raised since lowered (`raced`). An engine version that is refused holds up the
  other changes. The pass that adopts turns backups on, though "Adoption must not
  change an instance" (`adoption.go:36`).

**Derived access.**
- A ServiceAccount the operator created for the network label is refused when it is
  to be annotated (`serviceaccount.go:119`). One released from a stale status name
  loses another CR's claim.
- A role ensured within the trust window after its policy was deleted carries none
  until the window lapses (`iam.go:120`).
- A role that somebody retags as theirs within the trust window still gets the CR's
  policy when that changes (`iam.go:112-124`), and its trust policy is put back
  (`iam.go:238-244`; `WorkloadIdentity` has the trust policy without the tags of the
  role). `RoleChangesOnlyOwned` has the first as its exception.
- An alarm whose topic reference is not authorised keeps all alarms from being
  reconciled or deleted. An alarm deleted between list and put comes back untagged
  and is refused from then on (`alarms.go:385`); one that somebody makes between the
  two is overwritten and stays theirs (`raced`).

**The pass.**
- A checkpoint inside a section brings in a newer generation, for which the section
  then reports success (`desiredstate.go:59`). `ReadyIsEarned` is about what
  the conditions say, which is then more than the section did.
- A deletion pass from a lagging copy of the CR writes that copy's ledger, without
  an entry added since. A deletion pass with errors leaves Ready as it was.
- Waits count toward the transient backoff, and neither a refusal nor a failed
  `ensureFinalizer` resets it.
- A List that fails in a map function drops the wake-ups (`producer_consumer.go:70`);
  the drift timer is what is left.

## Proofs

TLC checks one instance; the theorems hold for every value of the constants that
satisfies the named assumptions. `Spec` is the specification without fairness,
`FairSpec` the one the liveness properties are checked of.

| theorem | module | states |
|---|---|---|
| `TypeCorrect` | `QueueLifecycleProofs` | `Spec => []TypeOK` |
| `Invariance` | `QueueLifecycleProofs` | `Spec => []IInv` |
| `DrainedBeforeDeletion` | `QueueLifecycleProofs` | `Spec => []DeletesOnlyDrained` |
| `OwnedBeforeChange` | `QueueLifecycleProofs` | `Spec => []ChangesOnlyOwned` |
| `DeniedWhilePending` | `QueueLifecycleProofs` | `Spec => []PendingMeansDenied` |
| `DeclarationSettles` | `QueueLifecycleProofs` | `Spec => []CleanPassSettles` |
| `FinalizerWaits` | `QueueLifecycleProofs` | `Spec => []FinalizerHoldsQueue` |
| `DataKeepsItsKey` | `KeyLifecycleProofs` | `Spec` and `FairSpec` imply `[]KeyOutlivesData` |
| `KeysStayFindable` | `KeyLifecycleProofs` | `Spec` and `FairSpec` imply `[]KeysAreFindable` |
| `OnlyOwnKeysChange` | `KeyLifecycleProofs` | `Spec` and `FairSpec` imply `[]KeyChangesOnlyOwned` |
| `FinalizerOutlastsKey` | `KeyLifecycleProofs` | `Spec` and `FairSpec` imply `[]FinalizerHoldsKey` |
| `StoresDeleteSafely` | `StoresProofs` | `Spec => DeletesSafely`: the refinement |
| `OnlyOwnedIsChanged` | `StoresProofs` | `Spec` and `FairSpec` imply `[]ChangesOnlyOwned` |
| `FinalizerWaitsForResource` | `StoresProofs` | `Spec` and `FairSpec` imply `[]FinalizerHoldsResource` |
| `LostTableStaysLost` | `StoresProofs` | `Spec` and `FairSpec` imply `[]LostTableIsNotReplaced` |
| `DatabaseInvariant` | `DatabaseProofs` | `Spec` and `FairSpec` imply `[]DatabaseInv` |
| `LostInstance` | `DatabaseProofs` | `Spec` and `FairSpec` imply `[]LostInstanceIsNotReplaced` |
| `KnownSnapshots` | `DatabaseProofs` | `Spec` and `FairSpec` imply `[]SnapshotsAreKnown` |
| `FinalizedInstance` | `DatabaseProofs` | `Spec` and `FairSpec` imply `[]FinalizerHoldsInstance` |
| `NetworkInvariant` | `UpkeepProofs` | `UpkeepSpec => []NetworkInv` |
| `ReleasesFirst` | `UpkeepProofs` | `UpkeepSpec => ReleaseWaits`, the safety half of `ReleaseCompletes` |
| `UpkeepInvariant` | `UpkeepProofs` | `UpkeepSpec => []UpkeepInv` |
| `DraggedEarly` | `UpkeepProofs` | `UpkeepSpec => NothingDraggedEarly` |
| `Weaker` | `UpkeepProofs` | `UpkeepSpec => NeverWeaker` |
| `Adoption` | `UpkeepProofs` | `UpkeepSpec => AdoptionResizesNothing` |
| `Agreement` | `UpkeepProofs` | `UpkeepSpec => AgreementLasts` |
| `AccessInvariant` | `AccessProofs` | `Spec` and `FairSpec` imply `[]AccessInv` |
| `SkippedAccess` | `AccessProofs` | `Spec` and `FairSpec` imply `[]SkippedIsInPlace` |
| `FinalizedAccess` | `AccessProofs` | `Spec` and `FairSpec` imply `[]FinalizerHoldsAccess` |
| `OwnedAccess` | `AccessProofs` | `Spec` and `FairSpec` imply `AccessChangesOnlyOwned` |
| `ReadyEarned` | `OperatorProofs` | `OperatorSpec => []ReadyIsEarned` |
| `NoCRForgotten` | `OperatorProofs` | `OperatorSpec => []NoneForgotten` |
| `FinalizerHolds` | `OperatorProofs` | `OperatorSpec => FinalizerHoldsCR` |
| `RegionKept` | `OperatorProofs` | `OperatorSpec => StaysInItsRegion` |
| `FirstRetrySoon` | `OperatorProofs` | `OperatorSpec => FirstRetryIsSoon` |

**Assumptions.** `OwnershipAssumption` (the CR's tags are nobody else's),
`LedgerAssumption` (windows within `MaxAge`, a positive quiet window),
`QueueAssumption` and `GateAssumption` (what may be declared; a deny takes effect
within the quiet window, with the lag of a queue's counters or of a topic's list on
top),
`KeyAssumption` (specs and tags are of their types, no key is `NoKey`),
`KindsAssumption`, `EpisodesAssumption` (there are at least two names for final
snapshots, so that a removal always finds one not in use; foreign tags are not the
CR's), `NetworkAssumption` (no CR is an owner and a consumer, none is named like the
words for a group there is not), `SettingsAssumption` (spec entries and instances are of their types, and of
some engine versions one is not older than any other), `PartsAssumption` and
`NamesAssumption` (ARNs, accounts and alarms are told apart from the words that
mean there is none; the CR's own account is among the accounts; an alarm that is
declared is one the operator knows), `ReconcilerAssumption` (at least one section,
regions told apart from the words the ledger uses), `OperatorAssumption`
(references are to CRs). TLC evaluates each on the instances. No set of keys,
specs, snapshots, settings, versions, VPCs, ARNs, accounts, alarms, CRs, sections,
regions or tags is bounded by them.

**Queues.** None of the properties is inductive. That a queue about to be deleted
is drained takes a chain of facts, and `IInv` is that chain: a
deletion under way is of a verified Delete entry pending for at least the quiet
window (`DeletionShape`); the deny of a pending queue is at least as old as the
pending mark (`DeniedSince`); no message is more than `DenyDelay` younger than the
deny (`SendsStopped`); so every message is older than `CounterLag`, and counters
read as zero are zero. `PassShape` ties control to the declaration the pass read,
`Tracked` and `ForgottenShape` tie the tags to the ledger, `SettledSoFar` follows
a clean pass over a declared queue. The types come first, then what steps change
of entries and queues, then control, then the rest. Each part of `IInv` has its own lemma: from `IInv`, `TypeOK'` and a step follows
that part in the next state.

**Keys.** `KeyInv` adds to the properties that the entry of a step's ledger names
the key the step works on (`Control`); that every usable key of the CR's is in the
ledger the next step starts from, or was lost (`Tracked`); that a deletion pass
leaves the persisted entry as it was until it is done with the key, and that
neither ledger then names a key still the CR's (`Deletion`); and that until the
data's section has run, the pass's ledger says what the last pass left of the
data (`Holding`). The last is why a key goes after its data: at
`ScheduleKeyDeletion` the entry does not hold the key and the entry is right about
the data. The steps of `Ensure`, of `Cleanup`, of the data and of the end of a pass
share lemmas about what they leave alone (`EnsureFrame`, `DoneFrame`, `DataFrame`,
`EndPassKeeps`, ...); each action then has a lemma.

**Topics, buckets and tables.** The steps of the three come down to a dozen
effects. An `Ensure` step (`EnsureKeeps`), a move inside a cleanup (`MovesKeep`)
and its end (`EndsKeeps`) with such an effect are shown to keep `CoreInv` and to be
a step of `SafeDeletion` or none (`Promised`); then the effect of every action is
found. `CoreInv` says that what is tagged as the
CR's is recorded both in the status and in the pass's copy unless the ledger never
learnt of it (`ClaimInv`), that a mark is no older than the deny and an attempt to
destroy without force follows a mark as old as the window (`NoticeInv`), and which
steps meet which entry (`ControlInv`). `LossInv` adds what is known of a lost
table, and `Timely` that what the list may still miss came before the deny took
effect. That `SafeDeletion` itself keeps what is doomed for being empty empty is
`EmptyWhenDoomed`, from its own steps by `SafeInv`; `LongEnough`, which it needs, is
`GateAssumption`'s bound on delay and lag.

**Instances and their snapshots.** A lost instance is not replaced because a pass
over a declared instance that the persisted ledger tracks never forgets it
(`Missing`), and creates only what its own copy does not track (`Control`).
`SnapshotsAreKnown` speaks of the persisted ledger; `Snapshots` says the same of
the pass's copy; that until a new episode may begin at most one name is in use and
the copy agrees with the persisted ledger on it, so that the new episode finds
another; and that the snapshot of a pending episode exists only if it is the one
the ledger has (`Sole`).
`Claims` follows the tags to the finalizer: an instance with the CR's tags that the
status does not track is an unrecorded claim, and one the copy does not track the
status does not track either.

**Network access.** That a consumer's finalizer outlasts the group its ledger
records is not inductive: the pass that ends the CR no longer has the group in its
copy, because an earlier step deleted it. `NetworkInv` says of each consumer that
what it has written down is its own, so nobody else's step deletes it; that what a
pass is about to delete is what the ledger records; and that a deletion pass at its
status write that met no error leaves no group recorded but one that is `Dead`. An
owner's steps, pods and users leave a consumer's part as it is (`OwnerKeeps`,
`OutsideKeeps`).

**Settings.** The four properties rest on one fact about the operators: once
`ModifyDBInstance` accepts a request, what the instance has or is about to have
(`effectiveAttributes`) is the request over what it was before (`AcceptedEffect`, by
way of `Landed` and `NowFacts`). `SettingsInv` adds that what the pass described
is still so unless `raced`, that an adopting pass found the instance adoptable, and
that after a pass that agreed nothing is left to ask for (`Met`), which the
maintenance window, a change completing and autoscaling all preserve.

**Derived access.** A pass may lose its status write, so each part's invariant
says of the persisted status between passes, and of the pass's copy within one,
that it knows what exists or the history says what was lost (`SubKnown`,
`RoleKnown`, `ClaimKnown`, `AlarmsKnown`). Beyond that each says what the pass has
read and relies on at each of its steps: for the role, whose tags it has when it is
about to be taken over, written to or deleted; for the account, that it may be
claimed and is the only one; for alarms, that one not listed and still to be seen to
is not there, and whose tags the one has that is about to be replaced, put or
deleted (`NextTags`); for the queue's policy, that the document read has the statements
of others. `AccessInv` is the invariant of the part the behaviour is about.

**The pass and the watches.** `PassInv` relates the four
copies of a CR: the server's, the cache's, the one the pass works on and the one it
patches against. All have their Ready earned, since a patch sends the whole list;
the cache is an earlier version of the server's, whose finalizer and deletion are
for good (`Follows`); a pass that creates works for a CR the finalizer holds
(`HoldInv`); a copy without resources of another region means the server's is
without (`LocalInv`); what a deletion pass took out of its ledger is gone from AWS
(`ClearedInv`). `WatchInv` says that unless the subject is about
to be woken, its last pass found what the cache says now; its proof shows for each
watch that an event its predicate or its map function drops leaves `Inputs` as it
was.

TLC checked each invariant on an instance before it was proved.

**Only model-checked:**

- the liveness properties of all runs, `AccessFollowsSharing`, the second half of
  `ReleaseCompletes` and `RemovedInstanceIsBackedUp` among them (TLAPS has no
  fairness or ENABLED here); they are all that runs check and no theorem states;
- the owner's side of `NetworkAccess`, whose only property is of that kind;
- that the type invariants of the modules hold, beyond what the invariants above
  say of types.

## Not modelled

`PROJECT.json` gives each component's standing. Left out, with the reason:

- **No effect on the system, or none of their own:** start-up and wiring, the
  kubectl plugin (it reads, and its annotations are the edits of the users),
  metrics, traces and events, generated code, test support.
- **Adapters:** AWS clients, error classes, rate limits, credentials health. A call
  is an effect with a reply that may be lost. Throttling is a failed call.
- **Conversions of text:** names, ARNs and tags as strings, parsing and merging of
  policy documents beyond statements and their Sids, schema validation.
- **Reports:** the parts of the status that say who consumes what, and how what is
  encrypted; reasons and messages.
- **Settings reconciled in one step without a protocol:** queue attributes, FIFO,
  bucket encryption, lifecycle rules and exposure warnings, point-in-time recovery,
  billing and key schema of tables, key rotation. What could be said of them
  restates the assignment.
- **More of the same protocol:** dead-letter queues (a queue with its own entry),
  dedicated keys (a key with its own entry).
- **The credentials Secret** and connection information: a copy of what the
  instance reports.
- **Full key policies:** only whether a topic's or a queue's key admits its user.
- **Cached reads in the lifecycles.** `Begin` of a lifecycle reads the status as it
  is; that the CR comes from a cache that lags (`appdependencies_controller.go:97`) is
  in `Reconciler` only.
- **Reads and writes taken together:** the description of a table and the update of
  its settings; the lookup of a security group and its creation. EC2 reads that lag
  (`securitygroup.go:333-341`) make a pass fail and the next one go on, as a call
  that fails does.
- **Further watches:** the CR's own ConfigMap, Secret and ServiceAccount
  (`appdependencies_controller.go:256-261`), which wake it when somebody edits them.
- **Refusals like others:** the ServiceAccount named `default`
  (`serviceaccount.go:95`); adoption of a public instance (`adoption.go:167`), of one
  with another MultiAZ (as another class). Of an instance's security groups only the
  operator's own is there: `withSecurityGroup` keeps the others.
- **All sections in one model.** The lifecycles have the pass around one section
  each, `Reconciler` has it around abstract ones; a product of them is out of TLC's
  reach.
