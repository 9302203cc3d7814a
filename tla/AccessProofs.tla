---------------------------- MODULE AccessProofs ----------------------------
(***************************************************************************)
(* What a status that a pass may lose still guarantees about the access it *)
(* records, for any ARNs, ServiceAccounts, alarms and declarations of      *)
(* alarms.  Each part has an invariant of its own, which says what the     *)
(* pass has read and recorded at each of its steps.                        *)
(***************************************************************************)
EXTENDS Access, TLAPS

-----------------------------------------------------------------------------
(* The invariants.                                                         *)

\* A subscription that the ledger does not have is one the history calls lost.
SubKnown(ledger) == Untracked(ledger) => "subscription" \in lost

\* Between passes the persisted ledger knows the subscription; in a pass the
\* pass's own does, until Cleanup looks at the subscriptions of a queue whose
\* entry may be gone by then; after Unsubscribe there is none.  What others put in
\* the policy is in the document read.
SubInv ==
    /\ SubscriptionTypeOK
    /\ cr = "gone" => pc = "idle" /\ ~store.queue
    /\ pc = "idle" => SubKnown(store)
    /\ pc \in {"queue", "resolve", "subscribe", "allow", "grant", "cleanup", "key", "persist"} => SubKnown(mem)
    /\ pc \in {"resolve", "subscribe", "allow", "grant"} => mem.queue
    /\ pc \in {"revoke", "unsubscribe"} =>
         /\ aws.sub \in {NoArn, mem.sub} \/ "subscription" \in lost
         /\ mem.queue \/ ~(view.spec.declared /\ ~view.deleting)
    /\ pc \in {"unallow", "ungrant"} => aws.sub = NoArn \/ "subscription" \in lost
    /\ pc \in {"grant", "ungrant"} /\ "other" \in aws.policy => "other" \in view.doc \/ "edit" \in lost

\* The role is recorded and its digest right in the ledger, or the history says why not.
RoleKnown(ledger) ==
    /\ aws.role.tags = "ours" /\ ~ledger.role => "role" \in lost
    /\ Differs(ledger) => lost \cap {"policy", "stripped"} # {}

\* A role about to be taken over, given its policy or deleted has the tags the pass
\* has read, and one that is trusted is in the ledger; a pass
\* over a CR being deleted that met no error has let go of the role.
RoleInv ==
    /\ RoleTypeOK
    /\ ~aws.role.exists => aws.role = NoRole
    /\ cr = "gone" => pc = "idle" /\ ~store.role
    /\ RoleKnown(IF pc = "idle" THEN store ELSE mem)
    /\ pc = "takeOver" /\ aws.role.exists => aws.role.tags = "previous" \/ "raced" \in lost
    /\ pc \in {"policy", "deletePolicy", "deleteRole"} /\ aws.role.exists => aws.role.tags = "ours" \/ "raced" \in lost
    /\ pc = "trusted" => mem.role
    /\ pc = "deleteRole" => "stripped" \in lost
    /\ pc \in {"map", "persist"} /\ view.deleting /\ ~err => ~mem.role

\* The accounts that carry the role are the one the status names, or a claim was lost.
ClaimKnown(status) == Claimed \subseteq {status.sa} \/ "claim" \in lost

\* The account about to be claimed may be, unless it changed since it was read, and
\* is then the only one.  A pass over a CR being deleted claims nothing, and without
\* an error leaves neither trust nor claim.
IdentityInv ==
    /\ IdentityTypeOK
    /\ cr = "gone" => pc = "idle" /\ store.sa = None /\ aws.trust = None
    /\ ClaimKnown(IF pc = "idle" THEN store ELSE mem)
    /\ pc \in {"release", "apply"} =>
         LET sa == aws.sa[Target]
         IN  sa.owner = "ours" \/ (sa.owner = None /\ sa.consents) \/ ~sa.exists \/ "raced" \in lost
    /\ pc = "release" => mem.sa # Target
    /\ pc = "apply" => Claimed \subseteq {Target} \/ "claim" \in lost
    /\ view.deleting => pc \notin {"label", "release", "apply"}
    /\ view.deleting /\ pc = "sync" => ~mem.role
    /\ view.deleting /\ ~err /\ pc \in {"sync", "drop", "persist"} => aws.trust = None
    /\ view.deleting /\ ~err /\ pc = "persist" => mem.sa = None

\* A status that says there are no alarms is right, or the history says why not.
AlarmsKnown(status) == status = "no" /\ (\E n \in Names : Mine(n)) => "alarm" \in lost

\* The steps that see to the declared alarms, and the tags that the alarm about to be
\* replaced or put may have.
Walking == {"alarm", "replace", "put"}
NextTags == IF pc = "replace" THEN {"absent", "previous"}
            ELSE IF view.next.create THEN {"absent"} ELSE {"absent", "ours"}

\* An alarm that was not listed and is still to be seen to does not exist, nor does
\* one about to be created; one about to be changed or deleted is the CR's and one
\* about to be replaced its predecessor's, if it is there: unless somebody changed one
\* meanwhile.  Whatever the CR has and does not declare was listed, and is about to be
\* deleted unless a call failed.
AlarmInv ==
    /\ AlarmTypeOK
    /\ cr = "gone" => pc = "idle" /\ \A n \in Names : ~Mine(n)
    /\ cr = "deleting" => spec.alarms = {}
    /\ view.deleting => view.spec.alarms = {} /\ pc # "ensure"
    /\ pc = "idle" => AlarmsKnown(store)
    /\ pc # "idle" /\ (pc \in Walking \cup {"delete"} => view.spec.alarms = {}) => AlarmsKnown(mem)
    /\ pc \in Walking =>
         /\ \A n \in Names \ view.spec.alarms : Mine(n) => Exists(view.listed[n])
         /\ "raced" \in lost \/ \A n \in view.todo : Exists(view.listed[n]) \/ ~Exists(aws.alarms[n])
         /\ view.todo \subseteq view.spec.alarms
    /\ pc \in {"replace", "put"} =>
         /\ view.next.name \in view.spec.alarms /\ view.next.name \notin view.todo
         /\ "raced" \in lost \/ aws.alarms[view.next.name].tags \in NextTags
    /\ pc = "replace" => view.next.create /\ view.spec.takeOver
    /\ pc = "delete" =>
         /\ "raced" \in lost \/ \A n \in view.todo : aws.alarms[n].tags \in {"absent", "ours"}
         /\ view.failed \/ \A n \in Names \ view.spec.alarms : Mine(n) => n \in view.todo
    /\ pc = "persist" /\ view.deleting /\ ~err => \A n \in Names : ~Mine(n)

AccessInv ==
    /\ part \in Parts
    /\ part = "subscription" => SubInv
    /\ part = "role" => RoleInv
    /\ part = "identity" => IdentityInv
    /\ part = "alarms" => AlarmInv

-----------------------------------------------------------------------------
(* The producer.                                                           *)

\* The producer's pass, and an edit of its spec, leave a producer.
LEMMA ProducerTyped ==
  ASSUME producer \in Producers,
         \/ ProducerPass
         \/ EditProducer({Sharing("None", FALSE), Sharing("Read", FALSE)})
         \/ EditProducer({Sharing("None", FALSE), Sharing("ReadWrite", TRUE)})
         \/ EditProducer({Absent, Silent, Sharing("None", FALSE), Sharing("Read", FALSE)})
  PROVE  producer' \in Producers
<1>1. CASE ProducerPass
  BY <1>1, Zenon DEF ProducerPass, Producers
<1>2. ASSUME NEW level \in {"None", "Read", "ReadWrite"}, NEW encrypted \in BOOLEAN
      PROVE  As(Sharing(level, encrypted)) \in Producers
  BY DEF As, Sharing, Producers
<1>3. As(Absent) \in Producers /\ As(Silent) \in Producers
  BY DEF As, Absent, Silent, Producers
<1>4. CASE ~ProducerPass
  <2>1. \/ producer' = As(Absent) \/ producer' = As(Silent)
        \/ \E level \in {"None", "Read", "ReadWrite"}, encrypted \in BOOLEAN :
              producer' = As(Sharing(level, encrypted))
    BY <1>4, ZenonT(40) DEF EditProducer
  <2>2. QED
    BY <1>2, <1>3, <2>1, Zenon
<1>5. QED
  BY <1>1, <1>4, Zenon

-----------------------------------------------------------------------------
(* Subscriptions.                                                          *)

\* Between passes nothing is read.
LEMMA SubIdle ==
  /\ SubscriptionIdleView \in [spec : SubscriptionSpecs, deleting : BOOLEAN, doc : SUBSET Statements]
  /\ NoSubscriptionLedger \in [queue : BOOLEAN, sub : Arns \cup {NoArn}]
BY DEF SubscriptionIdleView, NoSubscriptionLedger, SubscriptionSpecs, NoSubscriptionSpec

\* The invariant holds at first.
LEMMA SubStarts ==
  ASSUME SubscriptionInit
  PROVE  SubInv
<1>1. NoProducer \in Producers
  BY DEF NoProducer, Producers
<1>2. SubscriptionTypeOK
  BY <1>1, SubIdle, ZenonT(40) DEF SubscriptionInit, PassInit, SubscriptionTypeOK, PassTypeOK, NoAWS
<1>3. QED
  BY <1>2 DEF SubInv, SubKnown, SubscriptionInit, PassInit, Untracked, NoAWS, NoSubscriptionLedger

\* Every step keeps the invariant.
LEMMA SubStep ==
  ASSUME SubInv, SubscriptionNext \/ Calm
  PROVE  SubInv'
\* Begin reads the persisted ledger.
<1>1. CASE SubscriptionBegin
  <2> USE <1>1 DEF SubInv, SubKnown, SubscriptionBegin, GoTo, userVars
  <2>1. SubscriptionTypeOK'
    BY DEF SubscriptionTypeOK, PassTypeOK, SubscriptionIdleView, SubscriptionSpecs, NoSubscriptionSpec
  <2>2. QED
    BY <2>1 DEF SubscriptionTypeOK, Untracked
\* ensureQueue.
<1>2. CASE ensureQueue
  <2> USE <1>2
  <2>1. SubscriptionTypeOK /\ pc = "queue"
    BY Zenon DEF SubInv, ensureQueue
  <2>2. UNCHANGED <<producer, spec, cr, calm, store, view, lost>>
    BY Zenon DEF ensureQueue, userVars
  <2>3. /\ aws' \in [queue : BOOLEAN, policy : SUBSET Statements, sub : Arns \cup {NoArn}, key : BOOLEAN]
        /\ aws'.queue /\ aws'.sub = aws.sub /\ aws'.policy = aws.policy
    BY <2>1, Zenon DEF SubscriptionTypeOK, ensureQueue
  <2>4. /\ mem' \in [queue : BOOLEAN, sub : Arns \cup {NoArn}] /\ mem'.sub = mem.sub
        /\ \/ pc' \in {"resolve", "cleanup"} /\ mem'.queue
           \/ pc' = "cleanup" /\ UNCHANGED mem
    BY <2>1, Zenon DEF SubscriptionTypeOK, ensureQueue, GoTo, FailTo
  <2>5. err' \in BOOLEAN
    BY <2>1 DEF SubscriptionTypeOK, PassTypeOK, ensureQueue, GoTo, FailTo
  <2>6. SubscriptionTypeOK'
    BY <2>1, <2>2, <2>3, <2>4, <2>5, Zenon DEF SubscriptionTypeOK, PassTypeOK
  <2>7. Untracked(mem)' => Untracked(mem)
    BY <2>3, <2>4 DEF Untracked
  <2>8. QED
    BY <2>1, <2>2, <2>3, <2>4, <2>6, <2>7 DEF SubInv, SubKnown
\* resolveTopicARN changes nothing recorded.
<1>3. CASE resolveTopicARN
  <2> USE <1>3 DEF SubInv, SubKnown, resolveTopicARN, GoTo, FailTo, userVars
  <2>1. SubscriptionTypeOK'
    BY DEF SubscriptionTypeOK, PassTypeOK
  <2>2. QED
    BY <2>1 DEF SubscriptionTypeOK, Untracked
\* EnsureSubscriptions: the ARN goes into the ledger with the reply, or is lost.
<1>4. CASE EnsureSubscriptions
  <2> USE <1>4 DEF SubInv, SubKnown, EnsureSubscriptions, GoTo, FailTo, userVars
  <2>1. SubscriptionTypeOK'
    BY DEF SubscriptionTypeOK, PassTypeOK
  <2>2. QED
    BY <2>1 DEF SubscriptionTypeOK, Untracked
\* ensureSubscriptionAllows writes back what it has read.
<1>5. CASE ensureSubscriptionAllows
  <2> USE <1>5 DEF SubInv, SubKnown, ensureSubscriptionAllows, Upsert, GoTo, FailTo, Done, userVars
  <2>1. SubscriptionTypeOK'
    BY DEF SubscriptionTypeOK, PassTypeOK, Statements
  <2>2. QED
    BY <2>1 DEF SubscriptionTypeOK, Untracked
\* cleanupQueueSubscriptions: a queue that is let go leaves its subscription to be looked at.
<1>6. CASE cleanupQueueSubscriptions
  <2> USE <1>6 DEF SubInv, SubKnown, cleanupQueueSubscriptions, Tracked, GoTo, userVars
  <2>1. mem' \in [queue : BOOLEAN, sub : Arns \cup {NoArn}]
    BY Zenon DEF SubscriptionTypeOK
  <2>2. /\ aws' \in [queue : BOOLEAN, policy : SUBSET Statements, sub : Arns \cup {NoArn}, key : BOOLEAN]
        /\ ~aws'.queue => aws'.policy = {}
    BY Zenon DEF SubscriptionTypeOK
  <2>3. SubscriptionTypeOK'
    BY <2>1, <2>2, ZenonT(40) DEF SubscriptionTypeOK, PassTypeOK
  <2>4. QED
    BY <2>3, ZenonT(40) DEF SubscriptionTypeOK, Untracked
\* CleanupSubscriptions leaves alone only what a declared queue is tracked for.
<1>7. CASE CleanupSubscriptions
  <2> USE <1>7 DEF SubInv, SubKnown, CleanupSubscriptions, Wanted, GoTo, userVars
  <2>1. SubscriptionTypeOK'
    BY DEF SubscriptionTypeOK, PassTypeOK
  <2>2. QED
    BY <2>1 DEF SubscriptionTypeOK, Untracked
\* Unsubscribe.
<1>8. CASE Unsubscribe
  <2> USE <1>8 DEF SubInv, SubKnown, Unsubscribe, Dropped, GoTo, FailTo, Done, userVars
  <2>1. SubscriptionTypeOK'
    BY DEF SubscriptionTypeOK, PassTypeOK
  <2>2. QED
    BY <2>1 DEF SubscriptionTypeOK, Untracked
\* removeSubscriptionAllow.
<1>9. CASE removeSubscriptionAllow
  <2> USE <1>9 DEF SubInv, SubKnown, removeSubscriptionAllow, Remove, Dropped, GoTo, FailTo, userVars
  <2>1. SubscriptionTypeOK'
    BY DEF SubscriptionTypeOK, PassTypeOK, Statements
  <2>2. QED
    BY <2>1 DEF SubscriptionTypeOK, Untracked
\* SyncServiceGrants writes the key's policy only.
<1>10. CASE SyncServiceGrants
  <2> USE <1>10 DEF SubInv, SubKnown, SyncServiceGrants, keyServiceGrants, Wanted, GoTo,
      FailTo, Done, userVars
  <2>1. SubscriptionTypeOK'
    BY DEF SubscriptionTypeOK, PassTypeOK, SubscriptionSpecs, NoSubscriptionSpec, ResolveConsumeARN
  <2>2. QED
    BY <2>1 DEF SubscriptionTypeOK, Untracked
\* Persist writes the ledger.
<1>11. CASE SubscriptionPersist
  <2> USE <1>11 DEF SubInv, SubKnown, SubscriptionPersist, SubscriptionKeeping, EndPass
  <2>1. SubscriptionTypeOK'
    BY SubIdle, Zenon DEF SubscriptionTypeOK, PassTypeOK
  <2>2. QED
    BY <2>1 DEF SubscriptionTypeOK, Untracked
\* A pass that dies leaves the persisted ledger, and whatever that does not know.
<1>12. CASE SubscriptionCrash
  <2> USE <1>12 DEF SubInv, SubKnown, SubscriptionCrash, SubscriptionKeeping, EndPass, userVars
  <2>1. SubscriptionTypeOK'
    BY SubIdle, Zenon DEF SubscriptionTypeOK, PassTypeOK
  <2>2. QED
    BY <2>1 DEF SubscriptionTypeOK, Untracked
\* The checkpoint.
<1>13. CASE SubscriptionCheckpoint
  <2> USE <1>13 DEF SubInv, SubKnown, SubscriptionCheckpoint, userVars
  <2>1. SubscriptionTypeOK'
    BY DEF SubscriptionTypeOK, PassTypeOK
  <2>2. QED
    BY <2>1 DEF SubscriptionTypeOK, Untracked
\* A call that fails leaves everything to the next pass.
<1>14. CASE SubscriptionCallFails
  <2> USE <1>14 DEF SubInv, SubKnown, SubscriptionCallFails, FailTo, userVars
  <2>1. SubscriptionTypeOK'
    BY DEF SubscriptionTypeOK, PassTypeOK
  <2>2. QED
    BY <2>1 DEF SubscriptionTypeOK, Untracked
\* Somebody edits the queue's policy.
<1>15. CASE EditPolicy
  <2> USE <1>15 DEF SubInv, SubKnown, EditPolicy, Upsert, Remove, userVars, passVars
  <2>1. SubscriptionTypeOK'
    BY DEF SubscriptionTypeOK, PassTypeOK, Statements
  <2>2. QED
    BY <2>1 DEF SubscriptionTypeOK, Untracked
\* A topic is deleted, with its subscriptions.
<1>16. CASE TopicDeleted
  <2> USE <1>16 DEF SubInv, SubKnown, TopicDeleted, passVars
  <2>1. SubscriptionTypeOK'
    BY Zenon DEF SubscriptionTypeOK, PassTypeOK, Producers
  <2>2. QED
    BY <2>1 DEF SubscriptionTypeOK, Untracked
\* A subscription is deleted.
<1>17. CASE SubscriptionDeleted
  <2> USE <1>17 DEF SubInv, SubKnown, SubscriptionDeleted, userVars, passVars
  <2>1. SubscriptionTypeOK'
    BY DEF SubscriptionTypeOK, PassTypeOK
  <2>2. QED
    BY <2>1 DEF SubscriptionTypeOK, Untracked
\* Reading the policy, to add to it or to take from it.
<1>18. CASE readPolicy("allow", "grant") \/ readPolicy("unallow", "ungrant")
  <2> USE <1>18 DEF SubInv, SubKnown, readPolicy, GoTo, FailTo, userVars
  <2>1. SubscriptionTypeOK'
    BY DEF SubscriptionTypeOK, PassTypeOK
  <2>2. QED
    BY <2>1 DEF SubscriptionTypeOK, Untracked
\* What the users and the producer do: specs and the deletion of the CR, none of
\* which a pass has to know before it begins again.
<1>19. CASE ProducerPass \/ SubscriptionUsers \/ Calm
  <2> USE <1>19 DEF SubInv, SubKnown
  <2>1. CASE ProducerPass \/ EditProducer({Sharing("None", FALSE), Sharing("Read", FALSE)})
    <3>1. producer' \in Producers
      BY <2>1, ProducerTyped, ZenonT(40) DEF SubscriptionTypeOK, PassTypeOK
    <3>2. UNCHANGED <<spec, cr, calm, store, aws, pc, view, mem, err, lost>>
      BY <2>1, Zenon DEF ProducerPass, EditProducer, passVars
    <3>3. SubscriptionTypeOK'
      BY <3>1, <3>2, Zenon DEF SubscriptionTypeOK, PassTypeOK
    <3>4. QED
      BY <3>2, <3>3, Zenon DEF Untracked
  <2>2. CASE EditSpec(SubscriptionSpecs)
    <3>1. spec' \in SubscriptionSpecs /\ UNCHANGED <<producer, cr, calm, store, aws, pc, view, mem, err, lost>>
      BY <2>2, Zenon DEF EditSpec, passVars
    <3>2. SubscriptionTypeOK'
      BY <3>1, Zenon DEF SubscriptionTypeOK, PassTypeOK
    <3>3. QED
      BY <3>1, <3>2, Zenon DEF Untracked
  <2>3. CASE DeleteCR(NoSubscriptionSpec)
    <3>1. /\ spec' = NoSubscriptionSpec /\ producer' = NoProducer /\ cr' = "deleting"
          /\ UNCHANGED <<calm, store, aws, pc, view, mem, err, lost>>
      BY <2>3, Zenon DEF DeleteCR, passVars
    <3>2. NoSubscriptionSpec \in SubscriptionSpecs /\ NoProducer \in Producers
      BY DEF SubscriptionSpecs, NoProducer, Producers
    <3>3. SubscriptionTypeOK'
      BY <3>1, <3>2 DEF SubscriptionTypeOK, PassTypeOK
    <3>4. QED
      BY <3>1, <3>3 DEF Untracked
  <2>4. CASE Calm
    <3>1. calm' = TRUE /\ UNCHANGED <<producer, spec, cr, store, aws, pc, view, mem, err, lost>>
      BY <2>4, Zenon DEF Calm, passVars
    <3>2. SubscriptionTypeOK'
      BY <3>1, Zenon DEF SubscriptionTypeOK, PassTypeOK
    <3>3. QED
      BY <3>1, <3>2, Zenon DEF Untracked
  <2>5. QED
    BY <2>1, <2>2, <2>3, <2>4, Zenon DEF SubscriptionUsers
<1>20. CASE SubscriptionPass
  BY <1>20, <1>1, <1>2, <1>3, <1>4, <1>18, <1>5, <1>6, <1>7,
     <1>8, <1>9, <1>10, <1>11, Zenon DEF SubscriptionPass
<1>21. CASE SubscriptionCheckpoint \/ SubscriptionCrash \/ SubscriptionCallFails \/ Outside
  BY <1>21, <1>13, <1>12, <1>14, <1>15, <1>16, <1>17, ZenonT(40) DEF Outside
<1>22. CASE ProducerPass \/ SubscriptionUsers \/ Calm
  BY <1>22, <1>19, Zenon
<1>23. QED
  BY <1>20, <1>21, <1>22, Zenon DEF SubscriptionNext

\* A step that moves the pass on writes to the policy what it has read of it.
LEMMA SubEdits ==
  ASSUME SubInv, SubscriptionNext
  PROVE  KeepsEdits
<1> SUFFICES ASSUME "other" \in aws.policy, aws.queue, aws'.queue, pc # pc', "edit" \notin lost,
                    "other" \notin aws'.policy
             PROVE  FALSE
  BY Zenon DEF KeepsEdits
<1>1. /\ aws \in [queue : BOOLEAN, policy : SUBSET Statements, sub : Arns \cup {NoArn}, key : BOOLEAN]
      /\ pc \in {"grant", "ungrant"} => "other" \in view.doc
  BY DEF SubInv, SubscriptionTypeOK
<1>2. CASE ensureSubscriptionAllows
  BY <1>1, <1>2 DEF ensureSubscriptionAllows, Upsert
<1>3. CASE removeSubscriptionAllow
  BY <1>1, <1>3 DEF removeSubscriptionAllow, Remove
<1>4. CASE ensureQueue \/ EnsureSubscriptions \/ Unsubscribe \/ SyncServiceGrants
  BY <1>1, <1>4 DEF ensureQueue, EnsureSubscriptions, Unsubscribe, SyncServiceGrants
<1>5. CASE cleanupQueueSubscriptions
  BY <1>1, <1>5, Zenon DEF cleanupQueueSubscriptions
<1>6. CASE \/ SubscriptionBegin \/ resolveTopicARN \/ readPolicy("allow", "grant") \/ readPolicy("unallow", "ungrant")
           \/ CleanupSubscriptions \/ SubscriptionPersist \/ SubscriptionCrash \/ SubscriptionCallFails
  BY <1>6, Zenon DEF SubscriptionBegin, resolveTopicARN, readPolicy, CleanupSubscriptions, SubscriptionPersist,
     SubscriptionCrash, SubscriptionCallFails
<1>7. CASE SubscriptionCheckpoint \/ Outside \/ ProducerPass \/ SubscriptionUsers
  BY <1>7, Zenon DEF SubscriptionCheckpoint, Outside, EditPolicy, TopicDeleted, SubscriptionDeleted,
     ProducerPass,
     SubscriptionUsers, EditProducer, EditSpec, DeleteCR, passVars
<1>8. QED
  BY <1>2, <1>3, <1>4, <1>5, <1>6, <1>7, ZenonT(40) DEF SubscriptionNext, SubscriptionPass

-----------------------------------------------------------------------------
(* The role.                                                               *)

\* Between passes nothing is read; there may be no role.
LEMMA RoleIdle ==
  RoleIdleView \in RoleViews /\ NoRoleLedger \in Ledgers /\ NoRole \in Roles
BY DEF RoleIdleView, RoleViews, NoRoleLedger, Ledgers, NoRole, Roles

\* What is made of a role is a role.
LEMMA RoleMade ==
  ASSUME RoleTypeOK
  PROVE  /\ \A tags \in {"none", "ours", "previous", "other"} : {Tagged(tags), Retagged(tags)} \subseteq Roles
         /\ \A grants \in SUBSET Grants : Allowing(grants) \in Roles
         /\ Recorded \in Ledgers
<1>1. \A tags \in {"none", "ours", "previous", "other"} : {Tagged(tags), Retagged(tags)} \subseteq Roles
  BY DEF RoleTypeOK, Roles, Tagged, Retagged
<1>2. \A grants \in SUBSET Grants : Allowing(grants) \in Roles
  BY DEF RoleTypeOK, Roles, Allowing
<1>3. Recorded \in Ledgers
  BY DEF RoleTypeOK, RoleViews, Ledgers, Recorded
<1>4. QED
  BY <1>1, <1>2, <1>3, Zenon

\* What the CR owns and what the producer shares with it are grants.
LEMMA RoleGrants ==
  ASSUME producer \in Producers
  PROVE  collectGrants \subseteq Grants
<1>1. resolveConsume \subseteq Grants
  BY DEF resolveConsume, lookupConsume, producerResource, Producers, Grants
<1>2. QED
  BY <1>1 DEF collectGrants, recordOwned, Grants

\* The invariant holds at first, whoever's role there is.
LEMMA RoleStarts ==
  ASSUME RoleInit
  PROVE  RoleInv
<1>1. NoProducer \in Producers
  BY DEF NoProducer, Producers
<1>2. /\ aws \in [role : Roles, map : Maps]
      /\ aws.role.tags # "ours" /\ (~aws.role.exists => aws.role = NoRole)
  <2>1. \E role \in {NoRole, Tagged("previous"), Tagged("other")},
           map \in {NoMap, [owner |-> "other", data |-> {}]} : aws = [role |-> role, map |-> map]
    BY Zenon DEF RoleInit
  <2>2. /\ {NoRole, Tagged("previous"), Tagged("other")} \subseteq Roles
        /\ {NoMap, [owner |-> "other", data |-> {}]} \subseteq Maps
    BY DEF NoRole, Tagged, NoMap, Roles, Maps
  <2>3. \A role \in {NoRole, Tagged("previous"), Tagged("other")} :
           role.tags # "ours" /\ (~role.exists => role = NoRole)
    BY DEF NoRole, Tagged
  <2>4. QED
    BY <2>1, <2>2, <2>3
<1>3. PassInit
  BY Zenon DEF RoleInit
<1>4. PassTypeOK
  BY <1>1, <1>3, Zenon DEF PassInit, PassTypeOK
<1>5. RoleTypeOK
  BY <1>2, <1>4, RoleIdle, Zenon DEF RoleInit, RoleTypeOK
<1>6. QED
  BY <1>2, <1>5 DEF RoleInv, RoleKnown, RoleInit, PassInit, Differs, NoRoleLedger

\* Every step keeps the invariant.
LEMMA RoleStep ==
  ASSUME RoleInv, RoleNext \/ Calm
  PROVE  RoleInv'
<1> RoleTypeOK
  BY Zenon DEF RoleInv
\* Begin reads the persisted ledger.
<1>1. CASE RoleBegin
  <2> USE <1>1
  <2>1. UNCHANGED <<producer, spec, cr, calm, store, aws, err, lost>>
    BY Zenon DEF RoleBegin, GoTo, userVars
  <2>2. PICK own \in BOOLEAN :
          view' = [spec |-> spec, deleting |-> cr = "deleting", own |-> own, grants |-> {}]
    BY ZenonT(40) DEF RoleTypeOK, PassTypeOK, RoleBegin
  <2>3. spec \in RoleSpecs \cup {NoRoleSpec}
    BY Zenon DEF RoleTypeOK
  <2>4. view' \in RoleViews
    BY <2>2, <2>3 DEF RoleViews
  <2>5. mem' \in Ledgers
    BY DEF RoleTypeOK, RoleBegin, GoTo, userVars
  <2>6. RoleTypeOK'
    BY <2>1, <2>4, <2>5, Zenon DEF RoleTypeOK, PassTypeOK
  <2>7. QED
    BY <2>6 DEF RoleInv, RoleKnown, RoleTypeOK, Differs, RoleViews, Ledgers, Roles, NoRole, NoRoleLedger,
       Tagged, RoleBegin, GoTo, userVars
\* Ensure collects the grants.
<1>2. CASE iam_Ensure
  <2> USE <1>2
  <2>1. UNCHANGED <<producer, spec, cr, calm, store, aws, mem, err, lost>>
    BY Zenon DEF iam_Ensure, GoTo, userVars
  <2>2. view' \in RoleViews
    BY RoleGrants DEF RoleTypeOK, RoleViews, PassTypeOK, iam_Ensure, GoTo, userVars
  <2>3. RoleTypeOK'
    BY <2>1, <2>2, Zenon DEF RoleTypeOK, PassTypeOK
  <2>4. QED
    BY <2>3 DEF RoleInv, RoleKnown, RoleTypeOK, Differs, RoleViews, Ledgers, Roles, NoRole, NoRoleLedger,
       Tagged, iam_Ensure, GoTo, userVars
\* ensureRole: a role that was created is not in the ledger yet.
<1>3. CASE ensureRole
  <2> USE <1>3
  <2>1. UNCHANGED <<producer, spec, cr, calm, store, mem>>
    BY Zenon DEF ensureRole, Goes, Fails, userVars
  <2>2. err' \in BOOLEAN /\ lost' \subseteq {"role", "policy", "stripped", "raced"}
    BY DEF RoleTypeOK, PassTypeOK, RoleViews, ensureRole, Goes, Fails, GoTo, FailTo, userVars
  <2>3. view' \in RoleViews
    BY DEF RoleTypeOK, RoleViews, ensureRole, Goes, Fails, GoTo, FailTo, userVars
  <2>4. aws' \in [role : Roles, map : Maps]
    BY RoleMade DEF RoleTypeOK, ensureRole
  <2>5. RoleTypeOK'
    BY <2>1, <2>2, <2>3, <2>4, ZenonT(40) DEF RoleTypeOK, PassTypeOK
  <2>6. QED
    BY <2>5 DEF RoleInv, RoleKnown, RoleTypeOK, Differs, RoleViews, Ledgers, Roles, NoRole, NoRoleLedger,
       Tagged, ensureRole, Goes, Fails, GoTo, FailTo, userVars
\* verifyRoleOwnership: nor is one that was taken over.
<1>4. CASE verifyRoleOwnership
  <2> USE <1>4
  <2>1. UNCHANGED <<producer, spec, cr, calm, store, mem>>
    BY Zenon DEF verifyRoleOwnership, Goes, Fails, userVars
  <2>2. err' \in BOOLEAN /\ lost' \subseteq {"role", "policy", "stripped", "raced"}
    BY DEF RoleTypeOK, PassTypeOK, RoleViews, verifyRoleOwnership, Retagged, Goes, Fails, GoTo,
       FailTo, userVars
  <2>3. view' \in RoleViews
    BY DEF RoleTypeOK, RoleViews, verifyRoleOwnership, Retagged, Goes, Fails, GoTo, FailTo,
       userVars
  <2>4. aws' \in [role : Roles, map : Maps]
    BY SMTT(30) DEF RoleTypeOK, Roles, verifyRoleOwnership, Retagged, Goes, Fails, GoTo, FailTo,
       userVars
  <2>5. RoleTypeOK'
    BY <2>1, <2>2, <2>3, <2>4, Zenon DEF RoleTypeOK, PassTypeOK
  <2>6. QED
    BY <2>5 DEF RoleInv, RoleKnown, RoleTypeOK, Differs, RoleViews, Ledgers, Roles, NoRole, NoRoleLedger,
       Tagged, verifyRoleOwnership, Retagged, Goes, Fails, GoTo, FailTo, userVars
\* ensureRolePolicy: the digest recorded is that of the policy written.
<1>5. CASE ensureRolePolicy
  <2> USE <1>5
  <2>1. UNCHANGED <<producer, spec, cr, calm, store>>
    BY Zenon DEF ensureRolePolicy, Goes, Fails, userVars
  <2>2. err' \in BOOLEAN /\ lost' \subseteq {"role", "policy", "stripped", "raced"}
    BY DEF RoleTypeOK, PassTypeOK, RoleViews, ensureRolePolicy, Allowing, Recorded, Goes, Fails,
       GoTo, FailTo, userVars
  <2>3. view' \in RoleViews
    BY DEF RoleTypeOK, RoleViews, ensureRolePolicy, Allowing, Recorded, Goes, Fails, GoTo, FailTo,
       userVars
  <2>4. mem' \in Ledgers
    BY RoleMade DEF RoleTypeOK, ensureRolePolicy
  <2>5. aws' \in [role : Roles, map : Maps]
    BY RoleMade DEF RoleTypeOK, RoleViews, ensureRolePolicy
  <2>6. RoleTypeOK'
    BY <2>1, <2>2, <2>3, <2>4, <2>5, ZenonT(40) DEF RoleTypeOK, PassTypeOK
  <2>7. QED
    BY <2>6 DEF RoleInv, RoleKnown, RoleTypeOK, Differs, RoleViews, Ledgers, Roles, NoRole, NoRoleLedger,
       Tagged, ensureRolePolicy, Allowing, Recorded, Goes, Fails, GoTo, FailTo, userVars
\* Cleanup: a role of a CR being deleted has to be deleted first.
<1>6. CASE iam_Cleanup
  <2> USE <1>6
  <2>1. UNCHANGED <<producer, spec, cr, calm, store, aws, mem, err, lost>>
    BY Zenon DEF iam_Cleanup, GoTo, userVars
  <2>2. view' \in RoleViews
    BY ZenonT(40) DEF RoleTypeOK, RoleViews, iam_Cleanup, GoTo, userVars
  <2>3. RoleTypeOK'
    BY <2>1, <2>2, Zenon DEF RoleTypeOK, PassTypeOK
  <2>4. QED
    BY <2>3 DEF RoleInv, RoleKnown, RoleTypeOK, Differs, RoleViews, Ledgers, Roles, NoRole, NoRoleLedger,
       Tagged, iam_Cleanup, GoTo, userVars
\* verifyRole reads whose the role is.
<1>7. CASE verifyRole
  <2> USE <1>7
  <2>1. UNCHANGED <<producer, spec, cr, calm, store, aws, view>>
    BY Zenon DEF verifyRole, userVars
  <2>2. err' \in BOOLEAN /\ lost' \subseteq {"role", "policy", "stripped", "raced"}
    BY DEF RoleTypeOK, PassTypeOK, RoleViews, verifyRole, GoTo, FailTo, userVars
  <2>3. mem' \in Ledgers
    BY RoleIdle DEF RoleTypeOK, verifyRole, GoTo, FailTo, userVars
  <2>4. RoleTypeOK'
    BY <2>1, <2>2, <2>3, Zenon DEF RoleTypeOK, PassTypeOK
  <2>5. QED
    BY <2>4 DEF RoleInv, RoleKnown, RoleTypeOK, Differs, RoleViews, Ledgers, Roles, NoRole, NoRoleLedger,
       Tagged, verifyRole, GoTo, FailTo, userVars
\* DeleteRolePolicy.
<1>8. CASE DeleteRolePolicy
  <2> USE <1>8
  <2>1. UNCHANGED <<producer, spec, cr, calm, store, view, mem>>
    BY Zenon DEF DeleteRolePolicy, userVars
  <2>2. err' \in BOOLEAN /\ lost' \subseteq {"role", "policy", "stripped", "raced"}
    BY DEF RoleTypeOK, PassTypeOK, RoleViews, DeleteRolePolicy, Allowing, Done, GoTo, FailTo,
       userVars
  <2>3. aws' \in [role : Roles, map : Maps]
    BY DEF RoleTypeOK, Roles, DeleteRolePolicy, Allowing, Done, GoTo, FailTo, userVars
  <2>4. RoleTypeOK'
    BY <2>1, <2>2, <2>3, Zenon DEF RoleTypeOK, PassTypeOK
  <2>5. aws'.role = [exists |-> aws.role.exists, tags |-> aws.role.tags, policy |-> {}]
    BY DEF RoleTypeOK, DeleteRolePolicy, Allowing
  <2>6. QED
    BY <2>4, <2>5 DEF RoleInv, RoleKnown, NoRole, DeleteRolePolicy, Done, GoTo, FailTo,
       userVars
\* DeleteRole.
<1>9. CASE DeleteRole
  <2> USE <1>9
  <2>1. UNCHANGED <<producer, spec, cr, calm, store, view, lost>>
    BY Zenon DEF DeleteRole, userVars
  <2>2. err' \in BOOLEAN
    BY DEF RoleTypeOK, PassTypeOK, RoleViews, DeleteRole, GoTo, FailTo, userVars
  <2>3. mem' \in Ledgers
    BY RoleIdle DEF RoleTypeOK, DeleteRole, GoTo, FailTo, userVars
  <2>4. aws' \in [role : Roles, map : Maps]
    BY RoleIdle DEF RoleTypeOK, DeleteRole, GoTo, FailTo, userVars
  <2>5. RoleTypeOK'
    BY <2>1, <2>2, <2>3, <2>4, ZenonT(40) DEF RoleTypeOK, PassTypeOK
  <2>6. QED
    BY <2>5 DEF RoleInv, RoleKnown, RoleTypeOK, Differs, RoleViews, Ledgers, Roles, NoRole, NoRoleLedger,
       Tagged, DeleteRole, GoTo, FailTo, userVars
\* ensureConfigMap leaves the role alone.
<1>10. CASE ensureConfigMap
  <2> USE <1>10
  <2>1. UNCHANGED <<producer, spec, cr, calm, store, view, mem, lost>>
    BY Zenon DEF ensureConfigMap, userVars
  <2>2. err' \in BOOLEAN
    BY DEF RoleTypeOK, PassTypeOK, RoleViews, ensureConfigMap, Done, GoTo, FailTo, userVars
  <2>3. aws' \in [role : Roles, map : Maps]
    BY DEF RoleTypeOK, Maps, buildConnectionData, addOwned, addConsumed, ensureConfigMap, Done,
       GoTo, FailTo, userVars
  <2>4. RoleTypeOK'
    BY <2>1, <2>2, <2>3, ZenonT(40) DEF RoleTypeOK, PassTypeOK
  <2>5. QED
    BY <2>4 DEF RoleInv, RoleKnown, RoleTypeOK, Differs, RoleViews, Ledgers, Roles, NoRole, NoRoleLedger,
       Tagged, ensureConfigMap, Done, GoTo, FailTo, userVars
\* Persist writes the ledger, and the finalizer goes when the pass met no error.
<1>11. CASE RolePersist
  <2> USE <1>11
  <2>1. UNCHANGED <<producer, spec, calm>>
    BY Zenon DEF RolePersist
  <2>2. err' \in BOOLEAN /\ lost' \subseteq {"role", "policy", "stripped", "raced"} /\ store' \in Ledgers
        /\ cr' \in {"live", "deleting", "gone"}
    BY ZenonT(40) DEF RoleTypeOK, PassTypeOK, RoleViews, RolePersist, RoleKeeping, EndPass, RoleUnrecorded, Kept
  <2>3. view' \in RoleViews
    BY RoleIdle DEF RoleTypeOK, RolePersist, RoleKeeping, EndPass, RoleUnrecorded, Kept
  <2>4. mem' \in Ledgers
    BY RoleIdle DEF RoleTypeOK, RolePersist, RoleKeeping, EndPass, RoleUnrecorded, Kept
  <2>5. aws' \in [role : Roles, map : Maps]
    BY DEF RoleTypeOK, Maps, NoMap, RolePersist, RoleKeeping, EndPass, RoleUnrecorded, Kept
  <2>6. RoleTypeOK'
    BY <2>1, <2>2, <2>3, <2>4, <2>5, Zenon DEF RoleTypeOK, PassTypeOK
  <2>7. QED
    BY <2>6 DEF RoleInv, RoleKnown, RoleTypeOK, Differs, RoleViews, Ledgers, Roles, NoRole, NoRoleLedger,
       Tagged, RolePersist, RoleKeeping, EndPass, RoleUnrecorded, Kept
\* A pass that dies leaves the persisted ledger, and what that gets wrong.
<1>12. CASE RoleCrash
  <2> USE <1>12
  <2>1. UNCHANGED <<producer, spec, cr, calm, aws>>
    BY Zenon DEF RoleCrash, userVars
  <2>2. err' \in BOOLEAN /\ lost' \subseteq {"role", "policy", "stripped", "raced"} /\ store' \in Ledgers
    BY ZenonT(40) DEF RoleTypeOK, PassTypeOK, RoleViews, RoleCrash, RoleKeeping, EndPass, RoleUnrecorded, Kept,
       userVars
  <2>3. view' \in RoleViews
    BY RoleIdle DEF RoleTypeOK, RoleCrash, RoleKeeping, EndPass, RoleUnrecorded, Kept, userVars
  <2>4. mem' \in Ledgers
    BY RoleIdle DEF RoleTypeOK, RoleCrash, RoleKeeping, EndPass, RoleUnrecorded, Kept, userVars
  <2>5. RoleTypeOK'
    BY <2>1, <2>2, <2>3, <2>4, Zenon DEF RoleTypeOK, PassTypeOK
  <2>6. QED
    BY <2>5 DEF RoleInv, RoleKnown, RoleTypeOK, Differs, RoleViews, Ledgers, Roles, NoRole, NoRoleLedger,
       Tagged, RoleCrash, RoleKeeping, EndPass, RoleUnrecorded, Kept, userVars
\* The checkpoint.
<1>13. CASE RoleCheckpoint
  <2> USE <1>13
  <2>1. UNCHANGED <<producer, spec, cr, calm, aws, mem, err>>
    BY Zenon DEF RoleCheckpoint, userVars
  <2>2. lost' \subseteq {"role", "policy", "stripped", "raced"} /\ store' \in Ledgers
    BY DEF RoleTypeOK, PassTypeOK, RoleViews, RoleCheckpoint, RoleUnrecorded, userVars
  <2>3. view' \in RoleViews
    BY DEF RoleTypeOK, RoleViews, RoleCheckpoint, RoleUnrecorded, userVars
  <2>4. RoleTypeOK'
    BY <2>1, <2>2, <2>3, ZenonT(40) DEF RoleTypeOK, PassTypeOK
  <2>5. QED
    BY <2>4 DEF RoleInv, RoleKnown, RoleTypeOK, Differs, RoleViews, Ledgers, Roles, NoRole, NoRoleLedger,
       Tagged, RoleCheckpoint, RoleUnrecorded, userVars
\* A call that fails holds the finalizer.
<1>14. CASE RoleCallFails
  <2> USE <1>14
  <2>1. UNCHANGED <<producer, spec, cr, calm, store, aws, mem, lost>>
    BY Zenon DEF RoleCallFails, userVars
  <2>2. err' \in BOOLEAN
    BY DEF RoleTypeOK, PassTypeOK, RoleViews, RoleCallFails, FailTo, userVars
  <2>3. view' \in RoleViews
    BY DEF RoleTypeOK, RoleViews, RoleCallFails, FailTo, userVars
  <2>4. RoleTypeOK'
    BY <2>1, <2>2, <2>3, ZenonT(40) DEF RoleTypeOK, PassTypeOK
  <2>5. QED
    BY <2>4 DEF RoleInv, RoleKnown, RoleTypeOK, Differs, RoleViews, Ledgers, Roles, NoRole, NoRoleLedger,
       Tagged, RoleCallFails, FailTo, userVars
\* Somebody edits the role, or deletes it.
<1>15. CASE EditRole
  <2> USE <1>15
  <2>1. UNCHANGED <<producer, spec, cr, calm, store, view, mem, err>>
    BY Zenon DEF EditRole, userVars, passVars
  <2>2. lost' \subseteq {"role", "policy", "stripped", "raced"}
    BY DEF RoleTypeOK, PassTypeOK, RoleViews, EditRole, Allowing, Retagged, userVars, passVars
  <2>3. aws' \in [role : Roles, map : Maps]
    BY RoleIdle, RoleMade DEF RoleTypeOK, EditRole
  <2>4. RoleTypeOK'
    BY <2>1, <2>2, <2>3, Zenon DEF RoleTypeOK, PassTypeOK
  <2>5. QED
    BY <2>4 DEF RoleInv, RoleKnown, RoleTypeOK, Differs, RoleViews, Ledgers, Roles, NoRole, NoRoleLedger,
       Tagged, EditRole, Allowing, Retagged, userVars, passVars
\* What the users and the producer do.
<1>16. CASE Publish \/ RoleUsers \/ Calm
  <2> USE <1>16
  <2>1. CASE ProducerPass \/ EditProducer({Sharing("None", FALSE), Sharing("ReadWrite", TRUE)})
    <3>1. producer' \in Producers
      BY <2>1, ProducerTyped, ZenonT(40) DEF RoleInv, RoleTypeOK, PassTypeOK
    <3>2. UNCHANGED <<spec, cr, calm, store, aws, pc, view, mem, err, lost>>
      BY <2>1, Zenon DEF ProducerPass, EditProducer, passVars
    <3>3. RoleTypeOK'
      BY <3>1, <3>2, Zenon DEF RoleInv, RoleTypeOK, PassTypeOK
    <3>4. QED
      BY <3>2, <3>3, Zenon DEF RoleInv, RoleKnown, Differs
  <2>2. CASE EditSpec(RoleSpecs)
    <3>1. spec' \in RoleSpecs /\ UNCHANGED <<producer, cr, calm, store, aws, pc, view, mem, err, lost>>
      BY <2>2, Zenon DEF EditSpec, passVars
    <3>2. RoleTypeOK'
      BY <3>1, Zenon DEF RoleInv, RoleTypeOK, PassTypeOK
    <3>3. QED
      BY <3>1, <3>2, Zenon DEF RoleInv, RoleKnown, Differs
  <2>3. CASE DeleteCR(NoRoleSpec)
    <3>1. /\ spec' = NoRoleSpec /\ producer' = NoProducer /\ cr' = "deleting"
          /\ UNCHANGED <<calm, store, aws, pc, view, mem, err, lost>>
      BY <2>3, Zenon DEF DeleteCR, passVars
    <3>2. NoProducer \in Producers
      BY DEF NoProducer, Producers
    <3>3. RoleTypeOK'
      BY <3>1, <3>2, Zenon DEF RoleInv, RoleTypeOK, PassTypeOK
    <3>4. QED
      BY <3>1, <3>3 DEF RoleInv, RoleKnown, Differs
  <2>4. CASE Calm
    <3>1. calm' = TRUE /\ UNCHANGED <<producer, spec, cr, store, aws, pc, view, mem, err, lost>>
      BY <2>4, Zenon DEF Calm, passVars
    <3>2. RoleTypeOK'
      BY <3>1, Zenon DEF RoleInv, RoleTypeOK, PassTypeOK
    <3>3. QED
      BY <3>1, <3>2, Zenon DEF RoleInv, RoleKnown, Differs
  <2>5. QED
    BY <2>1, <2>2, <2>3, <2>4, Zenon DEF RoleUsers, Publish
<1>17. CASE RolePass
  BY <1>17, <1>1, <1>2, <1>3, <1>4, <1>5, <1>6, <1>7, <1>8,
     <1>9, <1>10, <1>11, ZenonT(40) DEF RolePass
<1>18. CASE RoleCheckpoint \/ RoleCrash \/ RoleCallFails \/ EditRole
  BY <1>18, <1>13, <1>12, <1>14, <1>15, ZenonT(40)
<1>19. CASE Publish \/ RoleUsers \/ Calm
  BY <1>19, <1>16, Zenon
<1>20. QED
  BY <1>17, <1>18, <1>19, Zenon DEF RoleNext

\* A step of the pass changes a role it has found to be the CR's or its predecessor's,
\* or, inside the trust window, the policy of one the ledger has.
LEMMA RoleOwned ==
  ASSUME RoleInv, RoleNext
  PROVE  RoleChangesOnlyOwned
<1> SUFFICES ASSUME pc # pc', aws.role.exists, aws'.role # aws.role,
                    aws.role.tags # "ours", ~(aws.role.tags = "previous" /\ pc = "takeOver"),
                    "raced" \notin lost,
                    ~(pc = "trusted" /\ mem.role /\ aws'.role = Allowing(view.grants))
             PROVE  FALSE
  BY Zenon DEF RoleChangesOnlyOwned
<1>1. /\ aws \in [role : Roles, map : Maps]
      /\ pc \notin {"takeOver", "policy", "deletePolicy", "deleteRole"}
      /\ pc = "trusted" => mem.role
  BY Zenon DEF RoleInv, RoleTypeOK
<1>2. CASE ensureRole \/ verifyRoleOwnership \/ ensureRolePolicy
  BY <1>1, <1>2 DEF ensureRole, verifyRoleOwnership, ensureRolePolicy
<1>3. CASE DeleteRolePolicy \/ DeleteRole
  BY <1>1, <1>3, Zenon DEF DeleteRolePolicy, DeleteRole
<1>4. CASE ensureConfigMap \/ RolePersist
  BY <1>1, <1>4 DEF ensureConfigMap, RolePersist
<1>5. CASE RoleBegin \/ iam_Ensure \/ iam_Cleanup \/ verifyRole \/ RoleCrash \/ RoleCallFails
  BY <1>5, Zenon DEF RoleBegin, iam_Ensure, iam_Cleanup, verifyRole, RoleCrash, RoleCallFails
<1>6. CASE RoleCheckpoint \/ Publish \/ RoleUsers \/ EditRole
  BY <1>6, Zenon DEF RoleCheckpoint, Publish, ProducerPass, RoleUsers, EditProducer, EditSpec, DeleteCR,
     EditRole, passVars
<1>7. QED
  BY <1>2, <1>3, <1>4, <1>5, <1>6, ZenonT(40) DEF RoleNext, RolePass

-----------------------------------------------------------------------------
(* The ServiceAccount.                                                     *)

\* Between passes nothing is read; there may be no account.
LEMMA IdentityIdle ==
  IdentityIdleView \in IdentityViews /\ NoIdentityStatus \in Statuses /\ NoAccount \in AllAccounts
<1>1. NoAccount \in AllAccounts
  BY DEF NoAccount, AllAccounts
<1>2. NoIdentityStatus \in Statuses
  BY DEF NoIdentityStatus, Statuses
<1>3. NoIdentitySpec \in IdentitySpecs
  BY Zenon DEF IdentitySpecs
<1>4. QED
  BY <1>1, <1>2, <1>3 DEF IdentityIdleView, IdentityViews

\* A spec says whether a role is needed and names one of the accounts.
LEMMA IdentitySpecsTyped ==
  IdentitySpecs \subseteq [needs : BOOLEAN, target : Accounts, network : BOOLEAN]
<1>1. \A needs, network \in BOOLEAN, target \in Accounts :
        IdentityDeclares(needs, target, network) \in [needs : BOOLEAN, target : Accounts, network : BOOLEAN]
  BY DEF IdentityDeclares
<1>2. TRUE \in BOOLEAN /\ FALSE \in BOOLEAN
  OBVIOUS
<1>3. QED
  BY <1>1, <1>2, NamesAssumption, ZenonT(40) DEF IdentitySpecs, NoIdentitySpec

\* What is made of an account is an account.
LEMMA IdentityMade ==
  /\ \A owner \in {"ours", "other", None}, ref \in {"label", "role", None}, consents \in BOOLEAN :
       Account(owner, ref, consents) \in AllAccounts
  /\ \A sa \in AllAccounts : {Labelled(sa), Released(sa)} \subseteq AllAccounts
BY DEF AllAccounts, Account, Labelled, Released

\* A labelled account is whose it was.
LEMMA IdentityLabelled ==
  ASSUME NEW sa \in AllAccounts
  PROVE  Labelled(sa).owner = "ours" => sa.exists /\ sa.owner = "ours"
BY DEF AllAccounts, Account, Labelled, None

\* One account changes, and with it whether it carries the CR's role.
LEMMA AccountBecomes ==
  ASSUME IdentityTypeOK, NEW n \in Accounts, NEW sa \in AllAccounts, IdentityBecomes(n, sa)
  PROVE  /\ aws' \in Worlds
         /\ aws'.trust = aws.trust
         /\ aws'.sa[n] = sa
         /\ \A m \in Accounts \ {n} : aws'.sa[m] = aws.sa[m]
         /\ Claimed' = IF sa.owner = "ours" THEN Claimed \cup {n} ELSE Claimed \ {n}
<1>1. aws \in Worlds
  BY Zenon DEF IdentityTypeOK
<1>2. aws' = [trust |-> aws.trust, sa |-> [aws.sa EXCEPT ![n] = sa]]
  BY <1>1 DEF Worlds, IdentityBecomes
<1>3. /\ aws' \in Worlds
      /\ aws'.trust = aws.trust
      /\ aws'.sa[n] = sa
      /\ \A m \in Accounts \ {n} : aws'.sa[m] = aws.sa[m]
  BY <1>1, <1>2 DEF Worlds
<1>4. Claimed' = IF sa.owner = "ours" THEN Claimed \cup {n} ELSE Claimed \ {n}
  BY <1>3 DEF Claimed
<1>5. QED
  BY <1>3, <1>4, Zenon

\* A release takes the role off the account the status names.
LEMMA IdentityReleased ==
  ASSUME IdentityTypeOK, IdentityBecomes(mem.sa, Released(aws.sa[mem.sa]))
  PROVE  /\ aws' \in Worlds /\ aws'.trust = aws.trust
         /\ Claimed' = Claimed \ {mem.sa}
         /\ mem.sa # Target => aws'.sa[Target] = aws.sa[Target]
<1>1. aws \in Worlds /\ mem.sa \in Accounts \cup {None} /\ Target \in Accounts
  BY IdentitySpecsTyped DEF IdentityTypeOK, Statuses, IdentityViews, Target
<1>2. CASE mem.sa \in Accounts
  <2>1. Released(aws.sa[mem.sa]) \in AllAccounts
    BY <1>1, <1>2, IdentityMade, Zenon DEF Worlds
  <2>2. Released(aws.sa[mem.sa]).owner # "ours"
    BY DEF Released, None
  <2>3. QED
    BY <1>1, <1>2, <2>1, <2>2, AccountBecomes, ZenonT(40)
<1>3. CASE mem.sa = None
  <2>1. None \notin Accounts
    BY NamesAssumption DEF None
  <2>2. aws' = aws
    BY <1>1, <1>3, <2>1 DEF IdentityBecomes, Worlds
  <2>3. QED
    BY <1>1, <1>3, <2>1, <2>2, Zenon DEF Claimed
<1>4. QED
  BY <1>1, <1>2, <1>3

\* Begin reads the persisted status.
LEMMA IdentityBegins ==
  ASSUME IdentityInv, IdentityTypeOK, IdentityBegin
  PROVE  IdentityInv' /\ Claimed' \subseteq Claimed
<1>1. UNCHANGED <<producer, spec, cr, calm, store, aws, err, lost>>
  BY Zenon DEF IdentityBegin, GoTo, userVars
<1>2. view' \in IdentityViews
  BY IdentityIdle DEF IdentityTypeOK, IdentityViews, IdentityBegin
<1>3. mem' \in Statuses
  BY Zenon DEF IdentityTypeOK, IdentityBegin
<1>4. Claimed' = Claimed
  BY <1>1 DEF Claimed
<1>5. IdentityTypeOK'
  BY <1>1, <1>2, <1>3, ZenonT(40) DEF IdentityTypeOK, PassTypeOK
<1>6. QED
  BY <1>1, <1>2, <1>3, <1>4, <1>5, Zenon DEF IdentityInv, ClaimKnown, Target, IdentityBegin, GoTo

\* EnsureNetworkIdentityLabel may create the account, and claims nothing.
LEMMA IdentityLabel ==
  ASSUME IdentityInv, IdentityTypeOK, EnsureNetworkIdentityLabel
  PROVE  IdentityInv' /\ Claimed' \subseteq Claimed
<1>1. UNCHANGED <<producer, spec, cr, calm, store, view, mem, lost>>
  BY Zenon DEF EnsureNetworkIdentityLabel, userVars
<1>2. err' \in BOOLEAN
  BY DEF IdentityTypeOK, PassTypeOK, IdentityViews, EnsureNetworkIdentityLabel, GoTo, FailTo, Done
<1>3. Target \in Accounts /\ aws.sa[Target] \in AllAccounts
  BY IdentitySpecsTyped DEF IdentityTypeOK, Worlds, IdentityViews, Target
<1>4. /\ aws' \in Worlds
      /\ aws'.trust = aws.trust /\ Claimed' \subseteq Claimed
  <2>1. CASE UNCHANGED aws
    BY <2>1, Zenon DEF IdentityTypeOK, Claimed
  <2>2. CASE IdentityBecomes(Target, Labelled(aws.sa[Target]))
    <3>1. Labelled(aws.sa[Target]) \in AllAccounts
      BY <1>3, IdentityMade
    <3>2. Labelled(aws.sa[Target]).owner = "ours" => Target \in Claimed
      BY <1>3, IdentityLabelled DEF Claimed
    <3>3. QED
      BY <1>3, <2>2, <3>1, <3>2, AccountBecomes, Zenon
  <2>3. QED
    BY <2>1, <2>2, Zenon DEF EnsureNetworkIdentityLabel
<1>5. IdentityTypeOK'
  BY <1>1, <1>2, <1>4, ZenonT(40) DEF IdentityTypeOK, PassTypeOK
<1>6. QED
  BY <1>1, <1>2, <1>3, <1>4, <1>5, ZenonT(40) DEF IdentityInv, ClaimKnown, Target, EnsureNetworkIdentityLabel,
     GoTo, FailTo, Done

\* ensureTrustPolicy: of a CR being deleted the role is gone, or the pass met an error.
LEMMA IdentityRole ==
  ASSUME IdentityInv, IdentityTypeOK, ensureTrustPolicy
  PROVE  IdentityInv' /\ Claimed' \subseteq Claimed
<1>1. UNCHANGED <<producer, spec, cr, calm, store, view, lost>>
  BY Zenon DEF ensureTrustPolicy, userVars
<1>2. err' \in BOOLEAN
  BY DEF IdentityTypeOK, PassTypeOK, IdentityViews, ensureTrustPolicy, GoTo, FailTo
<1>3. mem' \in Statuses /\ mem'.sa = mem.sa /\ (mem' = mem \/ mem'.role = (view.spec.needs /\ ~view.deleting))
  BY IdentitySpecsTyped, Zenon DEF IdentityTypeOK, Statuses, IdentityViews, ensureTrustPolicy
<1>4. aws' \in Worlds /\ aws'.sa = aws.sa /\ (view.deleting => aws'.trust = None)
  BY IdentitySpecsTyped DEF IdentityTypeOK, Worlds, IdentityViews, Target, ensureTrustPolicy
<1>5. Claimed' = Claimed
  BY <1>4 DEF Claimed
<1>6. /\ pc = "role" /\ view.deleting \in BOOLEAN
      /\ \/ pc' = "sync" /\ (view.deleting => ~mem'.role)
         \/ pc' = (IF view.deleting THEN "persist" ELSE "sync") /\ err' = view.deleting
  BY Zenon DEF IdentityTypeOK, IdentityViews, Statuses, ensureTrustPolicy, GoTo, FailTo
<1>7. IdentityTypeOK'
  BY <1>1, <1>2, <1>3, <1>4, Zenon DEF IdentityTypeOK, PassTypeOK
<1>8. QED
  BY <1>1, <1>2, <1>3, <1>4, <1>5, <1>6, <1>7, ZenonT(40) DEF IdentityInv, ClaimKnown, Target

\* syncServiceAccount: the account is one the CR may claim.
LEMMA IdentitySync ==
  ASSUME IdentityInv, IdentityTypeOK, syncServiceAccount
  PROVE  IdentityInv' /\ Claimed' \subseteq Claimed
<1>1. UNCHANGED <<producer, spec, cr, calm, store, aws, mem>>
  BY Zenon DEF syncServiceAccount, userVars
<1>2. err' \in BOOLEAN /\ lost' \subseteq {"claim", "raced"}
  BY DEF IdentityTypeOK, PassTypeOK, IdentityViews, syncServiceAccount, GoTo, FailTo
<1>3. Target \in Accounts /\ aws.sa[Target] \in AllAccounts
  BY IdentitySpecsTyped DEF IdentityTypeOK, Worlds, IdentityViews, Target
<1>4. view' \in IdentityViews /\ view'.spec = view.spec /\ view'.deleting = view.deleting
  BY <1>3, IdentityIdle DEF IdentityTypeOK, IdentityViews, syncServiceAccount
<1>5. Claimed' = Claimed
  BY <1>1 DEF Claimed
<1>6. checkTarget(aws.sa[Target]) =>
        LET sa == aws.sa[Target] IN sa.owner = "ours" \/ (sa.owner = None /\ sa.consents) \/ ~sa.exists
  BY <1>3 DEF checkTarget, claimError, AllAccounts
<1>7. Target' = Target /\ Claimed \subseteq Accounts /\ None \notin Accounts
  BY <1>4, NamesAssumption DEF Target, Claimed, None
<1>8. lost' = lost \ {"raced"} /\ pc = "sync" /\ view.deleting \in BOOLEAN
  BY DEF IdentityTypeOK, IdentityViews, syncServiceAccount
<1>9. \/ /\ mem.role /\ checkTarget(aws.sa[Target])
         /\ pc' = (IF mem.sa \in {None, Target} THEN "apply" ELSE "release")
      \/ mem.role /\ pc' = "persist"
      \/ ~mem.role /\ err' = err /\ pc' = (IF mem.sa = None THEN "persist" ELSE "drop")
  BY Zenon DEF syncServiceAccount, GoTo, FailTo
<1>10. IdentityTypeOK'
  BY <1>1, <1>2, <1>4, ZenonT(40) DEF IdentityTypeOK, PassTypeOK
<1>11. QED
  BY <1>1, <1>2, <1>3, <1>4, <1>5, <1>6, <1>7, <1>8, <1>9, <1>10, ZenonT(40) DEF IdentityInv, ClaimKnown

\* releasePrevious takes the role off the account claimed before.
LEMMA IdentityRelease ==
  ASSUME IdentityInv, IdentityTypeOK, releasePrevious
  PROVE  IdentityInv' /\ Claimed' \subseteq Claimed
<1>1. UNCHANGED <<producer, spec, cr, calm, store, view, mem, lost>>
  BY Zenon DEF releasePrevious, userVars
<1>2. err' \in BOOLEAN
  BY DEF IdentityTypeOK, PassTypeOK, IdentityViews, releasePrevious, GoTo, FailTo, Done
<1>3. /\ aws' \in Worlds /\ aws'.trust = aws.trust /\ Claimed' = Claimed \ {mem.sa}
      /\ mem.sa # Target => aws'.sa[Target] = aws.sa[Target]
  BY IdentityReleased DEF releasePrevious
<1>4. IdentityTypeOK'
  BY <1>1, <1>2, <1>3, ZenonT(40) DEF IdentityTypeOK, PassTypeOK
<1>5. QED
  BY <1>1, <1>2, <1>3, <1>4 DEF IdentityInv, ClaimKnown, Target, releasePrevious, GoTo, FailTo,
     Done

\* Cleanup takes the role off the account, and forgets it with the reply.
LEMMA IdentityDrop ==
  ASSUME IdentityInv, IdentityTypeOK, serviceaccount_Cleanup
  PROVE  IdentityInv' /\ Claimed' \subseteq Claimed
<1>1. UNCHANGED <<producer, spec, cr, calm, store, view, lost>>
  BY Zenon DEF serviceaccount_Cleanup, userVars
<1>2. err' \in BOOLEAN
  BY DEF IdentityTypeOK, PassTypeOK, IdentityViews, serviceaccount_Cleanup, GoTo, FailTo
<1>3. mem' \in Statuses /\ (mem' = mem \/ mem'.sa = None)
  BY DEF IdentityTypeOK, Statuses, serviceaccount_Cleanup
<1>4. aws' \in Worlds /\ aws'.trust = aws.trust /\ Claimed' = Claimed \ {mem.sa}
  BY IdentityReleased DEF serviceaccount_Cleanup
<1>5. /\ pc = "drop" /\ pc' = "persist" /\ view.deleting \in BOOLEAN
      /\ (err' = err /\ mem'.sa = None) \/ err' = view.deleting
  BY DEF IdentityTypeOK, Statuses, IdentityViews, serviceaccount_Cleanup, GoTo, FailTo
<1>6. IdentityTypeOK'
  BY <1>1, <1>2, <1>3, <1>4, ZenonT(40) DEF IdentityTypeOK, PassTypeOK
<1>7. QED
  BY <1>1, <1>2, <1>3, <1>4, <1>5, <1>6, SMTT(30) DEF IdentityInv, ClaimKnown, Target

\* A call that fails holds the finalizer.
LEMMA IdentityFails ==
  ASSUME IdentityInv, IdentityTypeOK, IdentityCallFails
  PROVE  IdentityInv' /\ Claimed' \subseteq Claimed
<1>1. UNCHANGED <<producer, spec, cr, calm, store, aws, mem, lost>>
  BY Zenon DEF IdentityCallFails, userVars
<1>2. err' \in BOOLEAN
  BY DEF IdentityTypeOK, PassTypeOK, IdentityViews, IdentityCallFails, FailTo
<1>3. view' \in IdentityViews /\ view'.spec = view.spec /\ view'.deleting = view.deleting
  BY IdentityIdle DEF IdentityTypeOK, IdentityViews, IdentityCallFails
<1>4. Claimed' = Claimed
  BY <1>1 DEF Claimed
<1>5. IdentityTypeOK'
  BY <1>1, <1>2, <1>3, ZenonT(40) DEF IdentityTypeOK, PassTypeOK
<1>6. QED
  BY <1>1, <1>2, <1>3, <1>4, <1>5, Zenon DEF IdentityInv, ClaimKnown, Target, IdentityTypeOK, IdentityViews,
     IdentityCallFails,
     FailTo

\* A pass that dies leaves the persisted status, and a claim that does not name.
LEMMA IdentityCrashes ==
  ASSUME IdentityInv, IdentityTypeOK, IdentityCrash
  PROVE  IdentityInv' /\ Claimed' \subseteq Claimed
<1>1. UNCHANGED <<producer, spec, cr, calm, store, aws>>
  BY Zenon DEF IdentityCrash, userVars, IdentityKeeping, EndPass
<1>2. err' \in BOOLEAN /\ lost' \subseteq {"claim", "raced"}
  BY Zenon DEF IdentityCrash, IdentityKeeping, EndPass, IdentityUnrecorded
<1>3. view' = IdentityIdleView /\ mem' = NoIdentityStatus /\ pc' = "idle"
  BY Zenon DEF IdentityCrash, IdentityKeeping, EndPass
<1>4. view' \in IdentityViews /\ mem' \in Statuses
  BY <1>3, IdentityIdle, Zenon
<1>5. Claimed' = Claimed
  BY <1>1 DEF Claimed
<1>6. ~view'.deleting
  BY <1>3 DEF IdentityIdleView
<1>7. IdentityTypeOK'
  BY <1>1, <1>2, <1>4, ZenonT(40) DEF IdentityTypeOK, PassTypeOK
<1>8. QED
  BY <1>1, <1>2, <1>3, <1>4, <1>5, <1>6, <1>7, ZenonT(40) DEF IdentityInv, ClaimKnown, Target, IdentityCrash,
     IdentityUnrecorded

\* Persist writes the status; of a CR that is gone the accounts made for it go too.
LEMMA IdentityPersists ==
  ASSUME IdentityInv, IdentityTypeOK, IdentityPersist
  PROVE  IdentityInv' /\ Claimed' \subseteq Claimed
<1>1. UNCHANGED <<producer, spec, calm>>
  BY Zenon DEF IdentityPersist
<1>2. err' \in BOOLEAN /\ lost' \subseteq {"claim", "raced"} /\ cr' \in {"live", "deleting", "gone"}
  BY Zenon DEF IdentityTypeOK, PassTypeOK, IdentityPersist, IdentityKeeping, EndPass
<1>3. view' = IdentityIdleView /\ mem' = NoIdentityStatus /\ pc' = "idle" /\ store' = mem
  BY Zenon DEF IdentityPersist, IdentityKeeping, EndPass
<1>4. view' \in IdentityViews /\ mem' \in Statuses /\ store' \in Statuses
  BY <1>3, IdentityIdle, Zenon DEF IdentityTypeOK
<1>5. aws' \in Worlds /\ aws'.trust = aws.trust /\ Claimed' \subseteq Claimed
  <2>1. CASE UNCHANGED aws
    BY <2>1, Zenon DEF IdentityTypeOK, Claimed
  <2>2. CASE aws' = [aws EXCEPT !.sa = [n \in Accounts |->
                       IF aws.sa[n].ref = None THEN aws.sa[n] ELSE NoAccount]]
    <3>1. aws \in Worlds
      BY Zenon DEF IdentityTypeOK
    <3>2. aws' \in Worlds /\ aws'.trust = aws.trust
      BY <2>2, <3>1, IdentityIdle DEF Worlds
    <3>3. \A n \in Accounts : aws'.sa[n] \in {aws.sa[n], NoAccount}
      BY <2>2, <3>1 DEF Worlds
    <3>4. NoAccount.owner # "ours"
      BY DEF NoAccount, None
    <3>5. QED
      BY <3>2, <3>3, <3>4 DEF Claimed
  <2>3. QED
    BY <2>1, <2>2, Zenon DEF IdentityPersist
<1>6. ~view'.deleting
  BY <1>3 DEF IdentityIdleView
<1>7. cr' = "gone" => (view.deleting /\ ~err) \/ cr = "gone"
  BY Zenon DEF IdentityPersist
<1>8. IdentityTypeOK'
  BY <1>1, <1>2, <1>4, <1>5, ZenonT(40) DEF IdentityTypeOK, PassTypeOK
<1>9. QED
  BY <1>1, <1>2, <1>3, <1>4, <1>5, <1>6, <1>7, <1>8, ZenonT(40) DEF IdentityInv, ClaimKnown, Target,
     IdentityPersist,
     IdentityUnrecorded

\* Ensure claims the account, and the status names it with the reply.
LEMMA IdentityApply ==
  ASSUME IdentityInv, IdentityTypeOK, serviceaccount_Ensure
  PROVE  IdentityInv' /\ Claimed' \subseteq Claimed \cup {Target}
<1>1. UNCHANGED <<producer, spec, cr, calm, store>>
  BY Zenon DEF serviceaccount_Ensure, userVars
<1>2. Target \in Accounts /\ aws.sa[Target] \in AllAccounts
  BY IdentitySpecsTyped DEF IdentityTypeOK, Worlds, IdentityViews, Target
<1>3. aws' \in Worlds /\ aws'.trust = aws.trust /\ Claimed' \subseteq Claimed \cup {Target}
  <2>1. CASE UNCHANGED aws
    BY <2>1 DEF IdentityTypeOK, Claimed
  <2>2. ASSUME NEW ref \in {"label", "role", None},
               IdentityBecomes(Target, Account("ours", ref, aws.sa[Target].consents))
        PROVE  aws' \in Worlds /\ aws'.trust = aws.trust /\ Claimed' = Claimed \cup {Target}
    <3>1. aws.sa[Target].consents \in BOOLEAN
      BY <1>2 DEF AllAccounts
    <3>2. Account("ours", ref, aws.sa[Target].consents) \in AllAccounts
      BY <3>1, IdentityMade
    <3>3. Account("ours", ref, aws.sa[Target].consents).owner = "ours"
      BY DEF Account
    <3>4. QED
      BY <1>2, <2>2, <3>2, <3>3, AccountBecomes, ZenonT(40)
  <2>3. \/ UNCHANGED aws
        \/ \E ref \in {"label", "role", None} :
             IdentityBecomes(Target, Account("ours", ref, aws.sa[Target].consents))
    BY DEF serviceaccount_Ensure
  <2>4. QED
    BY <2>1, <2>2, <2>3
<1>4. view' \in IdentityViews /\ view'.spec = view.spec /\ view'.deleting = view.deleting
  BY IdentityIdle, ZenonT(40) DEF IdentityTypeOK, IdentityViews, serviceaccount_Ensure
<1>5. mem' \in Statuses /\ (mem' = mem \/ mem'.sa = Target)
  BY <1>2 DEF IdentityTypeOK, Statuses, serviceaccount_Ensure
<1>6. /\ pc = "apply" /\ pc' = "persist" /\ err' \in BOOLEAN
      /\ lost' = IF mem'.sa # Target THEN lost \cup {"claim"} ELSE lost
  <2>1. pc = "apply" /\ pc' = "persist" /\ (err' = err \/ err' = view.deleting)
    BY Zenon DEF serviceaccount_Ensure, GoTo, FailTo
  <2>2. lost' = IF pc' = "persist" /\ mem'.sa # Target THEN lost \cup {"claim"} ELSE lost
    BY Zenon DEF serviceaccount_Ensure
  <2>3. {err, view.deleting} \subseteq BOOLEAN
    BY DEF IdentityTypeOK, PassTypeOK, IdentityViews
  <2>4. QED
    BY <2>1, <2>2, <2>3
<1>7. lost' \subseteq {"claim", "raced"}
  BY <1>6 DEF IdentityTypeOK
<1>8. IdentityTypeOK'
  BY <1>1, <1>3, <1>4, <1>5, <1>6, <1>7, ZenonT(40) DEF IdentityTypeOK, PassTypeOK
<1>9. QED
  BY <1>1, <1>3, <1>4, <1>5, <1>6, <1>8, Zenon DEF IdentityInv, ClaimKnown

\* Others claim nothing for the CR, and whatever they do to an account that a pass has read the history keeps.
LEMMA IdentityOutside ==
  ASSUME IdentityInv, IdentityTypeOK, OtherCR \/ EditAccount
  PROVE  IdentityInv' /\ Claimed' \subseteq Claimed
<1>1. UNCHANGED <<producer, spec, cr, calm, store, pc, view, mem, err>>
  BY Zenon DEF OtherCR, EditAccount, userVars, passVars
<1>2. lost' = IF pc = "idle" THEN lost ELSE lost \cup {"raced"}
  BY Zenon DEF OtherCR, EditAccount, Raced
<1>3. \E n \in Accounts, sa \in AllAccounts : IdentityBecomes(n, sa) /\ sa.owner # "ours"
  <2>1. \A n \in Accounts : aws.sa[n] \in AllAccounts
    BY DEF IdentityTypeOK, Worlds
  <2>2. ASSUME NEW n \in Accounts
        PROVE  /\ aws.sa[n].ref \in {"label", "role", None} /\ (~aws.sa[n].consents) \in BOOLEAN
    BY <2>1 DEF AllAccounts
  <2>3. /\ \A owner, ref, consents : Account(owner, ref, consents).owner = owner
        /\ \A sa : Released(sa).owner = None
        /\ NoAccount.owner = None
    BY DEF Account, Released, NoAccount
  <2>4. None # "ours" /\ "other" # "ours"
    BY DEF None
  <2>5. CASE OtherCR
    <3>1. PICK n \in Accounts :
            \/ IdentityBecomes(n, Account("other", aws.sa[n].ref, TRUE))
            \/ IdentityBecomes(n, Released(aws.sa[n]))
      BY <2>5, Zenon DEF OtherCR
    <3>2. {Account("other", aws.sa[n].ref, TRUE), Released(aws.sa[n])} \subseteq AllAccounts
      BY <2>1, <2>2, IdentityMade, Zenon
    <3>3. QED
      BY <2>3, <2>4, <3>1, <3>2, ZenonT(40)
  <2>6. CASE EditAccount
    <3>1. PICK n \in Accounts :
            \/ IdentityBecomes(n, Account(None, aws.sa[n].ref, ~aws.sa[n].consents))
            \/ IdentityBecomes(n, NoAccount)
            \/ IdentityBecomes(n, Account(None, None, FALSE))
      BY <2>6, Zenon DEF EditAccount
    <3>2. /\ Account(None, aws.sa[n].ref, ~aws.sa[n].consents) \in AllAccounts
          /\ Account(None, None, FALSE) \in AllAccounts
      BY <2>1, <2>2, IdentityMade, Zenon
    <3>3. /\ Account(None, aws.sa[n].ref, ~aws.sa[n].consents).owner # "ours"
          /\ Account(None, None, FALSE).owner # "ours" /\ NoAccount.owner # "ours"
      BY DEF Account, NoAccount, None
    <3>4. \A sa \in AllAccounts : IdentityBecomes(n, sa) /\ sa.owner # "ours" =>
            \E m \in Accounts, new \in AllAccounts : IdentityBecomes(m, new) /\ new.owner # "ours"
      BY Zenon
    <3>5. QED
      BY <3>1, <3>2, <3>3, <3>4, IdentityIdle, Zenon
  <2>7. QED
    BY <2>5, <2>6, Zenon
<1>4. aws' \in Worlds /\ aws'.trust = aws.trust /\ Claimed' \subseteq Claimed
  BY <1>3, AccountBecomes
<1>5. lost' \subseteq {"claim", "raced"}
  BY <1>2 DEF IdentityTypeOK
<1>6. IdentityTypeOK'
  BY <1>1, <1>4, <1>5, ZenonT(40) DEF IdentityTypeOK, PassTypeOK
<1>7. QED
  BY <1>1, <1>2, <1>4, <1>6 DEF IdentityInv, ClaimKnown, Target

\* What the users do.
LEMMA IdentityOthers ==
  ASSUME IdentityInv, IdentityUsers \/ Calm
  PROVE  IdentityInv'
<1>1. CASE EditSpec(IdentitySpecs)
  <2>1. spec' \in IdentitySpecs /\ UNCHANGED <<producer, cr, calm, store, aws, pc, view, mem, err, lost>>
    BY <1>1, Zenon DEF EditSpec, passVars
  <2>2. IdentityTypeOK'
    BY <2>1, ZenonT(40) DEF IdentityInv, IdentityTypeOK, PassTypeOK
  <2>3. QED
    BY <2>1, <2>2, Zenon DEF IdentityInv, ClaimKnown, Claimed, Target
<1>2. CASE DeleteCR(NoIdentitySpec)
  <2>1. /\ spec' = NoIdentitySpec /\ producer' = NoProducer /\ cr' = "deleting"
        /\ UNCHANGED <<calm, store, aws, pc, view, mem, err, lost>>
    BY <1>2, Zenon DEF DeleteCR, passVars
  <2>2. NoProducer \in Producers
    BY DEF NoProducer, Producers
  <2>3. IdentityTypeOK'
    BY <2>1, <2>2, Zenon DEF IdentityInv, IdentityTypeOK, PassTypeOK, IdentitySpecs
  <2>4. Claimed' = Claimed /\ Target' = Target
    BY <2>1 DEF Claimed, Target
  <2>5. QED
    BY <2>1, <2>3, <2>4 DEF IdentityInv, ClaimKnown
<1>3. CASE Calm
  <2>1. calm' = TRUE /\ UNCHANGED <<producer, spec, cr, store, aws, pc, view, mem, err, lost>>
    BY <1>3, Zenon DEF Calm, passVars
  <2>2. IdentityTypeOK'
    BY <2>1, Zenon DEF IdentityInv, IdentityTypeOK, PassTypeOK
  <2>3. QED
    BY <2>1, <2>2, Zenon DEF IdentityInv, ClaimKnown, Claimed, Target
<1>4. QED
  BY <1>1, <1>2, <1>3, Zenon DEF IdentityUsers

\* The invariant holds at first, whichever accounts there are.
LEMMA IdentityStarts ==
  ASSUME IdentityInit
  PROVE  IdentityInv
<1>1. NoProducer \in Producers
  BY DEF NoProducer, Producers
<1>2. aws \in Worlds /\ aws.trust = None /\ Claimed = {}
  <2>1. PICK a \in {NoAccount, Account(None, None, FALSE)} :
          aws = [trust |-> None,
                 sa |-> [n \in Accounts |-> IF n = "cr" THEN a ELSE Account(None, None, TRUE)]]
    BY Zenon DEF IdentityInit
  <2>2. {a, Account(None, None, TRUE)} \subseteq AllAccounts
    BY <2>1, IdentityIdle, IdentityMade, ZenonT(40)
  <2>3. a.owner # "ours" /\ Account(None, None, TRUE).owner # "ours"
    BY <2>1 DEF NoAccount, Account, None
  <2>4. QED
    BY <2>1, <2>2, <2>3, Zenon DEF Worlds, Claimed
<1>3. PassInit
  BY Zenon DEF IdentityInit
<1>4. PassTypeOK
  BY <1>1, <1>3, Zenon DEF PassInit, PassTypeOK
<1>5. IdentityTypeOK
  BY <1>2, <1>4, IdentityIdle, Zenon DEF IdentityInit, IdentityTypeOK
<1>6. pc = "idle" /\ cr = "live" /\ view = IdentityIdleView
  BY <1>3, Zenon DEF PassInit, IdentityInit
<1>7. ~view.deleting
  BY <1>6 DEF IdentityIdleView
<1>8. QED
  BY <1>2, <1>5, <1>6, <1>7, ZenonT(40) DEF IdentityInv, ClaimKnown

\* Every step keeps the invariant.
LEMMA IdentityStep ==
  ASSUME IdentityInv, IdentityNext \/ Calm
  PROVE  IdentityInv'
<1> IdentityTypeOK
  BY Zenon DEF IdentityInv
<1>1. CASE IdentityPass
  BY <1>1, IdentityBegins, IdentityLabel, IdentityRole, IdentitySync, IdentityRelease, IdentityApply,
     IdentityDrop,
     IdentityPersists, ZenonT(40) DEF IdentityPass
<1>2. CASE IdentityCrash \/ IdentityCallFails \/ OtherCR \/ EditAccount
  BY <1>2, IdentityCrashes, IdentityFails, IdentityOutside, Zenon
<1>3. CASE IdentityUsers \/ Calm
  BY <1>3, IdentityOthers, Zenon
<1>4. QED
  BY <1>1, <1>2, <1>3, Zenon DEF IdentityNext

\* Only Ensure puts the CR's role on an account, the one the pass has read.
LEMMA IdentityOwned ==
  ASSUME IdentityInv, IdentityNext
  PROVE  IdentityChangesOnlyOwned
<1>1. IdentityTypeOK
  BY Zenon DEF IdentityInv
<1>2. SUFFICES ASSUME NEW n \in Accounts, n \in Claimed', n \notin Claimed, aws.sa[n].exists,
                      ~(aws.sa[n].owner = None /\ aws.sa[n].consents), "raced" \notin lost
               PROVE  FALSE
  <2>1. \A n \in Accounts : /\ n \in Claimed <=> aws.sa[n].owner = "ours"
                            /\ n \in Claimed' <=> aws'.sa[n].owner = "ours"
    BY DEF Claimed
  <2>2. QED
    BY <1>2, <2>1, Zenon DEF IdentityChangesOnlyOwned
<1>3. CASE serviceaccount_Ensure
  <2>1. pc = "apply"
    BY <1>3, Zenon DEF serviceaccount_Ensure
  <2>2. n # Target
    BY <1>2, <2>1 DEF IdentityInv, Claimed
  <2>3. Claimed' \subseteq Claimed \cup {Target}
    BY <1>1, <1>3, IdentityApply
  <2>4. QED
    BY <1>2, <2>2, <2>3
<1>4. CASE IdentityNext /\ ~serviceaccount_Ensure
  <2>1. CASE IdentityUsers
    BY <1>2, <2>1, Zenon DEF IdentityUsers, EditSpec, DeleteCR, Claimed
  <2>2. IdentityUsers \/ Claimed' \subseteq Claimed
    BY <1>1, <1>4, IdentityBegins, IdentityLabel, IdentityRole, IdentitySync, IdentityRelease, IdentityDrop,
       IdentityPersists,
       IdentityCrashes, IdentityFails, IdentityOutside, ZenonT(40) DEF IdentityNext, IdentityPass
  <2>3. QED
    BY <1>2, <2>1, <2>2, Zenon
<1>5. QED
  BY <1>3, <1>4, Zenon

-----------------------------------------------------------------------------
(* The alarms.                                                             *)

\* What a spec declares are alarms.
LEMMA AlarmSpecsOK ==
  AllAlarmSpecs \subseteq [alarms : SUBSET Names, topic : BOOLEAN, takeOver : BOOLEAN]
<1>1. NoAlarmSpec \in [alarms : SUBSET Names, topic : BOOLEAN, takeOver : BOOLEAN]
  BY ZenonT(40) DEF NoAlarmSpec, AlarmDeclares
<1>2. QED
  BY <1>1, NamesAssumption, Zenon DEF AllAlarmSpecs

\* Between passes nothing is read; there may be no alarm.
LEMMA AlarmIdle ==
  AlarmIdleView \in AlarmViews /\ NoAlarm \in AllAlarms /\ NoAlarmStatus \in {"unknown", "no", "yes"}
<1>1. NoAlarm \in AllAlarms
  BY DEF NoAlarm, AllAlarms
<1>2. NoAlarmSpec \in AllAlarmSpecs
  BY Zenon DEF AllAlarmSpecs
<1>3. QED
  BY <1>1, <1>2 DEF AlarmIdleView, AlarmViews, NoNext, NoAlarmStatus

\* One alarm changes, and nothing else.
LEMMA OneAlarmBecomes ==
  ASSUME AlarmTypeOK, NEW n \in Names, NEW alarm \in AllAlarms, AlarmBecomes(n, alarm)
  PROVE  /\ aws' \in [alarms : [Names -> AllAlarms], key : SUBSET Names]
         /\ aws'.alarms[n] = alarm
         /\ \A m \in Names \ {n} : aws'.alarms[m] = aws.alarms[m]
<1>1. aws \in [alarms : [Names -> AllAlarms], key : SUBSET Names]
  BY Zenon DEF AlarmTypeOK
<1>2. aws' = [alarms |-> [aws.alarms EXCEPT ![n] = alarm], key |-> aws.key]
  BY <1>1 DEF AlarmBecomes
<1>3. QED
  BY <1>1, <1>2

\* Begin reads the persisted status.
LEMMA AlarmBegins ==
  ASSUME AlarmInv, AlarmTypeOK, AlarmBegin
  PROVE  AlarmInv'
<1>1. UNCHANGED <<producer, spec, cr, calm, store, aws, err, lost>> /\ mem' = store
  BY Zenon DEF AlarmBegin, userVars, GoTo
<1>2. view' \in AlarmViews /\ view'.spec = spec /\ view'.deleting = (cr = "deleting")
  BY AlarmIdle, Zenon DEF AlarmTypeOK, AlarmBegin, AlarmViews
<1>3. pc = "idle" /\ cr # "gone" /\ pc' = IF cr = "live" THEN "ensure" ELSE "list"
  BY Zenon DEF AlarmBegin, GoTo
<1>4. AlarmTypeOK'
  BY <1>1, <1>2, Zenon DEF AlarmTypeOK, PassTypeOK
<1>5. QED
  BY <1>1, <1>2, <1>3, <1>4, Zenon DEF AlarmInv, AlarmsKnown, Mine, AlarmTypeOK, PassTypeOK, Walking

\* Ensure leaves a status that says there are no alarms.
LEMMA AlarmEnsure ==
  ASSUME AlarmInv, AlarmTypeOK, alarms_Ensure
  PROVE  AlarmInv'
<1>1. UNCHANGED <<producer, spec, cr, calm, store, aws, view, lost>>
  BY Zenon DEF alarms_Ensure, userVars
<1>2. mem' \in {"unknown", "no", "yes"} /\ (mem' = "no" => mem = "no")
  BY DEF AlarmTypeOK, alarms_Ensure, mayExistAfterFailure
<1>3. pc = "ensure" /\ pc' \in {"persist", "list"} /\ err' \in BOOLEAN
  BY DEF AlarmTypeOK, PassTypeOK, AlarmViews, alarms_Ensure, GoTo, FailTo
<1>4. AlarmTypeOK'
  BY <1>1, <1>2, <1>3, Zenon DEF AlarmTypeOK, PassTypeOK
<1>5. QED
  BY <1>1, <1>2, <1>3, <1>4 DEF AlarmInv, AlarmsKnown, Mine, Walking

\* listAlarmsByPrefix lists what there is.
LEMMA AlarmList ==
  ASSUME AlarmInv, AlarmTypeOK, listAlarmsByPrefix
  PROVE  AlarmInv'
<1>1. UNCHANGED <<producer, spec, cr, calm, store, aws>>
  BY Zenon DEF listAlarmsByPrefix, userVars
<1>2. pc = "list" /\ view.deleting \in BOOLEAN /\ view.spec.alarms \subseteq Names
  BY AlarmSpecsOK, ZenonT(40) DEF AlarmTypeOK, AlarmViews, listAlarmsByPrefix
<1>3. CASE view' = [view EXCEPT !.listed = aws.alarms, !.todo = desiredAlarms]
           /\ GoTo("alarm") /\ lost' = lost \ {"raced"} /\ UNCHANGED mem
  <2>1. /\ view' \in AlarmViews /\ view'.listed = aws.alarms /\ view'.todo = view.spec.alarms
        /\ view'.spec = view.spec /\ view'.deleting = view.deleting
    BY <1>2, <1>3, ZenonT(40) DEF AlarmTypeOK, AlarmViews, desiredAlarms
  <2>2. pc' = "alarm" /\ err' = err /\ mem' = mem /\ lost' \subseteq lost /\ ("alarm" \in lost => "alarm" \in lost')
    BY <1>3 DEF GoTo
  <2>3. AlarmTypeOK'
    BY <1>1, <2>1, <2>2, Zenon DEF AlarmTypeOK, PassTypeOK
  <2>4. QED
    BY <1>1, <1>2, <2>1, <2>2, <2>3 DEF AlarmInv, AlarmsKnown, Mine, Exists, Walking
<1>4. CASE FailTo("persist") /\ Returned(FALSE) /\ UNCHANGED <<view, lost>>
  <2>1. pc' = "persist" /\ err' = view.deleting /\ mem' \in {mem, "yes"} /\ UNCHANGED <<view, lost>>
    BY <1>4 DEF FailTo, Returned
  <2>2. AlarmTypeOK'
    BY <1>1, <1>2, <2>1, ZenonT(40) DEF AlarmTypeOK, PassTypeOK
  <2>3. QED
    BY <1>1, <1>2, <2>1, <2>2, ZenonT(40) DEF AlarmInv, AlarmsKnown, Mine, Walking
<1>5. QED
  BY <1>3, <1>4, Zenon DEF listAlarmsByPrefix

\* While the alarms are being seen to, the invariant holds on when no alarm that is
\* not declared becomes the CR's, and none still to be seen to comes into being.
LEMMA AlarmWalk ==
  ASSUME AlarmInv, pc \in Walking, pc' \in Walking, AlarmTypeOK',
         UNCHANGED <<spec, cr, store, mem>>, lost \subseteq lost',
         view'.spec = view.spec, view'.deleting = view.deleting, view'.listed = view.listed,
         view'.todo \subseteq view.todo,
         \A m \in Names \ view.spec.alarms : Mine(m)' => Mine(m),
         "raced" \in lost' \/ \A m \in view'.todo : Exists(aws'.alarms[m]) => Exists(aws.alarms[m]),
         pc' \in {"replace", "put"} =>
           /\ view'.next.name \in view'.spec.alarms /\ view'.next.name \notin view'.todo
           /\ "raced" \in lost' \/ aws'.alarms[view'.next.name].tags \in NextTags',
         pc' = "replace" => view'.next.create /\ view'.spec.takeOver
  PROVE  AlarmInv'
<1>1. cr # "gone" /\ (cr' = "deleting" => spec'.alarms = {})
  BY Zenon DEF AlarmInv, Walking
<1>2. view'.deleting => view'.spec.alarms = {} /\ pc' # "ensure"
  BY Zenon DEF AlarmInv, Walking
<1>3. view'.spec.alarms = {} => AlarmsKnown(mem)'
  <2>1. view.spec.alarms = {} => AlarmsKnown(mem)
    BY DEF AlarmInv, Walking
  <2>2. view.spec.alarms = {} => \A m \in Names : Mine(m)' => Mine(m)
    BY Zenon
  <2>3. QED
    BY <2>1, <2>2, Zenon DEF AlarmsKnown
<1>4. /\ \A m \in Names \ view'.spec.alarms : Mine(m)' => Exists(view'.listed[m])
      /\ view'.todo \subseteq view'.spec.alarms
  BY ZenonT(40) DEF AlarmInv
<1>5. "raced" \in lost' \/ \A m \in view'.todo : Exists(view'.listed[m]) \/ ~Exists(aws'.alarms[m])
  BY DEF AlarmInv
<1>6. QED
  BY <1>1, <1>2, <1>3, <1>4, <1>5, Zenon DEF AlarmInv, Exists, Walking

\* reconcileAlarm only decides: to put what is not there or is the CR's, and to replace
\* what the CR was told to take over.
LEMMA AlarmOne ==
  ASSUME AlarmInv, NEW n \in Names, reconcileAlarm(n)
  PROVE  AlarmInv' /\ UNCHANGED aws
<1>1. AlarmTypeOK /\ pc = "alarm" /\ n \in view.todo
  BY Zenon DEF AlarmInv, reconcileAlarm
<1>2. UNCHANGED <<producer, spec, cr, calm, store, aws, mem, lost>>
  BY Zenon DEF reconcileAlarm, userVars
<1>3. /\ n \in view.spec.alarms
      /\ Exists(view.listed[n]) \/ aws.alarms[n].tags = "absent" \/ "raced" \in lost
  BY <1>1, ZenonT(40) DEF AlarmInv, Exists, Walking
<1>4. view.deleting \in BOOLEAN /\ err \in BOOLEAN
  BY <1>1 DEF AlarmTypeOK, PassTypeOK, AlarmViews
<1>5. ASSUME NEW step, NEW create \in BOOLEAN, Then(step, n, create)
      PROVE  /\ view' \in AlarmViews /\ view'.spec = view.spec /\ view'.deleting = view.deleting
             /\ view'.listed = view.listed /\ view'.todo = view.todo \ {n}
             /\ view'.next.name = n /\ view'.next.create = create
             /\ pc' = step /\ err' = err
  BY <1>1, <1>5, Zenon DEF AlarmTypeOK, AlarmViews, Then, GoTo
<1>6. ASSUME Skip(n) \/ Fail(n)
      PROVE  /\ view' \in AlarmViews /\ view'.spec = view.spec /\ view'.deleting = view.deleting
             /\ view'.listed = view.listed /\ view'.todo = view.todo \ {n}
             /\ pc' = "alarm" /\ err' \in BOOLEAN
  <2>1. CASE Skip(n)
    BY <1>1, <1>4, <2>1 DEF AlarmTypeOK, AlarmViews, Skip, GoTo
  <2>2. CASE Fail(n)
    BY <1>1, <1>4, <2>2, Zenon DEF AlarmTypeOK, AlarmViews, Fail
  <2>3. QED
    BY <1>6, <2>1, <2>2, Zenon
<1>7. \/ Skip(n) \/ Fail(n)
      \/ Then("put", n, TRUE) /\ ~Exists(view.listed[n])
      \/ Then("put", n, FALSE) /\ aws.alarms[n].tags = "ours"
      \/ Then("replace", n, TRUE) /\ aws.alarms[n].tags = "previous" /\ view.spec.takeOver
  BY Zenon DEF reconcileAlarm, TakingOver
<1>8. /\ view' \in AlarmViews /\ view'.spec = view.spec /\ view'.deleting = view.deleting
      /\ view'.listed = view.listed /\ view'.todo = view.todo \ {n}
  BY <1>5, <1>6, <1>7, ZenonT(40)
<1>9. /\ pc' \in Walking /\ err' \in BOOLEAN
      /\ pc' \in {"replace", "put"} => view'.next.name = n /\ ("raced" \in lost \/ aws.alarms[n].tags \in NextTags')
      /\ pc' = "replace" => view'.next.create /\ view'.spec.takeOver
  <2>1. CASE Skip(n) \/ Fail(n)
    BY <1>6, <2>1 DEF Walking
  <2>2. CASE Then("put", n, TRUE) /\ ~Exists(view.listed[n])
    BY <1>3, <1>4, <1>5, <2>2, ZenonT(40) DEF Walking, NextTags
  <2>3. CASE Then("put", n, FALSE) /\ aws.alarms[n].tags = "ours"
    BY <1>4, <1>5, <2>3, ZenonT(40) DEF Walking, NextTags
  <2>4. CASE Then("replace", n, TRUE) /\ aws.alarms[n].tags = "previous" /\ view.spec.takeOver
    BY <1>4, <1>5, <1>8, <2>4, ZenonT(40) DEF Walking, NextTags
  <2>5. QED
    BY <1>7, <2>1, <2>2, <2>3, <2>4, Zenon
<1>10. AlarmTypeOK'
  BY <1>1, <1>2, <1>8, <1>9, Zenon DEF AlarmTypeOK, PassTypeOK
<1>11. AlarmInv'
  <2>1. pc \in Walking
    BY <1>1 DEF Walking
  <2>2. /\ \A m \in Names \ view.spec.alarms : Mine(m)' => Mine(m)
        /\ \A m \in view'.todo : Exists(aws'.alarms[m]) => Exists(aws.alarms[m])
        /\ view'.todo \subseteq view.todo /\ n \notin view'.todo /\ lost \subseteq lost'
    BY <1>2, <1>8, Zenon DEF Mine, Exists
  <2>3. QED
    BY <1>2, <1>3, <1>8, <1>9, <1>10, <2>1, <2>2, AlarmWalk, ZenonT(40)
<1>12. QED
  BY <1>2, <1>11, Zenon

\* replaceAlarm deletes an alarm of the previous incarnation's that the CR takes over,
\* unless somebody was faster.
LEMMA AlarmReplace ==
  ASSUME AlarmInv, replaceAlarm
  PROVE  /\ AlarmInv' /\ pc = "replace" /\ view.spec.takeOver
         /\ \A m \in Names : \/ aws'.alarms[m] = aws.alarms[m] \/ aws.alarms[m].tags \in {"absent", "previous"}
                             \/ "raced" \in lost
<1> DEFINE n == view.next.name
<1>1. AlarmTypeOK /\ pc = "replace"
  BY Zenon DEF AlarmInv, replaceAlarm
<1>2. UNCHANGED <<producer, spec, cr, calm, store, mem, err, lost>> /\ pc' \in {"put", "alarm"}
  BY ZenonT(40) DEF replaceAlarm, userVars, GoTo
<1>3. /\ view.spec.alarms \subseteq Names
      /\ aws \in [alarms : [Names -> AllAlarms], key : SUBSET Names]
  BY <1>1, AlarmSpecsOK, ZenonT(40) DEF AlarmTypeOK, AlarmViews
<1>4. /\ n \in view.spec.alarms /\ n \notin view.todo /\ view.next.create /\ view.spec.takeOver
      /\ aws.alarms[n].tags \in {"absent", "previous"} \/ "raced" \in lost
  BY <1>1 DEF AlarmInv, NextTags
<1>5. /\ AlarmBecomes(n, NoAlarm) \/ UNCHANGED aws
      /\ \/ UNCHANGED view /\ AlarmBecomes(n, NoAlarm)
         \/ pc' = "alarm" /\ view' = [view EXCEPT !.next = NoNext, !.failed = TRUE]
  BY ZenonT(40) DEF replaceAlarm, GoTo
<1>6. NoAlarm \in AllAlarms /\ NoAlarm.tags = "absent"
  BY AlarmIdle DEF NoAlarm
<1>7. ASSUME AlarmBecomes(n, NoAlarm)
      PROVE  /\ aws' \in [alarms : [Names -> AllAlarms], key : SUBSET Names]
             /\ aws'.alarms[n] = NoAlarm /\ \A m \in Names \ {n} : aws'.alarms[m] = aws.alarms[m]
  BY <1>1, <1>3, <1>4, <1>6, <1>7, OneAlarmBecomes, ZenonT(40)
<1>8. /\ aws' \in [alarms : [Names -> AllAlarms], key : SUBSET Names]
      /\ \A m \in Names \ {n} : aws'.alarms[m] = aws.alarms[m]
      /\ UNCHANGED view => aws'.alarms[n].tags = "absent" \/ pc' = "alarm"
  BY <1>3, <1>5, <1>6, <1>7, ZenonT(40)
<1>9. /\ view' \in AlarmViews /\ view'.spec = view.spec /\ view'.deleting = view.deleting
      /\ view'.listed = view.listed /\ view'.todo = view.todo
      /\ UNCHANGED view \/ pc' = "alarm"
  <2>1. view \in AlarmViews /\ NoNext \in [name : Names \cup {"none"}, create : BOOLEAN]
    BY <1>1 DEF AlarmTypeOK, NoNext
  <2>2. QED
    BY <1>5, <2>1, ZenonT(40) DEF AlarmViews
<1>10. AlarmTypeOK'
  BY <1>1, <1>2, <1>8, <1>9, Zenon DEF AlarmTypeOK, PassTypeOK
<1>11. AlarmInv'
  <2>1. /\ \A m \in Names \ view.spec.alarms : Mine(m)' => Mine(m)
        /\ view'.todo \subseteq Names
    BY <1>3, <1>4, <1>8, <1>9, ZenonT(40) DEF Mine, AlarmViews
  <2>2. \A m \in view'.todo : Exists(aws'.alarms[m]) => Exists(aws.alarms[m])
    BY <1>4, <1>8, <1>9, <2>1, ZenonT(40) DEF Exists
  <2>3. pc' = "put" => /\ view'.next.name = n /\ view'.next.name \in view'.spec.alarms
                       /\ view'.next.name \notin view'.todo /\ aws'.alarms[view'.next.name].tags \in NextTags'
    BY <1>4, <1>8, <1>9 DEF NextTags
  <2>4. /\ pc \in Walking /\ pc' \in Walking /\ pc' # "replace" /\ lost \subseteq lost'
        /\ view'.todo \subseteq view.todo
    BY <1>1, <1>2, <1>9 DEF Walking
  <2>5. QED
    BY <1>2, <1>9, <1>10, <2>1, <2>2, <2>3, <2>4, AlarmWalk, ZenonT(40)
<1>12. QED
  BY <1>1, <1>3, <1>4, <1>8, <1>11, SMTT(30)

\* putAlarm creates an alarm that is not there, or changes the CR's, unless somebody
\* was faster.
LEMMA AlarmPut ==
  ASSUME AlarmInv, putAlarm
  PROVE  /\ AlarmInv'
         /\ \A m \in Names : \/ aws'.alarms[m] = aws.alarms[m] \/ aws.alarms[m].tags \in {"absent", "ours"}
                             \/ "raced" \in lost
<1> DEFINE n == view.next.name
           tags == IF Exists(aws.alarms[n]) THEN aws.alarms[n].tags
                   ELSE IF view.next.create THEN "ours" ELSE "none"
<1>1. AlarmTypeOK /\ pc = "put"
  BY Zenon DEF AlarmInv, putAlarm
<1>2. UNCHANGED <<producer, spec, cr, calm, store, mem, err, lost>> /\ pc' = "alarm"
  BY Zenon DEF putAlarm, userVars, GoTo
<1>3. /\ view.spec.alarms \subseteq Names /\ view.spec.topic \in BOOLEAN
      /\ aws \in [alarms : [Names -> AllAlarms], key : SUBSET Names]
  BY <1>1, AlarmSpecsOK, ZenonT(40) DEF AlarmTypeOK, AlarmViews
<1>4. n \in view.spec.alarms /\ n \notin view.todo /\ (aws.alarms[n].tags \in {"absent", "ours"} \/ "raced" \in lost)
  BY <1>1 DEF AlarmInv, NextTags
<1>5. AlarmBecomes(n, Alarm(tags, view.spec.topic))
  BY Zenon DEF putAlarm
<1>6. Alarm(tags, view.spec.topic) \in AllAlarms
  BY <1>3, <1>4, ZenonT(40) DEF Alarm, AllAlarms, Exists
<1>7. /\ aws' \in [alarms : [Names -> AllAlarms], key : SUBSET Names]
      /\ \A m \in Names \ {n} : aws'.alarms[m] = aws.alarms[m]
  BY <1>1, <1>3, <1>4, <1>5, <1>6, OneAlarmBecomes, ZenonT(40)
<1>8. /\ view' \in AlarmViews /\ view'.spec = view.spec /\ view'.deleting = view.deleting
      /\ view'.listed = view.listed /\ view'.todo = view.todo
  <2>1. \/ view' = [view EXCEPT !.next = NoNext]
        \/ view' = [view EXCEPT !.next = NoNext, !.failed = TRUE]
    BY Zenon DEF putAlarm
  <2>2. view \in AlarmViews /\ NoNext \in [name : Names \cup {"none"}, create : BOOLEAN]
    BY <1>1 DEF AlarmTypeOK, NoNext
  <2>3. QED
    BY <2>1, <2>2, ZenonT(40) DEF AlarmViews
<1>9. AlarmTypeOK'
  BY <1>1, <1>2, <1>7, <1>8, Zenon DEF AlarmTypeOK, PassTypeOK
<1>10. AlarmInv'
  <2>1. /\ \A m \in Names \ view.spec.alarms : Mine(m)' => Mine(m)
        /\ view'.todo \subseteq Names
    BY <1>3, <1>4, <1>7, <1>8, ZenonT(40) DEF Mine, AlarmViews
  <2>2. \A m \in view'.todo : Exists(aws'.alarms[m]) => Exists(aws.alarms[m])
    BY <1>4, <1>7, <1>8, <2>1, ZenonT(40) DEF Exists
  <2>3. pc \in Walking /\ pc' \in Walking /\ pc' \notin {"replace", "put"}
    BY <1>1, <1>2 DEF Walking
  <2>4. QED
    BY <1>2, <1>8, <1>9, <2>1, <2>2, <2>3, AlarmWalk, ZenonT(40)
<1>11. QED
  BY <1>3, <1>4, <1>7, <1>10, SMTT(30)

\* isAlarmOwnedByUs picks, of the alarms that are not declared, the CR's: all of them
\* unless a call failed.
LEMMA AlarmSelect ==
  ASSUME AlarmInv, isAlarmOwnedByUs
  PROVE  AlarmInv' /\ UNCHANGED aws
<1>1. AlarmTypeOK /\ pc = "alarm"
  BY Zenon DEF AlarmInv, isAlarmOwnedByUs
<1>2. UNCHANGED <<producer, spec, cr, calm, store, aws, mem, err, lost>> /\ pc' = "delete"
  BY Zenon DEF isAlarmOwnedByUs, userVars, GoTo
<1>3. PICK owned \in SUBSET OwnedUndeclared, failed \in BOOLEAN :
        /\ owned = OwnedUndeclared \/ failed
        /\ view' = [view EXCEPT !.todo = owned, !.listed = AlarmIdleView.listed, !.failed = failed]
  BY Zenon DEF isAlarmOwnedByUs
<1>4. /\ view.deleting => view.spec.alarms = {}
      /\ view.spec.alarms = {} => AlarmsKnown(mem)
      /\ \A n \in Names \ view.spec.alarms : Mine(n) => Exists(view.listed[n])
      /\ cr # "gone" /\ (cr = "deleting" => spec.alarms = {})
  BY <1>1, Zenon DEF AlarmInv, Walking
<1>5. OwnedUndeclared \subseteq Names /\ \A n \in OwnedUndeclared : aws.alarms[n].tags = "ours"
  BY DEF OwnedUndeclared, Undeclared, Mine
<1>6. /\ view' \in AlarmViews /\ view'.spec = view.spec /\ view'.deleting = view.deleting
      /\ view'.todo = owned /\ view'.failed = failed
  <2>1. view \in AlarmViews /\ AlarmIdleView.listed \in [Names -> AllAlarms] /\ owned \in SUBSET Names
    BY <1>1, <1>5, AlarmIdle, ZenonT(40) DEF AlarmTypeOK, AlarmViews
  <2>2. QED
    BY <1>3, <2>1, ZenonT(40) DEF AlarmViews
<1>7. AlarmTypeOK'
  BY <1>1, <1>2, <1>6, Zenon DEF AlarmTypeOK, PassTypeOK
<1>8. /\ \A n \in view'.todo : aws'.alarms[n].tags \in {"absent", "ours"}
      /\ view'.failed \/ \A n \in Names \ view'.spec.alarms : Mine(n)' => n \in view'.todo
  <2>1. \A n \in Names \ view.spec.alarms : Mine(n) => n \in OwnedUndeclared
    BY <1>4, Zenon DEF OwnedUndeclared, Undeclared, desiredAlarms
  <2>2. QED
    BY <1>2, <1>3, <1>5, <1>6, <2>1, ZenonT(40) DEF Mine
<1>9. view'.spec.alarms = {} => AlarmsKnown(mem)'
  BY <1>2, <1>4, <1>6, Zenon DEF AlarmsKnown, Mine
<1>10. AlarmInv'
  BY <1>2, <1>4, <1>6, <1>7, <1>8, <1>9, ZenonT(40) DEF AlarmInv, Walking
<1>11. QED
  BY <1>2, <1>10, Zenon

\* deleteUndeclaredAlarms deletes what is the CR's, unless somebody was faster; with
\* nothing declared, nothing is left, and only then does the status say so.
LEMMA AlarmDelete ==
  ASSUME AlarmInv, deleteUndeclaredAlarms
  PROVE  /\ AlarmInv'
         /\ \A m \in Names : \/ aws'.alarms[m] = aws.alarms[m] \/ aws.alarms[m].tags \in {"absent", "ours"}
                             \/ "raced" \in lost
<1>1. AlarmTypeOK /\ pc = "delete"
  BY Zenon DEF AlarmInv, deleteUndeclaredAlarms
<1>2. UNCHANGED <<producer, spec, cr, calm, store, view, lost>>
  BY Zenon DEF deleteUndeclaredAlarms, userVars
<1>3. /\ view.deleting \in BOOLEAN /\ view.failed \in BOOLEAN /\ err \in BOOLEAN
      /\ aws \in [alarms : [Names -> AllAlarms], key : SUBSET Names]
      /\ mem \in {"unknown", "no", "yes"}
  BY <1>1 DEF AlarmTypeOK, PassTypeOK, AlarmViews
<1>4. /\ view.deleting => view.spec.alarms = {}
      /\ view.spec.alarms = {} => AlarmsKnown(mem)
      /\ "raced" \in lost \/ \A n \in view.todo : aws.alarms[n].tags \in {"absent", "ours"}
      /\ view.failed \/ \A n \in Names \ view.spec.alarms : Mine(n) => n \in view.todo
      /\ cr # "gone" /\ (cr = "deleting" => spec.alarms = {})
  BY <1>1, ZenonT(40) DEF AlarmInv
<1>5. ASSUME NEW ok \in BOOLEAN, Returned(ok)
      PROVE  /\ mem' \in {"unknown", "no", "yes"}
             /\ mem' = "no" => mem = "no" \/ (ok /\ view.spec.alarms = {})
             /\ view.deleting => mem' = mem
  BY <1>3, <1>4, <1>5 DEF Returned, desiredAlarms
<1>6. /\ pc' = "persist" /\ err' \in BOOLEAN
      /\ \/ ~view.failed /\ DeleteAlarms /\ Returned(TRUE)
         \/ Returned(FALSE) /\ err' = view.deleting /\ (DeleteAlarms \/ UNCHANGED aws)
  BY <1>3, ZenonT(40) DEF deleteUndeclaredAlarms, FailTo, GoTo
<1>7. ASSUME DeleteAlarms
      PROVE  /\ aws' \in [alarms : [Names -> AllAlarms], key : SUBSET Names]
             /\ \A n \in Names : aws'.alarms[n] = IF n \in view.todo THEN NoAlarm ELSE aws.alarms[n]
  BY <1>3, <1>7, AlarmIdle DEF DeleteAlarms
<1>8. /\ aws' \in [alarms : [Names -> AllAlarms], key : SUBSET Names]
      /\ \A n \in Names : \/ aws'.alarms[n] = aws.alarms[n]
                          \/ n \in view.todo /\ aws'.alarms[n] = NoAlarm
  BY <1>3, <1>6, <1>7, ZenonT(40)
<1>9. mem' \in {"unknown", "no", "yes"}
  BY <1>5, <1>6, Zenon
<1>10. AlarmTypeOK'
  BY <1>1, <1>2, <1>6, <1>8, <1>9, ZenonT(40) DEF AlarmTypeOK, PassTypeOK
<1>11. NoAlarm.tags = "absent"
  BY DEF NoAlarm
<1>12. \A n \in Names : Mine(n)' => Mine(n)
  BY <1>8, <1>11, ZenonT(40) DEF Mine
<1>13. AlarmsKnown(mem)' /\ (view'.deleting /\ ~err' => \A n \in Names : ~Mine(n)')
  <2>1. CASE ~view.failed /\ DeleteAlarms /\ Returned(TRUE)
    <3>1. view.spec.alarms = {} => \A n \in Names : ~Mine(n)'
      BY <1>4, <1>7, <1>11, <2>1, ZenonT(40) DEF Mine
    <3>2. mem' = "no" => mem = "no" \/ view.spec.alarms = {}
      BY <1>5, <2>1, Zenon
    <3>3. mem' = "no" /\ view.spec.alarms # {} => ~view.deleting /\ FALSE
      BY <1>3, <1>4, <2>1 DEF Returned, desiredAlarms
    <3>4. QED
      BY <1>2, <1>4, <3>1, <3>3, ZenonT(40) DEF AlarmsKnown
  <2>2. CASE Returned(FALSE) /\ err' = view.deleting
    <3>1. mem' = "no" => mem = "no" /\ view.spec.alarms = {}
      BY <1>3, <1>4, <2>2 DEF Returned, desiredAlarms
    <3>2. QED
      BY <1>2, <1>4, <1>12, <2>2, <3>1, ZenonT(40) DEF AlarmsKnown
  <2>3. QED
    BY <1>6, <2>1, <2>2, Zenon
<1>14. AlarmInv'
  BY <1>2, <1>4, <1>6, <1>10, <1>13, ZenonT(40) DEF AlarmInv, Walking
<1>15. QED
  BY <1>4, <1>8, <1>14, ZenonT(40)

\* EndPass: between passes, the status that is stored is right, or the history says
\* why not.
LEMMA AlarmEnd ==
  ASSUME AlarmInv, AlarmPersist \/ AlarmCrash
  PROVE  AlarmInv' /\ UNCHANGED aws
<1>1. AlarmTypeOK /\ pc # "idle"
  BY Zenon DEF AlarmInv, AlarmPersist, AlarmCrash
<1>2. UNCHANGED <<producer, spec, calm, aws>>
  BY Zenon DEF AlarmPersist, AlarmCrash, userVars
<1>3. pc' = "idle" /\ view' = AlarmIdleView /\ mem' = NoAlarmStatus /\ err' = FALSE /\ store' \in {mem, store}
  BY ZenonT(40) DEF AlarmPersist, AlarmCrash, EndPass
<1>4. view' \in AlarmViews /\ mem' \in {"unknown", "no", "yes"} /\ ~view'.deleting
  BY <1>3, AlarmIdle, ZenonT(40) DEF AlarmIdleView
<1>5. lost' \subseteq {"alarm", "raced"}
  BY <1>1 DEF AlarmTypeOK, AlarmPersist, AlarmCrash, Unknown
<1>6. /\ cr' \in {"live", "deleting", "gone"} /\ (cr' = "deleting" => cr = "deleting")
      /\ cr' = "gone" => \A n \in Names : ~Mine(n)
  <2>1. CASE AlarmPersist
    BY <1>1, <2>1 DEF AlarmInv, AlarmTypeOK, PassTypeOK, AlarmPersist
  <2>2. CASE AlarmCrash
    BY <1>1, <2>2, ZenonT(40) DEF AlarmInv, AlarmTypeOK, PassTypeOK, AlarmCrash, userVars
  <2>3. QED
    BY <2>1, <2>2, Zenon
<1>7. AlarmsKnown(store)'
  <2>1. CASE AlarmPersist
    <3>1. AlarmsKnown(mem) /\ store' = mem /\ lost' = lost \cap Unknown(mem)
      BY <2>1, ZenonT(40) DEF AlarmInv, AlarmPersist, EndPass, Walking
    <3>2. QED
      BY <1>2, <3>1 DEF AlarmsKnown, Unknown, Mine
  <2>2. CASE AlarmCrash
    BY <1>2, <2>2, SMTT(30) DEF AlarmsKnown, Unknown, Mine, AlarmCrash, EndPass
  <2>3. QED
    BY <2>1, <2>2, ZenonT(40)
<1>8. AlarmTypeOK'
  BY <1>1, <1>2, <1>3, <1>4, <1>5, <1>6, ZenonT(40) DEF AlarmTypeOK, PassTypeOK
<1>9. \A n \in Names : Mine(n)' <=> Mine(n)
  BY <1>2, Zenon DEF Mine
<1>10. QED
  BY <1>2, <1>3, <1>4, <1>6, <1>7, <1>8, <1>9, ZenonT(40) DEF AlarmInv, Walking

\* What others do: no alarm becomes the CR's, and none comes into being unnoticed.
LEMMA AlarmOutside ==
  ASSUME AlarmInv, AlarmTypeOK', UNCHANGED <<store, pc, view, mem, err>>, lost \subseteq lost',
         cr' = "gone" => cr = "gone", cr' = "deleting" => spec'.alarms = {},
         \A m \in Names : aws'.alarms[m].tags \in {aws.alarms[m].tags, "absent", "other"},
         \/ \A m \in Names : aws'.alarms[m].tags \in {aws.alarms[m].tags, "absent"}
         \/ pc = "idle" \/ "raced" \in lost'
  PROVE  AlarmInv'
<1>1. /\ \A m \in Names : Mine(m)' => Mine(m)
      /\ \/ \A m \in Names : Exists(aws'.alarms[m]) => Exists(aws.alarms[m])
         \/ pc = "idle" \/ "raced" \in lost'
  BY Zenon DEF Mine, Exists
<1>2. /\ AlarmsKnown(store) => AlarmsKnown(store)'
      /\ AlarmsKnown(mem) => AlarmsKnown(mem)'
  BY <1>1, Zenon DEF AlarmsKnown
<1>3. view.todo \subseteq Names /\ view.spec.alarms \subseteq Names
  BY AlarmSpecsOK, Zenon DEF AlarmInv, AlarmTypeOK, AlarmViews
<1>4. pc \in {"replace", "put"} => "raced" \in lost' \/ aws'.alarms[view'.next.name].tags \in NextTags'
  BY <1>3, ZenonT(40) DEF AlarmInv, NextTags
<1>5. pc \in Walking =>
        "raced" \in lost' \/ \A n \in view.todo : Exists(view.listed[n]) \/ ~Exists(aws'.alarms[n])
  BY <1>1, <1>3 DEF AlarmInv, Walking
<1>6. pc = "delete" =>
        /\ "raced" \in lost' \/ \A n \in view.todo : aws'.alarms[n].tags \in {"absent", "ours"}
        /\ view.failed \/ \A n \in Names \ view.spec.alarms : Mine(n)' => n \in view.todo
  BY <1>1, <1>3, ZenonT(40) DEF AlarmInv
<1>7. QED
  BY <1>1, <1>2, <1>4, <1>5, <1>6, ZenonT(40) DEF AlarmInv, Exists, Walking

\* The key's policy and a stranger's edits of an alarm.
LEMMA AlarmEdits ==
  ASSUME AlarmInv, AlarmTypeOK, SyncTopicKey \/ EditAlarm
  PROVE  AlarmInv' /\ UNCHANGED <<pc, view>>
<1>1. UNCHANGED <<producer, spec, cr, calm, store, pc, view, mem, err>>
  BY ZenonT(40) DEF SyncTopicKey, EditAlarm, userVars, passVars
<1>2. CASE SyncTopicKey
  <2>1. topicPublishingAlarms \subseteq Names
    BY AlarmSpecsOK DEF AlarmTypeOK, topicPublishingAlarms
  <2>2. aws' \in [alarms : [Names -> AllAlarms], key : SUBSET Names] /\ aws'.alarms = aws.alarms
    BY <1>2, <2>1 DEF AlarmTypeOK, SyncTopicKey
  <2>3. UNCHANGED lost
    BY <1>2, Zenon DEF SyncTopicKey
  <2>4. AlarmTypeOK'
    BY <1>1, <2>2, <2>3, ZenonT(40) DEF AlarmTypeOK, PassTypeOK
  <2>5. (cr' = "gone" => cr = "gone") /\ (cr' = "deleting" => spec'.alarms = {})
    BY <1>1, ZenonT(40) DEF AlarmInv
  <2>6. QED
    BY <1>1, <2>2, <2>3, <2>4, <2>5, AlarmOutside, ZenonT(40)
<1>3. CASE EditAlarm
  <2>1. PICK n \in Names : \/ AlarmBecomes(n, NoAlarm)
                           \/ AlarmBecomes(n, Alarm(aws.alarms[n].tags, FALSE))
                           \/ AlarmBecomes(n, Alarm("other", FALSE))
    BY <1>3, ZenonT(40) DEF EditAlarm
  <2>2. {NoAlarm, Alarm(aws.alarms[n].tags, FALSE), Alarm("other", FALSE)} \subseteq AllAlarms
    BY DEF AlarmTypeOK, NoAlarm, Alarm, AllAlarms
  <2>3. PICK alarm \in {NoAlarm, Alarm(aws.alarms[n].tags, FALSE), Alarm("other", FALSE)} : AlarmBecomes(n, alarm)
    BY <2>1, ZenonT(40)
  <2>4. /\ aws' \in [alarms : [Names -> AllAlarms], key : SUBSET Names]
        /\ aws'.alarms[n] = alarm /\ \A m \in Names \ {n} : aws'.alarms[m] = aws.alarms[m]
    BY <2>2, <2>3, OneAlarmBecomes, Zenon
  <2>5. alarm.tags \in {aws.alarms[n].tags, "absent", "other"}
    BY <2>3 DEF NoAlarm, Alarm
  <2>6. \A m \in Names : aws'.alarms[m].tags \in {aws.alarms[m].tags, "absent", "other"}
    BY <2>4, <2>5, Zenon
  <2>7. lost' \subseteq {"alarm", "raced"} /\ lost \subseteq lost' /\ (pc = "idle" \/ "raced" \in lost')
    BY <1>3 DEF AlarmTypeOK, EditAlarm
  <2>8. AlarmTypeOK'
    BY <1>1, <2>4, <2>7, ZenonT(40) DEF AlarmTypeOK, PassTypeOK
  <2>9. (cr' = "gone" => cr = "gone") /\ (cr' = "deleting" => spec'.alarms = {})
    BY <1>1, Zenon DEF AlarmInv
  <2>10. QED
    BY <1>1, <2>6, <2>7, <2>8, <2>9, AlarmOutside, ZenonT(40)
<1>4. QED
  BY <1>2, <1>3, Zenon

\* What the users and the producer do.
LEMMA AlarmOthers ==
  ASSUME AlarmInv, AlarmTypeOK, ProducerPass \/ AlarmUsers \/ Calm
  PROVE  AlarmInv' /\ UNCHANGED <<pc, view, aws>>
<1>1. UNCHANGED <<store, aws, pc, view, mem, err, lost>>
  BY Zenon DEF ProducerPass, AlarmUsers, EditProducer, EditSpec, DeleteCR, Calm, passVars
<1>2. producer' \in Producers
  <2>1. producer \in Producers /\ NoProducer \in Producers
    BY DEF AlarmTypeOK, PassTypeOK, NoProducer, Producers
  <2>2. \/ ProducerPass
        \/ EditProducer({Absent, Silent, Sharing("None", FALSE), Sharing("Read", FALSE)})
        \/ UNCHANGED producer \/ producer' = NoProducer
    BY Zenon DEF AlarmUsers, EditSpec, DeleteCR, Calm
  <2>3. QED
    BY <2>1, <2>2, ProducerTyped, ZenonT(40)
<1>3. \/ UNCHANGED <<spec, cr>> \/ (cr' = "live" /\ spec' \in AllAlarmSpecs) \/ (cr' = "deleting" /\ spec' = NoAlarmSpec)
  BY Zenon DEF ProducerPass, AlarmUsers, EditProducer, EditSpec, DeleteCR, Calm
<1>4. NoAlarmSpec \in AllAlarmSpecs /\ NoAlarmSpec.alarms = {}
  BY DEF AllAlarmSpecs, NoAlarmSpec, AlarmDeclares
<1>5. calm' \in {calm, TRUE}
  BY Zenon DEF ProducerPass, AlarmUsers, EditProducer, EditSpec, DeleteCR, Calm
<1>6. spec' \in AllAlarmSpecs /\ cr' \in {"live", "deleting", "gone"} /\ {err', calm'} \subseteq BOOLEAN
  BY <1>1, <1>3, <1>4, <1>5, Zenon DEF AlarmTypeOK, PassTypeOK
<1>7. AlarmTypeOK'
  BY <1>1, <1>2, <1>6, ZenonT(40) DEF AlarmTypeOK, PassTypeOK
<1>8. (cr' = "gone" => cr = "gone") /\ (cr' = "deleting" => spec'.alarms = {})
  BY <1>3, <1>4, Zenon DEF AlarmInv
<1>9. QED
  BY <1>1, <1>7, <1>8, AlarmOutside, ZenonT(40)

\* At the start no alarm is the CR's.
LEMMA AlarmStarts ==
  ASSUME AlarmInit
  PROVE  AlarmInv
<1>1. NoProducer \in Producers
  BY DEF NoProducer, Producers
<1>2. PICK alarms \in [Names -> {NoAlarm, Alarm("previous", FALSE), Alarm("other", FALSE)}] :
        aws = [alarms |-> alarms, key |-> {}]
  BY Zenon DEF AlarmInit
<1>3. /\ {NoAlarm, Alarm("previous", FALSE), Alarm("other", FALSE)} \subseteq AllAlarms
      /\ \A alarm \in {NoAlarm, Alarm("previous", FALSE), Alarm("other", FALSE)} : alarm.tags # "ours"
  BY DEF NoAlarm, Alarm, AllAlarms
<1>4. aws \in [alarms : [Names -> AllAlarms], key : SUBSET Names] /\ \A n \in Names : ~Mine(n)
  BY <1>2, <1>3, Zenon DEF Mine
<1>5. PassInit
  BY Zenon DEF AlarmInit
<1>6. PassTypeOK
  BY <1>1, <1>5, ZenonT(40) DEF PassInit, PassTypeOK
<1>7. spec \in AllAlarmSpecs /\ view = AlarmIdleView /\ lost = {} /\ store = NoAlarmStatus /\ mem = NoAlarmStatus
  BY Zenon DEF AlarmInit
<1>8. AlarmTypeOK
  BY <1>4, <1>6, <1>7, AlarmIdle, ZenonT(40) DEF AlarmTypeOK
<1>9. pc = "idle" /\ cr = "live" /\ ~view.deleting
  BY <1>5, <1>7 DEF PassInit, AlarmIdleView
<1>10. QED
  BY <1>4, <1>8, <1>9 DEF AlarmInv, AlarmsKnown, Walking

\* Every step of Alarms, and Calm.
LEMMA AlarmStep ==
  ASSUME AlarmInv, AlarmNext \/ Calm
  PROVE  AlarmInv'
<1> AlarmTypeOK
  BY Zenon DEF AlarmInv
<1>1. CASE AlarmPass
  BY <1>1, AlarmBegins, AlarmEnsure, AlarmList, AlarmOne, AlarmReplace, AlarmPut, AlarmSelect,
     AlarmDelete, AlarmEnd, ZenonT(40) DEF AlarmPass
<1>2. CASE AlarmCrash \/ AlarmProducing \/ EditAlarm
  BY <1>2, AlarmEnd, AlarmEdits, AlarmOthers, ZenonT(40) DEF AlarmProducing
<1>3. CASE AlarmUsers \/ Calm
  BY <1>3, AlarmOthers, Zenon
<1>4. QED
  BY <1>1, <1>2, <1>3, ZenonT(40) DEF AlarmNext

\* putAlarm and deleteUndeclaredAlarms change alarms that are the CR's, and replaceAlarm
\* one of its previous incarnation's that it takes over, unless somebody was faster.
LEMMA AlarmOwned ==
  ASSUME AlarmInv, AlarmNext
  PROVE  AlarmChangesOnlyOwned
<1>1. SUFFICES ASSUME NEW n \in Names, pc # pc' \/ view # view', Exists(aws.alarms[n]),
                      aws.alarms[n] # aws'.alarms[n], "raced" \notin lost
               PROVE  \/ aws.alarms[n].tags = "ours"
                      \/ aws.alarms[n].tags = "previous" /\ pc = "replace" /\ view.spec.takeOver
  BY Zenon DEF AlarmChangesOnlyOwned
<1> AlarmTypeOK
  BY Zenon DEF AlarmInv
<1>2. CASE replaceAlarm
  BY <1>1, <1>2, AlarmReplace, ZenonT(40) DEF Exists
<1>3. CASE putAlarm \/ deleteUndeclaredAlarms
  BY <1>1, <1>3, AlarmPut, AlarmDelete, ZenonT(40) DEF Exists
<1>4. CASE \/ AlarmBegin \/ alarms_Ensure \/ listAlarmsByPrefix \/ AlarmPersist \/ AlarmCrash
           \/ isAlarmOwnedByUs \/ \E m \in Names : reconcileAlarm(m)
  BY <1>1, <1>4, AlarmEnd, AlarmSelect, AlarmOne, ZenonT(40) DEF AlarmBegin, alarms_Ensure, listAlarmsByPrefix
<1>5. CASE AlarmProducing \/ AlarmUsers \/ EditAlarm
  BY <1>1, <1>5, AlarmEdits, AlarmOthers, ZenonT(40) DEF AlarmProducing
<1>6. QED
  BY <1>2, <1>3, <1>4, <1>5, ZenonT(40) DEF AlarmNext, AlarmPass

-----------------------------------------------------------------------------
(* The parts together.                                                     *)

\* A behaviour is about one part, and starts as that part does.
LEMMA AccessInit ==
  ASSUME Init
  PROVE  AccessInv
<1>1. CASE part = "subscription" /\ SubscriptionInit
  BY <1>1, SubStarts DEF Init, AccessInv
<1>2. CASE part = "role" /\ RoleInit
  BY <1>2, RoleStarts DEF Init, AccessInv
<1>3. CASE part = "identity" /\ IdentityInit
  BY <1>3, IdentityStarts, ZenonT(40) DEF Init, AccessInv
<1>4. CASE part = "alarms" /\ AlarmInit
  BY <1>4, AlarmStarts, SMTT(30) DEF Init, AccessInv
<1>5. QED
  BY <1>1, <1>2, <1>3, <1>4, ZenonT(40) DEF Init

\* A step of the part keeps its invariant; so does none at all.
LEMMA AccessStep ==
  ASSUME AccessInv, [Next \/ (Calm /\ UNCHANGED part)]_accessVars
  PROVE  AccessInv'
<1>1. CASE Next \/ (Calm /\ UNCHANGED part)
  <2>1. /\ UNCHANGED part
        /\ part = "subscription" => SubscriptionNext \/ Calm
        /\ part = "role" => RoleNext \/ Calm
        /\ part = "identity" => IdentityNext \/ Calm
        /\ part = "alarms" => AlarmNext \/ Calm
    BY <1>1 DEF Next, In
  <2>2. QED
    BY <2>1, SubStep, RoleStep, IdentityStep, AlarmStep, ZenonT(40) DEF AccessInv
<1>2. CASE UNCHANGED accessVars
  <2>1. UNCHANGED <<producer, spec, cr, calm, store, aws, pc, view, mem, err, lost, part>>
    BY <1>2, Zenon DEF accessVars, vars, userVars, passVars
  <2>2. SubInv => SubInv'
    BY <2>1, ZenonT(40) DEF SubInv, SubKnown, SubscriptionTypeOK, PassTypeOK, Untracked
  <2>3. RoleInv => RoleInv'
    BY <2>1, ZenonT(40) DEF RoleInv, RoleKnown, RoleTypeOK, PassTypeOK, Differs
  <2>4. IdentityInv => IdentityInv'
    BY <2>1, Zenon DEF IdentityInv, ClaimKnown, IdentityTypeOK, PassTypeOK, Claimed, Target
  <2>5. AlarmInv => AlarmInv'
    <3>1. /\ AlarmTypeOK' = AlarmTypeOK /\ NextTags' = NextTags
          /\ AlarmsKnown(mem)' = AlarmsKnown(mem) /\ AlarmsKnown(store)' = AlarmsKnown(store)
      BY <2>1, Zenon DEF AlarmsKnown, AlarmTypeOK, PassTypeOK, Mine, NextTags
    <3>2. \A n : Mine(n)' = Mine(n)
      BY <2>1, Zenon DEF Mine
    <3>3. QED
      BY <2>1, <3>1, <3>2, ZenonT(40) DEF AlarmInv
  <2>6. QED
    BY <2>1, <2>2, <2>3, <2>4, <2>5, ZenonT(40) DEF AccessInv
<1>3. QED
  BY <1>1, <1>2, ZenonT(40)

\* The invariant holds of every behaviour, fair or not.
THEOREM AccessInvariant == (Spec => []AccessInv) /\ (FairSpec => []AccessInv)
<1>1. AccessInv /\ [Next]_accessVars => AccessInv'
  BY AccessStep
<1> QED  BY <1>1, AccessInit, AccessStep, PTL DEF Spec, FairSpec

\* What the status lets a pass skip is really so, or the history says which write was
\* lost: the policy whose digest it has is on the role (ensureRolePolicy), and there
\* are no alarms when it says so (Ensure's AlarmsMayExist).
THEOREM SkippedAccess == (Spec => []SkippedIsInPlace) /\ (FairSpec => []SkippedIsInPlace)
<1>1. AccessInv => SkippedIsInPlace
  <2>1. RoleInv => DigestIsThePolicy
    BY DEF RoleInv, RoleKnown, DigestIsThePolicy
  <2>2. AlarmInv => NoAlarmsMeansNone
    BY Zenon DEF AlarmInv, AlarmsKnown, NoAlarmsMeansNone
  <2>3. QED
    BY <2>1, <2>2, PartsAssumption, ZenonT(40) DEF AccessInv, SkippedIsInPlace
<1> QED  BY <1>1, AccessInvariant, PTL

\* No subscription, role, claim of an account or alarm outlives its CR, unless the
\* write of the status that recorded it was lost (the sections' finalize).
THEOREM FinalizedAccess == (Spec => []FinalizerHoldsAccess) /\ (FairSpec => []FinalizerHoldsAccess)
<1>1. AccessInv => FinalizerHoldsAccess
  <2>1. SubInv => FinalizerHoldsSubscription
    BY DEF SubInv, SubKnown, Untracked, FinalizerHoldsSubscription
  <2>2. RoleInv => FinalizerHoldsRole
    BY ZenonT(40) DEF RoleInv, RoleKnown, FinalizerHoldsRole
  <2>3. IdentityInv => FinalizerHoldsAccount
    <3>1. IdentityInv => Claimed \subseteq Accounts /\ None \notin Accounts
      BY NamesAssumption DEF Claimed, None
    <3>2. QED
      BY <3>1 DEF IdentityInv, ClaimKnown, FinalizerHoldsAccount
  <2>4. AlarmInv => FinalizerHoldsAlarms
    BY Zenon DEF AlarmInv, FinalizerHoldsAlarms
  <2>5. QED
    BY <2>1, <2>2, <2>3, <2>4, PartsAssumption, Zenon DEF AccessInv, FinalizerHoldsAccess
<1> QED  BY <1>1, AccessInvariant, PTL

\* The operator takes over, changes and deletes only roles and alarms that were the
\* CR's, or its previous incarnation's where it takes over, when it read their tags,
\* claims only accounts that consent, and leaves others' statements in a queue's policy;
\* except that inside the trust window, where it reads no tags, it writes the policy of
\* a role the ledger has (verifyRoleOwnership, iam.Ensure, claimError, reconcileAlarm,
\* ensureSubscriptionAllows).
THEOREM OwnedAccess == (Spec => AccessChangesOnlyOwned) /\ (FairSpec => AccessChangesOnlyOwned)
<1> DEFINE Owned == CASE part = "subscription" -> KeepsEdits
                      [] part = "role" -> RoleChangesOnlyOwned
                      [] part = "identity" -> IdentityChangesOnlyOwned
                      [] part = "alarms" -> AlarmChangesOnlyOwned
<1>1. ASSUME AccessInv, Next
      PROVE  Owned
  <2>1. CASE part = "subscription"
    BY <1>1, <2>1, SubEdits DEF AccessInv, Next, In
  <2>2. CASE part = "role"
    BY <1>1, <2>2, RoleOwned, ZenonT(40) DEF AccessInv, Next, In
  <2>3. CASE part = "identity"
    BY <1>1, <2>3, IdentityOwned, SMTT(30) DEF AccessInv, Next, In
  <2>4. CASE part = "alarms"
    BY <1>1, <2>4, AlarmOwned, ZenonT(40) DEF AccessInv, Next, In
  <2>5. QED
    BY <1>1, <2>1, <2>2, <2>3, <2>4, PartsAssumption, Zenon DEF AccessInv
<1>2. ASSUME AccessInv, Calm
      PROVE  Owned
  <2>1. UNCHANGED <<pc, view, aws>>
    BY <1>2, Zenon DEF Calm, passVars
  <2>2. KeepsEdits /\ RoleChangesOnlyOwned /\ IdentityChangesOnlyOwned /\ AlarmChangesOnlyOwned
    BY <2>1, Zenon DEF KeepsEdits, RoleChangesOnlyOwned, IdentityChangesOnlyOwned, AlarmChangesOnlyOwned
  <2>3. QED
    BY <1>2, <2>2, PartsAssumption, Zenon DEF AccessInv
<1>3. AccessInv /\ [Next \/ (Calm /\ UNCHANGED part)]_accessVars => [Owned]_accessVars
  BY <1>1, <1>2, Zenon
<1>4. AccessInv /\ [Next]_accessVars => [Owned]_accessVars
  BY <1>1, Zenon
<1> QED  BY <1>3, <1>4, AccessInvariant, PTL DEF Spec, FairSpec, AccessChangesOnlyOwned
=============================================================================
