--------------------------- MODULE Subscriptions ---------------------------
(***************************************************************************)
(* A queue that subscribes to another CR's topic:                          *)
(* internal/resources/sqs/subscriptions.go, the queue's policy             *)
(* (policy.go, internal/awspolicy) and the policy of the queue's key       *)
(* (section_keypolicy.go, kms/servicegrants.go).  A message arrives only   *)
(* with all three in place: the subscription, the queue policy's grant,    *)
(* the key policy's.  The queue itself is in QueueLifecycle.               *)
(***************************************************************************)
EXTENDS ConsumerPass

\* Subscription ARNs.  A new one differs from the one the ledger has; no other
\* is compared with it.
CONSTANT Arns
NoArn == 0

NoSubscriptionSpec == [declared |-> FALSE, subscribes |-> FALSE]
SubscriptionSpecs == {NoSubscriptionSpec} \cup {[declared |-> TRUE, subscribes |-> s] : s \in BOOLEAN}

\* store and mem: whether the ledger tracks the queue, and the subscription's
\* entry.  aws: the queue and the statements of its policy by Sid, "other"
\* standing for anybody else's; the subscription; whether the key's policy lets
\* SNS use it.
NoSubscriptionLedger == [queue |-> FALSE, sub |-> NoArn]
NoAWS == [queue |-> FALSE, policy |-> {}, sub |-> NoArn, key |-> FALSE]

Statements == {"allow", "other"}

SubscriptionIdleView == [spec |-> NoSubscriptionSpec, deleting |-> FALSE, doc |-> {}]

SubscriptionTypeOK ==
    /\ PassTypeOK /\ spec \in SubscriptionSpecs
    /\ {store, mem} \subseteq [queue : BOOLEAN, sub : Arns \cup {NoArn}]
    /\ aws \in [queue : BOOLEAN, policy : SUBSET Statements, sub : Arns \cup {NoArn}, key : BOOLEAN]
    /\ view \in [spec : SubscriptionSpecs, deleting : BOOLEAN, doc : SUBSET Statements]
    /\ lost \subseteq {"subscription", "edit"}
    /\ ~aws.queue => aws.policy = {}

SubscriptionInit ==
    /\ PassInit /\ spec \in SubscriptionSpecs
    /\ store = NoSubscriptionLedger /\ mem = NoSubscriptionLedger
    /\ aws = NoAWS /\ view = SubscriptionIdleView /\ lost = {}

Wanted == view.spec.declared /\ view.spec.subscribes /\ ~view.deleting

-----------------------------------------------------------------------------
(* Ensure.                                                                 *)

SubscriptionBegin ==
    /\ pc = "idle" /\ cr # "gone"
    /\ view' = [spec |-> spec, deleting |-> cr = "deleting", doc |-> {}]
    /\ mem' = store
    /\ GoTo(IF cr = "live" /\ spec.declared THEN "queue" ELSE "cleanup")
    /\ UNCHANGED <<userVars, store, aws, lost>>

\* ensureQueue: the queue first, then what it subscribes to.
ensureQueue ==
    /\ pc = "queue"
    /\ aws' = [aws EXCEPT !.queue = TRUE]
    /\ \/ mem' = [mem EXCEPT !.queue = TRUE] /\ GoTo(IF view.spec.subscribes THEN "resolve" ELSE "cleanup")
       \/ ~calm /\ FailTo("cleanup") /\ UNCHANGED mem
    /\ UNCHANGED <<userVars, store, view, lost>>

\* EnsureSubscriptions: a reference that does not resolve is skipped, and a
\* tracked subscription is trusted for a while.  Once calm, the window is over.
resolveTopicARN ==
    /\ pc = "resolve"
    /\ \/ ~ResolveConsumeARN /\ GoTo("cleanup")
       \/ ResolveConsumeARN /\ GoTo("subscribe")
       \/ ~calm /\ ResolveConsumeARN /\ mem.sub # NoArn /\ GoTo("allow")
       \/ ~calm /\ FailTo("cleanup")
    /\ UNCHANGED <<userVars, store, aws, view, mem, lost>>

\* Subscribe returns the ARN of an identical subscription if there is one.
EnsureSubscriptions ==
    /\ pc = "subscribe"
    /\ IF producer.resource
       THEN /\ \E arn \in (IF aws.sub = NoArn THEN Arns \ {mem.sub} ELSE {aws.sub}) :
                 /\ aws' = [aws EXCEPT !.sub = arn]
                 /\ \/ mem' = [mem EXCEPT !.sub = arn] /\ GoTo("allow") /\ UNCHANGED lost
                    \/ /\ ~calm /\ FailTo("cleanup") /\ UNCHANGED mem
                       /\ lost' = IF mem.sub = arn THEN lost ELSE lost \cup {"subscription"}
       ELSE FailTo("cleanup") /\ UNCHANGED <<aws, mem, lost>>
    /\ UNCHANGED <<userVars, store, view>>

\* Reading the queue's policy, to write it back changed.
readPolicy(from, to) ==
    /\ pc = from
    /\ IF aws.queue
       THEN GoTo(to) /\ view' = [view EXCEPT !.doc = aws.policy]
       ELSE FailTo(IF to = "grant" THEN "cleanup" ELSE "key") /\ UNCHANGED view
    /\ lost' = lost \ {"edit"}
    /\ UNCHANGED <<userVars, store, aws, mem>>

\* awspolicy.Upsert and Remove, by Sid.
Upsert(statements, sid) == statements \cup {sid}

Remove(statements, sid) == statements \ {sid}

\* ensureSubscriptionAllows, which writes only what differs.
ensureSubscriptionAllows ==
    /\ pc = "grant"
    /\ IF "allow" \in view.doc
       THEN GoTo("cleanup") /\ UNCHANGED aws
       ELSE /\ aws' = IF aws.queue THEN [aws EXCEPT !.policy = Upsert(view.doc, "allow")] ELSE aws
            /\ IF aws.queue THEN Done("cleanup", "cleanup") ELSE FailTo("cleanup")
    /\ view' = [view EXCEPT !.doc = {}]
    /\ UNCHANGED <<userVars, store, mem, lost>>

-----------------------------------------------------------------------------
(* Cleanup: the queue, then its subscriptions.                             *)

Tracked == mem.queue /\ mem.sub # NoArn

\* What the queue's own cleanup comes to: an undeclared one waits, is let go,
\* or is deleted.  Subscriptions are looked at for the queues the ledger had
\* when Cleanup began.
cleanupQueueSubscriptions ==
    /\ pc = "cleanup"
    /\ GoTo(IF Tracked THEN "revoke" ELSE "key")
    /\ \/ UNCHANGED <<mem, aws>>
       \/ /\ mem.queue /\ ~(view.spec.declared /\ ~view.deleting)
          /\ mem' = [mem EXCEPT !.queue = FALSE]
          /\ aws' \in {aws, [aws EXCEPT !.queue = FALSE, !.policy = {}]}
    /\ UNCHANGED <<userVars, store, view, lost>>

\* Mutant: a reference that no longer resolves is left alone.
CleanupSubscriptionsDeclaredOnly ==
    /\ pc = "revoke" /\ GoTo(IF Wanted THEN "key" ELSE "unsubscribe")
    /\ UNCHANGED <<userVars, store, aws, view, mem, lost>>

\* CleanupSubscriptions resolves the reference again; a failed read of the
\* producer is no revocation.
CleanupSubscriptions ==
    /\ pc = "revoke"
    /\ GoTo(IF Wanted /\ ResolveConsumeARN THEN "key" ELSE "unsubscribe")
    /\ UNCHANGED <<userVars, store, aws, view, mem, lost>>

\* The entry goes with the reply to the last call.
Dropped ==
    \/ GoTo("key") /\ mem' = [mem EXCEPT !.sub = NoArn]
    \/ ~calm /\ FailTo("key") /\ UNCHANGED mem

\* Unsubscribe by ARN; one that is gone is no error.
Unsubscribe ==
    /\ pc = "unsubscribe"
    /\ aws' = [aws EXCEPT !.sub = IF @ = mem.sub THEN NoArn ELSE @]
    /\ \/ ~aws.queue /\ Dropped
       \/ aws.queue /\ Done("unallow", "key") /\ UNCHANGED mem
    /\ UNCHANGED <<userVars, store, view, lost>>

removeSubscriptionAllow ==
    /\ pc = "ungrant"
    /\ aws' = [aws EXCEPT !.policy = IF aws.queue /\ "allow" \in view.doc THEN Remove(view.doc, "allow") ELSE @]
    /\ \/ "allow" \notin view.doc /\ GoTo("key") /\ mem' = [mem EXCEPT !.sub = NoArn]
       \/ "allow" \in view.doc /\ aws.queue /\ Dropped
       \/ "allow" \in view.doc /\ ~aws.queue /\ FailTo("key") /\ UNCHANGED mem
    /\ view' = [view EXCEPT !.doc = {}]
    /\ UNCHANGED <<userVars, store, lost>>

-----------------------------------------------------------------------------
(* The section of the key policies, and the end of a pass.                 *)

\* queueSourceTopics: the reference is resolved once more.
keyServiceGrants == Wanted /\ ResolveConsumeARN

\* syncKeyPolicies: a key that grants nothing is read only when it was just
\* verified.  Deletion of the CR leaves a key's policy to the key's cleanup.
SyncServiceGrants ==
    /\ pc = "key"
    /\ \/ view.deleting /\ GoTo("persist") /\ UNCHANGED aws
       \/ ~view.deleting /\ aws' = [aws EXCEPT !.key = keyServiceGrants] /\ Done("persist", "persist")
       \/ ~view.deleting /\ ~keyServiceGrants /\ ~calm /\ GoTo("persist") /\ UNCHANGED aws
    /\ UNCHANGED <<userVars, store, view, mem, lost>>

Untracked(ledger) == aws.sub # NoArn /\ ~(ledger.queue /\ ledger.sub = aws.sub)

SubscriptionKeeping(ledger) == EndPass(ledger, SubscriptionIdleView, NoSubscriptionLedger)

\* The ledger is written; what it does not know then, it never will.
SubscriptionPersist ==
    /\ pc = "persist"
    /\ SubscriptionKeeping(mem)
    /\ lost' = IF Untracked(mem) THEN lost \ {"edit"} ELSE {}
    /\ cr' = IF view.deleting /\ ~err /\ ~mem.queue THEN "gone" ELSE cr
    /\ UNCHANGED <<producer, spec, calm, aws>>

\* A pass that dies, or whose status write fails, leaves the ledger behind.
SubscriptionCrash ==
    /\ ~calm /\ pc # "idle"
    /\ SubscriptionKeeping(store)
    /\ lost' = IF Untracked(store) THEN {"subscription"} ELSE {}
    /\ UNCHANGED <<userVars, aws>>

\* The checkpoint after the sqs section; its reply replaces the CR.
SubscriptionCheckpoint ==
    /\ pc = "key" /\ ~view.deleting
    /\ store' = mem /\ view' = [view EXCEPT !.spec = spec]
    /\ lost' = IF Untracked(mem) THEN lost ELSE lost \ {"subscription"}
    /\ UNCHANGED <<userVars, aws, pc, mem, err>>

SubscriptionCallFails ==
    /\ ~calm
    /\ \/ pc \in {"queue", "subscribe", "allow", "grant"} /\ FailTo("cleanup") /\ UNCHANGED lost
       \/ /\ pc \in {"revoke", "unsubscribe", "unallow", "ungrant"} /\ FailTo("key")
          /\ lost' = IF mem.queue THEN lost ELSE lost \cup {"subscription"}
       \/ pc = "key" /\ FailTo("persist") /\ UNCHANGED lost
    /\ view' = [view EXCEPT !.doc = {}]
    /\ UNCHANGED <<userVars, store, aws, mem>>

-----------------------------------------------------------------------------
(* Everybody else.                                                         *)

\* Somebody adds a statement to the queue's policy, or takes the operator's out.
EditPolicy ==
    /\ ~calm /\ aws.queue
    /\ aws' \in {[aws EXCEPT !.policy = Upsert(@, "other")], [aws EXCEPT !.policy = Remove(@, "allow")]} \ {aws}
    /\ lost' = IF pc \in {"grant", "ungrant"} THEN lost \cup {"edit"} ELSE lost
    /\ UNCHANGED <<userVars, store, passVars>>

\* A topic that is deleted takes its subscriptions along.
TopicDeleted ==
    /\ ~calm /\ producer.resource
    /\ producer' = [producer EXCEPT !.resource = FALSE] /\ aws' = [aws EXCEPT !.sub = NoArn]
    /\ lost' = lost \ {"subscription"}
    /\ UNCHANGED <<spec, cr, calm, store, passVars>>

SubscriptionDeleted ==
    /\ ~calm /\ aws.sub # NoArn
    /\ aws' = [aws EXCEPT !.sub = NoArn] /\ lost' = lost \ {"subscription"}
    /\ UNCHANGED <<userVars, store, passVars>>

-----------------------------------------------------------------------------
SubscriptionPass == \/ SubscriptionBegin \/ ensureQueue \/ resolveTopicARN \/ EnsureSubscriptions
                    \/ readPolicy("allow", "grant") \/ ensureSubscriptionAllows
                    \/ cleanupQueueSubscriptions \/ CleanupSubscriptions \/ Unsubscribe
                    \/ readPolicy("unallow", "ungrant") \/ removeSubscriptionAllow
                    \/ SyncServiceGrants \/ SubscriptionPersist

Outside == EditPolicy \/ TopicDeleted \/ SubscriptionDeleted

SubscriptionUsers == \/ EditProducer({Sharing("None", FALSE), Sharing("Read", FALSE)})
                     \/ EditSpec(SubscriptionSpecs) \/ DeleteCR(NoSubscriptionSpec)

SubscriptionNext ==
    \/ SubscriptionPass \/ SubscriptionCheckpoint \/ SubscriptionCrash \/ SubscriptionCallFails
    \/ ProducerPass \/ SubscriptionUsers \/ Outside

-----------------------------------------------------------------------------
\* A step of the operator keeps what others put in the queue's policy, unless
\* they did so between its read and its write (readPolicy, writePolicy).
KeepsEdits ==
    /\ "other" \in aws.policy /\ aws.queue /\ aws'.queue /\ pc # pc' /\ "edit" \notin lost
    => "other" \in aws'.policy

\* Nothing delivers to a CR that is gone, except through a subscription the
\* ledger lost.
FinalizerHoldsSubscription == cr = "gone" /\ aws.sub # NoArn => "subscription" \in lost

Due == cr = "live" /\ spec.subscribes /\ producerResource /\ producer.sharedWith # "None"

\* Delivery settles: to all three grants in place once the topic is shared; to no
\* subscription and no grant of the queue's when it is undeclared or no longer
\* authorised, unless the ledger lost the subscription.
SubscriptionMustSettle ==
    calm /\ pc = "idle" /\ cr # "gone" /\ (Due \/ (aws.sub # NoArn /\ "subscription" \notin lost))

SubscriptionSettled ==
    IF Due THEN aws.sub # NoArn /\ "allow" \in aws.policy /\ aws.key
           ELSE aws.sub = NoArn /\ "allow" \notin aws.policy
=============================================================================
