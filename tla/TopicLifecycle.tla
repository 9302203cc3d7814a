--------------------------- MODULE TopicLifecycle ---------------------------
(***************************************************************************)
(* The life of one SNS topic: internal/resources/sns.  What is lost with a *)
(* topic is its subscriptions, so they are what holds its deletion; the    *)
(* deny blocks both Publish and Subscribe.                                 *)
(***************************************************************************)
EXTENDS GatedPass

TopicEnsureSteps  == {"ensure", "lookup", "create", "adopt", "record", "policy"}
TopicCleanupSteps == {"restore", "release", "untag", "undeny", "verify", "deny", "empty", "delete"}

TopicTypeOK == PassTypeOK({"subscriptions"}) /\ pc \in {"idle", "cleanup", "persist"} \cup TopicEnsureSteps \cup TopicCleanupSteps

TopicInit == PassInit

resolveTopicKey == KeyNotReady

\* ensureTopicExists: a trusted entry has its policy and force refreshed and
\* the topic is only probed; any other entry takes the full path.
sns_ensureWithinTrust ==
    /\ pc = "ensure"
    /\ IF NeedsRevalidation(mem)
       THEN GoTo("lookup") /\ UNCHANGED mem
       ELSE /\ mem' = [mem EXCEPT !.policy = view.spec.policy, !.force = view.spec.force]
            /\ \/ GoTo(IF resource.exists THEN "cleanup" ELSE "lookup")
               \/ ~calm /\ FailTo("cleanup")
    /\ UNCHANGED <<userVars, store, resource, view, forgotten, raced>>

\* ListTagsForResource: no such topic means create it.
ensureTopicExists ==
    /\ pc = "lookup"
    /\ \/ /\ ~resource.exists /\ GoTo("create") /\ raced' = FALSE
          /\ UNCHANGED <<userVars, store, resource, view, mem, forgotten>>
       \/ resource.exists /\ JudgeTags("record")

\* CreateTopic with the owner tags, which fails on a topic tagged otherwise;
\* the entry is recorded from its reply.
createTopic ==
    /\ pc = "create"
    /\ IF resource.exists
       THEN FailTo("cleanup") /\ UNCHANGED <<resource, mem, forgotten>>
       ELSE /\ resource' = NewResource(ownerTags, "off", "Active")
            /\ forgotten' = forgotten \cup {"lift", "claim"}
            /\ \/ GoTo("policy") /\ mem' = VerifiedEntry(view.spec.policy, view.spec.force)
               \/ ~calm /\ FailTo("cleanup") /\ UNCHANGED mem
    /\ UNCHANGED <<userVars, store, view, raced>>

adoptTopic == pc = "adopt" /\ TagAsOwned("record")

\* reconcileTopicAttributes reads the topic only when it manages an attribute
\* of it, so a topic deleted since may still be recorded.
recordVerified ==
    /\ pc = "record"
    /\ \/ GoTo("policy") /\ mem' = VerifiedEntry(view.spec.policy, view.spec.force)
       \/ ~resource.exists /\ FailTo("cleanup") /\ UNCHANGED mem
    /\ UNCHANGED <<userVars, store, resource, view, forgotten, raced>>

\* Only in the pass that verified the topic: the deny is removed.
reconcileDeclaredPolicy ==
    /\ pc = "policy"
    /\ IF resource.exists
       THEN /\ resource' = [resource EXCEPT !.deny = Never]
            /\ forgotten' = forgotten \cup {"lift"} /\ Done("cleanup", "cleanup")
       ELSE FailTo("cleanup") /\ UNCHANGED <<resource, forgotten>>
    /\ UNCHANGED <<userVars, store, view, mem, raced>>

sns_Cleanup == CleanupSwitch("release")

\* restoreDeclared reads no tags; the policy of a topic that is gone is an error.
sns_restoreDeclared == pc = "restore" /\ LiftDeny([mem EXCEPT !.pending = Never, !.checked = Never], TRUE)

sns_retain == RetainLookup

\* relinquishIfStillTagged: the owner tags go first, the leftover deny second.
sns_relinquishIfStillTagged ==
    /\ pc = "untag"
    /\ resource' = IF resource.exists THEN [resource EXCEPT !.tags = NoTags] ELSE resource
    /\ IF resource.exists THEN Done("undeny", "persist") ELSE FailTo("persist")
    /\ UNCHANGED <<userVars, store, view, mem, forgotten, raced>>

sns_removePendingDeletionDeny == pc = "undeny" /\ LiftDeny(LetGo, TRUE)

sns_verifyOwned == VerifyThen("delete")

sns_addPendingDeletionDeny == DenyThenMark

\* What ListSubscriptionsByTopic may say: it is not consistent, and may miss a
\* subscription for a while.
hasSubscriptions ==
    IF resource.data = {} THEN {FALSE}
    ELSE IF resource.shown < ListLag THEN BOOLEAN ELSE {TRUE}

gateOnSubscriptions == \E has \in hasSubscriptions : GateOn(~has, "delete")

\* DeleteTopic succeeds on a topic that is already gone.
deleteTopic ==
    /\ pc = "delete"
    /\ resource' = NoResource
    /\ \/ GoTo("persist") /\ mem' = NoEntry
       \/ ~calm /\ FailTo("persist") /\ UNCHANGED mem
    /\ UNCHANGED <<userVars, store, view, forgotten, raced>>

\* Subscribers, refused once the deny has taken effect, and their leaving.  Of
\* those that are there only the newest may be left.
Subscribe == Writable /\ Outside([resource EXCEPT !.data = {"subscriptions"}, !.shown = 0]) /\ UNCHANGED raced

Unsubscribe == resource.data # {} /\ Outside([resource EXCEPT !.data = {}, !.shown = ListLag]) /\ UNCHANGED raced

TopicPass ==
    \/ Begin \/ sns_ensureWithinTrust \/ ensureTopicExists \/ createTopic \/ adoptTopic
    \/ recordVerified \/ reconcileDeclaredPolicy
    \/ sns_Cleanup \/ sns_restoreDeclared \/ sns_retain \/ sns_relinquishIfStillTagged
    \/ sns_removePendingDeletionDeny \/ sns_verifyOwned \/ sns_addPendingDeletionDeny
    \/ gateOnSubscriptions \/ deleteTopic \/ Persist

TopicNext ==
    \/ TopicPass \/ Others \/ resolveTopicKey \/ CallFails(TopicEnsureSteps, TopicCleanupSteps)
    \/ OutsideDelete \/ Subscribe \/ Unsubscribe
=============================================================================
