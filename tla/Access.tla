------------------------------- MODULE Access -------------------------------
(***************************************************************************)
(* What a CR gets from another CR's sharedWith, side by side: a queue's    *)
(* subscription, the role, the ServiceAccount that carries the role, the   *)
(* alarms that notify a topic.  Each asks again, several times in a pass,  *)
(* whether the reference resolves; here is what they promise in common.    *)
(***************************************************************************)
EXTENDS Subscriptions, RoleAccess, WorkloadIdentity, Alarms

CONSTANT Parts   \* the kinds of access considered

ASSUME PartsAssumption == Parts \subseteq {"subscription", "role", "identity", "alarms"}
ASSUME NamesAssumption ==
    /\ 0 \notin Arns /\ "cr" \in Accounts /\ "none" \notin Accounts \cup Names
    /\ AlarmSpecs \subseteq [alarms : SUBSET Names, topic : BOOLEAN, takeOver : BOOLEAN]

VARIABLE part    \* the one this behaviour is about

accessVars == <<vars, part>>

TypeOK ==
    CASE part = "subscription" -> SubscriptionTypeOK [] part = "role" -> RoleTypeOK
      [] part = "identity" -> IdentityTypeOK [] part = "alarms" -> AlarmTypeOK

Init ==
    /\ part \in Parts
    /\ \/ part = "subscription" /\ SubscriptionInit
       \/ part = "role" /\ RoleInit
       \/ part = "identity" /\ IdentityInit
       \/ part = "alarms" /\ AlarmInit

In(p, Action) == part = p /\ Action /\ UNCHANGED part

Next == \/ In("subscription", SubscriptionNext) \/ In("role", RoleNext)
        \/ In("identity", IdentityNext) \/ In("alarms", AlarmNext)

Spec == Init /\ [][Next]_accessVars

\* Passes of both CRs run and end, asked for once faults and edits are over.
Pass == \/ In("subscription", SubscriptionPass) \/ In("role", RolePass)
        \/ In("identity", IdentityPass) \/ In("alarms", AlarmPass)
Producing ==
    In("subscription", ProducerPass) \/ In("role", Publish) \/ In("alarms", AlarmProducing)

FairSpec ==
    /\ Init /\ [][Next \/ (Calm /\ UNCHANGED part)]_accessVars
    /\ WF_accessVars(calm /\ Pass) /\ WF_accessVars(calm /\ Producing)

-----------------------------------------------------------------------------
\* The operator takes over, changes and deletes only roles and alarms that are
\* the CR's, or its previous incarnation's when it is told to take over, by the
\* tags it read, and claims only accounts that consent; and in a queue's policy,
\* which it shares with others, it leaves their statements.  Inside the trust
\* window it reads no tags, and writes the policy of a role the ledger has
\* whoever tagged it since (verifyRoleOwnership, iam.Ensure, iam.Cleanup,
\* claimError, reconcileAlarm, deleteUndeclaredAlarms, ensureSubscriptionAllows,
\* removeSubscriptionAllow).
AccessChangesOnlyOwned ==
    [][CASE part = "subscription" -> KeepsEdits
         [] part = "role" -> RoleChangesOnlyOwned
         [] part = "identity" -> IdentityChangesOnlyOwned
         [] part = "alarms" -> AlarmChangesOnlyOwned]_accessVars

\* What the status lets a pass skip is really so: the policy whose digest it
\* has is on the role, and there are no alarms when it says so.
SkippedIsInPlace ==
    CASE part \in {"subscription", "identity"} -> TRUE
      [] part = "role" -> DigestIsThePolicy
      [] part = "alarms" -> NoAlarmsMeansNone

\* No subscription, role, claim of an account or alarm outlives its CR (the sections' finalize).
FinalizerHoldsAccess ==
    CASE part = "subscription" -> FinalizerHoldsSubscription
      [] part = "role" -> FinalizerHoldsRole
      [] part = "identity" -> FinalizerHoldsAccount
      [] part = "alarms" -> FinalizerHoldsAlarms

MustSettle ==
    CASE part = "subscription" -> SubscriptionMustSettle
      [] part = "role" -> RoleMustSettle
      [] part = "identity" -> IdentityMustSettle
      [] part = "alarms" -> AlarmMustSettle

Settled ==
    CASE part = "subscription" -> SubscriptionSettled
      [] part = "role" -> RoleSettled
      [] part = "identity" -> IdentitySettled
      [] part = "alarms" -> AlarmSettled

\* Once edits and faults stop, access is what sharedWith and the CR's spec make
\* it: given wherever it was missing, taken away wherever it was left over.
AccessSettles == MustSettle ~> Settled
=============================================================================
