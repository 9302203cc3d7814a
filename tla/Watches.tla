------------------------------- MODULE Watches -------------------------------
(***************************************************************************)
(* Which change of which object wakes which CR (internal/controller's      *)
(* predicates and watches).  What a pass of a CR does depends on other CRs *)
(* and on the subnet group grants; it reads them from the cache, and       *)
(* between passes it is the watches' business to say that one of them      *)
(* changed.  An event is the difference between the cache and the server,  *)
(* delivered object by object; the predicates drop those nobody needs and  *)
(* the map functions, which look CRs up in the cache, say whom to wake.    *)
(* A behaviour follows the passes of one CR; the others' passes are seen   *)
(* by what they publish.                                                   *)
(***************************************************************************)
EXTENDS FiniteSets

CONSTANTS
    Crs,      \* the CRs
    Specs     \* Specs[x]: what the spec of x may say about the others

VARIABLES
    objects, cached,    \* the CRs: on the server and in the cache
    grant, cachedGrant, \* whether the subnet group grant lists the CRs' namespace
    subject,            \* the CR whose passes are followed
    woken,              \* the work queue holds a request for it
    seen                \* what its last pass found

watchVars == <<objects, cached, grant, cachedGrant, subject, woken, seen>>

-----------------------------------------------------------------------------
(* A CR's spec: the producers it consumes from or subscribes to, those     *)
(* whose database it consumes, the one its alarms notify, the CRs its own  *)
(* resources are shared with, and whether it has a database in the subnet  *)
(* group.  Its status: the ARN of what it shares and of its pods' group.   *)

NoObject(x) == [there |-> FALSE, deleting |-> FALSE, spec |-> CHOOSE s \in Specs[x] : TRUE,
                arn |-> "none", pod |-> "none"]

\* The producers a CR consumes from, subscribes to or notifies.
indexConsumesFrom(o) == o.spec.consumes \cup o.spec.rds \cup o.spec.alarm

\* The CRs its databases are shared with: one set stands for what it shares of
\* every type.
indexRDSSharedWith(o) == o.spec.shares

\* Whether it declares a database in the subnet group.
indexRDSSubnetGroup(o) == o.spec.subnet

Live(o) == o.there /\ ~o.deleting

\* What a pass of x acts on, in the state os of the CRs and g of the grant.
Inputs(x, os, g) ==
    [own       |-> <<os[x].there, os[x].deleting, os[x].spec>>,
     producers |-> {<<y, os[y].arn, x \in os[y].spec.shares>> :
                       y \in {y \in indexConsumesFrom(os[x]) \ {x} : os[y].there}},
     pods      |-> {<<y, os[y].pod>> :
                       y \in {y \in os[x].spec.shares \ {x} : Live(os[y]) /\ x \in os[y].spec.rds}},
     alarms    |-> {y \in os[x].spec.shares \ {x} : Live(os[y]) /\ x \in os[y].spec.alarm},
     subnet    |-> os[x].spec.subnet /\ g]

-----------------------------------------------------------------------------
(* The predicates: which events of a CR a watch hears.                     *)

Appears(old, new) == old.there # new.there

\* Every change of the spec, and the deletion, is a new generation.
GenerationChanged(old, new) == old.spec # new.spec \/ old.deleting # new.deleting

AppDependenciesPredicate(old, new) == Appears(old, new) \/ GenerationChanged(old, new)

\* As above, or an ARN of the ledger changed.
ProducerChangedPredicate(old, new) == AppDependenciesPredicate(old, new) \/ old.arn # new.arn

SpecOrDeletionChangedPredicate(old, new) == Appears(old, new) \/ GenerationChanged(old, new)

\* Mutant: only the published group counts.
PodNetworkIdentityPublishedPredicateGroup(old, new) == Appears(old, new) \/ old.pod # new.pod

\* The pods' group, the deletion or the databases consumed.
PodNetworkIdentityPublishedPredicate(old, new) ==
    \/ Appears(old, new)
    \/ old.pod # new.pod
    \/ old.deleting # new.deleting
    \/ old.spec.rds # new.spec.rds

-----------------------------------------------------------------------------
(* The map functions, after CR y changed from old to new in the cache cs.  *)

InCache(cs, P(_)) == {x \in Crs : cs[x].there /\ P(cs[x])}

ProducerToConsumers(y, cs) == InCache(cs, LAMBDA o : y \in indexConsumesFrom(o)) \ {y}

ConsumerPodIdentityToRDSProducers(y, cs) == InCache(cs, LAMBDA o : y \in indexRDSSharedWith(o)) \ {y}

\* The old object and the new one are both mapped.
AlarmConsumerToTopicProducer(y, old, new) ==
    (UNION {o.spec.alarm : o \in {o \in {old, new} : o.there}}) \ {y}

SubnetGroupGrantToAffectedCRs(cs) == InCache(cs, LAMBDA o : indexRDSSubnetGroup(o))

\* SetupWithManager: each watch between CRs, with its predicate and its map function.
SetupWithManager(y, old, new, cs) ==
    UNION {IF AppDependenciesPredicate(old, new) THEN {y} ELSE {},
           IF ProducerChangedPredicate(old, new) THEN ProducerToConsumers(y, cs) ELSE {},
           IF PodNetworkIdentityPublishedPredicate(old, new)
               THEN ConsumerPodIdentityToRDSProducers(y, cs) ELSE {},
           IF SpecOrDeletionChangedPredicate(old, new)
               THEN AlarmConsumerToTopicProducer(y, old, new) ELSE {}}

-----------------------------------------------------------------------------
WatchInit ==
    /\ objects = [x \in Crs |-> NoObject(x)] /\ cached = objects
    /\ grant = FALSE /\ cachedGrant = FALSE
    /\ subject \in Crs /\ woken = FALSE
    /\ seen = Inputs(subject, objects, grant)

\* The cache after the event of CR y.
CacheAfter(y) == [cached EXCEPT ![y] = objects[y]]

\* An event of CR y.
DeliverCR(y) ==
    /\ cached[y] # objects[y] /\ cached' = CacheAfter(y)
    /\ woken' = (woken \/ subject \in SetupWithManager(y, cached[y], objects[y], cached'))
    /\ UNCHANGED <<objects, grant, cachedGrant, subject, seen>>

DeliverGrant ==
    /\ cachedGrant # grant /\ cachedGrant' = grant
    /\ woken' = (woken \/ subject \in SubnetGroupGrantToAffectedCRs(cached))
    /\ UNCHANGED <<objects, cached, grant, subject, seen>>

\* What a pass of x may say in its status, or that it let go of a CR in deletion.
Publishes(x) ==
    \/ /\ cached[x].there /\ Live(objects[x])
       /\ \E arn \in {"none", "arn"}, pod \in {"none", "sg"} :
             /\ arn = "arn" => cached[x].spec.shares # {}
             /\ pod = "sg" => cached[x].spec.rds # {}
             /\ objects' = [objects EXCEPT ![x].arn = arn, ![x].pod = pod]
    \/ cached[x].deleting /\ objects' = [objects EXCEPT ![x] = NoObject(x)]

\* A pass of the subject: it reads the cache.
Reconciled ==
    /\ woken /\ woken' = FALSE
    /\ seen' = Inputs(subject, cached, cachedGrant)
    /\ UNCHANGED objects \/ Publishes(subject)
    /\ UNCHANGED <<cached, grant, cachedGrant, subject>>

\* A pass of another CR.
OtherReconciled(x) ==
    /\ x # subject /\ Publishes(x)
    /\ UNCHANGED <<cached, grant, cachedGrant, subject, woken, seen>>

\* People create, edit and delete CRs, and change the grant.  No watch relates the
\* grant to the other CRs, so a behaviour has the one or the others.
Edit(x) ==
    /\ x # subject => ~grant /\ ~cachedGrant
    /\ \/ ~objects[x].there /\ \E s \in Specs[x] : objects' = [objects EXCEPT ![x].there = TRUE, ![x].spec = s]
       \/ Live(objects[x]) /\ \E s \in Specs[x] : objects' = [objects EXCEPT ![x].spec = s]
       \/ Live(objects[x]) /\ objects' = [objects EXCEPT ![x].deleting = TRUE]
    /\ UNCHANGED <<cached, grant, cachedGrant, subject, woken, seen>>

EditGrant ==
    /\ \E s \in Specs[subject] : s.subnet
    /\ \A x \in Crs \ {subject} : ~objects[x].there /\ ~cached[x].there
    /\ grant' = ~grant
    /\ UNCHANGED <<objects, cached, cachedGrant, subject, woken, seen>>

WatchNext ==
    \/ \E x \in Crs : DeliverCR(x) \/ OtherReconciled(x) \/ Edit(x)
    \/ Reconciled \/ DeliverGrant \/ EditGrant

-----------------------------------------------------------------------------
(* Properties.                                                             *)

Objects(x) == [there : BOOLEAN, deleting : BOOLEAN, spec : Specs[x],
               arn : {"none", "arn"}, pod : {"none", "sg"}]

WatchTypeOK ==
    /\ \A x \in Crs : {objects[x], cached[x]} \subseteq Objects(x)
    /\ {grant, cachedGrant, woken} \subseteq BOOLEAN /\ subject \in Crs

\* Whom the events on their way would wake.
Coming ==
    (UNION {SetupWithManager(y, cached[y], objects[y], CacheAfter(y)) :
               y \in {y \in Crs : cached[y] # objects[y]}})
    \cup (IF cachedGrant # grant THEN SubnetGroupGrantToAffectedCRs(cached) ELSE {})

\* A CR whose last pass found something else than what is there now is about to
\* be woken, without waiting for the drift timer (the predicates, the map
\* functions and their indexes).
StaleIsWoken ==
    objects[subject].there /\ seen # Inputs(subject, objects, grant) => woken \/ subject \in Coming
=============================================================================
