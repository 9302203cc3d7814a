--------------------------- MODULE NetworkAccess ---------------------------
(***************************************************************************)
(* Who reaches a database: the protocol between the CR that owns an RDS    *)
(* instance and the CRs that consume it (internal/resources/rds,           *)
(* securitygroup.go and podnetworkidentity.go, run by section_rds.go).     *)
(*                                                                         *)
(* The owner keeps one security group per instance and gives it one        *)
(* ingress rule per consumer it shares the instance with.  A consumer      *)
(* keeps one pod group, attached to its pods by a SecurityGroupPolicy, and *)
(* publishes it in its ledger.  EC2 deletes no group that a rule or a      *)
(* network interface names, so a consumer that leaves first stops          *)
(* publishing, and retries until the owner has revoked its rule.           *)
(*                                                                         *)
(* Each owner has one instance.  The passes of different CRs interleave;   *)
(* each reads the others as they were when it looked.  An owner that is    *)
(* being deleted treats its instance as one that is no longer declared.    *)
(***************************************************************************)
EXTENDS Integers, FiniteSets

CONSTANTS
    Owners, Consumers,  \* CRs
    VpcOf,              \* the VPC of each owner's DB subnet group
    OwnerSpecs          \* the forms an owner's spec takes: [declared, shared, granted]

ASSUME NetworkAssumption ==
    /\ Owners \cap Consumers = {} /\ {"none", "dead"} \cap Consumers = {}
    /\ OwnerSpecs \subseteq [declared : BOOLEAN, shared : SUBSET Consumers, granted : BOOLEAN]

\* A pod group has a fixed name, so there is at most one for each consumer and
\* VPC.  A new one has another ID than any before: an ID that is written down
\* somewhere when its group goes is from then on just Dead.
GroupIds == Consumers \X {VpcOf[p] : p \in Owners}
NoGroup  == <<"none", 0>>
Dead     == <<"dead", 0>>

VARIABLES
    spec,       \* of each owner: [declared, shared, granted]
    ledger,     \* of each owner, as persisted: [tracked, recorded]
    instance,   \* whether each owner's instance exists
    sg,         \* each owner's instance group: [exists, rules]
    want,       \* of each consumer: [refs, cr]
    entry,      \* of each consumer, as persisted: [state, id]
    groups,     \* the pod groups that exist
    attach,     \* of each consumer: the group its policy gives, and the one its pods have
    pc,         \* where the pass of each CR is
    view,       \* what the pass has read of its own spec
    mem,        \* the pass's copy of the ledger
    plan,       \* of an owner's pass: the rules to add and to revoke
    err,        \* whether the pass has met an error
    calm        \* no further fault or edit

CRs == Owners \cup Consumers

ownerVars == <<spec, ledger, instance, sg>>
podVars   == <<want, entry, groups, attach>>
passVars  == <<pc, view, mem, plan, err>>
vars      == <<ownerVars, podVars, passVars, calm>>

NoEntry == [state |-> "None", id |-> NoGroup]
NoSpec == [declared |-> FALSE, shared |-> {}, granted |-> FALSE]
NoPlan == [missing |-> {}, stale |-> {}]
NewLedger == [tracked |-> FALSE, recorded |-> FALSE]

IdleView(x) == IF x \in Owners THEN NoSpec ELSE [refs |-> {}, cr |-> "live"]
IdleMem(x)  == IF x \in Owners THEN NewLedger ELSE NoEntry

AllIds == GroupIds \cup {NoGroup, Dead}

Wants      == [refs : SUBSET Owners, cr : {"live", "deleting", "gone"}]
Entries    == [state : {"None", "Verified", "Releasing"}, id : AllIds]

TypeOK ==
    /\ spec \in [Owners -> OwnerSpecs]
    /\ ledger \in [Owners -> [tracked : BOOLEAN, recorded : BOOLEAN]]
    /\ instance \in [Owners -> BOOLEAN]
    /\ sg \in [Owners -> [exists : BOOLEAN, rules : SUBSET GroupIds]]
    /\ want \in [Consumers -> Wants] /\ entry \in [Consumers -> Entries]
    /\ groups \subseteq GroupIds
    /\ attach \in [Consumers -> [policy : AllIds, pods : GroupIds \cup {NoGroup}]]
    /\ plan \in [Owners -> [missing : SUBSET AllIds, stale : SUBSET GroupIds]]
    /\ \A c \in Consumers : mem[c] \in Entries
    /\ err \in [CRs -> BOOLEAN] /\ calm \in BOOLEAN
    /\ \A p \in Owners : sg[p].rules \subseteq groups

Init ==
    /\ spec \in [Owners -> OwnerSpecs]
    /\ ledger = [p \in Owners |-> NewLedger] /\ instance = [p \in Owners |-> FALSE]
    /\ sg = [p \in Owners |-> [exists |-> FALSE, rules |-> {}]]
    /\ want \in [Consumers -> [refs : SUBSET Owners, cr : {"live"}]]
    /\ entry = [c \in Consumers |-> NoEntry] /\ groups = {}
    /\ attach = [c \in Consumers |-> [policy |-> NoGroup, pods |-> NoGroup]]
    /\ pc = [x \in CRs |-> "idle"] /\ view = [x \in CRs |-> IdleView(x)]
    /\ mem = [x \in CRs |-> IdleMem(x)] /\ plan = [p \in Owners |-> NoPlan]
    /\ err = [x \in CRs |-> FALSE] /\ calm = FALSE

GoTo(x, step) == pc' = [pc EXCEPT ![x] = step] /\ UNCHANGED err

FailTo(x, step) == pc' = [pc EXCEPT ![x] = step] /\ err' = [err EXCEPT ![x] = TRUE]

\* What an owner's Cleanup does depends on no earlier error, and on no more of
\* the spec than whether the instance is declared.
CleanUp(p) ==
    /\ pc' = [pc EXCEPT ![p] = "cleanup"] /\ err' = [err EXCEPT ![p] = FALSE]
    /\ view' = [view EXCEPT ![p] = [NoSpec EXCEPT !.declared = view[p].declared]]
    /\ plan' = [plan EXCEPT ![p] = NoPlan]

\* A call that took effect: the reply may be lost.
Done(x, step, failStep) == GoTo(x, step) \/ (~calm /\ FailTo(x, failStep))

-----------------------------------------------------------------------------
(* The owner's pass: ensureResource, then Cleanup.                         *)

\* Mutant: nothing at all is done without a grant.
BeginOwnerHolding(p) ==
    /\ pc[p] = "idle"
    /\ view' = [view EXCEPT ![p] = spec[p]] /\ mem' = [mem EXCEPT ![p] = ledger[p]]
    /\ GoTo(p, IF ~spec[p].declared \/ ~spec[p].granted THEN "cleanup"
               ELSE IF sg[p].exists THEN "read" ELSE "group")
    /\ UNCHANGED <<ownerVars, podVars, plan, calm>>

\* subnetGroupAuthorized, and what is done without a grant: an instance the
\* ledger tracks still has its ingress narrowed (holdUnauthorized).
BeginOwner(p) ==
    /\ pc[p] = "idle"
    /\ view' = [view EXCEPT ![p] = spec[p]] /\ mem' = [mem EXCEPT ![p] = ledger[p]]
    /\ GoTo(p, IF ~spec[p].declared THEN "cleanup"
               ELSE IF spec[p].granted THEN (IF sg[p].exists THEN "read" ELSE "group")
               ELSE IF ledger[p].tracked /\ ledger[p].recorded /\ sg[p].exists THEN "read"
               ELSE "cleanup")
    /\ UNCHANGED <<ownerVars, podVars, plan, calm>>

\* ensureInstanceSecurityGroup, when no group is recorded or found by its name.
findOrCreateSecurityGroup(p) ==
    /\ pc[p] = "group"
    /\ sg' = [sg EXCEPT ![p] = [exists |-> TRUE, rules |-> {}]]
    /\ \/ GoTo(p, "read") /\ UNCHANGED <<view, plan>>
       \/ ~calm /\ CleanUp(p)
    /\ UNCHANGED <<spec, ledger, instance, podVars, mem, calm>>

\* Mutant: a recorded group counts as published until its entry is gone.
consumerPodSecurityGroupRecorded(c, p) == IF entry[c].state # "None" THEN {entry[c].id} ELSE {}

\* What consumer c has published, to be granted ingress to owner p's instance.
consumerPodSecurityGroup(c, p) ==
    IF want[c].cr = "live" /\ p \in want[c].refs /\ entry[c].state = "Verified"
    THEN {entry[c].id} ELSE {}

\* reconcileIngress, up to its first write.  A failed read changes no rule.
readConsumers(p) ==
    /\ pc[p] = "read"
    /\ LET desired == UNION {consumerPodSecurityGroup(c, p) : c \in view[p].shared}
       IN  plan' = [plan EXCEPT ![p] = [missing |-> IF view[p].granted THEN desired \ sg[p].rules ELSE {},
                                        stale   |-> sg[p].rules \ desired]]
    /\ GoTo(p, "authorize")
    /\ UNCHANGED <<ownerVars, podVars, view, mem, calm>>

\* One call for all the missing rules: it fails when one of the groups is gone
\* or in another VPC.  The stale ones are revoked all the same.
AuthorizeIngress(p) ==
    /\ pc[p] = "authorize"
    /\ IF \A g \in plan[p].missing : g \in groups /\ g[2] = VpcOf[p]
       THEN sg' = [sg EXCEPT ![p].rules = @ \cup plan[p].missing] /\ Done(p, "revoke", "revoke")
       ELSE FailTo(p, "revoke") /\ UNCHANGED sg
    /\ UNCHANGED <<spec, ledger, instance, podVars, view, mem, plan, calm>>

\* revokeStaleIngress: one call per rule, each of which may fail.  A group
\* whose rules are in order is recorded.
revokeStaleIngress(p) ==
    /\ pc[p] = "revoke"
    /\ \E kept \in SUBSET plan[p].stale :
         /\ kept # {} => ~calm
         /\ sg' = [sg EXCEPT ![p].rules = @ \ (plan[p].stale \ kept)]
         /\ IF kept = {} /\ ~err[p] /\ view[p].granted
            THEN /\ GoTo(p, "instance") /\ mem' = [mem EXCEPT ![p] = [@ EXCEPT !.recorded = TRUE]]
                 /\ plan' = [plan EXCEPT ![p] = NoPlan] /\ UNCHANGED view
            ELSE CleanUp(p) /\ UNCHANGED mem
    /\ UNCHANGED <<spec, ledger, instance, podVars, calm>>

\* ensureInstance, as far as the group is concerned: DatabaseLifecycle has the
\* rest.  An instance that was lost is not replaced.
ensureInstance(p) ==
    /\ pc[p] = "instance"
    /\ IF ~instance[p] /\ mem[p].tracked
       THEN UNCHANGED <<instance, mem>>
       ELSE /\ instance' = [instance EXCEPT ![p] = TRUE]
            /\ \/ mem' = [mem EXCEPT ![p] = [@ EXCEPT !.tracked = TRUE]]
               \/ ~calm /\ UNCHANGED mem
    /\ CleanUp(p)
    /\ UNCHANGED <<spec, ledger, sg, podVars, calm>>

EndPass(x) ==
    /\ pc' = [pc EXCEPT ![x] = "idle"] /\ view' = [view EXCEPT ![x] = IdleView(x)]
    /\ mem' = [mem EXCEPT ![x] = IdleMem(x)] /\ err' = [err EXCEPT ![x] = FALSE]
    /\ plan' = IF x \in Owners THEN [plan EXCEPT ![x] = NoPlan] ELSE plan

\* The status write, which may be lost.  No consumer reads an owner's ledger.
PersistOwner(p, entries) ==
    /\ \/ ledger' = [ledger EXCEPT ![p] = entries]
       \/ ~calm /\ UNCHANGED ledger
    /\ EndPass(p)

\* Cleanup drops the entry of an instance that is gone; then
\* CleanupInstanceSecurityGroups deletes the group of an instance that is
\* neither declared nor tracked, unless something still uses it.
CleanupInstanceSecurityGroups(p) ==
    /\ pc[p] = "cleanup"
    /\ LET tracked == mem[p].tracked /\ (instance[p] \/ view[p].declared)
           over    == ~view[p].declared /\ ~tracked /\ mem[p].recorded
           inUse   == sg[p].exists /\ instance[p]
       IN  \/ (over => inUse) /\ PersistOwner(p, [mem[p] EXCEPT !.tracked = tracked]) /\ UNCHANGED sg
          \/ /\ over /\ ~inUse
             /\ sg' = [sg EXCEPT ![p] = [exists |-> FALSE, rules |-> {}]]
             /\ PersistOwner(p, NewLedger)
    /\ UNCHANGED <<spec, instance, podVars, calm>>

-----------------------------------------------------------------------------
(* The consumer's pass: EnsurePodNetworkIdentity while something is        *)
(* consumed, CleanupPodNetworkIdentity otherwise.                          *)

Consuming(w) == w.cr = "live" /\ w.refs # {}

BeginConsumer(c) ==
    /\ pc[c] = "idle" /\ want[c].cr # "gone"
    /\ view' = [view EXCEPT ![c] = want[c]] /\ mem' = [mem EXCEPT ![c] = entry[c]]
    /\ GoTo(c, IF Consuming(want[c]) THEN "resolve"
               ELSE IF entry[c].state = "None" THEN "persist" ELSE "release")
    /\ UNCHANGED <<ownerVars, podVars, plan, calm>>

\* The VPCs of the consumed instances that are declared.
ConsumedVpcs(c) == {VpcOf[p] : p \in {q \in view[c].refs : spec[q].declared}}

\* podSecurityGroup.  The recorded group is kept while it is there and either
\* trusted or in the VPC of something consumed; otherwise the group of the VPC
\* of the first resolved instance is found by its name, or created.
podSecurityGroup(c) ==
    /\ pc[c] = "resolve"
    /\ \E trusted \in BOOLEAN :
         LET recorded == mem[c].id
             sticky == recorded \in groups /\ (trusted \/ recorded[2] \in ConsumedVpcs(c))
         IN  \/ sticky /\ GoTo(c, "attach") /\ UNCHANGED <<mem, groups>>
             \/ ~sticky /\ ConsumedVpcs(c) = {} /\ GoTo(c, "persist") /\ UNCHANGED <<mem, groups>>
             \/ /\ ~sticky
                /\ \E v \in ConsumedVpcs(c) :
                     /\ groups' = groups \cup {<<c, v>>}
                     /\ \/ GoTo(c, "attach") /\ mem' = [mem EXCEPT ![c] = [@ EXCEPT !.id = <<c, v>>]]
                        \/ ~calm /\ FailTo(c, "persist") /\ UNCHANGED mem
    /\ view' = [view EXCEPT ![c] = [@ EXCEPT !.refs = {}]]
    /\ UNCHANGED <<ownerVars, want, entry, attach, plan, calm>>

\* The ServiceAccount's label, which selects nothing without the policy, then
\* the policy, then the entry, Verified even if it was Releasing before.
EnsurePodNetworkIdentity(c) ==
    /\ pc[c] = "attach"
    /\ attach' = [attach EXCEPT ![c].policy = mem[c].id]
    /\ \/ GoTo(c, "persist") /\ mem' = [mem EXCEPT ![c] = [@ EXCEPT !.state = "Verified"]]
       \/ ~calm /\ FailTo(c, "persist") /\ mem' = [mem EXCEPT ![c] = entry[c]]
    /\ UNCHANGED <<ownerVars, want, entry, groups, view, plan, calm>>

\* CleanupPodNetworkIdentity: marked as releasing, so that it no longer reads
\* as published, then the policy and the label go.
ReleasePodNetworkIdentity(c) ==
    /\ pc[c] = "release"
    /\ mem' = [mem EXCEPT ![c] = [@ EXCEPT !.state = "Releasing"]]
    /\ attach' = [attach EXCEPT ![c].policy = NoGroup] /\ Done(c, "delete", "persist")
    /\ UNCHANGED <<ownerVars, want, entry, groups, view, plan, calm>>

InUse(g) == (\E p \in Owners : g \in sg[p].rules) \/ (\E c \in Consumers : attach[c].pods = g)

\* Every reference to group g, once it is deleted.
Bury(f, g) == [c \in DOMAIN f |-> IF c \in Consumers /\ f[c].id = g THEN [f[c] EXCEPT !.id = Dead] ELSE f[c]]

\* A group that something still uses is kept, with its entry, for another try.
DeleteSecurityGroup(c) ==
    /\ pc[c] = "delete"
    /\ LET id == mem[c].id
       IN  IF InUse(id)
           THEN FailTo(c, "persist") /\ UNCHANGED <<groups, mem, entry, plan>>
           ELSE /\ groups' = groups \ {id}
                /\ entry' = Bury(entry, id)
                /\ plan' = [p \in Owners |-> [plan[p] EXCEPT !.missing = {IF g = id THEN Dead ELSE g : g \in @}]]
                /\ \/ GoTo(c, "persist") /\ mem' = [mem EXCEPT ![c] = NoEntry]
                   \/ ~calm /\ FailTo(c, "persist") /\ mem' = Bury(mem, id)
    /\ UNCHANGED <<ownerVars, want, attach, view, calm>>

\* The status write; the finalizer goes when nothing is left and all went well.
PersistConsumer(c) ==
    /\ pc[c] = "persist"
    /\ LET done == view[c].cr = "deleting" /\ ~err[c]
       IN  \/ /\ done /\ want' = [want EXCEPT ![c] = [@ EXCEPT !.cr = "gone"]]
             /\ entry' = [entry EXCEPT ![c] = NoEntry]
          \/ /\ done => ~calm
             /\ \/ entry' = [entry EXCEPT ![c] = mem[c]]
                \/ ~calm /\ UNCHANGED entry
             /\ UNCHANGED want
    /\ EndPass(c)
    /\ UNCHANGED <<ownerVars, groups, attach, calm>>

-----------------------------------------------------------------------------
(* Faults, users and pods.                                                 *)

\* A read or a call fails before it does anything.
OwnerCallFails(p) ==
    /\ ~calm /\ pc[p] \in {"group", "read", "authorize", "instance"} /\ CleanUp(p)
    /\ UNCHANGED <<ownerVars, podVars, mem, calm>>

ConsumerCallFails(c) ==
    /\ ~calm /\ pc[c] \in {"resolve", "attach", "release", "delete"} /\ FailTo(c, "persist")
    /\ mem' = [mem EXCEPT ![c] = IF pc[c] = "release" THEN [@ EXCEPT !.state = "Releasing"]
                                 ELSE IF pc[c] = "attach" THEN entry[c] ELSE @]
    /\ UNCHANGED <<ownerVars, podVars, view, plan, calm>>

Crash(x) ==
    /\ ~calm /\ pc[x] # "idle" /\ EndPass(x)
    /\ UNCHANGED <<ownerVars, podVars, calm>>

\* An edit during the owner's pass is read by the next one, like an edit after it.
EditOwner(p) ==
    /\ ~calm /\ pc[p] = "idle"
    /\ spec' \in {[spec EXCEPT ![p] = s] : s \in OwnerSpecs \ {spec[p]}}
    /\ UNCHANGED <<ledger, instance, sg, podVars, passVars, calm>>

\* What losing a declared instance does is DatabaseLifecycle's subject.
DeleteInstanceByHand(p) ==
    /\ ~calm /\ instance[p] /\ ~spec[p].declared /\ instance' = [instance EXCEPT ![p] = FALSE]
    /\ UNCHANGED <<spec, ledger, sg, podVars, passVars, calm>>

EditConsumer(c) ==
    /\ ~calm /\ want[c].cr = "live"
    /\ \/ \E r \in (SUBSET Owners) \ {want[c].refs} : want' = [want EXCEPT ![c] = [@ EXCEPT !.refs = r]]
       \/ want' = [want EXCEPT ![c] = [refs |-> {}, cr |-> "deleting"]]
    /\ UNCHANGED <<ownerVars, entry, groups, attach, passVars, calm>>

\* A pod started under the policy gets its group, and gives it back.
PodStarts(c) ==
    /\ attach[c].pods = NoGroup /\ attach[c].policy \in groups
    /\ attach' = [attach EXCEPT ![c].pods = attach[c].policy]
    /\ UNCHANGED <<ownerVars, want, entry, groups, passVars, calm>>

PodStops(c) ==
    /\ attach[c].pods # NoGroup /\ attach' = [attach EXCEPT ![c].pods = NoGroup]
    /\ UNCHANGED <<ownerVars, want, entry, groups, passVars, calm>>

Calm ==
    /\ ~calm /\ calm' = TRUE /\ \A x \in CRs : pc[x] = "idle"
    /\ UNCHANGED <<ownerVars, podVars, passVars>>

OwnerPass(p) ==
    \/ BeginOwner(p) \/ findOrCreateSecurityGroup(p) \/ readConsumers(p) \/ AuthorizeIngress(p)
    \/ revokeStaleIngress(p) \/ ensureInstance(p) \/ CleanupInstanceSecurityGroups(p)

ConsumerPass(c) ==
    \/ BeginConsumer(c) \/ podSecurityGroup(c) \/ EnsurePodNetworkIdentity(c)
    \/ ReleasePodNetworkIdentity(c) \/ DeleteSecurityGroup(c) \/ PersistConsumer(c)

Next ==
    \/ \E p \in Owners : OwnerPass(p) \/ EditOwner(p) \/ DeleteInstanceByHand(p)
    \/ \E c \in Consumers : ConsumerPass(c) \/ EditConsumer(c) \/ PodStarts(c) \/ PodStops(c)
    \/ \E p \in Owners : OwnerCallFails(p)
    \/ \E c \in Consumers : ConsumerCallFails(c)
    \/ \E x \in CRs : Crash(x)

Spec == Init /\ [][Next]_vars

\* Passes run and end, and a pod with the group stops some day.
FairSpec ==
    /\ Init /\ [][Next \/ Calm]_vars
    /\ \A p \in Owners : WF_vars(OwnerPass(p))
    /\ \A c \in Consumers : WF_vars(ConsumerPass(c)) /\ WF_vars(PodStops(c))

-----------------------------------------------------------------------------
(* Properties.                                                             *)

\* The groups that should reach owner p's instance.
Due(p) == UNION {consumerPodSecurityGroup(c, p) : c \in spec[p].shared}

\* Whether the owner still changes the rules of its instance: without a grant
\* it only narrows those of a group the ledger knows.
Governs(p) == spec[p].declared /\ (spec[p].granted \/ (ledger[p].tracked /\ ledger[p].recorded))

\* Once nothing is edited any more, the rules of a declared instance are those
\* of the consumers it is shared with that ask for it and publish a group, and
\* while no grant covers it they are some of those; the group of an instance
\* that was removed from the spec and deleted goes (CleanupInstanceSecurityGroups).
AccessFollowsSharing ==
    \A p \in Owners :
        [](calm /\ (Governs(p) \/ (~spec[p].declared /\ ~instance[p] /\ ledger[p].recorded))
           => <>[](IF spec[p].declared
                   THEN sg[p].rules \subseteq Due(p) /\ (spec[p].granted => sg[p].rules = Due(p))
                   ELSE ~sg[p].exists))

\* A group its ledger records holds the finalizer of a consumer that is deleted
\* (CleanupPodNetworkIdentity).
ReleaseWaits ==
    [][\A c \in Consumers :
         want[c].cr = "deleting" /\ want'[c].cr = "gone" => entry[c].id \notin groups']_vars

\* A consumer that stops consuming, or is deleted, gets rid of its group, and
\* of its finalizer, as long as every owner whose rule names the group
\* still declares its instance and can change its rules.  And not before.
ReleaseCompletes ==
    /\ ReleaseWaits
    /\ \A c \in Consumers :
        [](/\ calm /\ ~Consuming(want[c])
           /\ \A p \in Owners : Governs(p)
           => <>(entry[c].state = "None" /\ want[c].cr # "deleting"))
=============================================================================
