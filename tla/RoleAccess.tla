----------------------------- MODULE RoleAccess -----------------------------
(***************************************************************************)
(* The CR's IAM role, whose policy is derived from what the CR owns and    *)
(* consumes, and the ConfigMap that tells the workload where to find it:   *)
(* internal/resources/iam, internal/resources/configmap, section_iam.go.   *)
(* A policy is the set of its grants.  Inside the trust window the role's  *)
(* tags and policy are not read: the ledger's digest of the policy stands  *)
(* for it.  Which ServiceAccount may use the role is in WorkloadIdentity.  *)
(***************************************************************************)
EXTENDS ConsumerPass

Grants == {"own", "resource", "key"} \X {"Read", "ReadWrite"}

NoRoleSpec == [owns |-> FALSE, consumes |-> FALSE]
RoleSpecs == {[owns |-> o, consumes |-> TRUE] : o \in BOOLEAN}

\* store and mem: whether the ledger has the role, and the digest of its policy.
Ledgers == [role : BOOLEAN, digest : SUBSET Grants]
NoRoleLedger == [role |-> FALSE, digest |-> {}]

\* "previous" are the tags of the incarnation the CR may take over from.
Roles == [exists : BOOLEAN, tags : {"none", "ours", "previous", "other"}, policy : SUBSET Grants]
NoRole == [exists |-> FALSE, tags |-> "none", policy |-> {}]
Tagged(tags) == [exists |-> TRUE, tags |-> tags, policy |-> {}]
Retagged(tags) == [exists |-> aws.role.exists, tags |-> tags, policy |-> aws.role.policy]
Allowing(grants) == [exists |-> aws.role.exists, tags |-> aws.role.tags, policy |-> grants]
Maps == [owner : {"none", "ours", "other"}, data : SUBSET {"own", "consumed"}]
NoMap  == [owner |-> "none", data |-> {}]

\* own: whether the ledger has the CR's own resource.
RoleViews == [spec : RoleSpecs \cup {NoRoleSpec}, deleting : BOOLEAN, own : BOOLEAN, grants : SUBSET Grants]
RoleIdleView == [spec |-> NoRoleSpec, deleting |-> FALSE, own |-> FALSE, grants |-> {}]

RoleTypeOK ==
    /\ PassTypeOK /\ spec \in RoleSpecs \cup {NoRoleSpec} /\ view \in RoleViews
    /\ {store, mem} \subseteq Ledgers /\ aws \in [role : Roles, map : Maps]
    /\ lost \subseteq {"role", "policy", "stripped", "raced"}

RoleInit ==
    /\ PassInit /\ spec \in RoleSpecs
    /\ store = NoRoleLedger /\ mem = NoRoleLedger /\ view = RoleIdleView /\ lost = {}
    /\ aws \in {[role |-> NoRole, map |-> NoMap], [role |-> Tagged("previous"), map |-> NoMap],
               [role |-> Tagged("other"), map |-> [owner |-> "other", data |-> {}]]}

-----------------------------------------------------------------------------
(* Ensure.                                                                 *)

\* The sections before this one have seen to the CR's own resource, or failed.
RoleBegin ==
    /\ pc = "idle" /\ cr # "gone"
    /\ \E own \in (IF spec.owns THEN {TRUE, calm} ELSE {FALSE}) :
         view' = [spec |-> spec, deleting |-> cr = "deleting", own |-> own, grants |-> {}]
    /\ mem' = store
    /\ GoTo(IF cr = "live" THEN "collect" ELSE "cleanup")
    /\ UNCHANGED <<userVars, store, aws, lost>>

recordOwned == IF view.spec.owns /\ view.own THEN {<<"own", "ReadWrite">>} ELSE {}

collectGrants == recordOwned \cup (IF view.spec.consumes THEN resolveConsume ELSE {})

\* Ensure: no role without a grant, and nothing at all when the producer could
\* not be read.
iam_Ensure ==
    /\ pc = "collect"
    /\ view' = [view EXCEPT !.grants = collectGrants]
    /\ GoTo(IF collectGrants = {} THEN "cleanup" ELSE "role")
    /\ UNCHANGED <<userVars, store, aws, mem, lost>>

\* Ensure returns an error, or the role: view.grants says which to the
\* properties.
Fails == FailTo("cleanup") /\ view' = [view EXCEPT !.grants = {}]
Goes(step) == GoTo(step) /\ UNCHANGED view

\* ensureRole creates the role, or checks whose it is unless the entry is
\* trusted; a trusted one whose digest is the derived policy's is left as it is,
\* another gets the policy although its tags were not read.  Once calm, the
\* trust window is over.
ensureRole ==
    /\ pc = "role"
    /\ \/ /\ ~aws.role.exists
          /\ aws' = [aws EXCEPT !.role = Tagged("ours")]
          /\ lost' = lost \cup {"role", "policy"} /\ (Goes("policy") \/ (~calm /\ Fails))
       \/ /\ aws.role.exists /\ mem.role /\ ~calm
          /\ Goes(IF mem.digest = view.grants THEN "cleanup" ELSE "trusted")
          /\ UNCHANGED <<aws, lost>>
       \/ /\ aws.role.exists /\ UNCHANGED <<aws, lost>>
          /\ \/ aws.role.tags = "ours" /\ Goes("policy")
             \/ aws.role.tags = "previous" /\ Goes("takeOver")
             \/ aws.role.tags = "other" /\ Fails
    /\ UNCHANGED <<userVars, store, mem>>

\* verifyRoleOwnership tags a role the CR takes over.
verifyRoleOwnership ==
    /\ pc = "takeOver"
    /\ IF aws.role.exists
       THEN /\ aws' = [aws EXCEPT !.role = Retagged("ours")] /\ lost' = lost \cup {"role", "policy"}
            /\ Goes("policy") \/ (~calm /\ Fails)
       ELSE Fails /\ UNCHANGED <<aws, lost>>
    /\ UNCHANGED <<userVars, store, mem>>

Recorded == [role |-> TRUE, digest |-> view.grants]

\* ensureRolePolicy writes the policy unless the role has it, and recordVerified
\* its digest.
ensureRolePolicy ==
    /\ pc \in {"policy", "trusted"}
    /\ IF aws.role.exists
       THEN /\ aws' = [aws EXCEPT !.role = Allowing(view.grants)]
            /\ \/ Goes("cleanup") /\ mem' = Recorded /\ lost' = lost \ {"policy", "stripped"}
               \/ ~calm /\ Fails /\ UNCHANGED mem /\ lost' = lost \cup {"policy"}
       ELSE Fails /\ UNCHANGED <<aws, mem, lost>>
    /\ UNCHANGED <<userVars, store>>

-----------------------------------------------------------------------------
(* Cleanup of a role nothing needs any more.                               *)

\* The grants are collected again: the producer may have changed since.
iam_Cleanup ==
    /\ pc = "cleanup"
    /\ GoTo(IF mem.role /\ (view.deleting \/ collectGrants = {}) THEN "verify" ELSE "map")
    /\ view' = [view EXCEPT !.grants = {}]
    /\ UNCHANGED <<userVars, store, aws, mem, lost>>

\* Mutant: the tags are not read again.
verifyRoleUnread ==
    /\ pc = "verify" /\ GoTo("deletePolicy")
    /\ UNCHANGED <<userVars, store, aws, view, mem, lost>>

\* Ownership is read again before the role is touched.
verifyRole ==
    /\ pc = "verify"
    /\ \/ ~aws.role.exists /\ GoTo("map") /\ mem' = NoRoleLedger
       \/ aws.role.exists /\ aws.role.tags # "ours" /\ FailTo("map") /\ UNCHANGED mem
       \/ aws.role.exists /\ aws.role.tags = "ours" /\ GoTo("deletePolicy") /\ UNCHANGED mem
    /\ lost' = lost \ {"raced"}
    /\ UNCHANGED <<userVars, store, aws, view>>

DeleteRolePolicy ==
    /\ pc = "deletePolicy"
    /\ aws' = [aws EXCEPT !.role = Allowing({})] /\ lost' = lost \cup {"stripped"}
    /\ Done("deleteRole", "map")
    /\ UNCHANGED <<userVars, store, view, mem>>

\* AWS refuses to delete a role with a policy attached by hand; detached, the
\* deletion continues.
DeleteRole ==
    /\ pc = "deleteRole"
    /\ \/ GoTo("map") /\ mem' = NoRoleLedger /\ aws' = [aws EXCEPT !.role = NoRole]
       \/ ~calm /\ FailTo("map") /\ UNCHANGED mem /\ aws' \in {aws, [aws EXCEPT !.role = NoRole]}
    /\ UNCHANGED <<userVars, store, view, lost>>

-----------------------------------------------------------------------------
(* The ConfigMap, after every section, whether or not they succeeded.      *)

addOwned == IF view.spec.owns /\ view.own THEN {"own"} ELSE {}

\* The reference is resolved once more.
addConsumed == IF view.spec.consumes /\ ResolveConsumeARN THEN {"consumed"} ELSE {}

buildConnectionData == addOwned \cup addConsumed

\* A ConfigMap of somebody else's is refused; the CR's own goes with it.
ensureConfigMap ==
    /\ pc = "map"
    /\ \/ view.deleting /\ GoTo("persist") /\ UNCHANGED aws
       \/ ~view.deleting /\ aws.map.owner = "other" /\ FailTo("persist") /\ UNCHANGED aws
       \/ /\ ~view.deleting /\ aws.map.owner # "other"
          /\ aws' = [aws EXCEPT !.map = [owner |-> "ours", data |-> buildConnectionData]]
          /\ Done("persist", "persist")
    /\ UNCHANGED <<userVars, store, view, mem, lost>>

-----------------------------------------------------------------------------
(* The end of a pass.                                                      *)

\* What a ledger gets wrong: there is a role of the CR's that it has not got, or
\* the digest is not the policy's.
RoleUnrecorded(ledger) == IF aws.role.tags = "ours" /\ ~ledger.role THEN {"role"} ELSE {}
Differs(ledger) == ledger.role /\ aws.role.policy # ledger.digest

\* What the history keeps from a pass.
Kept(ledger) == IF Differs(ledger) THEN lost \cap {"policy", "stripped"} ELSE {}

RoleKeeping(ledger) == EndPass(ledger, RoleIdleView, NoRoleLedger)

\* The ledger is written, and the finalizer goes with the role.  Garbage
\* collection takes the ConfigMap.
RolePersist ==
    /\ pc = "persist" /\ RoleKeeping(mem)
    /\ lost' = (lost \cap RoleUnrecorded(mem)) \cup Kept(mem)
    /\ IF view.deleting /\ ~err
       THEN cr' = "gone" /\ aws' = [aws EXCEPT !.map = IF @.owner = "ours" THEN NoMap ELSE @]
       ELSE UNCHANGED <<cr, aws>>
    /\ UNCHANGED <<producer, spec, calm>>

\* A pass that dies, or whose status write fails, leaves the ledger behind.
RoleCrash ==
    /\ ~calm /\ pc # "idle" /\ RoleKeeping(store)
    /\ lost' = RoleUnrecorded(store) \cup Kept(store)
                \cup (IF Differs(store) THEN {"policy"} ELSE {})
    /\ UNCHANGED <<userVars, aws>>

\* The checkpoint after the section; its reply replaces the CR.
RoleCheckpoint ==
    /\ pc = "map" /\ ~view.deleting
    /\ store' = mem /\ view' = [view EXCEPT !.spec = spec]
    /\ <<store', view'>> # <<store, view>>
    /\ lost' = lost \ (IF RoleUnrecorded(mem) = {} THEN {"role"} ELSE {})
    /\ UNCHANGED <<userVars, aws, pc, mem, err>>

\* The API server or IAM does not answer.
RoleCallFails ==
    /\ ~calm
    /\ \/ pc \in {"collect", "role", "takeOver", "policy", "trusted"} /\ FailTo("cleanup")
       \/ pc \in {"cleanup", "verify", "deletePolicy", "deleteRole"} /\ FailTo("map")
       \/ pc = "map" /\ FailTo("persist")
    /\ view' = [view EXCEPT !.grants = {}]
    /\ UNCHANGED <<userVars, store, aws, mem, lost>>

-----------------------------------------------------------------------------
(* Everybody else.                                                         *)

\* The role is edited by hand, between passes or after the pass has read it: its
\* policy, its tags, the role itself.
EditRole ==
    /\ ~calm /\ aws.role.exists
    /\ pc \in {"idle", "takeOver", "policy", "trusted", "deletePolicy", "deleteRole"}
    /\ \/ aws' = [aws EXCEPT !.role = Allowing({})] /\ aws' # aws /\ lost' = lost \cup {"policy"}
       \/ /\ aws' = [aws EXCEPT !.role = Retagged("other")] /\ aws' # aws
          /\ lost' = IF pc = "idle" THEN lost ELSE lost \cup {"raced"}
       \/ aws' = [aws EXCEPT !.role = NoRole] /\ lost' = lost \cup {"policy"}
    /\ UNCHANGED <<userVars, store, passVars>>

-----------------------------------------------------------------------------
RolePass == \/ RoleBegin \/ iam_Ensure \/ ensureRole \/ verifyRoleOwnership \/ ensureRolePolicy
            \/ iam_Cleanup \/ verifyRole \/ DeleteRolePolicy \/ DeleteRole \/ ensureConfigMap \/ RolePersist

\* A pass sees an edit when it begins or at its checkpoint, and what the
\* producer shares whenever it asks.
RoleUsers ==
    \/ pc \in {"idle", "cleanup", "map"} /\ EditProducer({Sharing("None", FALSE), Sharing("ReadWrite", TRUE)})
    \/ pc \in {"idle", "map"} /\ (EditSpec(RoleSpecs) \/ DeleteCR(NoRoleSpec))

Publish == (calm \/ pc \in {"idle", "cleanup", "map"}) /\ ProducerPass

RoleNext == RolePass \/ RoleCheckpoint \/ RoleCrash \/ RoleCallFails \/ Publish \/ RoleUsers \/ EditRole

-----------------------------------------------------------------------------
\* A step of the operator that changes the role, its tags or its policy, finds it
\* tagged as the CR's, or as the incarnation it takes over from, unless somebody
\* changed the tags after the pass read them (verifyRoleOwnership, Cleanup).  Inside
\* the trust window, where the tags are not read, a role that somebody else has
\* retagged may still get the policy, and nothing more (Ensure, iam.go:112).
RoleChangesOnlyOwned ==
    pc # pc' /\ aws.role.exists /\ aws'.role # aws.role
        => \/ aws.role.tags = "ours" \/ (aws.role.tags = "previous" /\ pc = "takeOver")
           \/ "raced" \in lost
           \/ pc = "trusted" /\ mem.role /\ aws'.role = Allowing(view.grants)

\* The ledger's digest, which stands for the policy during the trust window, is
\* the policy's, unless a write of the status was lost, the policy was edited by
\* hand, or Cleanup took it off a role it could then not delete.
DigestIsThePolicy ==
    pc = "idle" /\ Differs(store) => lost \cap {"policy", "stripped"} # {}

\* A role outlives its CR only when the ledger lost it (finalize, Cleanup).
FinalizerHoldsRole == cr = "gone" /\ aws.role.tags = "ours" => "role" \in lost

Derived == (IF spec.owns THEN {<<"own", "ReadWrite">>} ELSE {})
               \cup (IF spec.consumes THEN resolveConsume ELSE {})

Connections == (IF spec.owns THEN {"own"} ELSE {})
                   \cup (IF spec.consumes /\ ResolveConsumeARN THEN {"consumed"} ELSE {})

\* The role settles to what the CR owns and what is shared with it, to nothing
\* when that is nothing, and the ConfigMap names exactly that, unless the role is
\* somebody else's or the ledger lost it.
RoleMustSettle ==
    calm /\ pc = "idle" /\ cr = "live" /\ aws.role.tags # "other" /\ "role" \notin lost

RoleSettled == aws.role.policy = Derived /\ (aws.map.owner = "other" \/ aws.map.data = Connections)
=============================================================================
