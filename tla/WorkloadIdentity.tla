-------------------------- MODULE WorkloadIdentity --------------------------
(***************************************************************************)
(* Which ServiceAccount may assume the CR's role: the trust policy of the  *)
(* role names one (iam.go), an annotation of the ServiceAccount names the  *)
(* role (internal/resources/serviceaccount), and both follow               *)
(* spec.serviceAccountName.  Another CR in the namespace claims and lets   *)
(* go as well, under the same field manager; people create, delete and     *)
(* consent.  What the role allows is in RoleAccess.                        *)
(***************************************************************************)
EXTENDS ConsumerPass

\* "cr" is the account named after the CR, used when the spec names none; the
\* others are somebody's.
CONSTANT Accounts
None == "none"

\* Whether the CR needs a role, the account it names, and whether it consumes a
\* database, whose network identity is a label of the same account.
IdentityDeclares(needs, target, network) == [needs |-> needs, target |-> target, network |-> network]
NoIdentitySpec == IdentityDeclares(FALSE, "cr", FALSE)
IdentitySpecs ==
    {NoIdentitySpec, IdentityDeclares(TRUE, "cr", TRUE)} \cup {IdentityDeclares(TRUE, t, FALSE) : t \in Accounts}

\* owner: the CR whose name and role the annotations carry.  ref: the CR
\* is its controller owner, for the label's field manager or for the role's only.
NoAccount == [exists |-> FALSE, owner |-> None, ref |-> None, consents |-> FALSE]
AllAccounts == [exists : BOOLEAN, owner : {"ours", "other", None}, ref : {"label", "role", None}, consents : BOOLEAN]
Account(owner, ref, consents) == [exists |-> TRUE, owner |-> owner, ref |-> ref, consents |-> consents]

\* aws: the account the role trusts, and the accounts.
Worlds == [trust : Accounts \cup {None}, sa : [Accounts -> AllAccounts]]

\* store and mem: status.iamRoleARN is set; status.serviceAccountName.
Statuses == [role : BOOLEAN, sa : Accounts \cup {None}]
NoIdentityStatus == [role |-> FALSE, sa |-> None]

IdentityViews == [spec : IdentitySpecs, deleting : BOOLEAN, read : AllAccounts]
IdentityIdleView == [spec |-> NoIdentitySpec, deleting |-> FALSE, read |-> NoAccount]

IdentityTypeOK ==
    /\ PassTypeOK /\ spec \in IdentitySpecs /\ view \in IdentityViews /\ {store, mem} \subseteq Statuses
    /\ aws \in Worlds
    /\ lost \subseteq {"claim", "raced"}

IdentityInit ==
    /\ PassInit /\ spec \in IdentitySpecs /\ view = IdentityIdleView /\ lost = {}
    /\ store = NoIdentityStatus /\ mem = NoIdentityStatus
    /\ \E a \in {NoAccount, Account(None, None, FALSE)} :
         aws = [trust |-> None, sa |-> [n \in Accounts |-> IF n = "cr" THEN a ELSE Account(None, None, TRUE)]]

Target == view.spec.target

\* The account n, and no other, becomes sa.
IdentityBecomes(n, sa) == aws' = [aws EXCEPT !.sa = [@ EXCEPT ![n] = sa]]

-----------------------------------------------------------------------------
IdentityBegin ==
    /\ pc = "idle" /\ cr # "gone"
    /\ view' = [spec |-> spec, deleting |-> cr = "deleting", read |-> NoAccount]
    /\ mem' = store
    /\ GoTo(IF cr = "live" /\ spec.network THEN "label" ELSE "role")
    /\ UNCHANGED <<userVars, store, aws, lost>>

\* claimError: not another CR's, and unless it is this CR's already, its owner
\* consents.  (The account named default, refused in any case, is not among them.)
claimError(sa) == sa.owner = "other" \/ (sa.owner = None /\ ~sa.consents)

\* Only the account named after the CR is ever created.
checkTarget(sa) == IF sa.exists THEN ~claimError(sa) ELSE Target = "cr"

\* An owner reference becomes the label's.
Labelled(sa) ==
    IF sa.exists THEN Account(sa.owner, IF sa.ref = None THEN None ELSE "label", sa.consents)
                 ELSE Account(None, "label", FALSE)

\* The rds section comes first, and may create the account.
EnsureNetworkIdentityLabel ==
    /\ pc = "label"
    /\ \/ /\ checkTarget(aws.sa[Target])
          /\ IdentityBecomes(Target, Labelled(aws.sa[Target]))
          /\ Done("role", "role")
       \/ ~checkTarget(aws.sa[Target]) /\ FailTo("role") /\ UNCHANGED aws
    /\ UNCHANGED <<userVars, store, view, mem, lost>>

\* ensureTrustPolicy: the role trusts the account the spec names, whether or
\* not that account can be claimed.  A role nothing needs is deleted.
ensureTrustPolicy ==
    LET needed == view.spec.needs /\ ~view.deleting
    IN  /\ pc = "role"
        /\ aws' = [aws EXCEPT !.trust = IF needed THEN Target ELSE None]
        /\ \/ mem' = [mem EXCEPT !.role = needed] /\ GoTo("sync")
           \/ ~calm /\ FailTo(IF view.deleting THEN "persist" ELSE "sync") /\ UNCHANGED mem
        /\ UNCHANGED <<userVars, store, view, lost>>

\* syncServiceAccount, and the checks of Ensure.
syncServiceAccount ==
    /\ pc = "sync"
    /\ \/ mem.role /\ checkTarget(aws.sa[Target]) /\ GoTo(IF mem.sa \in {None, Target} THEN "apply" ELSE "release")
       \/ mem.role /\ ~checkTarget(aws.sa[Target]) /\ FailTo("persist")
       \/ ~mem.role /\ GoTo(IF mem.sa = None THEN "persist" ELSE "drop")
    /\ view' = [view EXCEPT !.read = IF mem.role THEN aws.sa[Target] ELSE NoAccount]
    /\ lost' = lost \ {"raced"}
    /\ UNCHANGED <<userVars, store, aws, mem>>

\* Applying without the annotations takes them off, whichever CR's they are:
\* the field manager is the operator's.
Released(sa) == [exists |-> sa.exists, owner |-> None, ref |-> sa.ref, consents |-> sa.consents]

releasePrevious ==
    /\ pc = "release"
    /\ IdentityBecomes(mem.sa, Released(aws.sa[mem.sa]))
    /\ Done("apply", "persist")
    /\ UNCHANGED <<userVars, store, view, mem, lost>>

upToDate(wantOwnerRef) == view.read.owner = "ours" /\ (wantOwnerRef <=> view.read.ref # None)

\* Ensure applies the annotations with force, by what it read.  An owner
\* reference it set before and does not ask for again goes.
serviceaccount_Ensure ==
    LET wantOwnerRef == Target = "cr" /\ (~view.read.exists \/ view.read.owner = "ours")
        ref == CASE aws.sa[Target].ref = "label" -> "label"
                 [] aws.sa[Target].ref # "label" /\ wantOwnerRef -> "role"
                 [] aws.sa[Target].ref # "label" /\ ~wantOwnerRef -> None
    IN  /\ pc = "apply"
        /\ \/ upToDate(wantOwnerRef) /\ GoTo("persist") /\ mem' = [mem EXCEPT !.sa = Target] /\ UNCHANGED aws
           \/ /\ ~upToDate(wantOwnerRef)
              /\ IdentityBecomes(Target, Account("ours", ref, aws.sa[Target].consents))
              /\ \/ GoTo("persist") /\ mem' = [mem EXCEPT !.sa = Target]
                 \/ ~calm /\ FailTo("persist") /\ UNCHANGED mem
        /\ lost' = IF pc' = "persist" /\ mem'.sa # Target THEN lost \cup {"claim"} ELSE lost
        /\ view' = [view EXCEPT !.read = NoAccount]
        /\ UNCHANGED <<userVars, store>>

\* Mutant: the account is forgotten, not released.
CleanupForgetting ==
    /\ pc = "drop" /\ GoTo("persist") /\ mem' = [mem EXCEPT !.sa = None]
    /\ UNCHANGED <<userVars, store, aws, view, lost>>

serviceaccount_Cleanup ==
    /\ pc = "drop"
    /\ IdentityBecomes(mem.sa, Released(aws.sa[mem.sa]))
    /\ \/ GoTo("persist") /\ mem' = [mem EXCEPT !.sa = None]
       \/ ~calm /\ FailTo("persist") /\ UNCHANGED mem
    /\ UNCHANGED <<userVars, store, view, lost>>

-----------------------------------------------------------------------------
Claimed == {n \in Accounts : aws.sa[n].owner = "ours"}

\* An account that carries the CR's role and that the status does not name.
IdentityUnrecorded(status) == IF Claimed \subseteq {status.sa} THEN {} ELSE {"claim"}

IdentityKeeping(status) == EndPass(status, IdentityIdleView, NoIdentityStatus)

\* Garbage collection takes the accounts made for a CR that is gone.
IdentityPersist ==
    /\ pc = "persist" /\ IdentityKeeping(mem)
    /\ lost' = lost \cap IdentityUnrecorded(mem)
    /\ IF view.deleting /\ ~err
       THEN /\ cr' = "gone"
            /\ aws' = [aws EXCEPT !.sa = [n \in Accounts |-> IF aws.sa[n].ref = None THEN aws.sa[n] ELSE NoAccount]]
       ELSE UNCHANGED <<cr, aws>>
    /\ UNCHANGED <<producer, spec, calm>>

IdentityCrash ==
    /\ ~calm /\ pc # "idle" /\ IdentityKeeping(store)
    /\ lost' = IdentityUnrecorded(store)
    /\ UNCHANGED <<userVars, aws>>

\* The API server or IAM does not answer.
IdentityCallFails ==
    /\ ~calm
    /\ \/ pc = "label" /\ FailTo("role")
       \/ pc = "role" /\ FailTo(IF view.deleting THEN "persist" ELSE "sync")
       \/ pc \in {"sync", "release", "apply", "drop"} /\ FailTo("persist")
    /\ view' = [view EXCEPT !.read = NoAccount]
    /\ UNCHANGED <<userVars, store, aws, mem, lost>>

-----------------------------------------------------------------------------
(* Everybody else, between passes or after the pass has read the account.  *)

Raced == IF pc = "idle" THEN lost ELSE lost \cup {"raced"}

\* The other CR claims the account it names too, if it consents, and lets go of it.
OtherCR ==
    /\ ~calm /\ pc \in {"idle", "release", "apply"}
    /\ \E n \in Accounts \ {"cr"} :
         LET sa == aws.sa[n]
         IN  \/ sa.exists /\ sa.owner = None /\ sa.consents /\ IdentityBecomes(n, Account("other", sa.ref, TRUE))
             \/ sa.owner = "other" /\ IdentityBecomes(n, Released(sa))
    /\ lost' = Raced
    /\ UNCHANGED <<userVars, store, passVars>>

\* People consent, or take their consent back; delete accounts, and create them.
EditAccount ==
    /\ ~calm /\ pc \in {"idle", "apply"}
    /\ \E n \in Accounts :
         IF aws.sa[n].exists
         THEN \/ aws.sa[n].owner = None /\ IdentityBecomes(n, Account(None, aws.sa[n].ref, ~aws.sa[n].consents))
              \/ IdentityBecomes(n, NoAccount)
         ELSE IdentityBecomes(n, Account(None, None, FALSE))
    /\ lost' = Raced
    /\ UNCHANGED <<userVars, store, passVars>>

-----------------------------------------------------------------------------
IdentityPass == \/ IdentityBegin \/ EnsureNetworkIdentityLabel \/ ensureTrustPolicy \/ syncServiceAccount
                \/ releasePrevious \/ serviceaccount_Ensure \/ serviceaccount_Cleanup \/ IdentityPersist

IdentityUsers == pc = "idle" /\ (EditSpec(IdentitySpecs) \/ DeleteCR(NoIdentitySpec))

IdentityNext == IdentityPass \/ IdentityCrash \/ IdentityCallFails \/ IdentityUsers \/ OtherCR \/ EditAccount

-----------------------------------------------------------------------------
\* A step of the operator that puts the CR's role on an account that exists finds
\* it to be nobody's and its owner to consent, unless it changed since the pass
\* read it (claimError; what a release takes off is not checked by the code).
IdentityChangesOnlyOwned ==
    \A n \in Accounts :
        aws'.sa[n].owner = "ours" /\ aws.sa[n].owner # "ours" /\ aws.sa[n].exists
            => (aws.sa[n].owner = None /\ aws.sa[n].consents) \/ "raced" \in lost

\* No account carries the role of a CR that is gone, nor does the role trust
\* one, unless the status lost the claim (finalize, Cleanup).
FinalizerHoldsAccount ==
    cr = "gone" => aws.trust = None /\ (Claimed # {} => "claim" \in lost)

\* The identity settles: the account the spec names carries the role and is the
\* one the role trusts, and no other carries it; when no role is needed, none
\* does.  Not when the account cannot be claimed, or the status lost a claim.
IdentityMustSettle ==
    /\ calm /\ pc = "idle" /\ cr = "live" /\ "claim" \notin lost
    /\ spec.needs => LET sa == aws.sa[spec.target]
                     IN  IF sa.exists THEN ~claimError(sa) ELSE spec.target = "cr" /\ ~spec.network

IdentitySettled ==
    IF spec.needs THEN Claimed = {spec.target} /\ aws.trust = spec.target
                  ELSE Claimed = {} /\ aws.trust = None
=============================================================================
