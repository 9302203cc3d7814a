----------------------------- MODULE Ownership -----------------------------
(***************************************************************************)
(* The ownership rules of internal/aws/ownership.go.  A resource carries   *)
(* two tags: the owner ("<namespace>/<name>" of a CR) and the UID of the   *)
(* incarnation of that CR.  Either may be absent.  A name alone is never   *)
(* ownership, and a resource of another CR, or of an earlier incarnation   *)
(* of this one, is refused unless the CR was told to take it over.         *)
(***************************************************************************)
EXTENDS Naturals

CONSTANTS
    CRName,      \* "<namespace>/<name>" of the CR the operator reconciles
    CRUID,       \* its UID
    OtherNames,  \* the names of the other CRs of the account
    OtherUIDs    \* the UIDs of other CRs and of earlier incarnations

NoTag == "absent"

ASSUME OwnershipAssumption ==
    /\ CRName \notin OtherNames \cup {NoTag}
    /\ CRUID \notin OtherUIDs \cup {NoTag}
    /\ NoTag \notin OtherNames \cup OtherUIDs

Tags == [owner : {CRName, NoTag} \cup OtherNames,
         uid   : {CRUID, NoTag} \cup OtherUIDs]

\* What the operator writes when it creates or adopts.
ownerTags == [owner |-> CRName, uid |-> CRUID]

\* What is left once both owner tags are removed.
NoTags == [owner |-> NoTag, uid |-> NoTag]

IsOwnedBy(tags) == tags = ownerTags

IsStaleUID(tags) == tags.owner = CRName /\ tags.uid \notin {NoTag, CRUID}

\* from is the UID in the adopt-from-uid annotation, or NoTag.
MayTransferFrom(from, staleUID) == from # NoTag /\ from = staleUID

\* TRUE when a resource that exists and is not this incarnation's may be
\* tagged as its own; FALSE is one of the three refusals.
CheckExistingOwnership(tags, adopt, from) ==
    /\ tags.owner \in {CRName, NoTag}
    /\ IF IsStaleUID(tags) THEN MayTransferFrom(from, tags.uid) ELSE adopt
=============================================================================
