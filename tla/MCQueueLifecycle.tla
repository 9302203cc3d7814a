-------------------------- MODULE MCQueueLifecycle --------------------------
(* Small instances of QueueLifecycle.                                      *)
EXTENDS QueueLifecycle

D(policy, force, adopt, from) ==
    [policy |-> policy, force |-> force, adopt |-> adopt, from |-> from]

Other == [owner |-> "other", uid |-> "uid2"]
Stale == [owner |-> CRName, uid |-> "uid0"]

\* Deletion: policy Delete with and without force, and nobody else's tags.
DeleteDeclarations == {D("Delete", FALSE, FALSE, NoTag), D("Delete", TRUE, FALSE, NoTag)}
NoForeignTags == {}

\* Ownership: a retained queue that may be adopted or taken over from the
\* CR's previous incarnation, and queues tagged as nobody's, another CR's, and
\* that incarnation's.
OwnershipDeclarations == {D("Retain", FALSE, TRUE, "uid0"), D("Delete", FALSE, FALSE, NoTag)}
LiveDeclarations == {D("Delete", FALSE, FALSE, NoTag)}
SomeForeignTags == {NoTags, Other, Stale}
=============================================================================
