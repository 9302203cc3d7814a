--------------------------- MODULE MCKeyLifecycle ---------------------------
(* Small instances of KeyLifecycle.                                        *)
EXTENDS KeyLifecycle, TLC

S(key, policy, adopt, from, dat, dataPolicy) ==
    [key |-> key, policy |-> policy, adopt |-> adopt, from |-> from,
     data |-> dat, dataPolicy |-> dataPolicy]

\* The key under Delete with its data, under either policy, and neither.
DataSpecs == {S(TRUE, "Delete", FALSE, NoTag, TRUE, "Delete"), S(TRUE, "Delete", FALSE, NoTag, TRUE, "Retain"),
              S(FALSE, "Delete", FALSE, NoTag, FALSE, "Retain")}
NoForeignTags == {}

\* A key that may be adopted or taken over from the CR's previous incarnation,
\* with data under either policy.
AdoptSpecs == {S(TRUE, "Delete", TRUE, "uid0", TRUE, "Retain"), S(TRUE, "Delete", TRUE, "uid0", TRUE, "Delete")}
SomeForeignTags == {NoTags, [owner |-> CRName, uid |-> "uid0"]}

Symmetry == Permutations(Keys)
=============================================================================
