------------------------------ MODULE MCStores ------------------------------
(* Small instances of Stores.                                              *)
EXTENDS Stores

D1(policy, force, adopt, from, ask) ==
    [policy |-> policy, force |-> force, adopt |-> adopt, from |-> from, ask |-> ask]

\* A resource that is deleted with the CR, or by force when the annotation says
\* so, until its policy is changed, and its protection with it.
EitherPolicy == {D1("Delete", FALSE, FALSE, NoTag, "unset"), D1("Retain", FALSE, FALSE, NoTag, "on")}
NoForeignTags == {}

\* A resource of the CR's previous incarnation, which may be taken over and
\* which somebody else may put back.
Takeover == {D1("Delete", FALSE, FALSE, "uid0", "unset")}
PreviousTags == {[owner |-> CRName, uid |-> "uid0"]}
=============================================================================
