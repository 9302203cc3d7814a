----------------------------- MODULE MCDatabase -----------------------------
(* Instances of DatabaseLifecycle for TLC. *)
EXTENDS DatabaseLifecycle

Untagged == {NoTags}
NoForeignTags == {}

D(policy, adopt) == [policy |-> policy, adopt |-> adopt, from |-> NoTag]

DeleteOrAdopt == {D("Delete", TRUE)}
=============================================================================
