------------------------------ MODULE MCUpkeep ------------------------------
(* A small instance of NetworkAccess and one of DatabaseSettings.          *)
EXTENDS DatabaseUpkeep

\* Shared, no longer shared while an administrator withdraws the grant, and
\* removed from the spec.
F(declared, shared, granted) == [declared |-> declared, shared |-> shared, granted |-> granted]
SharedOrNot == {F(TRUE, Consumers, TRUE), F(TRUE, {}, FALSE), F(FALSE, {}, FALSE)}

OneVpc == [p \in Owners |-> 1]

-----------------------------------------------------------------------------
Smallest == [class |-> "s", version |-> <<16>>, storage |-> 1, backups |-> TRUE, protection |-> "unset",
             ceiling |-> 0, adopt |-> FALSE, allowMajor |-> FALSE, immediate |-> FALSE, encryption |-> "unset"]

Adopted == [Smallest EXCEPT !.adopt = TRUE, !.encryption = "off"]

\* A larger class with backups and protection off; a growth with a minor
\* upgrade; everything at once, a major upgrade included; one that is not
\* allowed; and for an instance that exists, what it has, more, or another key.
MCWanted ==
    {Smallest, Adopted,
     [Smallest EXCEPT !.class = "l", !.backups = FALSE, !.protection = "off", !.ceiling = 2],
     [Smallest EXCEPT !.version = <<16, 4>>, !.storage = 2],
     [Smallest EXCEPT !.class = "l", !.version = <<17>>, !.storage = 2, !.allowMajor = TRUE, !.immediate = TRUE],
     [Smallest EXCEPT !.version = <<17>>],
     [Adopted EXCEPT !.storage = 2, !.ceiling = 2],
     [Adopted EXCEPT !.version = <<16, 4>>, !.encryption = "ref"], [Adopted EXCEPT !.encryption = "enabled"]}

AsCreated == [class |-> "s", version |-> <<16, 3>>, storage |-> 1, retention |-> 7,
              protection |-> TRUE, copyTags |-> TRUE, ceiling |-> 0, group |-> TRUE]

AsFound == [AsCreated EXCEPT !.retention = 0, !.protection = FALSE, !.copyTags = FALSE, !.group = FALSE]

Found(set, fits, encryption, mine) ==
    [set |-> set, fits |-> fits, encryption |-> encryption, mine |-> mine, status |-> "available"]

MCHaves == {Found(AsCreated, TRUE, "own", TRUE), Found(AsFound, TRUE, "none", FALSE),
            Found(AsFound, TRUE, "shared", FALSE), Found(AsFound, FALSE, "none", FALSE)}

MCVersions == {<<16, 3>>, <<16, 4>>, <<17, 1>>}
=============================================================================
