--------------------------- MODULE TableLifecycle ---------------------------
(***************************************************************************)
(* The life of one DynamoDB table: internal/resources/dynamodb.  A table   *)
(* takes time to be created, changed and deleted, and while it does it     *)
(* refuses other changes.  One that disappears is never replaced by an     *)
(* empty one.  The setting followed is deletion protection.                *)
(*                                                                         *)
(* The entry of a table being created has no LastVerifiedAt; its field     *)
(* holds the age of CreatedAt, which nothing here compares.                *)
(***************************************************************************)
EXTENDS GatedPass

VARIABLE missing    \* history: a recorded, declared table was deleted by somebody else

TableEnsureSteps  == {"ensure", "create", "tags", "adopt", "trusted", "attributes"}
TableCleanupSteps == {"restore", "undeny", "release", "untag", "verify", "deny", "empty", "unprotect", "delete"}

TableTypeOK ==
    /\ PassTypeOK({"items"})
    /\ pc \in {"idle", "cleanup", "persist"} \cup TableEnsureSteps \cup TableCleanupSteps
    /\ missing \in BOOLEAN

TableInit == PassInit /\ missing = FALSE

dynamodb_Ensure == KeyNotReady

\* Mutant: a table the ledger knows is created again when it is gone.
ensureTableRecreating ==
    /\ pc = "ensure" /\ UNCHANGED mem
    /\ \/ ~resource.exists /\ GoTo("create")
       \/ resource.exists /\ resource.status = "Active" /\ GoTo("tags")
    /\ UNCHANGED <<userVars, store, resource, view, forgotten, raced>>

\* DescribeTable.  A table the ledger knows and DynamoDB does not is reported,
\* not replaced; one that is not ACTIVE is waited for.
ensureTable ==
    /\ pc = "ensure"
    /\ \/ /\ ~resource.exists /\ UNCHANGED mem
          /\ IF mem.state \in {"None", "Relinquished"} THEN GoTo("create") ELSE FailTo("cleanup")
       \/ resource.exists /\ resource.status # "Active" /\ FailTo("cleanup") /\ UNCHANGED mem
       \/ /\ resource.exists /\ resource.status = "Active"
          /\ IF NeedsRevalidation(mem)
             THEN GoTo("tags") /\ UNCHANGED mem
             ELSE /\ mem' = [mem EXCEPT !.policy = view.spec.policy, !.force = view.spec.force]
                  /\ GoTo("trusted")
    /\ UNCHANGED <<userVars, store, resource, view, forgotten, raced>>

\* A new table is tagged and, unless told otherwise, protected; the entry says
\* Creating until a later pass finds it ACTIVE.
createTable ==
    /\ pc = "create"
    /\ IF resource.exists
       THEN FailTo("cleanup") /\ UNCHANGED <<resource, mem, forgotten>>
       ELSE /\ resource' = NewResource(ownerTags, IF view.spec.ask = "off" THEN "off" ELSE "on", "Creating")
            /\ forgotten' = forgotten \cup {"lift", "claim"}
            /\ \/ /\ GoTo("cleanup")
                  /\ mem' = [VerifiedEntry(view.spec.policy, view.spec.force) EXCEPT !.state = "Creating"]
               \/ ~calm /\ FailTo("cleanup") /\ UNCHANGED mem
    /\ UNCHANGED <<userVars, store, view, raced>>

readTags == pc = "tags" /\ JudgeTags("attributes")

adoptTable == pc = "adopt" /\ TagAsOwned("attributes")

\* reconcileTableAttributes: an explicit ask is put in force, by a change that
\* keeps the table UPDATING for a while; then a full check is recorded.
reconcileTableAttributes ==
    /\ pc \in {"trusted", "attributes"}
    /\ LET change == view.spec.ask # "unset" /\ view.spec.ask # resource.setting
       IN  IF resource.exists /\ (change => resource.status = "Active")
           THEN /\ resource' = IF change THEN [resource EXCEPT !.setting = view.spec.ask, !.status = "Updating"]
                                         ELSE resource
                /\ \/ /\ GoTo("cleanup")
                      /\ mem' = IF pc = "trusted" THEN mem ELSE VerifiedEntry(view.spec.policy, view.spec.force)
                   \/ ~calm /\ FailTo("cleanup") /\ UNCHANGED mem
           ELSE FailTo("cleanup") /\ UNCHANGED <<resource, mem>>
    /\ UNCHANGED <<userVars, store, view, forgotten, raced>>

\* retain lifts the deny of a table that was waiting before anything else.
dynamodb_Cleanup == CleanupSwitch(IF mem.pending = Never THEN "release" ELSE "undeny")

\* A table that is gone has no deny to remove: that is not an error.
dynamodb_restoreDeclared == pc = "restore" /\ LiftDeny([mem EXCEPT !.pending = Never, !.checked = Never], FALSE)

dynamodb_removePendingDeletionDeny ==
    /\ pc = "undeny"
    /\ resource' = [resource EXCEPT !.deny = Never] /\ forgotten' = forgotten \cup {"lift"}
    /\ Done("release", "persist")
    /\ UNCHANGED <<userVars, store, view, mem, raced>>

dynamodb_retain == RetainLookup

dynamodb_relinquishIfStillTagged ==
    /\ pc = "untag"
    /\ IF resource.exists
       THEN /\ resource' = [resource EXCEPT !.tags = NoTags]
            /\ \/ GoTo("persist") /\ mem' = LetGo
               \/ ~calm /\ FailTo("persist") /\ UNCHANGED mem
       ELSE FailTo("persist") /\ UNCHANGED <<resource, mem>>
    /\ UNCHANGED <<userVars, store, view, forgotten, raced>>

dynamodb_verifyOwned == VerifyThen("unprotect")

dynamodb_addPendingDeletionDeny == DenyThenMark

\* A strongly consistent count.
tableIsEmpty == resource.data = {}

dynamodb_gateOnEmpty == GateOn(tableIsEmpty, "unprotect")

\* Mutant: protection is left on.
releaseDeletionProtectionSkipped ==
    /\ pc = "unprotect" /\ GoTo("delete")
    /\ UNCHANGED <<userVars, store, resource, view, mem, forgotten, raced>>

\* releaseDeletionProtection: protection is switched off just before the
\* delete, and the table is UPDATING for a while after.
releaseDeletionProtection ==
    /\ pc = "unprotect"
    /\ IF ~resource.exists \/ resource.setting = "off"
       THEN GoTo("delete") /\ UNCHANGED resource
       ELSE IF resource.status = "Active"
            THEN /\ resource' = [resource EXCEPT !.setting = "off", !.status = "Updating"]
                 /\ Done("delete", "persist")
            ELSE FailTo("persist") /\ UNCHANGED resource
    /\ UNCHANGED <<userVars, store, view, mem, forgotten, raced>>

\* DeleteTable refuses a table that is changing or protected; a table that is
\* gone counts as deleted.
deleteTable ==
    /\ pc = "delete"
    /\ IF ~resource.exists \/ (resource.status = "Active" /\ resource.setting = "off")
       THEN /\ resource' = IF resource.exists THEN [resource EXCEPT !.status = "Deleting", !.data = {}] ELSE resource
            /\ \/ GoTo("persist") /\ mem' = NoEntry
               \/ ~calm /\ FailTo("persist") /\ UNCHANGED mem
       ELSE FailTo("persist") /\ UNCHANGED <<resource, mem>>
    /\ UNCHANGED <<userVars, store, view, forgotten, raced>>

\* DynamoDB finishes what it is doing.
TableSettles ==
    /\ resource.status # "Active"
    /\ Outside(IF resource.status = "Deleting" THEN NoResource ELSE [resource EXCEPT !.status = "Active"])
    /\ UNCHANGED raced

PutItem == Writable /\ resource.status \in {"Active", "Updating"} /\ Outside([resource EXCEPT !.data = {"items"}]) /\ UNCHANGED raced

DeleteItems == resource.data # {} /\ Outside([resource EXCEPT !.data = {}]) /\ UNCHANGED raced

\* Somebody deletes the table, having turned its protection off to be able to.
TableOutsideDelete == OutsideDelete /\ resource.setting = "off" /\ resource.status = "Active"

OutsideUnprotect ==
    /\ ~calm /\ resource.exists /\ resource.setting = "on" /\ resource.status = "Active"
    /\ Outside([resource EXCEPT !.setting = "off"]) /\ UNCHANGED raced

TablePass ==
    \/ Begin \/ ensureTable \/ createTable \/ readTags \/ adoptTable \/ reconcileTableAttributes
    \/ dynamodb_Cleanup \/ dynamodb_restoreDeclared \/ dynamodb_removePendingDeletionDeny
    \/ dynamodb_retain \/ dynamodb_relinquishIfStillTagged \/ dynamodb_verifyOwned
    \/ dynamodb_addPendingDeletionDeny \/ dynamodb_gateOnEmpty
    \/ releaseDeletionProtection \/ deleteTable \/ Persist

\* Undeclaring a table, or restoring one under its name, ends its loss.
RecordLoss ==
    missing' = IF resource.exists /\ ~resource'.exists /\ resource.status = "Active"
               THEN /\ spec.declared /\ cr = "live" /\ (pc = "idle" \/ StillDeclared)
                    /\ store.state = "Verified" /\ IsOwnedBy(resource.tags)
               ELSE /\ missing /\ spec'.declared /\ cr' = "live"
                    /\ resource'.exists => IsOwnedBy(resource'.tags)

TableNext ==
    \/ TablePass \/ Others \/ dynamodb_Ensure \/ CallFails(TableEnsureSteps, TableCleanupSteps)
    \/ TableSettles \/ PutItem \/ DeleteItems \/ TableOutsideDelete \/ OutsideUnprotect
=============================================================================
