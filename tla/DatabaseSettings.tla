-------------------------- MODULE DatabaseSettings --------------------------
(***************************************************************************)
(* The settings of one RDS instance: reconcileInstanceAttributes and what  *)
(* decides whether they may be reconciled at all, the adoption check and   *)
(* the immutable settings (internal/resources/rds: rds.go, adoption.go,    *)
(* version.go).  AWS keeps the changes that wait for the maintenance       *)
(* window, PendingModifiedValues; an immediate modify applies them too.    *)
(* When the instance is created, tagged for others or gone is in           *)
(* DatabaseLifecycle.                                                      *)
(***************************************************************************)
EXTENDS Integers, Sequences

CONSTANTS
    Wanted,         \* the forms of the spec entry
    Haves,          \* the instances found when the entry is first declared
    EngineVersions  \* the engine versions AWS has

VARIABLES
    wanted,   \* the spec entry
    have,     \* the instance: its settings, its encryption, whether it carries the CR's tags
    due,      \* PendingModifiedValues, a function on some of Deferrable
    tracked,  \* the ledger has its entry
    step,     \* where the running pass is
    seen,     \* what the pass described, once, and whether it adopts the instance
    raced,    \* history: the instance was changed since the pass described it
    agreed    \* history: a pass found or made the settings what the spec asks, and nobody
              \* has changed the spec or the instance since

settingsVars == <<wanted, have, due, tracked, step, seen, raced, agreed>>

Unset == "unset"

AllSettings == {"class", "version", "storage", "retention", "protection", "copyTags", "ceiling", "group"}

\* Class stands for Multi-AZ too.  The others apply at once.
Deferrable == {"class", "version", "storage", "retention"}

defaultBackupRetentionDays == 7

\* A change of settings is a function on some of them: those of f and, besides,
\* those of g; the ones of f in S; a change of one; none.
Over(f, g) == [s \in DOMAIN f \cup DOMAIN g |-> IF s \in DOMAIN f THEN f[s] ELSE g[s]]
On(f, S) == [s \in DOMAIN f \cap S |-> f[s]]
Change(setting, value) == [s \in {setting} |-> value]
NoChange == <<>>

NothingSeen == [set |-> Unset]

\* have.fits: the engine and the subnet group are the spec's.  have.status:
\* "available", "busy" (nothing can be done), or "serving" (backing-up,
\* storage-optimization).
Values(setting) ==
    CASE setting = "class" -> {"s", "l"}
      [] setting = "version" -> EngineVersions
      [] setting \in {"storage", "retention", "ceiling"} -> Nat
      [] setting \in {"protection", "copyTags", "group"} -> BOOLEAN

IsChange(c) ==
    /\ c = [s \in DOMAIN c |-> c[s]]
    /\ DOMAIN c \subseteq AllSettings /\ \A s \in DOMAIN c : c[s] \in Values(s)

IsInstance(i) ==
    /\ i = [set |-> i.set, fits |-> i.fits, encryption |-> i.encryption, mine |-> i.mine, status |-> i.status]
    /\ IsChange(i.set) /\ DOMAIN i.set = AllSettings
    /\ {i.fits, i.mine} \subseteq BOOLEAN /\ i.status \in {"available", "busy", "serving"}

Entries ==
    [class : {"s", "l"}, version : Seq(Nat), storage : Nat, backups : BOOLEAN,
     protection : {Unset, "on", "off"}, ceiling : Nat, adopt : BOOLEAN, allowMajor : BOOLEAN,
     immediate : BOOLEAN, encryption : {Unset, "off", "ref", "enabled"}]

TypeOK ==
    /\ wanted \in Wanted /\ IsInstance(have)
    /\ IsChange(due) /\ DOMAIN due \subseteq Deferrable
    /\ {tracked, raced, agreed} \subseteq BOOLEAN
    /\ \/ step = "idle"
       \/ /\ step = "modify" /\ seen = [set |-> seen.set, due |-> seen.due, adopting |-> seen.adopting]
          /\ IsChange(seen.set) /\ DOMAIN seen.set = AllSettings
          /\ IsChange(seen.due) /\ DOMAIN seen.due \subseteq Deferrable /\ seen.adopting \in BOOLEAN

\* A spec that is new to an instance, or one that created it.
Init ==
    /\ wanted \in Wanted /\ have \in Haves /\ due = NoChange
    /\ have.mine = ~wanted.adopt /\ tracked = have.mine
    /\ step = "idle" /\ seen = NothingSeen
    /\ raced = FALSE /\ agreed = FALSE

-----------------------------------------------------------------------------
(* Versions are sequences of numbers, <<16>> or <<16, 4>>.                 *)

Component(v, i) == IF i <= Len(v) THEN v[i] ELSE 0

\* compareVersions(a, b) < 0: a missing component is zero.
Older(a, b) ==
    \E i \in 1 .. Len(b) :
        Component(a, i) < Component(b, i) /\ \A j \in 1 .. i - 1 : Component(a, j) = Component(b, j)

hasVersionPrefix(v, prefix) == Len(prefix) <= Len(v) /\ \A i \in 1 .. Len(prefix) : v[i] = prefix[i]

\* What AWS lets an instance be upgraded to, and which of it is a major upgrade.
ValidUpgradeTargets(v) == {t \in EngineVersions : Older(v, t)}
IsMajorVersionUpgrade(v, t) == Head(v) # Head(t)

\* The spec's version is a minimum.
engineVersionUpgrade(current, desired) ==
    LET matched == {t \in ValidUpgradeTargets(current) : hasVersionPrefix(t, desired)}
    IN  CASE ~Older(current, desired) -> "none"
          [] Older(current, desired) /\ matched = {} -> "invalid"
          [] Older(current, desired) /\ matched # {} ->
                IF \E t \in matched : IsMajorVersionUpgrade(current, t) THEN "major" ELSE "minor"

-----------------------------------------------------------------------------
\* The settings once every change AWS has accepted lands.
effectiveAttributes(set, pending) == Over(pending, set)

\* Mutant: adopting may grow the storage.
adoptionConflictsIgnoringStorage(i, w) ==
    LET cur == effectiveAttributes(i.set, due)
    IN  ~i.fits \/ cur.class # w.class \/ Older(cur.version, w.version)

\* Settings that cannot be changed, or that the first pass would change.  (A public
\* instance is refused like one of another engine, another MultiAZ like another
\* class.)
adoptionConflicts(i, w) ==
    LET cur == effectiveAttributes(i.set, due)
    IN  \/ ~i.fits \/ cur.class # w.class
        \/ w.storage > cur.storage \/ Older(cur.version, w.version)

\* An instance is encrypted with "none", AWS's "own" key, the "shared" key the
\* spec may refer to, or "another".  A dedicated key is always a new one.
encryptionConflict(encryption, w) ==
    encryption \notin (CASE w.encryption = "enabled" -> {}
                         [] w.encryption = "ref" -> {"shared"}
                         [] w.encryption = "off" -> {"none"}
                         [] w.encryption = Unset -> {"own"})

\* A dedicated key is one the operator made for the instance.
checkImmutableSettings(i, w) ==
    /\ i.fits
    /\ (i.encryption = "none") <=> (w.encryption = "off")
    /\ w.encryption = "ref" => i.encryption = "shared"
    /\ w.encryption = "enabled" => i.encryption = "dedicated"

checkAdoptable(i, w) ==
    w.adopt /\ ~tracked /\ ~i.mine => ~adoptionConflicts(i, w) /\ ~encryptionConflict(i.encryption, w)

-----------------------------------------------------------------------------
(* What the spec changes: functions on the settings they change.           *)

reconcileSizing(cur, w) == IF cur.class # w.class THEN Change("class", w.class) ELSE NoChange

\* Mutant: retention is what the spec says, no longer at least that.
reconcileBackupRetentionExactly(cur, w) ==
    LET desired == IF w.backups THEN defaultBackupRetentionDays ELSE 0
    IN  IF cur.retention # desired THEN Change("retention", desired) ELSE NoChange

\* Raised only: lowering it deletes backups.
reconcileBackupRetention(cur, w) ==
    IF w.backups /\ cur.retention < defaultBackupRetentionDays
    THEN Change("retention", defaultBackupRetentionDays) ELSE NoChange

\* Grown only.
reconcileStorage(cur, w) == IF w.storage > cur.storage THEN Change("storage", w.storage) ELSE NoChange

upgradeOf(cur, w) == engineVersionUpgrade(cur.version, w.version)

VersionRefused(cur, w) ==
    upgradeOf(cur, w) = "invalid" \/ (upgradeOf(cur, w) = "major" /\ ~w.allowMajor)

reconcileEngineVersion(cur, w) ==
    IF upgradeOf(cur, w) \in {"minor", "major"} THEN Change("version", w.version) ELSE NoChange

\* The operator's group, added to the others' when it is missing.
withSecurityGroup(set) == IF set.group THEN NoChange ELSE Change("group", TRUE)

\* On by default, but an adopted instance keeps its own.
reconcileDeletionProtection(set, w) ==
    LET on == w.protection = Unset \/ w.protection = "on"
    IN  IF (w.adopt /\ w.protection = Unset) \/ set.protection = on
        THEN NoChange ELSE Change("protection", on)

reconcileCopyTags(set, w) == IF w.adopt \/ set.copyTags THEN NoChange ELSE Change("copyTags", TRUE)

reconcileAutoscaling(set, w) ==
    IF w.ceiling = 0 \/ set.ceiling = w.ceiling THEN NoChange ELSE Change("ceiling", w.ceiling)

\* Mutant: a change that waits already is asked for again.
reconcileInstanceAttributesRepeating(i, w) ==
    Over(Over(reconcileSizing(i.set, w), reconcileBackupRetention(i.set, w)),
         Over(Over(reconcileStorage(i.set, w), reconcileEngineVersion(i.set, w)), withSecurityGroup(i.set)))

\* The modify request, made of what the pass described.
reconcileInstanceAttributes(i, w) ==
    LET cur == effectiveAttributes(i.set, i.due)
    IN  Over(Over(Over(reconcileSizing(cur, w), reconcileBackupRetention(cur, w)),
                  Over(reconcileStorage(cur, w), reconcileEngineVersion(cur, w))),
             Over(Over(withSecurityGroup(i.set), reconcileDeletionProtection(i.set, w)),
                  Over(reconcileCopyTags(i.set, w), reconcileAutoscaling(i.set, w))))

\* Mutant: storage growth goes at once whatever else waits.
immediateWithStorage(i, w, request) == w.immediate \/ "storage" \in DOMAIN request

\* sendModify: at once when the spec says so, or when storage growth would drag
\* nothing else along.
immediate(i, w, request) ==
    w.immediate \/ (DOMAIN request \cap Deferrable = {"storage"} /\ i.due = NoChange)

-----------------------------------------------------------------------------
(* The pass.                                                               *)

End == step' = "idle" /\ seen' = NothingSeen /\ raced' = FALSE

\* recordVerified, and the status write, which may be lost.
recordVerified == End /\ (tracked' = TRUE \/ UNCHANGED tracked)

Refused == End /\ UNCHANGED tracked

\* ensureInstanceObserving up to the modify call.  One description serves the
\* whole pass (describeDBInstanceCached).
ensureInstanceObserving ==
    LET i == [set |-> have.set, due |-> due, adopting |-> ~have.mine]
    IN  /\ step = "idle"
        /\ IF ~checkAdoptable(have, wanted) \/ (~have.mine /\ ~wanted.adopt)
           THEN Refused /\ UNCHANGED have
           ELSE /\ have' = [have EXCEPT !.mine = TRUE]
                /\ CASE (tracked /\ ~checkImmutableSettings(have, wanted)) \/ have.status = "busy" -> Refused
                     [] have.status = "serving" -> recordVerified
                     [] OTHER -> step' = "modify" /\ seen' = i /\ UNCHANGED <<tracked, raced>>
        /\ UNCHANGED <<wanted, due, agreed>>

\* What ModifyDBInstance does.  Storage cannot shrink, nor a version go back.
Accepts(request) ==
    /\ have.status = "available"
    /\ "storage" \in DOMAIN request => request.storage > have.set.storage
    /\ "version" \in DOMAIN request => \E t \in ValidUpgradeTargets(have.set.version) : hasVersionPrefix(t, request.version)

Newest(versions) == CHOOSE v \in versions : \A o \in versions : ~Older(v, o)

Resolved(request) ==
    [s \in DOMAIN request |->
        IF s # "version" THEN request[s]
        ELSE Newest({t \in ValidUpgradeTargets(have.set.version) : hasVersionPrefix(t, request.version)})]

Modified(request, now) ==
    LET r == Resolved(request)
        waiting == Over(On(r, Deferrable), due)
        atOnce == On(r, DOMAIN r \ Deferrable)
        applied == IF now THEN Over(waiting, atOnce) ELSE atOnce
    IN  /\ have' = [have EXCEPT !.set = Over(applied, @),
                                !.status = IF now /\ waiting # NoChange THEN "busy" ELSE @]
        /\ due' = IF now THEN NoChange ELSE On(waiting, {s \in DOMAIN waiting : waiting[s] # have.set[s]})

\* reconcileInstanceAttributes and sendModify: a version that is refused holds
\* up every other change.
ModifyDBInstance ==
    LET cur == effectiveAttributes(seen.set, seen.due)
        request == reconcileInstanceAttributes(seen, wanted)
    IN  /\ step = "modify"
        /\ \/ VersionRefused(cur, wanted) /\ Refused /\ UNCHANGED <<have, due, agreed>>
           \/ /\ ~VersionRefused(cur, wanted) /\ request = NoChange
              /\ recordVerified /\ agreed' = ~raced /\ UNCHANGED <<have, due>>
           \/ /\ ~VersionRefused(cur, wanted) /\ request # NoChange
              /\ IF Accepts(request)
                 THEN /\ Modified(request, immediate(seen, wanted, request))
                      /\ agreed' = ~raced
                      /\ recordVerified
                 ELSE Refused /\ UNCHANGED <<have, due, agreed>>
        /\ UNCHANGED wanted

Pass == ensureInstanceObserving \/ ModifyDBInstance

Fails ==
    /\ step # "idle" /\ End
    /\ UNCHANGED <<wanted, have, due, tracked, agreed>>

-----------------------------------------------------------------------------
(* AWS and people.                                                         *)

MaintenanceWindow ==
    /\ due # NoChange /\ have.status = "available"
    /\ have' = [have EXCEPT !.set = Over(due, @), !.status = "busy"]
    /\ due' = NoChange /\ raced' = (step # "idle")
    /\ UNCHANGED <<wanted, tracked, step, seen, agreed>>

Settle ==
    /\ have.status # "available" /\ step = "idle"
    /\ \/ have' = [have EXCEPT !.status = "available"]
       \/ have.status = "busy" /\ have' = [have EXCEPT !.status = "serving"]
    /\ UNCHANGED <<wanted, due, tracked, step, seen, raced, agreed>>

\* Storage that grows on its own, up to the ceiling.
Autoscale ==
    /\ have.set.storage < have.set.ceiling
    /\ have' = [have EXCEPT !.set = Over(Change("storage", have.set.storage + 1), @)]
    /\ due' = On(due, {s \in DOMAIN due : s # "storage" \/ due[s] > have'.set.storage})
    /\ raced' = (step # "idle")
    /\ UNCHANGED <<wanted, tracked, step, seen, agreed>>

\* Somebody changes the instance in AWS, at once or for the next window.
Drift ==
    /\ have.status = "available"
    /\ \/ /\ \E change \in {Change("retention", 14), Change("retention", 0),
                            [s \in {"protection", "copyTags", "group"} |-> FALSE]} :
                have' = [have EXCEPT !.set = Over(change, @)]
          /\ UNCHANGED due
       \/ due' = Over(Change("class", IF have.set.class = "s" THEN "l" ELSE "s"), due) /\ UNCHANGED have
    /\ agreed' = FALSE /\ raced' = (step # "idle")
    /\ UNCHANGED <<wanted, tracked, step, seen>>

\* The CRD keeps the encryption of an entry as it is, but not when the entry is
\* removed and added back.
EditEntry ==
    /\ step = "idle"
    /\ wanted' \in {w \in Wanted : w.adopt = wanted.adopt} \ {wanted}
    /\ agreed' = FALSE
    /\ UNCHANGED <<have, due, tracked, step, seen, raced>>

Next == Pass \/ Fails \/ MaintenanceWindow \/ Settle \/ Autoscale \/ Drift \/ EditEntry

-----------------------------------------------------------------------------
Modifying == step = "modify" /\ <<have, due>>' # <<have, due>> /\ step' # "modify"

\* A disruptive change takes effect outside the maintenance window only when the
\* spec asks for that, unless it was made to wait since the pass described the
\* instance (sendModify).
NothingDraggedEarly ==
    Modifying /\ ~raced =>
          \A s \in {"class", "version"} : have'.set[s] # have.set[s] => wanted.immediate

\* The operator never takes anything away: storage, backups or version that the
\* instance has or is about to have, or a deletion protection that the spec does
\* not turn off; unless the instance was changed since the pass described it
\* (reconcileStorage, reconcileBackupRetention, reconcileEngineVersion,
\* reconcileDeletionProtection).
NeverWeaker ==
    Modifying /\ ~raced =>
          LET was == effectiveAttributes(have.set, due)
              is  == effectiveAttributes(have'.set, due')
          IN  /\ is.storage >= was.storage /\ is.retention >= was.retention /\ ~Older(is.version, was.version)
              /\ was.protection /\ ~is.protection => wanted.protection = "off"

\* The pass that adopts an instance neither resizes nor upgrades it, nor makes
\* it copy tags (checkAdoptable).
AdoptionResizesNothing ==
    Modifying /\ ~raced /\ seen.adopting =>
          \A s \in {"class", "version", "storage", "copyTags"} :
              effectiveAttributes(have'.set, due')[s] = effectiveAttributes(have.set, due)[s]

\* Once a pass got its changes accepted no later one asks for any, however long
\* they wait for their window (effectiveAttributes).
ModifyIsNotRepeated == Modifying => ~agreed

\* What a pass that ended well leaves, once the changes that wait have landed,
\* is at least what the spec asks for.
AgreedMeansMet ==
    agreed => LET is == effectiveAttributes(have.set, due)
              IN  /\ is.class = wanted.class /\ is.storage >= wanted.storage /\ is.group
                  /\ ~Older(is.version, wanted.version)
                  /\ wanted.backups => is.retention >= defaultBackupRetentionDays
                  /\ wanted.protection # Unset => is.protection = (wanted.protection = "on")
                  /\ wanted.ceiling # 0 => is.ceiling = wanted.ceiling
=============================================================================
