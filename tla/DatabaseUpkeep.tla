--------------------------- MODULE DatabaseUpkeep ---------------------------
(***************************************************************************)
(* What a pass keeps right about an instance that exists: who reaches it   *)
(* (NetworkAccess) and its settings (DatabaseSettings).  ensureResource    *)
(* does the one before the other and they share nothing but the pass, so   *)
(* a behaviour is about one of them, and the other part is at rest.        *)
(***************************************************************************)
EXTENDS NetworkAccess, Sequences

CONSTANTS
    Wanted, Haves, EngineVersions   \* of DatabaseSettings

VARIABLES
    part,   \* "network" or "settings"
    wanted, have, due, tracked, step, seen, raced, agreed   \* of DatabaseSettings

DS == INSTANCE DatabaseSettings

\* AWS has finitely many versions, so some of them have a newest one.
ASSUME SettingsAssumption ==
    /\ Wanted \subseteq DS!Entries /\ \A h \in Haves : DS!IsInstance(h)
    /\ EngineVersions \subseteq Seq(Nat)
    /\ \A some \in SUBSET EngineVersions : some # {} => \E v \in some : \A o \in some : ~DS!Older(v, o)

settingsVars == <<wanted, have, due, tracked, step, seen, raced, agreed>>
upkeepVars   == <<vars, settingsVars, part>>

UpkeepTypeOK == TypeOK /\ DS!TypeOK

AtRest ==
    /\ wanted = CHOOSE w \in Wanted : TRUE
    /\ have = CHOOSE h \in Haves : TRUE
    /\ due = DS!NoChange /\ tracked = FALSE /\ step = "idle" /\ seen = DS!NothingSeen
    /\ raced = FALSE /\ agreed = FALSE

UpkeepInit ==
    \/ part = "network" /\ Init /\ AtRest
    \/ /\ part = "settings" /\ DS!Init
       /\ Init /\ spec = [p \in Owners |-> NoSpec] /\ want = [c \in Consumers |-> [refs |-> {}, cr |-> "live"]]

Network(Action) == part = "network" /\ Action /\ UNCHANGED <<settingsVars, part>>

Setting(Action) == part = "settings" /\ Action /\ UNCHANGED <<vars, part>>

UpkeepSpec ==
    /\ UpkeepInit
    /\ [][Network(Next \/ Calm) \/ Setting(DS!Next)]_upkeepVars
    /\ \A p \in Owners : WF_upkeepVars(Network(OwnerPass(p)))
    /\ \A c \in Consumers : WF_upkeepVars(Network(ConsumerPass(c))) /\ WF_upkeepVars(Network(PodStops(c)))

-----------------------------------------------------------------------------
(* The properties of DatabaseSettings.                                     *)

\* A disruptive change takes effect outside the maintenance window only when the
\* spec asks for that (sendModify).
NothingDraggedEarly == [][DS!NothingDraggedEarly]_upkeepVars

\* The operator takes nothing away from an instance (reconcileStorage,
\* reconcileBackupRetention, reconcileDeletionProtection and the others).
NeverWeaker == [][DS!NeverWeaker]_upkeepVars

\* The pass that adopts an instance neither resizes nor upgrades it
\* (checkAdoptable).
AdoptionResizesNothing == [][DS!AdoptionResizesNothing]_upkeepVars

\* A pass that ended well leaves what the spec asks for, present or waiting, and
\* no later one asks for it again (reconcileInstanceAttributes, effectiveAttributes).
AgreementLasts == [][DS!AgreedMeansMet' /\ DS!ModifyIsNotRepeated]_upkeepVars
=============================================================================
