--------------------------- MODULE DatabaseProofs ---------------------------
(***************************************************************************)
(* What holds of DatabaseLifecycle for every declaration, every set of     *)
(* foreign tags, every set of snapshot names and every length of the       *)
(* timers.  The inductive invariant has four parts: where the pass can be  *)
(* (Control), what the ledgers know of the snapshots (Snapshots), what is  *)
(* known of a lost instance (Missing), and of the CR's own (Claims).       *)
(***************************************************************************)
EXTENDS DatabaseLifecycle, TLAPS

Mem == pc # "idle"

Owned == instance.exists /\ IsOwnedBy(instance.tags)

\* The steps of a pass that has seen the instance is not declared.
Undeclaring == {"release", "untag", "verify", "snapshot", "createSnapshot"}

\* What the place of the pass says about its view and its copy of the ledger.
Control ==
    /\ pc \in EnsureSteps => view.declared
    /\ pc \in Undeclaring => ~view.declared
    /\ Mem /\ view.deleting => ~view.declared /\ cr # "live"
    /\ cr = "gone" => pc = "idle"
    /\ pc = "create" => ~Tracked(mem.inst)
    /\ pc \in {"verify", "snapshot", "createSnapshot"} => mem.inst.state # "None" /\ mem.inst.policy = "Delete"
    /\ pc \in {"retire", "deleteSnapshot"} /\ ~view.declared => mem.inst.state # "None" /\ mem.inst.policy = "Delete"
    /\ pc \in {"snapshot", "createSnapshot"} => mem.inst.episode # NoEpisode
    /\ pc = "createSnapshot" => mem.snap.id = NoEpisode
    /\ pc = "deleteSnapshot" => mem.snap.id # NoEpisode

\* A snapshot of the pending episode is created only when the ledger has none.
Sole(ledger) ==
    ledger.inst.episode # NoEpisode /\ ledger.snap.id # NoEpisode /\ snapshots[ledger.inst.episode] # "none"
        => ledger.inst.episode = ledger.snap.id

\* What SnapshotsAreKnown says of a ledger.
Knows(ledger) ==
    /\ \A e \in Episodes :
          snapshots[e] \in {"creating", "available"} => e \in {ledger.snap.id} \cup unrecorded
    /\ ledger.snap.state = "Verified" /\ ledger.snap.id \notin unrecorded \cup removed
          => snapshots[ledger.snap.id] # "none"

Used(e) == snapshots[e] # "none" \/ e = mem.snap.id

\* Up to the point where a fresh episode may be asked for, one name at most is used.
Snapshots ==
    /\ pc = "idle" => Knows(store)
    /\ Mem => Knows(mem)
    /\ Sole(store)
    /\ Mem => Sole(mem)
    /\ pc \in EnsureSteps \cup Undeclaring \cup {"cleanup"} => mem.snap = store.snap
    /\ pc \in {"cleanup", "verify"} /\ ~view.declared => mem.inst.episode = store.inst.episode
    /\ pc \in EnsureSteps \cup {"cleanup", "verify"} => \A e, f \in Episodes : Used(e) /\ Used(f) => e = f

Missing ==
    /\ Mem /\ view.declared /\ Tracked(store.inst) => Tracked(mem.inst)
    /\ lost => /\ ~instance.exists /\ spec.declared /\ cr = "live" /\ Tracked(store.inst)
               /\ Mem => view.declared /\ Tracked(mem.inst)

Claims ==
    /\ Owned /\ ~Tracked(store.inst) => Claim \in unrecorded
    /\ Mem /\ Owned /\ ~Tracked(mem.inst) => ~Tracked(store.inst)
    /\ pc \in {"orphans", "persist"} /\ view.deleting /\ ~err /\ Owned /\ mem.inst.policy = "Retain"
          => ~Tracked(mem.inst)
    /\ cr = "gone" /\ Owned => Claim \in unrecorded

DatabaseInv == TypeOK /\ Control /\ Snapshots /\ Missing /\ Claims

-----------------------------------------------------------------------------
(* Tags, entries and ledgers.                                              *)

\* What the operator writes is the CR's; what it leaves, or somebody else writes, is not.
LEMMA TagFacts ==
    /\ ownerTags \in Tags /\ NoTags \in Tags
    /\ IsOwnedBy(ownerTags) /\ ~IsOwnedBy(NoTags)
    /\ \A t \in ForeignTags : t \in Tags /\ ~IsOwnedBy(t)
BY OwnershipAssumption, EpisodesAssumption DEF ownerTags, NoTags, NoTag, Tags, IsOwnedBy

\* The fields of an instance's entry.
LEMMA EntryFields ==
    ASSUME NEW e \in InstanceEntries
    PROVE  /\ e.state \in {"None", "Creating", "Verified", "Relinquished"} /\ e.policy \in DeletionPolicies
           /\ e.verified \in Age /\ e.pending \in Age \cup {Never} /\ e.episode \in Episodes \cup {NoEpisode}
           /\ e.pending = Never <=> e.episode = NoEpisode
BY DEF InstanceEntries

\* A new entry of an instance: none, one being created, one just verified.
LEMMA NewEntries ==
    /\ NoInstanceEntry \in InstanceEntries /\ NoInstanceEntry.state = "None"
    /\ NoInstanceEntry.episode = NoEpisode /\ NoInstanceEntry.policy = "Retain"
    /\ \A p \in DeletionPolicies :
         /\ recordVerified(p) \in InstanceEntries /\ recordVerified(p).state = "Verified"
         /\ recordVerified(p).episode = NoEpisode /\ recordVerified(p).policy = p
         /\ recordCreating(p) \in InstanceEntries /\ recordCreating(p).state = "Creating"
         /\ recordCreating(p).episode = NoEpisode /\ recordCreating(p).policy = p
<1>1. 0 \in Age
  BY LedgerAssumption DEF Age
<1> QED  BY <1>1, Zenon DEF NoInstanceEntry, recordVerified, recordCreating, InstanceEntries, DeletionPolicies

\* An entry whose deletion is cancelled, or that is let go of, or whose policy is the spec's.
LEMMA ChangedEntries ==
    ASSUME NEW e \in InstanceEntries
    PROVE  /\ NotPending(e) \in InstanceEntries /\ NotPending(e).state = e.state
           /\ NotPending(e).episode = NoEpisode /\ NotPending(e).policy = e.policy
           /\ Relinquished(e) \in InstanceEntries /\ Relinquished(e).state = "Relinquished"
           /\ Relinquished(e).episode = e.episode /\ Relinquished(e).policy = e.policy
           /\ \A p \in DeletionPolicies :
                LET f == [e EXCEPT !.policy = p]
                IN  f \in InstanceEntries /\ f.state = e.state /\ f.episode = e.episode /\ f.policy = p
           /\ \A n \in Episodes :
                LET f == [e EXCEPT !.pending = 0, !.episode = n]
                IN  f \in InstanceEntries /\ f.state = e.state /\ f.episode = n /\ f.policy = e.policy
<1>1. 0 \in Age /\ 0 # Never
  BY LedgerAssumption DEF Age, Never
<1>2. NotPending(e) \in InstanceEntries /\ NotPending(e).state = e.state
      /\ NotPending(e).episode = NoEpisode /\ NotPending(e).policy = e.policy
  BY Zenon DEF NotPending, InstanceEntries
<1>3. /\ Relinquished(e) \in InstanceEntries /\ Relinquished(e).state = "Relinquished"
      /\ Relinquished(e).episode = e.episode /\ Relinquished(e).policy = e.policy
  BY <1>1, Zenon DEF Relinquished, InstanceEntries
<1>4. ASSUME NEW p \in DeletionPolicies
      PROVE  LET f == [e EXCEPT !.policy = p]
             IN  f \in InstanceEntries /\ f.state = e.state /\ f.episode = e.episode /\ f.policy = p
  BY DEF InstanceEntries
<1>5. ASSUME NEW n \in Episodes
      PROVE  LET f == [e EXCEPT !.pending = 0, !.episode = n]
             IN  f \in InstanceEntries /\ f.state = e.state /\ f.episode = n /\ f.policy = e.policy
  BY <1>1, EpisodesAssumption, Zenon DEF InstanceEntries
<1> QED  BY <1>2, <1>3, <1>4, <1>5, Zenon

\* A ledger with another entry of the instance, or of the snapshot.
LEMMA LedgerFacts ==
    /\ \A l \in Ledgers : l.inst \in InstanceEntries /\ l.snap \in SnapshotEntries
    /\ \A l \in Ledgers, e \in InstanceEntries :
          WithInstance(l, e) \in Ledgers /\ WithInstance(l, e).inst = e /\ WithInstance(l, e).snap = l.snap
    /\ \A l \in Ledgers, e \in SnapshotEntries :
          WithSnapshot(l, e) \in Ledgers /\ WithSnapshot(l, e).snap = e /\ WithSnapshot(l, e).inst = l.inst
BY Zenon DEF Ledgers, WithInstance, WithSnapshot

\* The entries of a snapshot.
LEMMA SnapshotFacts ==
    /\ NoSnapshotEntry \in SnapshotEntries /\ NoSnapshotEntry.id = NoEpisode /\ NoSnapshotEntry.state = "None"
    /\ \A n \in Episodes :
         /\ [state |-> "Creating", id |-> n] \in SnapshotEntries
         /\ [state |-> "Verified", id |-> n] \in SnapshotEntries
    /\ \A e \in SnapshotEntries :
         /\ e.id \in Episodes \cup {NoEpisode} /\ e.state \in {"None", "Creating", "Verified"}
         /\ e.state = "None" <=> e.id = NoEpisode
BY EpisodesAssumption DEF SnapshotEntries, NoSnapshotEntry

\* The empty ledger, and the one of an instance an earlier spec declared.
LEMMA NewLedgers ==
    /\ NoLedger \in Ledgers /\ NoLedger.inst = NoInstanceEntry /\ NoLedger.snap = NoSnapshotEntry
    /\ LET l == WithInstance(NoLedger, recordVerified("Retain"))
       IN  l \in Ledgers /\ l.inst = recordVerified("Retain") /\ l.snap = NoSnapshotEntry
<1>1. NoLedger \in Ledgers /\ NoLedger.inst = NoInstanceEntry /\ NoLedger.snap = NoSnapshotEntry
  BY NewEntries, SnapshotFacts, Zenon DEF NoLedger, Ledgers
<1> QED  BY <1>1, NewEntries, LedgerFacts, Zenon DEF DeletionPolicies

\* Time changes neither what an entry is for nor its episode.
LEMMA OlderFacts ==
    ASSUME NEW l \in Ledgers
    PROVE  LET m == OlderLedger(l)
           IN  /\ m \in Ledgers /\ m.snap = l.snap /\ m.inst.state = l.inst.state
               /\ m.inst.episode = l.inst.episode /\ m.inst.policy = l.inst.policy
<1> DEFINE f == [l.inst EXCEPT !.verified = Older(@), !.pending = Older(@)]
<1>1. l.inst \in InstanceEntries
  BY LedgerFacts
<1>2. /\ Older(l.inst.verified) \in Age /\ Older(l.inst.pending) \in Age \cup {Never}
      /\ Older(l.inst.pending) = Never <=> l.inst.pending = Never
  BY <1>1, EntryFields, LedgerAssumption DEF Older, Age, Never
<1>3. /\ f \in InstanceEntries /\ f.state = l.inst.state /\ f.episode = l.inst.episode
      /\ f.policy = l.inst.policy
  BY <1>1, <1>2, Zenon DEF InstanceEntries
<1>4. OlderLedger(l) = WithInstance(l, f)
  BY DEF OlderLedger
<1> HIDE DEF f
<1>5. WithInstance(l, f) \in Ledgers /\ WithInstance(l, f).inst = f /\ WithInstance(l, f).snap = l.snap
  BY <1>3, LedgerFacts, ZenonT(40)
<1> QED  BY <1>3, <1>4, <1>5, ZenonT(40)

\* What a spec says.
LEMMA SpecFacts ==
    /\ \A s \in Specs : s.declared \in BOOLEAN /\ s.policy \in DeletionPolicies
    /\ Undeclared \in Specs /\ Undeclared.declared = FALSE
    /\ IdleView \in Views
<1>1. ASSUME NEW d \in Declarations
      PROVE  Declared(d).declared = TRUE /\ Declared(d).policy \in DeletionPolicies
  BY EpisodesAssumption DEF Declared
<1>2. Undeclared.declared = FALSE /\ Undeclared.policy \in DeletionPolicies
  BY DEF Undeclared, DeletionPolicies
<1>3. Undeclared \in Specs /\ \A s \in Specs : s = Undeclared \/ \E d \in Declarations : s = Declared(d)
  BY Zenon DEF Specs
<1>4. IdleView \in Views
  BY <1>3 DEF IdleView, Views, Statuses
<1> QED  BY <1>1, <1>2, <1>3, <1>4, Zenon

\* The fields of the state's records.
LEMMA StateFields ==
    ASSUME TypeOK
    PROVE  /\ store \in Ledgers /\ mem \in Ledgers /\ view \in Views
           /\ mem.inst \in InstanceEntries /\ mem.snap \in SnapshotEntries
           /\ store.inst \in InstanceEntries /\ store.snap \in SnapshotEntries
           /\ view.declared \in BOOLEAN /\ view.deleting \in BOOLEAN /\ view.spec.policy \in DeletionPolicies
           /\ spec.declared \in BOOLEAN
<1>1. store \in Ledgers /\ mem \in Ledgers /\ view \in Views /\ spec \in Specs
  BY DEF TypeOK
<1>2. view.spec \in Specs /\ view.declared \in BOOLEAN /\ view.deleting \in BOOLEAN
  BY <1>1 DEF Views
<1> QED  BY <1>1, <1>2, LedgerFacts, SpecFacts

-----------------------------------------------------------------------------
(* What the parts of the invariant depend on.                              *)

\* Where a pass has created no snapshot yet, and where it may still ask for an
\* episode.
Early  == EnsureSteps \cup Undeclaring \cup {"cleanup"}
Asking == EnsureSteps \cup {"cleanup", "verify"}

\* A step of a pass that leaves the snapshots, and what its ledger says of them, alone.
LEMMA SnapshotsKept ==
    ASSUME Snapshots, Mem, pc' # "idle", UNCHANGED <<store, snapshots, removed>>, unrecorded \subseteq unrecorded',
           mem'.snap = mem.snap, mem'.inst.episode \in {mem.inst.episode, NoEpisode},
           pc' \in Early => pc \in Early, pc' \in Asking => pc \in Asking,
           pc' \in {"cleanup", "verify"} /\ ~view'.declared =>
               pc \in {"cleanup", "verify"} /\ ~view.declared /\ mem'.inst.episode = mem.inst.episode
    PROVE  Snapshots'
<1>1. Knows(mem)' /\ Sole(store)' /\ Sole(mem)'
  BY DEF Snapshots, Mem, Knows, Sole
<1>2. \A e \in Episodes : Used(e)' <=> Used(e)
  BY DEF Used
<1>3. pc' \in Early => mem'.snap = store'.snap
  BY DEF Snapshots, Early
<1>4. pc' \in {"cleanup", "verify"} /\ ~view'.declared => mem'.inst.episode = store'.inst.episode
  BY DEF Snapshots
<1>5. pc' \in Asking => \A e, f \in Episodes : Used(e)' /\ Used(f)' => e = f
  BY <1>2 DEF Snapshots, Asking
<1> QED  BY <1>1, <1>3, <1>4, <1>5 DEF Snapshots, Mem, Early, Asking

\* A step of a pass that puts no instance in the place of a lost one, and drops
\* no entry of a declared one.
LEMMA MissingKept ==
    ASSUME Missing, Mem, pc' # "idle", UNCHANGED <<store, spec, cr, lost>>, view'.declared = view.declared,
           lost => ~instance'.exists, view.declared /\ Tracked(mem.inst) => Tracked(mem'.inst)
    PROVE  Missing'
BY DEF Missing, Mem

\* A step of a pass that makes no instance the CR's unless it says so, and drops no
\* entry of one that is.
LEMMA ClaimsKept ==
    ASSUME Control, Claims, Mem, pc' # "idle", UNCHANGED <<store, cr>>, view'.deleting = view.deleting,
           Claim \in unrecorded => Claim \in unrecorded',
           Owned' => \/ Owned /\ (Tracked(mem.inst) => Tracked(mem'.inst))
                     \/ Claim \in unrecorded' /\ (Tracked(store.inst) => Tracked(mem'.inst)),
           pc' \in {"orphans", "persist"} /\ view.deleting /\ ~err' /\ Owned' /\ mem'.inst.policy = "Retain"
               => ~Tracked(mem'.inst)
    PROVE  Claims'
<1>1. cr' # "gone"
  BY DEF Control, Mem
<1> QED  BY <1>1 DEF Claims, Mem

-----------------------------------------------------------------------------
(* The pass begins, and ensures.                                           *)

\* The pass copies the ledger; only the snapshots that it names are kept.
LEMMA BeginKeeps ==
    ASSUME DatabaseInv, Begin
    PROVE  DatabaseInv'
<1>0. TypeOK /\ Control /\ Snapshots /\ Missing /\ Claims
  BY DEF DatabaseInv
<1>1. /\ pc = "idle" /\ cr # "gone" /\ mem' = store /\ pc' \in {"ensure", "cleanup"} /\ err' = err
      /\ pc' = "ensure" => cr = "live" /\ spec.declared
      /\ snapshots' = [e \in Episodes |-> IF e \in Named(store) THEN snapshots[e] ELSE "none"]
      /\ unrecorded' = unrecorded \cap (Named(store) \cup {Claim}) /\ removed' = removed \cap Named(store)
      /\ UNCHANGED <<spec, cr, calm, store, instance, lost>>
  BY DEF Begin, GoTo, userVars
<1>2. /\ view' \in Views
      /\ IF cr = "live" THEN view'.declared = spec.declared /\ view'.deleting = FALSE
                        ELSE view'.declared = FALSE /\ view'.deleting = TRUE
  <2>1. spec \in Specs /\ spec.declared \in BOOLEAN /\ Undeclared \in Specs
    BY <1>0, SpecFacts DEF TypeOK
  <2> QED  BY <2>1, Zenon DEF Begin, IdleView, Views, Statuses
<1>3. TypeOK'
  <2>1. store \in Ledgers /\ err \in BOOLEAN /\ snapshots' \in [Episodes -> {"none", "creating", "available", "failed", "retagged"}]
    BY <1>0, <1>1 DEF TypeOK
  <2>2. unrecorded' \subseteq Episodes \cup {Claim} /\ removed' \subseteq Episodes
    BY <1>0, <1>1 DEF TypeOK
  <2>3. pc' \in {"idle", "cleanup", "persist"} \cup EnsureSteps \cup CleanupSteps
    BY <1>1 DEF EnsureSteps
  <2> QED  BY <1>0, <1>1, <1>2, <2>1, <2>2, <2>3, Zenon DEF TypeOK
<1>4. Control'
  BY <1>0, <1>1, <1>2 DEF Control, Mem, EnsureSteps, Undeclaring
<1>5. Snapshots'
  <2>0. /\ Knows(store) /\ Sole(store) /\ snapshots \in [Episodes -> {"none", "creating", "available", "failed", "retagged"}]
        /\ store.snap.id \in Episodes \cup {NoEpisode}
        /\ store.snap.state = "None" <=> store.snap.id = NoEpisode
    BY <1>0, <1>1, StateFields, SnapshotFacts DEF Snapshots, TypeOK
  <2>1. Knows(mem)'
    <3>1. ASSUME NEW e \in Episodes, snapshots'[e] \in {"creating", "available"}
          PROVE  e \in {mem'.snap.id} \cup unrecorded'
      <4>1. e \in Named(store) /\ snapshots[e] \in {"creating", "available"}
        BY <1>1, <3>1
      <4> QED  BY <1>1, <2>0, <4>1 DEF Knows
    <3>2. ASSUME mem'.snap.state = "Verified", mem'.snap.id \notin unrecorded' \cup removed'
          PROVE  snapshots'[mem'.snap.id] # "none"
      <4>1. store.snap.id \in Episodes /\ store.snap.id \in Named(store)
        BY <1>1, <2>0, <3>2 DEF Named
      <4> QED  BY <1>1, <2>0, <3>2, <4>1 DEF Knows
    <3> QED  BY <3>1, <3>2 DEF Knows
  <2>2. Sole(store)' /\ Sole(mem)'
    <3>1. store.inst.episode \in Episodes \cup {NoEpisode}
      BY <1>0, StateFields, EntryFields
    <3> QED  BY <1>1, <2>0, <3>1 DEF Sole, Named
  <2>3. ASSUME NEW e \in Episodes, NEW f \in Episodes, Used(e)', Used(f)'
        PROVE  e = f
    <3>1. NoEpisode \notin Episodes
      BY EpisodesAssumption, Zenon
    <3>2. e \in Named(store) /\ f \in Named(store) /\ (snapshots[e] # "none" \/ e = store.snap.id)
          /\ (snapshots[f] # "none" \/ f = store.snap.id)
      BY <1>1, <2>3 DEF Used, Named
    <3> QED  BY <3>1, <3>2, <2>0 DEF Sole, Named
  <2> QED  BY <1>1, <2>1, <2>2, <2>3, ZenonT(40) DEF Snapshots, Mem
<1>6. Missing'
  BY <1>0, <1>1, <1>2 DEF Missing, Mem
<1>7. Claims'
  BY <1>0, <1>1, <1>2 DEF Claims, Mem, Owned
<1> QED  BY <1>3, <1>4, <1>5, <1>6, <1>7 DEF DatabaseInv

\* A step of Ensure: it drops no entry, puts no instance in the place of a lost one,
\* and says so when it makes one the CR's.
LEMMA EnsuringKeeps ==
    ASSUME DatabaseInv, pc \in EnsureSteps, pc' \in EnsureSteps \cup {"cleanup"},
           UNCHANGED <<spec, cr, calm, store, snapshots, lost, removed>>,
           unrecorded' \in {unrecorded, unrecorded \cup {Claim}}, Owned' => Owned \/ Claim \in unrecorded',
           view' \in Views, view'.declared = view.declared, view'.deleting = view.deleting, err' \in BOOLEAN,
           instance' \in [exists : BOOLEAN, tags : Tags, status : Statuses], lost => ~instance'.exists,
           mem' \in Ledgers, mem'.snap = mem.snap, mem'.inst.episode \in {mem.inst.episode, NoEpisode},
           Tracked(mem.inst) => Tracked(mem'.inst), pc' = "create" => ~Tracked(mem'.inst)
    PROVE  DatabaseInv'
<1>0. TypeOK /\ Control /\ Snapshots /\ Missing /\ Claims
  BY DEF DatabaseInv
<1>1. view.declared /\ ~view.deleting /\ Mem /\ pc' # "idle"
  BY <1>0 DEF Control, Mem, EnsureSteps
<1>2. TypeOK'
  <2>1. unrecorded' \subseteq Episodes \cup {Claim}
    BY <1>0, Zenon DEF TypeOK
  <2> QED  BY <1>0, <2>1, Zenon DEF TypeOK
<1>3. Control'
  BY <1>0, <1>1, Zenon DEF Control, Mem, EnsureSteps, Undeclaring
<1>4. Snapshots'
  <2>1. pc \in Early /\ pc \in Asking /\ unrecorded \subseteq unrecorded'
    BY DEF Early, Asking
  <2> QED  BY <1>0, <1>1, <2>1, SnapshotsKept
<1>5. Missing'
  BY <1>0, <1>1, MissingKept, Zenon
<1>6. Claims'
  <2>1. Tracked(store.inst) => Tracked(mem.inst)
    BY <1>0, <1>1, Zenon DEF Missing
  <2>2. pc' \notin {"orphans", "persist"} /\ (Claim \in unrecorded => Claim \in unrecorded')
    BY DEF EnsureSteps
  <2> QED  BY <1>0, <1>1, <2>1, <2>2, ClaimsKept, Zenon
<1> QED  BY <1>2, <1>3, <1>4, <1>5, <1>6 DEF DatabaseInv

\* What a step of Ensure finds.
LEMMA EnsuringFacts ==
    ASSUME DatabaseInv, pc \in EnsureSteps
    PROVE  /\ view \in Views /\ mem \in Ledgers /\ err \in BOOLEAN /\ mem.inst \in InstanceEntries
           /\ view.spec.policy \in DeletionPolicies /\ (lost => ~instance.exists /\ Tracked(mem.inst))
           /\ instance \in [exists : BOOLEAN, tags : Tags, status : Statuses]
<1>1. TypeOK /\ Missing /\ Mem
  BY DEF DatabaseInv, EnsureSteps, Mem
<1> QED  BY <1>1, StateFields DEF TypeOK, Missing

\* A tracked instance that RDS does not list is not created again.
LEMMA lookupInstanceKeeps ==
    ASSUME DatabaseInv, lookupInstance
    PROVE  DatabaseInv'
<1>0. pc \in EnsureSteps
  BY DEF lookupInstance, EnsureSteps
<1>1. /\ UNCHANGED <<spec, cr, calm, store, instance, snapshots, lost, unrecorded, removed, mem>>
      /\ pc' \in {"cleanup", "create", "tags", "trusted"} /\ (pc' = "create" => ~Tracked(mem.inst))
  BY DEF lookupInstance, Reading, GoTo, FailTo, userVars, awsVars, history
<1>2. err' \in BOOLEAN /\ view' \in Views /\ view'.declared = view.declared /\ view'.deleting = view.deleting
  <2>1. CASE view' = view
    BY <1>0, <2>1, EnsuringFacts, Zenon DEF lookupInstance, GoTo, FailTo
  <2>2. CASE view' = [view EXCEPT !.status = instance.status] /\ err' = err
    BY <1>0, <2>2, EnsuringFacts DEF Views
  <2> QED  BY <2>1, <2>2 DEF lookupInstance, GoTo
<1>3. Owned' => Owned
  BY <1>1, Zenon DEF Owned
<1> QED  BY <1>0, <1>1, <1>2, <1>3, EnsuringFacts, EnsuringKeeps DEF EnsureSteps

\* Only an instance that the ledger does not track is created, so no lost one is replaced.
LEMMA createInstanceKeeps ==
    ASSUME DatabaseInv, createInstance
    PROVE  DatabaseInv'
<1>0. pc \in EnsureSteps /\ pc = "create" /\ ~Tracked(mem.inst)
  BY DEF createInstance, EnsureSteps, DatabaseInv, Control
<1>1. UNCHANGED <<spec, cr, calm, store, snapshots, view, lost, removed>> /\ pc' = "cleanup"
  BY DEF createInstance, GoTo, FailTo, userVars
<1>2. err' \in BOOLEAN
  BY <1>0, EnsuringFacts, Zenon DEF createInstance, GoTo, FailTo
<1>3. ~lost /\ instance' \in [exists : BOOLEAN, tags : Tags, status : Statuses]
  <2>1. ~lost /\ instance \in [exists : BOOLEAN, tags : Tags, status : Statuses]
    BY <1>0, EnsuringFacts
  <2>2. instance' = instance \/ instance' = NewInstance(ownerTags, "creating")
    BY DEF createInstance
  <2>3. NewInstance(ownerTags, "creating") \in [exists : BOOLEAN, tags : Tags, status : Statuses]
    BY TagFacts, Zenon DEF NewInstance, Statuses
  <2> QED  BY <2>1, <2>2, <2>3, Zenon
<1>4. mem' \in Ledgers /\ mem'.snap = mem.snap /\ mem'.inst.episode \in {mem.inst.episode, NoEpisode}
  <2>1. mem' = mem \/ mem' = WithInstance(mem, recordCreating(view.spec.policy))
    BY DEF createInstance
  <2>2. mem \in Ledgers /\ view.spec.policy \in DeletionPolicies
    BY <1>0, EnsuringFacts
  <2>3. recordCreating(view.spec.policy) \in InstanceEntries /\ recordCreating(view.spec.policy).episode = NoEpisode
    BY <2>2, NewEntries
  <2> QED  BY <2>1, <2>2, <2>3, LedgerFacts
<1>5. /\ unrecorded' \in {unrecorded, unrecorded \cup {Claim}}
      /\ instance' = instance \/ Claim \in unrecorded'
  BY DEF createInstance
<1>6. Owned' => Owned \/ Claim \in unrecorded'
  BY <1>5, Zenon DEF Owned
<1> QED  BY <1>0, <1>1, <1>2, <1>3, <1>4, <1>5, <1>6, EnsuringFacts, EnsuringKeeps

\* Reading the tags changes nothing.
LEMMA ensureInstanceOwnershipKeeps ==
    ASSUME DatabaseInv, ensureInstanceOwnership
    PROVE  DatabaseInv'
<1>0. pc \in EnsureSteps
  BY DEF ensureInstanceOwnership, EnsureSteps
<1>1. /\ UNCHANGED <<spec, cr, calm, store, instance, snapshots, lost, unrecorded, removed, mem, view>>
      /\ pc' \in {"cleanup", "adopt", "attributes"} /\ err' \in {err, TRUE}
  BY Zenon DEF ensureInstanceOwnership, Reading, GoTo, FailTo, userVars, awsVars, history
<1>2. Owned' => Owned
  BY <1>1, Zenon DEF Owned
<1> QED  BY <1>0, <1>1, <1>2, EnsuringFacts, EnsuringKeeps, Zenon DEF EnsureSteps

\* An adoption changes the tags of an instance that is there.
LEMMA adoptInstanceKeeps ==
    ASSUME DatabaseInv, adoptInstance
    PROVE  DatabaseInv'
<1>0. pc \in EnsureSteps
  BY DEF adoptInstance, EnsureSteps
<1>1. /\ UNCHANGED <<spec, cr, calm, store, snapshots, view, mem, lost, removed>>
      /\ pc' \in {"cleanup", "attributes"} /\ err' \in {err, TRUE}
  BY Zenon DEF adoptInstance, GoTo, FailTo, userVars
<1>2. /\ instance' \in [exists : BOOLEAN, tags : Tags, status : Statuses]
      /\ lost => ~instance'.exists
  BY <1>0, EnsuringFacts, TagFacts DEF adoptInstance
<1>3. /\ unrecorded' \in {unrecorded, unrecorded \cup {Claim}}
      /\ instance' = instance \/ Claim \in unrecorded'
  BY DEF adoptInstance
<1>4. Owned' => Owned \/ Claim \in unrecorded'
  BY <1>3, Zenon DEF Owned
<1> QED  BY <1>0, <1>1, <1>2, <1>3, <1>4, EnsuringFacts, EnsuringKeeps, Zenon DEF EnsureSteps

\* A rebuilt entry is a tracked one, in which nothing is pending.
LEMMA ensureInstanceObservingKeeps ==
    ASSUME DatabaseInv, ensureInstanceObserving
    PROVE  DatabaseInv'
<1>0. pc \in EnsureSteps
  BY DEF ensureInstanceObserving, EnsureSteps
<1>1. /\ UNCHANGED <<spec, cr, calm, store, instance, snapshots, lost, unrecorded, removed, view>>
      /\ pc' = "cleanup" /\ err' \in {err, TRUE}
  BY Zenon DEF ensureInstanceObserving, Reading, GoTo, FailTo, userVars, awsVars, history
<1>2. /\ mem' \in Ledgers /\ mem'.snap = mem.snap /\ mem'.inst.episode \in {mem.inst.episode, NoEpisode}
      /\ Tracked(mem.inst) => Tracked(mem'.inst)
  <2>1. \/ mem' = mem
        \/ mem' = WithInstance(mem, recordVerified(view.spec.policy))
        \/ mem' = WithInstance(mem, [mem.inst EXCEPT !.policy = view.spec.policy])
    BY DEF ensureInstanceObserving
  <2>2. mem \in Ledgers /\ mem.inst \in InstanceEntries /\ view.spec.policy \in DeletionPolicies
    BY <1>0, EnsuringFacts
  <2>3. CASE mem' = mem
    BY <2>2, <2>3
  <2>4. CASE mem' = WithInstance(mem, recordVerified(view.spec.policy))
    <3> DEFINE f == recordVerified(view.spec.policy)
    <3>1. f \in InstanceEntries /\ f.episode = NoEpisode /\ f.state = "Verified"
      BY <2>2, NewEntries
    <3> HIDE DEF f
    <3>2. mem' \in Ledgers /\ mem'.snap = mem.snap /\ mem'.inst = f
      BY <2>2, <2>4, <3>1, LedgerFacts, Zenon DEF f
    <3> QED  BY <3>1, <3>2 DEF Tracked
  <2>5. CASE mem' = WithInstance(mem, [mem.inst EXCEPT !.policy = view.spec.policy])
    <3> DEFINE f == [mem.inst EXCEPT !.policy = view.spec.policy]
    <3>1. f \in InstanceEntries /\ f.episode = mem.inst.episode /\ f.state = mem.inst.state
      BY <2>2, ChangedEntries, Zenon
    <3> HIDE DEF f
    <3>2. mem' \in Ledgers /\ mem'.snap = mem.snap /\ mem'.inst = f
      BY <2>2, <2>5, <3>1, LedgerFacts DEF f
    <3> QED  BY <3>1, <3>2 DEF Tracked
  <2> QED  BY <2>1, <2>3, <2>4, <2>5
<1>3. Owned' => Owned
  BY <1>1, Zenon DEF Owned
<1> QED  BY <1>0, <1>1, <1>2, <1>3, EnsuringFacts, EnsuringKeeps, Zenon

-----------------------------------------------------------------------------
(* The pass cleans up.                                                     *)

\* A step of Cleanup, once Control and Snapshots are seen to: it drops no entry
\* of a declared instance, and none of an instance that is still the CR's.
LEMMA CleaningKeeps ==
    ASSUME DatabaseInv, Mem, pc' \in CleanupSteps \cup {"persist"}, Control', Snapshots',
           UNCHANGED <<spec, cr, calm, store, lost>>,
           view' \in Views, view'.declared = view.declared, view'.deleting = view.deleting,
           err' \in BOOLEAN, mem' \in Ledgers,
           instance' \in [exists : BOOLEAN, tags : Tags, status : Statuses],
           snapshots' \in [Episodes -> {"none", "creating", "available", "failed", "retagged"}],
           unrecorded' \subseteq Episodes \cup {Claim}, removed' \subseteq Episodes,
           Claim \in unrecorded => Claim \in unrecorded', lost => ~instance'.exists,
           view.declared /\ Tracked(mem.inst) => Tracked(mem'.inst),
           Owned' => Owned /\ (Tracked(mem.inst) => Tracked(mem'.inst)),
           pc' \in {"orphans", "persist"} /\ view.deleting /\ ~err' /\ Owned' /\ mem'.inst.policy = "Retain"
               => ~Tracked(mem'.inst)
    PROVE  DatabaseInv'
<1>0. TypeOK /\ Control /\ Missing /\ Claims
  BY DEF DatabaseInv
<1>1. pc' # "idle" /\ pc' \in {"idle", "cleanup", "persist"} \cup EnsureSteps \cup CleanupSteps
  BY DEF CleanupSteps
<1>2. TypeOK'
  BY <1>0, <1>1, Zenon DEF TypeOK
<1>3. Missing'
  BY <1>0, <1>1, MissingKept
<1>4. Claims'
  BY <1>0, <1>1, ClaimsKept, Zenon
<1> QED  BY <1>2, <1>3, <1>4 DEF DatabaseInv

\* What a step of the pass finds.
LEMMA CleaningFacts ==
    ASSUME DatabaseInv, Mem
    PROVE  /\ TypeOK /\ Control /\ Snapshots /\ Missing /\ Claims
           /\ view \in Views /\ mem \in Ledgers /\ err \in BOOLEAN
           /\ instance \in [exists : BOOLEAN, tags : Tags, status : Statuses]
           /\ snapshots \in [Episodes -> {"none", "creating", "available", "failed", "retagged"}]
           /\ unrecorded \subseteq Episodes \cup {Claim} /\ removed \subseteq Episodes
           /\ mem.inst \in InstanceEntries /\ mem.snap \in SnapshotEntries
           /\ (lost => ~instance.exists)
BY StateFields, Zenon DEF DatabaseInv, TypeOK, Missing

\* The head of Cleanup: a declared instance is no longer pending.
LEMMA CleanupKeeps ==
    ASSUME DatabaseInv, Cleanup
    PROVE  DatabaseInv'
<1>0. pc = "cleanup" /\ Mem
  BY DEF Cleanup, Mem
<1>1. /\ UNCHANGED <<spec, cr, calm, store, instance, snapshots, lost, unrecorded, removed, err>>
      /\ pc' \in {"orphans", "retire", "verify", "release"}
      /\ pc' = "orphans" => mem.inst.state = "None"
      /\ pc' = "retire" => view.declared
      /\ pc' \in {"verify", "release"} => ~view.declared /\ mem' = mem
      /\ pc' = "verify" => mem.inst.state # "None" /\ mem.inst.policy = "Delete"
      /\ mem' = mem \/ mem' = WithInstance(mem, NotPending(mem.inst))
  BY DEF Cleanup, Reading, GoTo, userVars, awsVars, history
<1>2. view' \in Views /\ view'.declared = view.declared /\ view'.deleting = view.deleting
  <2>1. view.declared \in BOOLEAN /\ view.deleting \in BOOLEAN /\ Undeclared \in Specs
    BY <1>0, CleaningFacts, StateFields, SpecFacts, ZenonT(40)
  <2> QED  BY <2>1, Zenon DEF Cleanup, IdleView, Views, Statuses
<1>3. /\ mem' \in Ledgers /\ mem'.snap = mem.snap /\ mem'.inst.episode \in {mem.inst.episode, NoEpisode}
      /\ mem'.inst.state = mem.inst.state /\ mem'.inst.policy = mem.inst.policy
  <2>1. mem \in Ledgers /\ mem.inst \in InstanceEntries
    BY <1>0, CleaningFacts
  <2>2. /\ NotPending(mem.inst) \in InstanceEntries /\ NotPending(mem.inst).state = mem.inst.state
        /\ NotPending(mem.inst).episode = NoEpisode /\ NotPending(mem.inst).policy = mem.inst.policy
    BY <2>1, ChangedEntries, Zenon
  <2> QED  BY <1>1, <2>1, <2>2, LedgerFacts
<1>4. Control'
  <2>1. Control
    BY <1>0, CleaningFacts, Zenon
  <2> QED  BY <1>0, <1>1, <1>2, <1>3, <2>1 DEF Control, Mem, EnsureSteps, Undeclaring
<1>5. Snapshots'
  <2>1. Snapshots /\ pc' # "idle" /\ pc \in Early /\ pc \in Asking
    BY <1>0, <1>1, CleaningFacts DEF Early, Asking
  <2>2. pc' \in {"cleanup", "verify"} => ~view.declared /\ mem' = mem
    BY <1>1
  <2> QED  BY <1>0, <1>1, <1>2, <1>3, <2>1, <2>2, SnapshotsKept, ZenonT(40)
<1>6. Tracked(mem.inst) => Tracked(mem'.inst)
  BY <1>3 DEF Tracked
<1>7. pc' \in {"orphans", "persist"} => ~Tracked(mem'.inst)
  BY <1>1, <1>3 DEF Tracked
<1>8. Owned' = Owned
  BY <1>1 DEF Owned
<1>9. pc' \in CleanupSteps \cup {"persist"}
  BY <1>1, Zenon DEF CleanupSteps
<1> QED  BY <1>0, <1>1, <1>2, <1>3, <1>4, <1>5, <1>6, <1>7, <1>8, <1>9, CleaningFacts, CleaningKeeps

\* A step of an undeclared instance's cleanup that leaves the snapshots alone.
LEMMA LeavingKeeps ==
    ASSUME DatabaseInv, pc \in {"release", "untag", "verify"}, pc' \in {"orphans", "untag"},
           UNCHANGED <<spec, cr, calm, store, snapshots, view, lost, unrecorded, removed>>,
           err' \in BOOLEAN, mem' \in Ledgers, mem'.snap = mem.snap,
           mem'.inst.episode \in {mem.inst.episode, NoEpisode},
           instance' \in [exists : BOOLEAN, tags : Tags, status : Statuses], instance'.exists => instance.exists,
           Owned' => Owned /\ (Tracked(mem.inst) => Tracked(mem'.inst)),
           pc' = "orphans" /\ ~err' /\ Owned' /\ mem'.inst.policy = "Retain" => ~Tracked(mem'.inst)
    PROVE  DatabaseInv'
<1>0. Mem
  BY Zenon DEF Mem
<1>1. Control /\ Snapshots /\ Missing /\ ~view.declared
  BY <1>0, CleaningFacts, Zenon DEF Control, Undeclaring
<1>2. Control'
  BY <1>0, <1>1, Zenon DEF Control, Mem, EnsureSteps, Undeclaring
<1>3. Snapshots'
  <2>1. pc' # "idle" /\ pc \in Early /\ pc' \notin Asking
    BY DEF Early, Asking, Undeclaring, EnsureSteps
  <2> QED  BY <1>0, <1>1, <2>1, SnapshotsKept
<1>4. pc' \in CleanupSteps \cup {"persist"} /\ pc' # "persist"
  BY DEF CleanupSteps
<1>5. lost => ~instance'.exists
  BY <1>1, CleaningFacts, <1>0, Zenon
<1> QED  BY <1>0, <1>1, <1>2, <1>3, <1>4, <1>5, CleaningFacts, CleaningKeeps, Zenon

\* A Retain entry is dropped, or let go of, once the instance is not the CR's.
LEMMA retainEntryKeeps ==
    ASSUME DatabaseInv, retainEntry
    PROVE  DatabaseInv'
<1>0. pc = "release" /\ Mem
  BY DEF retainEntry, Mem
<1>1. /\ UNCHANGED <<spec, cr, calm, store, instance, snapshots, view, lost, unrecorded, removed, err>>
      /\ \/ pc' = "orphans" /\ mem' = mem /\ mem.inst.state = "Relinquished"
         \/ pc' = "orphans" /\ mem' = WithInstance(mem, NoInstanceEntry) /\ ~Owned
         \/ pc' = "untag" /\ mem' = mem
         \/ pc' = "orphans" /\ mem' = WithInstance(mem, Relinquished(mem.inst)) /\ ~Owned
  BY DEF retainEntry, Reading, GoTo, userVars, awsVars, history, Owned
<1>2. mem \in Ledgers /\ mem.inst \in InstanceEntries
  BY <1>0, CleaningFacts, Zenon
<1>3. mem' \in Ledgers /\ mem'.snap = mem.snap /\ mem'.inst.episode \in {mem.inst.episode, NoEpisode}
  <2>1. CASE mem' = mem
    BY <1>2, <2>1
  <2>2. CASE mem' = WithInstance(mem, NoInstanceEntry)
    BY <1>2, <2>2, NewEntries, LedgerFacts, Zenon
  <2>3. CASE mem' = WithInstance(mem, Relinquished(mem.inst))
    BY <1>2, <2>3, ChangedEntries, LedgerFacts, Zenon
  <2> QED  BY <1>1, <2>1, <2>2, <2>3
<1>4. /\ Owned' = Owned
      /\ Owned => mem' = mem
      /\ pc' = "orphans" /\ Owned => ~Tracked(mem.inst)
  BY <1>1 DEF Owned, Tracked
<1> QED  BY <1>0, <1>1, <1>3, <1>4, CleaningFacts, LeavingKeeps, Zenon

\* The tags go before the entry is relinquished.
LEMMA relinquishIfStillTaggedKeeps ==
    ASSUME DatabaseInv, relinquishIfStillTagged
    PROVE  DatabaseInv'
<1>0. pc = "untag" /\ Mem
  BY DEF relinquishIfStillTagged, Mem
<1>1. /\ UNCHANGED <<spec, cr, calm, store, snapshots, view, lost, unrecorded, removed>>
      /\ pc' = "orphans" /\ err' \in {err, TRUE}
      /\ mem' = mem \/ mem' = WithInstance(mem, Relinquished(mem.inst))
      /\ IF instance.exists THEN instance' = [instance EXCEPT !.tags = NoTags] ELSE instance' = instance
  BY Zenon DEF relinquishIfStillTagged, GoTo, FailTo, userVars, history
<1>2. mem \in Ledgers /\ mem.inst \in InstanceEntries
  BY <1>0, CleaningFacts
<1>3. mem' \in Ledgers /\ mem'.snap = mem.snap /\ mem'.inst.episode \in {mem.inst.episode, NoEpisode}
  <2>1. Relinquished(mem.inst) \in InstanceEntries /\ Relinquished(mem.inst).episode = mem.inst.episode
    BY <1>2, ChangedEntries, Zenon
  <2> QED  BY <1>1, <1>2, <2>1, LedgerFacts, SMTT(30)
<1>4. /\ instance' \in [exists : BOOLEAN, tags : Tags, status : Statuses]
      /\ instance'.exists => instance.exists
      /\ ~Owned'
  <2>1. instance \in [exists : BOOLEAN, tags : Tags, status : Statuses]
    BY <1>0, CleaningFacts
  <2> QED  BY <1>1, <2>1, TagFacts DEF Owned
<1> QED  BY <1>0, <1>1, <1>3, <1>4, CleaningFacts, LeavingKeeps, Zenon

\* pendDeletion finds a name for the episode: at most one is used, and there are two.
LEMMA FreshFacts ==
    ASSUME DatabaseInv, pc = "verify", mem.inst.pending = Never
    PROVE  FreshEpisode \in Episodes /\ snapshots[FreshEpisode] = "none"
<1>0. Mem
  BY Zenon DEF Mem
<1>1. /\ mem.inst.episode = NoEpisode /\ store.inst.episode = NoEpisode /\ mem.snap = store.snap
      /\ \A e, f \in Episodes : Used(e) /\ Used(f) => e = f
  <2>1. Snapshots /\ Control /\ mem.inst \in InstanceEntries
    BY <1>0, CleaningFacts
  <2>2. mem.inst.episode = NoEpisode
    BY <2>1, EntryFields
  <2> QED  BY <2>1, <2>2 DEF Snapshots, Control, Undeclaring
<1>2. PICK e \in Episodes : ~Used(e)
  BY <1>1, EpisodesAssumption, Zenon
<1>3. snapshots[e] = "none" /\ e \notin Named(store) \cup Named(mem)
  <2>1. e # NoEpisode
    BY EpisodesAssumption
  <2> QED  BY <1>1, <1>2, <2>1 DEF Used, Named
<1> QED  BY <1>2, <1>3 DEF FreshEpisode

\* A step of the pass past the point where an episode may be asked for.
LEMMA SnapshotsChanged ==
    ASSUME pc' \notin Early \cup {"idle"}, Knows(mem)', Sole(store)', Sole(mem)'
    PROVE  Snapshots'
BY DEF Snapshots, Mem, Early, Undeclaring

\* A deletion is first noticed under a name that nothing uses; a gone instance is dropped.
LEMMA pendDeletionKeeps ==
    ASSUME DatabaseInv, pendDeletion
    PROVE  DatabaseInv'
<1>0. pc = "verify" /\ Mem
  BY DEF pendDeletion, Mem
<1>1. /\ UNCHANGED <<spec, cr, calm, store, instance, snapshots, view, lost, unrecorded, removed>>
      /\ err' \in {err, TRUE}
      /\ \/ pc' = "orphans" /\ mem' = WithInstance(mem, NoInstanceEntry) /\ ~Owned
         \/ pc' = "orphans" /\ mem' = mem
         \/ pc' = "snapshot" /\ mem' = mem /\ mem.inst.pending # Never
         \/ pc' = "orphans" /\ mem' = markPendingDeletion /\ mem.inst.pending = Never
  BY Zenon DEF pendDeletion, Reading, GoTo, FailTo, userVars, awsVars, history, Owned
<1>2. /\ mem \in Ledgers /\ mem.inst \in InstanceEntries /\ Control /\ Snapshots /\ mem.inst.policy = "Delete"
      /\ ~view.declared /\ mem.inst.state # "None" /\ Knows(mem) /\ Sole(mem) /\ Sole(store)
  BY <1>0, CleaningFacts DEF Control, Snapshots, Undeclaring
<1>3. Owned' = Owned
  BY <1>1 DEF Owned
<1>4. CASE pc' = "orphans" /\ mem' = WithInstance(mem, NoInstanceEntry) /\ ~Owned
  <2>1. mem' \in Ledgers /\ mem'.snap = mem.snap /\ mem'.inst.episode \in {mem.inst.episode, NoEpisode}
    BY <1>2, <1>4, NewEntries, LedgerFacts, Zenon
  <2> QED  BY <1>0, <1>1, <1>3, <1>4, <2>1, CleaningFacts, LeavingKeeps, ZenonT(40)
<1>5. CASE pc' = "orphans" /\ mem' = mem
  BY <1>0, <1>1, <1>2, <1>3, <1>5, CleaningFacts, LeavingKeeps, Zenon
<1>6. CASE pc' = "snapshot" /\ mem' = mem /\ mem.inst.pending # Never
  <2>1. mem.inst.episode # NoEpisode
    BY <1>2, <1>6, EntryFields, Zenon
  <2>2. Control'
    BY <1>0, <1>1, <1>2, <1>6, <2>1, Zenon DEF Control, Mem, EnsureSteps, Undeclaring
  <2>3. Snapshots'
    <3>1. pc \in Early /\ pc' \notin Asking
      BY <1>0, <1>6 DEF Early, Asking, Undeclaring, EnsureSteps
    <3> QED  BY <1>0, <1>1, <1>2, <1>6, <3>1, SnapshotsKept
  <2>4. pc' \in CleanupSteps
    BY <1>6 DEF CleanupSteps
  <2> QED  BY <1>0, <1>1, <1>2, <1>3, <1>6, <2>2, <2>3, <2>4, CleaningFacts, CleaningKeeps, Zenon
<1>7. CASE pc' = "orphans" /\ mem' = markPendingDeletion /\ mem.inst.pending = Never
  <2> DEFINE f == [mem.inst EXCEPT !.pending = 0, !.episode = FreshEpisode]
  <2>1. FreshEpisode \in Episodes /\ snapshots[FreshEpisode] = "none"
    BY <1>0, <1>7, FreshFacts
  <2>2. /\ f \in InstanceEntries /\ f.state = mem.inst.state /\ f.episode = FreshEpisode
        /\ f.policy = mem.inst.policy
    BY <1>2, <2>1, ChangedEntries, Zenon
  <2>3. mem' = WithInstance(mem, f)
    BY <1>7, Zenon DEF markPendingDeletion
  <2> HIDE DEF f
  <2>4. mem' \in Ledgers /\ mem'.snap = mem.snap /\ mem'.inst = f
    BY <1>2, <2>2, <2>3, LedgerFacts, Zenon
  <2>5. Control'
    BY <1>0, <1>1, <1>2, <1>7, Zenon DEF Control, Mem, EnsureSteps, Undeclaring
  <2>6. Snapshots'
    <3>1. pc' \notin Early \cup {"idle"}
      BY <1>7, Zenon DEF Early, Undeclaring, EnsureSteps
    <3>2. Knows(mem)' /\ Sole(store)' /\ Sole(mem)'
      BY <1>1, <1>2, <2>1, <2>2, <2>4, Zenon DEF Knows, Sole
    <3> QED  BY <3>1, <3>2, SnapshotsChanged
  <2>7. (Tracked(mem.inst) => Tracked(mem'.inst)) /\ mem'.inst.policy = "Delete"
    BY <1>2, <2>2, <2>4 DEF Tracked
  <2>8. pc' \in CleanupSteps
    BY <1>7, Zenon DEF CleanupSteps
  <2> QED  BY <1>0, <1>1, <1>2, <1>3, <2>4, <2>5, <2>6, <2>7, <2>8, CleaningFacts, CleaningKeeps, Zenon
<1> QED  BY <1>1, <1>4, <1>5, <1>6, <1>7, Zenon

\* A step that sees to a snapshot, or after that to the end of Cleanup: it leaves
\* the instance and its entry alone.
LEMMA SnapshotStepKeeps ==
    ASSUME DatabaseInv, pc \in {"retire", "deleteSnapshot", "snapshot", "createSnapshot", "orphans"}, Snapshots',
           UNCHANGED <<spec, cr, calm, store, instance, view, lost>>,
           err' \in {err, TRUE}, mem' \in Ledgers, mem'.inst = mem.inst,
           snapshots' \in [Episodes -> {"none", "creating", "available", "failed", "retagged"}],
           unrecorded' \subseteq Episodes \cup {Claim}, removed' \subseteq Episodes,
           Claim \in unrecorded => Claim \in unrecorded',
           \/ pc = "orphans" /\ pc' = "persist"
           \/ pc # "orphans" /\ pc' = "orphans"
           \/ pc = "snapshot" /\ pc' = "retire"
           \/ pc = "snapshot" /\ pc' = "createSnapshot" /\ mem'.snap.id = NoEpisode
           \/ pc = "retire" /\ pc' = "deleteSnapshot" /\ mem'.snap.id # NoEpisode
    PROVE  DatabaseInv'
<1>0. Mem /\ pc' \in CleanupSteps \cup {"persist"}
  BY DEF Mem, CleanupSteps
<1>1. Control /\ Claims /\ err' \in BOOLEAN
  BY <1>0, CleaningFacts, Zenon
<1>2. Control'
  BY <1>0, <1>1 DEF Control, Mem, EnsureSteps, Undeclaring
<1>3. Owned' = Owned
  BY Zenon DEF Owned
<1>4. pc' \in {"orphans", "persist"} /\ view.deleting /\ ~err' /\ Owned' /\ mem'.inst.policy = "Retain"
        => ~Tracked(mem'.inst)
  <2>1. CASE pc = "orphans"
    BY <1>1, <1>3, <2>1, Zenon DEF Claims
  <2>2. CASE pc # "orphans"
    <3>1. view.deleting => mem.inst.policy = "Delete"
      BY <1>0, <1>1, <2>2, Zenon DEF Control
    <3> QED  BY <3>1, Zenon
  <2> QED  BY <2>1, <2>2
<1> QED  BY <1>0, <1>1, <1>2, <1>3, <1>4, CleaningFacts, CleaningKeeps, Zenon

\* What the steps that see to a snapshot find, and what becomes of the ledger
\* when the snapshot is verified or forgotten.
LEMMA SnapshotStepFacts ==
    ASSUME DatabaseInv, pc \in {"retire", "deleteSnapshot", "snapshot", "createSnapshot", "orphans"}
    PROVE  /\ Mem /\ mem \in Ledgers /\ Knows(mem) /\ Sole(mem) /\ Sole(store)
           /\ mem.snap.id \in Episodes \cup {NoEpisode} /\ mem.inst.episode \in Episodes \cup {NoEpisode}
           /\ mem.snap.state = "None" <=> mem.snap.id = NoEpisode
           /\ Forget \in Ledgers /\ Forget.inst = mem.inst /\ Forget.snap = NoSnapshotEntry
           /\ mem.snap.id # NoEpisode =>
                /\ VerifiedSnapshot(mem) \in Ledgers /\ VerifiedSnapshot(mem).inst = mem.inst
                /\ VerifiedSnapshot(mem).snap.id = mem.snap.id
<1>1. Mem
  BY DEF Mem
<1>2. /\ mem \in Ledgers /\ mem.inst \in InstanceEntries /\ mem.snap \in SnapshotEntries
      /\ Knows(mem) /\ Sole(mem) /\ Sole(store)
  BY <1>1, CleaningFacts, Zenon DEF Snapshots
<1>3. /\ mem.snap.id \in Episodes \cup {NoEpisode} /\ mem.inst.episode \in Episodes \cup {NoEpisode}
      /\ mem.snap.state = "None" <=> mem.snap.id = NoEpisode
  BY <1>2, EntryFields, SnapshotFacts, ZenonT(40)
<1>4. Forget \in Ledgers /\ Forget.inst = mem.inst /\ Forget.snap = NoSnapshotEntry
  BY <1>2, LedgerFacts, SnapshotFacts, Zenon DEF Forget
<1>5. ASSUME mem.snap.id # NoEpisode
      PROVE  /\ VerifiedSnapshot(mem) \in Ledgers /\ VerifiedSnapshot(mem).inst = mem.inst
             /\ VerifiedSnapshot(mem).snap.id = mem.snap.id
  <2> DEFINE f == [state |-> "Verified", id |-> mem.snap.id]
  <2>1. f \in SnapshotEntries /\ f.id = mem.snap.id
    BY <1>3, <1>5, SnapshotFacts, Zenon
  <2>2. VerifiedSnapshot(mem) = WithSnapshot(mem, f)
    BY DEF VerifiedSnapshot
  <2> HIDE DEF f
  <2>3. /\ WithSnapshot(mem, f) \in Ledgers /\ WithSnapshot(mem, f).snap = f
        /\ WithSnapshot(mem, f).inst = mem.inst
    BY <1>2, <2>1, LedgerFacts, ZenonT(40)
  <2> QED  BY <2>1, <2>2, <2>3, ZenonT(40)
<1> QED  BY <1>1, <1>2, <1>3, <1>4, <1>5

\* Such a step that leaves the snapshots alone: the ledger is kept, or the
\* snapshot is found to exist, or a snapshot that is no longer the CR's is forgotten.
LEMMA SnapshotReadKeeps ==
    ASSUME DatabaseInv, pc \in {"retire", "deleteSnapshot", "snapshot", "createSnapshot", "orphans"},
           UNCHANGED <<spec, cr, calm, store, instance, snapshots, view, lost, unrecorded, removed>>,
           err' \in {err, TRUE},
           \/ mem' = mem
           \/ mem' = VerifiedSnapshot(mem) /\ mem.snap.id # NoEpisode /\ snapshots[mem.snap.id] # "none"
           \/ mem' = Forget /\ snapshots[mem.snap.id] \notin {"creating", "available"},
           \/ pc = "orphans" /\ pc' = "persist"
           \/ pc # "orphans" /\ pc' = "orphans"
           \/ pc = "snapshot" /\ pc' = "retire"
           \/ pc = "snapshot" /\ pc' = "createSnapshot" /\ mem' = mem /\ mem.snap.id = NoEpisode
           \/ pc = "retire" /\ pc' = "deleteSnapshot" /\ mem' = mem /\ mem.snap.id # NoEpisode
    PROVE  DatabaseInv'
<1>0. /\ Mem /\ mem \in Ledgers /\ Knows(mem) /\ Sole(mem) /\ Sole(store)
      /\ Forget \in Ledgers /\ Forget.inst = mem.inst /\ Forget.snap = NoSnapshotEntry
      /\ mem.snap.id # NoEpisode =>
           /\ VerifiedSnapshot(mem) \in Ledgers /\ VerifiedSnapshot(mem).inst = mem.inst
           /\ VerifiedSnapshot(mem).snap.id = mem.snap.id
  BY SnapshotStepFacts, Zenon
<1>1. mem' \in Ledgers /\ mem'.inst = mem.inst
  BY <1>0, Zenon
<1>2. Sole(store)' /\ Sole(mem)'
  <2>1. mem'.snap.id \in {mem.snap.id, NoEpisode}
    BY <1>0, SnapshotFacts
  <2> QED  BY <1>0, <1>1, <2>1, Zenon DEF Sole
<1>3. Knows(mem)'
  <2>1. CASE mem' = mem
    BY <1>0, <2>1, Zenon DEF Knows
  <2>2. CASE mem' = VerifiedSnapshot(mem) /\ mem.snap.id # NoEpisode /\ snapshots[mem.snap.id] # "none"
    BY <1>0, <2>2 DEF Knows
  <2>3. CASE mem' = Forget /\ snapshots[mem.snap.id] \notin {"creating", "available"}
    <3>1. mem'.snap.state = "None"
      BY <1>0, <2>3, SnapshotFacts, Zenon
    <3> QED  BY <1>0, <2>3, <3>1, ZenonT(40) DEF Knows
  <2> QED  BY <2>1, <2>2, <2>3, ZenonT(40)
<1>4. Snapshots'
  <2>1. CASE pc' = "createSnapshot"
    <3>1. pc = "snapshot" /\ mem' = mem
      BY <2>1
    <3>2. Snapshots /\ mem.snap = store.snap
      BY <1>0, <3>1, CleaningFacts, Zenon DEF Snapshots, Undeclaring
    <3> QED  BY <1>2, <1>3, <2>1, <3>1, <3>2, Zenon DEF Snapshots, Mem, EnsureSteps
  <2>2. CASE pc' # "createSnapshot"
    <3>1. pc' \notin Early \cup {"idle"}
      BY <2>2, Zenon DEF Early, Undeclaring, EnsureSteps
    <3> QED  BY <1>2, <1>3, <3>1, SnapshotsChanged, Zenon
  <2> QED  BY <2>1, <2>2, Zenon
<1> QED  BY <1>0, <1>1, <1>4, CleaningFacts, SnapshotStepKeeps, Zenon

\* A snapshot becomes Verified only when it is there.
LEMMA ensureFinalSnapshotKeeps ==
    ASSUME DatabaseInv, ensureFinalSnapshot
    PROVE  DatabaseInv'
<1>0. pc = "snapshot" /\ mem.inst.episode # NoEpisode
  BY DEF ensureFinalSnapshot, DatabaseInv, Control
<1>1. UNCHANGED <<spec, cr, calm, store, instance, snapshots, view, lost, unrecorded, removed>>
  BY DEF ensureFinalSnapshot, Reading, userVars, awsVars, history
<1>2. /\ err' \in {err, TRUE}
      /\ \/ mem' = mem
         \/ mem' = VerifiedSnapshot(mem) /\ mem.snap.id # NoEpisode /\ snapshots[mem.snap.id] # "none"
      /\ \/ pc' = "orphans" \/ pc' = "retire"
         \/ pc' = "createSnapshot" /\ mem' = mem /\ mem.snap.id = NoEpisode
  BY <1>0, Zenon DEF ensureFinalSnapshot, GoTo, FailTo
<1> QED  BY <1>0, <1>1, <1>2, SnapshotReadKeeps, Zenon

\* A snapshot is forgotten only when it failed or is somebody else's.
LEMMA retireFinalSnapshotKeeps ==
    ASSUME DatabaseInv, retireFinalSnapshot
    PROVE  DatabaseInv'
<1>0. pc = "retire"
  BY DEF retireFinalSnapshot
<1>1. UNCHANGED <<spec, cr, calm, store, instance, snapshots, view, lost, unrecorded, removed>>
  BY DEF retireFinalSnapshot, Reading, userVars, awsVars, history
<1>2. /\ err' \in {err, TRUE}
      /\ mem' = mem \/ (mem' = Forget /\ snapshots[mem.snap.id] \notin {"creating", "available"})
      /\ pc' = "orphans" \/ (pc' = "deleteSnapshot" /\ mem' = mem /\ mem.snap.id # NoEpisode)
  BY <1>0, ZenonT(40) DEF retireFinalSnapshot, GoTo, FailTo
<1> QED  BY <1>0, <1>1, <1>2, SnapshotReadKeeps, Zenon

\* The entry of an orphaned snapshot goes only after the snapshot.
LEMMA checkOrphanedSnapshotsKeeps ==
    ASSUME DatabaseInv, checkOrphanedSnapshots
    PROVE  DatabaseInv'
<1>0. pc = "orphans"
  BY DEF checkOrphanedSnapshots
<1>1. /\ UNCHANGED <<spec, cr, calm, store, instance, snapshots, view, lost, unrecorded, removed, err>>
      /\ pc' = "persist"
  BY DEF checkOrphanedSnapshots, Reading, GoTo, userVars, awsVars, history
<1>2. \/ mem' = mem
      \/ mem' = VerifiedSnapshot(mem) /\ mem.snap.id # NoEpisode /\ snapshots[mem.snap.id] # "none"
      \/ mem' = Forget /\ snapshots[mem.snap.id] \notin {"creating", "available"}
  BY ZenonT(40) DEF checkOrphanedSnapshots
<1> QED  BY <1>0, <1>1, <1>2, SnapshotReadKeeps

\* The snapshot is recorded as it is created, or its name is unrecorded.
LEMMA CreateDBSnapshotKeeps ==
    ASSUME DatabaseInv, CreateDBSnapshot
    PROVE  DatabaseInv'
<1> DEFINE id == mem.inst.episode
           made == [state |-> "Creating", id |-> id]
<1>0. pc = "createSnapshot" /\ Mem
  BY Zenon DEF CreateDBSnapshot, Mem
<1>1. /\ mem \in Ledgers /\ Knows(mem) /\ id \in Episodes /\ mem.snap.id = NoEpisode /\ store.snap.id = NoEpisode
      /\ snapshots \in [Episodes -> {"none", "creating", "available", "failed", "retagged"}]
      /\ unrecorded \subseteq Episodes \cup {Claim} /\ removed \subseteq Episodes
      /\ NoEpisode \notin Episodes
  BY <1>0, CleaningFacts, SnapshotStepFacts, EpisodesAssumption, Zenon DEF Control, Snapshots, Undeclaring
<1>2. UNCHANGED <<spec, cr, calm, store, instance, view, lost>> /\ pc' = "orphans" /\ err' \in {err, TRUE}
  BY Zenon DEF CreateDBSnapshot, GoTo, FailTo, userVars
<1>3. pc' \notin Early \cup {"idle"}
  BY <1>2 DEF Early, Undeclaring, EnsureSteps
<1>4. CASE UNCHANGED <<snapshots, mem, unrecorded, removed>>
  BY <1>0, <1>2, <1>4, SnapshotReadKeeps, Zenon
<1>5. CASE /\ snapshots' = [snapshots EXCEPT ![id] = IF @ = "none" THEN "creating" ELSE @]
           /\ removed' = removed \ {id} /\ mem' = WithSnapshot(mem, made) /\ unrecorded' = unrecorded
  <2>1. made \in SnapshotEntries /\ made.id = id /\ made.state = "Creating"
    BY <1>1, SnapshotFacts, Zenon
  <2> HIDE DEF made
  <2>2. mem' \in Ledgers /\ mem'.inst = mem.inst /\ mem'.snap = made
    BY <1>1, <1>5, <2>1, LedgerFacts, ZenonT(40)
  <2>3. /\ snapshots' \in [Episodes -> {"none", "creating", "available", "failed", "retagged"}]
        /\ \A e \in Episodes : e # id => snapshots'[e] = snapshots[e]
    BY <1>1, <1>5, Zenon
  <2>4. Knows(mem)'
    BY <1>1, <1>5, <2>1, <2>2, <2>3 DEF Knows
  <2>5. Sole(store)' /\ Sole(mem)'
    BY <1>1, <1>2, <2>1, <2>2 DEF Sole
  <2>6. Snapshots'
    BY <1>3, <2>4, <2>5, SnapshotsChanged, Zenon
  <2> QED  BY <1>0, <1>1, <1>2, <1>5, <2>2, <2>3, <2>6, SnapshotStepKeeps, Zenon
<1>6. CASE /\ snapshots' = [snapshots EXCEPT ![id] = IF @ = "none" THEN "creating" ELSE @]
           /\ removed' = removed \ {id} /\ mem' = mem /\ unrecorded' = unrecorded \cup {id}
  <2>1. /\ snapshots' \in [Episodes -> {"none", "creating", "available", "failed", "retagged"}]
        /\ \A e \in Episodes : e # id => snapshots'[e] = snapshots[e]
    BY <1>1, <1>6, Zenon
  <2>2. mem.snap.state # "Verified"
    BY <1>0, <1>1, SnapshotStepFacts, Zenon
  <2>3. Knows(mem)'
    BY <1>1, <1>6, <2>1, <2>2, Zenon DEF Knows
  <2>4. Sole(store)' /\ Sole(mem)'
    BY <1>1, <1>2, <1>6 DEF Sole
  <2>5. Snapshots'
    BY <1>3, <2>3, <2>4, SnapshotsChanged
  <2>6. unrecorded' \subseteq Episodes \cup {Claim} /\ removed' \subseteq Episodes
    BY <1>1, <1>6
  <2> QED  BY <1>0, <1>1, <1>2, <1>6, <2>1, <2>5, <2>6, SnapshotStepKeeps, Zenon
<1> QED  BY <1>4, <1>5, <1>6 DEF CreateDBSnapshot

\* The snapshot is forgotten as it is deleted, or its name is unrecorded.
LEMMA DeleteDBSnapshotKeeps ==
    ASSUME DatabaseInv, DeleteDBSnapshot
    PROVE  DatabaseInv'
<1> DEFINE id == mem.snap.id
<1>0. pc = "deleteSnapshot" /\ Mem
  BY DEF DeleteDBSnapshot, Mem
<1>1. /\ mem \in Ledgers /\ Knows(mem) /\ id \in Episodes /\ Sole(mem) /\ Sole(store)
      /\ snapshots \in [Episodes -> {"none", "creating", "available", "failed", "retagged"}]
      /\ unrecorded \subseteq Episodes \cup {Claim} /\ removed \subseteq Episodes
      /\ Forget \in Ledgers /\ Forget.inst = mem.inst /\ Forget.snap = NoSnapshotEntry
      /\ mem.inst.episode \in Episodes \cup {NoEpisode} /\ store.inst.episode \in Episodes \cup {NoEpisode}
  BY <1>0, CleaningFacts, SnapshotStepFacts, StateFields, EntryFields, Zenon DEF Control
<1>2. /\ UNCHANGED <<spec, cr, calm, store, instance, view, lost, removed>> /\ pc' = "orphans" /\ err' \in {err, TRUE}
      /\ snapshots' = [snapshots EXCEPT ![id] = "none"]
      /\ \/ mem' = Forget /\ unrecorded' = unrecorded
         \/ mem' = mem /\ unrecorded' = unrecorded \cup {id}
  BY ZenonT(40) DEF DeleteDBSnapshot, GoTo, FailTo, userVars
<1>3. /\ snapshots' \in [Episodes -> {"none", "creating", "available", "failed", "retagged"}]
      /\ snapshots'[id] = "none" /\ \A e \in Episodes : e # id => snapshots'[e] = snapshots[e]
  BY <1>1, <1>2
<1>4. NoSnapshotEntry.id = NoEpisode /\ NoSnapshotEntry.state = "None"
  BY SnapshotFacts, Zenon
<1>5. Knows(mem)'
  BY <1>1, <1>2, <1>3, <1>4, Zenon DEF Knows
<1>6. Sole(store)' /\ Sole(mem)'
  BY <1>1, <1>2, <1>3, <1>4 DEF Sole
<1>7. Snapshots'
  <2>1. pc' \notin Early \cup {"idle"}
    BY <1>2, Zenon DEF Early, Undeclaring, EnsureSteps
  <2> QED  BY <1>5, <1>6, <2>1, SnapshotsChanged
<1>8. /\ unrecorded' \subseteq Episodes \cup {Claim} /\ removed' \subseteq Episodes
      /\ mem' \in Ledgers /\ mem'.inst = mem.inst /\ (Claim \in unrecorded => Claim \in unrecorded')
  BY <1>1, <1>2, Zenon
<1> QED  BY <1>0, <1>2, <1>3, <1>7, <1>8, SnapshotStepKeeps, Zenon

\* A call that fails leaves everything to the next step.
LEMMA CallFailsKeeps ==
    ASSUME DatabaseInv, CallFails
    PROVE  DatabaseInv'
<1>1. /\ UNCHANGED <<spec, cr, calm, store, instance, snapshots, view, mem, lost, unrecorded, removed>>
      /\ err' = TRUE /\ (Owned' = Owned)
      /\ \/ pc \in EnsureSteps /\ pc' = "cleanup"
         \/ pc \in CleanupSteps \ {"orphans"} /\ pc' = "orphans"
         \/ pc = "orphans" /\ pc' = "persist"
  BY DEF CallFails, Reading, FailTo, userVars, awsVars, history, Owned
<1>2. CASE pc \in EnsureSteps /\ pc' = "cleanup"
  BY <1>1, <1>2, EnsuringFacts, EnsuringKeeps, Zenon
<1>3. CASE pc \in {"release", "untag", "verify"} /\ pc' = "orphans"
  <2>1. Mem
    BY <1>3, Zenon DEF Mem
  <2> QED  BY <1>1, <1>3, <2>1, CleaningFacts, LeavingKeeps
<1>4. CASE \/ pc \in {"retire", "deleteSnapshot", "snapshot", "createSnapshot"} /\ pc' = "orphans"
           \/ pc = "orphans" /\ pc' = "persist"
  BY <1>1, <1>4, SnapshotReadKeeps
<1> QED  BY <1>1, <1>2, <1>3, <1>4, ZenonT(40) DEF CleanupSteps

-----------------------------------------------------------------------------
(* The ledger is saved, or lost.                                           *)

\* What is persisted knows the snapshots, or the history says what it missed.
LEMMA SavedKnows ==
    ASSUME DatabaseInv, Mem, Saved, UNCHANGED <<instance, snapshots, removed>>
    PROVE  /\ store' = mem /\ store' \in Ledgers /\ unrecorded' \subseteq Episodes \cup {Claim}
           /\ Knows(store)' /\ Sole(store)'
<1>1. /\ Knows(mem) /\ Sole(mem) /\ mem \in Ledgers /\ mem.snap.id \in Episodes \cup {NoEpisode}
      /\ mem.snap.state = "None" <=> mem.snap.id = NoEpisode
  BY StateFields, SnapshotFacts DEF DatabaseInv, Snapshots
<1>2. store' = mem /\ unrecorded' = unrecorded \cap Unknown(mem)
  BY DEF Saved
<1>3. Unknown(mem) \subseteq Episodes \cup {Claim}
  BY Zenon DEF Unknown
<1>4. \A e \in Episodes : (mem.snap.id = e) # (snapshots[e] # "none") => e \in Unknown(mem)
  BY Zenon DEF Unknown
<1>5. ASSUME NEW e \in Episodes, snapshots'[e] \in {"creating", "available"}, e # mem.snap.id
      PROVE  e \in unrecorded'
  BY <1>1, <1>2, <1>4, <1>5, Zenon DEF Knows
<1>6. ASSUME mem.snap.state = "Verified", mem.snap.id \notin unrecorded' \cup removed'
      PROVE  snapshots'[mem.snap.id] # "none"
  BY <1>1, <1>2, <1>4, <1>6, Zenon DEF Knows
<1>7. Knows(store)'
  BY <1>2, <1>5, <1>6, Zenon DEF Knows
<1>8. Sole(store)'
  BY <1>1, <1>2 DEF Sole
<1> QED  BY <1>1, <1>2, <1>3, <1>7, <1>8, ZenonT(40)

\* When the write is lost, all that the pass did is unrecorded.
LEMMA LostKnows ==
    ASSUME DatabaseInv, Lost, UNCHANGED <<instance, snapshots, removed>>
    PROVE  /\ store' = store /\ unrecorded' \subseteq Episodes \cup {Claim}
           /\ Knows(store)' /\ Sole(store)'
<1>1. /\ Sole(store) /\ store.snap.id \in Episodes \cup {NoEpisode}
      /\ store.snap.state = "None" <=> store.snap.id = NoEpisode
  BY StateFields, SnapshotFacts DEF DatabaseInv, Snapshots
<1>2. store' = store /\ unrecorded' = (unrecorded \cup Episodes) \cap Unknown(store)
  BY Zenon DEF Lost
<1>3. Unknown(store) \subseteq Episodes \cup {Claim}
  BY ZenonT(40) DEF Unknown
<1>4. \A e \in Episodes : (store.snap.id = e) # (snapshots[e] # "none") => e \in Unknown(store)
  BY DEF Unknown
<1>5. ASSUME NEW e \in Episodes, snapshots'[e] \in {"creating", "available"}, e # store.snap.id
      PROVE  e \in unrecorded'
  BY <1>2, <1>4, <1>5, Zenon
<1>6. ASSUME store.snap.state = "Verified", store.snap.id \notin unrecorded' \cup removed'
      PROVE  snapshots'[store.snap.id] # "none"
  BY <1>1, <1>2, <1>4, <1>6, Zenon
<1>7. Knows(store)'
  BY <1>2, <1>5, <1>6, Zenon DEF Knows
<1>8. Sole(store)'
  BY <1>1, <1>2 DEF Sole
<1> QED  BY <1>2, <1>3, <1>7, <1>8, ZenonT(40)

\* An instance of the CR's that the persisted ledger misses is a claim that the
\* history knows of.
LEMMA EndClaims ==
    ASSUME DatabaseInv, Mem, Saved \/ Lost, instance' = instance, Owned', ~Tracked(store'.inst)
    PROVE  Claim \in unrecorded'
<1>1. Claims /\ Owned
  BY DEF DatabaseInv, Owned
<1>2. Claim \in unrecorded
  BY <1>1, Zenon DEF Claims, Saved, Lost
<1>3. ASSUME NEW l, ~Tracked(l.inst)
      PROVE  Claim \in Unknown(l)
  BY <1>1, <1>3 DEF Unknown, Owned
<1>4. CASE Saved
  BY <1>2, <1>3, <1>4, Zenon DEF Saved
<1>5. CASE Lost
  BY <1>2, <1>3, <1>5 DEF Lost
<1> QED  BY <1>4, <1>5

\* The pass ends, with its ledger saved or lost, and the finalizer gone or kept.
LEMMA EndKeeps ==
    ASSUME DatabaseInv, Mem, EndPass, Saved \/ Lost, UNCHANGED <<spec, calm, instance, snapshots, lost, removed>>,
           cr' = cr \/ (pc = "persist" /\ Finalized /\ cr' = "gone")
    PROVE  DatabaseInv'
<1>1. pc' = "idle" /\ view' = IdleView /\ mem' = NoLedger /\ err' = FALSE /\ ~IdleView.deleting
  BY ZenonT(40) DEF EndPass, IdleView
<1>2. /\ store' \in {mem, store} /\ store' \in Ledgers /\ unrecorded' \subseteq Episodes \cup {Claim}
      /\ Knows(store)' /\ Sole(store)'
  BY SavedKnows, LostKnows, StateFields DEF DatabaseInv
<1>3. TypeOK'
  <2>1. NoLedger \in Ledgers /\ IdleView \in Views
    BY NewLedgers, SpecFacts, Zenon
  <2>2. TypeOK /\ cr' \in {"live", "deleting", "gone"}
    BY Zenon DEF DatabaseInv, TypeOK
  <2> QED  BY <1>1, <1>2, <2>1, <2>2, Zenon DEF TypeOK
<1>4. Control'
  BY <1>1 DEF Control, Mem, EnsureSteps, Undeclaring
<1>5. Snapshots'
  BY <1>1, <1>2, Zenon DEF Snapshots, Mem, EnsureSteps, Undeclaring
<1>6. Missing'
  <2>1. Missing /\ Control
    BY Zenon DEF DatabaseInv
  <2>2. lost => cr' = cr
    BY <2>1 DEF Missing, Control, Finalized
  <2>3. lost => Tracked(store'.inst)
    BY <1>2, <2>1, Zenon DEF Missing
  <2> QED  BY <1>1, <2>1, <2>2, <2>3, Zenon DEF Missing, Mem
<1>7. Claims'
  <2>1. Claims /\ Control /\ cr # "gone"
    BY DEF DatabaseInv, Control, Mem
  <2>2. ASSUME cr' = "gone", Owned'
        PROVE  ~Tracked(store'.inst)
    <3>1. pc = "persist" /\ Finalized /\ Owned
      BY <2>1, <2>2, Zenon DEF Owned
    <3>2. ~Tracked(mem.inst)
      BY <2>1, <3>1, ZenonT(40) DEF Claims, Finalized, Tracked
    <3>3. ~Tracked(store.inst)
      BY <2>1, <3>1, <3>2, Zenon DEF Claims, Finalized
    <3> QED  BY <1>2, <3>2, <3>3
  <2>3. Owned' /\ ~Tracked(store'.inst) => Claim \in unrecorded'
    BY EndClaims
  <2> QED  BY <1>1, <2>2, <2>3, ZenonT(40) DEF Claims, Mem
<1> QED  BY <1>3, <1>4, <1>5, <1>6, <1>7, Zenon DEF DatabaseInv

\* The status is written, and the finalizer may go.
LEMMA PersistKeeps ==
    ASSUME DatabaseInv, Persist
    PROVE  DatabaseInv'
BY EndKeeps DEF Persist, Mem, awsVars

\* The operator stops, or the write fails: what the pass learned is lost.
LEMMA CrashKeeps ==
    ASSUME DatabaseInv, Crash
    PROVE  DatabaseInv'
BY EndKeeps, Zenon DEF Crash, Mem, awsVars, userVars

\* A checkpoint saves the ledger, and may show Cleanup another spec.
LEMMA CheckpointKeeps ==
    ASSUME DatabaseInv, Checkpoint
    PROVE  DatabaseInv'
<1>0. TypeOK /\ Control /\ Snapshots /\ Missing /\ Claims
  BY DEF DatabaseInv
<1>1. /\ pc \in {"cleanup", "persist"} /\ Mem /\ ~view.deleting /\ Saved
      /\ UNCHANGED <<spec, cr, calm, instance, snapshots, pc, mem, err, lost, removed>>
      /\ view' \in {view, [view EXCEPT !.declared = spec.declared]}
  BY DEF Checkpoint, Mem, userVars, awsVars
<1>2. /\ view' \in Views /\ ~view'.deleting /\ view'.declared \in {view.declared, spec.declared}
  BY <1>0, <1>1, StateFields DEF Views
<1>3. /\ store' = mem /\ store' \in Ledgers /\ unrecorded' \subseteq Episodes \cup {Claim}
      /\ Knows(store)' /\ Sole(store)'
  BY <1>1, SavedKnows
<1>4. TypeOK'
  BY <1>0, <1>1, <1>2, <1>3, Zenon DEF TypeOK
<1>5. Control'
  BY <1>0, <1>1, <1>2, Zenon DEF Control, Mem, EnsureSteps, Undeclaring
<1>6. Snapshots'
  <2>1. Knows(mem)' /\ Sole(mem)'
    BY <1>1, <1>3 DEF Knows, Sole
  <2>2. \A e \in Episodes : Used(e)' <=> Used(e)
    BY <1>1 DEF Used
  <2> QED  BY <1>0, <1>1, <1>3, <2>1, <2>2, Zenon DEF Snapshots, Mem
<1>7. Missing'
  BY <1>0, <1>1, <1>2, <1>3, ZenonT(40) DEF Missing, Mem
<1>8. Claims'
  <2>1. Owned' /\ ~Tracked(store'.inst) => Claim \in unrecorded'
    BY <1>1, EndClaims, Zenon
  <2> QED  BY <1>0, <1>1, <1>2, <1>3, <2>1, Zenon DEF Claims, Control, Mem
<1> QED  BY <1>4, <1>5, <1>6, <1>7, <1>8 DEF DatabaseInv

-----------------------------------------------------------------------------
(* Everybody else.                                                         *)

\* An edit of the spec and the deletion of the CR leave the pass alone.
LEMMA UsersKeep ==
    ASSUME DatabaseInv,
           UNCHANGED <<store, instance, snapshots, pc, view, mem, err, unrecorded, removed>>,
           spec' \in Specs, calm' \in BOOLEAN, lost' \in BOOLEAN,
           cr' = cr \/ (cr = "live" /\ cr' = "deleting"),
           lost' => lost /\ spec'.declared /\ cr' = "live"
    PROVE  DatabaseInv'
<1>0. TypeOK /\ Control /\ Snapshots /\ Missing /\ Claims
  BY DEF DatabaseInv
<1>1. TypeOK'
  <2>1. cr' \in {"live", "deleting", "gone"}
    BY <1>0, Zenon DEF TypeOK
  <2> QED  BY <1>0, <2>1, Zenon DEF TypeOK
<1>2. Control'
  BY <1>0 DEF Control, Mem
<1>3. Snapshots'
  <2>1. Knows(store)' = Knows(store) /\ Knows(mem)' = Knows(mem) /\ Sole(store)' = Sole(store) /\ Sole(mem)' = Sole(mem)
    BY ZenonT(40) DEF Knows, Sole
  <2>2. \A e \in Episodes : Used(e)' <=> Used(e)
    BY DEF Used
  <2> QED  BY <1>0, <2>1, <2>2, ZenonT(40) DEF Snapshots, Mem
<1>4. Missing'
  BY <1>0, Zenon DEF Missing, Mem
<1>5. Claims'
  BY <1>0, ZenonT(40) DEF Claims, Mem, Owned
<1> QED  BY <1>1, <1>2, <1>3, <1>4, <1>5, ZenonT(40) DEF DatabaseInv

\* Nobody but the operator makes an instance the CR's.
LEMMA InstanceKeeps ==
    ASSUME DatabaseInv, UNCHANGED <<spec, cr, calm, store, snapshots, pc, view, mem, err, unrecorded, removed>>,
           instance' \in [exists : BOOLEAN, tags : Tags, status : Statuses], Owned' => Owned,
           lost' \in BOOLEAN,
           lost' => /\ ~instance'.exists /\ spec.declared /\ cr = "live" /\ Tracked(store.inst)
                    /\ Mem => view.declared
    PROVE  DatabaseInv'
<1>0. TypeOK /\ Control /\ Snapshots /\ Missing /\ Claims
  BY DEF DatabaseInv
<1>1. TypeOK'
  BY <1>0, ZenonT(40) DEF TypeOK
<1>2. Control'
  BY <1>0 DEF Control, Mem
<1>3. Snapshots'
  <2>1. Knows(store)' = Knows(store) /\ Knows(mem)' = Knows(mem) /\ Sole(store)' = Sole(store) /\ Sole(mem)' = Sole(mem)
    BY Zenon DEF Knows, Sole
  <2>2. \A e \in Episodes : Used(e)' <=> Used(e)
    BY Zenon DEF Used
  <2> QED  BY <1>0, <2>1, <2>2, Zenon DEF Snapshots, Mem
<1>4. Missing'
  BY <1>0, ZenonT(40) DEF Missing, Mem
<1>5. Claims'
  BY <1>0, Zenon DEF Claims, Mem
<1> QED  BY <1>1, <1>2, <1>3, <1>4, <1>5, ZenonT(40) DEF DatabaseInv

\* Somebody deletes the instance: it is lost when the ledger knew it.
LEMMA OutsideDeleteKeeps ==
    ASSUME DatabaseInv, OutsideDelete
    PROVE  DatabaseInv'
<1>1. /\ UNCHANGED <<spec, cr, calm, store, snapshots, pc, view, mem, err, unrecorded, removed>>
      /\ instance' = NoInstance
      /\ lost' = /\ spec.declared /\ cr = "live" /\ (pc = "idle" \/ view.declared)
                 /\ Tracked(store.inst) /\ IsOwnedBy(instance.tags)
  BY DEF OutsideDelete, userVars, passVars
<1>2. NoInstance \in [exists : BOOLEAN, tags : Tags, status : Statuses] /\ ~NoInstance.exists
  BY TagFacts, SMTT(30) DEF NoInstance, Statuses
<1>3. lost' \in BOOLEAN
  BY <1>1, Zenon
<1>4. lost' => spec.declared /\ cr = "live" /\ Tracked(store.inst) /\ (Mem => view.declared)
  BY <1>1, Zenon DEF Tracked, Mem
<1> QED  BY <1>1, <1>2, <1>3, <1>4, InstanceKeeps, Zenon DEF Owned

\* Somebody puts an instance of their own under the name.
LEMMA OutsideCreateKeeps ==
    ASSUME DatabaseInv, OutsideCreate
    PROVE  DatabaseInv'
<1>1. /\ UNCHANGED <<spec, cr, calm, store, snapshots, pc, view, mem, err, unrecorded, removed>>
      /\ lost' = FALSE
  BY DEF OutsideCreate, userVars, passVars
<1>2. PICK t \in ForeignTags : instance' = NewInstance(t, "available")
  BY ZenonT(40) DEF OutsideCreate
<1>3. instance' \in [exists : BOOLEAN, tags : Tags, status : Statuses] /\ ~IsOwnedBy(instance'.tags)
  BY <1>2, TagFacts DEF NewInstance, Statuses
<1> QED  BY <1>1, <1>3, InstanceKeeps, Zenon DEF Owned

\* The instance is there.
LEMMA InstanceSettlesKeeps ==
    ASSUME DatabaseInv, InstanceSettles
    PROVE  DatabaseInv'
<1>1. /\ UNCHANGED <<spec, cr, calm, store, snapshots, pc, view, mem, err, unrecorded, removed, lost>>
      /\ instance' = [instance EXCEPT !.status = "available"] /\ instance.exists
  BY DEF InstanceSettles, userVars, passVars, history
<1>2. instance \in [exists : BOOLEAN, tags : Tags, status : Statuses] /\ lost \in BOOLEAN /\ ~lost
  BY <1>1 DEF DatabaseInv, TypeOK, Missing
<1>3. /\ instance' \in [exists : BOOLEAN, tags : Tags, status : Statuses]
      /\ instance'.tags = instance.tags
  BY <1>1, <1>2, ZenonT(40) DEF Statuses
<1> QED  BY <1>1, <1>2, <1>3, InstanceKeeps DEF Owned

\* A snapshot settles, or somebody else changes it.
LEMMA SnapshotChangesKeep ==
    ASSUME DatabaseInv, UNCHANGED <<spec, cr, calm, store, instance, pc, view, mem, err, lost, unrecorded>>,
           NEW e \in Episodes, NEW s \in {"none", "available", "failed", "retagged"},
           snapshots[e] # "none", s = "available" => snapshots[e] = "creating",
           snapshots' = [snapshots EXCEPT ![e] = s],
           removed' \in {removed, removed \cup {e}}, s = "none" => e \in removed'
    PROVE  DatabaseInv'
<1>0. TypeOK /\ Control /\ Snapshots /\ Missing /\ Claims
  BY Zenon DEF DatabaseInv
<1>1. /\ snapshots \in [Episodes -> {"none", "creating", "available", "failed", "retagged"}]
      /\ store.snap.id \in Episodes \cup {NoEpisode} /\ mem.snap.id \in Episodes \cup {NoEpisode}
      /\ store.inst.episode \in Episodes \cup {NoEpisode} /\ mem.inst.episode \in Episodes \cup {NoEpisode}
      /\ store.snap.state = "None" <=> store.snap.id = NoEpisode
      /\ mem.snap.state = "None" <=> mem.snap.id = NoEpisode
  BY <1>0, StateFields, SnapshotFacts, EntryFields, ZenonT(40) DEF TypeOK
<1>2. /\ snapshots' \in [Episodes -> {"none", "creating", "available", "failed", "retagged"}]
      /\ \A f \in Episodes : snapshots'[f] \in {"creating", "available"} => snapshots[f] \in {"creating", "available"}
      /\ \A f \in Episodes : snapshots'[f] # "none" => snapshots[f] # "none"
      /\ \A f \in Episodes : snapshots[f] # "none" /\ snapshots'[f] = "none" => f \in removed'
      /\ removed \subseteq removed' /\ removed' \subseteq Episodes
  BY <1>0, <1>1 DEF TypeOK
<1>3. TypeOK'
  BY <1>0, <1>2, ZenonT(40) DEF TypeOK
<1>4. Control'
  BY <1>0 DEF Control, Mem
<1>5. Snapshots'
  <2>1. ASSUME NEW l, l.snap.id \in Episodes \cup {NoEpisode}, l.snap.state = "Verified" => l.snap.id # NoEpisode
        PROVE  /\ Knows(l) => /\ \A f \in Episodes : snapshots'[f] \in {"creating", "available"}
                                      => f \in {l.snap.id} \cup unrecorded
                              /\ l.snap.state = "Verified" /\ l.snap.id \notin unrecorded \cup removed'
                                      => snapshots'[l.snap.id] # "none"
    BY <1>2, <2>1, Zenon DEF Knows
  <2>2. (Knows(store) => Knows(store)') /\ (Knows(mem) => Knows(mem)')
    BY <1>1, <2>1, Zenon DEF Knows
  <2>3. (Sole(store) => Sole(store)') /\ (Sole(mem) => Sole(mem)')
    BY <1>1, <1>2, Zenon DEF Sole
  <2>4. \A f \in Episodes : Used(f)' => Used(f)
    BY <1>2 DEF Used
  <2> QED  BY <1>0, <2>2, <2>3, <2>4, Zenon DEF Snapshots, Mem
<1>6. Missing'
  BY <1>0, Zenon DEF Missing, Mem
<1>7. Claims'
  BY <1>0, Zenon DEF Claims, Mem, Owned
<1> QED  BY <1>3, <1>4, <1>5, <1>6, <1>7, ZenonT(40) DEF DatabaseInv

\* Time passes.
LEMMA TickKeeps ==
    ASSUME DatabaseInv, Tick
    PROVE  DatabaseInv'
<1>0. TypeOK /\ Control /\ Snapshots /\ Missing /\ Claims
  BY DEF DatabaseInv
<1>1. UNCHANGED <<spec, cr, calm, instance, snapshots, pc, view, err, lost, unrecorded, removed>>
  BY ZenonT(40) DEF Tick, userVars, awsVars, history
<1>2. /\ store' \in Ledgers /\ store'.snap = store.snap /\ store'.inst.state = store.inst.state
      /\ store'.inst.episode = store.inst.episode
      /\ mem' \in Ledgers /\ mem'.snap = mem.snap /\ mem'.inst.state = mem.inst.state
      /\ mem'.inst.episode = mem.inst.episode /\ mem'.inst.policy = mem.inst.policy
  BY <1>0, StateFields, OlderFacts, ZenonT(40) DEF Tick
<1>3. (Tracked(store.inst)' <=> Tracked(store.inst)) /\ (Tracked(mem.inst)' <=> Tracked(mem.inst))
  BY <1>2 DEF Tracked
<1>4. TypeOK'
  BY <1>0, <1>1, <1>2, ZenonT(40) DEF TypeOK
<1>5. Control'
  BY <1>0, <1>1, <1>2, <1>3, Zenon DEF Control, Mem
<1>6. Snapshots'
  <2>1. /\ Knows(store)' <=> Knows(store)
        /\ Knows(mem)' <=> Knows(mem)
    BY <1>1, <1>2 DEF Knows
  <2>2. /\ Sole(store)' <=> Sole(store)
        /\ Sole(mem)' <=> Sole(mem)
    BY <1>1, <1>2, ZenonT(40) DEF Sole
  <2>3. \A e \in Episodes : Used(e)' <=> Used(e)
    BY <1>1, <1>2 DEF Used
  <2> QED  BY <1>0, <1>1, <1>2, <2>1, <2>2, <2>3, ZenonT(40) DEF Snapshots, Mem
<1>7. Missing'
  BY <1>0, <1>1, <1>3, ZenonT(40) DEF Missing, Mem
<1>8. Claims'
  BY <1>0, <1>1, <1>2, <1>3, Zenon DEF Claims, Mem, Owned
<1> QED  BY <1>4, <1>5, <1>6, <1>7, <1>8 DEF DatabaseInv

-----------------------------------------------------------------------------
(* The invariant, and what follows from it.                                *)

\* A new CR, and one whose instance an earlier spec declared.
LEMMA DatabaseInit == Init => DatabaseInv
<1> SUFFICES ASSUME Init
             PROVE  DatabaseInv
  OBVIOUS
<1>1. /\ spec \in Specs /\ cr = "live" /\ calm = FALSE /\ snapshots = [e \in Episodes |-> "none"]
      /\ pc = "idle" /\ view = IdleView /\ mem = NoLedger /\ err = FALSE
      /\ lost = FALSE /\ unrecorded = {} /\ removed = {}
  BY ZenonT(40) DEF Init
<1>2. /\ store \in Ledgers /\ store.snap = NoSnapshotEntry
      /\ instance \in [exists : BOOLEAN, tags : Tags, status : Statuses] /\ (Owned => Tracked(store.inst))
  <2>1. CASE /\ store = NoLedger
             /\ instance \in {NoInstance} \cup {NewInstance(t, "available") : t \in ForeignTags}
    <3>1. /\ instance \in [exists : BOOLEAN, tags : Tags, status : Statuses]
          /\ ~IsOwnedBy(instance.tags)
      <4>1. CASE instance = NoInstance
        BY <4>1, TagFacts, Zenon DEF NoInstance, Statuses
      <4>2. ASSUME NEW t \in ForeignTags, instance = NewInstance(t, "available")
            PROVE  /\ instance \in [exists : BOOLEAN, tags : Tags, status : Statuses]
                   /\ ~IsOwnedBy(instance.tags)
        BY <4>2, TagFacts DEF NewInstance, Statuses
      <4> QED  BY <2>1, <4>1, <4>2, Zenon
    <3> QED  BY <2>1, <3>1, NewLedgers, Zenon DEF Owned
  <2>2. CASE /\ store = WithInstance(NoLedger, recordVerified("Retain"))
             /\ instance = NewInstance(ownerTags, "available")
    <3>1. instance \in [exists : BOOLEAN, tags : Tags, status : Statuses]
      BY <2>2, TagFacts, ZenonT(40) DEF NewInstance, Statuses
    <3>2. Tracked(recordVerified("Retain"))
      BY NewEntries DEF Tracked, DeletionPolicies
    <3> QED  BY <2>2, <3>1, <3>2, NewLedgers, ZenonT(40)
  <2> QED  BY <2>1, <2>2, Zenon DEF Init
<1>3. TypeOK
  <2>1. NoLedger \in Ledgers /\ IdleView \in Views
    BY NewLedgers, SpecFacts
  <2>2. snapshots \in [Episodes -> {"none", "creating", "available", "failed", "retagged"}]
    BY <1>1, Zenon
  <2> QED  BY <1>1, <1>2, <2>1, <2>2, Zenon DEF TypeOK
<1>4. Control
  BY <1>1 DEF Control, Mem, EnsureSteps, Undeclaring
<1>5. Snapshots
  <2>1. store.snap.id = NoEpisode /\ store.snap.state = "None" /\ \A e \in Episodes : snapshots[e] = "none"
    BY <1>1, <1>2, SnapshotFacts
  <2>2. Knows(store) /\ Sole(store)
    BY <2>1, ZenonT(40) DEF Knows, Sole
  <2> QED  BY <1>1, <2>2, Zenon DEF Snapshots, Mem, EnsureSteps, Undeclaring
<1>6. Missing /\ Claims
  BY <1>1, <1>2 DEF Missing, Claims, Mem
<1> QED  BY <1>3, <1>4, <1>5, <1>6 DEF DatabaseInv

\* Every step of the operator, of its users and of AWS keeps the invariant.
LEMMA DatabaseStep == DatabaseInv /\ [Next \/ Calm]_vars => DatabaseInv'
<1> SUFFICES ASSUME DatabaseInv, [Next \/ Calm]_vars
             PROVE  DatabaseInv'
  OBVIOUS
<1>0. spec \in Specs /\ calm \in BOOLEAN /\ lost \in BOOLEAN /\ (lost => spec.declared /\ cr = "live")
  BY DEF DatabaseInv, TypeOK, Missing
<1>1. CASE Begin \/ lookupInstance \/ createInstance \/ ensureInstanceOwnership \/ adoptInstance
           \/ ensureInstanceObserving \/ Cleanup \/ retainEntry \/ relinquishIfStillTagged
  BY <1>1, BeginKeeps, lookupInstanceKeeps, createInstanceKeeps, ensureInstanceOwnershipKeeps,
     adoptInstanceKeeps, ensureInstanceObservingKeeps, CleanupKeeps, retainEntryKeeps,
     relinquishIfStillTaggedKeeps, ZenonT(40)
<1>2. CASE pendDeletion \/ ensureFinalSnapshot \/ CreateDBSnapshot \/ retireFinalSnapshot
           \/ DeleteDBSnapshot \/ checkOrphanedSnapshots \/ Persist
  BY <1>2, pendDeletionKeeps, ensureFinalSnapshotKeeps, CreateDBSnapshotKeeps, retireFinalSnapshotKeeps,
     DeleteDBSnapshotKeeps, checkOrphanedSnapshotsKeeps, PersistKeeps, ZenonT(40)
<1>3. CASE Checkpoint \/ CallFails \/ Crash
  BY <1>3, CheckpointKeeps, CallFailsKeeps, CrashKeeps, ZenonT(40)
<1>4. CASE EditSpec
  BY <1>0, <1>4, UsersKeep DEF EditSpec, awsVars, passVars
<1>5. CASE DeleteCR
  BY <1>0, <1>5, UsersKeep, SpecFacts, Zenon DEF DeleteCR, awsVars, passVars
<1>6. CASE Calm
  BY <1>0, <1>6, UsersKeep, ZenonT(40) DEF Calm, awsVars, passVars, history
<1>7. CASE UNCHANGED vars
  BY <1>0, <1>7, UsersKeep, ZenonT(40) DEF vars, userVars, awsVars, passVars, history
<1>8. CASE OutsideDelete \/ OutsideCreate \/ InstanceSettles
  BY <1>8, OutsideDeleteKeeps, OutsideCreateKeeps, InstanceSettlesKeeps
<1>9. CASE SnapshotSettles
  <2>1. PICK e \in Episodes, s \in {"available", "failed"} :
            snapshots[e] = "creating" /\ snapshots' = [snapshots EXCEPT ![e] = s]
    BY <1>9, Zenon DEF SnapshotSettles
  <2> QED  BY <1>9, <2>1, SnapshotChangesKeep, Zenon DEF SnapshotSettles, userVars, passVars, history
<1>10. CASE OutsideSnapshot
  <2>1. PICK e \in Episodes, s \in {"none", "retagged"} :
            /\ snapshots[e] \in {"available", "failed"}
            /\ snapshots' = [snapshots EXCEPT ![e] = s] /\ removed' = removed \cup {e}
    BY <1>10, Zenon DEF OutsideSnapshot
  <2> QED  BY <1>10, <2>1, SnapshotChangesKeep, Zenon DEF OutsideSnapshot, userVars, passVars
<1>11. CASE Tick
  BY <1>11, TickKeeps
<1> QED  BY <1>1, <1>2, <1>3, <1>4, <1>5, <1>6, <1>7, <1>8, <1>9, <1>10, <1>11, ZenonT(40) DEF Next, Pass

\* The invariant holds of every behaviour, fair or not.
THEOREM DatabaseInvariant == (Spec => []DatabaseInv) /\ (FairSpec => []DatabaseInv)
<1>1. DatabaseInv /\ [Next]_vars => DatabaseInv'
  BY DatabaseStep
<1> QED  BY <1>1, DatabaseInit, DatabaseStep, PTL DEF Spec, FairSpec

\* A declared instance that somebody deleted is not replaced by an empty one
\* (ensureMissingInstance), whatever the operator, its users and AWS do next.
THEOREM LostInstance ==
    (Spec => []LostInstanceIsNotReplaced) /\ (FairSpec => []LostInstanceIsNotReplaced)
<1>1. DatabaseInv => LostInstanceIsNotReplaced
  BY Zenon DEF DatabaseInv, Missing, LostInstanceIsNotReplaced
<1> QED  BY <1>1, DatabaseInvariant, PTL

\* The persisted ledger names every final snapshot of the CR's, and the ones it
\* calls Verified exist (ensureFinalSnapshot, retireFinalSnapshot).
THEOREM KnownSnapshots == (Spec => []SnapshotsAreKnown) /\ (FairSpec => []SnapshotsAreKnown)
<1>1. DatabaseInv => SnapshotsAreKnown
  BY Zenon DEF DatabaseInv, Snapshots, Knows, SnapshotsAreKnown
<1> QED  BY <1>1, DatabaseInvariant, PTL

\* The finalizer goes only when no instance carries the CR's tags (rdsSection's
\* finalize), unless the pass that tagged it stopped before recording it.
THEOREM FinalizedInstance ==
    (Spec => []FinalizerHoldsInstance) /\ (FairSpec => []FinalizerHoldsInstance)
<1>1. DatabaseInv => FinalizerHoldsInstance
  BY DEF DatabaseInv, Claims, Owned, FinalizerHoldsInstance
<1> QED  BY <1>1, DatabaseInvariant, PTL
=============================================================================
