------------------------- MODULE KeyLifecycleProofs -------------------------
(***************************************************************************)
(* Proofs about KeyLifecycle, for every set of keys, specs and foreign     *)
(* tags: a key outlives the data recorded as encrypted with it, is changed *)
(* only as the CR's own, can be found again, and is let go of before the   *)
(* CR's finalizer is removed.                                              *)
(***************************************************************************)
EXTENDS KeyLifecycle, TLAPS

-----------------------------------------------------------------------------
(* The inductive invariant.                                                *)

Owned(entry) == entry.state \in {"TagPending", "Verified"}

Usable(k) == keys[k].state \in {"Enabled", "Disabled"}

Ours(k) == Usable(k) /\ IsOwnedBy(keys[k].tags)

\* An entry names a key that was made.
Names(entry) ==
    IF entry.state = "None" THEN entry.arn = NoKey ELSE entry.arn \in Keys /\ keys[entry.arn].state # "Absent"

Named == Names(store.key) /\ Names(mem.key) /\ (alias # NoKey => keys[alias].state # "Absent")

\* The kms section works on its entry's key, or, without an entry of its own, on
\* one that is not yet the CR's.
AtOwned   == {"checkpointKey", "alias", "resume", "takeOver"}
AtFound   == {"adopt", "tag"}
AtRevived == {"revive", "enable"}
AtLeft    == {"relinquish", "untag", "verify", "schedule"}

Control ==
    /\ pc \in EnsureSteps \cup {"stamp", "checkpoint", "checkpointData", "iam"} => ~view.deleting
    /\ cr = "gone" => pc = "idle"
    /\ pc \in AtOwned \cup AtFound \cup AtRevived \cup AtLeft => at \in Keys /\ keys[at].state # "Absent"
    /\ pc \in AtOwned => Owned(mem.key) /\ mem.key.arn = at
    /\ pc \in AtFound \cup {"create"} => ~Owned(mem.key)
    /\ pc \in AtRevived => IF Owned(mem.key) THEN mem.key.arn = at ELSE ~IsOwnedBy(keys[at].tags)
    /\ pc \in AtLeft => mem.key.state # "None" /\ mem.key.arn = at

\* The ledger the next step works from: the pass's, or the persisted one.
Current == IF pc = "idle" THEN store ELSE mem

\* A usable key of this CR's is in that ledger, or was lost.
Tracked == \A k \in Keys : Ours(k) => k \in Recorded(Current) \cup orphaned

\* A deletion pass leaves the persisted entry alone, and once it is done with
\* the key, neither entry names one of the CR's.
Deletion ==
    view.deleting =>
        /\ pc \in {"data", "cleanup"} \cup AtLeft =>
              mem.key.state = store.key.state /\ mem.key.arn = store.key.arn
        /\ pc = "persist" /\ ~err /\ ~waiting =>
              \A k \in Recorded(store) \cup Recorded(mem) : ~Ours(k)

\* Where the pass's ledger still says what the last pass left of the data.
DataUntouched ==
    \/ pc \in EnsureSteps \cup {"stamp"}
    \/ pc \in {"cleanup"} \cup AtLeft /\ (view.deleting \/ ~view.spec.data)
    \/ pc = "data" /\ view.deleting

Holding ==
    /\ ~missed /\ pc = "idle" => ~Unrecorded(store)
    /\ ~missed /\ DataUntouched => ~Unrecorded(mem)
    /\ pc \in AtLeft => view.deleting \/ ~view.spec.data
    /\ pc \in {"verify", "schedule"} => ~Held

KeyInv ==
    /\ TypeOK /\ Named /\ Control /\ Tracked /\ Deletion /\ Holding
    /\ KeyChangesOnlyOwned /\ FinalizerHoldsKey

-----------------------------------------------------------------------------
(* Entries, ledgers and keys.                                              *)

\* What the operator writes is the CR's, what it leaves or somebody else writes is
\* not.
LEMMA TagFacts ==
    /\ ownerTags \in Tags /\ NoTags \in Tags
    /\ IsOwnedBy(ownerTags) /\ ~IsOwnedBy(NoTags)
    /\ \A t \in ForeignTags : t \in Tags /\ ~IsOwnedBy(t)
BY OwnershipAssumption, KeyAssumption DEF ownerTags, NoTags, NoTag, Tags, IsOwnedBy

\* The key's entry, with one of its fields changed.
LEMMA EntryUpdates ==
    ASSUME NEW e \in KeyEntries
    PROVE  /\ e.state \in {"None", "TagPending", "Verified", "Relinquished"} /\ e.arn \in Keys \cup {NoKey}
           /\ e.policy \in DeletionPolicies
           /\ \A p \in DeletionPolicies :
                /\ [e EXCEPT !.policy = p] \in KeyEntries
                /\ [e EXCEPT !.policy = p].state = e.state /\ [e EXCEPT !.policy = p].arn = e.arn
           /\ \A q \in {"no", "quiet", "due"} :
                /\ [e EXCEPT !.pending = q] \in KeyEntries
                /\ [e EXCEPT !.pending = q].state = e.state /\ [e EXCEPT !.pending = q].arn = e.arn
BY DEF KeyEntries

\* The key's entry as it is let go of.
LEMMA LetGoEntry ==
    ASSUME NEW e \in KeyEntries, NEW p \in DeletionPolicies
    PROVE  LET f == [e EXCEPT !.state = "Relinquished", !.fresh = TRUE, !.policy = p]
           IN  f \in KeyEntries /\ f.state = "Relinquished" /\ f.arn = e.arn
BY Zenon DEF KeyEntries

\* No entry.
LEMMA NewEntries ==
    /\ NoKeyEntry \in KeyEntries /\ NoKeyEntry.state = "None" /\ NoKeyEntry.arn = NoKey
    /\ NoDataEntry \in DataEntries /\ NoDataEntry.state = "None" /\ NoDataEntry.key = NoKey
BY DEF KeyEntries, DataEntries, NoKeyEntry, NoDataEntry, DeletionPolicies

\* The data's entry, with some of its fields changed.
LEMMA DataUpdates ==
    ASSUME NEW d \in DataEntries
    PROVE  /\ d.state \in {"None", "Verified", "Relinquished"} /\ d.key \in Keys \cup {NoKey}
           /\ \A k \in Keys :
                /\ [d EXCEPT !.key = k] \in DataEntries
                /\ [d EXCEPT !.key = k].state = d.state /\ [d EXCEPT !.key = k].key = k
           /\ [d EXCEPT !.state = "Relinquished"] \in DataEntries
           /\ [d EXCEPT !.state = "Relinquished"].state = "Relinquished"
           /\ [d EXCEPT !.state = "Relinquished"].key = d.key
           /\ \A p \in DeletionPolicies : [d EXCEPT !.state = "Verified", !.policy = p] \in DataEntries
BY Zenon DEF DataEntries

\* The two entries of a ledger.
LEMMA LedgerFacts ==
    /\ \A l \in Ledgers : l.key \in KeyEntries /\ l.data \in DataEntries
    /\ \A e \in KeyEntries : mem \in Ledgers =>
          KeyIs(e) \in Ledgers /\ KeyIs(e).key = e /\ KeyIs(e).data = mem.data
    /\ \A d \in DataEntries : mem \in Ledgers =>
          DataIs(d) \in Ledgers /\ DataIs(d).key = mem.key /\ DataIs(d).data = d
    /\ EmptyLedger \in Ledgers /\ EmptyLedger.key = NoKeyEntry /\ EmptyLedger.data = NoDataEntry
BY NewEntries, Zenon DEF Ledgers, KeyIs, DataIs, EmptyLedger

\* Time changes no key and no data.
LEMMA AgedFacts ==
    ASSUME NEW l \in Ledgers
    PROVE  /\ Aged(l) \in Ledgers /\ Aged(l).data = l.data
           /\ Aged(l).key.state = l.key.state /\ Aged(l).key.arn = l.key.arn
<1> DEFINE q == IF l.key.pending = "quiet" THEN "due" ELSE l.key.pending
           f == [l.key EXCEPT !.fresh = FALSE, !.pending = q]
<1>1. l.key \in KeyEntries /\ l.data \in DataEntries
  BY LedgerFacts
<1>2. q \in {"no", "quiet", "due"}
  BY <1>1 DEF KeyEntries
<1> HIDE DEF q
<1>3. f \in KeyEntries /\ f.state = l.key.state /\ f.arn = l.key.arn
  BY <1>1, <1>2, Zenon DEF KeyEntries
<1>4. Aged(l) = [key |-> f, data |-> l.data]
  BY DEF Aged, q
<1> HIDE DEF f
<1> QED  BY <1>1, <1>3, <1>4 DEF Ledgers

\* One key in another state, or under other tags.
LEMMA KeyUpdates ==
    ASSUME keys \in [Keys -> AWSKeys], NEW k \in Keys
    PROVE  /\ keys[k].state \in {"Absent", "Enabled", "Disabled", "PendingDeletion", "Deleted"}
           /\ keys[k].tags \in Tags
           /\ \A s \in {"Enabled", "Disabled", "PendingDeletion", "Deleted"} :
                /\ InState(k, s) \in [Keys -> AWSKeys]
                /\ InState(k, s)[k].state = s /\ InState(k, s)[k].tags = keys[k].tags
                /\ \A j \in Keys : j # k => InState(k, s)[j] = keys[j]
           /\ \A t \in Tags :
                /\ Tagged(k, t) \in [Keys -> AWSKeys]
                /\ Tagged(k, t)[k].state = keys[k].state /\ Tagged(k, t)[k].tags = t
                /\ \A j \in Keys : j # k => Tagged(k, t)[j] = keys[j]
                /\ Made(k, t) \in [Keys -> AWSKeys]
                /\ Made(k, t)[k].state = "Enabled" /\ Made(k, t)[k].tags = t
                /\ \A j \in Keys : j # k => Made(k, t)[j] = keys[j]
<1>1. keys[k] \in AWSKeys
  OBVIOUS
<1>2. keys[k].state \in {"Absent", "Enabled", "Disabled", "PendingDeletion", "Deleted"} /\ keys[k].tags \in Tags
  BY <1>1 DEF AWSKeys
<1>3. ASSUME NEW s \in {"Enabled", "Disabled", "PendingDeletion", "Deleted"}
      PROVE  /\ InState(k, s) \in [Keys -> AWSKeys]
             /\ InState(k, s)[k].state = s /\ InState(k, s)[k].tags = keys[k].tags
             /\ \A j \in Keys : j # k => InState(k, s)[j] = keys[j]
  BY <1>2 DEF InState, AWSKeys
<1>4. ASSUME NEW t \in Tags
      PROVE  /\ Tagged(k, t) \in [Keys -> AWSKeys]
             /\ Tagged(k, t)[k].state = keys[k].state /\ Tagged(k, t)[k].tags = t
             /\ \A j \in Keys : j # k => Tagged(k, t)[j] = keys[j]
  BY <1>2 DEF Tagged, AWSKeys
<1>5. ASSUME NEW t \in Tags
      PROVE  /\ Made(k, t) \in [Keys -> AWSKeys]
             /\ Made(k, t)[k].state = "Enabled" /\ Made(k, t)[k].tags = t
             /\ \A j \in Keys : j # k => Made(k, t)[j] = keys[j]
  BY DEF Made, AWSKeys
<1> QED  BY <1>2, <1>3, <1>4, <1>5

\* What a spec says.
LEMMA SpecFacts ==
    ASSUME TypeOK
    PROVE  /\ spec \in SpecType /\ view.spec \in SpecType /\ view.deleting \in BOOLEAN
           /\ view.spec.policy \in DeletionPolicies /\ view.spec.dataPolicy \in DeletionPolicies
           /\ [view EXCEPT !.spec = spec] \in [spec : SpecType, deleting : BOOLEAN]
           /\ [view EXCEPT !.spec = spec].deleting = view.deleting
           /\ LET s == [spec EXCEPT !.policy = view.spec.policy]
              IN  /\ [view EXCEPT !.spec = s] \in [spec : SpecType, deleting : BOOLEAN]
                  /\ [view EXCEPT !.spec = s].deleting = view.deleting
<1>1. spec \in SpecType /\ view.spec \in SpecType /\ view.deleting \in BOOLEAN
  BY KeyAssumption DEF TypeOK
<1>2. view.spec.policy \in DeletionPolicies /\ view.spec.dataPolicy \in DeletionPolicies
  BY <1>1 DEF SpecType
<1>3. [spec EXCEPT !.policy = view.spec.policy] \in SpecType
  BY <1>1, <1>2 DEF SpecType
<1>4. ASSUME NEW s \in SpecType
      PROVE  /\ [view EXCEPT !.spec = s] \in [spec : SpecType, deleting : BOOLEAN]
             /\ [view EXCEPT !.spec = s].deleting = view.deleting
  BY DEF TypeOK
<1> QED  BY <1>1, <1>2, <1>3, <1>4

\* recordKey.
LEMMA RecordFacts ==
    ASSUME TypeOK, NEW k \in Keys, NEW s \in {"TagPending", "Verified"}, recordKey(k, s)
    PROVE  mem' \in Ledgers /\ mem'.data = mem.data /\ mem'.key.state = s /\ mem'.key.arn = k
<1> DEFINE e == [state |-> s, arn |-> k, policy |-> view.spec.policy, fresh |-> TRUE, pending |-> "no"]
<1>1. e \in KeyEntries /\ e.state = s /\ e.arn = k
  BY SpecFacts DEF KeyEntries
<1>2. mem' = KeyIs(e)
  BY DEF recordKey
<1> HIDE DEF e
<1> QED  BY <1>1, <1>2, LedgerFacts DEF TypeOK

-----------------------------------------------------------------------------
(* What the parts of the invariant depend on.                              *)

\* Two ledgers that name the same key and the same data.
Same(l, m) == l.key.state = m.key.state /\ l.key.arn = m.key.arn /\ l.data = m.data

\* A step that leaves keys, alias and data alone, and of the pass at most ages.
LEMMA StandsStill ==
    ASSUME KeyInv, Same(store', store), Same(mem', mem), store' \in Ledgers, mem' \in Ledgers,
           UNCHANGED <<keys, alias, data, pc, view, err, at, waiting, orphaned, missed, raced>>,
           spec' \in Specs, cr' \in {"live", "deleting", "gone"}, cr' = cr \/ cr' # "gone",
           calm' \in BOOLEAN
    PROVE  KeyInv'
<1>1. TypeOK'
  BY Zenon DEF KeyInv, TypeOK
<1>2. Named'
  BY DEF KeyInv, Named, Names, Same
<1>3. Control'
  BY Zenon DEF KeyInv, Control, Owned, Same
<1>4. Recorded(store)' = Recorded(store) /\ Recorded(mem)' = Recorded(mem)
  BY DEF Recorded, Same
<1>5. Tracked'
  <2>1. Recorded(Current)' = Recorded(Current)
    BY <1>4 DEF Current
  <2> QED  BY <2>1 DEF KeyInv, Tracked, Ours, Usable
<1>6. Deletion'
  BY <1>4 DEF KeyInv, Deletion, Ours, Usable, Same
<1>7. Holding'
  BY Zenon DEF KeyInv, Holding, DataUntouched, Unrecorded, Held, Same
<1>8. KeyChangesOnlyOwned' /\ FinalizerHoldsKey'
  BY Zenon DEF KeyInv, KeyChangesOnlyOwned, FinalizerHoldsKey
<1> QED  BY <1>1, <1>2, <1>3, <1>5, <1>6, <1>7, <1>8 DEF KeyInv

\* The user, time, and a step that is none of these.
LEMMA UsersKeep ==
    ASSUME KeyInv, Users \/ Tick \/ Calm \/ UNCHANGED vars
    PROVE  KeyInv'
<1>0. TypeOK /\ store \in Ledgers /\ mem \in Ledgers
  BY DEF KeyInv, TypeOK
<1>1. CASE Users \/ Calm \/ UNCHANGED vars
  <2>1. UNCHANGED <<store, mem, keys, alias, data, pc, view, err, at, waiting, orphaned, missed, raced>>
    BY <1>1 DEF Users, EditSpec, DeleteCR, Calm, vars, awsVars, history
  <2>2. /\ spec' \in Specs /\ cr' \in {"live", "deleting", "gone"} /\ calm' \in BOOLEAN
        /\ cr' = cr \/ cr' # "gone"
    BY <1>0, <1>1, Zenon DEF Users, EditSpec, DeleteCR, Calm, vars, TypeOK
  <2> QED  BY <1>0, <2>1, <2>2, StandsStill DEF Same
<1>2. CASE Tick
  <2>1. UNCHANGED <<spec, cr, calm, keys, alias, data, pc, view, err, at, waiting, orphaned, missed, raced>>
    BY <1>2 DEF Tick, crVars, awsVars, history
  <2>2. store' \in Ledgers /\ mem' \in Ledgers /\ Same(store', store) /\ Same(mem', mem)
    BY <1>0, <1>2, AgedFacts DEF Tick, Same
  <2> QED  BY <1>0, <2>1, <2>2, StandsStill DEF TypeOK
<1> QED  BY <1>1, <1>2

\* Somebody else makes no key the CR's, and unmakes none.
LEMMA OutsideKeeps ==
    ASSUME KeyInv, Outside
    PROVE  KeyInv'
<1>0. TypeOK
  BY DEF KeyInv
<1>1. UNCHANGED <<spec, cr, calm, store, mem, data, pc, view, err, at, waiting, orphaned, missed>>
  BY Zenon DEF Outside, ScheduleOutside, KeyExpires, RetagOutside, AliasOutside, crVars, history
<1> DEFINE Touched(k) ==
             /\ keys' \in [Keys -> AWSKeys] /\ keys'[k].state # "Absent"
             /\ \A j \in Keys : j # k => keys'[j] = keys[j]
             /\ \/ keys'[k].tags = keys[k].tags /\ keys'[k].state \notin {"Enabled", "Disabled"}
                \/ ~IsOwnedBy(keys'[k].tags)
             /\ \/ keys[k].state \in {"Enabled", "Disabled", "Absent"}
                \/ keys'[k].state \notin {"Enabled", "Disabled"}
             /\ alias' \in {alias, NoKey, k} /\ raced' \in BOOLEAN
             /\ \/ keys'[k].tags = keys[k].tags \/ keys[k].state = "Absent"
                \/ raced' = (pc # "idle")
             /\ raced' = raced \/ raced' = (pc # "idle")
<1>2. \E k \in Keys : Touched(k)
  <2>0. keys \in [Keys -> AWSKeys] /\ raced \in BOOLEAN
    BY <1>0 DEF TypeOK
  <2>1. CASE ScheduleOutside
    <3>1. PICK k \in Keys : keys' = InState(k, "PendingDeletion")
      BY <2>1 DEF ScheduleOutside, Reachable
    <3>2. UNCHANGED <<alias, raced>>
      BY <2>1 DEF ScheduleOutside, history
    <3>3. /\ keys' \in [Keys -> AWSKeys] /\ keys'[k].state = "PendingDeletion" /\ keys'[k].tags = keys[k].tags
          /\ \A j \in Keys : j # k => keys'[j] = keys[j]
      BY <2>0, <3>1, KeyUpdates
    <3> QED  BY <2>0, <3>2, <3>3, Zenon
  <2>2. CASE KeyExpires
    <3>1. PICK k \in Keys : keys' = InState(k, "Deleted") /\ alias' = IF alias = k THEN NoKey ELSE alias
      BY <2>2 DEF KeyExpires, Reachable
    <3>2. UNCHANGED raced
      BY <2>2 DEF KeyExpires, history
    <3>3. /\ keys' \in [Keys -> AWSKeys] /\ keys'[k].state = "Deleted" /\ keys'[k].tags = keys[k].tags
          /\ \A j \in Keys : j # k => keys'[j] = keys[j]
      BY <2>0, <3>1, KeyUpdates
    <3> QED  BY <2>0, <3>1, <3>2, <3>3
  <2>3. CASE RetagOutside
    <3>1. PICK k \in Keys, t \in ForeignTags :
            keys[k].state \in {"Enabled", "Disabled"} /\ keys' = Tagged(k, t)
      BY <2>3 DEF RetagOutside, Reachable
    <3>2. UNCHANGED alias /\ raced' = (pc # "idle")
      BY <2>3 DEF RetagOutside
    <3>3. t \in Tags /\ ~IsOwnedBy(t)
      BY <3>1, TagFacts
    <3>4. /\ keys' \in [Keys -> AWSKeys] /\ keys'[k].state = keys[k].state /\ keys'[k].tags = t
          /\ \A j \in Keys : j # k => keys'[j] = keys[j]
      BY <2>0, <3>1, <3>3, KeyUpdates
    <3> QED  BY <3>1, <3>2, <3>3, <3>4
  <2>4. CASE AliasOutside
    <3>1. PICK k \in Keys, t \in ForeignTags :
            keys[k].state = "Absent" /\ alias' = k /\ keys' = Made(k, t)
      BY <2>4 DEF AliasOutside
    <3>2. UNCHANGED raced
      BY <2>4 DEF AliasOutside, history
    <3>3. t \in Tags /\ ~IsOwnedBy(t)
      BY <3>1, TagFacts
    <3>4. /\ keys' \in [Keys -> AWSKeys] /\ keys'[k].state = "Enabled" /\ keys'[k].tags = t
          /\ \A j \in Keys : j # k => keys'[j] = keys[j]
      BY <2>0, <3>1, <3>3, KeyUpdates
    <3> QED  BY <2>0, <3>1, <3>2, <3>3, <3>4
  <2> QED  BY <2>1, <2>2, <2>3, <2>4 DEF Outside
<1>3. \A j \in Keys :
        /\ keys[j].state # "Absent" => keys'[j].state # "Absent"
        /\ IsOwnedBy(keys'[j].tags) => IsOwnedBy(keys[j].tags)
        /\ Ours(j)' => Ours(j)
  BY <1>2 DEF Ours, Usable
<1>4. TypeOK'
  <2>1. alias' \in Keys \cup {NoKey}
    BY <1>0, <1>2, Zenon DEF TypeOK
  <2> QED  BY <1>0, <1>1, <1>2, <2>1, Zenon DEF TypeOK
<1>5. Named'
  BY <1>0, <1>1, <1>2, <1>3, KeyAssumption, ZenonT(40) DEF KeyInv, Named, Names, TypeOK
<1>6. Control'
  BY <1>1, <1>3 DEF KeyInv, Control, Owned
<1>7. Tracked' /\ Deletion' /\ FinalizerHoldsKey'
  <2>1. Tracked'
    BY <1>1, <1>3 DEF KeyInv, Tracked, Current, Recorded
  <2>2. Recorded(store)' = Recorded(store) /\ Recorded(mem)' = Recorded(mem)
    BY <1>1 DEF Recorded
  <2>3. Recorded(store) \subseteq Keys /\ Recorded(mem) \subseteq Keys
    BY DEF Recorded, KeyInv, Named, Names
  <2>4. Deletion'
    BY <1>1, <1>3, <2>2, <2>3, Zenon DEF KeyInv, Deletion
  <2>5. FinalizerHoldsKey'
    BY <1>1, <1>3 DEF KeyInv, FinalizerHoldsKey, Ours, Usable
  <2> QED  BY <2>1, <2>4, <2>5, Zenon
<1>8. Holding'
  BY <1>1, Zenon DEF KeyInv, Holding, DataUntouched, Unrecorded, Held
<1>9. KeyChangesOnlyOwned'
  <2>1. pc \in {"untag", "schedule"} => at \in Keys /\ keys[at].state # "Absent"
    BY DEF KeyInv, Control, AtLeft
  <2> QED  BY <1>1, <1>2, <2>1 DEF KeyInv, KeyChangesOnlyOwned
<1> QED  BY <1>4, <1>5, <1>6, <1>7, <1>8, <1>9 DEF KeyInv
-----------------------------------------------------------------------------
(* The kms section's Ensure.                                               *)

\* The parts of the invariant that a step before the stamp leaves alone.
LEMMA EnsureFrame ==
    ASSUME KeyInv, pc \in EnsureSteps, pc' \in EnsureSteps \cup {"stamp"},
           UNCHANGED <<cr, data, missed>>, view'.deleting = view.deleting, mem'.data = mem.data
    PROVE  ~view.deleting /\ Deletion' /\ Holding' /\ KeyChangesOnlyOwned' /\ FinalizerHoldsKey'
<1>1. ~view.deleting /\ cr # "gone"
  BY DEF KeyInv, Control, EnsureSteps
<1>2. pc' \notin {"idle", "verify", "schedule", "untag"} \cup AtLeft
  BY DEF EnsureSteps, AtLeft
<1>3. Deletion' /\ KeyChangesOnlyOwned' /\ FinalizerHoldsKey'
  BY <1>1, <1>2, Zenon DEF Deletion, KeyChangesOnlyOwned, FinalizerHoldsKey
<1>4. Holding'
  BY <1>2 DEF KeyInv, Holding, DataUntouched, Unrecorded
<1> QED  BY <1>1, <1>3, <1>4

\* A step within a pass that leaves the keys and the ledgers' keys alone.
LEMMA MoveFrame ==
    ASSUME KeyInv, pc # "idle", pc' # "idle", UNCHANGED <<store, keys, alias, orphaned>>,
           mem'.key.state = mem.key.state, mem'.key.arn = mem.key.arn
    PROVE  Named' /\ Tracked'
<1>1. Named'
  BY DEF KeyInv, Named, Names
<1>2. Tracked'
  BY DEF KeyInv, Tracked, Current, Recorded, Ours, Usable
<1> QED  BY <1>1, <1>2, Zenon

\* A step that records key k, which was made, in place of no entry of the CR's own.
LEMMA RecordFrame ==
    ASSUME KeyInv, pc # "idle", pc' # "idle", UNCHANGED store, NEW k \in Keys, keys'[k].state # "Absent",
           Owned(mem'.key), mem'.key.arn = k, ~Owned(mem.key) \/ mem.key.arn = k, orphaned \subseteq orphaned',
           \A j \in Keys : j # k => keys'[j] = keys[j],
           alias' \in {alias, k}
    PROVE  Named' /\ Tracked'
<1>1. \A j \in Keys : keys[j].state # "Absent" => keys'[j].state # "Absent"
  OBVIOUS
<1>2. Named'
  BY <1>1, KeyAssumption, ZenonT(40) DEF KeyInv, TypeOK, Named, Names, Owned
<1>3. Tracked'
  BY DEF KeyInv, Tracked, Current, Recorded, Ours, Usable, Owned
<1> QED  BY <1>2, <1>3

\* ensureKey: the entry's key, or the one behind the alias.
LEMMA ensureKeyKeeps ==
    ASSUME KeyInv, ensureKey
    PROVE  KeyInv'
<1>1. /\ pc = "kms" /\ pc' \in {"stamp", "resume", "create", "adopt"} /\ UNCHANGED err
      /\ UNCHANGED <<spec, cr, calm, store, keys, alias, data, view, mem, waiting, orphaned, missed, raced>>
  BY DEF ensureKey, GoTo, crVars, awsVars, history
<1>2. pc \in EnsureSteps /\ pc' \in EnsureSteps \cup {"stamp"}
  BY <1>1 DEF EnsureSteps
<1>3. Deletion' /\ Holding' /\ KeyChangesOnlyOwned' /\ FinalizerHoldsKey' /\ ~view.deleting
  BY <1>1, <1>2, EnsureFrame
<1>4. Named' /\ Tracked'
  BY <1>1, MoveFrame
<1>5. mem.key.state \in {"None", "TagPending", "Verified", "Relinquished"} /\ alias \in Keys \cup {NoKey}
  BY EntryUpdates, LedgerFacts, Zenon DEF KeyInv, TypeOK
<1>6. /\ at' \in Keys \cup {NoKey}
      /\ pc' = "resume" => at' = mem.key.arn /\ Owned(mem.key)
      /\ pc' \in {"create", "adopt"} => ~Owned(mem.key)
      /\ pc' = "adopt" => at' = alias /\ alias # NoKey
  BY <1>5 DEF ensureKey, GoTo, Owned, KeyInv, Named, Names, TypeOK
<1>7. TypeOK'
  <2>1. pc' \in Steps
    BY <1>2 DEF Steps
  <2> QED  BY <1>1, <1>6, <2>1, Zenon DEF KeyInv, TypeOK
<1>8. Control'
  <2>1. pc' \in {"resume", "adopt"} => at' \in Keys /\ keys[at'].state # "Absent"
    BY <1>5, <1>6, Zenon DEF KeyInv, Named, Names, Owned
  <2> QED  BY <1>1, <1>3, <1>6, <2>1 DEF KeyInv, Control, Owned, AtOwned, AtFound, AtRevived, AtLeft
<1> QED  BY <1>3, <1>4, <1>7, <1>8 DEF KeyInv

\* createKey: a new key, in the pass's ledger or lost.
LEMMA createKeyKeeps ==
    ASSUME KeyInv, createKey
    PROVE  KeyInv'
<1>0. TypeOK /\ ~Owned(mem.key) /\ mem \in Ledgers /\ keys \in [Keys -> AWSKeys]
  BY DEF KeyInv, createKey, Control, TypeOK
<1>1. /\ pc = "create" /\ pc' \in {"stamp", "checkpointKey"} /\ err' \in BOOLEAN
      /\ UNCHANGED <<spec, cr, calm, store, alias, data, view, waiting, missed, raced>>
  BY <1>0, Zenon DEF createKey, Answered, Lost, GoTo, FailTo, crVars, TypeOK
<1>2. pc \in EnsureSteps /\ pc' \in EnsureSteps \cup {"stamp"}
  BY <1>1 DEF EnsureSteps
<1>3. CASE UNCHANGED <<keys, at, mem, orphaned>> /\ pc' = "stamp"
  <2>1. Deletion' /\ Holding' /\ KeyChangesOnlyOwned' /\ FinalizerHoldsKey' /\ ~view.deleting
    BY <1>1, <1>2, <1>3, EnsureFrame
  <2>2. Named' /\ Tracked'
    BY <1>1, <1>3, MoveFrame
  <2>3. TypeOK'
    BY <1>0, <1>1, <1>3, Zenon DEF TypeOK, Steps
  <2>4. Control'
    BY <1>1, <1>3, <2>1, Zenon DEF KeyInv, Control, AtOwned, AtFound, AtRevived, AtLeft
  <2> QED  BY <2>1, <2>2, <2>3, <2>4 DEF KeyInv
<1>4. ASSUME NEW k \in Keys, keys[k].state = "Absent", keys' = Made(k, ownerTags)
      PROVE  /\ keys' \in [Keys -> AWSKeys] /\ keys'[k].state = "Enabled"
             /\ \A j \in Keys : j # k => keys'[j] = keys[j]
  BY <1>0, <1>4, KeyUpdates, TagFacts
<1>5. ASSUME NEW k \in Keys, keys[k].state = "Absent", keys' = Made(k, ownerTags),
             at' = k, recordKey(k, "TagPending"), Answered("checkpointKey"), UNCHANGED orphaned
      PROVE  KeyInv'
  <2>1. mem' \in Ledgers /\ mem'.data = mem.data /\ mem'.key.state = "TagPending" /\ mem'.key.arn = k
    BY <1>0, <1>5, RecordFacts
  <2>2. Deletion' /\ Holding' /\ KeyChangesOnlyOwned' /\ FinalizerHoldsKey' /\ ~view.deleting
    BY <1>1, <1>2, <2>1, EnsureFrame, Zenon
  <2>3. Named' /\ Tracked'
    BY <1>0, <1>1, <1>4, <1>5, <2>1, RecordFrame DEF Owned
  <2>4. TypeOK'
    <3>1. pc' \in Steps
      BY <1>2, ZenonT(40) DEF Steps
    <3> QED  BY <1>0, <1>1, <1>4, <1>5, <2>1, <3>1, ZenonT(40) DEF TypeOK
  <2>5. Control'
    BY <1>1, <1>4, <1>5, <2>1, <2>2
       DEF KeyInv, Control, Owned, Answered, GoTo, AtOwned, AtFound, AtRevived, AtLeft
  <2> QED  BY <2>2, <2>3, <2>4, <2>5 DEF KeyInv
<1>6. ASSUME NEW k \in Keys, keys[k].state = "Absent", keys' = Made(k, ownerTags),
             Lost("stamp"), orphaned' = orphaned \cup {k}, UNCHANGED <<at, mem>>
      PROVE  KeyInv'
  <2>1. Deletion' /\ Holding' /\ KeyChangesOnlyOwned' /\ FinalizerHoldsKey' /\ ~view.deleting
    BY <1>1, <1>2, <1>6, EnsureFrame, ZenonT(40)
  <2>2. Named'
    BY <1>0, <1>1, <1>4, <1>6, KeyAssumption, SMTT(30) DEF KeyInv, Named, Names, TypeOK
  <2>3. Tracked'
    BY <1>1, <1>4, <1>6, Zenon DEF KeyInv, Tracked, Current, Recorded, Ours, Usable
  <2>4. TypeOK'
    <3>1. pc' \in Steps
      BY <1>2 DEF Steps
    <3>2. orphaned' \subseteq Keys
      BY <1>0, <1>6, Zenon DEF TypeOK
    <3> QED  BY <1>0, <1>1, <1>4, <1>6, <3>1, <3>2, ZenonT(40) DEF TypeOK
  <2>5. Control'
    BY <1>1, <1>6, <2>1 DEF KeyInv, Control, Lost, FailTo, AtOwned, AtFound, AtRevived, AtLeft
  <2> QED  BY <2>1, <2>2, <2>3, <2>4, <2>5 DEF KeyInv
<1> QED  BY <1>3, <1>5, <1>6, ZenonT(40) DEF createKey, FailTo
\* The checkpoint between CreateKey and the alias.
LEMMA checkpointKeyKeeps ==
    ASSUME KeyInv, checkpointKey
    PROVE  KeyInv'
<1>0. TypeOK /\ Owned(mem.key) /\ mem.key.arn = at /\ at \in Keys /\ keys[at].state # "Absent"
  BY DEF KeyInv, checkpointKey, Control, AtOwned
<1>1. /\ pc = "checkpointKey" /\ pc' \in {"stamp", "alias"} /\ err' \in BOOLEAN /\ store' \in {store, mem}
      /\ UNCHANGED <<spec, cr, calm, keys, alias, data, mem, at, waiting, orphaned, missed, raced>>
  BY <1>0, Zenon DEF checkpointKey, GoTo, FailTo, crVars, awsVars, history, TypeOK
<1>2. view' \in [spec : SpecType, deleting : BOOLEAN] /\ view'.deleting = view.deleting
  BY <1>0, SpecFacts DEF checkpointKey, TypeOK
<1>3. pc \in EnsureSteps /\ pc' \in EnsureSteps \cup {"stamp"}
  BY <1>1 DEF EnsureSteps
<1>4. Deletion' /\ Holding' /\ KeyChangesOnlyOwned' /\ FinalizerHoldsKey' /\ ~view.deleting
  BY <1>1, <1>2, <1>3, EnsureFrame, Zenon
<1>5. Named'
  BY <1>1, ZenonT(40) DEF KeyInv, Named, Names
<1>6. Tracked'
  BY <1>1 DEF KeyInv, Tracked, Current, Recorded, Ours, Usable
<1>7. TypeOK'
  <2>1. pc' \in Steps
    BY <1>3 DEF Steps
  <2>2. store' \in Ledgers
    BY <1>0, <1>1, Zenon DEF TypeOK
  <2> QED  BY <1>0, <1>1, <1>2, <2>1, <2>2, Zenon DEF TypeOK
<1>8. Control'
  BY <1>0, <1>1, <1>2, <1>4, Zenon DEF KeyInv, Control, Owned, AtOwned, AtFound, AtRevived, AtLeft
<1> QED  BY <1>4, <1>5, <1>6, <1>7, <1>8 DEF KeyInv

\* ensureAlias, and the record of a key whose alias is confirmed.
LEMMA ensureAliasKeeps ==
    ASSUME KeyInv, ensureAlias
    PROVE  KeyInv'
<1>0. TypeOK /\ Owned(mem.key) /\ mem.key.arn = at /\ at \in Keys /\ keys[at].state # "Absent"
  BY SMTT(30) DEF KeyInv, ensureAlias, Control, AtOwned
<1>1. /\ pc = "alias" /\ pc' = "stamp" /\ err' \in BOOLEAN /\ alias' \in {alias, at}
      /\ UNCHANGED <<spec, cr, calm, store, keys, data, view, at, waiting, orphaned, missed, raced>>
  BY <1>0, Zenon DEF ensureAlias, GoTo, FailTo, Answered, Lost, crVars, history, TypeOK
<1>2. mem' \in Ledgers /\ mem'.data = mem.data /\ Owned(mem'.key) /\ mem'.key.arn = at
  <2>1. CASE recordKey(at, "Verified")
    BY <1>0, <2>1, RecordFacts DEF Owned
  <2>2. CASE UNCHANGED mem
    BY <1>0, <2>2 DEF TypeOK
  <2> QED  BY <2>1, <2>2 DEF ensureAlias
<1>3. pc \in EnsureSteps /\ pc' \in EnsureSteps \cup {"stamp"}
  BY <1>1 DEF EnsureSteps
<1>4. Deletion' /\ Holding' /\ KeyChangesOnlyOwned' /\ FinalizerHoldsKey' /\ ~view.deleting
  BY <1>1, <1>2, <1>3, EnsureFrame, ZenonT(40)
<1>5. Named' /\ Tracked'
  BY <1>0, <1>1, <1>2, RecordFrame
<1>6. TypeOK'
  <2>1. pc' \in Steps
    BY <1>3 DEF Steps
  <2>2. alias' \in Keys \cup {NoKey}
    BY <1>0, <1>1, Zenon DEF TypeOK
  <2> QED  BY <1>0, <1>1, <1>2, <2>1, <2>2, Zenon DEF TypeOK
<1>7. Control'
  BY <1>1, <1>4, Zenon DEF KeyInv, Control, AtOwned, AtFound, AtRevived, AtLeft
<1> QED  BY <1>4, <1>5, <1>6, <1>7 DEF KeyInv

\* resumeKey, which changes at most the policy of the entry.
LEMMA resumeKeyKeeps ==
    ASSUME KeyInv, resumeKey
    PROVE  KeyInv'
<1>0. TypeOK /\ Owned(mem.key) /\ mem.key.arn = at /\ at \in Keys /\ keys[at].state # "Absent"
  BY DEF KeyInv, resumeKey, Control, AtOwned
<1>1. /\ pc = "resume" /\ pc' \in {"stamp", "revive", "alias", "takeOver"} /\ err' \in BOOLEAN /\ raced' = FALSE
      /\ UNCHANGED <<spec, cr, calm, store, keys, alias, data, view, at, waiting, orphaned, missed>>
  BY <1>0, Zenon DEF resumeKey, GoTo, FailTo, crVars, awsVars, TypeOK
<1>2. /\ mem' \in Ledgers /\ mem'.data = mem.data
      /\ mem'.key.state = mem.key.state /\ mem'.key.arn = mem.key.arn
  <2>1. CASE UNCHANGED mem
    BY <1>0, <2>1, ZenonT(40) DEF TypeOK
  <2>2. CASE mem' = KeyIs([mem.key EXCEPT !.policy = view.spec.policy])
    <3> DEFINE e == [mem.key EXCEPT !.policy = view.spec.policy]
    <3>0. mem.key \in KeyEntries /\ view.spec.policy \in DeletionPolicies
      BY <1>0, LedgerFacts, SpecFacts DEF TypeOK
    <3>1. e \in KeyEntries /\ e.state = mem.key.state /\ e.arn = mem.key.arn
      BY <3>0, EntryUpdates, Zenon
    <3> HIDE DEF e
    <3>2. mem' = KeyIs(e)
      BY <2>2 DEF e
    <3> QED  BY <1>0, <3>1, <3>2, LedgerFacts DEF TypeOK
  <2> QED  BY <2>1, <2>2 DEF resumeKey
<1>3. pc \in EnsureSteps /\ pc' \in EnsureSteps \cup {"stamp"}
  BY <1>1 DEF EnsureSteps
<1>4. Deletion' /\ Holding' /\ KeyChangesOnlyOwned' /\ FinalizerHoldsKey' /\ ~view.deleting
  BY <1>1, <1>2, <1>3, EnsureFrame
<1>5. Named' /\ Tracked'
  BY <1>1, <1>2, MoveFrame
<1>6. TypeOK'
  <2>1. pc' \in Steps
    BY <1>3 DEF Steps
  <2> QED  BY <1>0, <1>1, <1>2, <2>1, Zenon DEF TypeOK
<1>7. Control'
  BY <1>0, <1>1, <1>2, <1>4, Zenon DEF KeyInv, Control, Owned, AtOwned, AtFound, AtRevived, AtLeft
<1> QED  BY <1>4, <1>5, <1>6, <1>7 DEF KeyInv
\* Steps that change the key the section works on, and no ledger: what becomes of
\* the parts of the invariant that do not depend on the step.
LEMMA AtFrame ==
    ASSUME KeyInv, pc \in AtOwned \cup AtRevived, pc' \in {"alias", "enable", "tag", "stamp"},
           UNCHANGED <<spec, cr, calm, store, alias, data, view, mem, at, waiting, orphaned, missed, raced>>,
           err' \in BOOLEAN, keys' \in [Keys -> AWSKeys], keys'[at].state # "Absent",
           \A j \in Keys : j # at => keys'[j] = keys[j],
           Owned(mem.key) \/ keys'[at].tags = keys[at].tags,
           pc' = "alias" => Owned(mem.key), pc' = "tag" => ~Owned(mem.key)
    PROVE  KeyInv'
<1>0. at \in Keys /\ keys[at].state # "Absent"
  BY DEF KeyInv, Control
<1>1. pc \in EnsureSteps /\ pc' \in EnsureSteps \cup {"stamp"}
  BY Zenon DEF EnsureSteps, AtOwned, AtRevived
<1>2. Deletion' /\ Holding' /\ KeyChangesOnlyOwned' /\ FinalizerHoldsKey' /\ ~view.deleting
  BY <1>1, EnsureFrame, Zenon
<1>3. Owned(mem.key) => mem.key.arn = at
  BY Zenon DEF KeyInv, Control
<1>4. ~Owned(mem.key) => ~IsOwnedBy(keys[at].tags)
  BY Zenon DEF KeyInv, Control
<1>5. Named'
  BY <1>0, KeyAssumption, Zenon DEF KeyInv, Named, Names, TypeOK
<1>6. Tracked'
  <2>1. pc # "idle" /\ pc' # "idle"
    BY DEF AtOwned, AtRevived
  <2>2. ASSUME NEW k \in Keys, Ours(k)' PROVE k \in Recorded(mem) \cup orphaned
    <3>1. CASE k # at
      BY <2>1, <2>2, <3>1 DEF KeyInv, Tracked, Current, Ours, Usable
    <3>2. CASE k = at
      <4>1. Owned(mem.key)
        BY <1>4, <2>2, <3>2, ZenonT(40) DEF Ours
      <4> QED  BY <1>3, <3>2, <4>1, Zenon DEF Recorded, Owned
    <3> QED  BY <3>1, <3>2, Zenon
  <2>3. Recorded(Current)' = Recorded(mem)
    BY <2>1 DEF Current, Recorded
  <2> QED  BY <2>2, <2>3 DEF Tracked
<1>7. TypeOK'
  <2>1. pc' \in Steps
    BY DEF Steps, EnsureSteps
  <2> QED  BY <2>1, ZenonT(40) DEF KeyInv, TypeOK
<1>8. Control'
  <2>1. pc' \notin AtLeft /\ pc' # "create"
    BY DEF AtLeft
  <2> QED  BY <1>0, <1>2, <1>3, <1>4, <2>1, Zenon DEF KeyInv, Control, Owned, AtOwned, AtFound, AtRevived
<1> QED  BY <1>2, <1>5, <1>6, <1>7, <1>8, Zenon DEF KeyInv

\* takeOverKey: the tags of the entry's key.
LEMMA takeOverKeyKeeps ==
    ASSUME KeyInv, takeOverKey
    PROVE  KeyInv'
<1>0. /\ TypeOK /\ Owned(mem.key) /\ at \in Keys /\ keys[at].state # "Absent"
      /\ keys \in [Keys -> AWSKeys]
  BY DEF KeyInv, takeOverKey, Control, AtOwned, TypeOK
<1>1. /\ pc = "takeOver" /\ pc' \in {"stamp", "alias"} /\ err' \in BOOLEAN
      /\ UNCHANGED <<spec, cr, calm, store, alias, data, view, mem, at, waiting, orphaned, missed, raced>>
      /\ keys' \in {keys, Tagged(at, ownerTags)}
  BY <1>0, Zenon DEF takeOverKey, GoTo, FailTo, Answered, Lost, crVars, history, TypeOK
<1>2. /\ keys' \in [Keys -> AWSKeys] /\ keys'[at].state # "Absent"
      /\ \A j \in Keys : j # at => keys'[j] = keys[j]
  BY <1>0, <1>1, KeyUpdates, TagFacts
<1> QED  BY <1>0, <1>1, <1>2, AtFrame, ZenonT(40) DEF AtOwned

\* cancelKeyDeletion and enableKey: the state of the key, not its tags.
LEMMA reviveKeyKeeps ==
    ASSUME KeyInv, cancelKeyDeletion \/ enableKey
    PROVE  KeyInv'
<1>0. TypeOK /\ at \in Keys /\ keys[at].state # "Absent" /\ keys \in [Keys -> AWSKeys]
  BY DEF KeyInv, cancelKeyDeletion, enableKey, Control, AtRevived, TypeOK
<1>1. /\ pc \in AtRevived /\ pc' \in {"alias", "enable", "tag", "stamp"} /\ err' \in BOOLEAN
      /\ UNCHANGED <<spec, cr, calm, store, alias, data, view, mem, at, waiting, orphaned, missed, raced>>
      /\ pc' = "alias" => Owned(mem.key)
      /\ pc' = "tag" => ~Owned(mem.key)
  BY <1>0, ZenonT(40) DEF cancelKeyDeletion, enableKey, GoTo, FailTo, Answered, Lost, crVars, history, TypeOK,
              AtRevived,
              Owned
<1>2. keys' \in {keys, InState(at, "Disabled"), InState(at, "Enabled")}
  BY Zenon DEF cancelKeyDeletion, enableKey
<1>3. /\ keys' \in [Keys -> AWSKeys] /\ keys'[at].state # "Absent" /\ keys'[at].tags = keys[at].tags
      /\ \A j \in Keys : j # at => keys'[j] = keys[j]
  BY <1>0, <1>2, KeyUpdates
<1> QED  BY <1>0, <1>1, <1>3, AtFrame, ZenonT(40)

\* adoptKey, which records a key that is the CR's already.
LEMMA adoptKeyKeeps ==
    ASSUME KeyInv, adoptKey
    PROVE  KeyInv'
<1>0. TypeOK /\ ~Owned(mem.key) /\ at \in Keys /\ keys[at].state # "Absent"
  BY DEF KeyInv, adoptKey, Control, AtFound
<1>1. /\ pc = "adopt" /\ pc' \in {"stamp", "revive", "tag"} /\ err' \in BOOLEAN /\ raced' = FALSE
      /\ UNCHANGED <<spec, cr, calm, store, keys, alias, data, view, at, waiting, orphaned, missed>>
  BY <1>0, Zenon DEF adoptKey, GoTo, FailTo, crVars, awsVars, TypeOK
<1>2. pc \in EnsureSteps /\ pc' \in EnsureSteps \cup {"stamp"}
  BY <1>1, ZenonT(40) DEF EnsureSteps
<1>3. CASE UNCHANGED mem /\ (pc' \in {"revive", "tag"} => ~IsOwnedBy(keys[at].tags))
  <2>1. Deletion' /\ Holding' /\ KeyChangesOnlyOwned' /\ FinalizerHoldsKey' /\ ~view.deleting
    BY <1>1, <1>2, <1>3, EnsureFrame
  <2>2. Named' /\ Tracked'
    BY <1>1, <1>3, MoveFrame
  <2>3. TypeOK'
    <3>1. pc' \in Steps
      BY <1>2 DEF Steps
    <3> QED  BY <1>0, <1>1, <1>3, <3>1, ZenonT(40) DEF TypeOK
  <2>4. Control'
    BY <1>0, <1>1, <1>3, <2>1 DEF KeyInv, Control, Owned, AtOwned, AtFound, AtRevived, AtLeft
  <2> QED  BY <2>1, <2>2, <2>3, <2>4 DEF KeyInv
<1>4. CASE recordKey(at, "Verified") /\ pc' = "stamp"
  <2>1. mem' \in Ledgers /\ mem'.data = mem.data /\ Owned(mem'.key) /\ mem'.key.arn = at
    BY <1>0, <1>4, RecordFacts, Zenon DEF Owned
  <2>2. Deletion' /\ Holding' /\ KeyChangesOnlyOwned' /\ FinalizerHoldsKey' /\ ~view.deleting
    BY <1>1, <1>2, <2>1, EnsureFrame, Zenon
  <2>3. Named' /\ Tracked'
    BY <1>0, <1>1, <2>1, RecordFrame
  <2>4. TypeOK'
    <3>1. pc' \in Steps
      BY <1>2 DEF Steps
    <3> QED  BY <1>0, <1>1, <2>1, <3>1, Zenon DEF TypeOK
  <2>5. Control'
    BY <1>1, <1>4, <2>2, Zenon DEF KeyInv, Control, AtOwned, AtFound, AtRevived, AtLeft
  <2> QED  BY <2>2, <2>3, <2>4, <2>5 DEF KeyInv
<1> QED  BY <1>3, <1>4, <1>0, Zenon DEF adoptKey, GoTo, FailTo
\* adoptKey's TagResource: the key is recorded, or lost.
LEMMA tagAdoptedKeeps ==
    ASSUME KeyInv, tagAdopted
    PROVE  KeyInv'
<1>0. TypeOK /\ ~Owned(mem.key) /\ at \in Keys /\ keys[at].state # "Absent" /\ keys \in [Keys -> AWSKeys]
  BY Zenon DEF KeyInv, tagAdopted, Control, AtFound, TypeOK
<1>1. /\ pc = "tag" /\ pc' = "stamp" /\ err' \in BOOLEAN
      /\ UNCHANGED <<spec, cr, calm, store, alias, data, view, at, waiting, missed, raced>>
  BY <1>0, Zenon DEF tagAdopted, GoTo, FailTo, Lost, crVars, TypeOK
<1>2. pc \in EnsureSteps /\ pc' \in EnsureSteps \cup {"stamp"} /\ pc' \in Steps
  BY <1>1, ZenonT(40) DEF EnsureSteps, Steps
<1>3. CASE UNCHANGED <<keys, mem, orphaned>>
  <2>1. Deletion' /\ Holding' /\ KeyChangesOnlyOwned' /\ FinalizerHoldsKey' /\ ~view.deleting
    BY <1>1, <1>2, <1>3, EnsureFrame
  <2>2. Named' /\ Tracked'
    BY <1>1, <1>3, MoveFrame
  <2>3. TypeOK'
    BY <1>0, <1>1, <1>2, <1>3, Zenon DEF TypeOK
  <2>4. Control'
    BY <1>1, <1>3, <2>1, Zenon DEF KeyInv, Control, AtOwned, AtFound, AtRevived, AtLeft
  <2> QED  BY <2>1, <2>2, <2>3, <2>4 DEF KeyInv
<1>4. keys' = Tagged(at, ownerTags) =>
        /\ keys' \in [Keys -> AWSKeys] /\ keys'[at].state # "Absent"
        /\ \A j \in Keys : j # at => keys'[j] = keys[j]
  BY <1>0, KeyUpdates, TagFacts, SMTT(30)
<1>5. CASE keys' = Tagged(at, ownerTags) /\ recordKey(at, "Verified") /\ UNCHANGED orphaned
  <2>1. mem' \in Ledgers /\ mem'.data = mem.data /\ Owned(mem'.key) /\ mem'.key.arn = at
    BY <1>0, <1>5, RecordFacts, Zenon DEF Owned
  <2>2. Deletion' /\ Holding' /\ KeyChangesOnlyOwned' /\ FinalizerHoldsKey' /\ ~view.deleting
    BY <1>1, <1>2, <2>1, EnsureFrame, ZenonT(40)
  <2>3. Named' /\ Tracked'
    BY <1>0, <1>1, <1>4, <1>5, <2>1, RecordFrame
  <2>4. TypeOK'
    BY <1>0, <1>1, <1>2, <1>4, <1>5, <2>1, ZenonT(40) DEF TypeOK
  <2>5. Control'
    BY <1>1, <2>2, Zenon DEF KeyInv, Control, AtOwned, AtFound, AtRevived, AtLeft
  <2> QED  BY <2>2, <2>3, <2>4, <2>5 DEF KeyInv
<1>6. CASE keys' = Tagged(at, ownerTags) /\ orphaned' = orphaned \cup {at} /\ UNCHANGED mem
  <2>1. Deletion' /\ Holding' /\ KeyChangesOnlyOwned' /\ FinalizerHoldsKey' /\ ~view.deleting
    BY <1>1, <1>2, <1>6, EnsureFrame, ZenonT(40)
  <2>2. Named'
    BY <1>0, <1>1, <1>4, <1>6, KeyAssumption, SMTT(30) DEF KeyInv, Named, Names, TypeOK
  <2>3. Tracked'
    BY <1>1, <1>4, <1>6, Zenon DEF KeyInv, Tracked, Current, Recorded, Ours, Usable
  <2>4. TypeOK'
    <3>1. orphaned' \subseteq Keys
      BY <1>0, <1>6, Zenon DEF TypeOK
    <3> QED  BY <1>0, <1>1, <1>2, <1>4, <1>6, <3>1, ZenonT(40) DEF TypeOK
  <2>5. Control'
    BY <1>1, <2>1 DEF KeyInv, Control, AtOwned, AtFound, AtRevived, AtLeft
  <2> QED  BY <2>1, <2>2, <2>3, <2>4, <2>5 DEF KeyInv
<1> QED  BY <1>3, <1>5, <1>6, Zenon DEF tagAdopted

-----------------------------------------------------------------------------
(* The cleanup of the key.                                                 *)

\* A step within a pass that leaves the keys and what the ledgers name alone.
LEMMA SameFrame ==
    ASSUME KeyInv, pc # "idle", pc' # "idle", pc' \in Steps, Same(mem', mem), mem' \in Ledgers,
           UNCHANGED <<spec, cr, calm, store, keys, alias, data, view, orphaned, missed>>,
           err' \in BOOLEAN, at' \in Keys \cup {NoKey}, waiting' \in BOOLEAN, raced' \in BOOLEAN
    PROVE  /\ TypeOK' /\ Named' /\ Tracked' /\ FinalizerHoldsKey'
           /\ Recorded(mem)' = Recorded(mem) /\ Recorded(store)' = Recorded(store)
           /\ Held' = Held /\ Unrecorded(mem)' = Unrecorded(mem)
<1>1. TypeOK'
  BY ZenonT(40) DEF KeyInv, TypeOK
<1>2. Named' /\ Tracked'
  BY MoveFrame, SMTT(30) DEF Same
<1>3. FinalizerHoldsKey'
  BY Zenon DEF KeyInv, Control, FinalizerHoldsKey
<1>4. Recorded(mem)' = Recorded(mem) /\ Recorded(store)' = Recorded(store)
  BY ZenonT(40) DEF Recorded, Same
<1>5. Held' = Held /\ Unrecorded(mem)' = Unrecorded(mem)
  BY DEF Held, Unrecorded, Same
<1> QED  BY <1>1, <1>2, <1>3, <1>4, <1>5

\* recordKMSKeyARNs.
LEMMA StampedFacts ==
    ASSUME TypeOK
    PROVE  /\ Stamped \in Ledgers /\ Stamped.key = mem.key
           /\ ~view.spec.data => Stamped = mem
<1>1. mem \in Ledgers /\ mem.key \in KeyEntries /\ mem.data \in DataEntries
  BY LedgerFacts, ZenonT(40) DEF TypeOK
<1>2. CASE view.spec.data /\ mem.key.arn # NoKey /\ mem.data.state # "None"
  <2> DEFINE d == [mem.data EXCEPT !.key = mem.key.arn]
  <2>1. mem.key.arn \in Keys
    BY <1>1, <1>2, EntryUpdates, Zenon
  <2>2. d \in DataEntries
    BY <1>1, <2>1, DataUpdates, Zenon
  <2>3. Stamped = DataIs(d)
    BY <1>2 DEF Stamped
  <2> HIDE DEF d
  <2> QED  BY <1>1, <1>2, <2>2, <2>3, LedgerFacts
<1>3. CASE ~(view.spec.data /\ mem.key.arn # NoKey /\ mem.data.state # "None")
  BY <1>1, <1>3 DEF Stamped
<1> QED  BY <1>2, <1>3

\* The kms section's stamp: nothing the data needs is touched unless it is declared.
LEMMA stampInKMSKeeps ==
    ASSUME KeyInv, stampInKMS
    PROVE  KeyInv'
<1>0. TypeOK /\ ~view.deleting /\ cr # "gone"
  BY DEF KeyInv, stampInKMS, Control
<1>1. /\ pc = "stamp" /\ pc' = "cleanup" /\ at' = NoKey
      /\ UNCHANGED <<spec, cr, calm, store, keys, alias, data, view, err, waiting, orphaned, missed, raced>>
  BY DEF stampInKMS, GoTo, crVars, awsVars, history
<1>2. mem' \in Ledgers /\ mem'.key = mem.key /\ (~view.spec.data => mem' = mem)
  BY <1>0, StampedFacts DEF stampInKMS
<1>3. Named' /\ Tracked'
  BY <1>1, <1>2, MoveFrame
<1>4. TypeOK'
  BY <1>0, <1>1, <1>2, ZenonT(40) DEF TypeOK, Steps, CleanupSteps
<1>5. Control' /\ Deletion' /\ KeyChangesOnlyOwned' /\ FinalizerHoldsKey'
  BY <1>0, <1>1, ZenonT(40) DEF KeyInv, Control, AtOwned, AtFound, AtRevived, AtLeft, EnsureSteps, Deletion,
                    KeyChangesOnlyOwned, FinalizerHoldsKey
<1>6. Holding'
  BY <1>0, <1>1, <1>2 DEF KeyInv, Holding, DataUntouched, Unrecorded, AtLeft, EnsureSteps
<1> QED  BY <1>3, <1>4, <1>5, <1>6, Zenon DEF KeyInv
\* The section of the key is over, and a deletion pass has dealt with the key.
LEMMA DoneFrame ==
    ASSUME KeyInv, pc # "idle", pc' = SectionDone, UNCHANGED <<cr, store, view>>,
           view.deleting /\ ~err' /\ ~waiting' => \A k \in Recorded(store) \cup Recorded(mem)' : ~Ours(k)'
    PROVE  /\ pc' \in {"persist", "checkpoint"} /\ pc' \in Steps
           /\ Control' /\ Deletion' /\ Holding' /\ KeyChangesOnlyOwned' /\ FinalizerHoldsKey'
<1>1. pc' \in {"persist", "checkpoint"} /\ (pc' = "checkpoint" => ~view.deleting) /\ cr # "gone"
  BY Zenon DEF SectionDone, KeyInv, Control
<1>2. Control' /\ KeyChangesOnlyOwned' /\ FinalizerHoldsKey'
  BY <1>1, Zenon DEF KeyInv, Control, AtOwned, AtFound, AtRevived, AtLeft, EnsureSteps, KeyChangesOnlyOwned,
              FinalizerHoldsKey
<1>3. Recorded(store)' = Recorded(store)
  BY DEF Recorded
<1>4. Deletion'
  BY <1>1, <1>3 DEF Deletion, AtLeft
<1>5. Holding'
  BY <1>1 DEF Holding, DataUntouched, AtLeft, EnsureSteps
<1> QED  BY <1>1, <1>2, <1>4, <1>5, Zenon DEF Steps

\* It failed, or in a deletion pass waits, with the key as it was.
LEMMA NotDoneFrame ==
    ASSUME KeyInv, pc # "idle", pc' = SectionDone, Same(mem', mem), mem' \in Ledgers,
           UNCHANGED <<spec, cr, calm, store, keys, alias, data, view, orphaned, missed>>,
           err' \in BOOLEAN, at' \in Keys \cup {NoKey}, waiting' \in BOOLEAN, raced' \in BOOLEAN,
           view.deleting => err' \/ waiting'
    PROVE  KeyInv'
<1>1. /\ pc' \in {"persist", "checkpoint"} /\ pc' \in Steps
      /\ Control' /\ Deletion' /\ Holding' /\ KeyChangesOnlyOwned' /\ FinalizerHoldsKey'
  BY DoneFrame, Zenon
<1>2. TypeOK' /\ Named' /\ Tracked'
  BY <1>1, SameFrame, Zenon
<1> QED  BY <1>1, <1>2 DEF KeyInv

\* It is done with a key that is no longer a usable one of the CR's.
LEMMA LeftFrame ==
    ASSUME KeyInv, pc \in AtLeft, pc' = SectionDone, mem' \in Ledgers,
           UNCHANGED <<spec, cr, calm, store, alias, data, view, at, orphaned, missed>>,
           err' \in BOOLEAN, waiting' \in BOOLEAN, raced' \in BOOLEAN,
           keys' \in [Keys -> AWSKeys], keys'[at].state # "Absent", ~Ours(at)',
           \A j \in Keys : j # at => keys'[j] = keys[j],
           \/ mem'.key.state = "None" /\ mem'.key.arn = NoKey
           \/ mem'.key.state # "None" /\ mem'.key.arn = at
    PROVE  KeyInv'
<1>0. at \in Keys /\ keys[at].state # "Absent" /\ mem.key.arn = at
  BY Zenon DEF KeyInv, Control
<1>1. Recorded(mem) \subseteq {at} /\ Recorded(mem)' \subseteq {at}
  BY <1>0, Zenon DEF Recorded
<1>2. view.deleting => Recorded(store) \subseteq {at}
  BY <1>0, Zenon DEF KeyInv, Deletion, Recorded
<1>3. pc # "idle"
  BY Zenon DEF AtLeft
<1>4. /\ pc' \in {"persist", "checkpoint"} /\ pc' \in Steps
      /\ Control' /\ Deletion' /\ Holding' /\ KeyChangesOnlyOwned' /\ FinalizerHoldsKey'
  <2>1. view.deleting => \A k \in Recorded(store) \cup Recorded(mem)' : ~Ours(k)'
    <3>1. ASSUME view.deleting, NEW k \in Recorded(store) \cup Recorded(mem)'
          PROVE  ~Ours(k)'
      <4>1. k = at
        BY <1>1, <1>2, <3>1, Zenon
      <4>2. k = at'
        BY <4>1
      <4> QED  BY <4>2, Zenon DEF Ours, Usable
    <3> QED  BY <3>1, Zenon
  <2> QED  BY <1>3, <2>1, DoneFrame, Zenon
<1>5. TypeOK'
  BY <1>4, ZenonT(40) DEF KeyInv, TypeOK
<1>6. Named'
  BY <1>0, KeyAssumption, Zenon DEF KeyInv, TypeOK, Named, Names
<1>7. Tracked'
  <2>1. ASSUME NEW k \in Keys, Ours(k)' PROVE k \in orphaned
    <3>1. k # at
      BY <2>1, Zenon DEF Ours, Usable
    <3>2. k \in Recorded(mem) \cup orphaned
      BY <1>3, <2>1, <3>1 DEF KeyInv, Tracked, Current, Ours, Usable
    <3> QED  BY <1>1, <3>1, <3>2, Zenon
  <2> QED  BY <2>1, Zenon DEF Tracked
<1> QED  BY <1>4, <1>5, <1>6, <1>7, Zenon DEF KeyInv
\* The entry let go of, and no entry.
LEMMA LeftLedgers ==
    ASSUME TypeOK
    PROVE  /\ LetGo \in Ledgers /\ LetGo.key.state = "Relinquished" /\ LetGo.key.arn = mem.key.arn
           /\ KeyIs(NoKeyEntry) \in Ledgers
           /\ KeyIs(NoKeyEntry).key.state = "None" /\ KeyIs(NoKeyEntry).key.arn = NoKey
           /\ \A q \in {"no", "quiet"} : LET l == KeyIs([mem.key EXCEPT !.pending = q])
                                         IN  l \in Ledgers /\ Same(l, mem)
<1>1. mem \in Ledgers /\ mem.key \in KeyEntries
  BY LedgerFacts DEF TypeOK
<1>2. HeldPolicy \in DeletionPolicies
  BY <1>1, EntryUpdates, Zenon DEF HeldPolicy, DeletionPolicies
<1> DEFINE e == [mem.key EXCEPT !.state = "Relinquished", !.fresh = TRUE, !.policy = HeldPolicy]
<1>3. e \in KeyEntries /\ e.state = "Relinquished" /\ e.arn = mem.key.arn
  BY <1>1, <1>2, LetGoEntry, Zenon
<1>4. LetGo = KeyIs(e)
  BY Zenon DEF LetGo
<1> HIDE DEF e
<1>5. LetGo \in Ledgers /\ LetGo.key.state = "Relinquished" /\ LetGo.key.arn = mem.key.arn
  BY <1>1, <1>3, <1>4, LedgerFacts, Zenon
<1>6. /\ KeyIs(NoKeyEntry) \in Ledgers
      /\ KeyIs(NoKeyEntry).key.state = "None" /\ KeyIs(NoKeyEntry).key.arn = NoKey
  BY <1>1, NewEntries, LedgerFacts
<1>7. ASSUME NEW q \in {"no", "quiet"}
      PROVE  LET l == KeyIs([mem.key EXCEPT !.pending = q]) IN l \in Ledgers /\ Same(l, mem)
  <2> DEFINE f == [mem.key EXCEPT !.pending = q]
  <2>0. q \in {"no", "quiet", "due"}
    OBVIOUS
  <2>1. f \in KeyEntries /\ f.state = mem.key.state /\ f.arn = mem.key.arn
    BY <1>1, <2>0, EntryUpdates, Zenon
  <2> HIDE DEF f
  <2>2. KeyIs(f) \in Ledgers /\ Same(KeyIs(f), mem)
    BY <1>1, <2>1, LedgerFacts DEF Same
  <2> QED  BY <2>2 DEF f
<1> QED  BY <1>5, <1>6, <1>7

\* Cleanup of a key that is declared, let go of already, or waits.
LEMMA CleanupKeeps ==
    ASSUME KeyInv, Cleanup
    PROVE  KeyInv'
<1>0. TypeOK
  BY DEF KeyInv
<1>1. /\ pc = "cleanup" /\ pc' = SectionDone
      /\ waiting' = (mem.key.state # "None" /\ HeldWaiting)
      /\ UNCHANGED <<spec, cr, calm, store, keys, alias, data, view, err, at, orphaned, missed, raced>>
  BY DEF Cleanup, GoTo, crVars, awsVars, history
<1>2. mem' \in Ledgers /\ Same(mem', mem)
  <2>1. CASE mem' = mem
    BY <1>0, <2>1 DEF TypeOK, Same
  <2>2. CASE mem' = KeyIs([mem.key EXCEPT !.pending = "no"])
    BY <1>0, <2>2, LeftLedgers, Zenon
  <2> QED  BY <2>1, <2>2 DEF Cleanup
<1>3. view.deleting /\ ~waiting' => ~Owned(mem.key) /\ ~Owned(store.key)
  <2>1. view.deleting /\ ~waiting' => mem.key.state \in {"None", "Relinquished"}
    BY <1>1, Zenon DEF Cleanup, KeyDeclared
  <2> QED  BY <1>1, <2>1 DEF KeyInv, Deletion, Owned
<1>4. /\ pc' \in {"persist", "checkpoint"} /\ pc' \in Steps
      /\ Control' /\ Deletion' /\ Holding' /\ KeyChangesOnlyOwned' /\ FinalizerHoldsKey'
  <2>1. view.deleting /\ ~waiting' => Recorded(store) \cup Recorded(mem)' = {}
    BY <1>2, <1>3, Zenon DEF Recorded, Owned, Same
  <2> QED  BY <1>1, <2>1, DoneFrame, Zenon
<1>5. TypeOK' /\ Named' /\ Tracked'
  <2>1. waiting' \in BOOLEAN /\ err \in BOOLEAN /\ raced \in BOOLEAN /\ at \in Keys \cup {NoKey}
    BY <1>0, <1>1 DEF TypeOK
  <2> QED  BY <1>1, <1>2, <1>4, <2>1, SameFrame, Zenon
<1> QED  BY <1>4, <1>5 DEF KeyInv

\* The rest of Cleanup's switch: a key that data holds is not the one whose
\* deletion is scheduled.
LEMMA CleanupUndeclaredKeeps ==
    ASSUME KeyInv, CleanupUndeclared
    PROVE  KeyInv'
<1>0. TypeOK /\ cr # "gone"
  BY Zenon DEF KeyInv, Control, CleanupUndeclared
<1>1. /\ pc = "cleanup" /\ pc' \in {"relinquish", "verify"} /\ at' = mem.key.arn /\ mem.key.state # "None"
      /\ UNCHANGED <<spec, cr, calm, store, keys, alias, data, view, err, mem, waiting, orphaned, missed,
                     raced>>
  BY Zenon DEF CleanupUndeclared, GoTo, crVars, awsVars, history
<1>2. /\ view.deleting \/ ~view.spec.data
      /\ pc' = "verify" => ~Held
  BY Zenon DEF CleanupUndeclared, GoTo, KeyDeclared, HeldPolicy
<1>3. at' \in Keys /\ keys[at'].state # "Absent"
  BY <1>1, Zenon DEF KeyInv, Named, Names
<1>4. TypeOK' /\ Named' /\ Tracked' /\ FinalizerHoldsKey' /\ Held' = Held /\ Unrecorded(mem)' = Unrecorded(mem)
  <2>1. pc' \in Steps /\ at' \in Keys \cup {NoKey}
    BY <1>1, <1>3 DEF Steps, CleanupSteps
  <2>2. mem \in Ledgers /\ err \in BOOLEAN /\ raced \in BOOLEAN /\ waiting \in BOOLEAN
    BY <1>0, Zenon DEF TypeOK
  <2> QED  BY <1>1, <2>1, <2>2, SameFrame, ZenonT(40) DEF Same
<1>5. Control' /\ KeyChangesOnlyOwned'
  BY <1>0, <1>1, <1>3, Zenon DEF Control, AtOwned, AtFound, AtRevived, AtLeft, EnsureSteps,
              KeyChangesOnlyOwned
<1>6. Deletion'
  BY <1>1, Zenon DEF KeyInv, Deletion, AtLeft
<1>7. Holding'
  BY <1>1, <1>2, <1>4, Zenon DEF KeyInv, Holding, DataUntouched, AtLeft, EnsureSteps
<1> QED  BY <1>4, <1>5, <1>6, <1>7, Zenon DEF KeyInv

\* The read before the tags are taken off, or before the deletion is scheduled,
\* found the CR's own.
LEMMA CheckedFrame ==
    ASSUME KeyInv, pc \in {"relinquish", "verify"}, pc' = (IF pc = "verify" THEN "schedule" ELSE "untag"),
           IsOwnedBy(keys[at].tags),
           UNCHANGED <<spec, cr, calm, store, keys, alias, data, view, err, mem, at, waiting, orphaned,
                       missed>>,
           raced' = FALSE
    PROVE  KeyInv'
<1>0. TypeOK /\ cr # "gone"
  BY DEF KeyInv, Control
<1>1. TypeOK' /\ Named' /\ Tracked' /\ FinalizerHoldsKey' /\ Held' = Held /\ Unrecorded(mem)' = Unrecorded(mem)
  <2>1. pc' \in Steps /\ pc' # "idle"
    BY DEF Steps, CleanupSteps
  <2>2. mem \in Ledgers /\ err \in BOOLEAN /\ waiting \in BOOLEAN /\ at \in Keys \cup {NoKey}
    BY <1>0, Zenon DEF TypeOK
  <2> QED  BY <2>1, <2>2, SameFrame, ZenonT(40) DEF Same
<1>2. Control'
  BY DEF KeyInv, Control, AtOwned, AtFound, AtRevived, AtLeft, EnsureSteps
<1>3. Deletion' /\ KeyChangesOnlyOwned'
  BY Zenon DEF KeyInv, Deletion, AtLeft, KeyChangesOnlyOwned
<1>4. Holding'
  BY <1>1, Zenon DEF KeyInv, Holding, DataUntouched, AtLeft, EnsureSteps
<1> QED  BY <1>1, <1>2, <1>3, <1>4, Zenon DEF KeyInv
\* relinquishIfStillTagged's reads.
LEMMA relinquishKeeps ==
    ASSUME KeyInv, relinquish
    PROVE  KeyInv'
<1>0. /\ TypeOK /\ pc \in AtLeft /\ at \in Keys /\ keys[at].state # "Absent" /\ mem.key.arn = at
      /\ keys \in [Keys -> AWSKeys] /\ keys[at].state \in {"Enabled", "Disabled", "PendingDeletion", "Deleted"}
  BY KeyUpdates, ZenonT(40) DEF KeyInv, relinquish, Control, AtLeft, TypeOK
<1>1. /\ pc = "relinquish" /\ raced' = FALSE /\ UNCHANGED err
      /\ UNCHANGED <<spec, cr, calm, store, keys, alias, data, view, at, waiting, orphaned, missed>>
  BY Zenon DEF relinquish, GoTo, crVars, awsVars
<1>2. CASE IsOwnedBy(keys[at].tags) /\ UNCHANGED mem /\ pc' = "untag"
  BY <1>1, <1>2, CheckedFrame, Zenon
<1>3. CASE ~Ours(at) /\ mem' \in {LetGo, KeyIs(NoKeyEntry)} /\ pc' = SectionDone
  <2>1. /\ mem' \in Ledgers
        /\ \/ mem'.key.state = "None" /\ mem'.key.arn = NoKey
           \/ mem'.key.state # "None" /\ mem'.key.arn = at
    BY <1>0, <1>3, LeftLedgers, Zenon
  <2>2. ~Ours(at)'
    BY <1>1, <1>3 DEF Ours, Usable
  <2>3. err \in BOOLEAN /\ waiting \in BOOLEAN
    BY <1>0 DEF TypeOK
  <2> QED  BY <1>0, <1>1, <1>3, <2>1, <2>2, <2>3, LeftFrame, Zenon
<1> QED  BY <1>0, <1>2, <1>3, SMTT(30) DEF relinquish, GoTo, Ours, Usable

\* The tags are taken off.
LEMMA untagKeyKeeps ==
    ASSUME KeyInv, untagKey
    PROVE  KeyInv'
<1>0. /\ TypeOK /\ pc \in AtLeft /\ at \in Keys /\ keys[at].state # "Absent" /\ mem.key.arn = at
      /\ keys \in [Keys -> AWSKeys] /\ mem.key.state # "None"
  BY Zenon DEF KeyInv, untagKey, Control, AtLeft, TypeOK
<1>1. /\ pc = "untag" /\ pc' = SectionDone /\ err' \in BOOLEAN
      /\ UNCHANGED <<spec, cr, calm, store, alias, data, view, at, waiting, orphaned, missed, raced>>
  BY <1>0, Zenon DEF untagKey, GoTo, FailTo, Answered, Lost, crVars, history, TypeOK
<1>2. mem \in Ledgers /\ waiting \in BOOLEAN /\ raced \in BOOLEAN /\ pc # "idle"
  BY <1>0, <1>1, Zenon DEF TypeOK
<1>3. CASE keys' = Tagged(at, NoTags) /\ mem' \in {mem, LetGo}
  <2>1. /\ keys' \in [Keys -> AWSKeys] /\ keys'[at].state # "Absent" /\ keys'[at].tags = NoTags
        /\ \A j \in Keys : j # at => keys'[j] = keys[j]
    BY <1>0, <1>3, KeyUpdates, TagFacts
  <2>2. mem' \in Ledgers /\ mem'.key.state # "None" /\ mem'.key.arn = at
    BY <1>0, <1>2, <1>3, LeftLedgers, ZenonT(40)
  <2>3. ~Ours(at)'
    BY <1>1, <2>1, TagFacts, Zenon DEF Ours
  <2> QED  BY <1>0, <1>1, <1>2, <2>1, <2>2, <2>3, LeftFrame, ZenonT(40)
<1>4. CASE err' = TRUE /\ UNCHANGED <<keys, mem>>
  <2>1. at \in Keys \cup {NoKey}
    BY <1>0
  <2> QED  BY <1>1, <1>2, <1>4, <2>1, NotDoneFrame DEF Same
<1> QED  BY <1>3, <1>4, ZenonT(40) DEF untagKey, FailTo

\* scheduleDeletion's reads and its quiet window.
LEMMA verifyKeyKeeps ==
    ASSUME KeyInv, verifyKey
    PROVE  KeyInv'
<1>0. /\ TypeOK /\ pc \in AtLeft /\ at \in Keys /\ keys[at].state # "Absent" /\ mem.key.arn = at
      /\ keys \in [Keys -> AWSKeys] /\ mem.key.state # "None" /\ mem \in Ledgers
  BY DEF KeyInv, verifyKey, Control, AtLeft, TypeOK
<1>1. /\ pc = "verify" /\ raced' = FALSE /\ err' \in BOOLEAN /\ waiting' \in BOOLEAN
      /\ UNCHANGED <<spec, cr, calm, store, keys, alias, data, view, at, orphaned, missed>>
  <2>1. /\ pc = "verify" /\ raced' = FALSE
        /\ UNCHANGED <<spec, cr, calm, store, keys, alias, data, view, at, orphaned, missed>>
    BY DEF verifyKey, crVars, awsVars
  <2>2. err \in BOOLEAN /\ waiting \in BOOLEAN /\ view.deleting \in BOOLEAN
    BY <1>0, SpecFacts DEF TypeOK
  <2>3. err' \in {err, TRUE} /\ waiting' \in {waiting, view.deleting}
    BY Zenon DEF verifyKey, GoTo, FailTo
  <2> QED  BY <2>1, <2>2, <2>3, Zenon
<1>2. CASE IsOwnedBy(keys[at].tags) /\ UNCHANGED <<err, mem, waiting>> /\ pc' = "schedule"
  BY <1>1, <1>2, CheckedFrame, Zenon
<1>3. CASE /\ keys[at].state \in {"Deleted", "PendingDeletion"}
           /\ mem' \in {mem, KeyIs(NoKeyEntry)} /\ pc' = SectionDone
  <2>1. /\ mem' \in Ledgers
        /\ \/ mem'.key.state = "None" /\ mem'.key.arn = NoKey
           \/ mem'.key.state # "None" /\ mem'.key.arn = at
    BY <1>0, <1>3, LeftLedgers, ZenonT(40)
  <2>2. ~Ours(at)'
    BY <1>1, <1>3 DEF Ours, Usable
  <2> QED  BY <1>0, <1>1, <1>3, <2>1, <2>2, LeftFrame, Zenon
<1>4. ASSUME mem' \in Ledgers, Same(mem', mem), pc' = SectionDone, err' = TRUE \/ waiting' = view.deleting
      PROVE  KeyInv'
  <2>1. at \in Keys \cup {NoKey} /\ pc # "idle"
    BY <1>0, <1>1, ZenonT(40)
  <2> QED  BY <1>1, <1>4, <2>1, NotDoneFrame, Zenon
<1>5. CASE mem' = mem /\ err' = TRUE /\ pc' = SectionDone
  BY <1>0, <1>4, <1>5 DEF Same
<1>6. CASE mem' = KeyIs([mem.key EXCEPT !.pending = "quiet"]) /\ waiting' = view.deleting /\ pc' = SectionDone
  <2>1. mem' \in Ledgers /\ Same(mem', mem)
    BY <1>0, <1>6, LeftLedgers, Zenon
  <2> QED  BY <1>4, <1>6, <2>1
<1> QED  BY <1>2, <1>3, <1>5, <1>6, Zenon DEF verifyKey, GoTo, FailTo

\* ScheduleKeyDeletion.
LEMMA scheduleKeyDeletionKeeps ==
    ASSUME KeyInv, scheduleKeyDeletion
    PROVE  KeyInv'
<1>0. /\ TypeOK /\ pc \in AtLeft /\ at \in Keys /\ keys[at].state # "Absent" /\ mem.key.arn = at
      /\ keys \in [Keys -> AWSKeys] /\ mem.key.state # "None"
  BY Zenon DEF KeyInv, scheduleKeyDeletion, Control, AtLeft, TypeOK
<1>1. /\ pc = "schedule" /\ pc' = SectionDone /\ err' \in BOOLEAN
      /\ UNCHANGED <<spec, cr, calm, store, alias, data, view, at, waiting, orphaned, missed, raced>>
  BY <1>0, ZenonT(40) DEF scheduleKeyDeletion, GoTo, FailTo, Answered, Lost, crVars, history, TypeOK
<1>2. mem \in Ledgers /\ waiting \in BOOLEAN /\ raced \in BOOLEAN /\ pc # "idle"
  BY <1>0, <1>1, ZenonT(40) DEF TypeOK
<1>3. CASE keys' = InState(at, "PendingDeletion") /\ mem' \in {mem, KeyIs(NoKeyEntry)}
  <2>1. /\ keys' \in [Keys -> AWSKeys] /\ keys'[at].state = "PendingDeletion"
        /\ \A j \in Keys : j # at => keys'[j] = keys[j]
    BY <1>0, <1>3, KeyUpdates
  <2>2. /\ mem' \in Ledgers
        /\ \/ mem'.key.state = "None" /\ mem'.key.arn = NoKey
           \/ mem'.key.state # "None" /\ mem'.key.arn = at
    BY <1>0, <1>2, <1>3, LeftLedgers, Zenon
  <2>3. ~Ours(at)'
    BY <1>1, <2>1, Zenon DEF Ours, Usable
  <2> QED  BY <1>0, <1>1, <1>2, <2>1, <2>2, <2>3, LeftFrame, ZenonT(40)
<1>4. CASE err' = TRUE /\ UNCHANGED <<keys, mem>>
  <2>1. at \in Keys \cup {NoKey}
    BY <1>0
  <2> QED  BY <1>1, <1>2, <1>4, <2>1, NotDoneFrame, Zenon DEF Same
<1> QED  BY <1>3, <1>4, ZenonT(40) DEF scheduleKeyDeletion, FailTo
-----------------------------------------------------------------------------
(* The section of the data.                                                *)

\* The key's entry stays, and a deletion pass goes on to the key.
LEMMA DataFrame ==
    ASSUME KeyInv, pc = "data", pc' = DataDone, mem' \in Ledgers, mem'.key = mem.key, data' \in Data,
           UNCHANGED <<spec, cr, calm, store, keys, alias, view, at, waiting, orphaned, missed, raced>>,
           err' \in BOOLEAN,
           view.deleting /\ ~Unrecorded(mem) => ~Unrecorded(mem)'
    PROVE  KeyInv'
<1>0. pc' \in {"cleanup", "checkpointData"} /\ (pc' = "cleanup" <=> view.deleting) /\ pc' \in Steps
  BY DEF DataDone, Steps, CleanupSteps
<1>1. TypeOK'
  BY <1>0, ZenonT(40) DEF KeyInv, TypeOK
<1>2. Named' /\ Tracked'
  BY <1>0, MoveFrame, SMTT(30)
<1>3. Control' /\ KeyChangesOnlyOwned' /\ FinalizerHoldsKey'
  BY <1>0, Zenon DEF KeyInv, Control, AtOwned, AtFound, AtRevived, AtLeft, EnsureSteps, KeyChangesOnlyOwned,
              FinalizerHoldsKey
<1>4. Deletion'
  BY <1>0, Zenon DEF KeyInv, Deletion, AtLeft
<1>5. Holding'
  BY <1>0 DEF KeyInv, Holding, DataUntouched, AtLeft, EnsureSteps
<1> QED  BY <1>1, <1>2, <1>3, <1>4, <1>5, ZenonT(40) DEF KeyInv

\* The section of the data, in a reconcile or a deletion pass.
LEMMA DataSectionKeeps ==
    ASSUME KeyInv, DataSection
    PROVE  KeyInv'
<1>0. TypeOK /\ mem \in Ledgers /\ mem.key \in KeyEntries /\ mem.data \in DataEntries /\ data \in Data
  BY LedgerFacts DEF KeyInv, TypeOK
<1>1. /\ pc = "data" /\ pc' = DataDone /\ err' \in BOOLEAN
      /\ UNCHANGED <<spec, cr, calm, store, keys, alias, view, at, waiting, orphaned, missed, raced>>
  BY <1>0, Zenon DEF DataSection, ensureData, cleanupData, deleteData, GoTo, FailTo, Answered, Lost, crVars,
              awsVars,
              history, TypeOK
<1>2. CASE ensureData
  <2>1. ~view.deleting
    BY <1>2 DEF ensureData
  <2>2. data' \in Data
    <3>1. data' = data \/ (mem.key.arn # NoKey /\ data' = [exists |-> TRUE, key |-> mem.key.arn])
      BY <1>2 DEF ensureData
    <3>2. mem.key.arn \in Keys \cup {NoKey}
      BY <1>0, EntryUpdates, Zenon
    <3>3. [exists |-> TRUE, key |-> mem.key.arn] \in Data
      BY <3>2 DEF Data
    <3> QED  BY <1>0, <3>1, <3>3, Zenon
  <2>3. mem' \in Ledgers /\ mem'.key = mem.key
    <3> DEFINE d == [mem.data EXCEPT !.state = "Verified", !.policy = view.spec.dataPolicy]
    <3>1. d \in DataEntries
      BY <1>0, SpecFacts, Zenon DEF DataEntries
    <3>2. mem' = mem \/ mem' = DataIs(d)
      BY <1>2, Zenon DEF ensureData
    <3> HIDE DEF d
    <3> QED  BY <1>0, <3>1, <3>2, LedgerFacts
  <2> QED  BY <1>1, <2>1, <2>2, <2>3, DataFrame
<1>3. CASE cleanupData
  <2> DEFINE d == [mem.data EXCEPT !.state = "Relinquished"]
             kept == mem.data.state # "None" /\ data.exists /\ mem.data.key # NoKey
  <2>1. UNCHANGED data
    BY <1>3 DEF cleanupData, awsVars
  <2>2. \/ mem' = mem
        \/ kept /\ mem' = DataIs(d)
        \/ ~kept /\ mem' = DataIs(NoDataEntry)
    BY <1>3 DEF cleanupData
  <2>3. d \in DataEntries /\ d.state = "Relinquished" /\ d.key = mem.data.key
    BY <1>0, DataUpdates, ZenonT(40)
  <2> HIDE DEF d
  <2>4. /\ mem' \in Ledgers /\ mem'.key = mem.key
        /\ \/ mem' = mem
           \/ kept /\ mem'.data.state = "Relinquished" /\ mem'.data.key = mem.data.key
           \/ ~kept
    BY <1>0, <2>2, <2>3, NewEntries, LedgerFacts
  <2>5. ~Unrecorded(mem) => ~Unrecorded(mem)'
    BY <2>1, <2>4, Zenon DEF Unrecorded
  <2> QED  BY <1>0, <1>1, <2>1, <2>4, <2>5, DataFrame
<1>4. CASE deleteData
  <2>1. data' = NoData /\ data' \in Data /\ ~data'.exists
    BY <1>4, ZenonT(40) DEF deleteData, NoData, Data
  <2>2. mem' \in Ledgers /\ mem'.key = mem.key
    BY <1>0, <1>4, NewEntries, LedgerFacts, Zenon DEF deleteData
  <2>3. ~Unrecorded(mem)'
    BY <2>1 DEF Unrecorded
  <2> QED  BY <1>1, <2>1, <2>2, <2>3, DataFrame, Zenon
<1> QED  BY <1>2, <1>3, <1>4, ZenonT(40) DEF DataSection

-----------------------------------------------------------------------------
(* The beginning and the end of a pass.                                    *)

\* The start of a pass, from the persisted ledger.
LEMMA BeginKeeps ==
    ASSUME KeyInv, Begin
    PROVE  KeyInv'
<1>0. TypeOK /\ spec \in SpecType
  BY SpecFacts, Zenon DEF KeyInv
<1>1. /\ pc = "idle" /\ cr # "gone" /\ mem' = store /\ pc' = (IF cr = "deleting" THEN "data" ELSE "kms")
      /\ view' = [spec |-> spec, deleting |-> cr = "deleting"]
      /\ UNCHANGED <<spec, cr, calm, store, keys, alias, data, err, at, waiting, orphaned, missed, raced>>
  BY ZenonT(40) DEF Begin, GoTo, crVars, awsVars, history
<1>2. pc' \in Steps /\ view' \in [spec : SpecType, deleting : BOOLEAN] /\ view'.deleting = (cr = "deleting")
  BY <1>0, <1>1 DEF Steps, EnsureSteps
<1>3. TypeOK'
  BY <1>0, <1>1, <1>2, ZenonT(40) DEF TypeOK
<1>4. Named'
  BY <1>1, Zenon DEF KeyInv, Named, Names
<1>5. Tracked'
  BY <1>1, SMTT(30) DEF KeyInv, Tracked, Current, Recorded, Ours, Usable
<1>6. Control' /\ KeyChangesOnlyOwned' /\ FinalizerHoldsKey'
  BY <1>1, <1>2, Zenon DEF KeyInv, Control, AtOwned, AtFound, AtRevived, AtLeft, EnsureSteps,
              KeyChangesOnlyOwned,
                    FinalizerHoldsKey
<1>7. Deletion'
  BY <1>1, Zenon DEF Deletion
<1>8. Holding'
  BY <1>1, <1>2 DEF KeyInv, Holding, DataUntouched, Unrecorded, AtLeft, EnsureSteps
<1> QED  BY <1>3, <1>4, <1>5, <1>6, <1>7, <1>8 DEF KeyInv

\* The checkpoints between the sections, and the iam section's stamp, in a
\* reconcile pass.
LEMMA CheckpointKeeps ==
    ASSUME KeyInv, Checkpoint \/ stampInIAM
    PROVE  KeyInv'
<1>0. TypeOK /\ ~view.deleting /\ cr # "gone"
  BY DEF KeyInv, Control, Checkpoint, stampInIAM
<1>1. /\ pc \in {"checkpoint", "checkpointData", "iam"} /\ pc' \in {"data", "iam", "persist"}
      /\ err' \in BOOLEAN
      /\ UNCHANGED <<spec, cr, calm, keys, alias, data, waiting, orphaned, missed, raced>>
      /\ store' \in {store, mem} /\ at' \in {NoKey, at}
  BY <1>0, ZenonT(40) DEF Checkpoint, stampInIAM, GoTo, crVars, awsVars, history, TypeOK
<1>2. view' \in [spec : SpecType, deleting : BOOLEAN] /\ ~view'.deleting
  <2>1. view' \in {view, [view EXCEPT !.spec = spec]}
    BY DEF Checkpoint, stampInIAM
  <2> QED  BY <1>0, <2>1, SpecFacts DEF TypeOK
<1>3. mem' \in Ledgers /\ mem'.key = mem.key /\ store' \in Ledgers
  BY <1>0, <1>1, StampedFacts DEF Checkpoint, stampInIAM, TypeOK
<1>4. TypeOK'
  <2>1. pc' \in Steps /\ at' \in Keys \cup {NoKey}
    BY <1>0, <1>1, Zenon DEF TypeOK, Steps
  <2> QED  BY <1>0, <1>1, <1>2, <1>3, <2>1, Zenon DEF TypeOK
<1>5. Named'
  BY <1>1, <1>3, Zenon DEF KeyInv, Named, Names
<1>6. Tracked'
  BY <1>1, <1>3, Zenon DEF KeyInv, Tracked, Current, Recorded, Ours, Usable
<1>7. Control' /\ KeyChangesOnlyOwned' /\ FinalizerHoldsKey'
  BY <1>0, <1>1, <1>2, Zenon DEF Control, AtOwned, AtFound, AtRevived, AtLeft, EnsureSteps, KeyChangesOnlyOwned,
                    FinalizerHoldsKey
<1>8. Deletion' /\ Holding'
  BY <1>1, <1>2 DEF Deletion, Holding, DataUntouched, AtLeft, EnsureSteps
<1> QED  BY <1>4, <1>5, <1>6, <1>7, <1>8 DEF KeyInv

\* A call that fails without any effect.
LEMMA CallFailsKeeps ==
    ASSUME KeyInv, CallFails
    PROVE  KeyInv'
<1>0. TypeOK /\ cr # "gone" /\ mem \in Ledgers /\ at \in Keys \cup {NoKey}
      /\ waiting \in BOOLEAN /\ raced \in BOOLEAN /\ data \in Data
  BY Zenon DEF KeyInv, Control, CallFails, EnsureSteps, CleanupSteps, TypeOK
<1>1. /\ UNCHANGED <<spec, cr, calm, store, keys, alias, data, view, mem, at, waiting, orphaned, missed, raced>>
      /\ err' = TRUE
  BY DEF CallFails, FailTo, crVars, awsVars, history
<1>2. CASE pc \in EnsureSteps /\ pc' = "stamp"
  <2>1. ~view.deleting /\ Deletion' /\ Holding' /\ KeyChangesOnlyOwned' /\ FinalizerHoldsKey'
    BY <1>1, <1>2, EnsureFrame
  <2>2. Named' /\ Tracked'
    BY <1>1, <1>2, MoveFrame, Zenon DEF EnsureSteps
  <2>3. Control'
    BY <1>0, <1>1, <1>2, <2>1 DEF Control, AtOwned, AtFound, AtRevived, AtLeft, EnsureSteps
  <2>4. pc' \in Steps
    BY <1>2 DEF Steps
  <2>5. TypeOK'
    BY <1>0, <1>1, <2>4, Zenon DEF TypeOK
  <2> QED  BY <2>1, <2>2, <2>3, <2>5, ZenonT(40) DEF KeyInv
<1>3. CASE pc \in CleanupSteps \ {"cleanup"} /\ pc' = SectionDone
  <2>1. pc # "idle" /\ Same(mem', mem)
    BY <1>1, <1>3 DEF CleanupSteps, Same
  <2> QED  BY <1>0, <1>1, <1>3, <2>1, NotDoneFrame
<1>4. CASE pc = "data" /\ pc' = DataDone
  <2>1. ~Unrecorded(mem) => ~Unrecorded(mem)'
    BY <1>1 DEF Unrecorded
  <2> QED  BY <1>0, <1>1, <1>4, <2>1, DataFrame, Zenon
<1> QED  BY <1>2, <1>3, <1>4, SMTT(30) DEF CallFails, FailTo

\* The end of a pass, its ledger written or not.
LEMMA EndPassKeeps ==
    ASSUME KeyInv, pc # "idle", NEW l \in {store, mem}, EndPass(l),
           UNCHANGED <<spec, calm, keys, alias, data>>,
           cr' \in {cr, "gone"},
           cr' = "gone" => view.deleting /\ pc = "persist" /\ ~err /\ ~waiting
    PROVE  KeyInv'
<1>0. TypeOK /\ l \in Ledgers /\ data \in Data
  BY DEF KeyInv, TypeOK
<1>1. /\ store' = l /\ missed' = Unrecorded(l) /\ orphaned' = (orphaned \cup Recorded(mem)) \ Recorded(l)
      /\ pc' = "idle" /\ view' = [spec |-> spec, deleting |-> FALSE] /\ mem' = EmptyLedger
      /\ err' = FALSE /\ at' = NoKey /\ waiting' = FALSE /\ raced' = FALSE
  BY Zenon DEF EndPass
<1>2. Recorded(mem) \subseteq Keys
  BY DEF KeyInv, Named, Names, Recorded
<1>3. TypeOK'
  <2>1. orphaned' \subseteq Keys
    BY <1>0, <1>1, <1>2 DEF TypeOK
  <2>2. view' \in [spec : SpecType, deleting : BOOLEAN]
    BY <1>0, <1>1, SpecFacts, Zenon
  <2>3. missed' \in BOOLEAN
    BY <1>0, <1>1, Zenon DEF Unrecorded, Data
  <2>4. pc' \in Steps /\ mem' \in Ledgers
    BY <1>1, LedgerFacts, ZenonT(40) DEF Steps
  <2> QED  BY <1>0, <1>1, <2>1, <2>2, <2>3, <2>4, ZenonT(40) DEF TypeOK
<1>4. Named'
  <2>1. Names(store.key)'
    BY <1>1, ZenonT(40) DEF KeyInv, Named, Names
  <2>2. Names(mem.key)'
    BY <1>1, LedgerFacts, NewEntries, ZenonT(40) DEF Names
  <2> QED  BY <2>1, <2>2, SMTT(30) DEF KeyInv, Named
<1>5. Control' /\ Deletion' /\ KeyChangesOnlyOwned'
  BY <1>1, Zenon DEF Control, Deletion, KeyChangesOnlyOwned, AtOwned, AtFound, AtRevived, AtLeft, EnsureSteps
<1>6. ASSUME NEW k \in Keys, Ours(k)
      PROVE  k \in Recorded(l) \cup orphaned'
  BY <1>1, <1>6, Zenon DEF KeyInv, Tracked, Current
<1>7. Tracked'
  BY <1>1, <1>6, SMTT(30) DEF Tracked, Current, Recorded, Ours, Usable
<1>8. Holding'
  BY <1>1, Zenon DEF Holding, DataUntouched, Unrecorded, AtLeft, EnsureSteps
<1>9. FinalizerHoldsKey'
  <2> SUFFICES ASSUME cr' = "gone", NEW k \in Keys, Ours(k)
               PROVE  k \in orphaned'
    BY Zenon DEF FinalizerHoldsKey, Ours, Usable
  <2>1. k \notin Recorded(store) \cup Recorded(mem)
    BY DEF KeyInv, Deletion
  <2> QED  BY <1>6, <2>1, Zenon
<1> QED  BY <1>3, <1>4, <1>5, <1>7, <1>8, <1>9, Zenon DEF KeyInv

\* The end of a pass as Persist and a crash bring it about.
LEMMA PassEndsKeep ==
    ASSUME KeyInv, Persist \/ Crash
    PROVE  KeyInv'
<1>1. pc # "idle" /\ UNCHANGED <<spec, calm, keys, alias, data>> /\ cr' \in {cr, "gone"}
  BY Zenon DEF Persist, Crash, crVars, awsVars
<1>2. cr # "gone"
  BY <1>1 DEF KeyInv, Control
<1>3. cr' = "gone" => view.deleting /\ pc = "persist" /\ ~err /\ ~waiting
  BY <1>2 DEF Persist, Crash, crVars, Finalized
<1>4. EndPass(store) \/ EndPass(mem)
  BY DEF Persist, Crash
<1> QED  BY <1>1, <1>3, <1>4, EndPassKeeps

-----------------------------------------------------------------------------
(* The invariant.                                                          *)

\* A CR just created, whose alias is free or somebody else's.
LEMMA KeyInit == Init => KeyInv
<1> SUFFICES ASSUME Init PROVE KeyInv
  OBVIOUS
<1>1. /\ spec \in Specs /\ cr = "live" /\ calm = FALSE /\ store = EmptyLedger /\ mem = EmptyLedger
      /\ data = NoData /\ pc = "idle" /\ view = [spec |-> spec, deleting |-> FALSE] /\ err = FALSE
      /\ at = NoKey /\ waiting = FALSE /\ orphaned = {} /\ missed = FALSE /\ raced = FALSE
  BY Zenon DEF Init
<1>2. /\ keys \in [Keys -> AWSKeys] /\ alias \in Keys \cup {NoKey}
      /\ alias # NoKey => keys[alias].state # "Absent"
      /\ \A k \in Keys : ~Ours(k)
  <2>1. Unmade \in AWSKeys /\ Unmade.state = "Absent"
    BY TagFacts DEF Unmade, AWSKeys
  <2>2. CASE alias = NoKey /\ keys = [k \in Keys |-> Unmade]
    BY <2>1, <2>2, Zenon DEF Ours, Usable
  <2>3. CASE \E k \in Keys, t \in ForeignTags, s \in {"Enabled", "PendingDeletion"} :
               alias = k /\ keys = [[j \in Keys |-> Unmade] EXCEPT ![k] = [state |-> s, tags |-> t]]
    <3>1. PICK k \in Keys, t \in ForeignTags, s \in {"Enabled", "PendingDeletion"} :
            alias = k /\ keys = [[j \in Keys |-> Unmade] EXCEPT ![k] = [state |-> s, tags |-> t]]
      BY <2>3, ZenonT(40)
    <3> DEFINE new == [state |-> s, tags |-> t]
    <3>2. new \in AWSKeys /\ new.state # "Absent" /\ ~IsOwnedBy(new.tags)
      BY TagFacts DEF AWSKeys
    <3>3. keys = [[j \in Keys |-> Unmade] EXCEPT ![k] = new]
      BY <3>1
    <3> HIDE DEF new
    <3> QED  BY <2>1, <3>1, <3>2, <3>3, ZenonT(40) DEF Ours, Usable
  <2> QED  BY <2>2, <2>3 DEF Init
<1>3. TypeOK
  <2>1. view \in [spec : SpecType, deleting : BOOLEAN]
    BY <1>1, KeyAssumption, ZenonT(40)
  <2>2. data \in Data /\ store \in Ledgers /\ mem \in Ledgers /\ pc \in Steps
    BY <1>1, LedgerFacts, SMTT(30) DEF NoData, Data, Steps
  <2> QED  BY <1>1, <1>2, <2>1, <2>2, ZenonT(40) DEF TypeOK
<1>4. Named
  BY <1>1, <1>2, LedgerFacts, NewEntries, ZenonT(40) DEF Named, Names
<1>5. Control /\ Deletion /\ KeyChangesOnlyOwned /\ FinalizerHoldsKey
  BY <1>1, Zenon DEF Control, Deletion, KeyChangesOnlyOwned, FinalizerHoldsKey, AtOwned, AtFound, AtRevived,
              AtLeft, EnsureSteps
<1>6. Tracked
  BY <1>2, SMTT(30) DEF Tracked
<1>7. Holding
  BY <1>1, Zenon DEF Holding, DataUntouched, Unrecorded, NoData, AtLeft, EnsureSteps
<1> QED  BY <1>3, <1>4, <1>5, <1>6, <1>7 DEF KeyInv

\* Every step of the operator, of its faults, of its users and of everybody else.
LEMMA KeyStep == KeyInv /\ [Next \/ Calm]_vars => KeyInv'
<1> SUFFICES ASSUME KeyInv, [Next \/ Calm]_vars PROVE KeyInv'
  OBVIOUS
<1>1. CASE Ensure
  BY <1>1, ensureKeyKeeps, createKeyKeeps, checkpointKeyKeeps, ensureAliasKeeps, resumeKeyKeeps,
     takeOverKeyKeeps, reviveKeyKeeps, adoptKeyKeeps, tagAdoptedKeeps DEF Ensure
<1>2. CASE CleanupKey
  BY <1>2, stampInKMSKeeps, CleanupKeeps, CleanupUndeclaredKeeps, relinquishKeeps, untagKeyKeeps,
     verifyKeyKeeps, scheduleKeyDeletionKeeps DEF CleanupKey
<1>3. CASE Pass
  BY <1>1, <1>2, <1>3, BeginKeeps, DataSectionKeeps, CheckpointKeeps, PassEndsKeep DEF Pass
<1>4. CASE Faults
  BY <1>4, CallFailsKeeps, PassEndsKeep DEF Faults
<1>5. CASE Users \/ Tick \/ Calm \/ UNCHANGED vars
  BY <1>5, UsersKeep
<1>6. CASE Outside
  BY <1>6, OutsideKeeps
<1> QED  BY <1>3, <1>4, <1>5, <1>6 DEF Next

\* KeyInv holds of every behaviour, fair or not.
LEMMA KeyInvariance == (Spec => []KeyInv) /\ (FairSpec => []KeyInv)
<1>1. KeyInv /\ [Next]_vars => KeyInv'
  BY KeyStep
<1>2. Spec => []KeyInv
  BY KeyInit, <1>1, PTL DEF Spec
<1>3. FairSpec => []KeyInv
  BY KeyInit, KeyStep, PTL DEF FairSpec
<1> QED  BY <1>2, <1>3

-----------------------------------------------------------------------------
(* What it shows.                                                          *)

\* scheduleDeletion is never about to schedule the deletion of the key that
\* existing data is encrypted with, unless the last pass left that data's key
\* unrecorded: whatever the order of edits, policy changes, releases, crashes
\* and failed writes.
THEOREM DataKeepsItsKey == (Spec => []KeyOutlivesData) /\ (FairSpec => []KeyOutlivesData)
<1>1. KeyInv => KeyOutlivesData
  <2> SUFFICES ASSUME KeyInv, pc = "schedule", data.exists, data.key = at, ~missed PROVE FALSE
    BY SMTT(30) DEF KeyInv, TypeOK, KeyOutlivesData
  <2>1. at \in Keys /\ mem.key.arn = at /\ ~Held /\ ~Unrecorded(mem)
    BY Zenon DEF KeyInv, Control, Holding, DataUntouched, AtLeft
  <2>2. at # NoKey
    BY <2>1, KeyAssumption, Zenon
  <2> QED  BY <2>1, <2>2, Zenon DEF Held, Unrecorded
<1> QED  BY <1>1, KeyInvariance, PTL

\* Every usable key with this CR's tags is in a ledger or behind the alias, or is
\* one whose record was lost between the call that made it and a status write.
THEOREM KeysStayFindable == (Spec => []KeysAreFindable) /\ (FairSpec => []KeysAreFindable)
<1>1. KeyInv => KeysAreFindable
  BY DEF KeyInv, Tracked, Current, Recorded, Ours, Usable, KeysAreFindable
<1> QED  BY <1>1, KeyInvariance, PTL

\* UntagResource and ScheduleKeyDeletion meet a key whose tags were the CR's when
\* the same pass read them, and nobody has retagged since.
THEOREM OnlyOwnKeysChange == (Spec => []KeyChangesOnlyOwned) /\ (FairSpec => []KeyChangesOnlyOwned)
<1>1. KeyInv => KeyChangesOnlyOwned
  BY DEF KeyInv
<1> QED  BY <1>1, KeyInvariance, PTL

\* The finalizer goes only when no usable key is left with the CR's tags, those
\* whose record was lost aside.
THEOREM FinalizerOutlastsKey == (Spec => []FinalizerHoldsKey) /\ (FairSpec => []FinalizerHoldsKey)
<1>1. KeyInv => FinalizerHoldsKey
  BY DEF KeyInv
<1> QED  BY <1>1, KeyInvariance, PTL
=============================================================================
