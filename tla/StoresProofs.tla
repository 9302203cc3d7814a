---------------------------- MODULE StoresProofs ----------------------------
(***************************************************************************)
(* What Stores promises of topics, buckets and tables, for every window,   *)
(* delay, declaration and foreign tag: a cleanup changes only what is the  *)
(* CR's, the finalizer stays while something recorded is left, a table     *)
(* that was lost is not replaced, and every step is one SafeDeletion       *)
(* allows, so that nothing is destroyed for being empty that is not.       *)
(***************************************************************************)
EXTENDS StoresSteps

-----------------------------------------------------------------------------
(* SafeDeletion's steps keep what is doomed for being empty empty.         *)

\* The quiet window covers the time a deny takes to bite and the time the last
\* subscription before it takes to show.
LEMMA WindowLongEnough == SD!LongEnough
BY LedgerAssumption, GateAssumption DEF SD!LongEnough

\* A resource nobody has announced anything of.
LEMMA SafeInit == ASSUME SD!Init PROVE SD!SafeInv
<1> USE WindowLongEnough DEF SD!LongEnough, SD!Init, SD!Never
<1>1. SD!TypeInv BY Truths DEF SD!TypeInv, SD!Ages
<1>2. SD!ClosedFirst BY DEF SD!ClosedFirst
<1>3. SD!NothingNew BY DEF SD!NothingNew
<1>4. SD!FoundEmpty BY ZenonT(40) DEF SD!FoundEmpty
<1> QED BY <1>1, <1>2, <1>3, <1>4, SMTT(30) DEF SD!SafeInv

\* Every step that is allowed keeps the promise.
LEMMA SafeStep == ASSUME SD!SafeInv, [SD!Next]_(SD!vars) PROVE SD!SafeInv'
<1> USE WindowLongEnough, Truths
    DEF SD!LongEnough, SD!SafeInv, SD!TypeInv, SD!ClosedFirst, SD!NothingNew, SD!FoundEmpty,
        SD!Settled, SD!Never, SD!Ages, SD!Drop
<1>1. CASE SD!Acquire BY <1>1, SMTT(30) DEF SD!Acquire
<1>2. CASE SD!Lose BY <1>2, SMTT(30) DEF SD!Lose
<1>3. CASE SD!Close BY <1>3, SMTT(30) DEF SD!Close
<1>4. CASE SD!Reopen BY <1>4, Zenon DEF SD!Reopen
<1>5. CASE SD!Announce BY <1>5, Zenon DEF SD!Announce
<1>6. CASE SD!Withdraw BY <1>6, SMTT(30) DEF SD!Withdraw
<1>7. CASE SD!GiveUp BY <1>7, Zenon DEF SD!GiveUp
<1>8. CASE SD!Doom BY <1>8, SMTT(30) DEF SD!Doom
<1>9. CASE SD!Fill BY <1>9, SMTT(30) DEF SD!Fill
<1>10. CASE SD!Drain BY <1>10, SMTT(30) DEF SD!Drain
<1>11. CASE SD!Tick BY <1>11, SMTT(30) DEF SD!Tick, SD!Older
<1>12. CASE UNCHANGED SD!vars BY <1>12 DEF SD!vars
<1> QED BY <1>1, <1>2, <1>3, <1>4, <1>5, <1>6, <1>7, <1>8, <1>9, <1>10, <1>11, <1>12, ZenonT(40) DEF SD!Next

\* What is about to be destroyed for being empty is empty in every behaviour
\* that SafeDeletion allows, whatever the window, as long as it covers the delay
\* of the deny and the lag of the list together (gateOnSubscriptions, gateOnEmpty).
LEMMA EmptyWhenDoomed == SD!Spec => []SD!DoomedIsEmpty
<1>1. SD!Init => SD!SafeInv BY SafeInit
<1>2. SD!SafeInv /\ [SD!Next]_(SD!vars) => SD!SafeInv' BY SafeStep
<1>3. SD!SafeInv => SD!DoomedIsEmpty BY DEF SD!SafeInv, SD!FoundEmpty, SD!DoomedIsEmpty
<1> QED BY <1>1, <1>2, <1>3, PTL DEF SD!Spec

-----------------------------------------------------------------------------
(* The steps of each kind.                                                 *)

\* The two forms in which Ensure leaves an entry it changes.
LEMMA RefreshFacts ==
    ASSUME CoreInv
    PROVE  LET verified == VerifiedEntry(view.spec.policy, view.spec.force)
               refreshed == [mem EXCEPT !.policy = view.spec.policy, !.force = view.spec.force]
           IN  /\ verified \in GatedEntry /\ verified.state = "Verified" /\ verified.pending = Never
               /\ refreshed \in GatedEntry
               /\ refreshed.state = mem.state /\ refreshed.pending = mem.pending
<1>1. view.spec.policy \in DeletionPolicies /\ view.spec.force \in BOOLEAN
  BY SpecFacts DEF CoreInv, TypeInv, PassTypeOK
<1> QED BY <1>1, EntryFacts, ZenonT(40) DEF VerifiedEntry, CoreInv, TypeInv, PassTypeOK, GatedEntry

\* A new resource of the CR's own.
LEMMA CreatedFacts ==
    ASSUME CoreInv, ~resource.exists, NEW set \in {"on", "off"}, NEW st \in {"Active", "Creating"},
           resource' = NewResource(ownerTags, set, st), forgotten' = forgotten \cup {"lift", "claim"}
    PROVE  /\ resource' \in Resource(AllData) /\ Timely(resource') /\ resource'.data \subseteq resource.data
           /\ resource'.exists /\ Claimed
BY TagFacts, ResourceFacts DEF Claimed, Mine

\* The deny is dropped from a resource.
LEMMA LiftedFacts ==
    ASSUME CoreInv, resource' = [resource EXCEPT !.deny = Never], forgotten' = forgotten \cup {"lift"}
    PROVE  resource' \in Resource(AllData) /\ Timely(resource') /\ resource'.data \subseteq resource.data /\ Lifted
BY DEF CoreInv, TypeInv, PassTypeOK, Resource, Lifted, Kept, Timely

\* The tags are taken off a resource.
LEMMA UntaggedFacts ==
    ASSUME CoreInv, resource' = [resource EXCEPT !.tags = NoTags], forgotten' = forgotten
    PROVE  /\ resource' \in Resource(AllData) /\ Timely(resource') /\ resource'.data \subseteq resource.data
           /\ Gone /\ ~IsOwnedBy(resource'.tags)
BY TagFacts DEF CoreInv, TypeInv, PassTypeOK, Resource, Gone, Mine, Timely

\* What retain leaves of the entry of a resource that is no longer the CR's.
LEMMA LetGoFacts ==
    ASSUME CoreInv, mem' = LetGo, ~Mine', Retaining
    PROVE  mem' \in GatedEntry /\ Dropped
<1>1. mem \in GatedEntry /\ pc # "restore" /\ mem.state # "None"
  BY DEF CoreInv, TypeInv, PassTypeOK, Retaining, ControlInv
<1> QED BY <1>1, EntryFacts, Zenon DEF LetGo, Dropped, Recorded

\* sns.Ensure.
LEMMA TopicEnsureKeeps ==
    ASSUME CoreInv, UNCHANGED kind,
           \/ sns_ensureWithinTrust \/ ensureTopicExists \/ createTopic \/ adoptTopic
           \/ recordVerified \/ reconcileDeclaredPolicy
    PROVE  CoreInv' /\ Promised
<1>0. /\ err \in BOOLEAN /\ raced \in BOOLEAN /\ mem \in GatedEntry
      /\ resource \in Resource(AllData) /\ Timely(resource)
  BY DEF CoreInv, TypeInv, PassTypeOK
<1>1. CASE sns_ensureWithinTrust
  <2>1. /\ UNCHANGED <<userVars, store, view, resource, forgotten, raced>> /\ err' \in {err, TRUE}
        /\ pc = "ensure" /\ pc' \in {"lookup", "cleanup"}
        /\ mem' = mem \/ mem' = [mem EXCEPT !.policy = view.spec.policy, !.force = view.spec.force]
    BY <1>1, Zenon DEF sns_ensureWithinTrust, GoTo, FailTo
  <2>2. mem' \in GatedEntry /\ mem'.state = mem.state /\ mem'.pending = mem.pending
    BY <1>0, <2>1, RefreshFacts, Zenon
  <2>3. Works /\ Untouched
    BY <1>0, <2>1, <2>2 DEF Works, Untouched, Kept, userVars
  <2> QED BY <2>1, <2>2, <2>3, EnsureKeeps, Zenon DEF Ensuring
<1>2. CASE ensureTopicExists
  <2>1. CASE resource.exists
    BY <1>2, <2>1, JudgeTagsKeeps DEF ensureTopicExists, Ensuring
  <2>2. CASE ~resource.exists
    <3>1. /\ UNCHANGED <<userVars, store, view, resource, mem, forgotten, err>>
          /\ pc = "lookup" /\ pc' = "create" /\ raced' = FALSE
      BY <1>2, <2>2 DEF ensureTopicExists, GoTo
    <3>2. Works /\ Untouched
      BY <1>0, <3>1, Zenon DEF Works, Untouched, Kept, userVars
    <3> QED BY <3>1, <3>2, EnsureKeeps, Zenon DEF Ensuring
  <2> QED BY <2>1, <2>2
<1>3. CASE createTopic
  <2>1. /\ UNCHANGED <<userVars, store, view, raced>> /\ pc = "create" /\ err' \in {err, TRUE}
        /\ pc' \in {"cleanup", "policy"}
        /\ mem' = mem \/ mem' = VerifiedEntry(view.spec.policy, view.spec.force)
    BY <1>3, Zenon DEF createTopic, GoTo, FailTo
  <2>2. /\ mem' \in GatedEntry
        /\ \/ mem'.state = mem.state /\ mem'.pending = mem.pending
           \/ mem'.state \in Recorded /\ mem'.pending = Never
    BY <1>0, <2>1, RefreshFacts DEF Recorded
  <2>3. /\ resource' \in Resource(AllData) /\ Timely(resource') /\ resource'.data \subseteq resource.data
        /\ Untouched \/ Claimed
    <3>1. CASE resource.exists
      BY <1>0, <1>3, <3>1, ZenonT(40) DEF createTopic, Untouched, Kept
    <3>2. CASE ~resource.exists
      BY <1>3, <3>2, CreatedFacts, Zenon DEF createTopic
    <3> QED BY <3>1, <3>2
  <2>4. Works
    BY <1>0, <2>1, <2>2, <2>3, Zenon DEF Works, userVars
  <2> QED BY <2>1, <2>2, <2>3, <2>4, EnsureKeeps, Zenon DEF Ensuring
<1>4. CASE adoptTopic
  BY <1>4, TagAsOwnedKeeps, Zenon DEF adoptTopic
<1>5. CASE recordVerified
  <2>1. /\ UNCHANGED <<userVars, store, view, resource, forgotten, raced>> /\ pc = "record"
        /\ err' \in {err, TRUE} /\ pc' \in {"cleanup", "policy"}
        /\ mem' = mem \/ mem' = VerifiedEntry(view.spec.policy, view.spec.force)
    BY <1>5, Zenon DEF recordVerified, GoTo, FailTo
  <2>2. /\ mem' \in GatedEntry
        /\ \/ mem'.state = mem.state /\ mem'.pending = mem.pending
           \/ mem'.state \in Recorded /\ mem'.pending = Never
    BY <1>0, <2>1, RefreshFacts DEF Recorded
  <2>3. Works /\ Untouched
    BY <1>0, <2>1, <2>2, Zenon DEF Works, Untouched, Kept, userVars
  <2> QED BY <2>1, <2>2, <2>3, EnsureKeeps, Zenon DEF Ensuring
<1>6. CASE reconcileDeclaredPolicy
  <2>1. /\ UNCHANGED <<userVars, store, view, mem, raced>> /\ pc = "policy"
        /\ err' \in {err, TRUE} /\ pc' = "cleanup"
    BY <1>6, Zenon DEF reconcileDeclaredPolicy, Done, GoTo, FailTo
  <2>2. /\ resource' \in Resource(AllData) /\ Timely(resource') /\ resource'.data \subseteq resource.data
        /\ Untouched \/ Lifted
    BY <1>0, <1>6, LiftedFacts DEF reconcileDeclaredPolicy, Untouched, Kept
  <2>3. Works
    BY <1>0, <2>1, <2>2, Zenon DEF Works, userVars
  <2> QED BY <2>1, <2>2, <2>3, EnsureKeeps DEF Ensuring
<1> QED BY <1>1, <1>2, <1>3, <1>4, <1>5, <1>6, Zenon

\* sns.Cleanup, after the switch.
LEMMA TopicCleanupKeeps ==
    ASSUME CoreInv, kind = "topic", UNCHANGED kind,
           \/ sns_relinquishIfStillTagged \/ sns_removePendingDeletionDeny
           \/ gateOnSubscriptions \/ deleteTopic
    PROVE  CoreInv' /\ Promised
<1>0. /\ err \in BOOLEAN /\ raced \in BOOLEAN /\ mem \in GatedEntry
      /\ resource \in Resource(AllData) /\ Timely(resource)
  BY DEF CoreInv, TypeInv, PassTypeOK
<1>1. CASE sns_relinquishIfStillTagged
  <2>1. /\ UNCHANGED <<userVars, store, view, mem, forgotten, raced>> /\ pc = "untag"
        /\ err' \in {err, TRUE} /\ pc' \in {"undeny", "persist"} /\ (pc' = "persist" => err')
        /\ resource' = IF resource.exists THEN [resource EXCEPT !.tags = NoTags] ELSE resource
    BY <1>1, Zenon DEF sns_relinquishIfStillTagged, Done, GoTo, FailTo
  <2>2. /\ resource' \in Resource(AllData) /\ Timely(resource') /\ resource'.data \subseteq resource.data
        /\ Gone /\ (pc' = "undeny" => ~IsOwnedBy(resource'.tags))
    <3>1. CASE resource.exists BY <2>1, <3>1, UntaggedFacts
    <3>2. CASE ~resource.exists
      BY <1>0, <1>1, <2>1, <3>2 DEF Gone, Mine, sns_relinquishIfStillTagged, FailTo
    <3> QED BY <3>1, <3>2
  <2>3. Works
    BY <1>0, <2>1, <2>2, Zenon DEF Works, userVars
  <2>4. Retaining /\ ~StillDeclared /\ mem.state # "None"
    BY <2>1 DEF Retaining, CoreInv, ControlInv
  <2>5. CASE pc' = "undeny"
    BY <2>1, <2>2, <2>3, <2>4, <2>5, MovesKeep, Zenon DEF Retaining, Deleting, Destroying, ChangesOnlyOwned
  <2>6. CASE pc' = "persist"
    BY <2>1, <2>2, <2>3, <2>4, <2>6, EndsKeeps, Zenon DEF Noted
  <2> QED BY <2>1, <2>5, <2>6
<1>2. CASE sns_removePendingDeletionDeny
  <2>1. /\ UNCHANGED <<userVars, store, view, raced>> /\ pc = "undeny" /\ err' \in {err, TRUE}
        /\ pc' = "persist" /\ resource' = [resource EXCEPT !.deny = Never]
        /\ forgotten' = forgotten \cup {"lift"}
        /\ mem' = LetGo \/ (mem' = mem /\ err')
    BY <1>2, Zenon DEF sns_removePendingDeletionDeny, LiftDeny, GoTo, FailTo
  <2>2. resource' \in Resource(AllData) /\ Timely(resource') /\ resource'.data \subseteq resource.data /\ Lifted
    BY <2>1, LiftedFacts
  <2>3. Retaining /\ ~Mine'
    BY <2>1, <2>2 DEF Retaining, Lifted, Kept, Mine, CoreInv, OwnInv
  <2>4. mem' \in GatedEntry /\ (Noted \/ Dropped)
    BY <1>0, <2>1, <2>3, LetGoFacts DEF Noted
  <2>5. Works
    BY <1>0, <2>1, <2>2, <2>4, Zenon DEF Works, userVars
  <2> QED BY <2>1, <2>2, <2>3, <2>4, <2>5, EndsKeeps, Zenon
<1>3. CASE gateOnSubscriptions
  <2>1. PICK has \in hasSubscriptions : GateOn(~has, "delete")
    BY <1>3 DEF gateOnSubscriptions
  <2>2. (~has) \in BOOLEAN /\ (~has /\ Held => resource.shown < ListLag)
    BY DEF hasSubscriptions, Held
  <2> QED BY <2>1, <2>2, GateOnKeeps, Zenon
<1>4. CASE deleteTopic
  <2>1. /\ UNCHANGED <<userVars, store, view, forgotten, raced>> /\ pc = "delete" /\ err' \in {err, TRUE}
        /\ pc' = "persist" /\ resource' = NoResource /\ mem' \in {NoEntry, mem}
    BY <1>4, ZenonT(40) DEF deleteTopic, GoTo, FailTo
  <2>2. /\ resource' \in Resource(AllData) /\ Timely(resource') /\ resource'.data \subseteq resource.data /\ Gone
        /\ ~Mine' /\ Deleting
    BY <2>1, ResourceFacts DEF Gone, Mine, Deleting, Destroying
  <2>3. mem' \in GatedEntry /\ (Noted \/ Dropped)
    BY <1>0, <2>1, <2>2, EntryFacts, SMTT(30) DEF Noted, Dropped, Recorded
  <2>4. Works
    BY <1>0, <2>1, <2>2, <2>3, Zenon DEF Works, userVars
  <2> QED BY <2>1, <2>2, <2>3, <2>4, EndsKeeps
<1> QED BY <1>1, <1>2, <1>3, <1>4, Zenon

\* s3.Ensure.
LEMMA BucketEnsureKeeps ==
    ASSUME CoreInv, UNCHANGED kind,
           \/ s3_ensureWithinTrust \/ headBucket \/ createBucketIfMissing \/ readBucketTags
           \/ adoptBucket \/ reconcileBucketAttributes \/ reconcileTransportSecurity
    PROVE  CoreInv' /\ Promised
<1>0. /\ err \in BOOLEAN /\ raced \in BOOLEAN /\ mem \in GatedEntry
      /\ resource \in Resource(AllData) /\ Timely(resource)
  BY DEF CoreInv, TypeInv, PassTypeOK
<1>a. ASSUME resource' \in {resource, [resource EXCEPT !.setting = reconcileVersioning(resource.setting)]},
             forgotten' = forgotten
      PROVE  /\ resource' \in Resource(AllData) /\ Timely(resource')
             /\ resource'.data \subseteq resource.data /\ Untouched
  <2>1. reconcileVersioning(resource.setting) \in {"on", "off"}
    BY <1>0, SpecFacts DEF reconcileVersioning, CoreInv, TypeInv, PassTypeOK, Resource
  <2> QED BY <1>a, <1>0, <2>1, ZenonT(40) DEF Resource, Untouched, Kept, Timely
<1>1. CASE s3_ensureWithinTrust
  <2>1. /\ UNCHANGED <<userVars, store, view, forgotten, raced>> /\ err' \in {err, TRUE}
        /\ pc = "ensure" /\ pc' \in {"head", "cleanup"}
        /\ mem' = mem \/ mem' = [mem EXCEPT !.policy = view.spec.policy, !.force = view.spec.force]
        /\ resource' \in {resource, [resource EXCEPT !.setting = reconcileVersioning(resource.setting)]}
    BY <1>1, Zenon DEF s3_ensureWithinTrust, Done, GoTo, FailTo
  <2>2. mem' \in GatedEntry /\ mem'.state = mem.state /\ mem'.pending = mem.pending
    BY <1>0, <2>1, RefreshFacts, Zenon
  <2>3. Works /\ Untouched
    BY <1>0, <1>a, <2>1, <2>2, Zenon DEF Works, userVars
  <2> QED BY <2>1, <2>2, <2>3, EnsureKeeps, ZenonT(40) DEF Ensuring
<1>2. CASE headBucket
  <2>1. /\ UNCHANGED <<userVars, store, view, resource, mem, forgotten, raced, err>>
        /\ pc = "head" /\ pc' \in {"tags", "create"}
    BY <1>2 DEF headBucket, GoTo
  <2>2. Works /\ Untouched
    BY <1>0, <2>1, Zenon DEF Works, Untouched, Kept, userVars
  <2> QED BY <2>1, <2>2, EnsureKeeps DEF Ensuring
<1>3. CASE createBucketIfMissing
  <2>1. /\ UNCHANGED <<userVars, store, view, mem, raced>> /\ pc = "create" /\ err' \in {err, TRUE}
        /\ pc' \in {"cleanup", "tags"}
    BY <1>3, Zenon DEF createBucketIfMissing, Done, GoTo, FailTo
  <2>2. /\ resource' \in Resource(AllData) /\ Timely(resource') /\ resource'.data \subseteq resource.data
        /\ Untouched \/ Claimed
    <3>1. CASE resource.exists
      BY <1>0, <1>3, <3>1, ZenonT(40) DEF createBucketIfMissing, Untouched, Kept
    <3>2. CASE ~resource.exists
      BY <1>3, <3>2, CreatedFacts DEF createBucketIfMissing
    <3> QED BY <3>1, <3>2
  <2>3. Works
    BY <1>0, <2>1, <2>2, Zenon DEF Works, userVars
  <2> QED BY <2>1, <2>2, <2>3, EnsureKeeps, SMTT(30) DEF Ensuring
<1>4. CASE readBucketTags
  BY <1>4, JudgeTagsKeeps DEF readBucketTags, Ensuring
<1>5. CASE adoptBucket
  BY <1>5, TagAsOwnedKeeps DEF adoptBucket
<1>6. CASE reconcileBucketAttributes
  <2>1. /\ UNCHANGED <<userVars, store, view, mem, forgotten, raced>> /\ err' \in {err, TRUE}
        /\ pc = "attributes" /\ pc' \in {"policy", "cleanup"}
        /\ resource' \in {resource, [resource EXCEPT !.setting = reconcileVersioning(resource.setting)]}
    BY <1>6, Zenon DEF reconcileBucketAttributes, Done, GoTo, FailTo
  <2>2. Works /\ Untouched
    BY <1>0, <1>a, <2>1, ZenonT(40) DEF Works, userVars
  <2> QED BY <2>1, <2>2, EnsureKeeps DEF Ensuring
<1>7. CASE reconcileTransportSecurity
  <2>1. /\ UNCHANGED <<userVars, store, view, raced>> /\ pc = "policy" /\ err' \in {err, TRUE}
        /\ pc' = "cleanup"
        /\ mem' = mem \/ mem' = VerifiedEntry(view.spec.policy, view.spec.force)
    BY <1>7, Zenon DEF reconcileTransportSecurity, GoTo, FailTo
  <2>2. /\ mem' \in GatedEntry
        /\ \/ mem'.state = mem.state /\ mem'.pending = mem.pending
           \/ mem'.state \in Recorded /\ mem'.pending = Never
    BY <1>0, <2>1, RefreshFacts DEF Recorded
  <2>3. /\ resource' \in Resource(AllData) /\ Timely(resource') /\ resource'.data \subseteq resource.data
        /\ Untouched \/ Lifted
    BY <1>0, <1>7, LiftedFacts DEF reconcileTransportSecurity, Untouched, Kept
  <2>4. Works
    BY <1>0, <2>1, <2>2, <2>3, Zenon DEF Works, userVars
  <2> QED BY <2>1, <2>2, <2>3, <2>4, EnsureKeeps DEF Ensuring
<1> QED BY <1>1, <1>2, <1>3, <1>4, <1>5, <1>6, <1>7, ZenonT(40)

\* The owner tags of a bucket or a table go with the entry.
LEMMA RelinquishKeeps ==
    ASSUME CoreInv, UNCHANGED kind, s3_relinquishIfStillTagged \/ dynamodb_relinquishIfStillTagged
    PROVE  CoreInv' /\ Promised
<1>0. /\ err \in BOOLEAN /\ raced \in BOOLEAN /\ mem \in GatedEntry
      /\ resource \in Resource(AllData) /\ Timely(resource)
  BY DEF CoreInv, TypeInv, PassTypeOK
<1>1. /\ UNCHANGED <<userVars, store, view, forgotten, raced>> /\ pc = "untag" /\ err' \in {err, TRUE}
      /\ pc' = "persist" /\ ((mem' = LetGo /\ resource.exists) \/ (mem' = mem /\ err'))
      /\ resource' = IF resource.exists THEN [resource EXCEPT !.tags = NoTags] ELSE resource
  BY Zenon DEF s3_relinquishIfStillTagged, dynamodb_relinquishIfStillTagged, GoTo, FailTo
<1>2. /\ resource' \in Resource(AllData) /\ Timely(resource') /\ resource'.data \subseteq resource.data
      /\ Gone /\ ~Mine' /\ Retaining
  <2>1. CASE resource.exists BY <1>1, <2>1, UntaggedFacts DEF Gone, Retaining
  <2>2. CASE ~resource.exists BY <1>0, <1>1, <2>2, Zenon DEF Gone, Mine, Retaining
  <2> QED BY <2>1, <2>2
<1>3. mem' \in GatedEntry /\ (Noted \/ Dropped)
  BY <1>0, <1>1, <1>2, LetGoFacts, ZenonT(40) DEF Noted
<1>4. Works
  BY <1>0, <1>1, <1>2, <1>3, Zenon DEF Works, userVars
<1> QED BY <1>1, <1>2, <1>3, <1>4, EndsKeeps, ZenonT(40)

\* s3.Cleanup, after the switch.
LEMMA BucketCleanupKeeps ==
    ASSUME CoreInv, kind = "bucket", UNCHANGED kind,
           s3_gateOnEmpty \/ deleteAllObjectVersions \/ deleteBucket
    PROVE  CoreInv' /\ Promised
<1>0. /\ err \in BOOLEAN /\ raced \in BOOLEAN /\ mem \in GatedEntry
      /\ resource \in Resource(AllData) /\ Timely(resource)
      /\ resource.data \subseteq {"objects", "uploads"}
  BY DEF CoreInv, TypeInv, PassTypeOK
<1>1. CASE s3_gateOnEmpty
  <2>1. bucketIsEmpty \in BOOLEAN /\ (bucketIsEmpty => ~Held)
    BY <1>0 DEF bucketIsEmpty, Held
  <2> QED BY <1>1, <2>1, GateOnKeeps, ZenonT(40) DEF s3_gateOnEmpty
<1>2. CASE deleteAllObjectVersions
  <2>1. /\ UNCHANGED <<kind, spec, cr, forceAll, calm, store, view, mem, forgotten, raced>>
        /\ pc = "purge" /\ err' \in {err, TRUE}
        /\ \/ pc' = "delete" /\ resource' = [resource EXCEPT !.data = {}]
           \/ /\ pc' = "persist" /\ err'
              /\ resource' = [resource EXCEPT !.data = resource.data \ {"objects"}]
    BY <1>2, Zenon DEF deleteAllObjectVersions, GoTo, FailTo, userVars
  <2>2. /\ resource' \in Resource(AllData) /\ Timely(resource') /\ resource'.data \subseteq resource.data
        /\ resource'.exists = resource.exists /\ resource'.tags = resource.tags
        /\ resource'.status = resource.status /\ resource'.deny = resource.deny
        /\ ~Held'
    BY <1>0, <2>1 DEF Resource, AllData, Held, Timely
  <2>3. /\ Works /\ Mine' = Mine /\ Forced' = Forced /\ StillDeclared' = StillDeclared
        /\ SameNotice /\ Destroying /\ Deleting /\ cr # "gone"
    BY <1>0, <2>1, <2>2, Zenon DEF Works, Mine, Forced, StillDeclared, SameNotice, Destroying, Deleting,
                            CoreInv, ControlInv
  <2>4. TypeInv'
    BY <2>1, <2>3, WorksType, Zenon DEF CoreInv, TypeInv, PassTypeOK
  <2>5. ControlInv'
    BY <2>1, <2>3, Zenon DEF CoreInv, ControlInv, Ensuring, Retaining, Deleting, Destroying
  <2>6. OwnInv'
    BY <2>1, <2>2, <2>3, ZenonT(40) DEF CoreInv, OwnInv, ChangesOnlyOwned, Destroying
  <2>7. ClaimInv'
    BY <2>1, <2>3, ZenonT(40) DEF CoreInv, ClaimInv, FinalizerHoldsResource
  <2>8. NoticeInv'
    BY <2>1, <2>2, <2>3, ZenonT(40) DEF CoreInv, NoticeInv, Destroying
  <2>9. Promised
    BY <2>2, <2>3, Drained, Zenon
  <2> QED BY <2>4, <2>5, <2>6, <2>7, <2>8, <2>9, ZenonT(40) DEF CoreInv
<1>3. CASE deleteBucket
  <2>1. /\ UNCHANGED <<userVars, store, view, forgotten, raced>> /\ pc = "delete" /\ err' \in {err, TRUE}
        /\ pc' = "persist" /\ Deleting
        /\ \/ resource' = NoResource /\ mem' \in {NoEntry, mem}
           \/ resource' = resource /\ mem' = mem
    BY <1>3, ZenonT(40) DEF deleteBucket, GoTo, FailTo, Deleting, Destroying
  <2>2. CASE resource' = NoResource /\ mem' \in {NoEntry, mem}
    <3>1. /\ resource' \in Resource(AllData) /\ Timely(resource') /\ resource'.data \subseteq resource.data
          /\ Gone /\ ~Mine'
      BY <2>1, <2>2, ResourceFacts, Zenon DEF Gone, Mine
    <3>2. mem' \in GatedEntry /\ (Noted \/ Dropped)
      BY <1>0, <2>1, <2>2, <3>1, EntryFacts, ZenonT(40) DEF Noted, Dropped, Recorded
    <3>3. Works
      BY <1>0, <2>1, <3>1, <3>2, Zenon DEF Works, userVars
    <3> QED BY <2>1, <3>1, <3>2, <3>3, EndsKeeps, Zenon
  <2>3. CASE resource' = resource /\ mem' = mem
    <3>1. Works /\ Untouched /\ Noted
      BY <1>0, <2>1, <2>3, Zenon DEF Works, Untouched, Kept, userVars, Noted
    <3> QED BY <2>1, <3>1, EndsKeeps, ZenonT(40)
  <2> QED BY <2>1, <2>2, <2>3, ZenonT(40)
<1> QED BY <1>1, <1>2, <1>3, Zenon

\* dynamodb.Ensure.
LEMMA TableEnsureKeeps ==
    ASSUME CoreInv, UNCHANGED kind,
           ensureTable \/ createTable \/ readTags \/ adoptTable \/ reconcileTableAttributes
    PROVE  CoreInv' /\ Promised
<1>0. /\ err \in BOOLEAN /\ raced \in BOOLEAN /\ mem \in GatedEntry
      /\ resource \in Resource(AllData) /\ Timely(resource)
  BY DEF CoreInv, TypeInv, PassTypeOK
<1>1. CASE ensureTable
  <2>1. /\ UNCHANGED <<userVars, store, view, resource, forgotten, raced>> /\ err' \in {err, TRUE}
        /\ pc = "ensure" /\ pc' \in {"create", "tags", "trusted", "cleanup"}
        /\ mem' = mem \/ mem' = [mem EXCEPT !.policy = view.spec.policy, !.force = view.spec.force]
    BY <1>1, Zenon DEF ensureTable, GoTo, FailTo
  <2>2. mem' \in GatedEntry /\ mem'.state = mem.state /\ mem'.pending = mem.pending
    BY <1>0, <2>1, RefreshFacts, Zenon
  <2>3. Works /\ Untouched
    BY <1>0, <2>1, <2>2, Zenon DEF Works, Untouched, Kept, userVars
  <2> QED BY <2>1, <2>2, <2>3, EnsureKeeps DEF Ensuring
<1>2. CASE createTable
  <2>1. /\ UNCHANGED <<userVars, store, view, raced>> /\ pc = "create" /\ err' \in {err, TRUE}
        /\ pc' = "cleanup"
        /\ \/ mem' = mem
           \/ mem' = [VerifiedEntry(view.spec.policy, view.spec.force) EXCEPT !.state = "Creating"]
    BY <1>2, Zenon DEF createTable, GoTo, FailTo
  <2>2. /\ mem' \in GatedEntry
        /\ \/ mem'.state = mem.state /\ mem'.pending = mem.pending
           \/ mem'.state \in Recorded /\ mem'.pending = Never
    BY <1>0, <2>1, RefreshFacts, ZenonT(40) DEF Recorded, GatedEntry
  <2>3. /\ resource' \in Resource(AllData) /\ Timely(resource') /\ resource'.data \subseteq resource.data
        /\ Untouched \/ Claimed
    <3>1. CASE resource.exists
      BY <1>0, <1>2, <3>1, Zenon DEF createTable, Untouched, Kept
    <3>2. CASE ~resource.exists
      BY <1>2, <3>2, CreatedFacts DEF createTable
    <3> QED BY <3>1, <3>2
  <2>4. Works
    BY <1>0, <2>1, <2>2, <2>3, ZenonT(40) DEF Works, userVars
  <2> QED BY <2>1, <2>2, <2>3, <2>4, EnsureKeeps DEF Ensuring
<1>3. CASE readTags
  BY <1>3, JudgeTagsKeeps DEF readTags, Ensuring
<1>4. CASE adoptTable
  BY <1>4, TagAsOwnedKeeps, ZenonT(40) DEF adoptTable
<1>5. CASE reconcileTableAttributes
  <2>1. /\ UNCHANGED <<userVars, store, view, forgotten, raced>> /\ err' \in {err, TRUE}
        /\ pc \in {"trusted", "attributes"} /\ pc' = "cleanup"
        /\ mem' = mem \/ mem' = VerifiedEntry(view.spec.policy, view.spec.force)
    BY <1>5, Zenon DEF reconcileTableAttributes, GoTo, FailTo
  <2>2. /\ mem' \in GatedEntry
        /\ \/ mem'.state = mem.state /\ mem'.pending = mem.pending
           \/ mem'.state \in Recorded /\ mem'.pending = Never
    BY <1>0, <2>1, RefreshFacts DEF Recorded
  <2>3. /\ resource' \in Resource(AllData) /\ Timely(resource') /\ resource'.data \subseteq resource.data
        /\ Untouched
    <3>1. \/ resource' = resource
          \/ /\ resource' = [resource EXCEPT !.setting = view.spec.ask, !.status = "Updating"]
             /\ resource.status = "Active" /\ view.spec.ask # "unset"
      BY <1>5, ZenonT(40) DEF reconcileTableAttributes
    <3>2. view.spec.ask # "unset" => view.spec.ask \in {"on", "off"}
      BY SpecFacts, SMTT(30) DEF CoreInv, TypeInv, PassTypeOK
    <3> QED BY <1>0, <2>1, <3>1, <3>2, Zenon DEF Untouched, Kept, Resource, Timely
  <2>4. Works
    BY <1>0, <2>1, <2>2, <2>3, Zenon DEF Works, userVars
  <2> QED BY <2>1, <2>2, <2>3, <2>4, EnsureKeeps, ZenonT(40) DEF Ensuring
<1> QED BY <1>1, <1>2, <1>3, <1>4, <1>5, ZenonT(40)

\* dynamodb.Cleanup, after the switch.
LEMMA TableCleanupKeeps ==
    ASSUME CoreInv, kind = "table", UNCHANGED kind,
           \/ dynamodb_removePendingDeletionDeny \/ dynamodb_gateOnEmpty
           \/ releaseDeletionProtection \/ deleteTable
    PROVE  CoreInv' /\ Promised
<1>0. /\ err \in BOOLEAN /\ raced \in BOOLEAN /\ mem \in GatedEntry
      /\ resource \in Resource(AllData) /\ Timely(resource)
  BY DEF CoreInv, TypeInv, PassTypeOK
<1>1. CASE dynamodb_removePendingDeletionDeny
  <2>1. /\ UNCHANGED <<userVars, store, view, mem, raced>> /\ pc = "undeny" /\ err' \in {err, TRUE}
        /\ pc' \in {"release", "persist"} /\ (pc' = "persist" => err')
        /\ resource' = [resource EXCEPT !.deny = Never] /\ forgotten' = forgotten \cup {"lift"}
    BY <1>1, Zenon DEF dynamodb_removePendingDeletionDeny, Done, GoTo, FailTo
  <2>2. resource' \in Resource(AllData) /\ Timely(resource') /\ resource'.data \subseteq resource.data /\ Lifted
    BY <2>1, LiftedFacts
  <2>3. Works
    BY <1>0, <2>1, <2>2, Zenon DEF Works, userVars
  <2>4. Retaining /\ ~StillDeclared /\ mem.state # "None"
    BY <2>1 DEF Retaining, CoreInv, ControlInv
  <2>5. CASE pc' = "release"
    BY <2>1, <2>2, <2>3, <2>4, <2>5, MovesKeep, Zenon DEF Retaining, Deleting, Destroying, ChangesOnlyOwned
  <2>6. CASE pc' = "persist"
    BY <2>1, <2>2, <2>3, <2>4, <2>6, EndsKeeps, ZenonT(40) DEF Noted
  <2> QED BY <2>1, <2>5, <2>6
<1>2. CASE dynamodb_gateOnEmpty
  <2>1. tableIsEmpty \in BOOLEAN /\ (tableIsEmpty => ~Held)
    BY DEF tableIsEmpty, Held
  <2> QED BY <1>2, <2>1, GateOnKeeps, ZenonT(40) DEF dynamodb_gateOnEmpty
<1>3. CASE releaseDeletionProtection
  <2>1. /\ UNCHANGED <<userVars, store, view, mem, forgotten, raced>> /\ pc = "unprotect"
        /\ err' \in {err, TRUE} /\ pc' \in {"delete", "persist"}
        /\ \/ resource' = resource
           \/ /\ resource' = [resource EXCEPT !.setting = "off", !.status = "Updating"]
              /\ resource.status = "Active"
    BY <1>3, Zenon DEF releaseDeletionProtection, Done, GoTo, FailTo
  <2>2. resource' \in Resource(AllData) /\ Timely(resource') /\ resource'.data \subseteq resource.data /\ Untouched
    BY <1>0, <2>1, Zenon DEF Resource, Untouched, Kept, Timely
  <2>3. Works
    BY <1>0, <2>1, <2>2, Zenon DEF Works, userVars
  <2>4. /\ Destroying /\ Deleting /\ ~StillDeclared /\ mem.state # "None" /\ mem.policy = "Delete"
        /\ (~Forced => mem.pending >= DeletionQuietWindow)
    BY <2>1 DEF Destroying, Deleting, CoreInv, ControlInv, NoticeInv
  <2>5. CASE pc' = "delete"
    <3>1. ChangesOnlyOwned'
      BY <2>1, <2>2, <2>4, ZenonT(40) DEF CoreInv, OwnInv, ChangesOnlyOwned, Untouched, Kept
    <3> QED BY <2>1, <2>2, <2>3, <2>4, <2>5, <3>1, MovesKeep, Zenon DEF Deleting, Destroying
  <2>6. CASE pc' = "persist"
    BY <2>1, <2>2, <2>3, <2>4, <2>6, EndsKeeps, ZenonT(40) DEF Noted
  <2> QED BY <2>1, <2>5, <2>6, ZenonT(40)
<1>4. CASE deleteTable
  <2>1. /\ UNCHANGED <<userVars, store, view, forgotten, raced>> /\ pc = "delete" /\ err' \in {err, TRUE}
        /\ pc' = "persist" /\ Deleting
        /\ \/ /\ resource' = IF resource.exists THEN [resource EXCEPT !.status = "Deleting", !.data = {}]
                                                ELSE resource
              /\ mem' \in {NoEntry, mem}
           \/ resource' = resource /\ mem' = mem
    BY <1>4, Zenon DEF deleteTable, GoTo, FailTo, Deleting, Destroying
  <2>2. CASE resource' = resource /\ mem' = mem
    <3>1. Works /\ Untouched /\ Noted
      BY <1>0, <2>1, <2>2, Zenon DEF Works, Untouched, Kept, userVars, Noted
    <3> QED BY <2>1, <3>1, EndsKeeps
  <2>3. CASE /\ resource' = IF resource.exists THEN [resource EXCEPT !.status = "Deleting", !.data = {}]
                                               ELSE resource
             /\ mem' \in {NoEntry, mem}
    <3>1. /\ resource' \in Resource(AllData) /\ Timely(resource') /\ resource'.data \subseteq resource.data
          /\ Gone /\ ~Mine'
      BY <1>0, <2>1, <2>3, Zenon DEF Resource, Gone, Mine, Timely
    <3>2. mem' \in GatedEntry /\ (Noted \/ Dropped)
      BY <1>0, <2>1, <2>3, <3>1, EntryFacts, ZenonT(40) DEF Noted, Dropped, Recorded
    <3>3. Works
      BY <1>0, <2>1, <3>1, <3>2, ZenonT(40) DEF Works, userVars
    <3> QED BY <2>1, <3>1, <3>2, <3>3, EndsKeeps, Zenon
  <2> QED BY <2>1, <2>2, <2>3, ZenonT(40)
<1> QED BY <1>1, <1>2, <1>3, <1>4, ZenonT(40)

\* Somebody else deletes the resource.
LEMMA OutsideDeleteKeeps ==
    ASSUME CoreInv, OutsideDelete, UNCHANGED kind
    PROVE  CoreInv' /\ Promised
<1>1. /\ NoResource \in Resource(AllData) /\ Timely(NoResource) /\ Outside(NoResource) /\ raced' = raced
      /\ raced' \in BOOLEAN /\ ~NoResource.exists /\ ~IsOwnedBy(NoResource.tags) /\ NoResource.data = {}
  BY ResourceFacts, TagFacts, ZenonT(40) DEF OutsideDelete, CoreInv, TypeInv, PassTypeOK
<1>2. ~Mine'
  BY <1>1, Zenon DEF Outside, Mine
<1> QED BY <1>1, <1>2, OutsideKeeps, ZenonT(40)

\* Somebody else makes a resource of that name.
LEMMA OutsideCreateKeeps ==
    ASSUME CoreInv, OutsideCreate, UNCHANGED kind
    PROVE  CoreInv' /\ Promised
<1>1. PICK t \in ForeignTags : Outside(NewResource(t, "off", "Active"))
  BY SMTT(30) DEF OutsideCreate
<1> DEFINE new == NewResource(t, "off", "Active")
<1>2. /\ new \in Resource(AllData) /\ Timely(new) /\ ~resource.exists /\ raced' = (pc # "idle")
      /\ ~IsOwnedBy(new.tags) /\ new.data = {}
  <2>1. t \in Tags /\ ~IsOwnedBy(t)
    BY TagFacts, ZenonT(40)
  <2> QED BY <2>1, ResourceFacts, Zenon DEF OutsideCreate
<1>3. ~Mine'
  BY <1>1, <1>2, ZenonT(40) DEF Outside, Mine
<1>4. raced' \in BOOLEAN
  BY <1>2
<1> QED BY <1>1, <1>2, <1>3, <1>4, OutsideKeeps, Zenon

\* Whoever uses a resource adds to it only while the deny does not stop them.
LEMMA UseKeeps ==
    ASSUME CoreInv, UNCHANGED <<kind, raced>>, NEW d \in SUBSET AllData,
           Outside([resource EXCEPT !.data = d]),
           kind = "bucket" => d \subseteq {"objects", "uploads"},
           d \subseteq resource.data \/ Writable
    PROVE  CoreInv' /\ Promised
<1> DEFINE new == [resource EXCEPT !.data = d]
<1>1. /\ new \in Resource(AllData) /\ new.data = d /\ resource' = new /\ raced' \in BOOLEAN
      /\ new.exists = resource.exists /\ new.tags = resource.tags /\ new.deny = resource.deny
      /\ new.status = resource.status /\ new.shown = resource.shown /\ Timely(new)
  BY DEF Outside, CoreInv, TypeInv, PassTypeOK, Resource, Timely
<1>2. \/ Held' = Held \/ ~Held'
      \/ Held' /\ (resource.deny = Never \/ resource.deny < DenyDelay)
  <2>1. CASE d \subseteq resource.data
    BY <1>1, <2>1, Truths DEF Held
  <2>2. CASE Writable
    BY <2>2 DEF Writable
  <2> QED BY <2>1, <2>2
<1> QED BY <1>1, <1>2, OutsideKeeps, Zenon

\* Subscribers come and go.
LEMMA TopicUseKeeps ==
    ASSUME CoreInv, Subscribe \/ Unsubscribe, kind = "topic", UNCHANGED kind
    PROVE  CoreInv' /\ Promised
<1>0. /\ resource \in Resource(AllData) /\ raced' = raced /\ raced' \in BOOLEAN
      /\ 0 \in 0 .. ListLag /\ ListLag \in 0 .. ListLag
  BY GateAssumption DEF Subscribe, Unsubscribe, CoreInv, TypeInv, PassTypeOK
<1>1. CASE Subscribe
  <2> DEFINE new == [resource EXCEPT !.data = {"subscriptions"}, !.shown = 0]
  <2>1. /\ new \in Resource(AllData) /\ new.shown = 0
        /\ new.exists = resource.exists /\ new.tags = resource.tags /\ new.deny = resource.deny
        /\ new.status = resource.status
    BY <1>0, Zenon DEF Resource, AllData
  <2>2. Outside(new) /\ (resource.deny = Never \/ resource.deny < DenyDelay)
    BY <1>1, Zenon DEF Subscribe, Writable
  <2>3. Timely(new)
    BY <1>0, <2>1, <2>2, GateAssumption DEF Timely, Resource, Age
  <2> HIDE DEF new
  <2>4. ~Held' \/ Held' BY Truths
  <2> QED BY <1>0, <2>1, <2>2, <2>3, <2>4, OutsideKeeps, ZenonT(40)
<1>2. CASE Unsubscribe
  <2> DEFINE new == [resource EXCEPT !.data = {}, !.shown = ListLag]
  <2>1. /\ new \in Resource(AllData) /\ new.shown = ListLag /\ new.data = {}
        /\ new.exists = resource.exists /\ new.tags = resource.tags /\ new.deny = resource.deny
        /\ new.status = resource.status /\ Timely(new)
    BY <1>0, Zenon DEF Resource, AllData, Timely
  <2>2. Outside(new) BY <1>2, Zenon DEF Unsubscribe
  <2>3. ~Held' BY <2>1, <2>2 DEF Held, Outside
  <2> HIDE DEF new
  <2> QED BY <1>0, <2>1, <2>2, <2>3, OutsideKeeps, ZenonT(40)
<1> QED BY <1>1, <1>2

\* Objects and uploads come and go.
LEMMA BucketUseKeeps ==
    ASSUME CoreInv, PutObject \/ CompleteUpload \/ DeleteObjects, kind = "bucket", UNCHANGED kind
    PROVE  CoreInv' /\ Promised
<1>0. resource.data \subseteq {"objects", "uploads"}
  BY DEF CoreInv, TypeInv
<1>1. CASE PutObject
  <2>1. PICK d \in {"objects", "uploads"} : Outside([resource EXCEPT !.data = resource.data \cup {d}])
    BY <1>1 DEF PutObject
  <2> QED BY <1>0, <1>1, <2>1, UseKeeps, ZenonT(40) DEF PutObject, AllData
<1>2. CASE CompleteUpload
  BY <1>2, UseKeeps, Zenon DEF CompleteUpload, AllData
<1>3. CASE DeleteObjects
  <2>1. PICK d \in resource.data : Outside([resource EXCEPT !.data = resource.data \ {d}])
    BY <1>3, Zenon DEF DeleteObjects
  <2> QED BY <1>0, <1>3, <2>1, UseKeeps, Zenon DEF DeleteObjects, AllData
<1> QED BY <1>1, <1>2, <1>3, Zenon

\* Items come and go, a table settles, its protection is taken off.
LEMMA TableUseKeeps ==
    ASSUME CoreInv, kind = "table", UNCHANGED kind,
           TableSettles \/ PutItem \/ DeleteItems \/ OutsideUnprotect
    PROVE  CoreInv' /\ Promised
<1>0. resource \in Resource(AllData) /\ Timely(resource) /\ raced \in BOOLEAN
  BY SMTT(30) DEF CoreInv, TypeInv, PassTypeOK
<1>1. CASE TableSettles /\ resource.status = "Deleting"
  <2>1. /\ NoResource \in Resource(AllData) /\ Timely(NoResource) /\ Outside(NoResource) /\ raced' = raced
        /\ raced' \in BOOLEAN /\ ~NoResource.exists /\ ~IsOwnedBy(NoResource.tags)
    BY <1>0, <1>1, ResourceFacts, TagFacts, Zenon DEF TableSettles
  <2>2. ~Mine'
    BY <2>1 DEF Outside, Mine
  <2> QED BY <2>1, <2>2, OutsideKeeps, ZenonT(40)
<1>2. ASSUME NEW new, Outside(new), raced' = raced,
             new = [resource EXCEPT !.status = "Active"] \/ new = [resource EXCEPT !.setting = "off"],
             resource.status # "Deleting"
      PROVE  CoreInv' /\ Promised
  <2>1. /\ new \in Resource(AllData) /\ new.data = resource.data /\ resource' = new
        /\ new.exists = resource.exists /\ new.tags = resource.tags /\ new.deny = resource.deny
        /\ new.status # "Deleting" /\ new.shown = resource.shown /\ Timely(new)
    BY <1>0, <1>2, ZenonT(40) DEF Resource, Outside, Timely
  <2>2. Held' = Held
    BY <2>1 DEF Held
  <2> QED BY <1>0, <1>2, <2>1, <2>2, OutsideKeeps, ZenonT(40)
<1>3. CASE TableSettles /\ resource.status # "Deleting"
  BY <1>2, <1>3 DEF TableSettles
<1>4. CASE PutItem
  BY <1>4, UseKeeps, Zenon DEF PutItem, AllData
<1>5. CASE DeleteItems
  BY <1>5, UseKeeps, Zenon DEF DeleteItems, AllData
<1>6. CASE OutsideUnprotect
  BY <1>2, <1>6 DEF OutsideUnprotect
<1> QED BY <1>1, <1>3, <1>4, <1>5, <1>6, ZenonT(40)

\* What is not a step of the section.
LEMMA OthersKeep ==
    ASSUME CoreInv, Others, UNCHANGED kind
    PROVE  CoreInv' /\ Promised
BY CheckpointKeeps, CrashKeeps, UsersKeep, OutsideCreateKeeps, TickKeeps, ZenonT(40) DEF Others

\* Every step over a topic.
LEMMA TopicKeeps ==
    ASSUME CoreInv, Topic(TopicNext)
    PROVE  CoreInv' /\ Promised
<1>0. kind = "topic" /\ UNCHANGED kind BY DEF Topic
<1>1. CASE TopicPass
  <2>1. CASE \/ sns_Cleanup \/ sns_restoreDeclared \/ sns_retain \/ sns_verifyOwned
             \/ sns_addPendingDeletionDeny
    BY <1>0, <2>1, CleanupSwitchKeeps, RestoreKeeps, RetainLookupKeeps, VerifyThenKeeps,
       DenyThenMarkKeeps, Zenon
    DEF sns_Cleanup, sns_restoreDeclared, sns_retain, sns_verifyOwned, sns_addPendingDeletionDeny
  <2> QED BY <1>0, <1>1, <2>1, BeginKeeps, TopicEnsureKeeps, TopicCleanupKeeps, PersistKeeps, ZenonT(40)
    DEF TopicPass
<1>2. CASE CallFails(TopicEnsureSteps, TopicCleanupSteps)
  <2>1. /\ pc \in TopicEnsureSteps => Ensuring
        /\ pc \in TopicCleanupSteps => pc = "restore" \/ Retaining \/ Deleting
    BY DEF TopicEnsureSteps, TopicCleanupSteps, Ensuring, Retaining, Deleting, Destroying
  <2> QED BY <1>0, <1>2, <2>1, CallFailsKeeps, ZenonT(40)
<1> QED BY <1>0, <1>1, <1>2, KeyNotReadyKeeps, OthersKeep, OutsideDeleteKeeps, TopicUseKeeps, Zenon
        DEF Topic, TopicNext, resolveTopicKey

\* Every step over a bucket.
LEMMA BucketKeeps ==
    ASSUME CoreInv, Bucket(BucketNext)
    PROVE  CoreInv' /\ Promised
<1>0. kind = "bucket" /\ UNCHANGED kind BY DEF Bucket
<1>1. CASE BucketPass
  <2>1. CASE \/ s3_Cleanup \/ s3_restoreDeclared \/ s3_retain \/ s3_verifyOwned
             \/ s3_addPendingDeletionDeny
    BY <1>0, <2>1, CleanupSwitchKeeps, RestoreKeeps, RetainLookupKeeps, VerifyThenKeeps,
       DenyThenMarkKeeps, ZenonT(40)
    DEF s3_Cleanup, s3_restoreDeclared, s3_retain, s3_verifyOwned, s3_addPendingDeletionDeny
  <2> QED BY <1>0, <1>1, <2>1, BeginKeeps, BucketEnsureKeeps, RelinquishKeeps, BucketCleanupKeeps,
             PersistKeeps, ZenonT(40)
          DEF BucketPass
<1>2. CASE CallFails(BucketEnsureSteps, BucketCleanupSteps)
  <2>1. /\ pc \in BucketEnsureSteps => Ensuring
        /\ pc \in BucketCleanupSteps => pc = "restore" \/ Retaining \/ Deleting
    BY DEF BucketEnsureSteps, BucketCleanupSteps, Ensuring, Retaining, Deleting, Destroying
  <2> QED BY <1>0, <1>2, <2>1, CallFailsKeeps, Zenon
<1> QED BY <1>0, <1>1, <1>2, KeyNotReadyKeeps, OthersKeep, OutsideDeleteKeeps, BucketUseKeeps, Zenon
        DEF Bucket, BucketNext, s3_Ensure

\* Every step over a table.
LEMMA TableKeeps ==
    ASSUME CoreInv, Table(TableNext)
    PROVE  CoreInv' /\ Promised
<1>0. kind = "table" /\ UNCHANGED kind BY DEF Table
<1>1. CASE TablePass
  <2>1. CASE dynamodb_Cleanup
    BY <1>0, <2>1, CleanupSwitchKeeps, ZenonT(40) DEF dynamodb_Cleanup
  <2>2. CASE \/ dynamodb_restoreDeclared \/ dynamodb_retain \/ dynamodb_verifyOwned
             \/ dynamodb_addPendingDeletionDeny
    BY <1>0, <2>2, RestoreKeeps, RetainLookupKeeps, VerifyThenKeeps, DenyThenMarkKeeps, ZenonT(40)
    DEF dynamodb_restoreDeclared, dynamodb_retain, dynamodb_verifyOwned, dynamodb_addPendingDeletionDeny
  <2> QED BY <1>0, <1>1, <2>1, <2>2, BeginKeeps, TableEnsureKeeps, RelinquishKeeps,
             TableCleanupKeeps, PersistKeeps, ZenonT(40)
          DEF TablePass
<1>2. CASE CallFails(TableEnsureSteps, TableCleanupSteps)
  <2>1. /\ pc \in TableEnsureSteps => Ensuring
        /\ pc \in TableCleanupSteps => pc = "restore" \/ Retaining \/ Deleting
    BY DEF TableEnsureSteps, TableCleanupSteps, Ensuring, Retaining, Deleting, Destroying
  <2> QED BY <1>0, <1>2, <2>1, CallFailsKeeps, ZenonT(40)
<1> QED BY <1>0, <1>1, <1>2, KeyNotReadyKeeps, OthersKeep, OutsideDeleteKeeps, TableUseKeeps, ZenonT(40)
        DEF Table, TableNext, dynamodb_Ensure, TableOutsideDelete

-----------------------------------------------------------------------------
(* The loss of a table.                                                    *)

\* A step of a pass: it makes a table only where no entry says there is one,
\* and keeps the entry of a declared one.
LEMMA WorksLoss ==
    ASSUME CoreInv, LossInv, kind = "table", RecordLoss, pc # "idle",
           UNCHANGED <<kind, spec, cr, store, view>>,
           resource.exists => resource'.exists,
           resource'.exists => resource.exists \/ mem.state \notin Recorded,
           StillDeclared /\ mem.state \in Recorded => mem'.state \in Recorded,
           pc' = "create" => mem'.state \notin Recorded
    PROVE  LossInv'
<1>1. missing' \in BOOLEAN /\ (missing' => missing)
  BY DEF RecordLoss, LossInv
<1> QED BY <1>1, Zenon DEF LossInv, LostTableIsNotReplaced, StillDeclared

\* Ensure makes no table where an entry says there is one.
LEMMA TableEnsureLoss ==
    ASSUME CoreInv, LossInv, Table(TableNext),
           \/ ensureTable \/ createTable \/ readTags \/ adoptTable \/ reconcileTableAttributes
           \/ dynamodb_Ensure \/ CallFails(TableEnsureSteps, TableCleanupSteps)
    PROVE  LossInv'
<1>0. kind = "table" /\ RecordLoss /\ UNCHANGED kind /\ mem \in GatedEntry /\ resource \in Resource(AllData)
  BY ZenonT(40) DEF Table, CoreInv, TypeInv, PassTypeOK
<1>1. CASE ensureTable
  <2>1. /\ UNCHANGED <<spec, cr, store, view, resource>> /\ pc = "ensure" /\ mem'.state = mem.state
        /\ pc' = "create" => mem.state \notin Recorded
    BY <1>0, <1>1, Zenon DEF ensureTable, GoTo, FailTo, userVars, GatedEntry, Recorded
  <2> QED BY <1>0, <2>1, WorksLoss
<1>2. CASE createTable
  <2>1. /\ UNCHANGED <<spec, cr, store, view>> /\ pc = "create" /\ pc' = "cleanup"
        /\ mem.state \notin Recorded
    BY <1>0, <1>2, Zenon DEF createTable, GoTo, FailTo, userVars, LossInv
  <2>2. resource.exists => resource' = resource
    BY <1>2, Zenon DEF createTable
  <2> QED BY <1>0, <2>1, <2>2, WorksLoss, ZenonT(40)
<1>3. CASE readTags \/ dynamodb_Ensure \/ CallFails(TableEnsureSteps, TableCleanupSteps)
  <2>1. /\ UNCHANGED <<spec, cr, store, view, resource, mem>> /\ pc # "idle" /\ pc' # "create"
    BY <1>3, ZenonT(40) DEF readTags, JudgeTags, dynamodb_Ensure, KeyNotReady, CallFails, TableEnsureSteps,
                TableCleanupSteps, GoTo, FailTo, userVars
  <2> QED BY <1>0, <2>1, WorksLoss, ZenonT(40)
<1>4. CASE adoptTable
  <2>1. /\ UNCHANGED <<spec, cr, store, view, mem>> /\ pc # "idle" /\ pc' # "create"
        /\ resource'.exists = resource.exists
    BY <1>0, <1>4, ZenonT(40) DEF adoptTable, TagAsOwned, Done, GoTo, FailTo, userVars, Resource
  <2> QED BY <1>0, <2>1, WorksLoss, Zenon
<1>5. CASE reconcileTableAttributes
  <2>1. /\ UNCHANGED <<spec, cr, store, view>> /\ pc # "idle" /\ pc' # "create"
        /\ mem' = mem \/ mem' = VerifiedEntry(view.spec.policy, view.spec.force)
    BY <1>5 DEF reconcileTableAttributes, GoTo, FailTo, userVars
  <2>2. resource'.exists = resource.exists
    BY <1>0, <1>5, ZenonT(40) DEF reconcileTableAttributes, Resource
  <2>3. mem'.state = mem.state \/ mem'.state \in Recorded
    BY <2>1 DEF VerifiedEntry, Recorded
  <2> QED BY <1>0, <2>1, <2>2, <2>3, WorksLoss, Zenon
<1> QED BY <1>1, <1>2, <1>3, <1>4, <1>5, Zenon

\* Cleanup drops only the entry of a table that is no longer declared.
LEMMA TableCleanupLoss ==
    ASSUME CoreInv, LossInv, Table(TableNext),
           \/ dynamodb_Cleanup \/ dynamodb_restoreDeclared \/ dynamodb_removePendingDeletionDeny
           \/ dynamodb_retain \/ dynamodb_relinquishIfStillTagged \/ dynamodb_verifyOwned
           \/ dynamodb_addPendingDeletionDeny \/ dynamodb_gateOnEmpty
           \/ releaseDeletionProtection \/ deleteTable
    PROVE  LossInv'
<1>0. kind = "table" /\ RecordLoss /\ UNCHANGED kind /\ mem \in GatedEntry /\ resource \in Resource(AllData)
  BY DEF Table, CoreInv, TypeInv, PassTypeOK
<1>1. CASE dynamodb_Cleanup
  <2>1. UNCHANGED <<spec, cr, store, view, resource, mem>> /\ pc # "idle" /\ pc' # "create"
    BY <1>1, SMTT(30) DEF dynamodb_Cleanup, CleanupSwitch, GoTo, userVars
  <2> QED BY <1>0, <2>1, WorksLoss, ZenonT(40)
<1>2. CASE dynamodb_restoreDeclared
  <2>1. /\ UNCHANGED <<spec, cr, store, view>> /\ pc # "idle" /\ pc' # "create"
        /\ mem'.state = mem.state /\ resource'.exists = resource.exists
    BY <1>0, <1>2, ZenonT(40)
    DEF dynamodb_restoreDeclared, LiftDeny, GoTo, FailTo, userVars, GatedEntry, Resource
  <2> QED BY <1>0, <2>1, WorksLoss, Zenon
<1>3. ASSUME Retaining \/ Deleting, UNCHANGED <<spec, cr, store, view>>, pc' # "create",
             resource'.exists = resource.exists
      PROVE  LossInv'
  <2>1. pc # "idle" /\ ~StillDeclared
    BY <1>3, Zenon DEF Retaining, Deleting, Destroying, CoreInv, ControlInv
  <2> QED BY <1>0, <1>3, <2>1, WorksLoss, Zenon
<1>4. CASE \/ dynamodb_removePendingDeletionDeny \/ dynamodb_retain \/ dynamodb_relinquishIfStillTagged
  BY <1>0, <1>3, <1>4, ZenonT(40) DEF dynamodb_removePendingDeletionDeny, dynamodb_retain, RetainLookup,
     dynamodb_relinquishIfStillTagged, Done, GoTo, FailTo, userVars, Retaining, Resource
<1>5. CASE \/ dynamodb_verifyOwned \/ dynamodb_addPendingDeletionDeny \/ dynamodb_gateOnEmpty
  BY <1>0, <1>3, <1>5, Zenon DEF dynamodb_verifyOwned, VerifyThen,
     dynamodb_addPendingDeletionDeny, DenyThenMark, dynamodb_gateOnEmpty, GateOn,
     GoTo, FailTo, userVars, Deleting, Destroying, Resource
<1>6. CASE releaseDeletionProtection \/ deleteTable
  BY <1>0, <1>3, <1>6, ZenonT(40) DEF releaseDeletionProtection, deleteTable, Done, GoTo, FailTo, userVars,
     Deleting, Destroying, Resource
<1> QED BY <1>1, <1>2, <1>4, <1>5, <1>6, ZenonT(40)

\* The ledger written back from an entry that knows of the table.
LEMMA TablePassLoss ==
    ASSUME CoreInv, LossInv, Table(TableNext), Begin \/ Persist \/ Crash \/ Checkpoint
    PROVE  LossInv'
<1>0. kind = "table" /\ RecordLoss /\ UNCHANGED kind
  BY DEF Table
<1>1. resource' = resource /\ spec' = spec
  BY DEF Begin, Persist, Crash, Checkpoint, userVars
<1>2. missing' \in BOOLEAN /\ (missing' => missing /\ cr' = "live")
  BY <1>0, <1>1, ZenonT(40) DEF RecordLoss, LossInv
<1>3. missing => store'.state \in Recorded
  BY DEF Begin, Persist, Crash, Checkpoint, EndPass, LossInv
<1>4. missing /\ pc' # "idle" => StillDeclared' /\ mem'.state \in Recorded
  <2>1. CASE Begin
    BY <2>1, ZenonT(40) DEF Begin, LossInv, StillDeclared
  <2>2. CASE Persist \/ Crash
    BY <2>2 DEF Persist, Crash, EndPass
  <2>3. CASE Checkpoint
    <3>1. /\ UNCHANGED <<pc, mem>> /\ pc # "idle"
          /\ view' = view \/ view' = [view EXCEPT !.spec = spec]
      BY <2>3, Zenon DEF Checkpoint
    <3>2. view \in [spec : Specs, deleting : BOOLEAN, forceAll : BOOLEAN]
      BY DEF CoreInv, TypeInv, PassTypeOK
    <3> QED BY <3>1, <3>2 DEF LossInv, StillDeclared
  <2> QED BY <2>1, <2>2, <2>3, ZenonT(40)
<1>5. pc' # "create"
  BY DEF Begin, Persist, Crash, Checkpoint, EndPass, GoTo
<1> QED BY <1>0, <1>1, <1>2, <1>3, <1>4, <1>5, ZenonT(40) DEF LossInv, LostTableIsNotReplaced

\* Whatever is done outside: the loss begins with a deletion, of a table that
\* the entries know of, and ends with a table somebody else makes.
LEMMA TableOutsideLoss ==
    ASSUME CoreInv, LossInv, Table(TableNext),
           \/ Users \/ OutsideCreate \/ Tick
           \/ TableSettles \/ PutItem \/ DeleteItems \/ TableOutsideDelete \/ OutsideUnprotect
    PROVE  LossInv'
<1>0. kind = "table" /\ RecordLoss /\ UNCHANGED kind /\ resource \in Resource(AllData) /\ Timely(resource)
  BY DEF Table, CoreInv, TypeInv, PassTypeOK
<1>1. UNCHANGED <<pc, view>> /\ store'.state = store.state /\ mem'.state = mem.state
  <2>1. CASE Tick
    <3>1. store \in GatedEntry /\ mem \in GatedEntry
      BY Zenon DEF CoreInv, TypeInv, PassTypeOK
    <3> QED BY <2>1, <3>1, OlderEntryFacts, Zenon DEF Tick
  <2>2. CASE Users
    BY <2>2, Zenon DEF Users, EditSpec, DeleteCR, AnnotateForceDeleteAll, passVars
  <2>3. CASE \/ OutsideCreate \/ TableSettles \/ PutItem \/ DeleteItems
             \/ TableOutsideDelete \/ OutsideUnprotect
    BY <2>3, Zenon DEF OutsideCreate, TableSettles, PutItem, DeleteItems, TableOutsideDelete,
                OutsideDelete, OutsideUnprotect, Outside, passVars
  <2> QED BY <2>1, <2>2, <2>3
<1>2. CASE TableOutsideDelete
  <2>1. /\ resource.exists /\ ~resource'.exists /\ resource.status = "Active"
        /\ UNCHANGED <<spec, cr, store, mem>>
    BY <1>2, ResourceFacts, ZenonT(40) DEF TableOutsideDelete, OutsideDelete, Outside, userVars, passVars
  <2>2. missing' = (/\ spec.declared /\ cr = "live" /\ (pc = "idle" \/ StillDeclared)
                    /\ store.state = "Verified" /\ IsOwnedBy(resource.tags))
    BY <1>0, <2>1, Zenon DEF RecordLoss
  <2>3. missing' \in BOOLEAN
    BY <2>2
  <2>4. missing' => Mine
    BY <2>1, <2>2, Zenon DEF Mine
  <2>5. missing' /\ pc # "idle" => mem.state \in Recorded
    BY <2>2, <2>4, ZenonT(40) DEF CoreInv, ClaimInv, Recorded
  <2> QED BY <1>0, <1>1, <2>1, <2>2, <2>3, <2>5, ZenonT(40)
          DEF LossInv, LostTableIsNotReplaced, StillDeclared, Recorded
<1>3. CASE ~TableOutsideDelete
  <2>1. /\ resource.exists /\ resource.status = "Active" => resource'.exists
        /\ resource'.exists => resource.exists \/ ~IsOwnedBy(resource'.tags)
    <3>1. CASE Users
      BY <3>1, SMTT(30) DEF Users, EditSpec, DeleteCR, AnnotateForceDeleteAll
    <3>2. CASE OutsideCreate
      <4>1. PICK t \in ForeignTags : resource' = NewResource(t, "off", "Active")
        BY <3>2 DEF OutsideCreate, Outside
      <4>2. t \in Tags /\ ~IsOwnedBy(t)
        BY TagFacts, ZenonT(40)
      <4> QED BY <4>1, <4>2, ResourceFacts, Zenon
    <3>3. CASE Tick \/ PutItem \/ DeleteItems \/ OutsideUnprotect
      BY <1>0, <3>3 DEF Tick, PutItem, DeleteItems, OutsideUnprotect, Outside, Resource
    <3>4. CASE TableSettles
      BY <1>0, <3>4, ResourceFacts, Zenon DEF TableSettles, Outside, Resource
    <3> QED BY <1>3, <3>1, <3>2, <3>3, <3>4, ZenonT(40)
  <2>2. /\ missing' \in BOOLEAN
        /\ missing' => /\ missing /\ spec'.declared /\ cr' = "live"
                       /\ resource'.exists => IsOwnedBy(resource'.tags)
    BY <1>0, <2>1, Zenon DEF RecordLoss, LossInv
  <2> QED BY <1>0, <1>1, <2>1, <2>2, Zenon DEF LossInv, LostTableIsNotReplaced, StillDeclared
<1> QED BY <1>2, <1>3, Zenon

\* Every step keeps what is known of a lost table.
LEMMA LossKept ==
    ASSUME StoreInv, [FairNext]_storeVars
    PROVE  LossInv'
<1>1. CASE Table(TableNext)
  BY <1>1, TableEnsureLoss, TableCleanupLoss, TablePassLoss, TableOutsideLoss, ZenonT(40)
  DEF StoreInv, Table, TableNext, TablePass, Others
<1>2. CASE Topic(TopicNext) \/ Bucket(BucketNext)
  BY <1>2, SMTT(30) DEF StoreInv, LossInv, LostTableIsNotReplaced, Topic, Bucket
<1>3. CASE (Calm /\ UNCHANGED <<kind, missing>>) \/ UNCHANGED storeVars
  <2>1. UNCHANGED <<kind, missing, spec, cr, store, resource, pc, view, mem>>
    BY <1>3, ZenonT(40) DEF Calm, storeVars, vars, userVars, passVars
  <2> QED BY <2>1, Zenon DEF StoreInv, LossInv, LostTableIsNotReplaced, StillDeclared
<1> QED BY <1>1, <1>2, <1>3, ZenonT(40) DEF FairNext, Next

-----------------------------------------------------------------------------
(* The theorems.                                                           *)

\* A CR just created, before its first pass.
LEMMA StoreInit ==
    ASSUME Init
    PROVE  StoreInv /\ SD!Init
<1>0. /\ spec \in Specs /\ cr = "live" /\ forceAll = FALSE /\ calm = FALSE /\ store = NoEntry
      /\ pc = "idle" /\ view = IdleView /\ mem = NoEntry /\ err = FALSE /\ forgotten = {}
      /\ raced = FALSE /\ missing = FALSE /\ kind \in {"topic", "bucket", "table"}
  BY KindsAssumption, Zenon DEF Init, TopicInit, TableInit, PassInit
<1>1. /\ resource \in Resource(AllData) /\ Timely(resource) /\ resource.data = {} /\ resource.deny = Never
      /\ ~IsOwnedBy(resource.tags)
  <2>1. CASE resource = NoResource
    BY <2>1, ResourceFacts, TagFacts, ZenonT(40)
  <2>2. CASE resource # NoResource
    <3>1. PICK t \in ForeignTags : resource = NewResource(t, "off", "Active")
      BY <2>2, Zenon DEF Init, TopicInit, PassInit
    <3>2. t \in Tags /\ ~IsOwnedBy(t)
      BY TagFacts, ZenonT(40)
    <3> QED BY <3>1, <3>2, ResourceFacts, Zenon
  <2> QED BY <2>1, <2>2, ZenonT(40)
<1>2. TypeInv
  <2>1. IdleView \in [spec : Specs, deleting : BOOLEAN, forceAll : BOOLEAN]
    BY DEF IdleView, Specs
  <2> QED BY <1>0, <1>1, <2>1, EntryFacts, ZenonT(40) DEF TypeInv, PassTypeOK
<1>3. ~Mine /\ ~Destroying
  BY <1>0, <1>1, Zenon DEF Mine, Destroying
<1>4. ControlInv /\ OwnInv /\ ClaimInv
  BY <1>0, <1>1, <1>3, EntryFacts, ZenonT(40) DEF ControlInv, OwnInv, ClaimInv, ChangesOnlyOwned,
     FinalizerHoldsResource, Ensuring, Retaining, Deleting, StillDeclared, IdleView, Undeclared, Recorded
<1>5. NoticeInv
  BY <1>0, <1>3, EntryFacts, Zenon DEF NoticeInv
<1>6. LossInv
  BY <1>0, Zenon DEF LossInv, LostTableIsNotReplaced
<1>7. SD!Init
  BY <1>0, <1>3, EntryFacts DEF SD!Init, SD!Never, Never
<1> QED BY <1>2, <1>4, <1>5, <1>6, <1>7, ZenonT(40) DEF StoreInv, CoreInv

\* Every step keeps the invariant, and is one of SafeDeletion's or invisible to it.
LEMMA StoreStep ==
    ASSUME StoreInv, [FairNext]_storeVars
    PROVE  StoreInv' /\ Promised
<1>1. CoreInv' /\ Promised
  <2>1. CASE Next
    BY <2>1, TopicKeeps, BucketKeeps, TableKeeps, Zenon DEF Next, StoreInv
  <2>2. CASE (Calm /\ UNCHANGED <<kind, missing>>) \/ UNCHANGED storeVars
    BY <2>2, UsersKeep, Zenon DEF StoreInv, storeVars
  <2> QED BY <2>1, <2>2, Zenon DEF FairNext
<1> QED BY <1>1, LossKept, Zenon DEF StoreInv

\* With or without fairness, with or without a calm end.
LEMMA StoreInvariant == (Spec => []StoreInv) /\ (FairSpec => []StoreInv)
<1>1. Init => StoreInv
  BY StoreInit
<1>2. StoreInv /\ [FairNext]_storeVars => StoreInv'
  BY StoreStep, Zenon
<1>3. [Next]_storeVars => [FairNext]_storeVars
  BY DEF FairNext
<1> QED BY <1>1, <1>2, <1>3, PTL DEF Spec, FairSpec

\* Between the tag read and its last change a cleanup works on a resource that
\* is this CR's, or on one that changed hands after verifyOwned or retain read
\* its tags.
THEOREM OnlyOwnedIsChanged == (Spec => []ChangesOnlyOwned) /\ (FairSpec => []ChangesOnlyOwned)
<1>1. StoreInv => ChangesOnlyOwned
  BY Zenon DEF StoreInv, CoreInv, OwnInv
<1> QED BY <1>1, StoreInvariant, PTL

\* The finalizer that finalize removes leaves nothing tagged as the CR's that
\* the ledger ever knew of: whatever is the CR's stays recorded, in the status
\* and in the pass's copy, until its tags or the resource itself are gone.
THEOREM FinalizerWaitsForResource ==
    (Spec => []FinalizerHoldsResource) /\ (FairSpec => []FinalizerHoldsResource)
<1>1. StoreInv => FinalizerHoldsResource
  BY ZenonT(40) DEF StoreInv, CoreInv, ClaimInv
<1> QED BY <1>1, StoreInvariant, PTL

\* ensureTable never creates a table in place of a declared, recorded one that
\* somebody deleted, however passes, crashes, checkpoints and edits interleave
\* with the loss.
THEOREM LostTableStaysLost ==
    (Spec => []LostTableIsNotReplaced) /\ (FairSpec => []LostTableIsNotReplaced)
<1>1. StoreInv => LostTableIsNotReplaced
  BY DEF StoreInv, LossInv
<1> QED BY <1>1, StoreInvariant, PTL

\* Stores implements SafeDeletion: initial states map to its initial states and
\* every step of Ensure, Cleanup, the status write, a crash and the environment
\* to one of its steps or to none.  With the quiet window no shorter than the
\* time a deny takes to bite and the time a list of subscriptions may lag behind
\* together, nothing is then destroyed for being empty that holds data
\* (EmptyWhenDoomed).
THEOREM StoresDeleteSafely == Spec => DeletesSafely
<1>1. Init => SD!Init
  BY StoreInit, Zenon
<1>2. StoreInv /\ [Next]_storeVars => [SD!Next]_(SD!vars)
  BY StoreStep DEF Promised, FairNext
<1> QED BY <1>1, <1>2, EmptyWhenDoomed, StoreInvariant, PTL DEF Spec, DeletesSafely, SD!Spec
=============================================================================
