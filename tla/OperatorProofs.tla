--------------------------- MODULE OperatorProofs ---------------------------
(***************************************************************************)
(* Proofs about Operator.  About the passes of one CR (Reconciler): the    *)
(* invariant every step keeps, what a step of a pass does to AWS, to the   *)
(* CR, to its region and to its next retry, and so that Ready is earned,   *)
(* that the finalizer holds the CR, that a pass stays in its region, that  *)
(* the first retry is soon and that something wakes the CR.  About the     *)
(* watches: that a CR whose inputs changed is woken.                       *)
(***************************************************************************)
EXTENDS Operator, TLAPS

-----------------------------------------------------------------------------
(* The inductive invariant of the passes.                                  *)

Earned(conds) ==
    conds.Ready.ok = "true" =>
        \A t \in sectionTypes : conds[t] = [ok |-> "true", gen |-> conds.Ready.gen]

\* Every copy of the CR has its Ready earned: a patch sends the whole list.
EarnedInv == Earned(api.conds) /\ Earned(cache.conds) /\ Earned(mem.conds) /\ Earned(base.conds)

\* What a copy of the CR says of the server's: a generation fixes the spec, the
\* deletion is for good, and the finalizer comes off only with the CR.
Follows(old, new) ==
    old.there =>
        IF new.there
        THEN /\ old.gen <= new.gen
             /\ old.gen = new.gen => old.legacy = new.legacy /\ old.deleting = new.deleting
             /\ old.deleting => new.deleting
             /\ old.finalizer => new.finalizer
             /\ old.deleting /\ ~old.finalizer => ~new.finalizer
        ELSE old.finalizer => old.deleting

\* A pass that creates works for a CR the finalizer holds, one that finalizes for
\* a CR in deletion.
HoldInv ==
    /\ Follows(cache, api)
    /\ pc # "idle" => at > 0
    /\ pc = "reconcile" => api.there /\ api.finalizer
    /\ pc = "finalize" => (cache.there => cache.deleting) /\ (api.there => api.deleting)

LocalTo(cr) == \A s \in Range(Sections) : cr.ledger[s] \in {"none", "global", here}

\* The cache lags behind the server only by what passes in this region wrote.
LocalInv ==
    /\ LocalTo(cache) => LocalTo(api)
    /\ pc # "idle" => LocalTo(api) /\ LocalTo(mem)

\* What a deletion pass has taken out of its copy of the ledger is gone from AWS,
\* and while its version is current the server's ledger is the one it read.
ClearedInv ==
    pc = "finalize" =>
        /\ mem.conds = base.conds
        /\ \A s \in Range(Sections) :
              \/ mem.ledger[s] = base.ledger[s]
              \/ mem.ledger[s] = "none" /\ <<s, base.ledger[s]>> \notin aws
        /\ onlyWaits => \A i \in 1..Len(Sections) : i < at => mem.ledger[finalizeOrder[i]] = "none"
        /\ at = Len(Sections) + 2 => onlyWaits
        /\ current /\ api.there =>
              \/ api.ledger = base.ledger
              \/ \A s \in Range(Sections) : api.ledger[s] = "none"

BackoffInv == result = "over" => failures = 0

PassInv ==
    TypeOK /\ EarnedInv /\ HoldInv /\ LocalInv /\ ClearedInv /\ BackoffInv /\ SomethingWakes

-----------------------------------------------------------------------------
(* Lemmas about the operators of a pass.                                   *)

\* The fields a pass never writes through the status.
SameSpec(a, b) ==
    /\ a.there = b.there /\ a.gen = b.gen /\ a.deleting = b.deleting
    /\ a.finalizer = b.finalizer /\ a.note = b.note /\ a.legacy = b.legacy

\* SetSectionCondition keeps a CR a CR, changes nothing but its conditions, and
\* leaves Ready earned, whatever the conditions were (recomputeReady).
LEMMA SectionConditionFacts ==
    ASSUME NEW cr \in CRs, NEW t \in sectionTypes, NEW ok \in {"true", "false"}
    PROVE  LET new == SetSectionCondition(cr, t, ok)
           IN  new \in CRs /\ SameSpec(new, cr) /\ new.ledger = cr.ledger /\ Earned(new.conds)
<1> DEFINE set == [cr.conds EXCEPT ![t] = [ok |-> ok, gen |-> cr.gen]]
       Conds == [sectionTypes \cup {"Ready"} -> [ok : {"unset", "true", "false"}, gen : 0..MaxGeneration]]
<1>1. "Ready" \notin sectionTypes
  BY ReconcilerAssumption DEF sectionTypes
<1>2. set \in Conds
  BY DEF CRs
<1>3. recomputeReady(set, cr.gen) \in Conds
  <2>1. cr.gen \in 0..MaxGeneration  BY DEF CRs
  <2> HIDE DEF set
  <2> QED  BY <1>2, <2>1 DEF recomputeReady
<1>4. Earned(recomputeReady(set, cr.gen))
  <2> HIDE DEF set
  <2> QED  BY <1>1, <1>2 DEF recomputeReady, Earned
<1>5. SetSectionCondition(cr, t, ok) = [cr EXCEPT !.conds = recomputeReady(set, cr.gen)]
  BY DEF SetSectionCondition
<1> HIDE DEF set
<1> QED  BY <1>3, <1>4, <1>5 DEF CRs, SameSpec

\* SetDeletionBlocked changes nothing but Ready, which is not True after it.
LEMMA DeletionBlockedFacts ==
    ASSUME NEW cr \in CRs
    PROVE  LET new == SetDeletionBlocked(cr)
           IN  new \in CRs /\ SameSpec(new, cr) /\ new.ledger = cr.ledger /\ Earned(new.conds)
<1> DEFINE conds == [cr.conds EXCEPT !.Ready = [ok |-> "false", gen |-> cr.gen]]
       Conds == [sectionTypes \cup {"Ready"} -> [ok : {"unset", "true", "false"}, gen : 0..MaxGeneration]]
<1>1. conds \in Conds /\ Earned(conds)
  BY DEF CRs, Earned
<1>2. SetDeletionBlocked(cr) = [cr EXCEPT !.conds = conds]
  BY DEF SetDeletionBlocked
<1> HIDE DEF conds
<1> QED  BY <1>1, <1>2 DEF CRs, SameSpec

\* A status patch changes nothing but the conditions and the ledger, and each of
\* them is the server's or the pass's, as a whole (statusPatch).
LEMMA StatusPatchFacts ==
    ASSUME api \in CRs, NEW original, NEW cr \in CRs
    PROVE  LET new == statusPatch(original, cr)
           IN  /\ new \in CRs /\ SameSpec(new, api)
               /\ new.conds \in {api.conds, cr.conds}
               /\ new.ledger = IF cr.ledger = original.ledger THEN api.ledger ELSE cr.ledger
<1> DEFINE conds == IF cr.conds = original.conds THEN api.conds ELSE cr.conds
           ledger == IF cr.ledger = original.ledger THEN api.ledger ELSE cr.ledger
<1>1. statusPatch(original, cr) = [api EXCEPT !.conds = conds, !.ledger = ledger]
  BY DEF statusPatch
<1>2. conds \in {api.conds, cr.conds} /\ ledger \in {api.ledger, cr.ledger}
  OBVIOUS
<1>3. ledger = IF cr.ledger = original.ledger THEN api.ledger ELSE cr.ledger
  OBVIOUS
<1> HIDE DEF conds, ledger
<1> QED  BY <1>1, <1>2, <1>3, Zenon DEF CRs, SameSpec

\* The CR before it is created, and one that is not there.
LEMMA NewCRFacts ==
    /\ NewCR \in CRs /\ NoCR \in CRs /\ ~NoCR.there
    /\ NewCR.gen = 1 /\ NewCR.there /\ ~NewCR.deleting /\ ~NewCR.finalizer /\ Earned(NewCR.conds)
    /\ NoCR.ledger = NewCR.ledger /\ NoCR.conds = NewCR.conds
    /\ \A s \in Range(Sections) : NewCR.ledger[s] = "none"
<1> DEFINE ledger == [s \in Range(Sections) |-> "none"]
           conds == [t \in sectionTypes \cup {"Ready"} |-> Unset]
<1>1. conds \in [sectionTypes \cup {"Ready"} -> [ok : {"unset", "true", "false"}, gen : 0..MaxGeneration]]
  BY ReconcilerAssumption DEF Unset
<1>2. conds.Ready.ok # "true"
  BY DEF Unset
<1>3. ledger \in [Range(Sections) -> Regions \cup {"none", "global"}]
  OBVIOUS
<1>4. \A s \in Range(Sections) : ledger[s] = "none"
  OBVIOUS
<1>5. NewCR = [there |-> TRUE, gen |-> 1, deleting |-> FALSE, finalizer |-> FALSE,
               note |-> "none", legacy |-> FALSE, ledger |-> ledger, conds |-> conds]
  BY DEF NewCR
<1> HIDE DEF ledger, conds
<1>6. NewCR \in CRs
  BY <1>1, <1>3, <1>5, ReconcilerAssumption DEF CRs
<1>7. NoCR \in CRs /\ ~NoCR.there /\ NoCR.ledger = NewCR.ledger /\ NoCR.conds = NewCR.conds
  BY <1>6, Zenon DEF NoCR, CRs
<1> QED  BY <1>2, <1>4, <1>5, <1>6, <1>7 DEF Earned

\* kms is finalized last and nothing else is left out (finalizeOrder).
LEMMA FinalizeOrderFacts ==
    /\ \A i \in 1..Len(Sections) : finalizeOrder[i] \in Range(Sections)
    /\ \A s \in Range(Sections) : \E i \in 1..Len(Sections) : finalizeOrder[i] = s
<1>1. Sections \in Seq(STRING) /\ Len(Sections) \in Nat \ {0}
  BY ReconcilerAssumption
<1>2. \A i \in 1..Len(Sections) :
        finalizeOrder[i] = IF i < Len(Sections) THEN Sections[i + 1] ELSE Sections[1]
  BY <1>1 DEF finalizeOrder
<1>3. Range(Sections) = {Sections[i] : i \in 1..Len(Sections)}
  BY <1>1 DEF Range
<1> QED
  <2>1. ASSUME NEW i \in 1..Len(Sections)
        PROVE  finalizeOrder[i] \in Range(Sections)
    BY <1>1, <1>2, <1>3
  <2>2. ASSUME NEW s \in Range(Sections)
        PROVE  \E i \in 1..Len(Sections) : finalizeOrder[i] = s
    <3>1. PICK j \in 1..Len(Sections) : Sections[j] = s
      BY <1>3
    <3>2. CASE j = 1
      BY <1>1, <1>2, <3>1, <3>2
    <3>3. CASE j # 1
      <4>1. j - 1 \in 1..Len(Sections) /\ j - 1 < Len(Sections) /\ (j - 1) + 1 = j
        BY <1>1, <3>3
      <4> QED  BY <1>2, <3>1, <4>1
    <3> QED  BY <3>2, <3>3
  <2> QED  BY <2>1, <2>2

-----------------------------------------------------------------------------
(* A pass that ends.                                                       *)

AtRest ==
    /\ pc = "idle" /\ at = 0 /\ mem = NoCR /\ base = NoCR /\ current = FALSE
    /\ first = "none" /\ onlyWaits = TRUE

\* What a step made of the server's CR, as far as the invariant goes: the status
\* is earned and, if the cache's is, in this region.
ApiKept ==
    /\ api' \in CRs /\ Earned(api'.conds) /\ Follows(cache, api')
    /\ LocalTo(cache) => \A s \in Range(Sections) : api'.ledger[s] \in {"none", "global", here}

\* The invariant after a step that ends a pass, from what the step does to the
\* server's CR and to the timers (Returns).
LEMMA EndedInv ==
    ASSUME PassInv, ApiKept, AtRest', UNCHANGED <<cache, here, aws>>,
           faults' \in 0..MaxFaults, failures' \in 0..LongAfter,
           queued' \in BOOLEAN, armed' \in BOOLEAN,
           result' \in {"over", "early", "soon", "drift", "watched"},
           result' = "over" => failures' = 0,
           SomethingWakes'
    PROVE  PassInv'
<1>1. TypeOK'
  <2>1. api' \in CRs /\ cache' \in CRs /\ mem' \in CRs /\ base' \in CRs
    BY NewCRFacts DEF PassInv, ApiKept, AtRest, TypeOK
  <2>2. Len(Sections) \in Nat
    BY ReconcilerAssumption
  <2>3. at' \in 0..(Len(Sections) + 2) /\ current' \in BOOLEAN /\ onlyWaits' \in BOOLEAN
    <3>1. at' = 0 /\ current' = FALSE /\ onlyWaits' = TRUE
      BY DEF AtRest
    <3>2. 0 \in 0..(Len(Sections) + 2)
      BY <2>2
    <3> QED  BY <3>1, <3>2, Zenon
  <2> QED  BY <2>1, <2>3 DEF PassInv, AtRest, TypeOK
<1>2. EarnedInv'
  BY NewCRFacts DEF PassInv, ApiKept, AtRest, EarnedInv
<1>3. HoldInv'
  BY DEF ApiKept, AtRest, HoldInv
<1>4. LocalInv'
  BY DEF ApiKept, AtRest, LocalInv, LocalTo
<1>5. ClearedInv' /\ BackoffInv'
  BY ZenonT(40) DEF AtRest, ClearedInv, BackoffInv
<1> QED  BY <1>1, <1>2, <1>3, <1>4, <1>5 DEF PassInv

\* A step that leaves the server's CR alone.
LEMMA SameApi ==
    ASSUME PassInv, api' = api
    PROVE  ApiKept
BY DEF PassInv, TypeOK, EarnedInv, HoldInv, LocalInv, LocalTo, ApiKept

\* A patch of the status with earned conditions and a ledger of this region, or
\* with the ledger the cache has.
LEMMA PatchedApi ==
    ASSUME PassInv, NEW original, NEW cr \in CRs, Earned(cr.conds),
           LocalTo(cr) \/ cr.ledger = original.ledger,
           api' = statusPatch(original, cr)
    PROVE  ApiKept /\ SameSpec(api', api) /\ api'.ledger \in {api.ledger, cr.ledger}
<1>1. /\ api' \in CRs /\ SameSpec(api', api)
      /\ api'.conds \in {api.conds, cr.conds}
      /\ api'.ledger = IF cr.ledger = original.ledger THEN api.ledger ELSE cr.ledger
  BY StatusPatchFacts DEF PassInv, TypeOK
<1>2. Earned(api'.conds)
  BY <1>1 DEF PassInv, EarnedInv
<1>3. Follows(cache, api')
  BY <1>1 DEF PassInv, HoldInv, Follows, SameSpec
<1>4. LocalTo(cache) => \A s \in Range(Sections) : api'.ledger[s] \in {"none", "global", here}
  BY <1>1 DEF PassInv, LocalInv, LocalTo
<1> QED  BY <1>1, <1>2, <1>3, <1>4 DEF ApiKept

\* A refusal writes a condition and nothing else, and only a refusal that went
\* through and asks for nothing leaves the CR without a delayed request.
LEMMA RefusedFacts ==
    ASSUME PassInv, NEW t \in sectionTypes, NEW again \in BOOLEAN,
           Starts, UNCHANGED <<cache, failures, here, aws>>,
           RefusedWith(SetSectionCondition(cache, t, "false"), again),
           ~again => cache.there /\ ~cache.deleting /\ cache.legacy
    PROVE  PassInv'
<1> DEFINE cr == SetSectionCondition(cache, t, "false")
<1>1. cr \in CRs /\ SameSpec(cr, cache) /\ cr.ledger = cache.ledger /\ Earned(cr.conds)
  BY SectionConditionFacts, ZenonT(40) DEF PassInv, TypeOK
<1> HIDE DEF cr
<1>2. CASE api.there /\ api' = statusPatch(cache, cr) /\ ReturnsEarly(again) /\ UNCHANGED faults
  <2>1. ApiKept /\ SameSpec(api', api)
    BY <1>1, <1>2, PatchedApi
  <2>2. SomethingWakes'
    BY <1>2, <2>1, Zenon DEF PassInv, HoldInv, Follows, SameSpec, SomethingWakes, AppDependenciesPredicate,
                      ReturnsEarly, Returns
  <2> QED  BY <1>2, <2>1, <2>2, EndedInv, Zenon DEF ReturnsEarly, Returns, AtRest, Starts, PassInv, TypeOK
<1>3. CASE FailsUnless(api.there) /\ ReturnsEarly(TRUE) /\ UNCHANGED api
  <2>1. ApiKept  BY <1>3, SameApi
  <2>2. SomethingWakes'
    BY <1>3 DEF SomethingWakes, ReturnsEarly, Returns
  <2>3. faults' \in 0..MaxFaults
    BY <1>3, ReconcilerAssumption DEF FailsUnless, Fault, PassInv, TypeOK
  <2> QED  BY <1>3, <2>1, <2>2, <2>3, EndedInv, Zenon DEF ReturnsEarly, Returns, AtRest, Starts, PassInv, TypeOK
<1> QED  BY <1>2, <1>3, Zenon DEF RefusedWith, cr

-----------------------------------------------------------------------------
(* The start of a pass.                                                    *)

\* A pass that returns before it does anything keeps the invariant (Reconcile up to
\* reconcileNormal and reconcileDelete).
LEMMA EarlyKeeps ==
    ASSUME PassInv,
           \/ NotFound \/ refuseLegacyKMSKeyRef \/ refuseOtherRegion
           \/ abandonOtherRegion \/ LeftAlone
    PROVE  PassInv'
<1> USE DEF Starts
<1>1. CASE NotFound
  <2>1. ApiKept  BY <1>1, SameApi DEF NotFound
  <2>2. SomethingWakes'
    BY <1>1, Zenon DEF NotFound, Returns, SomethingWakes, AppDependenciesPredicate
  <2>3. failures' = 0 /\ 0 \in 0..LongAfter
    BY <1>1, ReconcilerAssumption DEF NotFound, resetTransientBackoff
  <2> QED  BY <1>1, <2>1, <2>2, <2>3, EndedInv, Zenon DEF NotFound, Returns, AtRest, PassInv, TypeOK
<1>2. CASE refuseLegacyKMSKeyRef
  <2>1. Head(Sections) \in sectionTypes
    BY ReconcilerAssumption DEF sectionTypes, Range
  <2> QED  BY <1>2, <2>1, RefusedFacts, Zenon DEF refuseLegacyKMSKeyRef
<1>3. CASE refuseOtherRegion
  <2>1. PICK s \in Range(Sections) : RefusedWith(SetSectionCondition(cache, s, "false"), TRUE)
    BY <1>3, Zenon DEF refuseOtherRegion
  <2>2. s \in sectionTypes
    BY DEF sectionTypes
  <2> QED  BY <1>3, <2>1, <2>2, RefusedFacts, Zenon DEF refuseOtherRegion
<1>4. CASE abandonOtherRegion
  <2>1. CASE patchFinalizers(cache = api) /\ api' = Released(api) /\ ReturnsEarly(FALSE) /\ UNCHANGED faults
    <3>1. api' = NoCR /\ cache.deleting
      BY <1>4, <2>1 DEF abandonOtherRegion, patchFinalizers, Released
    <3>2. ApiKept
      BY <3>1, NewCRFacts DEF ApiKept, Follows
    <3>3. SomethingWakes'
      BY <3>1, NewCRFacts DEF SomethingWakes
    <3> QED  BY <1>4, <2>1, <3>2, <3>3, EndedInv, Zenon
               DEF abandonOtherRegion, ReturnsEarly, Returns, AtRest, PassInv, TypeOK
  <2>2. CASE FailsUnless(patchFinalizers(cache = api)) /\ ReturnsEarly(TRUE) /\ UNCHANGED api
    <3>1. ApiKept  BY <2>2, SameApi
    <3>2. SomethingWakes'
      BY <2>2 DEF SomethingWakes, ReturnsEarly, Returns
    <3>3. faults' \in 0..MaxFaults
      BY <2>2, ReconcilerAssumption DEF FailsUnless, Fault, PassInv, TypeOK
    <3> QED  BY <1>4, <2>2, <3>1, <3>2, <3>3, EndedInv, Zenon
               DEF abandonOtherRegion, ReturnsEarly, Returns, AtRest, PassInv, TypeOK
  <2> QED  BY <1>4, <2>1, <2>2, Zenon DEF abandonOtherRegion
<1>5. CASE LeftAlone
  <2>1. ApiKept  BY <1>5, SameApi DEF LeftAlone
  <2>2. SomethingWakes'
    BY <1>5, Zenon DEF LeftAlone, PassInv, HoldInv, Follows, SomethingWakes, AppDependenciesPredicate,
                ReturnsEarly, Returns
  <2> QED  BY <1>5, <2>1, <2>2, EndedInv, Zenon
             DEF LeftAlone, ReturnsEarly, Returns, AtRest, PassInv, TypeOK
<1> QED  BY <1>1, <1>2, <1>3, <1>4, <1>5

\* A pass enters its work with a copy that follows the server's CR, and creates
\* nothing before the finalizer is there (ensureFinalizer).
LEMMA EntersKeeps ==
    ASSUME PassInv, ensureFinalizer \/ StartFinalize
    PROVE  PassInv'
<1> USE DEF Starts
<1>0. 1 \in 0..(Len(Sections) + 2)
  BY ReconcilerAssumption
<1>L. ASSUME ~hasResourceInOtherRegion(cache) PROVE LocalTo(cache)
  BY <1>L DEF hasResourceInOtherRegion, InOtherRegion, LocalTo
<1>1. CASE StartFinalize
  <2>1. TypeOK'
    <3>1. at' \in 0..(Len(Sections) + 2) /\ current' \in BOOLEAN /\ mem' = cache /\ base' = cache
      BY <1>0, <1>1, Zenon DEF StartFinalize, Enters
    <3> QED  BY <1>1, <3>1, Zenon DEF StartFinalize, Enters, PassInv, TypeOK
  <2>2. EarnedInv' /\ BackoffInv' /\ SomethingWakes'
    BY <1>1 DEF StartFinalize, Enters, PassInv, EarnedInv, BackoffInv, SomethingWakes
  <2>3. HoldInv'
    <3>1. /\ at' = 1 /\ pc' = "finalize" /\ UNCHANGED <<api, cache>>
          /\ cache.there /\ cache.deleting
      BY <1>1 DEF StartFinalize, Enters
    <3>2. Follows(cache, api)
      BY DEF PassInv, HoldInv
    <3>3. api.there => api.deleting
      BY <3>1, <3>2, ZenonT(40) DEF Follows
    <3> QED  BY <3>1, <3>2, <3>3 DEF HoldInv
  <2>4. LocalInv'
    BY <1>1, <1>L DEF StartFinalize, Enters, PassInv, LocalInv, LocalTo
  <2>5. ClearedInv'
    <3>1. mem' = base' /\ base' = cache /\ at' = 1 /\ current' = (cache = api) /\ api' = api
      BY <1>1 DEF StartFinalize, Enters
    <3>2. pc' = "finalize" /\ aws' = aws /\ onlyWaits' = onlyWaits
      BY <1>1 DEF StartFinalize, Enters
    <3>3. 1 # Len(Sections) + 2 /\ ~ \E i \in 1..Len(Sections) : i < 1
      BY ReconcilerAssumption
    <3> QED  BY <3>1, <3>2, <3>3, Zenon DEF ClearedInv
  <2> QED  BY <2>1, <2>2, <2>3, <2>4, <2>5 DEF PassInv
<1>2. CASE ensureFinalizer /\ cache.finalizer
  <2>1. TypeOK'
    <3>1. at' \in 0..(Len(Sections) + 2) /\ current' \in BOOLEAN /\ mem' = cache /\ base' = cache
      BY <1>0, <1>2, Zenon DEF ensureFinalizer, Enters
    <3> QED  BY <1>2, <3>1, Zenon DEF ensureFinalizer, Enters, PassInv, TypeOK
  <2>2. EarnedInv' /\ BackoffInv' /\ SomethingWakes' /\ ClearedInv'
    BY <1>2 DEF ensureFinalizer, Enters, PassInv, EarnedInv, BackoffInv, SomethingWakes, ClearedInv
  <2>3. HoldInv'
    <3>1. /\ at' = 1 /\ pc' = "reconcile" /\ UNCHANGED <<api, cache>>
          /\ cache.there /\ ~cache.deleting /\ cache.finalizer
      BY <1>2 DEF ensureFinalizer, Enters
    <3>2. Follows(cache, api)
      BY DEF PassInv, HoldInv
    <3>3. api.there /\ api.finalizer
      BY <3>1, <3>2, ZenonT(40) DEF Follows
    <3> QED  BY <3>1, <3>2, <3>3 DEF HoldInv
  <2>4. LocalInv'
    BY <1>2, <1>L DEF ensureFinalizer, Enters, PassInv, LocalInv, LocalTo
  <2> QED  BY <2>1, <2>2, <2>3, <2>4 DEF PassInv
<1>3. CASE /\ ensureFinalizer /\ ~cache.finalizer /\ patchFinalizers(cache = api)
           /\ api' = [api EXCEPT !.finalizer = TRUE]
           /\ Enters("reconcile", api', TRUE) /\ UNCHANGED faults
  <2>1. /\ api' \in CRs /\ api.there /\ cache = api
        /\ api'.there /\ api'.finalizer /\ api'.conds = api.conds /\ api'.ledger = api.ledger
        /\ api'.gen = api.gen /\ api'.legacy = api.legacy /\ api'.deleting = api.deleting
    BY <1>3, Zenon DEF patchFinalizers, PassInv, TypeOK, CRs
  <2>2. TypeOK'
    <3>1. at' \in 0..(Len(Sections) + 2) /\ current' \in BOOLEAN /\ mem' = api' /\ base' = cache
      BY <1>0, <1>3 DEF Enters
    <3>2. /\ UNCHANGED <<cache, failures, here, aws, faults, armed, result, first, onlyWaits>>
          /\ queued' = FALSE /\ pc' = "reconcile"
      BY <1>3, Zenon DEF ensureFinalizer, Enters
    <3> QED  BY <2>1, <3>1, <3>2, Zenon DEF PassInv, TypeOK
  <2>3. EarnedInv' /\ BackoffInv' /\ SomethingWakes' /\ ClearedInv'
    BY <1>3, <2>1, Zenon DEF ensureFinalizer, Enters, PassInv, EarnedInv, BackoffInv, SomethingWakes, ClearedInv
  <2>4. HoldInv'
    <3>1. cache' = cache /\ pc' = "reconcile" /\ ~cache.deleting /\ at' = 1
      BY <1>3, ZenonT(40) DEF ensureFinalizer, Enters
    <3> QED  BY <2>1, <3>1 DEF PassInv, TypeOK, CRs, HoldInv, Follows
  <2>5. LocalInv'
    BY <1>3, <1>L, <2>1 DEF ensureFinalizer, Enters, PassInv, LocalInv, LocalTo
  <2> QED  BY <2>2, <2>3, <2>4, <2>5 DEF PassInv
<1>4. CASE /\ ensureFinalizer
           /\ FailsUnless(patchFinalizers(cache = api)) /\ ReturnsEarly(TRUE) /\ UNCHANGED api
  <2>1. ApiKept  BY <1>4, SameApi
  <2>2. SomethingWakes'
    BY <1>4 DEF SomethingWakes, ReturnsEarly, Returns
  <2>3. faults' \in 0..MaxFaults
    BY <1>4, ReconcilerAssumption DEF FailsUnless, Fault, PassInv, TypeOK
  <2> QED  BY <1>4, <2>1, <2>2, <2>3, EndedInv, Zenon
             DEF ensureFinalizer, ReturnsEarly, Returns, AtRest, PassInv, TypeOK
<1> QED  BY <1>1, <1>2, <1>3, <1>4, Zenon DEF ensureFinalizer

-----------------------------------------------------------------------------
(* reconcileNormal.                                                        *)

\* The result of a pass always asks for another one, and only a failure leaves
\* failures counted (PassResult).
LEMMA PassResultFacts ==
    ASSUME TypeOK, NEW err, NEW waits \in BOOLEAN, PassResult(err, waits)
    PROVE  /\ AtRest' /\ armed' = TRUE /\ failures' \in 0..LongAfter
           /\ result' \in {"over", "early", "soon", "drift", "watched"}
           /\ result' = "over" => failures' = 0
<1>1. CASE err \in {"none", "error"}
  <2>1. failures' = 0 /\ Returns("over", TRUE)
    BY <1>1, Zenon DEF PassResult, resetTransientBackoff
  <2>2. 0 \in 0..LongAfter
    BY ReconcilerAssumption
  <2> QED  BY <2>1, <2>2 DEF Returns, AtRest
<1>2. CASE err \notin {"none", "error"}
  <2>1. CountFailure /\ Returns(retryDelay(waits), TRUE)
    BY <1>2, Zenon DEF PassResult
  <2>2. failures' \in 0..LongAfter
    BY <2>1, ReconcilerAssumption DEF CountFailure, TypeOK
  <2>3. retryDelay(waits) \in {"soon", "drift", "watched"}
    BY Zenon DEF retryDelay, transientDelay
  <2> QED  BY <2>1, <2>2, <2>3 DEF Returns, AtRest
<1> QED  BY <1>1, <1>2, Zenon

\* What a section adds to the ledger is in the operator's region or in none, and
\* the conditions are earned with it.
LEMMA SectionStatusFacts ==
    ASSUME TypeOK, LocalTo(mem), NEW s \in Range(Sections), NEW err \in Outcomes
    PROVE  LET cr == SectionStatus(s, err)
           IN  cr \in CRs /\ LocalTo(cr) /\ Earned(cr.conds)
<1> DEFINE m == IF err = "none" THEN [mem EXCEPT !.ledger[s] = arnRegion(s)] ELSE mem
           ok == IF err = "none" THEN "true" ELSE "false"
<1>1. arnRegion(s) \in {"global", here} /\ here \in Regions
  BY DEF arnRegion, TypeOK
<1>2. mem \in CRs
  BY DEF TypeOK
<1>3. m \in CRs /\ LocalTo(m)
  <2>1. CASE err = "none"
    <3>1. m = [mem EXCEPT !.ledger = [mem.ledger EXCEPT ![s] = arnRegion(s)]]
      BY <2>1, <1>2 DEF CRs
    <3>2. [mem.ledger EXCEPT ![s] = arnRegion(s)] \in [Range(Sections) -> Regions \cup {"none", "global"}]
      BY <1>1, <1>2 DEF CRs
    <3>3. \A r \in Range(Sections) : [mem.ledger EXCEPT ![s] = arnRegion(s)][r] \in {"none", "global", here}
      BY <1>1, <1>2 DEF CRs, LocalTo
    <3> QED  BY <1>2, <3>1, <3>2, <3>3 DEF CRs, LocalTo
  <2> QED  BY <1>2, <2>1
<1>4. s \in sectionTypes /\ ok \in {"true", "false"}
  BY DEF sectionTypes
<1> HIDE DEF m, ok
<1>5. LET cr == SetSectionCondition(m, s, ok)
      IN  cr \in CRs /\ SameSpec(cr, m) /\ cr.ledger = m.ledger /\ Earned(cr.conds)
  BY <1>3, <1>4, SectionConditionFacts
<1>6. SectionStatus(s, err) = SetSectionCondition(m, s, ok)
  BY DEF SectionStatus, m, ok
<1> QED  BY <1>3, <1>5, <1>6 DEF LocalTo

\* record keeps an error that is one of the pass's.
LEMMA RecordFacts ==
    ASSUME TypeOK, NEW errs \in Seq({"wait", "retry", "error"}), record(errs)
    PROVE  first' \in {"none", "wait", "retry", "error"} /\ onlyWaits' \in BOOLEAN
BY DEF TypeOK, record

\* A section and its checkpoint keep the invariant (ensureDesiredState).
LEMMA SectionKeeps ==
    ASSUME PassInv, ensureDesiredState
    PROVE  PassInv'
<1>0. Sections \in Seq(STRING) /\ Len(Sections) \in Nat
  BY ReconcilerAssumption
<1>1. /\ pc = "reconcile" /\ at \in 1..Len(Sections) /\ at' = at + 1
      /\ UNCHANGED <<cache, queued, armed, failures, here, pc, base, result>>
  BY <1>0 DEF ensureDesiredState, PassInv, TypeOK, HoldInv
<1>2. Sections[at] \in Range(Sections)
  BY <1>0, <1>1 DEF Range
<1>3. PICK err \in Outcomes : /\ SectionLeaves(Sections[at], err)
                             /\ checkpoint(SectionStatus(Sections[at], err), err)
  BY DEF ensureDesiredState
<1> DEFINE cr == SectionStatus(Sections[at], err)
<1>4. cr \in CRs /\ LocalTo(cr) /\ Earned(cr.conds)
  BY <1>1, <1>2, SectionStatusFacts DEF PassInv, LocalInv
<1>5. Errors(err) \in Seq({"wait", "retry", "error"})
  <2>1. CASE err = "none"
    BY <2>1 DEF Errors
  <2>2. CASE err # "none"
    <3>1. err \in {"wait", "retry", "error"} /\ Errors(err) = <<err>>
      BY <2>2 DEF Errors, Outcomes
    <3> QED  BY <3>1
  <2> QED  BY <2>1, <2>2
<1>6. ASSUME NEW lost \in WriteErrors
      PROVE  Errors(err) \o <<lost>> \in Seq({"wait", "retry", "error"})
  <2>1. <<lost>> \in Seq({"wait", "retry", "error"})
    BY DEF WriteErrors
  <2> QED  BY <1>5, <2>1
<1> HIDE DEF cr
<1>7. /\ ApiKept /\ SameSpec(api', api) /\ api'.ledger \in {api.ledger, cr.ledger}
      /\ mem' \in {cr, api'} /\ current' \in BOOLEAN
      /\ first' \in {"none", "wait", "retry", "error"} /\ onlyWaits' \in BOOLEAN
  <2>1. CASE /\ mem' = cr /\ record(Errors(err)) /\ UNCHANGED <<api, current>>
    BY <1>5, <2>1, SameApi, RecordFacts DEF PassInv, TypeOK, SameSpec
  <2>2. CASE /\ api' = statusPatch(base, cr) /\ mem' = api' /\ current' = TRUE /\ record(Errors(err))
    <3>1. ApiKept /\ SameSpec(api', api) /\ api'.ledger \in {api.ledger, cr.ledger}
      BY <1>4, <2>2, PatchedApi
    <3> QED  BY <1>5, <2>2, <3>1, RecordFacts, Zenon DEF PassInv
  <2>3. CASE /\ mem' = cr /\ UNCHANGED <<api, current>>
             /\ \E lost \in WriteErrors : record(Errors(err) \o <<lost>>)
    BY <1>6, <2>3, SameApi, RecordFacts, Zenon DEF PassInv, TypeOK, SameSpec
  <2> QED  BY <1>3, <2>1, <2>2, <2>3, Zenon DEF checkpoint, cr
<1>8. faults' \in 0..MaxFaults
  <2>1. \E lost \in BOOLEAN : SectionFaults(err, lost)
    BY <1>3, Zenon DEF checkpoint, PassInv, TypeOK, CRs
  <2> QED  BY <2>1, ReconcilerAssumption DEF SectionFaults, PassInv, TypeOK
<1>9. aws' \subseteq Range(Sections) \X (Regions \cup {"global"})
  <2>1. arnRegion(Sections[at]) \in Regions \cup {"global"}
    BY Zenon DEF arnRegion, PassInv, TypeOK
  <2>2. aws' \subseteq aws \cup {<<Sections[at], arnRegion(Sections[at])>>}
    BY <1>3, Zenon DEF SectionLeaves
  <2> QED  BY <1>2, <2>1, <2>2 DEF PassInv, TypeOK
<1>10. TypeOK'
  <2>1. at' \in 0..(Len(Sections) + 2)
    BY <1>0, <1>1
  <2>2. api' \in CRs /\ mem' \in CRs
    BY <1>4, <1>7, Zenon DEF ApiKept
  <2> QED  BY <1>1, <1>7, <1>8, <1>9, <2>1, <2>2 DEF PassInv, TypeOK
<1>11. EarnedInv'
  BY <1>1, <1>4, <1>7, Zenon DEF PassInv, EarnedInv, ApiKept
<1>12. HoldInv'
  BY <1>0, <1>1, <1>7 DEF PassInv, HoldInv, ApiKept, SameSpec
<1>13. LocalInv'
  BY <1>1, <1>4, <1>7, ZenonT(40) DEF PassInv, LocalInv, LocalTo
<1>14. ClearedInv' /\ BackoffInv' /\ SomethingWakes'
  BY <1>1 DEF PassInv, ClearedInv, BackoffInv, SomethingWakes
<1> QED  BY <1>10, <1>11, <1>12, <1>13, <1>14 DEF PassInv

\* The end of a pass that is not a deletion keeps the invariant (reconcileNormal).
LEMMA NormalEndKeeps ==
    ASSUME PassInv, reconcileNormal
    PROVE  PassInv'
<1>1. PICK err \in Outcomes \ {"wait"} :
        LET cr == SetSectionCondition(mem, "ConnectionInfo", IF err = "none" THEN "true" ELSE "false")
            waits == onlyWaits /\ err = "none"
        IN  \/ /\ api.there /\ api' = statusPatch(base, cr) /\ SectionFaults(err, FALSE)
               /\ PassResult(FirstOf(err), waits)
            \/ /\ SectionFaults(err, api.there) /\ UNCHANGED api
               /\ IF FirstOf(err) = "none" THEN \E lost \in WriteErrors : PassResult(lost, FALSE)
                                           ELSE PassResult(FirstOf(err), waits)
  BY Zenon DEF reconcileNormal
<1> DEFINE ok == IF err = "none" THEN "true" ELSE "false"
           cr == SetSectionCondition(mem, "ConnectionInfo", ok)
           waits == onlyWaits /\ err = "none"
<1>2. cr \in CRs /\ LocalTo(cr) /\ Earned(cr.conds)
  <2>1. "ConnectionInfo" \in sectionTypes /\ ok \in {"true", "false"}
    BY Zenon DEF sectionTypes
  <2>2. mem \in CRs /\ LocalTo(mem)
    BY DEF PassInv, TypeOK, LocalInv, reconcileNormal
  <2> HIDE DEF ok
  <2> QED  BY <2>1, <2>2, SectionConditionFacts DEF LocalTo
<1>3. waits \in BOOLEAN
  OBVIOUS
<1> HIDE DEF cr, waits
<1>4. ApiKept
  <2>1. CASE api' = statusPatch(base, cr)
    BY <1>2, <2>1, PatchedApi
  <2>2. CASE UNCHANGED api
    BY <2>2, SameApi
  <2> QED  BY <1>1, <2>1, <2>2, Zenon DEF cr
<1>5. faults' \in 0..MaxFaults
  <2>1. \E lost \in BOOLEAN : SectionFaults(err, lost)
    BY <1>1, Zenon DEF PassInv, TypeOK, CRs
  <2> QED  BY <2>1, ReconcilerAssumption DEF SectionFaults, PassInv, TypeOK
<1>6. \E e : PassResult(e, waits) \/ PassResult(e, FALSE)
  BY <1>1, Zenon DEF waits
<1>7. /\ AtRest' /\ armed' = TRUE /\ failures' \in 0..LongAfter
      /\ result' \in {"over", "early", "soon", "drift", "watched"}
      /\ result' = "over" => failures' = 0
  BY <1>3, <1>6, PassResultFacts, Zenon DEF PassInv
<1>8. SomethingWakes'
  BY <1>7, Zenon DEF SomethingWakes
<1>9. UNCHANGED <<cache, queued, here, aws>> /\ queued' \in BOOLEAN /\ armed' \in BOOLEAN
  BY <1>7 DEF reconcileNormal, PassInv, TypeOK
<1> QED  BY <1>4, <1>5, <1>7, <1>8, <1>9, EndedInv

-----------------------------------------------------------------------------
(* reconcileDelete.                                                        *)

\* What a deletion pass does with a section keeps the invariant: what leaves its
\* ledger has left AWS (finalizeDesiredState).
LEMMA FinalizeKeeps ==
    ASSUME PassInv, finalizeDesiredState
    PROVE  PassInv'
<1>0. Len(Sections) \in Nat
  BY ReconcilerAssumption
<1>1. /\ pc = "finalize" /\ at \in 1..Len(Sections) /\ at' = at + 1
      /\ UNCHANGED <<api, cache, queued, armed, failures, here, pc, base, current, result>>
  BY <1>0 DEF finalizeDesiredState, PassInv, TypeOK, HoldInv
<1> DEFINE s == finalizeOrder[at]
           ledger == [mem.ledger EXCEPT ![s] = "none"]
<1>2. s \in Range(Sections)
  BY <1>1, FinalizeOrderFacts, Zenon
<1>3. mem \in CRs /\ base \in CRs /\ mem.ledger \in [Range(Sections) -> Regions \cup {"none", "global"}]
  BY DEF PassInv, TypeOK, CRs
<1>4. \/ /\ mem' = [mem EXCEPT !.ledger = ledger] /\ aws' = aws \ {<<s, mem.ledger[s]>>}
         /\ UNCHANGED <<first, onlyWaits, faults>>
      \/ /\ Fault /\ onlyWaits' = FALSE /\ UNCHANGED <<mem, aws>>
         /\ first' \in {first, FirstOf("retry"), FirstOf("error")}
  BY <1>3 DEF finalizeDesiredState, CRs
<1>5. at' \in 0..(Len(Sections) + 2)
  BY <1>0, <1>1
<1> HIDE DEF s
<1>6. CASE /\ mem' = [mem EXCEPT !.ledger = ledger] /\ aws' = aws \ {<<s, mem.ledger[s]>>}
           /\ UNCHANGED <<first, onlyWaits, faults>>
  <2>1. /\ ledger \in [Range(Sections) -> Regions \cup {"none", "global"}]
        /\ \A r \in Range(Sections) : ledger[r] = IF r = s THEN "none" ELSE mem.ledger[r]
    BY <1>2, <1>3
  <2> HIDE DEF ledger
  <2>2. mem' \in CRs /\ mem'.ledger = ledger /\ mem'.conds = mem.conds
    BY <1>3, <1>6, <2>1 DEF CRs
  <2>3. TypeOK'
    BY <1>1, <1>5, <1>6, <2>2, Zenon DEF PassInv, TypeOK
  <2>4. EarnedInv' /\ HoldInv'
    BY <1>0, <1>1, <2>2 DEF PassInv, EarnedInv, HoldInv
  <2>5. LocalInv'
    BY <1>1, <2>1, <2>2, Zenon DEF PassInv, LocalInv, LocalTo
  <2>6. ClearedInv'
    <3>1. (mem.conds = base.conds)'
      BY <1>1, <2>2 DEF PassInv, ClearedInv
    <3>2. ASSUME NEW r \in Range(Sections)
          PROVE  \/ mem'.ledger[r] = base'.ledger[r]
                 \/ mem'.ledger[r] = "none" /\ <<r, base'.ledger[r]>> \notin aws'
      BY <1>1, <1>6, <2>1, <2>2 DEF PassInv, ClearedInv
    <3>3. ASSUME onlyWaits', NEW i \in 1..Len(Sections), i < at'
          PROVE  mem'.ledger[finalizeOrder[i]] = "none"
      <4>1. finalizeOrder[i] \in Range(Sections)
        BY FinalizeOrderFacts
      <4>2. CASE i = at
        BY <2>1, <2>2, <4>1, <4>2, Zenon DEF s
      <4>3. CASE i < at
        <5>1. mem.ledger[finalizeOrder[i]] = "none"
          BY <1>1, <1>6, <3>3, <4>3, Zenon DEF PassInv, ClearedInv
        <5> QED  BY <2>1, <2>2, <4>1, <5>1
      <4> QED  BY <1>0, <1>1, <3>3, <4>2, <4>3
    <3>4. current' /\ api'.there =>
              \/ api'.ledger = base'.ledger
              \/ \A r \in Range(Sections) : api'.ledger[r] = "none"
      BY <1>1 DEF PassInv, ClearedInv
    <3>5. at' # Len(Sections) + 2
      BY <1>0, <1>1
    <3> QED  BY <3>1, <3>2, <3>3, <3>4, <3>5, Zenon DEF ClearedInv
  <2>7. BackoffInv' /\ SomethingWakes'
    BY <1>1 DEF PassInv, BackoffInv, SomethingWakes
  <2> QED  BY <2>3, <2>4, <2>5, <2>6, <2>7 DEF PassInv
<1>7. CASE /\ Fault /\ onlyWaits' = FALSE /\ UNCHANGED <<mem, aws>>
           /\ first' \in {first, FirstOf("retry"), FirstOf("error")}
  <2>1. first' \in {"none", "wait", "retry", "error"} /\ faults' \in 0..MaxFaults
    BY <1>7, ReconcilerAssumption DEF FirstOf, Fault, PassInv, TypeOK
  <2>2. TypeOK'
    BY <1>1, <1>5, <1>7, <2>1, ZenonT(40) DEF PassInv, TypeOK
  <2>3. EarnedInv' /\ HoldInv' /\ LocalInv'
    BY <1>0, <1>1, <1>7 DEF PassInv, EarnedInv, HoldInv, LocalInv, LocalTo
  <2>4. ClearedInv'
    <3>1. at' # Len(Sections) + 2
      BY <1>0, <1>1
    <3> QED  BY <1>1, <1>7, <3>1, Zenon DEF PassInv, ClearedInv
  <2>5. BackoffInv' /\ SomethingWakes'
    BY <1>1 DEF PassInv, BackoffInv, SomethingWakes
  <2> QED  BY <2>2, <2>3, <2>4, <2>5 DEF PassInv
<1> QED  BY <1>4, <1>6, <1>7, Zenon

\* Once every section is done, the pass's ledger names nothing.
LEMMA AllDoneFacts ==
    ASSUME PassInv, pc = "finalize", at > Len(Sections), AllDone
    PROVE  \A s \in Range(Sections) : mem.ledger[s] = "none" /\ <<s, base.ledger[s]>> \notin aws
<1> SUFFICES ASSUME NEW s \in Range(Sections)
             PROVE  mem.ledger[s] = "none" /\ <<s, base.ledger[s]>> \notin aws
  OBVIOUS
<1>1. PICK i \in 1..Len(Sections) : finalizeOrder[i] = s
  BY FinalizeOrderFacts
<1>2. i < at
  BY ReconcilerAssumption DEF PassInv, TypeOK
<1>3. mem.ledger[s] = "none"
  BY <1>1, <1>2 DEF AllDone, PassInv, ClearedInv
<1>4. <<s, "none">> \notin aws
  BY ReconcilerAssumption DEF PassInv, TypeOK
<1> QED  BY <1>3, <1>4 DEF PassInv, ClearedInv

\* The status write of a deletion pass keeps the invariant (reconcileDelete).
LEMMA DeleteStatusKeeps ==
    ASSUME PassInv, reconcileDelete
    PROVE  PassInv'
<1> DEFINE cr == IF ~AllDone /\ first = "none" THEN SetDeletionBlocked(mem) ELSE mem
           same == Status(cr) = Status(base)
<1>0. Len(Sections) \in Nat
  BY ReconcilerAssumption
<1>1. /\ pc = "finalize" /\ at = Len(Sections) + 1
      /\ UNCHANGED <<cache, queued, here, aws>>
  BY DEF reconcileDelete
<1>2. PICK wrote \in BOOLEAN :
        /\ wrote => ~same
        /\ IF wrote THEN api.there /\ api' = statusPatch(base, cr) ELSE UNCHANGED api
        /\ IF wrote \/ same THEN UNCHANGED faults ELSE FailsUnless(api.there)
        /\ IF AllDone
           THEN /\ at' = at + 1 /\ current' = (current \/ wrote)
                /\ UNCHANGED <<armed, failures, pc, mem, base, first, onlyWaits, result>>
           ELSE \E lost \in WriteErrors :
                   PassResult(IF first = "none" /\ ~wrote /\ ~same THEN lost ELSE first, FALSE)
  BY ZenonT(40) DEF reconcileDelete
<1>3. cr \in CRs /\ LocalTo(cr) /\ Earned(cr.conds)
  <2>1. mem \in CRs /\ LocalTo(mem) /\ Earned(mem.conds)
    BY <1>1 DEF PassInv, TypeOK, LocalInv, EarnedInv
  <2> QED  BY <2>1, DeletionBlockedFacts, Zenon DEF LocalTo
<1>4. AllDone => cr = mem
  OBVIOUS
<1> HIDE DEF cr
<1>5. ApiKept /\ SameSpec(api', api) /\ api'.ledger \in {api.ledger, cr.ledger}
  <2>1. CASE wrote
    BY <1>2, <1>3, <2>1, PatchedApi, Zenon
  <2>2. CASE ~wrote
    BY <1>2, <2>2, SameApi, Zenon DEF SameSpec
  <2> QED  BY <2>1, <2>2, Zenon
<1>6. faults' \in 0..MaxFaults
  BY <1>2, ReconcilerAssumption DEF FailsUnless, Fault, PassInv, TypeOK
<1>7. CASE AllDone
  <2>0. /\ at' = at + 1 /\ current' = (current \/ wrote)
        /\ UNCHANGED <<armed, failures, pc, mem, base, first, onlyWaits, result>>
    BY <1>2, <1>7, Zenon
  <2>1. TypeOK'
    <3>0. current' \in BOOLEAN
      BY <2>0, Zenon
    <3>1. at' \in 0..(Len(Sections) + 2) /\ current' \in BOOLEAN
      BY <1>0, <1>1, <2>0, <3>0
    <3>2. api' \in CRs
      BY <1>5, SMTT(30) DEF ApiKept
    <3> QED  BY <1>1, <1>2, <1>6, <1>7, <3>1, <3>2, Zenon DEF PassInv, TypeOK
  <2>2. EarnedInv' /\ HoldInv'
    <3>1. UNCHANGED <<cache, mem, base, pc>> /\ at' > 0
      BY <1>0, <1>1, <2>0
    <3>2. EarnedInv'
      BY <1>5, <3>1, SMTT(30) DEF PassInv, EarnedInv, ApiKept
    <3> QED  BY <1>1, <1>5, <3>1, <3>2, Zenon DEF PassInv, HoldInv, ApiKept, SameSpec
  <2>3. LocalInv'
    BY <1>1, <1>2, <1>3, <1>5, <1>7, ZenonT(40) DEF PassInv, LocalInv, LocalTo
  <2>4. ClearedInv'
    <3>1. \A s \in Range(Sections) : mem.ledger[s] = "none" /\ <<s, base.ledger[s]>> \notin aws
      BY <1>0, <1>1, <1>7, AllDoneFacts
    <3>2. UNCHANGED <<mem, base, aws, onlyWaits>> /\ mem.conds = base.conds /\ onlyWaits
      BY <1>1, <1>2, <1>7, Zenon DEF PassInv, ClearedInv, AllDone
    <3>3. ASSUME current', api'.there
          PROVE  \/ api'.ledger = base'.ledger
                 \/ \A s \in Range(Sections) : api'.ledger[s] = "none"
      <4>1. CASE wrote
        <5>1. mem.ledger # base.ledger
          BY <1>2, <1>4, <1>7, <3>2, <4>1, Zenon DEF Status
        <5>2. api'.ledger = mem.ledger
          BY <1>2, <1>3, <1>4, <1>7, <4>1, <5>1, StatusPatchFacts DEF PassInv, TypeOK
        <5> QED  BY <3>1, <5>2, ZenonT(40)
      <4>2. CASE ~wrote
        BY <1>1, <1>2, <1>7, <3>2, <3>3, <4>2, Zenon DEF PassInv, ClearedInv
      <4> QED  BY <4>1, <4>2
    <3> QED  BY <3>1, <3>2, <3>3, FinalizeOrderFacts, Zenon DEF ClearedInv
  <2>5. BackoffInv' /\ SomethingWakes'
    BY <1>1, <1>2, <1>7, Zenon DEF PassInv, BackoffInv, SomethingWakes
  <2> QED  BY <2>1, <2>2, <2>3, <2>4, <2>5, Zenon DEF PassInv
<1>8. CASE ~AllDone
  <2>1. \E err : PassResult(err, FALSE)
    BY <1>2, <1>8, Zenon
  <2>2. /\ AtRest' /\ armed' = TRUE /\ failures' \in 0..LongAfter
        /\ result' \in {"over", "early", "soon", "drift", "watched"}
        /\ result' = "over" => failures' = 0
    BY <2>1, PassResultFacts, Zenon DEF PassInv
  <2>3. SomethingWakes' /\ queued' \in BOOLEAN /\ armed' \in BOOLEAN
    BY <1>1, <2>2 DEF SomethingWakes, PassInv, TypeOK
  <2> QED  BY <1>1, <1>5, <1>6, <2>2, <2>3, EndedInv, Zenon
<1> QED  BY <1>7, <1>8, Zenon

\* Removing the finalizer keeps the invariant: the CR is in deletion and goes with
\* it, or the pass comes again (removeFinalizer).
LEMMA RemoveFinalizerKeeps ==
    ASSUME PassInv, removeFinalizer
    PROVE  PassInv'
<1>1. pc = "finalize" /\ failures' = 0 /\ UNCHANGED <<cache, queued, here, aws>>
  BY DEF removeFinalizer, resetTransientBackoff
<1>2. 0 \in 0..LongAfter
  BY ReconcilerAssumption
<1>3. CASE patchFinalizers(current) /\ api' = Released(api) /\ Returns("over", FALSE) /\ UNCHANGED faults
  <2>1. api' = NoCR /\ (cache.there => cache.deleting)
    BY <1>1, <1>3, Zenon DEF patchFinalizers, Released, PassInv, HoldInv
  <2>2. ApiKept
    BY <2>1, NewCRFacts, Zenon DEF ApiKept, Follows
  <2>3. SomethingWakes'
    BY <2>1, NewCRFacts, SMTT(30) DEF SomethingWakes
  <2> QED  BY <1>1, <1>2, <1>3, <2>2, <2>3, EndedInv, Zenon DEF Returns, AtRest, PassInv, TypeOK
<1>4. CASE FailsUnless(patchFinalizers(current)) /\ Returns("over", TRUE) /\ UNCHANGED api
  <2>1. ApiKept  BY <1>4, SameApi
  <2>2. SomethingWakes'
    BY <1>4, Zenon DEF SomethingWakes, Returns
  <2>3. faults' \in 0..MaxFaults
    BY <1>4, ReconcilerAssumption DEF FailsUnless, Fault, PassInv, TypeOK
  <2> QED  BY <1>1, <1>2, <1>4, <2>1, <2>2, <2>3, EndedInv, Zenon DEF Returns, AtRest, PassInv, TypeOK
<1> QED  BY <1>3, <1>4, Zenon DEF removeFinalizer

-----------------------------------------------------------------------------
(* The manager and the people.                                             *)

\* The watch and a restart keep the invariant.
LEMMA ManagerKeeps ==
    ASSUME PassInv, Deliver \/ Restart
    PROVE  PassInv'
<1>1. Follows(api, api)
  BY DEF Follows, PassInv, TypeOK, CRs
<1>2. CASE Deliver
  <2>0. /\ cache' = api /\ queued' = (queued \/ AppDependenciesPredicate(cache, api))
        /\ UNCHANGED <<api, armed, failures, here, pc, at, mem, base, current, first, onlyWaits,
                       result, aws, faults>>
    BY <1>2, Zenon DEF Deliver
  <2>1. TypeOK'
    <3>1. queued' \in BOOLEAN
      BY <2>0, SMTT(30) DEF PassInv, TypeOK, AppDependenciesPredicate
    <3> QED  BY <2>0, <3>1, Zenon DEF PassInv, TypeOK
  <2>2. EarnedInv' /\ BackoffInv' /\ ClearedInv'
    BY <2>0, Zenon DEF PassInv, EarnedInv, BackoffInv, ClearedInv
  <2>3. HoldInv'
    BY <1>1, <2>0, Zenon DEF PassInv, HoldInv
  <2>4. LocalInv'
    BY <2>0 DEF PassInv, LocalInv, LocalTo
  <2>5. SomethingWakes'
    BY <2>0, Zenon DEF PassInv, SomethingWakes
  <2> QED  BY <2>1, <2>2, <2>3, <2>4, <2>5, Zenon DEF PassInv
<1>3. CASE Restart
  <2>0. /\ cache' = api /\ queued' = TRUE /\ armed' = FALSE /\ failures' = 0 /\ here' \in Regions
        /\ AtRest' /\ result' = "early" /\ UNCHANGED <<api, aws>>
    BY <1>3 DEF Restart, AtRest
  <2>1. TypeOK'
    <3>1. faults' \in 0..MaxFaults
      BY <1>3, ReconcilerAssumption DEF Restart, Fault, PassInv, TypeOK
    <3>2. 0 \in 0..LongAfter /\ 0 \in 0..(Len(Sections) + 2)
      BY ReconcilerAssumption
    <3>3. mem' \in CRs /\ base' \in CRs
      BY <2>0, NewCRFacts, Zenon DEF AtRest
    <3> QED  BY <2>0, <3>1, <3>2, <3>3, ZenonT(40) DEF AtRest, PassInv, TypeOK
  <2>2. EarnedInv' /\ BackoffInv' /\ ClearedInv' /\ SomethingWakes'
    BY <2>0, NewCRFacts, Zenon DEF AtRest, PassInv, EarnedInv, BackoffInv, ClearedInv, SomethingWakes
  <2>3. HoldInv' /\ LocalInv'
    BY <1>1, <2>0 DEF AtRest, HoldInv, LocalInv, LocalTo
  <2> QED  BY <2>1, <2>2, <2>3, Zenon DEF PassInv
<1> QED  BY <1>2, <1>3, Zenon

\* What people write keeps the invariant when it follows the CR that was there,
\* and a pass that is running can go on.
LEMMA WritesKeeps ==
    ASSUME PassInv, NEW cr \in CRs, Writes(cr), Earned(cr.conds), Follows(cache, cr),
           LocalTo(api) => LocalTo(cr),
           pc = "reconcile" => cr.there /\ cr.finalizer,
           pc = "finalize" => (cr.there => cr.deleting),
           SomethingWakes'
    PROVE  PassInv'
<1>0. /\ api' = cr /\ current' = FALSE
      /\ UNCHANGED <<cache, queued, armed, failures, here, pc, at, mem, base, first, onlyWaits,
                     result, aws, faults>>
  BY DEF Writes
<1>1. TypeOK'
  BY <1>0, Zenon DEF PassInv, TypeOK
<1>2. EarnedInv' /\ BackoffInv'
  BY <1>0, Zenon DEF PassInv, EarnedInv, BackoffInv
<1>3. HoldInv'
  BY <1>0, Zenon DEF PassInv, HoldInv
<1>4. LocalInv'
  BY <1>0, ZenonT(40) DEF PassInv, LocalInv, LocalTo
<1>5. ClearedInv'
  BY <1>0, Zenon DEF PassInv, ClearedInv
<1> QED  BY <1>1, <1>2, <1>3, <1>4, <1>5, Zenon DEF PassInv

\* An edit, a deletion and an annotation keep the invariant.
LEMMA PeopleKeep ==
    ASSUME PassInv, EditSpec \/ DeleteCR \/ Annotate
    PROVE  PassInv'
<1>0. /\ api \in CRs /\ cache \in CRs /\ MaxGeneration \in Nat /\ Earned(api.conds)
      /\ Follows(cache, api)
  BY ReconcilerAssumption, SMTT(30) DEF PassInv, TypeOK, EarnedInv, HoldInv
<1>1. CASE EditSpec
  <2>1. PICK legacy \in {FALSE, api.legacy} : Writes([api EXCEPT !.gen = @ + 1, !.legacy = legacy])
    BY <1>1, Zenon DEF EditSpec
  <2> DEFINE cr == [api EXCEPT !.gen = @ + 1, !.legacy = legacy]
  <2>2. api.there /\ ~api.deleting /\ api.gen < MaxGeneration
    BY <1>1, <2>1 DEF EditSpec, Writes
  <2>3. /\ cr \in CRs /\ cr.gen = api.gen + 1 /\ cr.there /\ ~cr.deleting
        /\ cr.finalizer = api.finalizer /\ cr.conds = api.conds /\ cr.ledger = api.ledger
    <3>0. legacy \in BOOLEAN
      BY <1>0, ZenonT(40) DEF CRs
    <3>1. api.gen + 1 \in 0..MaxGeneration
      BY <1>0, <2>2 DEF CRs
    <3>2. cr = [api EXCEPT !.gen = api.gen + 1, !.legacy = legacy]
      OBVIOUS
    <3> HIDE DEF cr
    <3> QED  BY <1>0, <2>2, <3>0, <3>1, <3>2, Zenon DEF CRs
  <2>4. Writes(cr)  BY <2>1, Zenon
  <2> HIDE DEF cr
  <2>5. cache.there => cache.gen # cr.gen
    BY <1>0, <2>2, <2>3 DEF Follows, CRs
  <2>6. Follows(cache, cr)
    BY <1>0, <2>2, <2>3 DEF Follows, CRs
  <2>7. SomethingWakes'
    BY <2>3, <2>4, <2>5, Zenon DEF Writes, SomethingWakes, AppDependenciesPredicate
  <2>8. pc # "finalize" /\ (pc = "reconcile" => cr.finalizer)
    BY <2>2, <2>3 DEF PassInv, HoldInv
  <2> QED  BY <1>0, <2>3, <2>4, <2>6, <2>7, <2>8, WritesKeeps, Zenon DEF LocalTo
<1>2. CASE DeleteCR
  <2> DEFINE cr == [api EXCEPT !.deleting = TRUE, !.gen = @ + 1]
  <2>1. ~api.deleting /\ api.gen < MaxGeneration /\ (Writes(cr) \/ (~api.finalizer /\ Writes(NoCR)))
    BY <1>2 DEF DeleteCR
  <2>2. api.there
    BY <2>1 DEF Writes
  <2>3. /\ cr \in CRs /\ cr.gen = api.gen + 1 /\ cr.there /\ cr.deleting
        /\ cr.finalizer = api.finalizer /\ cr.conds = api.conds /\ cr.ledger = api.ledger
    <3>1. api.gen + 1 \in 0..MaxGeneration
      BY <1>0, <2>1 DEF CRs
    <3>2. cr = [api EXCEPT !.deleting = TRUE, !.gen = api.gen + 1]
      OBVIOUS
    <3> HIDE DEF cr
    <3> QED  BY <1>0, <2>2, <3>1, <3>2, Zenon DEF CRs
  <2> HIDE DEF cr
  <2>4. CASE Writes(cr)
    <3>0. api.gen \in Nat /\ cache.gen \in Nat
      BY <1>0 DEF CRs
    <3>1. Follows(cache, cr) /\ (cache.there => cache.gen # cr.gen)
      <4>1. ASSUME cache.there
            PROVE  cache.gen <= api.gen /\ (cache.finalizer => api.finalizer) /\ ~cache.deleting
        BY <1>0, <2>1, <2>2, <4>1, Zenon DEF Follows
      <4>2. ASSUME cache.there
            PROVE  cache.gen <= cr.gen /\ cache.gen # cr.gen
        BY <2>3, <3>0, <4>1, <4>2
      <4> QED  BY <2>3, <4>1, <4>2, Zenon DEF Follows
    <3>2. SomethingWakes'
      BY <2>3, <2>4, <3>1, Zenon DEF Writes, SomethingWakes, AppDependenciesPredicate
    <3>3. pc = "reconcile" => cr.finalizer
      BY <2>3, Zenon DEF PassInv, HoldInv
    <3> QED  BY <1>0, <2>3, <2>4, <3>1, <3>2, <3>3, WritesKeeps, ZenonT(40) DEF LocalTo
  <2>5. CASE ~api.finalizer /\ Writes(NoCR)
    <3>1. Follows(cache, NoCR)
      BY <1>0, <2>2, <2>5, NewCRFacts, ZenonT(40) DEF Follows
    <3>2. SomethingWakes'
      BY <2>5, NewCRFacts DEF Writes, SomethingWakes
    <3>3. pc # "reconcile"
      BY <2>5, Zenon DEF PassInv, HoldInv
    <3> QED  BY <2>5, <3>1, <3>2, <3>3, NewCRFacts, WritesKeeps, ZenonT(40) DEF LocalTo
  <2> QED  BY <2>1, <2>4, <2>5
<1>3. CASE Annotate
  <2>1. PICK note \in {"force", "abandon"} : Writes([api EXCEPT !.note = note])
    BY <1>3 DEF Annotate
  <2> DEFINE cr == [api EXCEPT !.note = note]
  <2>2. api.there /\ api.deleting /\ api.note = "none"
    BY <1>3, <2>1 DEF Annotate, Writes
  <2>3. /\ cr \in CRs /\ cr.gen = api.gen /\ cr.there /\ cr.deleting /\ cr.legacy = api.legacy
        /\ cr.finalizer = api.finalizer /\ cr.conds = api.conds /\ cr.ledger = api.ledger
    BY <1>0, <2>2 DEF CRs
  <2>4. Writes(cr)  BY <2>1
  <2> HIDE DEF cr
  <2>5. Follows(cache, cr)
    BY <1>0, <2>2, <2>3, Zenon DEF Follows
  <2>6. SomethingWakes'
    BY <2>2, <2>3, <2>4, Zenon DEF PassInv, Writes, SomethingWakes, AppDependenciesPredicate
  <2>7. pc # "reconcile" \/ cr.finalizer
    BY <2>3 DEF PassInv, HoldInv
  <2> QED  BY <1>0, <2>3, <2>4, <2>5, <2>6, <2>7, WritesKeeps DEF LocalTo
<1> QED  BY <1>1, <1>2, <1>3, Zenon

-----------------------------------------------------------------------------
(* The invariant is inductive.                                            *)

\* A CR that was just created, and a manager that has just started.
LEMMA PassInit == Init => PassInv
<1> SUFFICES ASSUME Init PROVE PassInv
  OBVIOUS
<1>1. PICK legacy \in BOOLEAN : api = [NewCR EXCEPT !.legacy = legacy]
  BY DEF Init
<1>2. /\ api \in CRs /\ api.there /\ api.conds = NewCR.conds /\ api.ledger = NewCR.ledger
  BY <1>1, NewCRFacts DEF CRs
<1>3. /\ cache = NoCR /\ queued = FALSE /\ armed = FALSE /\ failures = 0 /\ here = Home
      /\ AtRest /\ result = "early" /\ aws = {} /\ faults = 0
  BY DEF Init, AtRest
<1>4. TypeOK
  <2>1. 0 \in 0..(Len(Sections) + 2) /\ 0 \in 0..LongAfter /\ 0 \in 0..MaxFaults /\ Home \in Regions
    BY ReconcilerAssumption
  <2> QED  BY <1>2, <1>3, <2>1, NewCRFacts, ZenonT(40) DEF AtRest, TypeOK
<1>5. EarnedInv
  BY <1>2, <1>3, NewCRFacts, ZenonT(40) DEF AtRest, EarnedInv
<1>6. HoldInv /\ LocalInv
  BY <1>2, <1>3, NewCRFacts DEF AtRest, HoldInv, Follows, LocalInv, LocalTo
<1>7. ClearedInv /\ BackoffInv /\ SomethingWakes
  BY <1>2, <1>3, NewCRFacts, Zenon DEF AtRest, ClearedInv, BackoffInv, SomethingWakes, AppDependenciesPredicate
<1> QED  BY <1>4, <1>5, <1>6, <1>7 DEF PassInv

\* Every step of a pass, of the manager and of the people keeps the invariant.
LEMMA PassStep == PassInv /\ Next => PassInv'
BY EarlyKeeps, EntersKeeps, SectionKeeps, NormalEndKeeps, FinalizeKeeps, DeleteStatusKeeps,
   RemoveFinalizerKeeps, ManagerKeeps, PeopleKeep, ZenonT(40) DEF Next, Pass

\* A step that is none of a pass, the manager's or the people's.
LEMMA PassStutters == PassInv /\ UNCHANGED vars => PassInv'
<1> SUFFICES ASSUME PassInv, UNCHANGED vars PROVE PassInv'
  OBVIOUS
<1>1. TypeOK'
  BY Zenon DEF vars, PassInv, TypeOK
<1>2. EarnedInv' /\ HoldInv' /\ BackoffInv' /\ SomethingWakes'
  BY Zenon DEF vars, PassInv, EarnedInv, HoldInv, BackoffInv, SomethingWakes
<1>3. LocalInv'
  BY Zenon DEF vars, PassInv, LocalInv, LocalTo
<1>4. ClearedInv'
  BY Zenon DEF vars, PassInv, ClearedInv
<1> QED  BY <1>1, <1>2, <1>3, <1>4 DEF PassInv

-----------------------------------------------------------------------------
(* The action properties.                                                  *)

\* Only a section of a pass touches AWS.
LEMMA OnlySectionsChangeAws ==
    ASSUME Next, aws' # aws
    PROVE  ensureDesiredState \/ finalizeDesiredState
<1>1. ~(NotFound \/ refuseLegacyKMSKeyRef \/ refuseOtherRegion \/ abandonOtherRegion \/ LeftAlone)
  BY Zenon DEF NotFound, refuseLegacyKMSKeyRef, refuseOtherRegion, abandonOtherRegion, LeftAlone
<1>2. ~(ensureFinalizer \/ StartFinalize \/ reconcileNormal)
  BY Zenon DEF ensureFinalizer, StartFinalize, reconcileNormal
<1>3. ~(reconcileDelete \/ removeFinalizer \/ Deliver \/ Restart)
  BY Zenon DEF reconcileDelete, removeFinalizer, Deliver, Restart
<1>4. ~(EditSpec \/ DeleteCR \/ Annotate)
  BY DEF EditSpec, DeleteCR, Annotate, Writes
<1> QED  BY <1>1, <1>2, <1>3, <1>4 DEF Next, Pass

\* Only a release of the finalizer and a person take the CR away.
LEMMA OnlyReleaseRemovesCR ==
    ASSUME PassInv, Next, api.there, ~api'.there
    PROVE  abandonOtherRegion \/ removeFinalizer \/ DeleteCR
<1>0. \A original, cr : statusPatch(original, cr).there = api.there
  BY Zenon DEF statusPatch, PassInv, TypeOK, CRs
<1>1. ~(NotFound \/ LeftAlone \/ StartFinalize \/ finalizeDesiredState \/ Deliver \/ Restart)
  BY Zenon DEF NotFound, LeftAlone, StartFinalize, finalizeDesiredState, Deliver, Restart
<1>2. ~(refuseLegacyKMSKeyRef \/ refuseOtherRegion)
  BY <1>0, Zenon DEF refuseLegacyKMSKeyRef, refuseOtherRegion, RefusedWith
<1>3. ~ensureFinalizer
  <2>1. [api EXCEPT !.finalizer = TRUE].there
    BY DEF PassInv, TypeOK, CRs
  <2> QED  BY <2>1, Zenon DEF ensureFinalizer
<1>4. ~ensureDesiredState
  BY <1>0, Zenon DEF ensureDesiredState, checkpoint
<1>5. ~reconcileNormal
  BY <1>0, Zenon DEF reconcileNormal
<1>6. ~reconcileDelete
  BY <1>0, Zenon DEF reconcileDelete
<1>7. ~EditSpec
  <2>1. \A legacy : [api EXCEPT !.gen = @ + 1, !.legacy = legacy].there
    BY DEF PassInv, TypeOK, CRs
  <2> QED  BY <2>1, Zenon DEF EditSpec, Writes
<1>8. ~Annotate
  <2>1. \A note : [api EXCEPT !.note = note].there
    BY DEF PassInv, TypeOK, CRs
  <2> QED  BY <2>1, Zenon DEF Annotate, Writes
<1> QED  BY <1>1, <1>2, <1>3, <1>4, <1>5, <1>6, <1>7, <1>8 DEF Next, Pass

\* The finalizer is there before anything is created, and comes off when nothing
\* the ledger names is left, or when what is left is abandoned.
LEMMA HoldsStep ==
    ASSUME PassInv, Next
    PROVE  /\ ~(aws' \subseteq aws) => api.there /\ api.finalizer
           /\ api.there /\ api.finalizer /\ ~api'.there =>
                 \/ \A s \in Range(Sections) : <<s, api.ledger[s]>> \notin aws
                 \/ api.note = "abandon" /\ Elsewhere
<1>1. ASSUME ~(aws' \subseteq aws)
      PROVE  api.there /\ api.finalizer
  <2>1. ~finalizeDesiredState
    BY <1>1 DEF finalizeDesiredState
  <2>2. ensureDesiredState
    BY <1>1, <2>1, OnlySectionsChangeAws
  <2> QED  BY <2>2 DEF ensureDesiredState, PassInv, HoldInv
<1>2. ASSUME api.there, api.finalizer, ~api'.there
      PROVE  \/ \A s \in Range(Sections) : <<s, api.ledger[s]>> \notin aws
             \/ api.note = "abandon" /\ Elsewhere
  <2>1. CASE abandonOtherRegion
    <3>1. cache = api /\ cache.note = "abandon" /\ hasResourceInOtherRegion(cache)
      BY <1>2, <2>1, Zenon DEF abandonOtherRegion, patchFinalizers
    <3> QED  BY <3>1 DEF hasResourceInOtherRegion, InOtherRegion, Elsewhere, PassInv, TypeOK, CRs
  <2>2. CASE removeFinalizer
    <3>0. pc = "finalize" /\ at = Len(Sections) + 2 /\ current
      BY <1>2, <2>2, Zenon DEF removeFinalizer, patchFinalizers
    <3>1. pc = "finalize" /\ at > Len(Sections) /\ current
      BY <3>0, ReconcilerAssumption
    <3>2. onlyWaits
      BY <3>0 DEF PassInv, ClearedInv
    <3>3. \A s \in Range(Sections) : <<s, base.ledger[s]>> \notin aws
      BY <3>1, <3>2, AllDoneFacts, Zenon DEF AllDone
    <3>4. \A s \in Range(Sections) : <<s, "none">> \notin aws
      BY ReconcilerAssumption DEF PassInv, TypeOK
    <3> QED  BY <1>2, <3>1, <3>3, <3>4 DEF PassInv, ClearedInv
  <2>3. CASE DeleteCR
    <3>1. [api EXCEPT !.deleting = TRUE, !.gen = @ + 1].there
      BY <1>2, Zenon DEF PassInv, TypeOK, CRs
    <3> QED  BY <1>2, <2>3, <3>1, Zenon DEF DeleteCR, Writes
  <2> QED  BY <1>2, <2>1, <2>2, <2>3, OnlyReleaseRemovesCR, Zenon
<1> QED  BY <1>1, <1>2

\* A pass that works is in the region of what the ledger names.
LEMMA RegionStep ==
    ASSUME PassInv, Next
    PROVE  aws' # aws => ~Elsewhere
<1>1. ASSUME aws' # aws
      PROVE  pc # "idle"
  BY <1>1, OnlySectionsChangeAws, Zenon DEF ensureDesiredState, finalizeDesiredState
<1> QED  BY <1>1, ReconcilerAssumption DEF PassInv, LocalInv, LocalTo, Elsewhere

\* The first failure after a pass that ended otherwise counts from nothing.
LEMMA RetryStep ==
    ASSUME PassInv, Next
    PROVE  result = "over" => result' # "drift"
<1> SUFFICES ASSUME result = "over" PROVE result' # "drift"
  OBVIOUS
<1>1. transientDelay = "soon"
  BY ReconcilerAssumption DEF PassInv, BackoffInv, transientDelay
<1>2. ASSUME NEW err, NEW waits, PassResult(err, waits) PROVE result' # "drift"
  BY <1>1, <1>2, Zenon DEF PassResult, Returns, retryDelay
<1>3. CASE NotFound \/ refuseLegacyKMSKeyRef \/ refuseOtherRegion
  BY <1>3, Zenon DEF NotFound, refuseLegacyKMSKeyRef, refuseOtherRegion, RefusedWith, ReturnsEarly, Returns
<1>4. CASE abandonOtherRegion \/ LeftAlone
  BY <1>4 DEF abandonOtherRegion, LeftAlone, ReturnsEarly, Returns
<1>5. CASE ensureFinalizer \/ StartFinalize
  BY <1>5 DEF ensureFinalizer, StartFinalize, Enters, ReturnsEarly, Returns
<1>6. CASE ensureDesiredState \/ finalizeDesiredState
  BY <1>6 DEF ensureDesiredState, finalizeDesiredState
<1>7. CASE reconcileNormal
  BY <1>2, <1>7, Zenon DEF reconcileNormal
<1>8. CASE reconcileDelete
  BY <1>2, <1>8, Zenon DEF reconcileDelete
<1>9. CASE removeFinalizer \/ Deliver \/ Restart
  BY <1>9 DEF removeFinalizer, Returns, Deliver, Restart
<1>10. CASE EditSpec \/ DeleteCR \/ Annotate
  BY <1>10 DEF EditSpec, DeleteCR, Annotate, Writes
<1> QED  BY <1>3, <1>4, <1>5, <1>6, <1>7, <1>8, <1>9, <1>10 DEF Next, Pass

-----------------------------------------------------------------------------
(* The inductive invariant of the watches.                                 *)

\* Unless it is about to be woken, the subject's last pass found what the cache
\* says now.
SeenInv ==
    ~woken /\ cached[subject].there => seen = Wakeups!Inputs(subject, cached, cachedGrant)

\* One object per CR.
CrMap(os) == os = [x \in Crs |-> os[x]] /\ \A x \in Crs : os[x] \in Wakeups!Objects(x)

WatchInv == CrMap(objects) /\ CrMap(cached) /\ subject \in Crs /\ SeenInv

-----------------------------------------------------------------------------
(* The watches.                                                            *)

\* CR y, that x depends on, is in os and in ns what a pass of x takes it for.
SameFor(x, y, os, ns) ==
    /\ y \in Wakeups!indexConsumesFrom(os[x]) =>
          /\ os[y].there = ns[y].there /\ os[y].arn = ns[y].arn
          /\ os[y].spec.shares = ns[y].spec.shares
    /\ y \in os[x].spec.shares =>
          /\ Wakeups!Live(os[y]) /\ x \in os[y].spec.rds <=> Wakeups!Live(ns[y]) /\ x \in ns[y].spec.rds
          /\ os[y].pod = ns[y].pod
          /\ Wakeups!Live(os[y]) /\ x \in os[y].spec.alarm <=> Wakeups!Live(ns[y]) /\ x \in ns[y].spec.alarm

\* The subject's own spec and deletion.
OwnSame(o, n) == o.there = n.there /\ o.deleting = n.deleting /\ o.spec = n.spec

\* A pass of x finds the same where its own CR and the CRs it depends on are the
\* same for it.
LEMMA SameInputs ==
    ASSUME NEW x, NEW os, NEW ns, NEW g,
           OwnSame(os[x], ns[x]),
           \A y \in (Wakeups!indexConsumesFrom(os[x]) \cup os[x].spec.shares) \ {x} : SameFor(x, y, os, ns)
    PROVE  Wakeups!Inputs(x, os, g) = Wakeups!Inputs(x, ns, g)
<1> DEFINE P(cs) == {y \in Wakeups!indexConsumesFrom(cs[x]) \ {x} : cs[y].there}
           Q(cs) == {y \in cs[x].spec.shares \ {x} : Wakeups!Live(cs[y]) /\ x \in cs[y].spec.rds}
<1>0. Wakeups!indexConsumesFrom(os[x]) = Wakeups!indexConsumesFrom(ns[x]) /\ os[x].spec = ns[x].spec
  BY Zenon DEF OwnSame, Wakeups!indexConsumesFrom
<1>1. P(os) = P(ns) /\ \A y \in P(os) : os[y].arn = ns[y].arn /\ os[y].spec.shares = ns[y].spec.shares
  BY <1>0, Zenon DEF SameFor
<1>2. {<<y, os[y].arn, x \in os[y].spec.shares>> : y \in P(os)}
        = {<<y, ns[y].arn, x \in ns[y].spec.shares>> : y \in P(ns)}
  <2> HIDE DEF P
  <2> QED  BY <1>1, Zenon
<1>3. Q(os) = Q(ns) /\ \A y \in Q(os) : os[y].pod = ns[y].pod
  BY <1>0, Zenon DEF SameFor
<1>4. {<<y, os[y].pod>> : y \in Q(os)} = {<<y, ns[y].pod>> : y \in Q(ns)}
  <2> HIDE DEF Q
  <2> QED  BY <1>3, Zenon
<1>5. {y \in os[x].spec.shares \ {x} : Wakeups!Live(os[y]) /\ x \in os[y].spec.alarm}
      = {y \in ns[x].spec.shares \ {x} : Wakeups!Live(ns[y]) /\ x \in ns[y].spec.alarm}
  BY <1>0, Zenon DEF SameFor
<1> QED  BY <1>0, <1>2, <1>4, <1>5, Zenon DEF Wakeups!Inputs, OwnSame

\* What is not heard of CR y by the subject, while the cache has the subject, makes
\* no difference to it (the predicates, the map functions and their indexes).
LEMMA Unheard ==
    ASSUME NEW x \in Crs, NEW y \in Crs \ {x}, NEW os, NEW ns, NEW cs,
           cs[x].there, cs[x] = os[x],
           x \notin Wakeups!SetupWithManager(y, os[y], ns[y], cs)
    PROVE  SameFor(x, y, os, ns)
<1>1. ASSUME y \in Wakeups!indexConsumesFrom(os[x])
      PROVE  ~Wakeups!ProducerChangedPredicate(os[y], ns[y])
  <2>1. x \in Wakeups!ProducerToConsumers(y, cs)
    BY <1>1, Zenon DEF Wakeups!ProducerToConsumers, Wakeups!InCache
  <2> QED  BY <2>1, Zenon DEF Wakeups!SetupWithManager
<1>2. ASSUME y \in os[x].spec.shares
      PROVE  ~Wakeups!PodNetworkIdentityPublishedPredicate(os[y], ns[y])
  <2>1. x \in Wakeups!ConsumerPodIdentityToRDSProducers(y, cs)
    BY <1>2, Zenon DEF Wakeups!ConsumerPodIdentityToRDSProducers, Wakeups!InCache, Wakeups!indexRDSSharedWith
  <2> QED  BY <2>1, Zenon DEF Wakeups!SetupWithManager
<1>3. \/ ~Wakeups!SpecOrDeletionChangedPredicate(os[y], ns[y])
      \/ /\ ~(os[y].there /\ x \in os[y].spec.alarm)
         /\ ~(ns[y].there /\ x \in ns[y].spec.alarm)
  <2>0. Wakeups!AlarmConsumerToTopicProducer(y, os[y], ns[y])
          = (UNION {q.spec.alarm : q \in {q \in {os[y], ns[y]} : q.there}}) \ {y}
    BY Zenon DEF Wakeups!AlarmConsumerToTopicProducer
  <2>1. ASSUME NEW o \in {os[y], ns[y]}, o.there, x \in o.spec.alarm
        PROVE  x \in Wakeups!AlarmConsumerToTopicProducer(y, os[y], ns[y])
    <3> DEFINE there == {q \in {os[y], ns[y]} : q.there}
               alarms == {q.spec.alarm : q \in there}
    <3>1. o \in there  BY <2>1, Zenon
    <3>2. o.spec.alarm \in alarms  BY <3>1, Zenon
    <3>3. x \in UNION alarms /\ x # y  BY <2>1, <3>2, ZenonT(40)
    <3> HIDE DEF alarms
    <3> QED  BY <2>0, <3>3, Zenon DEF alarms
  <2>2. Wakeups!SpecOrDeletionChangedPredicate(os[y], ns[y])
          => x \notin Wakeups!AlarmConsumerToTopicProducer(y, os[y], ns[y])
    BY DEF Wakeups!SetupWithManager
  <2> QED  BY <2>1, <2>2, Zenon
<1> QED  BY <1>1, <1>2, <1>3, ZenonT(40) DEF SameFor, Wakeups!Live, Wakeups!ProducerChangedPredicate,
             Wakeups!AppDependenciesPredicate, Wakeups!PodNetworkIdentityPublishedPredicate,
             Wakeups!SpecOrDeletionChangedPredicate, Wakeups!Appears, Wakeups!GenerationChanged

\* One object replaced by another of its CR.
LEMMA CrMapExcept ==
    ASSUME NEW os, CrMap(os), NEW x \in Crs, NEW o \in Wakeups!Objects(x)
    PROVE  /\ CrMap([os EXCEPT ![x] = o])
           /\ \A y \in Crs : [os EXCEPT ![x] = o][y] = IF y = x THEN o ELSE os[y]
<1>1. /\ [os EXCEPT ![x] = o] = [y \in Crs |-> [os EXCEPT ![x] = o][y]]
      /\ \A y \in Crs : [os EXCEPT ![x] = o][y] = IF y = x THEN o ELSE os[y]
  BY Zenon DEF CrMap
<1> QED  BY <1>1 DEF CrMap

\* A CR that does not exist is an object of its CR.
LEMMA NoObjectFacts ==
    ASSUME NEW x \in Crs
    PROVE  Wakeups!NoObject(x) \in Wakeups!Objects(x)
<1>1. (CHOOSE s \in Specs[x] : TRUE) \in Specs[x]
  BY OperatorAssumption, Zenon
<1> QED  BY <1>1 DEF Wakeups!NoObject, Wakeups!Objects

\* What the subject depends on are CRs.
LEMMA DependsOnCrs ==
    ASSUME NEW os, CrMap(os), NEW x \in Crs
    PROVE  Wakeups!indexConsumesFrom(os[x]) \cup os[x].spec.shares \subseteq Crs
<1>1. os[x].spec \in Specs[x]
  BY DEF CrMap, Wakeups!Objects
<1> QED  BY <1>1, OperatorAssumption DEF Wakeups!indexConsumesFrom

\* What passes publish and people edit are objects of their CRs.
LEMMA ObjectsStay ==
    ASSUME CrMap(objects), NEW x \in Crs, Wakeups!Publishes(x) \/ Wakeups!Edit(x)
    PROVE  CrMap(objects')
<1>0. objects[x] \in Wakeups!Objects(x)
  BY ZenonT(40) DEF CrMap
<1>1. CASE Wakeups!Publishes(x)
  <2>1. CASE \E arn \in {"none", "arn"}, pod \in {"none", "sg"} :
               objects' = [objects EXCEPT ![x].arn = arn, ![x].pod = pod]
    <3>1. PICK arn \in {"none", "arn"}, pod \in {"none", "sg"} :
               objects' = [objects EXCEPT ![x].arn = arn, ![x].pod = pod]
      BY <2>1, Zenon
    <3> DEFINE o == [objects[x] EXCEPT !.arn = arn, !.pod = pod]
    <3>2. o \in Wakeups!Objects(x)
      BY <1>0, Zenon DEF Wakeups!Objects
    <3>3. objects' = [objects EXCEPT ![x] = o]
      BY <3>1, Zenon DEF CrMap
    <3> QED  BY <3>2, <3>3, CrMapExcept, Zenon
  <2>2. CASE objects' = [objects EXCEPT ![x] = Wakeups!NoObject(x)]
    BY <2>2, NoObjectFacts, CrMapExcept, Zenon
  <2> QED  BY <1>1, <2>1, <2>2 DEF Wakeups!Publishes
<1>2. CASE Wakeups!Edit(x)
  <2>1. CASE \E s \in Specs[x] : objects' = [objects EXCEPT ![x].there = TRUE, ![x].spec = s]
    <3>1. PICK s \in Specs[x] : objects' = [objects EXCEPT ![x].there = TRUE, ![x].spec = s]
      BY <2>1, Zenon
    <3> DEFINE o == [objects[x] EXCEPT !.there = TRUE, !.spec = s]
    <3>2. o \in Wakeups!Objects(x)
      BY <1>0, Zenon DEF Wakeups!Objects
    <3>3. objects' = [objects EXCEPT ![x] = o]
      BY <3>1, Zenon DEF CrMap
    <3> QED  BY <3>2, <3>3, CrMapExcept, Zenon
  <2>2. CASE \E s \in Specs[x] : objects' = [objects EXCEPT ![x].spec = s]
    <3>1. PICK s \in Specs[x] : objects' = [objects EXCEPT ![x].spec = s]
      BY <2>2, Zenon
    <3> DEFINE o == [objects[x] EXCEPT !.spec = s]
    <3>2. o \in Wakeups!Objects(x)
      BY <1>0 DEF Wakeups!Objects
    <3>3. objects' = [objects EXCEPT ![x] = o]
      BY <3>1 DEF CrMap
    <3> QED  BY <3>2, <3>3, CrMapExcept, Zenon
  <2>3. CASE objects' = [objects EXCEPT ![x].deleting = TRUE]
    <3> DEFINE o == [objects[x] EXCEPT !.deleting = TRUE]
    <3>2. o \in Wakeups!Objects(x)
      BY <1>0, Zenon DEF Wakeups!Objects
    <3>3. objects' = [objects EXCEPT ![x] = o]
      BY <2>3 DEF CrMap
    <3> QED  BY <3>2, <3>3, CrMapExcept, Zenon
  <2> QED  BY <1>2, <2>1, <2>2, <2>3, Zenon DEF Wakeups!Edit
<1> QED  BY <1>1, <1>2

\* Every event the subject does not hear leaves what a pass of it would find in the
\* cache (DeliverCR, DeliverGrant), and a pass finds what the cache says.
LEMMA WatchStep ==
    ASSUME WatchInv, Wakeups!WatchNext
    PROVE  WatchInv'
<1>0. subject \in Crs /\ CrMap(objects) /\ CrMap(cached)
  BY DEF WatchInv
<1>1. ASSUME NEW y \in Crs, Wakeups!DeliverCR(y)
      PROVE  WatchInv'
  <2>1. /\ cached' = [cached EXCEPT ![y] = objects[y]]
        /\ woken' = (woken \/ subject \in Wakeups!SetupWithManager(y, cached[y], objects[y], cached'))
        /\ UNCHANGED <<objects, grant, cachedGrant, subject, seen>>
    BY <1>1, Zenon DEF Wakeups!DeliverCR, Wakeups!CacheAfter
  <2>2. CrMap(cached') /\ \A z \in Crs : cached'[z] = IF z = y THEN objects[y] ELSE cached[z]
    <3>1. objects[y] \in Wakeups!Objects(y)
      BY <1>0, Zenon DEF CrMap
    <3>2. /\ CrMap([cached EXCEPT ![y] = objects[y]])
          /\ \A z \in Crs : [cached EXCEPT ![y] = objects[y]][z] = IF z = y THEN objects[y] ELSE cached[z]
      BY <1>0, <1>1, <3>1, CrMapExcept
    <3> QED  BY <2>1, <3>2
  <2>3. ASSUME ~woken', cached'[subject].there
        PROVE  seen = Wakeups!Inputs(subject, cached', cachedGrant)
    <3>0. ~woken /\ subject \notin Wakeups!SetupWithManager(y, cached[y], cached'[y], cached')
      BY <2>1, <2>2, <2>3, Zenon
    <3>1. OwnSame(cached[subject], cached'[subject])
      <4>1. CASE y = subject
        BY <3>0, <4>1, Zenon DEF Wakeups!SetupWithManager, Wakeups!AppDependenciesPredicate,
                          Wakeups!Appears, Wakeups!GenerationChanged, OwnSame
      <4>2. CASE y # subject
        BY <1>0, <2>2, <4>2 DEF OwnSame
      <4> QED  BY <4>1, <4>2, ZenonT(40)
    <3>2. ASSUME NEW z \in Crs \ {subject}
          PROVE  SameFor(subject, z, cached, cached')
      <4>1. CASE z = y
        <5>1. cached'[subject] = cached[subject]
          BY <1>0, <2>2, <4>1, Zenon
        <5> QED  BY <1>0, <2>3, <3>0, <4>1, <5>1, Unheard
      <4>2. CASE z # y
        BY <2>2, <4>2, ZenonT(40) DEF SameFor
      <4> QED  BY <4>1, <4>2, ZenonT(40)
    <3>3. Wakeups!Inputs(subject, cached, cachedGrant) = Wakeups!Inputs(subject, cached', cachedGrant)
      BY <1>0, <3>1, <3>2, SameInputs, DependsOnCrs, Zenon
    <3>4. cached[subject].there
      BY <2>3, <3>1, Zenon DEF OwnSame
    <3> QED  BY <3>0, <3>3, <3>4 DEF WatchInv, SeenInv
  <2> QED  BY <1>0, <2>1, <2>2, <2>3, Zenon DEF WatchInv, SeenInv
<1>2. ASSUME NEW x \in Crs, Wakeups!OtherReconciled(x) \/ Wakeups!Edit(x)
      PROVE  WatchInv'
  <2>1. CrMap(objects') /\ UNCHANGED <<cached, cachedGrant, subject, woken, seen>>
    BY <1>0, <1>2, ObjectsStay, Zenon DEF Wakeups!OtherReconciled, Wakeups!Edit
  <2> QED  BY <2>1 DEF WatchInv, SeenInv
<1>3. CASE Wakeups!Reconciled
  <2>1. /\ seen' = Wakeups!Inputs(subject, cached, cachedGrant)
        /\ UNCHANGED <<cached, cachedGrant, subject>>
    BY <1>3 DEF Wakeups!Reconciled
  <2>2. CrMap(objects')
    BY <1>0, <1>3, ObjectsStay, Zenon DEF Wakeups!Reconciled
  <2> QED  BY <2>1, <2>2 DEF WatchInv, SeenInv
<1>4. CASE Wakeups!DeliverGrant
  <2>1. /\ woken' = (woken \/ subject \in Wakeups!SubnetGroupGrantToAffectedCRs(cached))
        /\ UNCHANGED <<objects, cached, subject, seen>>
    BY <1>4 DEF Wakeups!DeliverGrant
  <2>2. ASSUME ~woken', cached[subject].there
        PROVE  seen = Wakeups!Inputs(subject, cached, cachedGrant')
    <3>1. ~cached[subject].spec.subnet
      BY <1>0, <2>1, <2>2, Zenon DEF Wakeups!SubnetGroupGrantToAffectedCRs, Wakeups!InCache,
           Wakeups!indexRDSSubnetGroup
    <3>2. Wakeups!Inputs(subject, cached, cachedGrant) = Wakeups!Inputs(subject, cached, cachedGrant')
      BY <3>1, Zenon DEF Wakeups!Inputs
    <3> QED  BY <2>1, <2>2, <3>2, Zenon DEF WatchInv, SeenInv
  <2> QED  BY <2>1, <2>2 DEF WatchInv, SeenInv
<1>5. CASE Wakeups!EditGrant
  BY <1>5, Zenon DEF WatchInv, SeenInv, Wakeups!EditGrant
<1> QED  BY <1>1, <1>2, <1>3, <1>4, <1>5 DEF Wakeups!WatchNext

\* What the last pass found is what is there now, unless the subject is woken or an
\* event that wakes it is on its way.
LEMMA StaleFacts ==
    ASSUME WatchInv
    PROVE  Wakeups!StaleIsWoken
<1> SUFFICES ASSUME objects[subject].there, ~woken, subject \notin Wakeups!Coming
             PROVE  seen = Wakeups!Inputs(subject, objects, grant)
  BY DEF Wakeups!StaleIsWoken
<1>0. subject \in Crs /\ CrMap(objects) /\ CrMap(cached)
  BY Zenon DEF WatchInv
<1> DEFINE after(y) == [cached EXCEPT ![y] = objects[y]]
<1>1. ASSUME NEW y \in Crs, cached[y] # objects[y]
      PROVE  subject \notin Wakeups!SetupWithManager(y, cached[y], objects[y], after(y))
  BY <1>1 DEF Wakeups!Coming, Wakeups!CacheAfter
<1>2. OwnSame(cached[subject], objects[subject])
  BY <1>0, <1>1, Zenon DEF Wakeups!SetupWithManager, Wakeups!AppDependenciesPredicate,
                    Wakeups!Appears, Wakeups!GenerationChanged, OwnSame
<1>3. cached[subject].there
  BY <1>2 DEF OwnSame
<1>4. ASSUME NEW y \in Crs \ {subject}
      PROVE  SameFor(subject, y, cached, objects)
  <2>1. CASE cached[y] = objects[y]
    BY <2>1 DEF SameFor
  <2>2. CASE cached[y] # objects[y]
    <3>1. after(y)[subject] = cached[subject]
      BY <1>0 DEF CrMap
    <3>2. subject \notin Wakeups!SetupWithManager(y, cached[y], objects[y], after(y))
      BY <1>1, <2>2, ZenonT(40)
    <3> HIDE DEF after
    <3> QED  BY <1>0, <1>3, <3>1, <3>2, Unheard, Zenon
  <2> QED  BY <2>1, <2>2, Zenon
<1>5. Wakeups!Inputs(subject, cached, cachedGrant) = Wakeups!Inputs(subject, objects, cachedGrant)
  BY <1>0, <1>2, <1>4, SameInputs, DependsOnCrs, ZenonT(40)
<1>6. Wakeups!Inputs(subject, objects, cachedGrant) = Wakeups!Inputs(subject, objects, grant)
  <2>1. CASE cachedGrant = grant
    BY <2>1
  <2>2. CASE cachedGrant # grant
    <3>1. subject \notin Wakeups!SubnetGroupGrantToAffectedCRs(cached)
      BY <2>2 DEF Wakeups!Coming
    <3>2. ~cached[subject].spec.subnet
      BY <1>0, <1>3, <3>1, Zenon DEF Wakeups!SubnetGroupGrantToAffectedCRs, Wakeups!InCache,
           Wakeups!indexRDSSubnetGroup
    <3>3. ~objects[subject].spec.subnet
      BY <1>2, <3>2 DEF OwnSame
    <3> QED  BY <3>3, Zenon DEF Wakeups!Inputs
  <2> QED  BY <2>1, <2>2
<1> QED  BY <1>3, <1>5, <1>6, Zenon DEF WatchInv, SeenInv

-----------------------------------------------------------------------------
(* The theorems.                                                           *)

\* Nothing has happened yet that the subject's pass could have missed.
LEMMA WatchInit == Wakeups!WatchInit => WatchInv
<1> SUFFICES ASSUME Wakeups!WatchInit PROVE WatchInv
  OBVIOUS
<1>1. CrMap(objects)
  BY NoObjectFacts DEF Wakeups!WatchInit, CrMap
<1> QED  BY <1>1, Zenon DEF Wakeups!WatchInit, WatchInv, SeenInv

\* The invariants of the passes and of the watches hold together.
LEMMA OperatorInv == OperatorSpec => [](PassInv /\ WatchInv)
<1>1. ASSUME PassInv, WatchInv, [Passing(Next) \/ Watching(Wakeups!WatchNext)]_operatorVars
      PROVE  PassInv' /\ WatchInv'
  <2>1. ASSUME UNCHANGED vars PROVE PassInv'
    BY <1>1, <2>1, PassStutters, ZenonT(40)
  <2>2. ASSUME UNCHANGED watchVars PROVE WatchInv'
    BY <1>1, <2>2 DEF watchVars, WatchInv, SeenInv
  <2>3. CASE Passing(Next)
    BY <1>1, <2>2, <2>3, PassStep DEF Passing
  <2>4. CASE Watching(Wakeups!WatchNext)
    BY <1>1, <2>1, <2>4, WatchStep DEF Watching
  <2>5. CASE UNCHANGED operatorVars
    BY <2>1, <2>2, <2>5 DEF operatorVars
  <2> QED  BY <1>1, <2>3, <2>4, <2>5
<1>2. OperatorInit => PassInv /\ WatchInv
  BY PassInit, WatchInit DEF OperatorInit
<1> QED  BY <1>1, <1>2, PTL DEF OperatorSpec

\* Ready is True only for a generation that every section is True for, whatever
\* mixture of passes wrote the conditions and however old the copy they started
\* from (recomputeReady, statusPatch, checkpointFor).
THEOREM ReadyEarned == OperatorSpec => []ReadyIsEarned
<1>1. PassInv => ReadyIsEarned
  BY Zenon DEF PassInv, EarnedInv, Earned, ReadyIsEarned
<1> QED  BY <1>1, OperatorInv, PTL

\* No CR is forgotten, between passes of its own (the results of a pass, its own
\* events) and when another CR or the grant changes (the predicates, the map
\* functions and their indexes).
THEOREM NoCRForgotten == OperatorSpec => []NoneForgotten
<1>1. PassInv /\ WatchInv => NoneForgotten
  BY StaleFacts, Zenon DEF PassInv, NoneForgotten
<1> QED  BY <1>1, OperatorInv, PTL

-----------------------------------------------------------------------------
(* The action properties.                                                  *)

\* Every step of the operator is a step of the passes or leaves them alone.
LEMMA StepOfPasses ==
    [Passing(Next) \/ Watching(Wakeups!WatchNext)]_operatorVars => [Next]_vars
BY DEF Passing, Watching, operatorVars, vars

\* The finalizer holds the CR from before a pass creates the first thing until
\* every resource its ledger names is gone or abandoned (ensureFinalizer,
\* reconcileDelete, patchFinalizers, abandonOtherRegion).
THEOREM FinalizerHolds == OperatorSpec => FinalizerHoldsCR
<1>1. PassInv /\ [Next]_vars =>
        [/\ ~(aws' \subseteq aws) => api.there /\ api.finalizer
         /\ api.there /\ api.finalizer /\ ~api'.there =>
               \/ \A s \in Range(Sections) : <<s, api.ledger[s]>> \notin aws
               \/ api.note = "abandon" /\ Elsewhere]_vars
  BY HoldsStep
<1> QED  BY <1>1, StepOfPasses, OperatorInv, PTL DEF OperatorSpec, FinalizerHoldsCR

\* A pass changes nothing in AWS while the ledger names a resource in another
\* region, however far the cache lags (refuseOtherRegion).
THEOREM RegionKept == OperatorSpec => StaysInItsRegion
<1>1. PassInv /\ [Next]_vars => [aws' # aws => ~Elsewhere]_vars
  BY RegionStep
<1> QED  BY <1>1, StepOfPasses, OperatorInv, PTL DEF OperatorSpec, StaysInItsRegion

\* The first transient failure after a pass that ended otherwise is retried soon
\* (transientDelay, resetTransientBackoff).
THEOREM FirstRetrySoon == OperatorSpec => FirstRetryIsSoon
<1>1. PassInv /\ [Next]_vars => [result = "over" => result' # "drift"]_vars
  BY RetryStep
<1> QED  BY <1>1, StepOfPasses, OperatorInv, PTL DEF OperatorSpec, FirstRetryIsSoon
=============================================================================
