----------------------------- MODULE Reconciler -----------------------------
(***************************************************************************)
(* One AppDependencies CR, from the event that wakes the controller to the *)
(* result a pass returns (internal/controller).  What a section does to    *)
(* AWS is the subject of the other modules; here a section succeeds, fails *)
(* or is not drained yet, and the subject is what the pass makes of that:  *)
(* the conditions and the ledger it writes, from a cached copy of the CR   *)
(* that may lag, with patches that say only what changed since that copy;  *)
(* the finalizer; the refusal of a CR whose resources are in another       *)
(* region; and what is left to wake the CR after the pass.                 *)
(***************************************************************************)
EXTENDS Naturals, Sequences, Functions

CONSTANTS
    Sections,         \* the sections of a pass, in the order of allSections
    Global,           \* those whose ARNs name no region (IAM, S3)
    Home, Regions,    \* where the operator runs at first, and may run later
    MaxGeneration,    \* bound on edits, the deletion included
    LongAfter,        \* transientLongAfter
    MaxFaults         \* bound on failed sections and writes, full stores and restarts

\* The sections have names of their own, none of them that of the summary;
\* "none" and "global" name no region; at least one failure is retried soon.
ASSUME ReconcilerAssumption ==
    /\ Sections \in Seq(STRING) /\ Sections # <<>> /\ "Ready" \notin Range(Sections)
    /\ Home \in Regions /\ {"none", "global"} \cap Regions = {}
    /\ MaxGeneration \in Nat \ {0} /\ LongAfter \in Nat \ {0} /\ MaxFaults \in Nat

VARIABLES
    api,        \* the CR as the API server has it
    cache,      \* the CR as the manager's cache has it
    queued,     \* the work queue holds a request for the CR
    armed,      \* the last pass asked for another one later
    failures,   \* transient failures in a row, as the limiter counts them
    here,       \* the region this operator works in
    pc, at,     \* what the pass is doing, and with which section
    mem,        \* the pass's cr
    base,       \* its original
    current,    \* mem has the resource version the server has
    first,      \* the pass's first error
    onlyWaits,  \* whether every error was a wait that a watch ends
    result,     \* what the last pass returned
    aws,        \* what exists: sections with the region they are in
    faults      \* how much has gone wrong so far

vars == <<api, cache, queued, armed, failures, here, pc, at, mem, base, current,
          first, onlyWaits, result, aws, faults>>

-----------------------------------------------------------------------------
(* The CR and its conditions.                                              *)

sectionTypes == Range(Sections) \cup {"ConnectionInfo"}

Unset == [ok |-> "unset", gen |-> 0]

NewCR ==
    [there |-> TRUE, gen |-> 1, deleting |-> FALSE, finalizer |-> FALSE, note |-> "none",
     legacy |-> FALSE, ledger |-> [s \in Range(Sections) |-> "none"],
     conds |-> [t \in sectionTypes \cup {"Ready"} |-> Unset]]

NoCR == [NewCR EXCEPT !.there = FALSE]

Status(cr) == <<cr.conds, cr.ledger>>

\* Mutant: a section that was True for an earlier generation counts.
recomputeReadyAnyGeneration(conds, gen) ==
    [conds EXCEPT !.Ready =
        [ok |-> IF \A t \in sectionTypes : conds[t].ok = "true" THEN "true" ELSE "false",
         gen |-> gen]]

\* Ready is True when every section is True for the generation at hand.
recomputeReady(conds, gen) ==
    [conds EXCEPT !.Ready =
        [ok |-> IF \A t \in sectionTypes : conds[t] = [ok |-> "true", gen |-> gen]
                THEN "true" ELSE "false",
         gen |-> gen]]

\* A section's condition, and Ready with it.
SetSectionCondition(cr, t, ok) ==
    [cr EXCEPT !.conds = recomputeReady([@ EXCEPT ![t] = [ok |-> ok, gen |-> cr.gen]], cr.gen)]

\* A deletion that waits: Ready is pulled down, the sections' conditions stay.
SetDeletionBlocked(cr) == [cr EXCEPT !.conds.Ready = [ok |-> "false", gen |-> cr.gen]]

\* What a merge patch makes of the server's object: a list that differs from
\* original's replaces the server's as a whole, any other is not sent.
statusPatch(original, cr) ==
    [api EXCEPT !.conds  = IF cr.conds = original.conds THEN @ ELSE cr.conds,
                !.ledger = IF cr.ledger = original.ledger THEN @ ELSE cr.ledger]

-----------------------------------------------------------------------------
(* Regions.                                                                *)

\* The region in the ARN of what section s creates; "global" if it has none.
arnRegion(s) == IF s \in Global THEN "global" ELSE here

\* Mutant: a CR in deletion is dealt with wherever its resources are.
InOtherRegionUnlessDeleting(cr, s) == ~cr.deleting /\ cr.ledger[s] \notin {"none", "global", here}

InOtherRegion(cr, s) == cr.ledger[s] \notin {"none", "global", here}

hasResourceInOtherRegion(cr) == \E s \in Range(Sections) : InOtherRegion(cr, s)

-----------------------------------------------------------------------------
(* What a pass returns, and what is left to wake the CR.                   *)

\* How the next pass comes: the limiter's delay, or the drift pace after
\* LongAfter failures in a row.
transientDelay == IF failures >= LongAfter THEN "drift" ELSE "soon"

\* A pass that only waits is not polled faster than the drift pace.
retryDelay(waiting) == IF waiting THEN "watched" ELSE transientDelay

Returns(outcome, again) ==
    /\ result' = outcome
    /\ armed' = again
    /\ pc' = "idle" /\ at' = 0 /\ mem' = NoCR /\ base' = NoCR /\ current' = FALSE
    /\ first' = "none" /\ onlyWaits' = TRUE

\* A return before the pass proper, which leaves the failures as they are.
ReturnsEarly(again) == Returns("early", again)

\* Mutant: the failures are not forgotten.
resetTransientBackoffNever == UNCHANGED failures

\* The failures in a row are forgotten.
resetTransientBackoff == failures' = 0

\* Another failure in a row; the count is capped where it stops mattering.
CountFailure == failures' = IF failures < LongAfter THEN failures + 1 ELSE failures

\* The result of a pass: the drift timer, the work queue's own backoff or the
\* delay of a transient failure.
PassResult(err, waits) ==
    IF err \in {"none", "error"}
    THEN resetTransientBackoff /\ Returns("over", TRUE)
    ELSE CountFailure /\ Returns(retryDelay(waits), TRUE)

-----------------------------------------------------------------------------
Init ==
    /\ api \in {[NewCR EXCEPT !.legacy = legacy] : legacy \in BOOLEAN} /\ cache = NoCR
    /\ queued = FALSE /\ armed = FALSE /\ failures = 0
    /\ here = Home
    /\ pc = "idle" /\ at = 0 /\ mem = NoCR /\ base = NoCR /\ current = FALSE
    /\ first = "none" /\ onlyWaits = TRUE
    /\ result = "early"
    /\ aws = {} /\ faults = 0

-----------------------------------------------------------------------------
(* The start of a pass: what it reads is the cache's copy.                 *)

\* A request is there, or the delayed one falls due.
Starts == pc = "idle" /\ (queued \/ armed) /\ queued' = FALSE

\* Something fails that need not.
Fault == faults < MaxFaults /\ faults' = faults + 1

\* A write the server would take is lost, or one it does not take is refused.
FailsUnless(possible) == IF possible THEN Fault ELSE UNCHANGED faults

\* The CR is gone: its failures are forgotten and nothing more happens.
NotFound ==
    /\ Starts /\ ~cache.there
    /\ resetTransientBackoff /\ Returns("over", FALSE)
    /\ UNCHANGED <<api, cache, here, aws, faults>>

\* A write of the status that ends the pass early.
RefusedWith(cr, again) ==
    \/ api.there /\ api' = statusPatch(cache, cr) /\ ReturnsEarly(again) /\ UNCHANGED faults
    \/ FailsUnless(api.there) /\ ReturnsEarly(TRUE) /\ UNCHANGED api

\* A spec that still has the old form of kmsKeyRef is refused before anything else.
refuseLegacyKMSKeyRef ==
    /\ Starts /\ cache.there /\ ~cache.deleting /\ cache.legacy
    /\ RefusedWith(SetSectionCondition(cache, Head(Sections), "false"), FALSE)
    /\ UNCHANGED <<cache, failures, here, aws>>

\* A CR with a resource in another region is refused, whether or not it is being
\* deleted, and looked at again at the drift pace.
refuseOtherRegion ==
    /\ Starts /\ cache.there /\ hasResourceInOtherRegion(cache)
    /\ IF cache.deleting THEN cache.finalizer /\ cache.note # "abandon" ELSE ~cache.legacy
    /\ \E s \in Range(Sections) :
          /\ InOtherRegion(cache, s)
          /\ \A i, j \in DOMAIN Sections : (Sections[i] = s /\ InOtherRegion(cache, Sections[j])) => i <= j
          /\ RefusedWith(SetSectionCondition(cache, s, "false"), TRUE)
    /\ UNCHANGED <<cache, failures, here, aws>>

\* The CR without its finalizer: a CR in deletion is gone with it.
Released(cr) == IF cr.deleting THEN NoCR ELSE [cr EXCEPT !.finalizer = FALSE]

\* Mutant: a patch without the resource version.
patchFinalizersUnlocked(fresh) == api.there

\* A finalizer patch carries the version that was read, and fails on any other.
patchFinalizers(fresh) == api.there /\ fresh

\* The annotation lets a CR in deletion go with what it has in another region.
abandonOtherRegion ==
    /\ Starts /\ cache.there /\ cache.deleting /\ cache.finalizer
    /\ cache.note = "abandon" /\ hasResourceInOtherRegion(cache)
    /\ \/ /\ patchFinalizers(cache = api) /\ api' = Released(api) /\ ReturnsEarly(FALSE)
          /\ UNCHANGED faults
       \/ FailsUnless(patchFinalizers(cache = api)) /\ ReturnsEarly(TRUE) /\ UNCHANGED api
    /\ UNCHANGED <<cache, failures, here, aws>>

\* A CR in deletion without the finalizer is none of the operator's business.
LeftAlone ==
    /\ Starts /\ cache.there /\ cache.deleting /\ ~cache.finalizer
    /\ ReturnsEarly(FALSE)
    /\ UNCHANGED <<api, cache, failures, here, aws, faults>>

-----------------------------------------------------------------------------
(* reconcileNormal.                                                        *)

Enters(step, cr, fresh) ==
    /\ pc' = step /\ at' = 1 /\ mem' = cr /\ base' = cache /\ current' = fresh
    /\ UNCHANGED <<armed, result, first, onlyWaits>>

\* Mutant: the pass ends there, as if the patch brought an event.
ensureFinalizerReturning ==
    /\ Starts /\ cache.there /\ ~cache.deleting /\ ~cache.legacy /\ ~hasResourceInOtherRegion(cache)
    /\ \/ cache.finalizer /\ Enters("reconcile", cache, cache = api) /\ UNCHANGED api
       \/ /\ ~cache.finalizer /\ patchFinalizers(cache = api)
          /\ api' = [api EXCEPT !.finalizer = TRUE] /\ ReturnsEarly(FALSE)
    /\ UNCHANGED <<cache, failures, here, aws, faults>>

\* The finalizer is there before anything is created, and the pass goes on with
\* what the patch returned.
ensureFinalizer ==
    /\ Starts /\ cache.there /\ ~cache.deleting /\ ~cache.legacy /\ ~hasResourceInOtherRegion(cache)
    /\ \/ /\ cache.finalizer
          /\ Enters("reconcile", cache, cache = api) /\ UNCHANGED <<api, faults>>
       \/ /\ ~cache.finalizer /\ patchFinalizers(cache = api)
          /\ api' = [api EXCEPT !.finalizer = TRUE]
          /\ Enters("reconcile", api', TRUE) /\ UNCHANGED faults
       \/ /\ ~cache.finalizer /\ FailsUnless(patchFinalizers(cache = api))
          /\ ReturnsEarly(TRUE) /\ UNCHANGED api
    /\ UNCHANGED <<cache, failures, here, aws>>

\* record: the first error is kept, and whether all of them are waits.
record(errs) ==
    /\ first' = IF first # "none" \/ errs = <<>> THEN first ELSE Head(errs)
    /\ onlyWaits' = (onlyWaits /\ Range(errs) \subseteq {"wait"})

Outcomes == {"none", "wait", "retry", "error"}

Errors(err) == IF err = "none" THEN <<>> ELSE <<err>>

\* What section s leaves: its resource exists and is recorded, or it failed
\* before the call, or in the middle of it with nothing recorded.
SectionLeaves(s, err) ==
    IF err = "none"
    THEN aws' = aws \cup {<<s, arnRegion(s)>>}
    ELSE aws' = aws \/ (err # "wait" /\ mem.ledger[s] = "none" /\ aws' = aws \cup {<<s, arnRegion(s)>>})

SectionStatus(s, err) ==
    SetSectionCondition(IF err = "none" THEN [mem EXCEPT !.ledger[s] = arnRegion(s)] ELSE mem,
                        s, IF err = "none" THEN "true" ELSE "false")

\* The section's own fault, and the checkpoint's.
SectionFaults(err, lost) ==
    LET n == faults + (IF err = "none" THEN 0 ELSE 1) + (IF lost THEN 1 ELSE 0)
    IN  n <= MaxFaults /\ faults' = n

\* A failed write of the status, as isRetryable has it.
WriteErrors == {"retry", "error"}

\* checkpointFor: the status is written when the section changed it, and cr
\* becomes what the server returned; a failed write is one of the pass's errors.
checkpoint(cr, err) ==
    \/ /\ Status(cr) = Status(mem) /\ mem' = cr /\ record(Errors(err))
       /\ SectionFaults(err, FALSE) /\ UNCHANGED <<api, current>>
    \/ /\ Status(cr) # Status(mem) /\ api.there
       /\ api' = statusPatch(base, cr) /\ mem' = api' /\ current' = TRUE
       /\ record(Errors(err)) /\ SectionFaults(err, FALSE)
    \/ /\ Status(cr) # Status(mem)
       /\ mem' = cr /\ \E lost \in WriteErrors : record(Errors(err) \o <<lost>>)
       /\ SectionFaults(err, api.there) /\ UNCHANGED <<api, current>>

\* One section of ensureDesiredState.
ensureDesiredState ==
    /\ pc = "reconcile" /\ at <= Len(Sections)
    /\ \E err \in Outcomes :
          /\ SectionLeaves(Sections[at], err)
          /\ checkpoint(SectionStatus(Sections[at], err), err)
    /\ at' = at + 1
    /\ UNCHANGED <<cache, queued, armed, failures, here, pc, base, result>>

\* The pass's first error, after one more that is or is not there.
FirstOf(err) == IF first # "none" THEN first ELSE err

\* The connection info, the status write that ends the pass, and its result.
reconcileNormal ==
    /\ pc = "reconcile" /\ at > Len(Sections)
    /\ \E err \in Outcomes \ {"wait"} :
          LET cr == SetSectionCondition(mem, "ConnectionInfo", IF err = "none" THEN "true" ELSE "false")
              waits == onlyWaits /\ err = "none"
          IN  \/ /\ api.there /\ api' = statusPatch(base, cr) /\ SectionFaults(err, FALSE)
                 /\ PassResult(FirstOf(err), waits)
              \/ /\ SectionFaults(err, api.there) /\ UNCHANGED api
                 /\ IF FirstOf(err) = "none" THEN \E lost \in WriteErrors : PassResult(lost, FALSE)
                                             ELSE PassResult(FirstOf(err), waits)
    /\ UNCHANGED <<cache, queued, here, aws>>

-----------------------------------------------------------------------------
(* reconcileDelete.                                                        *)

\* kms, the first of the sections, is finalized last.
finalizeOrder == Tail(Sections) \o <<Head(Sections)>>

\* A CR in deletion that is not in another region.
StartFinalize ==
    /\ Starts /\ cache.there /\ cache.deleting /\ cache.finalizer /\ ~hasResourceInOtherRegion(cache)
    /\ Enters("finalize", cache, cache = api)
    /\ UNCHANGED <<api, cache, failures, here, aws, faults>>

\* One section of finalizeDesiredState: it is done, not drained yet or fails.
\* onlyWaits stands for allDone here.
finalizeDesiredState ==
    /\ pc = "finalize" /\ at <= Len(Sections)
    /\ LET s == finalizeOrder[at]
       IN  \/ /\ mem' = [mem EXCEPT !.ledger[s] = "none"]
              /\ aws' = aws \ {<<s, mem.ledger[s]>>}
              /\ UNCHANGED <<first, onlyWaits, faults>>
           \/ /\ mem.ledger[s] # "none" /\ mem.note # "force" /\ Fault
              /\ onlyWaits' = FALSE /\ UNCHANGED <<mem, aws, first>>
           \/ /\ \E err \in {"retry", "error"} : first' = FirstOf(err)
              /\ Fault /\ onlyWaits' = FALSE /\ UNCHANGED <<mem, aws>>
    /\ at' = at + 1
    /\ UNCHANGED <<api, cache, queued, armed, failures, here, pc, base, current, result>>

AllDone == onlyWaits

\* The status write of a deletion pass, and its result unless every section is
\* done: errors are retried, a CR that waits is looked at again at the drift
\* pace.  Once everything is gone a failed write holds nothing up.
reconcileDelete ==
    /\ pc = "finalize" /\ at = Len(Sections) + 1
    /\ LET cr == IF ~AllDone /\ first = "none" THEN SetDeletionBlocked(mem) ELSE mem
           same == Status(cr) = Status(base)
       IN  \E wrote \in {w \in BOOLEAN : w => ~same} :
              /\ IF wrote THEN api.there /\ api' = statusPatch(base, cr)
                          ELSE UNCHANGED api
              /\ IF wrote \/ same THEN UNCHANGED faults ELSE FailsUnless(api.there)
              /\ IF AllDone
                 THEN /\ at' = at + 1 /\ current' = (current \/ wrote)
                      /\ UNCHANGED <<armed, failures, pc, mem, base, first, onlyWaits, result>>
                 ELSE \E lost \in WriteErrors :
                         PassResult(IF first = "none" /\ ~wrote /\ ~same THEN lost ELSE first, FALSE)
    /\ UNCHANGED <<cache, queued, here, aws>>

\* The finalizer comes off, if the CR is still the one that was read.
removeFinalizer ==
    /\ pc = "finalize" /\ at = Len(Sections) + 2
    /\ \/ patchFinalizers(current) /\ api' = Released(api) /\ Returns("over", FALSE) /\ UNCHANGED faults
       \/ FailsUnless(patchFinalizers(current)) /\ Returns("over", TRUE) /\ UNCHANGED api
    /\ resetTransientBackoff
    /\ UNCHANGED <<cache, queued, here, aws>>

-----------------------------------------------------------------------------
(* The manager and the people.                                             *)

\* The events of the CR that wake it: created, deleted, a new generation, an
\* annotation set or changed.
AppDependenciesPredicate(old, new) ==
    \/ old.there # new.there
    \/ old.gen # new.gen
    \/ new.note # old.note /\ new.note # "none"

\* The watch catches up with the server.
Deliver ==
    /\ cache # api /\ cache' = api
    /\ queued' = (queued \/ AppDependenciesPredicate(cache, api))
    /\ UNCHANGED <<api, armed, failures, here, pc, at, mem, base, current, first, onlyWaits, result, aws, faults>>

\* The operator starts again, maybe in another region: the cache is filled anew
\* and every CR queued.
Restart ==
    /\ Fault /\ here' \in Regions /\ (pc # "idle" \/ here' # here)
    /\ cache' = api /\ queued' = TRUE /\ armed' = FALSE /\ failures' = 0
    /\ pc' = "idle" /\ at' = 0 /\ mem' = NoCR /\ base' = NoCR /\ current' = FALSE
    /\ first' = "none" /\ onlyWaits' = TRUE
    /\ result' = "early"
    /\ UNCHANGED <<api, aws>>

\* People write the CR: whatever pass is running, its version is not current.
Writes(cr) ==
    /\ api.there /\ api' = cr /\ current' = FALSE
    /\ UNCHANGED <<cache, queued, armed, failures, here, pc, at, mem, base, first, onlyWaits, result, aws, faults>>

EditSpec ==
    /\ ~api.deleting /\ api.gen < MaxGeneration
    /\ \E legacy \in {FALSE, api.legacy} : Writes([api EXCEPT !.gen = @ + 1, !.legacy = legacy])

\* A CR without a finalizer of the operator goes at once, unless someone else's
\* holds it.
DeleteCR ==
    /\ ~api.deleting /\ api.gen < MaxGeneration
    /\ LET cr == [api EXCEPT !.deleting = TRUE, !.gen = @ + 1]
       IN  Writes(cr) \/ (~api.finalizer /\ Writes(NoCR))

Annotate ==
    /\ api.deleting /\ api.note = "none" /\ pc # "reconcile"
    /\ \E note \in {"force", "abandon"} : Writes([api EXCEPT !.note = note])

Pass ==
    \/ NotFound \/ refuseLegacyKMSKeyRef \/ refuseOtherRegion \/ abandonOtherRegion \/ LeftAlone
    \/ ensureFinalizer \/ ensureDesiredState \/ reconcileNormal
    \/ StartFinalize \/ finalizeDesiredState \/ reconcileDelete \/ removeFinalizer

Next == Pass \/ Deliver \/ Restart \/ EditSpec \/ DeleteCR \/ Annotate


-----------------------------------------------------------------------------
(* Properties.                                                             *)

CRs ==
    [there : BOOLEAN, gen : 0..MaxGeneration, deleting : BOOLEAN, finalizer : BOOLEAN,
     note : {"none", "force", "abandon"}, legacy : BOOLEAN,
     ledger : [Range(Sections) -> Regions \cup {"none", "global"}],
     conds : [sectionTypes \cup {"Ready"} ->
                 [ok : {"unset", "true", "false"}, gen : 0..MaxGeneration]]]

TypeOK ==
    /\ {api, cache, mem, base} \subseteq CRs
    /\ {queued, armed, current, onlyWaits} \subseteq BOOLEAN
    /\ faults \in 0..MaxFaults
    /\ failures \in 0..LongAfter /\ here \in Regions
    /\ pc \in {"idle", "reconcile", "finalize"} /\ at \in 0..(Len(Sections) + 2)
    /\ first \in {"none", "wait", "retry", "error"}
    /\ result \in {"over", "early", "soon", "drift", "watched"}
    /\ aws \subseteq Range(Sections) \X (Regions \cup {"global"})

\* Ready is True only for a generation that every section is True for, whatever
\* mixture of passes wrote the conditions and however old the copy they started
\* from (recomputeReady, statusPatch, checkpointFor).
ReadyIsEarned ==
    api.conds.Ready.ok = "true" =>
        \A t \in sectionTypes : api.conds[t] = [ok |-> "true", gen |-> api.conds.Ready.gen]

\* Between passes something will wake the CR: a request, a delayed one or an
\* event on its way; unless there is nothing to do before it is edited
\* (reconcileNormal, reconcileDelete, AppDependenciesPredicate).
SomethingWakes ==
    pc = "idle" /\ api.there =>
        \/ queued \/ armed \/ AppDependenciesPredicate(cache, api)
        \/ api.legacy /\ ~api.deleting
        \/ api.deleting /\ ~api.finalizer

\* The ledger names a resource in a region that is not this operator's.
Elsewhere == \E s \in Range(Sections) : api.ledger[s] \in Regions \ {here}

\* The finalizer holds the CR from before a pass creates the first thing
\* (ensureFinalizer) until every resource its ledger names is gone, or the
\* annotation abandons what is in another region (reconcileDelete,
\* patchFinalizers, abandonOtherRegion).
FinalizerHoldsCR ==
    [][/\ ~(aws' \subseteq aws) => api.there /\ api.finalizer
       /\ api.there /\ api.finalizer /\ ~api'.there =>
             \/ \A s \in Range(Sections) : <<s, api.ledger[s]>> \notin aws
             \/ api.note = "abandon" /\ Elsewhere]_vars

\* A pass changes nothing in AWS while the ledger names a resource in another
\* region (refuseOtherRegion).
StaysInItsRegion == [][aws' # aws => ~Elsewhere]_vars

\* The first transient failure after a pass that ended otherwise is retried soon
\* (transientDelay, resetTransientBackoff).
FirstRetryIsSoon == [][result = "over" => result' # "drift"]_vars

\* What a CR comes to when nothing fails: gone, or Ready for its last
\* generation, or one of the states only a person ends.
Settled ==
    \/ ~api.there
    \/ api.deleting /\ ~api.finalizer
    \/ api.legacy /\ ~api.deleting
    \/ Elsewhere /\ ~(api.deleting /\ api.note = "abandon")
    \/ ~api.deleting /\ api.conds.Ready = [ok |-> "true", gen |-> api.gen]
=============================================================================
