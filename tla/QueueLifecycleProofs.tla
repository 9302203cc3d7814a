----------------------- MODULE QueueLifecycleProofs -------------------------
(***************************************************************************)
(* Proofs about QueueLifecycle, for every choice of the windows, the       *)
(* declarations and the foreign tags: its type invariant, the inductive    *)
(* invariant behind its safety properties, what the steps change of        *)
(* entries and queues, the parts of the invariant that are about control,  *)
(* those that let an undeclared queue be deleted (it is this CR's, its     *)
(* deny is as old as its pending mark, and no message is younger than the  *)
(* deny), and the safety theorems.                                         *)
(***************************************************************************)
EXTENDS QueueLifecycle, TLAPS

-----------------------------------------------------------------------------
(* Types of the building blocks.                                           *)

\* An age grows by one tick, stays an age, and stays unset when unset.
LEMMA OlderType ==
    /\ \A a \in Age : Older(a) \in Age
    /\ \A a \in Age \cup {Never} : Older(a) \in Age \cup {Never}
    /\ \A a \in Age \cup {Never} : Older(a) = Never <=> a = Never
BY LedgerAssumption DEF Older, Age, Never

\* The entries the code builds are entries, and time keeps them entries.
LEMMA EntryTypes ==
    /\ NoEntry \in Entry
    /\ \A p \in DeletionPolicies, f \in BOOLEAN : VerifiedEntry(p, f) \in Entry
    /\ \A e \in Entry : OlderEntry(e) \in Entry
    /\ \A e \in Entry : Relinquished(e) \in Entry
<1>1. 0 \in Age
    BY LedgerAssumption DEF Age
<1>2. NoEntry \in Entry
    BY <1>1 DEF NoEntry, Entry, DeletionPolicies
<1>3. \A p \in DeletionPolicies, f \in BOOLEAN : VerifiedEntry(p, f) \in Entry
    BY <1>1 DEF VerifiedEntry, Entry
<1>4. \A e \in Entry : OlderEntry(e) \in Entry
    BY OlderType, Zenon DEF OlderEntry, Entry
<1>5. \A e \in Entry : Relinquished(e) \in Entry
    BY <1>1, Zenon DEF Relinquished, Entry
<1>6. QED
    BY <1>2, <1>3, <1>4, <1>5

\* The tags the operator writes are not the absence of tags, nor foreign ones.
LEMMA TagFacts ==
    /\ ownerTags \in Tags /\ NoTags \in Tags
    /\ ownerTags # NoTags
    /\ \A t \in ForeignTags : t \in Tags /\ t # ownerTags
BY OwnershipAssumption, QueueAssumption DEF ownerTags, NoTags, Tags

\* No queue and a new one are queues.
LEMMA QueueTypes ==
    /\ NoQueue \in Queues
    /\ \A t \in Tags : NewQueue(t) \in Queues
<1>1. MaxAge \in Age /\ {} \in SUBSET Counters
    BY LedgerAssumption DEF Age
<1>2. NoQueue \in Queues
    BY <1>1, TagFacts DEF NoQueue, Queues
<1>3. \A t \in Tags : NewQueue(t) \in Queues
    BY <1>2, Zenon DEF NewQueue, Queues
<1>4. QED
    BY <1>2, <1>3

\* Changing a field of a queue within its type keeps the type.
LEMMA QueueUpdates ==
    ASSUME NEW q \in Queues
    PROVE  /\ \A d \in Age \cup {Never} : [q EXCEPT !.deny = d] \in Queues
           /\ \A t \in Tags : [q EXCEPT !.tags = t] \in Queues
           /\ \A m \in SUBSET Counters : [q EXCEPT !.messages = m] \in Queues
           /\ \A m \in SUBSET Counters, a \in Age : [q EXCEPT !.messages = m, !.sent = a] \in Queues
           /\ \A d \in Age \cup {Never}, a \in Age : [q EXCEPT !.deny = d, !.sent = a] \in Queues
BY Zenon DEF Queues

\* ... and so for an entry.
LEMMA EntryUpdates ==
    ASSUME NEW e \in Entry
    PROVE  /\ \A p \in DeletionPolicies, f \in BOOLEAN : [e EXCEPT !.policy = p, !.force = f] \in Entry
           /\ \A a \in Age \cup {Never} : [e EXCEPT !.pending = a] \in Entry
           /\ \A a \in Age \cup {Never} : [e EXCEPT !.checked = a] \in Entry
           /\ [e EXCEPT !.pending = Never, !.checked = Never] \in Entry
BY Zenon DEF Entry

\* The fields of a queue, and the ages in use.
LEMMA QueueFields ==
    /\ 0 \in Age /\ MaxAge \in Age
    /\ \A q \in Queues : /\ q.exists \in BOOLEAN /\ q.tags \in Tags /\ q.deny \in Age \cup {Never}
                          /\ q.messages \in SUBSET Counters /\ q.sent \in Age
BY LedgerAssumption DEF Age, Queues

\* A spec entry has a deletion policy and a force flag.
LEMMA SpecTypes ==
    /\ Undeclared \in Specs
    /\ \A s \in Specs : s.declared \in BOOLEAN /\ s.policy \in DeletionPolicies /\ s.force \in BOOLEAN
<1>1. Undeclared \in Specs
    BY DEF Specs
<1>2. \A s \in Specs : s = Undeclared \/ \E d \in Declarations : s = Declared(d)
    BY DEF Specs
<1>3. \A d \in Declarations : d.policy \in DeletionPolicies /\ d.force \in BOOLEAN
    BY QueueAssumption
<1>4. ASSUME NEW s \in Specs
      PROVE  s.declared \in BOOLEAN /\ s.policy \in DeletionPolicies /\ s.force \in BOOLEAN
    <2>1. CASE s = Undeclared
        BY <2>1 DEF Undeclared, DeletionPolicies
    <2>2. CASE \E d \in Declarations : s = Declared(d)
        <3>1. PICK d \in Declarations : s = Declared(d)
            BY <2>2
        <3>2. s.declared = TRUE /\ s.policy = d.policy /\ s.force = d.force
            BY <3>1 DEF Declared
        <3>3. QED
            BY <3>2, <1>3, Zenon
    <2>3. QED
        BY <1>2, <2>1, <2>2
<1>5. QED
    BY <1>1, <1>4

-----------------------------------------------------------------------------
(* Type correctness.                                                       *)

\* Every step keeps the variables in their types.
LEMMA TypeStep == TypeOK /\ [Next]_vars => TypeOK'
<1> SUFFICES ASSUME TypeOK, [Next]_vars PROVE TypeOK'
    OBVIOUS
<1> USE DEF TypeOK
<1>1. CASE Begin
    BY <1>1 DEF Begin, GoTo, userVars, historyVars, Steps, EnsureSteps, CleanupSteps
<1>2. CASE EnsureTrusted
    <2>1. mem' \in Entry
        BY <1>2, SpecTypes, EntryUpdates, Zenon DEF EnsureTrusted
    <2>2. pc' \in Steps
        BY <1>2 DEF EnsureTrusted, GoTo, FailTo, Steps, EnsureSteps, CleanupSteps
    <2>3. err' \in {"none", "failed", "refused"}
        BY <1>2 DEF EnsureTrusted, FailTo
    <2>4. QED
        BY <1>2, <2>1, <2>2, <2>3 DEF EnsureTrusted, userVars, historyVars
<1>3. CASE EnsureUntrusted
    BY <1>3 DEF EnsureUntrusted, GoTo, userVars, passVars, historyVars, Steps, EnsureSteps, CleanupSteps
<1>4. CASE Lookup
    <2>1. pc' \in Steps
        BY <1>4 DEF Lookup, GoTo, FailTo, Steps, EnsureSteps, CleanupSteps
    <2>2. err' \in {"none", "failed", "refused"}
        BY <1>4 DEF Lookup, FailTo
    <2>3. QED
        BY <1>4, <2>1, <2>2, Zenon DEF Lookup, userVars
<1>5. CASE createQueue
    <2>1. queue' \in Queues
        BY <1>5, QueueTypes, TagFacts DEF createQueue
    <2>2. pc' \in Steps
        BY <1>5 DEF createQueue, GoTo, FailTo, Steps, EnsureSteps, CleanupSteps
    <2>3. err' \in {"none", "failed", "refused"}
        BY <1>5 DEF createQueue, FailTo
    <2>4. QED
        BY <1>5, <2>1, <2>2, <2>3, ZenonT(40) DEF createQueue, userVars, historyVars
<1>6. CASE adoptQueue
    <2>1. [queue EXCEPT !.tags = ownerTags] \in Queues
        BY <1>6, QueueFields, TagFacts DEF adoptQueue, Queues
    <2>2. queue' \in Queues
        BY <1>6, <2>1 DEF adoptQueue
    <2>3. pc' \in Steps
        BY <1>6 DEF adoptQueue, GoTo, FailTo, Steps, EnsureSteps, CleanupSteps
    <2>4. err' \in {"none", "failed", "refused"}
        BY <1>6 DEF adoptQueue, FailTo
    <2>5. QED
        BY <1>6, <2>1, <2>2, <2>3, <2>4, ZenonT(40) DEF adoptQueue, userVars, historyVars
<1>7. CASE recordVerified
    BY <1>7, EntryTypes, SpecTypes
      DEF recordVerified, GoTo, FailTo, userVars, historyVars, Steps, EnsureSteps, CleanupSteps
<1>8. CASE reconcileDeclaredPolicy
    <2>1. [queue EXCEPT !.deny = Never] \in Queues
        BY <1>8, QueueFields DEF reconcileDeclaredPolicy, Queues
    <2>2. queue' \in Queues
        BY <1>8, <2>1 DEF reconcileDeclaredPolicy
    <2>3. pc' \in Steps
        BY <1>8 DEF reconcileDeclaredPolicy, GoTo, FailTo, Steps, EnsureSteps, CleanupSteps
    <2>4. err' \in {"none", "failed", "refused"}
        BY <1>8 DEF reconcileDeclaredPolicy, FailTo
    <2>5. QED
        BY <1>8, <2>1, <2>2, <2>3, <2>4, ZenonT(40) DEF reconcileDeclaredPolicy, userVars, historyVars
<1>9. CASE Cleanup
    BY <1>9, EntryTypes DEF Cleanup, GoTo, userVars, historyVars, Steps, EnsureSteps, CleanupSteps
<1>10. CASE restoreDeclared
    <2>1. queue' \in Queues
        BY <1>10, QueueUpdates, Zenon DEF restoreDeclared
    <2>2. mem' \in Entry
        BY <1>10, EntryUpdates, Zenon DEF restoreDeclared
    <2>3. pc' \in Steps
        BY <1>10 DEF restoreDeclared, GoTo, FailTo, Steps, EnsureSteps, CleanupSteps
    <2>4. err' \in {"none", "failed", "refused"}
        BY <1>10 DEF restoreDeclared, FailTo
    <2>5. QED
        BY <1>10, <2>1, <2>2, <2>3, <2>4 DEF restoreDeclared, userVars, historyVars
<1>11. CASE releaseLookup
    <2>1. pc' \in Steps
        BY <1>11 DEF releaseLookup, GoTo, Steps, EnsureSteps, CleanupSteps
    <2>2. mem' \in Entry
        BY <1>11, EntryTypes DEF releaseLookup, LetGo
    <2>3. QED
        BY <1>11, <2>1, <2>2, ZenonT(40) DEF releaseLookup, userVars
<1>12. CASE releaseUntag
    <2>1. [queue EXCEPT !.tags = NoTags] \in Queues
        BY <1>12, QueueFields, TagFacts DEF releaseUntag, Queues
    <2>2. queue' \in Queues
        BY <1>12, <2>1 DEF releaseUntag
    <2>3. pc' \in Steps
        BY <1>12 DEF releaseUntag, GoTo, FailTo, Steps, EnsureSteps, CleanupSteps
    <2>4. err' \in {"none", "failed", "refused"}
        BY <1>12 DEF releaseUntag, FailTo
    <2>5. QED
        BY <1>12, <2>1, <2>2, <2>3, <2>4 DEF releaseUntag, userVars, historyVars
<1>13. CASE releaseUndeny
    <2>1. queue' \in Queues
        BY <1>13, QueueUpdates, Zenon DEF releaseUndeny
    <2>2. mem' \in Entry
        BY <1>13, EntryTypes DEF releaseUndeny, LetGo
    <2>3. pc' \in Steps
        BY <1>13 DEF releaseUndeny, GoTo, FailTo, Steps, EnsureSteps, CleanupSteps
    <2>4. err' \in {"none", "failed", "refused"}
        BY <1>13 DEF releaseUndeny, FailTo
    <2>5. QED
        BY <1>13, <2>1, <2>2, <2>3, <2>4 DEF releaseUndeny, userVars, historyVars
<1>14. CASE verifyOwned
    <2>1. mem' \in Entry
        BY <1>14, EntryTypes DEF verifyOwned
    <2>2. pc' \in Steps
        BY <1>14 DEF verifyOwned, GoTo, FailTo, Steps, EnsureSteps, CleanupSteps
    <2>3. err' \in {"none", "failed", "refused"}
        BY <1>14 DEF verifyOwned, FailTo
    <2>4. QED
        BY <1>14, <2>1, <2>2, <2>3, Zenon DEF verifyOwned, userVars, historyVars
<1>15. CASE addPendingDeletionDeny
    <2>1. [queue EXCEPT !.deny = IF @ = Never THEN 0 ELSE @] \in Queues
        BY <1>15, QueueFields DEF addPendingDeletionDeny, Queues
    <2>2. queue' \in Queues
        BY <1>15, <2>1 DEF addPendingDeletionDeny
    <2>3. [mem EXCEPT !.pending = 0] \in Entry
        BY <1>15, QueueFields DEF addPendingDeletionDeny, Entry
    <2>4. mem' \in Entry
        BY <1>15, <2>3 DEF addPendingDeletionDeny
    <2>5. QED
        BY <1>15, <2>1, <2>2, <2>3, <2>4
          DEF addPendingDeletionDeny, GoTo, FailTo, userVars, historyVars, Steps, EnsureSteps, CleanupSteps
<1>16. CASE gateOnEmpty
    <2>1. [mem EXCEPT !.checked = 0] \in Entry
        BY <1>16, QueueFields DEF gateOnEmpty, Entry
    <2>2. mem' \in Entry
        BY <1>16, <2>1 DEF gateOnEmpty
    <2>3. QED
        BY <1>16, <2>1, <2>2
          DEF gateOnEmpty, GoTo, FailTo, userVars, historyVars, Steps, EnsureSteps, CleanupSteps
<1>17. CASE deleteQueue
    <2>1. queue' \in Queues
        BY <1>17, QueueTypes DEF deleteQueue
    <2>2. mem' \in Entry
        BY <1>17, EntryTypes DEF deleteQueue
    <2>3. pc' \in Steps
        BY <1>17 DEF deleteQueue, GoTo, FailTo, Steps, EnsureSteps, CleanupSteps
    <2>4. err' \in {"none", "failed", "refused"}
        BY <1>17 DEF deleteQueue, FailTo
    <2>5. QED
        BY <1>17, <2>1, <2>2, <2>3, <2>4 DEF deleteQueue, userVars, historyVars
<1>18. CASE Persist
    <2>1. store' \in Entry /\ mem' \in Entry
        BY <1>18, EntryTypes DEF Persist, EndPass
    <2>2. forgotten' \subseteq {"lift", "claim"}
        BY <1>18, Zenon DEF Persist, EndPass, Forgotten
    <2>3. IdleView \in [spec : Specs, deleting : BOOLEAN, forceAll : BOOLEAN]
        BY <1>18, SpecTypes DEF Persist, IdleView
    <2>4. view' \in [spec : Specs, deleting : BOOLEAN, forceAll : BOOLEAN]
        BY <1>18, <2>3 DEF Persist, EndPass
    <2>5. cr' \in {"live", "deleting", "gone"}
        BY <1>18 DEF Persist
    <2>6. QED
        BY <1>18, <2>1, <2>2, <2>3, <2>4, <2>5, Zenon DEF Persist, EndPass, Steps
<1>19. CASE CallFails
    BY <1>19 DEF CallFails, FailTo, userVars, historyVars, Steps, EnsureSteps, CleanupSteps
<1>20. CASE Crash
    BY <1>20, EntryTypes, SpecTypes, Zenon DEF Crash, EndPass, IdleView, Forgotten, userVars, Steps
<1>21. CASE EditSpec
    BY <1>21 DEF EditSpec, passVars, historyVars
<1>22. CASE DeleteCR
    BY <1>22 DEF DeleteCR, passVars, historyVars
<1>23. CASE AnnotateForceDeleteAll
    BY <1>23 DEF AnnotateForceDeleteAll, passVars, historyVars
<1>24. CASE Send
    <2>1. PICK c \in Arrivals : queue' = [queue EXCEPT !.messages = @ \cup {c}, !.sent = 0]
        BY <1>24, Zenon DEF Send
    <2>2. queue.messages \cup {c} \in SUBSET Counters
        BY <1>24, QueueFields, QueueAssumption DEF Send, Counters
    <2>3. [queue EXCEPT !.messages = @ \cup {c}, !.sent = 0] \in Queues
        BY <1>24, QueueFields, <2>2, Zenon DEF Send, Queues
    <2>4. queue' \in Queues
        BY <1>24, <2>1, <2>3 DEF Send
    <2>5. QED
        BY <1>24, <2>1, <2>2, <2>3, <2>4 DEF Send, userVars, passVars, historyVars
<1>25. CASE Move
    <2>1. PICK m \in {<<"Delayed", "Visible">>, <<"Visible", "NotVisible">>, <<"NotVisible", "Visible">>} :
                \E left \in {{}, {m[1]}} : queue' = [queue EXCEPT !.messages = (@ \ {m[1]}) \cup left \cup {m[2]}]
        BY <1>25, Zenon DEF Move
    <2>2. PICK left \in {{}, {m[1]}} : queue' = [queue EXCEPT !.messages = (@ \ {m[1]}) \cup left \cup {m[2]}]
        BY <2>1, Zenon
    <2>3. m[1] \in Counters /\ m[2] \in Counters
        BY <1>25, <2>1 DEF Move, Counters
    <2>4. (queue.messages \ {m[1]}) \cup left \cup {m[2]} \in SUBSET Counters
        BY <1>25, <2>2, <2>3, QueueFields DEF Move
    <2>5. [queue EXCEPT !.messages = (@ \ {m[1]}) \cup left \cup {m[2]}] \in Queues
        BY <1>25, QueueFields, <2>4 DEF Move, Queues
    <2>6. queue' \in Queues
        BY <1>25, <2>2, <2>5 DEF Move
    <2>7. QED
        BY <1>25, <2>1, <2>2, <2>3, <2>4, <2>5, <2>6 DEF Move, userVars, passVars, historyVars
<1>26. CASE Acknowledge
    <2>1. queue.messages \ {"NotVisible"} \in SUBSET Counters
        BY QueueFields
    <2>2. [queue EXCEPT !.messages = @ \ {"NotVisible"}] \in Queues
        BY <2>1, QueueUpdates, Zenon
    <2>3. QED
        BY <1>26, <2>2 DEF Acknowledge, userVars, passVars, historyVars
<1>27. CASE Drain
    <2>1. {} \in SUBSET Counters /\ MaxAge \in Age
        BY QueueFields
    <2>2. [queue EXCEPT !.messages = {}, !.sent = MaxAge] \in Queues
        BY <2>1, QueueUpdates, Zenon
    <2>3. QED
        BY <1>27, <2>2 DEF Drain, userVars, passVars, historyVars
<1>28. CASE OutsideDelete
    BY <1>28, QueueTypes DEF OutsideDelete, userVars, passVars, historyVars
<1>29. CASE OutsideCreate
    BY <1>29, QueueTypes, TagFacts DEF OutsideCreate, userVars, passVars
<1>30. CASE OutsideRetag
    BY <1>30, TagFacts, QueueUpdates, ZenonT(40) DEF OutsideRetag, userVars, passVars
<1>31. CASE Tick
    <2>1. Older(queue.deny) \in Age \cup {Never} /\ Older(queue.sent) \in Age
        BY OlderType, QueueFields
    <2>2. [queue EXCEPT !.deny = Older(@), !.sent = Older(@)] \in Queues
        BY <2>1, QueueUpdates, Zenon
    <2>3. QED
        BY <1>31, <2>2, EntryTypes DEF Tick, userVars, historyVars
<1>32. CASE Checkpoint
    <2>1. forgotten' \subseteq {"lift", "claim"}
        BY <1>32 DEF Checkpoint, Forgotten
    <2>2. view' \in [spec : Specs, deleting : BOOLEAN, forceAll : BOOLEAN]
        BY <1>32 DEF Checkpoint
    <2>3. moved' \in BOOLEAN
        BY <1>32, Zenon DEF Checkpoint
    <2>4. QED
        BY <1>32, <2>1, <2>2, <2>3, Zenon DEF Checkpoint, userVars
<1>33. CASE UNCHANGED vars
    BY <1>33 DEF vars
<1>34. QED
    BY <1>1, <1>2, <1>3, <1>4, <1>5, <1>6, <1>7, <1>8, <1>9, <1>10, <1>11, <1>12, <1>13, <1>14,
       <1>15, <1>16, <1>17, <1>18, <1>19, <1>20, <1>21, <1>22, <1>23, <1>24, <1>25, <1>26, <1>27,
       <1>28, <1>29, <1>30, <1>31, <1>32, <1>33, Zenon DEF Next, Pass, Ensure, CleanupEntry, Faults, Users,
       Messages, Outside

\* The initial states are of these types.
LEMMA InitType == Init => TypeOK
<1> SUFFICES ASSUME Init PROVE TypeOK
    OBVIOUS
<1>1. queue \in Queues
    BY QueueTypes, TagFacts DEF Init
<1>2. view \in [spec : Specs, deleting : BOOLEAN, forceAll : BOOLEAN]
    BY SpecTypes DEF Init, IdleView
<1>3. QED
    BY <1>1, <1>2, EntryTypes, Zenon DEF Init, TypeOK, Steps

\* The type invariant of QueueLifecycle holds for every value of the constants.
THEOREM TypeCorrect == Spec => []TypeOK
BY InitType, TypeStep, PTL DEF Spec

-----------------------------------------------------------------------------
(* The inductive invariant, by idea.                                       *)

Ours == queue.exists /\ IsOwnedBy(queue.tags)

\* Which steps belong to a pass that read the queue as declared, and what a
\* pass has not done yet at each of them.
PassShape ==
    /\ pc = "idle" => ~lifted /\ ~claimed /\ ~raced /\ err = "none"
    /\ cr = "gone" => pc = "idle"
    /\ pc \in EnsureSteps \cup {"restore"} => StillDeclared
    /\ pc \in {"release", "untag", "undeny", "verify", "deny", "empty", "delete"} => ~StillDeclared
    /\ ~StillDeclared => ~claimed
    /\ ~StillDeclared /\ pc # "persist" => ~lifted
    /\ pc = "restore" => mem.state # "None"

\* What an entry looks like wherever it is kept.
EntryShape(e) ==
    /\ e.state = "Relinquished" => e.policy = "Retain"
    /\ e.pending = Never => e.checked = Never

\* A deletion in progress acts on a verified Delete entry; unless forced, one
\* that has been pending for the quiet window.
DeletionShape ==
    /\ pc \in {"verify", "deny", "empty", "delete"} => mem.state = "Verified" /\ mem.policy = "Delete"
    /\ pc \in {"release", "untag", "undeny"} => mem.state # "None" /\ mem.policy = "Retain"
    /\ pc = "verify" /\ ~Forced /\ mem.pending # Never => mem.pending >= DeletionQuietWindow
    /\ pc = "empty" => ~Forced
    /\ pc \in {"empty", "delete"} /\ ~Forced => mem.pending >= DeletionQuietWindow
    /\ pc = "undeny" => ~Ours
    /\ pc = "persist" /\ ~StillDeclared /\ err = "none" /\ mem.state = "Verified" => mem.policy = "Delete"

\* The deny is at least as old as the pending mark of the entry.
DeniedSince(e) ==
    e.state = "Verified" /\ e.pending # Never /\ Ours
        => queue.deny >= e.pending \/ lifted \/ "lift" \in forgotten

\* A queue of ours that the entry does not track was claimed unrecorded.
Tracked(e) == Ours /\ e.state # "Verified" => claimed \/ "claim" \in forgotten

ForgottenShape ==
    /\ "claim" \in forgotten => store.state # "Verified"

\* No message is much younger than the deny.
SendsStopped == queue.deny # Never => queue.sent + DenyDelay >= queue.deny

\* A pass over a declared queue that has met no error so far.
SettledSoFar ==
    StillDeclared /\ err = "none" /\ ~moved =>
        /\ pc \in {"policy", "cleanup", "restore", "persist"} =>
             mem.state = "Verified" /\ mem.policy = view.spec.policy /\ mem.force = view.spec.force
        /\ pc \in {"policy", "persist"} => mem.pending = Never

IInv ==
    /\ TypeOK
    /\ PassShape
    /\ EntryShape(store) /\ EntryShape(mem)
    /\ DeletionShape
    /\ DeniedSince(store) /\ (pc # "idle" => DeniedSince(mem))
    /\ Tracked(store) /\ (pc # "idle" => Tracked(mem))
    /\ ForgottenShape
    /\ SendsStopped
    /\ SettledSoFar
    /\ ChangesOnlyOwned
    /\ DeletesOnlyDrained
    /\ FinalizerHoldsQueue

-----------------------------------------------------------------------------
(* What a step changes, for the parts of the invariant that only ask that.  *)

\* A new queue carries no deny and no message.
LEMMA NewQueueFields ==
    /\ \A t \in Tags : /\ NewQueue(t).exists /\ NewQueue(t).tags = t
                        /\ NewQueue(t).deny = Never /\ NewQueue(t).messages = {}
    /\ ~NoQueue.exists /\ NoQueue.deny = Never /\ NoQueue.messages = {}
<1>1. NoQueue \in [exists : BOOLEAN, tags : Tags, deny : {Never}, messages : {{}}, sent : {MaxAge}]
    BY TagFacts DEF NoQueue
<1>2. QED
    BY <1>1 DEF NewQueue, NoQueue

\* What producers and consumers change.
LEMMA MessageFacts ==
    ASSUME TypeOK, Messages
    PROVE  /\ UNCHANGED <<spec, cr, forceAll, calm, store, pc, view, mem, err, lifted, claimed, forgotten, raced, moved>>
           /\ queue'.exists = queue.exists /\ queue'.tags = queue.tags /\ queue'.deny = queue.deny
           /\ \/ queue'.sent = queue.sent
              \/ queue'.sent = MaxAge
              \/ queue'.sent = 0 /\ (queue.deny = Never \/ queue.deny < DenyDelay)
           /\ queue.messages = {} /\ queue.deny >= DenyDelay => queue'.messages = {}
<1> USE DEF TypeOK, userVars, passVars, historyVars
<1>1. queue \in [exists : BOOLEAN, tags : Tags, deny : Age \cup {Never}, messages : SUBSET Counters, sent : Age]
    BY DEF Queues
<1>2. CASE Send
    <2>1. PICK c \in Arrivals : queue' = [queue EXCEPT !.messages = @ \cup {c}, !.sent = 0]
        BY <1>2, Zenon DEF Send
    <2>2. queue.deny = Never \/ queue.deny < DenyDelay
        BY <1>2 DEF Send
    <2>3. ~(queue.deny >= DenyDelay)
        BY <1>1, <2>2, QueueAssumption DEF Never, Age
    <2>4. QED
        BY <1>1, <1>2, <2>1, <2>2, <2>3, Zenon DEF Send
<1>3. CASE Move
    <2>1. UNCHANGED <<spec, cr, forceAll, calm, store, pc, view, mem, err, lifted, claimed, forgotten, raced, moved>>
        BY <1>3 DEF Move
    <2>2. queue.messages # {}
        BY <1>3 DEF Move
    <2>3. PICK s : queue' = [queue EXCEPT !.messages = s]
        BY <1>3, Zenon DEF Move
    <2>4. QED
        BY <1>1, <2>1, <2>2, <2>3
<1>4. CASE Acknowledge
    BY <1>1, <1>4 DEF Acknowledge
<1>5. CASE Drain
    BY <1>1, <1>5, ZenonT(40) DEF Drain
<1>6. QED
    BY <1>2, <1>3, <1>4, <1>5 DEF Messages

\* What other operators and people change: afterwards the queue is gone or
\* not ours, and a pass that read its tags has been raced.
LEMMA OutsideFacts ==
    ASSUME TypeOK, Outside
    PROVE  /\ UNCHANGED <<spec, cr, forceAll, calm, store, pc, view, mem, err, lifted, claimed, forgotten, moved>>
           /\ ~Ours'
           /\ queue'.exists /\ pc # "idle" => raced'
           /\ pc = "idle" /\ ~raced => ~raced'
           /\ queue'.deny = Never \/ (queue'.deny = queue.deny /\ queue'.sent = queue.sent)
<1> USE DEF TypeOK, userVars, passVars, historyVars, Ours, IsOwnedBy
<1>1. queue \in [exists : BOOLEAN, tags : Tags, deny : Age \cup {Never}, messages : SUBSET Counters, sent : Age]
    BY DEF Queues
<1>2. CASE OutsideDelete
    BY <1>2, NewQueueFields DEF OutsideDelete
<1>3. CASE OutsideCreate
    <2>1. PICK t \in ForeignTags : queue' = NewQueue(t)
        BY <1>3, ZenonT(40) DEF OutsideCreate
    <2>2. queue'.tags # ownerTags /\ queue'.deny = Never
        BY <2>1, TagFacts, NewQueueFields
    <2>3. raced' = (pc # "idle")
        BY <1>3 DEF OutsideCreate
    <2>4. UNCHANGED <<spec, cr, forceAll, calm, store, pc, view, mem, err, lifted, claimed, forgotten, moved>>
        BY <1>3 DEF OutsideCreate
    <2>5. QED
        BY <2>2, <2>3, <2>4, Zenon
<1>4. CASE OutsideRetag
    <2>1. PICK t \in ForeignTags : queue' = [queue EXCEPT !.tags = t]
        BY <1>4 DEF OutsideRetag
    <2>2. queue'.tags # ownerTags /\ queue'.deny = queue.deny /\ queue'.sent = queue.sent
        BY <1>1, <2>1, TagFacts
    <2>3. raced' = (pc # "idle")
        BY <1>4 DEF OutsideRetag
    <2>4. UNCHANGED <<spec, cr, forceAll, calm, store, pc, view, mem, err, lifted, claimed, forgotten, moved>>
        BY <1>4 DEF OutsideRetag
    <2>5. QED
        BY <2>2, <2>3, <2>4, Zenon
<1>5. QED
    BY <1>2, <1>3, <1>4 DEF Outside

\* What cancelling a deletion and relinquishing change of an entry.
LEMMA EntryChanges ==
    ASSUME NEW e \in Entry
    PROVE  /\ LET c == [e EXCEPT !.pending = Never, !.checked = Never]
              IN  /\ c.state = e.state /\ c.policy = e.policy /\ c.force = e.force
                  /\ c.verified = e.verified /\ c.pending = Never /\ c.checked = Never
           /\ LET r == Relinquished(e)
              IN  /\ r.state = "Relinquished" /\ r.policy = e.policy
                  /\ r.pending = e.pending /\ r.checked = e.checked
BY DEF Entry, Relinquished

\* What restoreDeclared leaves of the entry.
LEMMA RestoreFacts ==
    ASSUME TypeOK, restoreDeclared
    PROVE  /\ UNCHANGED <<store, view>> /\ pc = "restore" /\ pc' = "persist"
           /\ mem'.state = mem.state /\ mem'.policy = mem.policy /\ mem'.force = mem.force
           /\ \/ UNCHANGED mem /\ err' # "none"
              \/ mem'.pending = Never /\ mem'.checked = Never
<1>1. UNCHANGED <<store, view>> /\ pc = "restore" /\ pc' = "persist"
    BY DEF restoreDeclared, GoTo, FailTo
<1>2. \/ mem' = [mem EXCEPT !.pending = Never, !.checked = Never]
      \/ UNCHANGED mem /\ err' # "none"
    BY DEF restoreDeclared, FailTo
<1>3. mem \in Entry
    BY DEF TypeOK
<1>4. CASE mem' = [mem EXCEPT !.pending = Never, !.checked = Never]
    BY <1>1, <1>3, <1>4 DEF Entry
<1>5. CASE UNCHANGED mem /\ err' # "none"
    BY <1>1, <1>5
<1>6. QED
    BY <1>2, <1>4, <1>5

\* What the two ends of relinquishIfStillTagged leave of the entry.
LEMMA ReleaseFacts ==
    ASSUME TypeOK, releaseLookup \/ releaseUndeny
    PROVE  /\ UNCHANGED <<store, view, claimed>> /\ pc \in {"release", "undeny"}
           /\ \/ UNCHANGED mem
              \/ mem' = NoEntry
              \/ /\ mem'.state = "Relinquished" /\ mem'.policy = mem.policy
                 /\ mem'.pending = mem.pending /\ mem'.checked = mem.checked
<1>1. UNCHANGED <<store, view, claimed>> /\ pc \in {"release", "undeny"}
    BY DEF releaseLookup, releaseUndeny
<1>2. mem' = mem \/ mem' = NoEntry \/ mem' = Relinquished(mem)
    BY DEF releaseLookup, releaseUndeny, LetGo
<1>3. mem \in Entry
    BY DEF TypeOK
<1>4. QED
    BY <1>1, <1>2, <1>3, EntryChanges

\* The counters are read, and the queue deleted, only once the deny has been
\* there for the quiet window.
LEMMA DeniedLongEnough ==
    ASSUME IInv, pc \in {"empty", "delete"}, queue.exists, ~Forced, ~raced, "lift" \notin forgotten
    PROVE  queue.deny >= DeletionQuietWindow
<1>1. mem.state = "Verified" /\ mem.pending >= DeletionQuietWindow
    BY DEF IInv, DeletionShape
<1>2. Ours
    BY DEF IInv, ChangesOnlyOwned, Ours
<1>3. ~lifted
    BY DEF IInv, PassShape
<1>4. queue.deny >= mem.pending
    BY <1>1, <1>2, <1>3, LedgerAssumption DEF IInv, DeniedSince, Never
<1>5. queue.deny \in Int /\ mem.pending \in Int
    BY LedgerAssumption DEF IInv, TypeOK, Queues, Entry, Age, Never
<1>6. QED
    BY <1>1, <1>4, <1>5, LedgerAssumption

\* Ensure stays among its steps until it hands over to Cleanup, and touches
\* neither the CR nor the persisted ledger.
LEMMA EnsureFacts ==
    ASSUME Ensure
    PROVE  /\ pc \in EnsureSteps /\ pc' \in EnsureSteps \cup {"cleanup"}
           /\ UNCHANGED <<spec, cr, forceAll, calm, store, view, forgotten, moved>>
<1>1. CASE EnsureTrusted
    BY <1>1 DEF EnsureTrusted, GoTo, FailTo, EnsureSteps, userVars, historyVars
<1>2. CASE EnsureUntrusted
    BY <1>2 DEF EnsureUntrusted, GoTo, EnsureSteps, userVars, passVars, historyVars
<1>3. CASE Lookup
    BY <1>3 DEF Lookup, GoTo, FailTo, EnsureSteps, userVars
<1>4. CASE createQueue
    BY <1>4 DEF createQueue, GoTo, FailTo, EnsureSteps, userVars, historyVars
<1>5. CASE adoptQueue
    BY <1>5 DEF adoptQueue, GoTo, FailTo, EnsureSteps, userVars, historyVars
<1>6. CASE recordVerified
    BY <1>6 DEF recordVerified, GoTo, FailTo, EnsureSteps, userVars, historyVars
<1>7. CASE reconcileDeclaredPolicy
    BY <1>7 DEF reconcileDeclaredPolicy, GoTo, FailTo, EnsureSteps, userVars, historyVars
<1>8. QED
    BY <1>1, <1>2, <1>3, <1>4, <1>5, <1>6, <1>7 DEF Ensure

\* So does Cleanup, which ends at the status write.
LEMMA CleanupFacts ==
    ASSUME CleanupEntry
    PROVE  /\ pc \in CleanupSteps /\ pc' \in CleanupSteps \cup {"persist"}
           /\ UNCHANGED <<spec, cr, forceAll, calm, store, view, forgotten, moved>>
<1>1. CASE Cleanup
    <2>1. pc = "cleanup" /\ UNCHANGED <<spec, cr, forceAll, calm, store, view, forgotten, moved>>
        BY <1>1 DEF Cleanup, userVars, historyVars
    <2>2. pc' \in {"persist", "restore", "release", "verify"}
        BY <1>1, Zenon DEF Cleanup, GoTo
    <2>3. QED
        BY <2>1, <2>2 DEF CleanupSteps
<1>2. CASE restoreDeclared
    BY <1>2 DEF restoreDeclared, GoTo, FailTo, CleanupSteps, userVars, historyVars
<1>3. CASE releaseLookup
    BY <1>3 DEF releaseLookup, GoTo, CleanupSteps, userVars
<1>4. CASE releaseUntag
    BY <1>4 DEF releaseUntag, GoTo, FailTo, CleanupSteps, userVars, historyVars
<1>5. CASE releaseUndeny
    BY <1>5 DEF releaseUndeny, GoTo, FailTo, CleanupSteps, userVars, historyVars
<1>6. CASE verifyOwned
    BY <1>6 DEF verifyOwned, GoTo, FailTo, CleanupSteps, userVars
<1>7. CASE addPendingDeletionDeny
    BY <1>7 DEF addPendingDeletionDeny, GoTo, FailTo, CleanupSteps, userVars, historyVars
<1>8. CASE gateOnEmpty
    BY <1>8 DEF gateOnEmpty, GoTo, FailTo, CleanupSteps, userVars, historyVars
<1>9. CASE deleteQueue
    BY <1>9 DEF deleteQueue, GoTo, FailTo, CleanupSteps, userVars, historyVars
<1>10. QED
    BY <1>1, <1>2, <1>3, <1>4, <1>5, <1>6, <1>7, <1>8, <1>9 DEF CleanupEntry

\* A call that fails leaves an error and the pass's copies as they were.
LEMMA CallFailsFacts ==
    ASSUME CallFails
    PROVE  /\ \/ pc \in EnsureSteps /\ pc' = "cleanup"
              \/ pc \in CleanupSteps \ {"cleanup"} /\ pc' = "persist"
           /\ err' # "none"
           /\ UNCHANGED <<spec, cr, forceAll, calm, store, queue, view, mem, lifted, claimed,
                          forgotten, raced, moved>>
BY DEF CallFails, FailTo, userVars, historyVars

\* A crash forgets the pass and keeps the persisted ledger.
LEMMA CrashFacts ==
    ASSUME Crash
    PROVE  /\ pc # "idle" /\ pc' = "idle" /\ view' = IdleView /\ mem' = NoEntry /\ err' = "none"
           /\ lifted' = FALSE /\ claimed' = FALSE /\ raced' = FALSE /\ moved' = FALSE
           /\ forgotten' = Forgotten(store)
           /\ UNCHANGED <<spec, cr, forceAll, calm, store, queue>>
BY DEF Crash, EndPass, userVars

\* Users change the CR and nothing else.
LEMMA UserFacts ==
    ASSUME Users
    PROVE  /\ cr # "gone" /\ cr' # "gone"
           /\ UNCHANGED <<store, queue, pc, view, mem, err, lifted, claimed, forgotten, raced, moved>>
BY DEF Users, EditSpec, DeleteCR, AnnotateForceDeleteAll, passVars, historyVars

-----------------------------------------------------------------------------
(* Control, and the shape of entries.                                      *)

\* Control: which pass is at which step, and what it has not done yet.
LEMMA PassShapeStep ==
    ASSUME IInv, TypeOK', [Next]_vars
    PROVE  PassShape'
<1>0. TypeOK /\ PassShape
    BY ZenonT(40) DEF IInv
<1>1. CASE Begin
    BY <1>1, Zenon DEF IInv, TypeOK, Entry, Queues, PassShape, EnsureSteps, StillDeclared, Begin,
        GoTo, userVars, historyVars
<1>2. CASE Ensure
    BY <1>2, EnsureFacts, Zenon DEF IInv, PassShape, EnsureSteps, StillDeclared
<1>3. CASE Cleanup
    BY <1>3, Zenon DEF IInv, PassShape, EnsureSteps, StillDeclared, Cleanup, GoTo, Never, Relinquished,
        NoEntry, Waiting, userVars, historyVars, Forced
<1>4. CASE restoreDeclared
    BY <1>4, RestoreFacts, Zenon DEF IInv, TypeOK, PassShape, EnsureSteps, StillDeclared, restoreDeclared,
        Never, GoTo, FailTo, userVars, historyVars
<1>5. CASE releaseLookup
    BY <1>5, ReleaseFacts DEF IInv, TypeOK, PassShape, EnsureSteps, StillDeclared, releaseLookup,
        GoTo, NoEntry, LetGo, userVars, Never, Relinquished
<1>6. CASE releaseUntag
    BY <1>6, Zenon DEF IInv, PassShape, EnsureSteps, StillDeclared, releaseUntag, NoTags, GoTo, FailTo,
        userVars, historyVars, NoTag
<1>7. CASE releaseUndeny
    BY <1>7, ReleaseFacts, Zenon DEF IInv, TypeOK, PassShape, EnsureSteps, StillDeclared, releaseUndeny,
        Never, GoTo, LetGo, FailTo, userVars, historyVars, Relinquished, NoEntry
<1>8. CASE verifyOwned
    BY <1>8 DEF IInv, PassShape, EnsureSteps, StillDeclared, verifyOwned, GoTo, NoEntry, FailTo,
        Forced, Never, userVars
<1>9. CASE addPendingDeletionDeny
    BY <1>9 DEF IInv, PassShape, EnsureSteps, StillDeclared, addPendingDeletionDeny, Never, GoTo,
        FailTo, userVars, historyVars
<1>10. CASE gateOnEmpty
    BY <1>10, Zenon DEF IInv, PassShape, EnsureSteps, StillDeclared, gateOnEmpty, ReadableCounters,
        queueIsEmpty, GoTo, FailTo, userVars, historyVars
<1>11. CASE deleteQueue
    BY <1>11, Zenon DEF IInv, PassShape, EnsureSteps, StillDeclared, deleteQueue, NoQueue, GoTo, NoEntry,
        FailTo, userVars, historyVars, NoTags, Never, NoTag
<1>12. CASE Persist
    BY <1>12 DEF IInv, PassShape, EnsureSteps, StillDeclared, Persist, EndPass, Finalized,
        Forgotten, IdleView, NoEntry, Never
<1>13. CASE Checkpoint
    BY <1>13 DEF IInv, PassShape, EnsureSteps, StillDeclared, Checkpoint, Forgotten, userVars, Never
<1>14. CASE Faults
    <2>1. CASE CallFails
        BY <2>1, CallFailsFacts DEF IInv, PassShape, EnsureSteps, StillDeclared, CleanupSteps
    <2>2. CASE Crash
        BY <2>2, CrashFacts, Zenon DEF IInv, PassShape, EnsureSteps, StillDeclared, IdleView, Undeclared,
            NoEntry, Never
    <2>3. QED
        BY <1>14, <2>1, <2>2, Zenon DEF Faults
<1>15. CASE Users
    BY <1>15, UserFacts DEF IInv, PassShape, EnsureSteps, StillDeclared
<1>16. CASE Messages
    BY <1>0, <1>16, MessageFacts DEF PassShape, EnsureSteps, StillDeclared
<1>17. CASE Outside
    BY <1>0, <1>17, OutsideFacts DEF PassShape, EnsureSteps, StillDeclared
<1>18. CASE Tick
    BY <1>18 DEF IInv, PassShape, EnsureSteps, StillDeclared, Tick, OlderEntry, Older, userVars,
        historyVars, Never
<1>19. CASE UNCHANGED vars
    BY <1>19, Zenon DEF IInv, PassShape, EnsureSteps, StillDeclared, vars
<1>20. QED
    BY <1>1, <1>2, <1>3, <1>4, <1>5, <1>6, <1>7, <1>8, <1>9, <1>10, <1>11, <1>12, <1>13, <1>14,
        <1>15, <1>16, <1>17, <1>18, <1>19, Zenon DEF Next, Pass, CleanupEntry

\* Relinquished entries are Retain entries; only a pending one was checked.
LEMMA EntryShapeStep ==
    ASSUME IInv, TypeOK', [Next]_vars
    PROVE  EntryShape(store)' /\ EntryShape(mem)'
<1>1. CASE Begin
    BY <1>1 DEF IInv, EntryShape, Relinquished, Never, Begin, GoTo, userVars, historyVars
<1>2. CASE EnsureTrusted
    BY <1>2, SMTT(30) DEF IInv, TypeOK, Entry, Queues, NeedsRevalidation, EntryShape, Relinquished,
        Never, EnsureTrusted, GoTo, FailTo, userVars, historyVars
<1>3. CASE EnsureUntrusted
    BY <1>3, Zenon DEF IInv, EntryShape, Relinquished, Never, EnsureUntrusted, GoTo, userVars, passVars,
        historyVars
<1>4. CASE Lookup
    BY <1>4 DEF IInv, EntryShape, Relinquished, Never, Lookup, GoTo, FailTo, userVars
<1>5. CASE createQueue
    BY <1>5 DEF IInv, EntryShape, Relinquished, Never, createQueue, FailTo, NewQueue, ownerTags,
        GoTo, userVars, historyVars, NoQueue, NoTags, NoTag
<1>6. CASE adoptQueue
    BY <1>6, Zenon DEF IInv, EntryShape, Relinquished, Never, adoptQueue, ownerTags, GoTo, FailTo,
        userVars, historyVars
<1>7. CASE recordVerified
    BY <1>7 DEF IInv, EntryShape, Relinquished, Never, recordVerified, VerifiedEntry, GoTo, FailTo,
        userVars, historyVars
<1>8. CASE reconcileDeclaredPolicy
    BY <1>8, Zenon DEF IInv, EntryShape, Relinquished, Never, reconcileDeclaredPolicy, GoTo, FailTo,
        userVars, historyVars
<1>9. CASE Cleanup
    BY <1>9 DEF IInv, EntryShape, Relinquished, Never, Cleanup, GoTo, StillDeclared, NoEntry,
        Waiting, userVars, historyVars, Forced
<1>10. CASE restoreDeclared
    BY <1>10, RestoreFacts, Zenon DEF IInv, TypeOK, EntryShape, Relinquished, Never, restoreDeclared, GoTo,
        FailTo, userVars, historyVars
<1>11. CASE releaseLookup
    <2>1. mem.policy = "Retain" /\ TypeOK
        BY <1>11, Zenon DEF IInv, DeletionShape, releaseLookup
    <2>2. EntryShape(NoEntry)
        BY DEF EntryShape, NoEntry
    <2>3. QED
        BY <1>11, <2>1, <2>2, ReleaseFacts, Zenon DEF IInv, EntryShape
<1>12. CASE releaseUntag
    BY <1>12, Zenon DEF IInv, EntryShape, Relinquished, Never, releaseUntag, NoTags, GoTo, FailTo,
        userVars, historyVars, NoTag
<1>13. CASE releaseUndeny
    BY <1>13, ReleaseFacts, SMTT(30) DEF IInv, TypeOK, Entry, Queues, DeletionShape, EntryShape,
        Relinquished, Never, releaseUndeny, GoTo, LetGo, FailTo, userVars, historyVars, NoEntry
<1>14. CASE verifyOwned
    BY <1>14 DEF IInv, EntryShape, Relinquished, Never, verifyOwned, GoTo, NoEntry, FailTo, Forced,
        userVars
<1>15. CASE addPendingDeletionDeny
    BY <1>15, SMTT(30) DEF IInv, TypeOK, Entry, Queues, EntryShape, Relinquished, Never,
        addPendingDeletionDeny, GoTo, FailTo, userVars, historyVars
<1>16. CASE gateOnEmpty
    BY <1>16, TagFacts, LedgerAssumption, QueueAssumption, NewQueueFields, SMTT(30) DEF IInv,
        TypeOK, Entry, Queues, DeletionShape, Forced, EntryShape, Relinquished, Never, gateOnEmpty,
        ReadableCounters, queueIsEmpty, GoTo, FailTo, userVars, historyVars, Age, DeletionPolicies,
        IsOwnedBy
<1>17. CASE deleteQueue
    BY <1>17 DEF IInv, EntryShape, Relinquished, Never, deleteQueue, NoQueue, GoTo, NoEntry, FailTo,
        userVars, historyVars, NoTags, NoTag
<1>18. CASE Persist
    BY <1>18 DEF IInv, EntryShape, Relinquished, Never, Persist, EndPass, Finalized, Forgotten,
        IdleView, NoEntry
<1>19. CASE Checkpoint
    BY <1>19 DEF IInv, EntryShape, Relinquished, Never, Checkpoint, Forgotten, userVars
<1>20. CASE Faults
    <2>1. CASE CallFails
        BY <2>1, CallFailsFacts, Zenon DEF IInv, EntryShape, Relinquished, Never, PassShape, EnsureSteps,
            CleanupSteps
    <2>2. CASE Crash
        BY <2>2, CrashFacts DEF IInv, EntryShape, Relinquished, Never, IdleView, Undeclared, NoEntry
    <2>3. QED
        BY <1>20, <2>1, <2>2, Zenon DEF Faults
<1>21. CASE Users
    BY <1>21, UserFacts, Zenon DEF IInv, EntryShape, Relinquished, Never
<1>22. CASE Messages
    BY <1>22, MessageFacts, Zenon DEF IInv, TypeOK, EntryShape, Relinquished, Never
<1>23. CASE Outside
    BY <1>23, OutsideFacts, Zenon DEF IInv, TypeOK, EntryShape, Relinquished, Never
<1>24. CASE Tick
    BY <1>24, TagFacts, LedgerAssumption, QueueAssumption, NewQueueFields, SMTT(30) DEF IInv,
        TypeOK, Entry, Queues, EntryShape, Relinquished, Never, Tick, OlderEntry, Older, userVars,
        historyVars, Age, DeletionPolicies, IsOwnedBy
<1>25. CASE UNCHANGED vars
    BY <1>25, Zenon DEF IInv, EntryShape, Relinquished, Never, vars
<1>26. QED
    BY <1>1, <1>2, <1>3, <1>4, <1>5, <1>6, <1>7, <1>8, <1>9, <1>10, <1>11, <1>12, <1>13, <1>14,
        <1>15, <1>16, <1>17, <1>18, <1>19, <1>20, <1>21, <1>22, <1>23, <1>24, <1>25, Zenon DEF Next, Pass,
        Ensure, CleanupEntry

\* A deletion acts on a Delete entry, pending for the quiet window or forced.
LEMMA DeletionShapeStep ==
    ASSUME IInv, TypeOK', [Next]_vars
    PROVE  DeletionShape'
<1>0. TypeOK /\ DeletionShape
    BY DEF IInv
<1>1. CASE Begin
    <2>1. pc' \in {"ensure", "cleanup"}
        BY <1>1 DEF Begin, GoTo
    <2>2. QED
        BY <2>1, Zenon DEF DeletionShape
<1>2. CASE Ensure
    BY <1>2, EnsureFacts, Zenon DEF IInv, DeletionShape, Forced, Never, Ours, StillDeclared, PassShape,
        EnsureSteps
<1>3. CASE Cleanup
    <2>1. UNCHANGED <<view, err, queue>>
        BY <1>3, Zenon DEF Cleanup
    <2>2. mem.pending \in Int /\ DeletionQuietWindow \in Int
        BY LedgerAssumption DEF IInv, TypeOK, Entry, Age, Never
    <2>3. mem.state \in {"None", "Verified", "Relinquished"} /\ mem.policy \in {"Retain", "Delete"}
        BY DEF IInv, TypeOK, Entry, DeletionPolicies
    <2>4. \/ pc' = "restore"
          \/ /\ pc' = "persist"
             /\ \/ mem' = NoEntry
                \/ UNCHANGED mem /\ mem.state # "Verified"
                \/ StillDeclared
                \/ UNCHANGED mem /\ mem.policy = "Delete"
          \/ pc' = "release" /\ UNCHANGED mem /\ mem.state # "None" /\ mem.policy = "Retain"
          \/ pc' = "verify" /\ UNCHANGED mem /\ mem.state # "None" /\ mem.policy = "Delete" /\ ~Waiting
        BY <1>3, Zenon DEF Cleanup, GoTo
    <2>5. mem.state # "None" /\ mem.policy = "Delete" => mem.state = "Verified"
        BY <2>3 DEF IInv, EntryShape
    <2>6. ~Waiting /\ ~Forced /\ mem.pending # Never => mem.pending >= DeletionQuietWindow
        BY <2>2 DEF Waiting
    <2>7. NoEntry.state = "None"
        BY Zenon DEF NoEntry
    <2>8. QED
        BY <2>1, <2>4, <2>5, <2>6, <2>7 DEF DeletionShape, StillDeclared, Forced
<1>4. CASE restoreDeclared
    BY <1>4, RestoreFacts, Zenon DEF IInv, TypeOK, Entry, Queues, DeletionShape, Forced, Never,
        Ours, StillDeclared, restoreDeclared, GoTo, FailTo, userVars, historyVars, PassShape,
        EntryShape, EnsureSteps, Relinquished
<1>5. CASE releaseLookup
    <2>1. mem.state # "None" /\ mem.policy = "Retain" /\ TypeOK
        BY <1>5 DEF IInv, DeletionShape, releaseLookup
    <2>2. \/ pc' = "untag" /\ UNCHANGED mem
          \/ pc' = "persist" /\ (mem' = NoEntry \/ mem' = Relinquished(mem))
        BY <1>5 DEF releaseLookup, GoTo, LetGo
    <2>3. NoEntry.state = "None" /\ Relinquished(mem).state = "Relinquished"
        BY <2>1, EntryChanges, Zenon DEF NoEntry, TypeOK
    <2>4. QED
        BY <2>1, <2>2, <2>3, Zenon DEF DeletionShape
<1>6. CASE releaseUntag
    BY <1>6, TagFacts, LedgerAssumption, QueueAssumption, NewQueueFields, ZenonT(40) DEF IInv, TypeOK,
        Entry, Queues, IsOwnedBy, DeletionShape, Forced, Never, Ours, StillDeclared, releaseUntag,
        NoTags, GoTo, FailTo, userVars, historyVars, NoTag, PassShape, EntryShape, EnsureSteps,
        Relinquished, Age, DeletionPolicies
<1>7. CASE releaseUndeny
    <2>1. TypeOK
        BY DEF IInv
    <2>2. pc' = "persist" /\ (err' # "none" \/ mem' = NoEntry \/ mem' = Relinquished(mem))
        BY <1>7 DEF releaseUndeny, GoTo, FailTo, LetGo
    <2>3. NoEntry.state = "None" /\ Relinquished(mem).state = "Relinquished"
        BY <2>1, EntryChanges, Zenon DEF NoEntry, TypeOK
    <2>4. QED
        BY <2>2, <2>3 DEF DeletionShape
<1>8. CASE verifyOwned
    BY <1>8 DEF IInv, DeletionShape, Forced, Never, Ours, StillDeclared, verifyOwned, GoTo, NoEntry,
        FailTo, userVars
<1>9. CASE addPendingDeletionDeny
    BY <1>9, SMTT(30) DEF IInv, TypeOK, Entry, Queues, DeletionShape, Forced, Never, Ours,
        StillDeclared, addPendingDeletionDeny, GoTo, FailTo, userVars, historyVars
<1>10. CASE gateOnEmpty
    BY <1>10, SMTT(30) DEF IInv, TypeOK, Entry, Queues, DeletionShape, Forced, Never, Ours,
        StillDeclared, gateOnEmpty, ReadableCounters, queueIsEmpty, GoTo, FailTo, userVars,
        historyVars
<1>11. CASE deleteQueue
    <2>1. pc' = "persist" /\ (err' # "none" \/ mem' = NoEntry)
        BY <1>11, Zenon DEF deleteQueue, GoTo, FailTo
    <2>2. NoEntry.state = "None"
        BY DEF NoEntry
    <2>3. QED
        BY <2>1, <2>2 DEF DeletionShape
<1>12. CASE Persist
    BY <1>12 DEF IInv, DeletionShape, Forced, Never, Ours, StillDeclared, Persist, EndPass,
        Finalized, Forgotten, IdleView, NoEntry
<1>13. CASE Checkpoint
    BY <1>13, Zenon DEF IInv, DeletionShape, Forced, Never, Ours, StillDeclared, Checkpoint, Forgotten,
        userVars
<1>14. CASE Faults
    <2>1. CASE CallFails
        BY <2>1, CallFailsFacts, Zenon DEF IInv, DeletionShape, Forced, Never, Ours, StillDeclared, PassShape,
            EnsureSteps, CleanupSteps
    <2>2. CASE Crash
        BY <2>2, CrashFacts DEF IInv, DeletionShape, Forced, Never, Ours, StillDeclared, IdleView,
            Undeclared, NoEntry
    <2>3. QED
        BY <1>14, <2>1, <2>2 DEF Faults
<1>15. CASE Users
    <2>1. UNCHANGED <<queue, pc, view, mem, err>>
        BY <1>15, UserFacts
    <2>2. QED
        BY <1>0, <2>1, Zenon DEF DeletionShape, Forced, Ours, StillDeclared
<1>16. CASE Messages
    <2>1. UNCHANGED <<pc, view, mem, err>> /\ queue'.exists = queue.exists /\ queue'.tags = queue.tags
        BY <1>0, <1>16, MessageFacts
    <2>2. QED
        BY <1>0, <2>1, ZenonT(40) DEF DeletionShape, Forced, Ours, StillDeclared
<1>17. CASE Outside
    <2>1. UNCHANGED <<pc, view, mem, err>> /\ ~Ours'
        BY <1>0, <1>17, OutsideFacts, Zenon
    <2>2. QED
        BY <1>0, <2>1, Zenon DEF DeletionShape, Forced, StillDeclared
<1>18. CASE Tick
    BY <1>18, TagFacts, LedgerAssumption, QueueAssumption, NewQueueFields, SMTT(30) DEF IInv,
        TypeOK, Entry, Queues, DeletionShape, Forced, Never, Ours, StillDeclared, Tick, OlderEntry,
        Older, userVars, historyVars, PassShape, EntryShape, EnsureSteps, Relinquished, Age,
        DeletionPolicies, IsOwnedBy
<1>19. CASE UNCHANGED vars
    BY <1>19 DEF IInv, DeletionShape, Forced, Never, Ours, StillDeclared, vars
<1>20. QED
    BY <1>1, <1>2, <1>3, <1>4, <1>5, <1>6, <1>7, <1>8, <1>9, <1>10, <1>11, <1>12, <1>13, <1>14,
        <1>15, <1>16, <1>17, <1>18, <1>19 DEF Next, Pass, CleanupEntry

\* A claim is forgotten only while the ledger has no verified entry.
LEMMA ForgottenShapeStep ==
    ASSUME IInv, TypeOK', [Next]_vars
    PROVE  ForgottenShape'
<1>1. CASE Begin
    BY <1>1 DEF IInv, ForgottenShape, Begin, GoTo, userVars, historyVars
<1>2. CASE Ensure
    BY <1>2, EnsureFacts DEF IInv, ForgottenShape, PassShape, EnsureSteps
<1>3. CASE CleanupEntry
    BY <1>3, CleanupFacts, Zenon DEF IInv, ForgottenShape, PassShape, CleanupSteps
<1>4. CASE Persist
    BY <1>4 DEF IInv, ForgottenShape, Persist, EndPass, Finalized, Forgotten, IdleView, NoEntry,
        Never
<1>5. CASE Checkpoint
    BY <1>5 DEF IInv, ForgottenShape, Checkpoint, Forgotten, userVars, Never
<1>6. CASE Faults
    <2>1. CASE CallFails
        BY <2>1, CallFailsFacts DEF IInv, ForgottenShape, PassShape, EnsureSteps, CleanupSteps
    <2>2. CASE Crash
        BY <2>2, CrashFacts DEF IInv, ForgottenShape, IdleView, Undeclared, NoEntry, Never, Forgotten
    <2>3. QED
        BY <1>6, <2>1, <2>2 DEF Faults
<1>7. CASE Users
    BY <1>7, UserFacts, Zenon DEF IInv, ForgottenShape
<1>8. CASE Messages
    BY <1>8, MessageFacts, Zenon DEF IInv, TypeOK, ForgottenShape
<1>9. CASE Outside
    BY <1>9, OutsideFacts DEF IInv, TypeOK, ForgottenShape
<1>10. CASE Tick
    BY <1>10 DEF IInv, ForgottenShape, Tick, OlderEntry, Older, userVars, historyVars, Never
<1>11. CASE UNCHANGED vars
    BY <1>11, Zenon DEF IInv, ForgottenShape, vars
<1>12. QED
    BY <1>1, <1>2, <1>3, <1>4, <1>5, <1>6, <1>7, <1>8, <1>9, <1>10, <1>11, Zenon DEF Next, Pass

-----------------------------------------------------------------------------
(* Each part is kept by every step.                                        *)

\* The tags read before a change stay the CR's until it is made.
LEMMA ChangesOnlyOwnedStep ==
    ASSUME IInv, TypeOK', [Next]_vars
    PROVE  ChangesOnlyOwned'
<1>1. CASE Begin
    BY <1>1, ZenonT(40) DEF IInv, ChangesOnlyOwned, Begin, GoTo, userVars, historyVars
<1>2. CASE Ensure
    BY <1>2, EnsureFacts DEF IInv, ChangesOnlyOwned, PassShape, EnsureSteps
<1>3. CASE CleanupEntry
    <2>1. CASE Cleanup
        <3>1. pc' \in {"persist", "restore", "release", "verify"}
            BY <2>1, Zenon DEF Cleanup, GoTo
        <3>2. QED
            BY <3>1 DEF ChangesOnlyOwned
    <2>2. CASE restoreDeclared
        BY <2>2 DEF ChangesOnlyOwned, restoreDeclared, GoTo, FailTo
    <2>3. CASE releaseLookup
        BY <2>3 DEF ChangesOnlyOwned, releaseLookup, GoTo
    <2>4. CASE releaseUntag
        BY <2>4 DEF ChangesOnlyOwned, releaseUntag, GoTo, FailTo
    <2>5. CASE releaseUndeny
        BY <2>5 DEF ChangesOnlyOwned, releaseUndeny, GoTo, FailTo
    <2>6. CASE verifyOwned
        BY <2>6 DEF ChangesOnlyOwned, verifyOwned, GoTo, FailTo
    <2>7. CASE addPendingDeletionDeny
        BY <2>7 DEF ChangesOnlyOwned, addPendingDeletionDeny, GoTo, FailTo
    <2>8. CASE gateOnEmpty
        BY <2>8 DEF IInv, ChangesOnlyOwned, gateOnEmpty, GoTo, FailTo, historyVars
    <2>9. CASE deleteQueue
        BY <2>9, ZenonT(40) DEF ChangesOnlyOwned, deleteQueue, GoTo, FailTo
    <2>10. QED
        BY <1>3, <2>1, <2>2, <2>3, <2>4, <2>5, <2>6, <2>7, <2>8, <2>9 DEF CleanupEntry
<1>4. CASE Persist
    BY <1>4 DEF IInv, ChangesOnlyOwned, Persist, EndPass, Finalized, Forgotten, IdleView, NoEntry,
        Never
<1>5. CASE Checkpoint
    BY <1>5, Zenon DEF IInv, ChangesOnlyOwned, Checkpoint, Forgotten, userVars, Never
<1>6. CASE Faults
    <2>1. CASE CallFails
        BY <2>1, CallFailsFacts, ZenonT(40) DEF IInv, ChangesOnlyOwned, PassShape, EnsureSteps, CleanupSteps
    <2>2. CASE Crash
        BY <2>2, CrashFacts DEF IInv, ChangesOnlyOwned, IdleView, Undeclared, NoEntry, Never
    <2>3. QED
        BY <1>6, <2>1, <2>2 DEF Faults
<1>7. CASE Users
    BY <1>7, UserFacts, Zenon DEF IInv, ChangesOnlyOwned
<1>8. CASE Messages
    <2>1. TypeOK
        BY DEF IInv
    <2>2. /\ UNCHANGED <<spec, cr, forceAll, calm, store, pc, view, mem, err, lifted, claimed, forgotten, raced, moved>>
          /\ queue'.exists = queue.exists /\ queue'.tags = queue.tags
        BY <1>8, <2>1, MessageFacts, Zenon
    <2>3. QED
        BY <2>2, Zenon DEF IInv, ChangesOnlyOwned
<1>9. CASE Outside
    BY <1>9, OutsideFacts DEF IInv, TypeOK, ChangesOnlyOwned
<1>10. CASE Tick
    BY <1>10 DEF IInv, ChangesOnlyOwned, Tick, OlderEntry, Older, userVars, historyVars, Never
<1>11. CASE UNCHANGED vars
    BY <1>11, Zenon DEF IInv, ChangesOnlyOwned, vars
<1>12. QED
    BY <1>1, <1>2, <1>3, <1>4, <1>5, <1>6, <1>7, <1>8, <1>9, <1>10, <1>11 DEF Next, Pass

\* The deny is as old as the pending mark, in the ledger and in the pass.
LEMMA DeniedSinceStep ==
    ASSUME IInv, TypeOK', [Next]_vars
    PROVE  DeniedSince(store)' /\ (pc # "idle" => DeniedSince(mem))'
<1>1. CASE Begin
    BY <1>1 DEF IInv, DeniedSince, Never, Ours, Begin, GoTo, userVars, historyVars
<1>2. CASE EnsureTrusted
    BY <1>2 DEF IInv, DeniedSince, Never, Ours, EnsureTrusted, GoTo, FailTo, userVars, historyVars
<1>3. CASE EnsureUntrusted
    BY <1>3, Zenon DEF IInv, DeniedSince, Never, Ours, EnsureUntrusted, GoTo, userVars, passVars,
        historyVars
<1>4. CASE Lookup
    BY <1>4 DEF IInv, DeniedSince, Never, Ours, Lookup, GoTo, FailTo, userVars
<1>5. CASE createQueue
    BY <1>5 DEF IInv, DeniedSince, Never, Ours, createQueue, FailTo, NewQueue, ownerTags, GoTo,
        userVars, historyVars, NoQueue, NoTags, NoTag
<1>6. CASE adoptQueue
    BY <1>6, Zenon DEF IInv, DeniedSince, Never, Ours, adoptQueue, ownerTags, GoTo, FailTo, userVars,
        historyVars
<1>7. CASE recordVerified
    BY <1>7 DEF IInv, DeniedSince, Never, Ours, recordVerified, VerifiedEntry, GoTo, FailTo,
        userVars, historyVars
<1>8. CASE reconcileDeclaredPolicy
    BY <1>8, ZenonT(40) DEF IInv, DeniedSince, Never, Ours, reconcileDeclaredPolicy, GoTo, FailTo, userVars,
        historyVars
<1>9. CASE Cleanup
    BY <1>9 DEF IInv, DeniedSince, Never, Ours, Cleanup, GoTo, StillDeclared, Relinquished, NoEntry,
        Waiting, userVars, historyVars, Forced
<1>10. CASE restoreDeclared
    BY <1>10, RestoreFacts, Zenon DEF IInv, TypeOK, DeniedSince, Never, Ours, restoreDeclared, GoTo,
        FailTo, userVars, historyVars
<1>11. CASE releaseLookup
    BY <1>11, ReleaseFacts, Zenon DEF IInv, TypeOK, DeniedSince, Never, Ours, releaseLookup, GoTo, NoEntry,
        LetGo, userVars, Relinquished
<1>12. CASE releaseUntag
    BY <1>12, TagFacts, LedgerAssumption, QueueAssumption, NewQueueFields, Zenon DEF IInv,
        TypeOK, Entry, Queues, IsOwnedBy, DeniedSince, Never, Ours, releaseUntag, NoTags, GoTo,
        FailTo, userVars, historyVars, NoTag, PassShape, EnsureSteps, StillDeclared, Age,
        DeletionPolicies
<1>13. CASE releaseUndeny
    BY <1>13, ReleaseFacts, Zenon DEF IInv, TypeOK, DeniedSince, Never, Ours, releaseUndeny, GoTo, LetGo,
        FailTo, userVars, historyVars, Relinquished, NoEntry
<1>14. CASE verifyOwned
    BY <1>14, Zenon DEF IInv, DeniedSince, Never, Ours, verifyOwned, GoTo, NoEntry, FailTo, Forced,
        userVars
<1>15. CASE addPendingDeletionDeny
    BY <1>15, TagFacts, LedgerAssumption, QueueAssumption, NewQueueFields, SMTT(30) DEF IInv,
        TypeOK, Entry, Queues, DeniedSince, Never, Ours, addPendingDeletionDeny, GoTo, FailTo,
        userVars, historyVars, PassShape, EnsureSteps, StillDeclared, Age, DeletionPolicies,
        IsOwnedBy
<1>16. CASE gateOnEmpty
    BY <1>16, SMTT(30) DEF IInv, TypeOK, Entry, Queues, DeniedSince, Never, Ours, gateOnEmpty,
        ReadableCounters, queueIsEmpty, GoTo, FailTo, userVars, historyVars
<1>17. CASE deleteQueue
    BY <1>17, ZenonT(40) DEF IInv, DeniedSince, Never, Ours, deleteQueue, NoQueue, GoTo, NoEntry, FailTo,
        userVars, historyVars, NoTags, NoTag
<1>18. CASE Persist
    BY <1>18 DEF IInv, DeniedSince, Never, Ours, Persist, EndPass, Finalized, Forgotten, IdleView,
        NoEntry
<1>19. CASE Checkpoint
    BY <1>19 DEF IInv, DeniedSince, Never, Ours, Checkpoint, Forgotten, userVars
<1>20. CASE Faults
    <2>1. CASE CallFails
        BY <2>1, CallFailsFacts, Zenon DEF IInv, DeniedSince, Never, Ours, PassShape, EnsureSteps, CleanupSteps
    <2>2. CASE Crash
        BY <2>2, CrashFacts, Zenon
          DEF IInv, PassShape, DeniedSince, Forgotten, Never, Ours, IdleView, Undeclared, NoEntry
    <2>3. QED
        BY <1>20, <2>1, <2>2, Zenon DEF Faults
<1>21. CASE Users
    BY <1>21, UserFacts, Zenon DEF IInv, DeniedSince, Never, Ours
<1>22. CASE Messages
    BY <1>22, MessageFacts, Zenon DEF IInv, TypeOK, DeniedSince, Never, Ours
<1>23. CASE Outside
    BY <1>23, OutsideFacts, Zenon DEF IInv, TypeOK, DeniedSince, Never, Ours
<1>24. CASE Tick
    BY <1>24, TagFacts, LedgerAssumption, QueueAssumption, NewQueueFields, SMTT(30) DEF IInv,
        TypeOK, Entry, Queues, DeniedSince, Never, Ours, Tick, OlderEntry, Older, userVars,
        historyVars, PassShape, EnsureSteps, StillDeclared, Age, DeletionPolicies, IsOwnedBy
<1>25. CASE UNCHANGED vars
    BY <1>25, Zenon DEF IInv, DeniedSince, Never, Ours, vars
<1>26. QED
    BY <1>1, <1>2, <1>3, <1>4, <1>5, <1>6, <1>7, <1>8, <1>9, <1>10, <1>11, <1>12, <1>13, <1>14,
        <1>15, <1>16, <1>17, <1>18, <1>19, <1>20, <1>21, <1>22, <1>23, <1>24, <1>25, ZenonT(40) DEF Next, Pass,
        Ensure, CleanupEntry

\* Once the deny is in effect no message is younger than it.
LEMMA SendsStoppedStep ==
    ASSUME IInv, TypeOK', [Next]_vars
    PROVE  SendsStopped'
<1>1. CASE Begin
    BY <1>1 DEF IInv, SendsStopped, Never, Begin, GoTo, userVars, historyVars
<1>2. CASE EnsureTrusted
    BY <1>2 DEF IInv, SendsStopped, Never, EnsureTrusted, GoTo, FailTo, userVars, historyVars
<1>3. CASE EnsureUntrusted
    BY <1>3, Zenon DEF IInv, SendsStopped, Never, EnsureUntrusted, GoTo, userVars, passVars, historyVars
<1>4. CASE Lookup
    BY <1>4 DEF IInv, SendsStopped, Never, Lookup, GoTo, FailTo, userVars
<1>5. CASE createQueue
    <2>1. UNCHANGED queue \/ queue' = NewQueue(ownerTags)
        BY <1>5, Zenon DEF createQueue
    <2>2. NewQueue(ownerTags).deny = Never
        BY NewQueueFields, TagFacts
    <2>3. QED
        BY <2>1, <2>2 DEF IInv, SendsStopped
<1>6. CASE adoptQueue
    BY <1>6, ZenonT(40) DEF IInv, TypeOK, Entry, Queues, SendsStopped, Never, adoptQueue, ownerTags,
        GoTo, FailTo, userVars, historyVars
<1>7. CASE recordVerified
    BY <1>7 DEF IInv, SendsStopped, Never, recordVerified, VerifiedEntry, GoTo, FailTo, userVars,
        historyVars
<1>8. CASE reconcileDeclaredPolicy
    BY <1>8, ZenonT(40) DEF IInv, TypeOK, Entry, Queues, SendsStopped, Never, reconcileDeclaredPolicy,
        GoTo, FailTo, userVars, historyVars
<1>9. CASE Cleanup
    BY <1>9 DEF IInv, SendsStopped, Never, Cleanup, GoTo, StillDeclared, Relinquished, NoEntry,
        Waiting, userVars, historyVars, Forced
<1>10. CASE restoreDeclared
    BY <1>10, RestoreFacts DEF IInv, TypeOK, SendsStopped, Never, restoreDeclared, GoTo, FailTo,
        userVars, historyVars
<1>11. CASE releaseLookup
    BY <1>11, ReleaseFacts DEF IInv, TypeOK, SendsStopped, Never, releaseLookup, GoTo, NoEntry,
        LetGo, userVars, Relinquished
<1>12. CASE releaseUntag
    BY <1>12 DEF IInv, SendsStopped, Never, releaseUntag, NoTags, GoTo, FailTo, userVars,
        historyVars, NoTag
<1>13. CASE releaseUndeny
    BY <1>13, ReleaseFacts DEF IInv, TypeOK, SendsStopped, Never, releaseUndeny, GoTo, LetGo,
        FailTo, userVars, historyVars, Relinquished, NoEntry
<1>14. CASE verifyOwned
    BY <1>14, Zenon DEF IInv, SendsStopped, Never, verifyOwned, GoTo, NoEntry, FailTo, Forced, userVars
<1>15. CASE addPendingDeletionDeny
    BY <1>15, TagFacts, LedgerAssumption, QueueAssumption, NewQueueFields, SMTT(30) DEF IInv,
        TypeOK, Entry, Queues, SendsStopped, Never, addPendingDeletionDeny, GoTo, FailTo, userVars,
        historyVars, Age, DeletionPolicies, IsOwnedBy
<1>16. CASE gateOnEmpty
    BY <1>16, Zenon DEF IInv, SendsStopped, Never, gateOnEmpty, ReadableCounters, queueIsEmpty, GoTo,
        FailTo, userVars, historyVars
<1>17. CASE deleteQueue
    BY <1>17, ZenonT(40) DEF IInv, SendsStopped, Never, deleteQueue, NoQueue, GoTo, NoEntry, FailTo, userVars,
        historyVars, NoTags, NoTag
<1>18. CASE Persist
    BY <1>18 DEF IInv, SendsStopped, Never, Persist, EndPass, Finalized, Forgotten, IdleView,
        NoEntry
<1>19. CASE Checkpoint
    BY <1>19, Zenon DEF IInv, SendsStopped, Never, Checkpoint, Forgotten, userVars
<1>20. CASE Faults
    <2>1. CASE CallFails
        BY <2>1, CallFailsFacts, Zenon DEF IInv, SendsStopped, Never, PassShape, EnsureSteps, CleanupSteps
    <2>2. CASE Crash
        BY <2>2, CrashFacts, Zenon DEF IInv, SendsStopped, Never, IdleView, Undeclared, NoEntry
    <2>3. QED
        BY <1>20, <2>1, <2>2 DEF Faults
<1>21. CASE Users
    BY <1>21, UserFacts, Zenon DEF IInv, SendsStopped, Never
<1>22. CASE Messages
    <2>1. TypeOK
        BY DEF IInv
    <2>2. queue.deny \in Int /\ queue.sent \in Int /\ queue.deny <= MaxAge
        BY <2>1, LedgerAssumption DEF TypeOK, Queues, Age, Never
    <2>3. /\ queue'.deny = queue.deny
          /\ \/ queue'.sent = queue.sent
             \/ queue'.sent = MaxAge
             \/ queue'.sent = 0 /\ (queue.deny = Never \/ queue.deny < DenyDelay)
        BY <1>22, <2>1, MessageFacts, Zenon
    <2>4. QED
        BY <2>2, <2>3, QueueAssumption, LedgerAssumption DEF IInv, SendsStopped, Never
<1>23. CASE Outside
    BY <1>23, OutsideFacts, Zenon DEF IInv, TypeOK, SendsStopped, Never
<1>24. CASE Tick
    BY <1>24, TagFacts, LedgerAssumption, QueueAssumption, NewQueueFields, SMTT(30) DEF IInv,
        TypeOK, Entry, Queues, SendsStopped, Never, Tick, OlderEntry, Older, userVars, historyVars,
        Age, DeletionPolicies, IsOwnedBy
<1>25. CASE UNCHANGED vars
    BY <1>25, Zenon DEF IInv, SendsStopped, Never, vars
<1>26. QED
    BY <1>1, <1>2, <1>3, <1>4, <1>5, <1>6, <1>7, <1>8, <1>9, <1>10, <1>11, <1>12, <1>13, <1>14,
        <1>15, <1>16, <1>17, <1>18, <1>19, <1>20, <1>21, <1>22, <1>23, <1>24, <1>25, ZenonT(40) DEF Next, Pass,
        Ensure, CleanupEntry

\* gateOnEmpty is right: the deny is old enough for the counters to be.
LEMMA DeletesOnlyDrainedStep ==
    ASSUME IInv, TypeOK', [Next]_vars
    PROVE  DeletesOnlyDrained'
<1>1. CASE Begin
    BY <1>1, ZenonT(40) DEF IInv, DeletesOnlyDrained, Forced, Begin, GoTo, userVars, historyVars
<1>2. CASE Ensure
    BY <1>2, EnsureFacts, ZenonT(40) DEF IInv, DeletesOnlyDrained, Forced, PassShape, EnsureSteps
<1>3. CASE Cleanup
    BY <1>3, Zenon DEF IInv, DeletesOnlyDrained, Forced, Cleanup, GoTo, StillDeclared, Never, Relinquished,
        NoEntry, Waiting, userVars, historyVars
<1>4. CASE restoreDeclared
    BY <1>4, RestoreFacts, Zenon DEF IInv, TypeOK, DeletesOnlyDrained, Forced, restoreDeclared, Never,
        GoTo, FailTo, userVars, historyVars
<1>5. CASE releaseLookup
    BY <1>5, ReleaseFacts DEF IInv, TypeOK, DeletesOnlyDrained, Forced, releaseLookup, GoTo,
        NoEntry, LetGo, userVars, Never, Relinquished
<1>6. CASE releaseUntag
    BY <1>6 DEF IInv, DeletesOnlyDrained, Forced, releaseUntag, NoTags, GoTo, FailTo, userVars,
        historyVars, NoTag
<1>7. CASE releaseUndeny
    BY <1>7, ReleaseFacts, Zenon DEF IInv, TypeOK, DeletesOnlyDrained, Forced, releaseUndeny, Never, GoTo,
        LetGo, FailTo, userVars, historyVars, Relinquished, NoEntry
<1>8. CASE verifyOwned
    BY <1>8, Zenon DEF IInv, DeletesOnlyDrained, Forced, verifyOwned, GoTo, NoEntry, FailTo, Never,
        userVars
<1>9. CASE addPendingDeletionDeny
    BY <1>9, Zenon DEF IInv, DeletesOnlyDrained, Forced, addPendingDeletionDeny, Never, GoTo, FailTo,
        userVars, historyVars
<1>10. CASE gateOnEmpty
    <2> SUFFICES ASSUME pc' = "delete", queue'.exists, ~Forced', ~raced', ("lift" \notin forgotten)'
                 PROVE  queue'.messages = {}
        BY DEF DeletesOnlyDrained
    <2>1. UNCHANGED <<queue, mem, view, raced, forgotten>> /\ pc = "empty"
        BY <1>10 DEF gateOnEmpty, GoTo, FailTo, historyVars
    <2>2. {} \in ReadableCounters
        BY <1>10 DEF gateOnEmpty, GoTo, FailTo, queueIsEmpty
    <2>3. queue.deny >= DeletionQuietWindow
        BY <2>1, DeniedLongEnough, Zenon DEF Forced
    <2>4. queue.deny \in Int /\ queue.sent \in Int
        BY LedgerAssumption DEF IInv, TypeOK, Queues, Age, Never
    <2>5. queue.sent + DenyDelay >= queue.deny
        BY <2>3, <2>4, QueueAssumption, LedgerAssumption DEF IInv, SendsStopped, Never
    <2>6. queue.sent >= CounterLag
        BY <2>3, <2>4, <2>5, QueueAssumption, LedgerAssumption
    <2>7. queue.messages = {}
        BY <2>2, <2>4, <2>6, QueueAssumption DEF ReadableCounters
    <2>8. QED
        BY <2>1, <2>7, Zenon
<1>11. CASE deleteQueue
    BY <1>11, ZenonT(40) DEF IInv, DeletesOnlyDrained, Forced, deleteQueue, NoQueue, GoTo, NoEntry, FailTo,
        userVars, historyVars, NoTags, Never, NoTag
<1>12. CASE Persist
    BY <1>12, Zenon DEF IInv, DeletesOnlyDrained, Forced, Persist, EndPass, Finalized, Forgotten, IdleView,
        NoEntry, Never
<1>13. CASE Checkpoint
    BY <1>13, Zenon DEF IInv, DeletesOnlyDrained, Forced, Checkpoint, Forgotten, userVars, Never
<1>14. CASE CallFails
    BY <1>14, CallFailsFacts, ZenonT(40) DEF IInv, DeletesOnlyDrained, Forced, CleanupSteps, EnsureSteps
<1>15. CASE Crash
    BY <1>15, CrashFacts, Zenon DEF IInv, DeletesOnlyDrained, Forced
<1>16. CASE Users
    BY <1>16, UserFacts, ZenonT(40) DEF IInv, DeletesOnlyDrained, Forced
<1>17. CASE Messages
    <2> SUFFICES ASSUME pc' = "delete", queue'.exists, ~Forced', ~raced', ("lift" \notin forgotten)'
                 PROVE  queue'.messages = {}
        BY DEF DeletesOnlyDrained
    <2>1. TypeOK
        BY DEF IInv
    <2>2. UNCHANGED <<pc, mem, view, raced, forgotten>> /\ queue'.exists = queue.exists
        BY <1>17, <2>1, MessageFacts, Zenon
    <2>3. queue.deny >= DeletionQuietWindow
        BY <2>2, DeniedLongEnough, Zenon DEF Forced
    <2>4. queue.deny \in Int
        BY LedgerAssumption DEF IInv, TypeOK, Queues, Age, Never
    <2>5. queue.deny >= DenyDelay
        BY <2>3, <2>4, QueueAssumption, LedgerAssumption
    <2>6. queue.messages = {}
        BY <2>2, Zenon DEF IInv, DeletesOnlyDrained, Forced
    <2>7. QED
        BY <1>17, <2>1, <2>5, <2>6, MessageFacts
<1>18. CASE Outside
    BY <1>18, OutsideFacts, Zenon DEF IInv, TypeOK, DeletesOnlyDrained, Forced
<1>19. CASE Tick
    <2>1. mem \in Entry /\ queue \in Queues
        BY DEF IInv, TypeOK
    <2>2. mem'.force = mem.force
        BY <1>19, <2>1 DEF Tick, OlderEntry, Entry
    <2>3. queue'.exists = queue.exists /\ queue'.messages = queue.messages
        BY <1>19, <2>1 DEF Tick, Queues
    <2>4. UNCHANGED <<pc, view, raced, forgotten>>
        BY <1>19, Zenon DEF Tick, historyVars
    <2>5. QED
        BY <2>2, <2>3, <2>4, ZenonT(40) DEF IInv, DeletesOnlyDrained, Forced
<1>20. CASE UNCHANGED vars
    BY <1>20, ZenonT(40) DEF IInv, DeletesOnlyDrained, Forced, vars
<1>21. QED
    BY <1>1, <1>2, <1>3, <1>4, <1>5, <1>6, <1>7, <1>8, <1>9, <1>10, <1>11, <1>12, <1>13, <1>14,
        <1>15, <1>16, <1>17, <1>18, <1>19, <1>20, Zenon DEF Next, Pass, CleanupEntry, Faults

-----------------------------------------------------------------------------
(* The ledger keeps track of the queue and of its declaration.             *)

\* A queue of ours is tracked, in the ledger and in the pass.
LEMMA TrackedStep ==
    ASSUME IInv, TypeOK', [Next]_vars
    PROVE  Tracked(store)' /\ (pc # "idle" => Tracked(mem))'
<1>1. CASE Begin
    BY <1>1 DEF IInv, Tracked, Ours, Begin, GoTo, userVars, historyVars
<1>2. CASE EnsureTrusted
    BY <1>2 DEF IInv, Tracked, Ours, EnsureTrusted, GoTo, FailTo, userVars, historyVars
<1>3. CASE EnsureUntrusted
    BY <1>3, Zenon DEF IInv, Tracked, Ours, EnsureUntrusted, GoTo, userVars, passVars, historyVars
<1>4. CASE Lookup
    BY <1>4 DEF IInv, Tracked, Ours, Lookup, GoTo, FailTo, userVars
<1>5. CASE createQueue
    BY <1>5 DEF IInv, Tracked, Ours, createQueue, FailTo, NewQueue, ownerTags, GoTo, userVars,
        historyVars, NoQueue, NoTags, Never, NoTag
<1>6. CASE adoptQueue
    BY <1>6, ZenonT(40) DEF IInv, Tracked, Ours, adoptQueue, ownerTags, GoTo, FailTo, userVars, historyVars
<1>7. CASE recordVerified
    BY <1>7 DEF IInv, Tracked, Ours, recordVerified, VerifiedEntry, GoTo, FailTo, userVars,
        historyVars, Never
<1>8. CASE reconcileDeclaredPolicy
    BY <1>8, ZenonT(40) DEF IInv, TypeOK, Entry, Queues, Tracked, Ours, reconcileDeclaredPolicy,
        Never, GoTo, FailTo, userVars, historyVars
<1>9. CASE Cleanup
    BY <1>9 DEF IInv, Tracked, Ours, Cleanup, GoTo, StillDeclared, Never, Relinquished, NoEntry,
        Waiting, userVars, historyVars, Forced
<1>10. CASE restoreDeclared
    BY <1>10, RestoreFacts DEF IInv, TypeOK, Tracked, Ours, restoreDeclared, Never, GoTo, FailTo,
        userVars, historyVars
<1>11. CASE releaseLookup
    BY <1>11, ReleaseFacts, Zenon DEF IInv, TypeOK, Tracked, Ours, releaseLookup, GoTo, NoEntry, LetGo,
        userVars, Never, Relinquished
<1>12. CASE releaseUntag
    BY <1>12, TagFacts, LedgerAssumption, QueueAssumption, NewQueueFields, Zenon DEF IInv,
        TypeOK, Entry, Queues, IsOwnedBy, Tracked, Ours, releaseUntag, NoTags, GoTo, FailTo,
        userVars, historyVars, NoTag, PassShape, DeletionShape, EnsureSteps, StillDeclared, Forced,
        Never, Age, DeletionPolicies
<1>13. CASE releaseUndeny
    BY <1>13, ReleaseFacts, ZenonT(40) DEF IInv, TypeOK, Entry, Queues, Tracked, Ours, releaseUndeny,
        Never, GoTo, LetGo, FailTo, userVars, historyVars, Relinquished, NoEntry, PassShape,
        DeletionShape, EnsureSteps, StillDeclared, Forced
<1>14. CASE verifyOwned
    BY <1>14 DEF IInv, Tracked, Ours, verifyOwned, GoTo, NoEntry, FailTo, Forced, Never, userVars
<1>15. CASE addPendingDeletionDeny
    BY <1>15, SMTT(30) DEF IInv, TypeOK, Entry, Queues, Tracked, Ours, addPendingDeletionDeny,
        Never, GoTo, FailTo, userVars, historyVars
<1>16. CASE gateOnEmpty
    BY <1>16, SMTT(30) DEF IInv, TypeOK, Entry, Queues, Tracked, Ours, gateOnEmpty,
        ReadableCounters, queueIsEmpty, GoTo, FailTo, userVars, historyVars
<1>17. CASE deleteQueue
    BY <1>17, ZenonT(40) DEF IInv, Tracked, Ours, deleteQueue, NoQueue, GoTo, NoEntry, FailTo, userVars,
        historyVars, NoTags, Never, NoTag
<1>18. CASE Persist
    BY <1>18 DEF IInv, Tracked, Ours, Persist, EndPass, Finalized, Forgotten, IdleView, NoEntry,
        Never
<1>19. CASE Checkpoint
    BY <1>19, Zenon DEF IInv, Tracked, Ours, Checkpoint, Forgotten, userVars, Never
<1>20. CASE Faults
    <2>1. CASE CallFails
        BY <2>1, CallFailsFacts, Zenon DEF IInv, Tracked, Ours, PassShape, EnsureSteps, CleanupSteps
    <2>2. CASE Crash
        BY <2>2, CrashFacts, Zenon
          DEF IInv, PassShape, Tracked, Forgotten, Ours, IdleView, Undeclared, NoEntry, Never
    <2>3. QED
        BY <1>20, <2>1, <2>2 DEF Faults
<1>21. CASE Users
    BY <1>21, UserFacts, Zenon DEF IInv, Tracked, Ours
<1>22. CASE Messages
    BY <1>22, MessageFacts, ZenonT(40) DEF IInv, TypeOK, Tracked, Ours
<1>23. CASE Outside
    BY <1>23, OutsideFacts DEF IInv, TypeOK, Tracked, Ours
<1>24. CASE Tick
    BY <1>24 DEF IInv, Tracked, Ours, Tick, OlderEntry, Older, userVars, historyVars, Never
<1>25. CASE UNCHANGED vars
    BY <1>25, ZenonT(40) DEF IInv, Tracked, Ours, vars
<1>26. QED
    BY <1>1, <1>2, <1>3, <1>4, <1>5, <1>6, <1>7, <1>8, <1>9, <1>10, <1>11, <1>12, <1>13, <1>14,
        <1>15, <1>16, <1>17, <1>18, <1>19, <1>20, <1>21, <1>22, <1>23, <1>24, <1>25, ZenonT(40) DEF Next, Pass,
        Ensure, CleanupEntry

\* A pass without an error carries the declaration into the entry.
LEMMA SettledSoFarStep ==
    ASSUME IInv, TypeOK', [Next]_vars
    PROVE  SettledSoFar'
<1>0. TypeOK /\ SettledSoFar
    BY DEF IInv
<1>1. CASE Begin
    <2>1. view'.spec = spec /\ view'.deleting = (cr = "deleting")
        BY <1>1 DEF Begin
    <2>2. pc' = IF cr = "live" /\ spec.declared THEN "ensure" ELSE "cleanup"
        BY <1>1, ZenonT(40) DEF Begin, GoTo
    <2>3. cr = "live" \/ cr = "deleting"
        BY <1>1, Zenon DEF Begin, IInv, TypeOK
    <2>4. StillDeclared' => pc' = "ensure"
        BY <2>1, <2>2, <2>3, Zenon DEF StillDeclared
    <2>5. QED
        BY <2>4, Zenon DEF SettledSoFar
<1>2. CASE EnsureTrusted
    BY <1>2, Zenon DEF IInv, TypeOK, Entry, Queues, NeedsRevalidation, SettledSoFar,
        StillDeclared, Never, EnsureTrusted, GoTo, FailTo, userVars, historyVars
<1>3. CASE EnsureUntrusted
    BY <1>3, Zenon DEF IInv, SettledSoFar, StillDeclared, Never, EnsureUntrusted, GoTo, userVars, passVars,
        historyVars
<1>4. CASE Lookup
    BY <1>4, Zenon DEF IInv, SettledSoFar, StillDeclared, Never, Lookup, GoTo, FailTo, userVars
<1>5. CASE createQueue
    BY <1>5 DEF IInv, SettledSoFar, StillDeclared, Never, createQueue, FailTo, NewQueue, ownerTags,
        GoTo, userVars, historyVars, NoQueue, NoTags, NoTag
<1>6. CASE adoptQueue
    BY <1>6, ZenonT(40) DEF IInv, SettledSoFar, StillDeclared, Never, adoptQueue, ownerTags, GoTo, FailTo,
        userVars, historyVars
<1>7. CASE recordVerified
    BY <1>7 DEF IInv, SettledSoFar, StillDeclared, Never, recordVerified, VerifiedEntry, GoTo,
        FailTo, userVars, historyVars
<1>8. CASE reconcileDeclaredPolicy
    BY <1>8, ZenonT(40) DEF IInv, SettledSoFar, StillDeclared, Never, reconcileDeclaredPolicy, GoTo, FailTo,
        userVars, historyVars
<1>9. CASE Cleanup
    BY <1>9, Zenon DEF IInv, SettledSoFar, StillDeclared, Never, Cleanup, GoTo, Relinquished, NoEntry,
        Waiting, userVars, historyVars, Forced
<1>10. CASE restoreDeclared
    BY <1>10, RestoreFacts DEF IInv, TypeOK, SettledSoFar, StillDeclared, Never, restoreDeclared,
        GoTo, FailTo, userVars, historyVars
<1>11. CASE releaseLookup
    <2>1. ~StillDeclared
        BY <1>11, Zenon DEF IInv, PassShape, releaseLookup
    <2>2. UNCHANGED view
        BY <1>11, Zenon DEF releaseLookup
    <2>3. QED
        BY <2>1, <2>2, Zenon DEF StillDeclared, SettledSoFar
<1>12. CASE releaseUntag
    <2>1. ~StillDeclared
        BY <1>12 DEF IInv, PassShape, releaseUntag
    <2>2. UNCHANGED view
        BY <1>12 DEF releaseUntag
    <2>3. QED
        BY <2>1, <2>2 DEF StillDeclared, SettledSoFar
<1>13. CASE releaseUndeny
    <2>1. ~StillDeclared
        BY <1>13 DEF IInv, PassShape, releaseUndeny
    <2>2. UNCHANGED view
        BY <1>13, Zenon DEF releaseUndeny
    <2>3. QED
        BY <2>1, <2>2 DEF StillDeclared, SettledSoFar
<1>14. CASE verifyOwned
    <2>1. ~StillDeclared
        BY <1>14, Zenon DEF IInv, PassShape, verifyOwned
    <2>2. UNCHANGED view
        BY <1>14 DEF verifyOwned
    <2>3. QED
        BY <2>1, <2>2 DEF StillDeclared, SettledSoFar
<1>15. CASE addPendingDeletionDeny
    <2>1. ~StillDeclared
        BY <1>15 DEF IInv, PassShape, addPendingDeletionDeny
    <2>2. UNCHANGED view
        BY <1>15 DEF addPendingDeletionDeny
    <2>3. QED
        BY <2>1, <2>2 DEF StillDeclared, SettledSoFar
<1>16. CASE gateOnEmpty
    <2>1. ~StillDeclared
        BY <1>16 DEF IInv, PassShape, gateOnEmpty
    <2>2. UNCHANGED view
        BY <1>16, Zenon DEF gateOnEmpty
    <2>3. QED
        BY <2>1, <2>2 DEF StillDeclared, SettledSoFar
<1>17. CASE deleteQueue
    <2>1. ~StillDeclared
        BY <1>17 DEF IInv, PassShape, deleteQueue
    <2>2. UNCHANGED view
        BY <1>17, Zenon DEF deleteQueue
    <2>3. QED
        BY <2>1, <2>2 DEF StillDeclared, SettledSoFar
<1>18. CASE Persist
    BY <1>18, Zenon DEF IInv, SettledSoFar, StillDeclared, Never, Persist, EndPass, Finalized, Forgotten,
        IdleView, NoEntry
<1>19. CASE Checkpoint
    BY <1>19, SMTT(30) DEF IInv, TypeOK, Entry, Queues, SettledSoFar, StillDeclared, Never,
        Checkpoint, Forgotten, userVars
<1>20. CASE Faults
    <2>1. CASE CallFails
        BY <2>1, CallFailsFacts, ZenonT(40)
          DEF IInv, SettledSoFar, StillDeclared, Never, PassShape, EnsureSteps,
            CleanupSteps
    <2>2. CASE Crash
        BY <2>2, CrashFacts, ZenonT(40)
          DEF IInv, SettledSoFar, StillDeclared, Never, IdleView, Undeclared, NoEntry
    <2>3. QED
        BY <1>20, <2>1, <2>2 DEF Faults
<1>21. CASE Users
    BY <1>21, UserFacts, Zenon DEF IInv, SettledSoFar, StillDeclared, Never
<1>22. CASE Messages
    BY <1>0, <1>22, MessageFacts, ZenonT(40) DEF SettledSoFar, StillDeclared
<1>23. CASE Outside
    BY <1>0, <1>23, OutsideFacts, Zenon DEF SettledSoFar, StillDeclared
<1>24. CASE Tick
    BY <1>24 DEF IInv, SettledSoFar, StillDeclared, Never, Tick, OlderEntry, Older, userVars,
        historyVars
<1>25. CASE UNCHANGED vars
    BY <1>25 DEF IInv, SettledSoFar, StillDeclared, Never, vars
<1>26. QED
    BY <1>1, <1>2, <1>3, <1>4, <1>5, <1>6, <1>7, <1>8, <1>9, <1>10, <1>11, <1>12, <1>13, <1>14,
        <1>15, <1>16, <1>17, <1>18, <1>19, <1>20, <1>21, <1>22, <1>23, <1>24, <1>25, ZenonT(40) DEF Next, Pass,
        Ensure, CleanupEntry

\* The finalizer goes only when no queue of ours is left untold.
LEMMA FinalizerHoldsQueueStep ==
    ASSUME IInv, TypeOK', [Next]_vars
    PROVE  FinalizerHoldsQueue'
<1>1. CASE Begin
    <2>1. cr # "gone"
        BY <1>1, Zenon DEF IInv, PassShape, Begin
    <2>2. UNCHANGED cr
        BY <1>1, Zenon DEF userVars, Begin
    <2>3. QED
        BY <2>1, <2>2, Zenon DEF FinalizerHoldsQueue
<1>2. CASE Ensure
    BY <1>2, EnsureFacts, Zenon DEF IInv, FinalizerHoldsQueue, PassShape, EnsureSteps
<1>3. CASE CleanupEntry
    BY <1>3, CleanupFacts, Zenon DEF IInv, FinalizerHoldsQueue, PassShape, CleanupSteps
<1>4. CASE Persist
    <2> SUFFICES ASSUME cr' = "gone", queue'.exists, IsOwnedBy(queue'.tags)
                 PROVE  ("claim" \in forgotten)'
        BY DEF FinalizerHoldsQueue
    <2>1. UNCHANGED queue /\ pc = "persist"
        BY <1>4, Zenon DEF Persist
    <2>2. Finalized
        BY <1>4, <2>1 DEF Persist, IInv, PassShape
    <2>3. ~StillDeclared
        BY <2>2, Zenon DEF Finalized, StillDeclared
    <2>4. mem.state # "Verified"
        BY <2>1, <2>2, <2>3, Zenon DEF Finalized, IInv, DeletionShape
    <2>5. "claim" \in forgotten
        BY <2>1, <2>3, <2>4 DEF IInv, Tracked, Ours, PassShape
    <2>6. store.state # "Verified"
        BY <2>5, Zenon DEF IInv, ForgottenShape
    <2>7. forgotten' = Forgotten(mem) \/ forgotten' = Forgotten(store)
        BY <1>4 DEF Persist, EndPass
    <2>8. QED
        BY <2>4, <2>5, <2>6, <2>7 DEF Forgotten
<1>5. CASE Checkpoint
    <2>1. cr # "gone"
        BY <1>5 DEF IInv, PassShape, Checkpoint
    <2>2. UNCHANGED cr
        BY <1>5, Zenon DEF userVars, Checkpoint
    <2>3. QED
        BY <2>1, <2>2 DEF FinalizerHoldsQueue
<1>6. CASE Faults
    <2>1. CASE CallFails
        BY <2>1, CallFailsFacts, Zenon DEF IInv, FinalizerHoldsQueue, PassShape, EnsureSteps, CleanupSteps
    <2>2. CASE Crash
        BY <2>2, CrashFacts DEF IInv, PassShape, FinalizerHoldsQueue, IdleView, Undeclared, NoEntry, Never
    <2>3. QED
        BY <1>6, <2>1, <2>2 DEF Faults
<1>7. CASE Users
    BY <1>7, UserFacts, ZenonT(40) DEF IInv, FinalizerHoldsQueue
<1>8. CASE Messages
    <2>1. TypeOK
        BY DEF IInv
    <2>2. /\ UNCHANGED <<spec, cr, forceAll, calm, store, pc, view, mem, err, lifted, claimed, forgotten, raced, moved>>
          /\ queue'.exists = queue.exists /\ queue'.tags = queue.tags
        BY <1>8, <2>1, MessageFacts
    <2>3. QED
        BY <2>2, Zenon DEF IInv, FinalizerHoldsQueue
<1>9. CASE Outside
    <2>1. TypeOK
        BY DEF IInv
    <2>2. ~Ours'
        BY <1>9, <2>1, OutsideFacts
    <2>3. QED
        BY <2>2, Zenon DEF FinalizerHoldsQueue, Ours
<1>10. CASE Tick
    BY <1>10 DEF IInv, FinalizerHoldsQueue, Tick, OlderEntry, Older, userVars, historyVars, Never
<1>11. CASE UNCHANGED vars
    BY <1>11 DEF IInv, FinalizerHoldsQueue, vars
<1>12. QED
    BY <1>1, <1>2, <1>3, <1>4, <1>5, <1>6, <1>7, <1>8, <1>9, <1>10, <1>11 DEF Next, Pass

-----------------------------------------------------------------------------
(* The theorems.                                                           *)

\* The initial states, an empty ledger and at most a foreign queue, satisfy
\* the invariant.
LEMMA InitIInv == Init => IInv
<1> SUFFICES ASSUME Init PROVE IInv
    OBVIOUS
<1>1. pc = "idle" /\ cr # "gone" /\ forgotten = {} /\ store = NoEntry
    BY DEF Init
<1>2. TypeOK
    BY InitType
<1>3. queue.deny = Never /\ ~Ours
    <2>1. CASE queue = NoQueue
        BY <2>1, NewQueueFields, Zenon DEF Ours
    <2>2. CASE \E t \in ForeignTags : queue = NewQueue(t)
        BY <2>2, NewQueueFields, TagFacts DEF Ours, IsOwnedBy
    <2>3. QED
        BY <2>1, <2>2 DEF Init
<1>4. PassShape
    BY Zenon DEF Init, PassShape, EnsureSteps, StillDeclared, IdleView, Undeclared
<1>5. EntryShape(store) /\ EntryShape(mem) /\ DeniedSince(store)
    BY DEF Init, EntryShape, DeniedSince, NoEntry
<1>6. DeletionShape /\ SettledSoFar /\ DeletesOnlyDrained /\ ChangesOnlyOwned
    BY <1>1, Zenon DEF DeletionShape, SettledSoFar, DeletesOnlyDrained, ChangesOnlyOwned
<1>7. Tracked(store) /\ ForgottenShape /\ SendsStopped /\ FinalizerHoldsQueue
    BY <1>1, <1>3, Zenon DEF Tracked, ForgottenShape, SendsStopped, FinalizerHoldsQueue
<1>8. QED
    BY <1>1, <1>2, <1>4, <1>5, <1>6, <1>7, Zenon DEF IInv

\* Every step of a pass, of the users, of AWS and of everybody else keeps it.
LEMMA NextIInv == IInv /\ [Next]_vars => IInv'
<1> SUFFICES ASSUME IInv, [Next]_vars PROVE IInv'
    OBVIOUS
<1>1. TypeOK'
    BY TypeStep DEF IInv
<1>2. PassShape' /\ EntryShape(store)' /\ EntryShape(mem)' /\ DeletionShape'
    BY <1>1, PassShapeStep, EntryShapeStep, DeletionShapeStep
<1>3. DeniedSince(store)' /\ (pc # "idle" => DeniedSince(mem))'
    BY <1>1, DeniedSinceStep
<1>4. Tracked(store)' /\ (pc # "idle" => Tracked(mem))'
    BY <1>1, TrackedStep
<1>5. ForgottenShape' /\ SendsStopped' /\ SettledSoFar'
    BY <1>1, ForgottenShapeStep, SendsStoppedStep, SettledSoFarStep
<1>6. ChangesOnlyOwned' /\ DeletesOnlyDrained' /\ FinalizerHoldsQueue'
    BY <1>1, ChangesOnlyOwnedStep, DeletesOnlyDrainedStep, FinalizerHoldsQueueStep
<1>7. QED
    BY <1>1, <1>2, <1>3, <1>4, <1>5, <1>6, Zenon DEF IInv

\* The invariant holds in every state of every behaviour.
THEOREM Invariance == Spec => []IInv
BY InitIInv, NextIInv, PTL DEF Spec

\* Without force, an undeclared queue is deleted only when it holds no message,
\* whatever the quiet window, the propagation delay of the deny and the lag of
\* the counters, as long as the first covers the sum of the other two.
THEOREM DrainedBeforeDeletion == Spec => []DeletesOnlyDrained
<1>1. IInv => DeletesOnlyDrained
    BY DEF IInv
<1>2. QED
    BY <1>1, Invariance, PTL

\* Cleanup untags, denies and deletes only a queue it has read as this CR's.
THEOREM OwnedBeforeChange == Spec => []ChangesOnlyOwned
<1>1. IInv => ChangesOnlyOwned
    BY DEF IInv
<1>2. QED
    BY <1>1, Invariance, PTL

\* A queue the persisted ledger calls pending is denied new messages, but for
\* a lift that went unrecorded.
THEOREM DeniedWhilePending == Spec => []PendingMeansDenied
<1>1. IInv => PendingMeansDenied
    <2> SUFFICES ASSUME IInv, pc = "idle", store.state = "Verified", store.pending # Never,
                        queue.exists, IsOwnedBy(queue.tags), "lift" \notin forgotten
                 PROVE  queue.deny # Never
        BY DEF PendingMeansDenied
    <2>1. ~lifted
        BY DEF IInv, PassShape
    <2>2. queue.deny >= store.pending
        BY <2>1, Zenon DEF IInv, DeniedSince, Ours
    <2>3. store.pending \in Nat /\ queue.deny \in Int
        BY LedgerAssumption DEF IInv, TypeOK, Entry, Queues, Age, Never
    <2>4. QED
        BY <2>2, <2>3 DEF Never
<1>2. QED
    BY <1>1, Invariance, PTL

\* A pass over a declared queue that ends without an error has carried the
\* declaration into the ledger and cancelled a pending deletion.
THEOREM DeclarationSettles == Spec => []CleanPassSettles
<1>1. IInv => CleanPassSettles
    <2> SUFFICES ASSUME IInv, pc = "persist", StillDeclared, err = "none", ~moved
                 PROVE  mem = [VerifiedEntry(view.spec.policy, view.spec.force) EXCEPT !.verified = mem.verified]
        BY Zenon DEF CleanPassSettles
    <2>1. /\ mem.state = "Verified" /\ mem.pending = Never
          /\ mem.policy = view.spec.policy /\ mem.force = view.spec.force
        BY Zenon DEF IInv, SettledSoFar
    <2>2. mem.checked = Never
        BY <2>1, Zenon DEF IInv, EntryShape
    <2>3. mem \in Entry
        BY DEF IInv, TypeOK
    <2>4. QED
        BY <2>1, <2>2, <2>3 DEF Entry, VerifiedEntry
<1>2. QED
    BY <1>1, Invariance, PTL

\* The finalizer is removed only when no queue of the CR's is left, but for one
\* whose creation or adoption went unrecorded.
THEOREM FinalizerWaits == Spec => []FinalizerHoldsQueue
<1>1. IInv => FinalizerHoldsQueue
    BY DEF IInv
<1>2. QED
    BY <1>1, Invariance, PTL
=============================================================================
