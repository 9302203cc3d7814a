---------------------------- MODULE StoresSteps ----------------------------
(***************************************************************************)
(* The induction behind what Stores promises, and the steps that topics,   *)
(* buckets and tables share.  The steps of a pass come down to a few       *)
(* effects: those are shown to keep the induction first, and then each     *)
(* shared step, user and tick of the clock to have one.  StoresProofs does *)
(* the same for the steps of each kind and states the theorems.            *)
(***************************************************************************)
EXTENDS Stores, TLAPS

-----------------------------------------------------------------------------
(* The induction.                                                          *)

AllData == {"subscriptions", "objects", "uploads", "items"}

\* The states of an entry that say the resource is the CR's.
Recorded == {"Verified", "Creating"}

Ensuring == pc \in {"ensure", "lookup", "head", "create", "tags", "adopt", "record", "trusted",
                    "attributes", "policy"}

Retaining == pc \in {"release", "untag", "undeny"}

Deleting == Destroying \/ pc \in {"verify", "deny", "empty"}

\* What is in a resource that was denied a while ago has had a while to show.
Timely(r) == r.deny = Never \/ r.shown = ListLag \/ r.deny <= r.shown + DenyDelay

TypeInv ==
    /\ kind \in {"topic", "bucket", "table"}
    /\ PassTypeOK(AllData) /\ Timely(resource)
    /\ kind = "bucket" => resource.data \subseteq {"objects", "uploads"}

\* Which steps a pass takes with which declaration and which entry.
ControlInv ==
    /\ Ensuring \/ Retaining \/ Deleting \/ pc \in {"idle", "cleanup", "restore", "persist"}
    /\ cr = "gone" => pc = "idle"
    /\ Ensuring \/ pc = "restore" => StillDeclared
    /\ Retaining \/ Deleting => ~StillDeclared /\ mem.state # "None"
    /\ Deleting => mem.policy = "Delete"
    /\ pc = "persist" /\ ~err /\ view.deleting /\ mem.state \in Recorded => mem.policy = "Delete"

\* What the tags last read still say.
OwnInv ==
    /\ ChangesOnlyOwned
    /\ pc = "adopt" \/ (kind = "topic" /\ pc = "undeny") => ~IsOwnedBy(resource.tags)

\* Whatever is tagged as the CR's is recorded, in the ledger and in the pass's
\* copy, unless the ledger never learnt of it.
ClaimInv ==
    /\ Mine /\ "claim" \notin forgotten => store.state \in Recorded
    /\ Mine /\ "claim" \notin forgotten /\ pc # "idle" => mem.state \in Recorded
    /\ Mine /\ store.state \in Recorded /\ pc # "idle" => mem.state \in Recorded
    /\ store.state \in Recorded /\ (StillDeclared \/ pc = "cleanup") => mem.state \in Recorded
    /\ FinalizerHoldsResource

\* A mark is no older than the deny, and an attempt to destroy the resource
\* without force comes after the mark has stood for the quiet window.
NoticeInv ==
    /\ store.state = "None" => store.pending = Never
    /\ mem.state = "None" => mem.pending = Never
    /\ Mine /\ "lift" \notin forgotten /\ store.pending # Never
          => resource.deny # Never /\ store.pending <= resource.deny
    /\ Mine /\ "lift" \notin forgotten /\ mem.pending # Never
          => resource.deny # Never /\ mem.pending <= resource.deny
    /\ pc # "idle" => store.pending = Never \/ mem.pending = Never \/ mem.pending = store.pending
    /\ pc \notin {"idle", "persist"} /\ ~StillDeclared => mem.pending = store.pending
    /\ pc \in {"deny", "empty"} => ~Forced
    /\ pc = "deny" => mem.pending = Never
    /\ pc = "verify" /\ ~Forced => mem.pending = Never \/ mem.pending >= DeletionQuietWindow
    /\ (Destroying \/ pc = "empty") /\ ~Forced => mem.pending >= DeletionQuietWindow

CoreInv == TypeInv /\ ControlInv /\ OwnInv /\ ClaimInv /\ NoticeInv

\* A lost table is recorded wherever its loss could be overlooked.
LossInv ==
    /\ missing \in BOOLEAN /\ LostTableIsNotReplaced
    /\ missing => /\ kind = "table" /\ spec.declared /\ cr = "live" /\ store.state \in Recorded
                  /\ pc # "idle" => StillDeclared /\ mem.state \in Recorded
    /\ kind = "table" /\ pc = "create" => mem.state \notin Recorded

StoreInv == CoreInv /\ LossInv

\* A step of SafeDeletion, or none.
Promised == SD!Next \/ UNCHANGED SD!vars

-----------------------------------------------------------------------------
(* The operators of the model.                                             *)

\* An age grows by one tick, up to MaxAge, in step with every other.
LEMMA OlderFacts ==
    /\ 0 \in Age
    /\ \A a \in Age : Older(a) \in Age
    /\ \A a \in Age \cup {Never} : /\ Older(a) \in Age \cup {Never}
                                   /\ Older(a) = Never <=> a = Never
                                   /\ a >= DeletionQuietWindow => Older(a) >= DeletionQuietWindow
                                   /\ \A b \in Age : a <= b => Older(a) <= Older(b)
BY LedgerAssumption, SMTT(30) DEF Age, Never, Older

\* The entries that are written anew, and what is left of one let go of.
LEMMA EntryFacts ==
    /\ NoEntry \in GatedEntry /\ NoEntry.state = "None" /\ NoEntry.pending = Never
    /\ \A p \in DeletionPolicies, f \in BOOLEAN : VerifiedEntry(p, f) \in GatedEntry
    /\ \A e \in GatedEntry : /\ Relinquished(e) \in GatedEntry /\ Relinquished(e).state = "Relinquished"
                             /\ Relinquished(e).pending = e.pending
BY OlderFacts, Zenon DEF NoEntry, VerifiedEntry, Relinquished, GatedEntry, DeletionPolicies

\* Time changes the timestamps of an entry and nothing else.
LEMMA OlderEntryFacts ==
    ASSUME NEW e \in GatedEntry
    PROVE  /\ OlderEntry(e) \in GatedEntry
           /\ OlderEntry(e).state = e.state /\ OlderEntry(e).policy = e.policy
           /\ OlderEntry(e).force = e.force
           /\ e.state # "None" => OlderEntry(e).pending = Older(e.pending)
           /\ e.state = "None" => OlderEntry(e).pending = e.pending
<1>1. /\ Older(e.verified) \in Age /\ Older(e.pending) \in Age \cup {Never}
      /\ Older(e.checked) \in Age \cup {Never}
  BY OlderFacts DEF GatedEntry
<1>2. CASE e.state = "None" BY <1>2 DEF OlderEntry
<1>3. CASE e.state # "None" BY <1>1, <1>3, Zenon DEF OlderEntry, GatedEntry
<1> QED BY <1>2, <1>3

\* What a declaration says, the absent one included.
LEMMA SpecFacts ==
    \A s \in Specs : /\ s.policy \in DeletionPolicies /\ s.force \in BOOLEAN
                     /\ s.declared \in BOOLEAN /\ s.ask \in {"unset", "on", "off"}
<1>1. ASSUME NEW s \in Specs
      PROVE  /\ s.policy \in DeletionPolicies /\ s.force \in BOOLEAN
             /\ s.declared \in BOOLEAN /\ s.ask \in {"unset", "on", "off"}
  <2>1. CASE s = Undeclared BY <2>1 DEF Undeclared, DeletionPolicies
  <2>2. CASE s # Undeclared
    <3>1. PICK d \in Declarations : s = Declared(d) BY <2>2 DEF Specs
    <3>2. d.policy \in DeletionPolicies /\ d.force \in BOOLEAN /\ d.ask \in {"unset", "on", "off"}
      BY <3>1, GateAssumption
    <3> QED BY <3>1, <3>2 DEF Declared
  <2> QED BY <2>1, <2>2
<1> QED BY <1>1

\* What the operator writes is the CR's; what it leaves, or others write, is not.
LEMMA TagFacts ==
    /\ ownerTags \in Tags /\ NoTags \in Tags /\ ~IsOwnedBy(NoTags) /\ IsOwnedBy(ownerTags)
    /\ \A t \in ForeignTags : t \in Tags /\ ~IsOwnedBy(t)
<1>1. ownerTags \in Tags /\ NoTags \in Tags
  BY DEF Tags, ownerTags, NoTags
<1>2. ~IsOwnedBy(NoTags) /\ IsOwnedBy(ownerTags)
  BY OwnershipAssumption DEF ownerTags, NoTags, IsOwnedBy
<1>3. \A t \in ForeignTags : t \in Tags /\ ~IsOwnedBy(t)
  BY GateAssumption, ZenonT(40) DEF IsOwnedBy
<1> QED BY <1>1, <1>2, <1>3

\* No resource, and one just made: empty and open.
LEMMA ResourceFacts ==
    /\ NoResource \in Resource(AllData) /\ ~NoResource.exists /\ NoResource.data = {}
    /\ NoResource.deny = Never /\ NoResource.tags = NoTags /\ Timely(NoResource)
    /\ \A t \in Tags, s \in {"on", "off"}, x \in {"Active", "Creating"} :
          /\ NewResource(t, s, x) \in Resource(AllData)
          /\ NewResource(t, s, x).exists /\ NewResource(t, s, x).tags = t
          /\ NewResource(t, s, x).data = {} /\ NewResource(t, s, x).deny = Never
          /\ Timely(NewResource(t, s, x))
<1>0. ListLag \in 0 .. ListLag BY GateAssumption
<1>1. /\ NoResource \in Resource(AllData) /\ ~NoResource.exists /\ NoResource.data = {}
      /\ NoResource.deny = Never /\ NoResource.tags = NoTags /\ Timely(NoResource)
  BY <1>0, TagFacts DEF NoResource, Resource, Timely
<1>2. ASSUME NEW t \in Tags, NEW s \in {"on", "off"}, NEW x \in {"Active", "Creating"}
      PROVE  /\ NewResource(t, s, x) \in Resource(AllData)
             /\ NewResource(t, s, x).exists /\ NewResource(t, s, x).tags = t
             /\ NewResource(t, s, x).data = {} /\ NewResource(t, s, x).deny = Never
             /\ Timely(NewResource(t, s, x))
  BY <1>0 DEF NewResource, Resource, Timely
<1> QED BY <1>1, <1>2

-----------------------------------------------------------------------------
(* The steps of SafeDeletion, by what they change of the resource, the     *)
(* ledger and the pass.                                                    *)

\* The conditions SafeDeletion's variables stand for are true or false.
LEMMA Truths ==
    /\ Mine \in BOOLEAN /\ Mine' \in BOOLEAN /\ Held \in BOOLEAN /\ Held' \in BOOLEAN
    /\ Destroying \in BOOLEAN /\ Destroying' \in BOOLEAN
    /\ ("lift" \in forgotten) \in BOOLEAN /\ ("lift" \in forgotten') \in BOOLEAN
BY DEF Mine, Held, Destroying

SameResource ==
    /\ Mine' = Mine
    /\ Mine => /\ resource'.deny = resource.deny /\ Held' = Held
               /\ Held => resource'.shown = resource.shown

SameNotice ==
    /\ store'.pending = store.pending
    /\ "lift" \in forgotten' <=> "lift" \in forgotten

\* A step that SafeDeletion does not see.
LEMMA Unseen ==
    ASSUME SameResource, SameNotice, Destroying' = Destroying, Forced' = Forced
    PROVE  Promised
<1>1. UNCHANGED SD!vars
  BY Truths DEF SD!vars, SameResource, SameNotice
<1> QED BY <1>1 DEF Promised

\* A pass that does not go on to destroy, or that stops.
LEMMA GivenUp ==
    ASSUME SameResource, SameNotice, ~Destroying'
    PROVE  Promised
<1>1. SD!GiveUp
  BY Truths DEF SD!GiveUp, SD!Drop, SameResource, SameNotice
<1> QED BY <1>1 DEF Promised, SD!Next

\* The resource stops being the CR's.
LEMMA Lost ==
    ASSUME Mine, ~Mine', SameNotice
    PROVE  Promised
<1>1. SD!Lose
  BY Truths DEF SD!Lose, SD!Drop, SD!Never, Never, SameNotice
<1> QED BY <1>1 DEF Promised, SD!Next

\* The resource becomes the CR's, which the ledger has yet to learn.
LEMMA Acquired ==
    ASSUME ~Mine, Mine', resource' \in Resource(AllData), Timely(resource'),
           store'.pending = store.pending, "lift" \in forgotten', ~Destroying'
    PROVE  Promised
<1>1. resource'.deny \in SD!Ages \cup {SD!Never}
  BY DEF SD!Ages, SD!Never, Age, Never, Resource
<1>2. resource'.shown \in 0 .. ListLag /\ ListLag \in 0 .. ListLag
  BY GateAssumption DEF Resource
<1>3. SD!Acquire
  BY <1>1, <1>2, Truths DEF SD!Acquire, SD!Drop, SD!Settled, SD!Never, Never, Timely
<1> QED BY <1>3 DEF Promised, SD!Next

\* The deny is written.
LEMMA Closed ==
    ASSUME Mine, Mine', SameNotice, Held' = Held, ~Destroying', resource'.shown = resource.shown,
           resource'.deny = IF resource.deny = Never THEN 0 ELSE resource.deny
    PROVE  Promised
<1>1. SD!Close
  BY Truths DEF SD!Close, SD!Drop, SD!Never, Never, SameNotice
<1> QED BY <1>1 DEF Promised, SD!Next

\* The deny is lifted, which the ledger has yet to learn.
LEMMA Reopened ==
    ASSUME Mine' = Mine, ~Destroying',
           Mine => Held' = Held /\ resource'.deny = Never /\ resource'.shown = resource.shown,
           store'.pending = store.pending, "lift" \in forgotten'
    PROVE  Promised
<1>1. SD!Reopen
  BY Truths DEF SD!Reopen, SD!Drop, SD!Never, Never
<1> QED BY <1>1 DEF Promised, SD!Next

\* Somebody adds data while the deny does not stop them.
LEMMA Filled ==
    ASSUME Mine, Mine', SameNotice, Held', Destroying' = Destroying, Forced' = Forced,
           resource'.shown \in 0 .. ListLag, resource'.deny = resource.deny, resource.deny = Never \/ resource.deny < DenyDelay
    PROVE  Promised
<1>1. SD!Fill
  BY Truths DEF SD!Fill, SD!Never, Never, SameNotice
<1> QED BY <1>1 DEF Promised, SD!Next

\* The last data goes.
LEMMA Drained ==
    ASSUME Mine' = Mine, SameNotice, ~Held', Destroying' => Destroying, Forced' = Forced,
           resource'.deny = resource.deny
    PROVE  Promised
<1>1. SD!Drain
  BY Truths DEF SD!Drain, SameNotice
<1> QED BY <1>1 DEF Promised, SD!Next

\* The decision to destroy a resource, by force or for seeming empty.
LEMMA Doomed ==
    ASSUME SameResource, SameNotice, ~Destroying, Forced' = Forced,
           ~Forced => /\ Mine /\ Held => resource.shown < ListLag
                      /\ store.pending >= DeletionQuietWindow
    PROVE  Promised
<1>1. CASE Mine /\ Destroying'
  <2>1. store.pending >= DeletionQuietWindow => store.pending # SD!Never
    BY LedgerAssumption DEF SD!Never
  <2>2. SD!Doom
    BY <1>1, <2>1, Truths DEF SD!Doom, SameResource, SameNotice
  <2> QED BY <2>2 DEF Promised, SD!Next
<1>2. CASE ~Mine /\ Destroying'
  <2>1. UNCHANGED SD!vars
    BY <1>2, Truths DEF SD!vars, SameResource, SameNotice
  <2> QED BY <2>1 DEF Promised
<1> QED BY <1>1, <1>2, GivenUp

\* A write of the ledger: the notice is given, withdrawn or as it was.
LEMMA Written ==
    ASSUME CoreInv, NEW e \in {store, mem}, pc # "idle", store' = e, forgotten' = Forgotten(e),
           UNCHANGED resource, ~Destroying'
    PROVE  Promised
<1>1. SameResource
  BY DEF SameResource, Mine, Held
<1>2. "lift" \in forgotten' <=> "lift" \in forgotten /\ e.pending # Never
  BY DEF Forgotten
<1>3. CASE e.pending = Never
  <2>1. SD!Withdraw
    BY <1>1, <1>2, <1>3, Truths DEF SD!Withdraw, SD!Drop, SD!Never, Never, SameResource
  <2> QED BY <2>1 DEF Promised, SD!Next
<1>4. CASE e.pending # Never /\ e.pending = store.pending
  BY <1>1, <1>2, <1>4, GivenUp, Zenon DEF SameNotice
<1>5. CASE e.pending # Never /\ e.pending # store.pending
  <2>1. store.pending = Never
    BY <1>5 DEF CoreInv, NoticeInv
  <2>2. e.pending \in SD!Ages
    BY <1>5, Zenon DEF CoreInv, TypeInv, PassTypeOK, GatedEntry, SD!Ages, Age
  <2>3. Mine /\ "lift" \notin forgotten => resource.deny # Never /\ e.pending <= resource.deny
    BY <1>5 DEF CoreInv, NoticeInv
  <2>4. SD!Announce
    BY <1>1, <1>2, <1>5, <2>1, <2>2, <2>3, Truths, Zenon
    DEF SD!Announce, SD!Drop, SD!Never, Never, SameResource
  <2> QED BY <2>4 DEF Promised, SD!Next
<1> QED BY <1>3, <1>4, <1>5

-----------------------------------------------------------------------------
(* What a step of a pass may do, of whichever kind.                        *)

\* It leaves what users and the ledger say, and what the pass has read.
Works ==
    /\ UNCHANGED <<kind, spec, cr, forceAll, calm, store, view>>
    /\ resource' \in Resource(AllData) /\ Timely(resource') /\ resource'.data \subseteq resource.data
    /\ mem' \in GatedEntry /\ err' \in BOOLEAN /\ raced' \in BOOLEAN

\* A step of a pass keeps the types.
LEMMA WorksType ==
    ASSUME TypeInv, Works, forgotten' \subseteq {"lift", "claim"}
    PROVE  TypeInv'
BY ZenonT(40) DEF TypeInv, PassTypeOK, Works

\* The resource stays what and whose it is.
Kept ==
    /\ resource'.exists = resource.exists /\ resource'.tags = resource.tags
    /\ resource'.data = resource.data /\ resource'.shown = resource.shown
    /\ resource'.status = "Deleting" <=> resource.status = "Deleting"

Untouched == Kept /\ resource'.deny = resource.deny /\ forgotten' = forgotten

Lifted == Kept /\ resource'.deny = Never /\ forgotten' = forgotten \cup {"lift"}

Claimed == ~Mine /\ forgotten' = forgotten \cup {"lift", "claim"}

Gone == ~Mine' /\ forgotten' = forgotten

\* A resource that is kept is whose it was, with what it held.
LEMMA KeptFacts ==
    ASSUME Kept
    PROVE  Mine' = Mine /\ Held' = Held /\ resource'.shown = resource.shown
BY DEF Kept, Mine, Held

\* A step of Ensure.
LEMMA EnsureKeeps ==
    ASSUME CoreInv, Works, Ensuring, Ensuring' \/ pc' = "cleanup",
           pc' = "adopt" => ~IsOwnedBy(resource'.tags),
           \/ mem'.state = mem.state /\ mem'.pending = mem.pending
           \/ mem'.state \in Recorded /\ mem'.pending = Never,
           Untouched \/ Lifted \/ Claimed
    PROVE  CoreInv' /\ Promised
<1>0. /\ ~Destroying /\ ~Destroying' /\ ~Deleting' /\ ~Retaining' /\ StillDeclared' = StillDeclared
      /\ StillDeclared /\ pc' \notin {"idle", "persist", "restore", "undeny"} /\ cr' # "gone"
      /\ pc \notin {"idle", "persist"}
  BY DEF Destroying, Ensuring, Deleting, Retaining, StillDeclared, Works, CoreInv, ControlInv
<1>1. TypeInv'
  BY WorksType, Zenon DEF CoreInv, TypeInv, PassTypeOK, Untouched, Lifted, Claimed
<1>2. ControlInv'
  BY <1>0 DEF ControlInv
<1>3. OwnInv'
  BY <1>0 DEF OwnInv, ChangesOnlyOwned, Deleting, Retaining
<1>4. ClaimInv'
  <2>1. Mine' /\ "claim" \notin forgotten' => Mine /\ "claim" \notin forgotten
    BY KeptFacts, Zenon DEF Untouched, Lifted, Claimed
  <2>2. store' = store /\ (mem.state \in Recorded => mem'.state \in Recorded)
    BY DEF Works
  <2>3. store.state \in Recorded => mem.state \in Recorded
    BY <1>0, Zenon DEF CoreInv, ClaimInv
  <2> QED BY <1>0, <2>1, <2>2, <2>3 DEF CoreInv, ClaimInv, FinalizerHoldsResource
<1>5. NoticeInv'
  <2>1. store' = store /\ (mem'.pending = Never \/ mem'.pending = mem.pending)
    BY DEF Works
  <2>2. Mine' /\ "lift" \notin forgotten' =>
            Mine /\ "lift" \notin forgotten /\ resource'.deny = resource.deny
    BY KeptFacts, Zenon DEF Untouched, Lifted, Claimed
  <2>3. mem'.state = "None" => mem'.pending = Never
    BY DEF CoreInv, NoticeInv, Recorded
  <2> QED BY <1>0, <2>1, <2>2, <2>3, Zenon DEF CoreInv, NoticeInv, Deleting
<1>6. Promised
  <2>0. store'.pending = store.pending BY DEF Works
  <2>1. CASE Untouched
    BY <1>0, <2>0, <2>1, KeptFacts, GivenUp, Zenon DEF Untouched, SameResource, SameNotice
  <2>2. CASE Lifted
    BY <1>0, <2>0, <2>2, KeptFacts, Reopened, Zenon DEF Lifted
  <2>3. CASE Claimed /\ Mine'
    BY <1>0, <2>0, <2>3, Acquired, Zenon DEF Claimed, Works
  <2>4. CASE Claimed /\ ~Mine'
    BY <1>0, <2>0, <2>4, Truths, Reopened, Zenon DEF Claimed
  <2> QED BY <2>1, <2>2, <2>3, <2>4, Zenon
<1> QED BY <1>1, <1>2, <1>3, <1>4, <1>5, <1>6, Zenon DEF CoreInv

\* The last step of a cleanup: the entry is as it was, restored, dropped or
\* marked, and the resource as it was, lifted, gone or closed.
Noted == /\ mem'.state = mem.state /\ mem'.policy = mem.policy /\ mem'.pending = mem.pending
         /\ err' \/ Deleting

Restored == pc = "restore" /\ mem'.state = mem.state /\ mem'.pending = Never

Dropped == /\ pc # "restore" /\ mem'.state \notin Recorded
           /\ ~Mine' \/ mem.state \notin Recorded
           /\ mem'.pending = Never \/ (mem'.pending = mem.pending /\ mem'.state # "None")

Marked == /\ pc = "deny" /\ mem'.state = mem.state /\ mem'.policy = mem.policy /\ mem'.pending = 0
          /\ resource'.deny # Never

Shut == /\ pc = "deny" /\ Kept /\ forgotten' = forgotten
        /\ resource'.deny = IF resource.deny = Never THEN 0 ELSE resource.deny

\* The last step of a cleanup.
LEMMA EndsKeeps ==
    ASSUME CoreInv, Works, pc = "restore" \/ Retaining \/ Deleting, pc' = "persist",
           Noted \/ Restored \/ Dropped \/ Marked,
           Untouched \/ Lifted \/ Gone \/ Shut
    PROVE  CoreInv' /\ Promised
<1>0. /\ ~Ensuring' /\ ~Destroying' /\ ~Deleting' /\ ~Retaining' /\ StillDeclared' = StillDeclared
      /\ (pc # "restore" => ~StillDeclared /\ mem.state # "None")
      /\ (pc = "restore" => StillDeclared) /\ cr' # "gone" /\ pc \notin {"idle", "persist"}
      /\ view' = view /\ store' = store
  BY DEF Ensuring, Destroying, Deleting, Retaining, StillDeclared, Works, CoreInv, ControlInv
<1>1. TypeInv'
  BY WorksType, Zenon DEF CoreInv, TypeInv, PassTypeOK, Untouched, Lifted, Gone, Shut
<1>2. ControlInv'
  <2>1. ~err' /\ view'.deleting /\ mem'.state \in Recorded => mem'.policy = "Delete"
    BY <1>0 DEF CoreInv, ControlInv, Noted, Restored, Dropped, Marked, Deleting, StillDeclared
  <2> QED BY <1>0, <2>1, Zenon DEF ControlInv
<1>3. OwnInv'
  BY <1>0, Zenon DEF OwnInv, ChangesOnlyOwned, Deleting, Retaining
<1>4. ClaimInv'
  <2>1. Mine' => Mine /\ ("claim" \notin forgotten' => "claim" \notin forgotten)
    BY KeptFacts, Zenon DEF Untouched, Lifted, Gone, Shut
  <2>2. (Mine' \/ StillDeclared) /\ mem.state \in Recorded => mem'.state \in Recorded
    BY <1>0, Zenon DEF Noted, Restored, Dropped, Marked
  <2> QED BY <1>0, <2>1, <2>2 DEF CoreInv, ClaimInv, FinalizerHoldsResource
<1>5. NoticeInv'
  <2>1. mem'.state = "None" => mem'.pending = Never
    BY <1>0, Zenon DEF CoreInv, NoticeInv, Noted, Restored, Dropped, Marked
  <2>2. \/ mem'.pending = Never \/ mem'.pending = mem.pending
        \/ mem'.pending = 0 /\ resource'.deny # Never /\ store.pending = Never
    BY <1>0 DEF CoreInv, NoticeInv, Noted, Restored, Dropped, Marked
  <2>3. Mine' /\ "lift" \notin forgotten' =>
            /\ Mine /\ "lift" \notin forgotten
            /\ resource'.deny = resource.deny \/ resource.deny = Never
    BY KeptFacts, Zenon DEF Untouched, Lifted, Gone, Shut
  <2>4. resource'.deny \in Age \cup {Never}
    BY DEF Works, Resource
  <2> QED BY <1>0, <2>1, <2>2, <2>3, <2>4, SMTT(30) DEF CoreInv, NoticeInv, Deleting, Age, Never
<1>6. Promised
  <2>0. store'.pending = store.pending BY <1>0, Zenon
  <2>1. CASE Untouched
    BY <1>0, <2>0, <2>1, KeptFacts, GivenUp, Zenon DEF Untouched, SameResource, SameNotice
  <2>2. CASE Lifted
    BY <1>0, <2>0, <2>2, KeptFacts, Reopened, ZenonT(40) DEF Lifted
  <2>3. CASE Gone /\ Mine
    BY <2>0, <2>3, Lost DEF Gone, SameNotice
  <2>4. CASE (Gone \/ Shut) /\ ~Mine
    BY <1>0, <2>0, <2>4, KeptFacts, Truths, GivenUp, Zenon DEF Gone, Shut, SameResource, SameNotice
  <2>5. CASE Shut /\ Mine
    BY <1>0, <2>0, <2>5, KeptFacts, Closed DEF Shut, SameNotice
  <2> QED BY <2>1, <2>2, <2>3, <2>4, <2>5, Zenon
<1> QED BY <1>1, <1>2, <1>3, <1>4, <1>5, <1>6, ZenonT(40) DEF CoreInv

\* A step from the switch, or from one step of a cleanup, to the next.
LEMMA MovesKeep ==
    ASSUME CoreInv, Works, mem' = mem, pc = "cleanup" \/ Retaining \/ Deleting,
           ~StillDeclared, mem.state # "None",
           Retaining' \/ Deleting', Deleting' => mem.policy = "Delete",
           ChangesOnlyOwned', kind = "topic" /\ pc' = "undeny" => ~IsOwnedBy(resource'.tags),
           pc' \in {"deny", "empty"} => ~Forced, pc' = "deny" => mem.pending = Never,
           pc' = "verify" /\ ~Forced => mem.pending = Never \/ mem.pending >= DeletionQuietWindow,
           (Destroying' \/ pc' = "empty") /\ ~Forced => mem.pending >= DeletionQuietWindow,
           Destroying' => Destroying \/ Forced \/ (Held => resource.shown < ListLag),
           Untouched \/ ((Lifted \/ Gone) /\ ~Destroying')
    PROVE  CoreInv' /\ Promised
<1>0. /\ ~Ensuring' /\ StillDeclared' = StillDeclared /\ Forced' = Forced /\ cr' # "gone"
      /\ pc \notin {"idle", "persist"} /\ pc' \notin {"idle", "persist", "cleanup", "restore", "adopt"}
      /\ view' = view /\ store' = store /\ kind' = kind
  BY DEF Ensuring, Destroying, Deleting, Retaining, StillDeclared, Forced, Works, CoreInv, ControlInv
<1>1. TypeInv'
  BY WorksType, Zenon DEF CoreInv, TypeInv, PassTypeOK, Untouched, Lifted, Gone
<1>2. ControlInv'
  BY <1>0 DEF ControlInv
<1>3. OwnInv'
  BY <1>0, Zenon DEF OwnInv
<1>4. ClaimInv'
  <2>1. Mine' => Mine /\ ("claim" \notin forgotten' => "claim" \notin forgotten)
    BY KeptFacts, Zenon DEF Untouched, Lifted, Gone
  <2> QED BY <1>0, <2>1 DEF CoreInv, ClaimInv, FinalizerHoldsResource
<1>5. NoticeInv'
  <2>1. Mine' /\ "lift" \notin forgotten' =>
            Mine /\ "lift" \notin forgotten /\ resource'.deny = resource.deny
    BY KeptFacts, Zenon DEF Untouched, Lifted, Gone
  <2> QED BY <1>0, <2>1 DEF CoreInv, NoticeInv
<1>6. Promised
  <2>0. store'.pending = store.pending /\ mem.pending = store.pending
    BY <1>0 DEF CoreInv, NoticeInv
  <2>1. CASE Untouched
    <3>1. SameResource /\ SameNotice
      BY <2>0, <2>1, KeptFacts DEF Untouched, SameResource, SameNotice
    <3>2. CASE Destroying' /\ Destroying
      BY <1>0, <3>1, <3>2, Truths, Unseen, Zenon
    <3>3. CASE Destroying' /\ ~Destroying
      BY <1>0, <2>0, <3>1, <3>3, Doomed, Zenon
    <3> QED BY <3>1, <3>2, <3>3, GivenUp, Zenon
  <2>2. CASE Lifted /\ ~Destroying'
    BY <2>0, <2>2, KeptFacts, Reopened, Zenon DEF Lifted
  <2>3. CASE Gone /\ ~Destroying' /\ Mine
    BY <2>0, <2>3, Lost, Zenon DEF Gone, SameNotice
  <2>4. CASE Gone /\ ~Destroying' /\ ~Mine
    BY <2>0, <2>4, Truths, GivenUp, ZenonT(40) DEF Gone, SameResource, SameNotice
  <2> QED BY <2>1, <2>2, <2>3, <2>4, Zenon
<1> QED BY <1>1, <1>2, <1>3, <1>4, <1>5, <1>6, Zenon DEF CoreInv

-----------------------------------------------------------------------------
(* The steps that the three kinds share.                                   *)

\* A step of a pass that changes neither resource nor entry.
LEMMA SameWorks ==
    ASSUME TypeInv, UNCHANGED <<kind, userVars, store, view, resource, mem, forgotten>>,
           err' \in BOOLEAN, raced' \in BOOLEAN
    PROVE  Works /\ Untouched
BY Zenon DEF Works, Untouched, Kept, TypeInv, PassTypeOK, userVars

\* The start of a pass.
LEMMA BeginKeeps ==
    ASSUME CoreInv, Begin, UNCHANGED kind
    PROVE  CoreInv' /\ Promised
<1> USE DEF Begin, GoTo, userVars
<1>0. /\ pc = "idle" /\ mem' = store /\ pc' \in {"ensure", "cleanup"} /\ cr' = cr /\ cr # "gone"
      /\ (pc' = "ensure" => StillDeclared')
      /\ UNCHANGED <<store, resource, forgotten>>
  BY Zenon DEF StillDeclared
<1>1. TypeInv'
  <2>1. view' \in [spec : Specs, deleting : BOOLEAN, forceAll : BOOLEAN]
    BY Zenon DEF CoreInv, TypeInv, PassTypeOK
  <2>2. /\ UNCHANGED <<kind, spec, cr, forceAll, calm, store, resource, forgotten, raced, err>>
        /\ mem' \in GatedEntry
    BY Zenon DEF CoreInv, TypeInv, PassTypeOK
  <2> QED BY <2>1, <2>2, Zenon DEF CoreInv, TypeInv, PassTypeOK
<1>2. ControlInv'
  BY <1>0, Zenon DEF ControlInv, Ensuring, Retaining, Deleting, Destroying
<1>3. OwnInv'
  BY <1>0, SMTT(30) DEF OwnInv, ChangesOnlyOwned, Destroying
<1>4. ClaimInv'
  BY <1>0, ZenonT(40) DEF CoreInv, ClaimInv, FinalizerHoldsResource, Mine
<1>5. NoticeInv'
  BY <1>0 DEF CoreInv, NoticeInv, Destroying, Mine
<1>6. Promised
  <2>1. SameResource /\ SameNotice /\ ~Destroying'
    BY <1>0 DEF SameResource, SameNotice, Destroying, Mine, Held
  <2> QED BY <2>1, GivenUp, ZenonT(40)
<1> QED BY <1>1, <1>2, <1>3, <1>4, <1>5, <1>6, Zenon DEF CoreInv

\* Ensure refuses while the key is not ready.
LEMMA KeyNotReadyKeeps ==
    ASSUME CoreInv, KeyNotReady, UNCHANGED kind
    PROVE  CoreInv' /\ Promised
<1>1. Works /\ Untouched
  BY SameWorks, Zenon DEF KeyNotReady, FailTo, CoreInv, TypeInv, PassTypeOK
<1> QED BY <1>1, EnsureKeeps, ZenonT(40) DEF KeyNotReady, FailTo, Ensuring

\* A call that fails without effect.
LEMMA CallFailsKeeps ==
    ASSUME CoreInv, NEW es, NEW cs, CallFails(es, cs), UNCHANGED kind,
           pc \in es => Ensuring, pc \in cs => pc = "restore" \/ Retaining \/ Deleting
    PROVE  CoreInv' /\ Promised
<1>1. Works /\ Untouched
  BY SameWorks, ZenonT(40) DEF CallFails, FailTo, CoreInv, TypeInv, PassTypeOK
<1>2. CASE pc \in es /\ FailTo("cleanup")
  BY <1>1, <1>2, EnsureKeeps, Zenon DEF CallFails, FailTo
<1>3. CASE pc \in cs /\ FailTo("persist")
  <2>1. Noted BY <1>3 DEF CallFails, FailTo, Noted
  <2> QED BY <1>1, <1>3, <2>1, EndsKeeps, Zenon DEF FailTo
<1> QED BY <1>2, <1>3 DEF CallFails

\* Ensure reads the tags of a resource that exists.
LEMMA JudgeTagsKeeps ==
    ASSUME CoreInv, NEW s \in {"record", "attributes"}, JudgeTags(s), Ensuring, UNCHANGED kind
    PROVE  CoreInv' /\ Promised
<1>1. Works /\ Untouched
  BY SameWorks, Zenon DEF JudgeTags, GoTo, FailTo, CoreInv, TypeInv, PassTypeOK
<1>2. /\ pc' \in {"record", "attributes", "adopt", "cleanup"} /\ mem' = mem
      /\ pc' = "adopt" => ~IsOwnedBy(resource'.tags)
  BY Zenon DEF JudgeTags, GoTo, FailTo
<1> QED BY <1>1, <1>2, EnsureKeeps DEF Ensuring

\* Ensure adopts or takes over.
LEMMA TagAsOwnedKeeps ==
    ASSUME CoreInv, NEW s \in {"record", "attributes"}, pc = "adopt", TagAsOwned(s), UNCHANGED kind
    PROVE  CoreInv' /\ Promised
<1>1. Ensuring /\ (Ensuring' \/ pc' = "cleanup") /\ pc' # "adopt" /\ mem' = mem
  BY DEF TagAsOwned, Done, GoTo, FailTo, Ensuring
<1>2. CASE resource.exists
  <2>1. resource' \in Resource(AllData) /\ Timely(resource') /\ resource'.data = resource.data
    BY <1>2, TagFacts DEF TagAsOwned, CoreInv, TypeInv, PassTypeOK, Resource, Timely
  <2>2. Works
    BY <2>1, Zenon DEF Works, TagAsOwned, Done, GoTo, FailTo, userVars, CoreInv, TypeInv, PassTypeOK
  <2>3. Claimed
    BY <1>2 DEF Claimed, TagAsOwned, CoreInv, OwnInv, Mine
  <2> QED BY <1>1, <2>2, <2>3, EnsureKeeps, Zenon
<1>3. CASE ~resource.exists
  <2>1. Works /\ Untouched
    BY <1>3, SameWorks DEF TagAsOwned, FailTo, CoreInv, TypeInv, PassTypeOK
  <2> QED BY <1>1, <2>1, EnsureKeeps, Zenon
<1> QED BY <1>2, <1>3 DEF CoreInv, TypeInv, PassTypeOK, Resource

\* The switch of Cleanup.
LEMMA CleanupSwitchKeeps ==
    ASSUME CoreInv, NEW r \in {"release", "undeny"}, kind = "topic" => r = "release",
           CleanupSwitch(r), UNCHANGED kind
    PROVE  CoreInv' /\ Promised
<1>1. Works /\ Untouched
  BY SameWorks, Zenon DEF CleanupSwitch, GoTo, CoreInv, TypeInv, PassTypeOK
<1>2. pc = "cleanup" /\ mem' = mem /\ UNCHANGED <<store, view, resource, forgotten, err>>
  BY DEF CleanupSwitch, GoTo
<1>3. CASE mem.state # "None" /\ ~StillDeclared /\ pc' \in {r, "verify"}
  <2>1. /\ Retaining' \/ Deleting'
        /\ Deleting' => mem.policy = "Delete"
        /\ ~Destroying' /\ pc' \notin {"deny", "empty", "untag"}
    BY <1>3, Zenon DEF Retaining, Deleting, Destroying, CleanupSwitch, GoTo
  <2>2. pc' = "verify" /\ ~Forced => mem.pending = Never \/ mem.pending >= DeletionQuietWindow
    BY <1>3, LedgerAssumption
    DEF CleanupSwitch, GoTo, Waiting, CoreInv, TypeInv, PassTypeOK, GatedEntry, Age, Never
  <2>3. ChangesOnlyOwned' /\ ~(kind = "topic" /\ pc' = "undeny")
    BY <1>3, <2>1, Zenon DEF ChangesOnlyOwned
  <2> QED BY <1>1, <1>2, <1>3, <2>1, <2>2, <2>3, MovesKeep, Zenon
<1>4. CASE pc' = "persist" \/ (pc' = "restore" /\ StillDeclared)
  <2>1. /\ ~Ensuring' /\ ~Retaining' /\ ~Deleting' /\ ~Destroying' /\ StillDeclared' = StillDeclared
        /\ pc' \notin {"idle", "cleanup", "adopt", "undeny", "deny", "empty", "verify"}
    BY <1>2, <1>4, Zenon DEF Ensuring, Retaining, Deleting, Destroying, StillDeclared
  <2>2. TypeInv'
    BY <1>1, WorksType, Zenon DEF Untouched, CoreInv, TypeInv, PassTypeOK
  <2>3. ControlInv'
    <3>1. pc' = "persist" /\ view'.deleting /\ mem'.state \in Recorded => mem'.policy = "Delete"
      BY <1>2, <1>4, Zenon DEF CleanupSwitch, GoTo, StillDeclared, Recorded
    <3>2. cr' # "gone" BY <1>1, <1>2 DEF Works, CoreInv, ControlInv
    <3> QED BY <1>2, <1>4, <2>1, <3>1, <3>2, Zenon DEF ControlInv
  <2>4. OwnInv'
    BY <2>1, <1>4, Zenon DEF OwnInv, ChangesOnlyOwned, Deleting
  <2>5. ClaimInv'
    BY <1>1, <1>2, <2>1, Zenon DEF CoreInv, ControlInv, ClaimInv, FinalizerHoldsResource, Mine, Works
  <2>6. NoticeInv'
    BY <1>2, <1>4, <2>1, Zenon DEF CoreInv, NoticeInv, Mine
  <2>7. Promised
    <3>1. SameResource /\ SameNotice
      BY <1>2, Zenon DEF SameResource, SameNotice, Mine, Held
    <3> QED BY <2>1, <3>1, GivenUp, Zenon
  <2> QED BY <2>2, <2>3, <2>4, <2>5, <2>6, <2>7, Zenon DEF CoreInv
<1> QED BY <1>3, <1>4, Zenon DEF CleanupSwitch, GoTo

\* retain reads the tags of what it lets go of.
LEMMA RetainLookupKeeps ==
    ASSUME CoreInv, RetainLookup, UNCHANGED kind
    PROVE  CoreInv' /\ Promised
<1>1. /\ pc = "release" /\ UNCHANGED <<kind, userVars, store, resource, view, forgotten>>
      /\ raced' = FALSE /\ err' = err /\ pc' \in {"persist", "untag"}
  BY Zenon DEF RetainLookup, GoTo
<1>2. mem' \in {mem, NoEntry, Relinquished(mem)}
  BY DEF RetainLookup, GoTo, LetGo
<1>3. Works /\ Untouched
  <2>1. mem' \in GatedEntry BY <1>2, EntryFacts, ZenonT(40) DEF CoreInv, TypeInv, PassTypeOK
  <2> QED BY <1>1, <2>1, Zenon DEF Works, Untouched, Kept, userVars, CoreInv, TypeInv, PassTypeOK
<1>4. Retaining /\ ~StillDeclared /\ mem.state # "None"
  BY <1>1 DEF Retaining, CoreInv, ControlInv
<1>5. CASE pc' = "untag"
  <2>1. mem' = mem /\ IsOwnedBy(resource'.tags)
    BY <1>1, <1>5 DEF RetainLookup, GoTo
  <2> QED BY <1>1, <1>3, <1>4, <1>5, <2>1, MovesKeep, Zenon
          DEF Retaining, Deleting, Destroying, ChangesOnlyOwned
<1>6. CASE pc' = "persist"
  <2>0. mem \in GatedEntry BY DEF CoreInv, TypeInv, PassTypeOK
  <2>1. mem'.state \notin Recorded
    BY <1>1, <1>6, <2>0, EntryFacts, Zenon DEF RetainLookup, GoTo, LetGo, Recorded
  <2>2. mem.state \notin Recorded \/ ~Mine'
    BY <1>1, <1>6 DEF RetainLookup, GoTo, Recorded, Mine
  <2>3. mem'.pending = Never \/ (mem'.pending = mem.pending /\ mem'.state # "None")
    BY <1>2, <1>4, <2>0, EntryFacts, Zenon
  <2>4. Dropped BY <1>1, <2>1, <2>2, <2>3, ZenonT(40) DEF Dropped
  <2> QED BY <1>3, <1>4, <1>6, <2>4, EndsKeeps, Zenon
<1> QED BY <1>1, <1>5, <1>6, Zenon

\* verifyOwned reads the tags of what is to be deleted.
LEMMA VerifyThenKeeps ==
    ASSUME CoreInv, NEW s \in {"delete", "purge", "unprotect"}, VerifyThen(s), UNCHANGED kind
    PROVE  CoreInv' /\ Promised
<1>1. /\ pc = "verify" /\ UNCHANGED <<kind, userVars, store, resource, view, forgotten>>
      /\ raced' = FALSE /\ err' \in {err, TRUE} /\ mem' \in {mem, NoEntry}
      /\ pc' \in {"persist", "deny", "empty", s}
  BY Zenon DEF VerifyThen, GoTo, FailTo
<1>2. Works /\ Untouched
  <2>1. mem' \in GatedEntry /\ err' \in BOOLEAN
    BY <1>1, EntryFacts, Zenon DEF CoreInv, TypeInv, PassTypeOK
  <2> QED BY <1>1, <2>1, Zenon DEF Works, Untouched, Kept, userVars, CoreInv, TypeInv, PassTypeOK
<1>3. Deleting /\ ~StillDeclared /\ mem.state # "None" /\ mem.policy = "Delete" /\ ~Destroying
  BY <1>1, SMTT(30) DEF Deleting, Destroying, CoreInv, ControlInv
<1>4. CASE pc' # "persist"
  <2>1. /\ mem' = mem /\ IsOwnedBy(resource'.tags) /\ Deleting' /\ pc' # "undeny"
        /\ pc' = IF Forced THEN s ELSE IF mem.pending = Never THEN "deny" ELSE "empty"
    BY <1>1, <1>4, Zenon DEF VerifyThen, GoTo, FailTo, Deleting, Destroying
  <2>2. ~Forced => mem.pending = Never \/ mem.pending >= DeletionQuietWindow
    BY <1>1, Zenon DEF CoreInv, NoticeInv
  <2>3. Destroying' => Forced
    BY <2>1, Zenon DEF Destroying
  <2> QED BY <1>2, <1>3, <2>1, <2>2, <2>3, MovesKeep, ZenonT(40) DEF ChangesOnlyOwned
<1>5. CASE pc' = "persist"
  <2>1. CASE ~resource.exists
    <3>1. Dropped BY <1>1, <2>1 DEF Dropped, VerifyThen, GoTo, FailTo, NoEntry, Recorded, Mine
    <3> QED BY <1>2, <1>3, <1>5, <3>1, EndsKeeps, ZenonT(40)
  <2>2. CASE resource.exists
    <3>1. Noted BY <1>3, <1>5, <2>2, Zenon DEF Noted, VerifyThen, GoTo, FailTo
    <3> QED BY <1>2, <1>3, <1>5, <3>1, EndsKeeps, Zenon
  <2> QED BY <2>1, <2>2
<1> QED BY <1>4, <1>5

\* restoreDeclared lifts the deny and clears the mark.
LEMMA RestoreKeeps ==
    ASSUME CoreInv, NEW n \in BOOLEAN, pc = "restore", UNCHANGED kind,
           LiftDeny([mem EXCEPT !.pending = Never, !.checked = Never], n)
    PROVE  CoreInv' /\ Promised
<1>1. /\ UNCHANGED <<kind, userVars, store, view, raced>> /\ err' \in {err, TRUE} /\ pc' = "persist"
      /\ resource' = [resource EXCEPT !.deny = Never] /\ forgotten' = forgotten \cup {"lift"}
      /\ \/ mem' = [mem EXCEPT !.pending = Never, !.checked = Never]
         \/ mem' = mem /\ err'
  BY Zenon DEF LiftDeny, GoTo, FailTo
<1>2. resource' \in Resource(AllData) /\ Timely(resource') /\ Lifted /\ resource'.data = resource.data
  BY <1>1 DEF CoreInv, TypeInv, PassTypeOK, Resource, Lifted, Kept, Timely
<1>3. mem' \in GatedEntry /\ err' \in BOOLEAN
  BY <1>1, ZenonT(40) DEF CoreInv, TypeInv, PassTypeOK, GatedEntry
<1>4. Works
  BY <1>1, <1>2, <1>3 DEF Works, userVars, CoreInv, TypeInv, PassTypeOK
<1>5. Noted \/ Restored
  BY <1>1, Zenon DEF Noted, Restored, CoreInv, TypeInv, PassTypeOK, GatedEntry
<1> QED BY <1>1, <1>2, <1>4, <1>5, EndsKeeps, ZenonT(40)

\* The deny, and then the mark.
LEMMA DenyThenMarkKeeps ==
    ASSUME CoreInv, DenyThenMark, UNCHANGED kind
    PROVE  CoreInv' /\ Promised
<1>1. /\ pc = "deny" /\ UNCHANGED <<kind, userVars, store, view, forgotten, raced>>
      /\ err' \in {err, TRUE} /\ pc' = "persist" /\ Deleting
  BY Zenon DEF DenyThenMark, GoTo, FailTo, Deleting
<1>2. CASE resource.exists
  <2>1. /\ resource' \in Resource(AllData) /\ Shut /\ resource'.data = resource.data
        /\ resource'.deny # Never /\ Timely(resource')
    <3>1. resource' = [resource EXCEPT !.deny = IF resource.deny = Never THEN 0 ELSE resource.deny]
      BY <1>2, Zenon DEF DenyThenMark
    <3>2. 0 \in Age /\ 0 # Never BY OlderFacts DEF Never
    <3>3. /\ resource' \in Resource(AllData) /\ Shut /\ resource'.data = resource.data
          /\ resource'.deny # Never
      BY <1>1, <3>1, <3>2 DEF CoreInv, TypeInv, PassTypeOK, Resource, Shut, Kept
    <3>4. resource.shown \in Nat /\ resource'.shown = resource.shown
      BY <3>3, GateAssumption DEF CoreInv, TypeInv, PassTypeOK, Resource, Shut, Kept
    <3>5. Timely(resource')
      BY <3>3, <3>4, GateAssumption DEF CoreInv, TypeInv, Shut, Timely
    <3> QED BY <3>3, <3>5
  <2>2. mem' = mem \/ mem' = [mem EXCEPT !.pending = 0]
    BY <1>2 DEF DenyThenMark
  <2>3. mem' \in GatedEntry /\ (Noted \/ Marked)
    BY <1>1, <2>1, <2>2, OlderFacts, SMTT(30) DEF CoreInv, TypeInv, PassTypeOK, GatedEntry, Noted, Marked
  <2>4. Works
    BY <1>1, <2>1, <2>3, Zenon DEF Works, userVars, CoreInv, TypeInv, PassTypeOK
  <2> QED BY <1>1, <2>1, <2>3, <2>4, EndsKeeps, Zenon
<1>3. CASE ~resource.exists
  <2>1. mem' = mem /\ resource' = resource BY <1>3 DEF DenyThenMark
  <2>2. Works /\ Untouched /\ Noted
    BY <1>1, <2>1, SameWorks, Zenon DEF Noted, CoreInv, TypeInv, PassTypeOK
  <2> QED BY <1>1, <2>2, EndsKeeps
<1> QED BY <1>2, <1>3

\* The gate: empty, or not yet.
LEMMA GateOnKeeps ==
    ASSUME CoreInv, NEW e \in BOOLEAN, NEW s \in {"delete", "purge", "unprotect"}, GateOn(e, s),
           e /\ Held => resource.shown < ListLag, UNCHANGED kind
    PROVE  CoreInv' /\ Promised
<1>1. /\ pc = "empty" /\ UNCHANGED <<kind, userVars, store, resource, view, forgotten, raced>>
      /\ err' \in {err, TRUE} /\ pc' \in {"persist", s} /\ Deleting
      /\ mem' = mem \/ mem' = [mem EXCEPT !.checked = 0]
  BY Zenon DEF GateOn, GoTo, FailTo, Deleting
<1>2. /\ mem' \in GatedEntry
      /\ mem'.state = mem.state /\ mem'.policy = mem.policy /\ mem'.pending = mem.pending
  BY <1>1, OlderFacts DEF CoreInv, TypeInv, PassTypeOK, GatedEntry
<1>3. Works /\ Untouched
  BY <1>1, <1>2, Zenon DEF Works, Untouched, Kept, userVars, CoreInv, TypeInv, PassTypeOK
<1>4. CASE pc' = "persist"
  BY <1>1, <1>2, <1>3, <1>4, EndsKeeps, Zenon DEF Noted
<1>5. CASE pc' # "persist"
  <2>1. /\ mem' = mem /\ resource.exists /\ (Held => resource.shown < ListLag)
        /\ Deleting' /\ pc' \notin {"undeny", "verify", "deny", "empty"}
    BY <1>1, <1>5 DEF GateOn, GoTo, FailTo, Deleting, Destroying
  <2>2. ~StillDeclared /\ mem.state # "None" /\ mem.policy = "Delete"
    BY <1>1 DEF CoreInv, ControlInv
  <2>3. ChangesOnlyOwned'
    BY <1>1, Zenon DEF CoreInv, OwnInv, ChangesOnlyOwned
  <2>4. ~Forced => mem.pending >= DeletionQuietWindow
    BY <1>1, Zenon DEF CoreInv, NoticeInv
  <2> QED BY <1>1, <1>3, <2>1, <2>2, <2>3, <2>4, MovesKeep, Zenon
<1> QED BY <1>4, <1>5

\* What the ledger still does not know once e is written.
LEMMA ForgottenFacts ==
    ASSUME NEW e
    PROVE  /\ Forgotten(e) \subseteq forgotten
           /\ "lift" \in Forgotten(e) <=> "lift" \in forgotten /\ e.pending # Never
           /\ "claim" \in Forgotten(e) <=> "claim" \in forgotten /\ e.state \notin Recorded
BY DEF Forgotten, Recorded

\* The end of a pass, whichever ledger it leaves behind.
LEMMA EndPassKeeps ==
    ASSUME CoreInv, NEW e \in {store, mem}, pc # "idle", EndPass(e),
           UNCHANGED <<kind, spec, forceAll, calm, resource>>,
           cr' = cr \/ (cr' = "gone" /\ (Mine => "claim" \in Forgotten(e)))
    PROVE  CoreInv' /\ Promised
<1>0. /\ pc' = "idle" /\ mem' = NoEntry /\ store' = e /\ forgotten' = Forgotten(e) /\ view' = IdleView
      /\ err' = FALSE /\ raced' = FALSE
      /\ ~StillDeclared' /\ ~Destroying' /\ ~Ensuring' /\ ~Retaining' /\ ~Deleting'
      /\ Mine' = Mine /\ cr # "gone"
  BY DEF EndPass, IdleView, Undeclared, StillDeclared, Destroying, Ensuring, Retaining, Deleting, Mine,
         CoreInv, ControlInv
<1>1. TypeInv'
  <2>1. view' \in [spec : Specs, deleting : BOOLEAN, forceAll : BOOLEAN]
    BY <1>0, SMTT(30) DEF IdleView, Specs
  <2>2. /\ UNCHANGED <<kind, spec, forceAll, calm, resource>> /\ cr' \in {"live", "deleting", "gone"}
        /\ mem' \in GatedEntry /\ store' \in GatedEntry /\ forgotten' \subseteq {"lift", "claim"}
    BY <1>0, EntryFacts, ForgottenFacts, ZenonT(40) DEF CoreInv, TypeInv, PassTypeOK
  <2> QED BY <1>0, <2>1, <2>2, ZenonT(40) DEF CoreInv, TypeInv, PassTypeOK
<1>2. ControlInv'
  BY <1>0 DEF ControlInv
<1>3. OwnInv'
  BY <1>0, Zenon DEF OwnInv, ChangesOnlyOwned
<1>4. ClaimInv'
  BY <1>0, ForgottenFacts, EntryFacts, ZenonT(40) DEF CoreInv, ClaimInv, FinalizerHoldsResource
<1>5. NoticeInv'
  BY <1>0, ForgottenFacts, EntryFacts, ZenonT(40) DEF CoreInv, NoticeInv
<1>6. Promised
  BY <1>0, Written, Zenon
<1> QED BY <1>1, <1>2, <1>3, <1>4, <1>5, <1>6, ZenonT(40) DEF CoreInv

\* The status write at the end of a pass, and the finalizer.
LEMMA PersistKeeps ==
    ASSUME CoreInv, Persist, UNCHANGED kind
    PROVE  CoreInv' /\ Promised
<1>1. /\ pc = "persist" /\ UNCHANGED <<spec, forceAll, calm, resource>>
      /\ EndPass(mem) \/ EndPass(store)
      /\ cr' = cr \/ (Finalized /\ cr' = "gone")
  BY Zenon DEF Persist
<1>2. Finalized /\ Mine => "claim" \in Forgotten(mem) /\ "claim" \in Forgotten(store)
  <2>1. Finalized => mem.state \notin Recorded
    BY <1>1, Zenon DEF Finalized, Recorded, CoreInv, ControlInv
  <2> QED BY <1>1, <2>1, ForgottenFacts, Zenon DEF CoreInv, ClaimInv
<1> QED BY <1>1, <1>2, EndPassKeeps, Zenon

\* A crash.
LEMMA CrashKeeps ==
    ASSUME CoreInv, Crash, UNCHANGED kind
    PROVE  CoreInv' /\ Promised
BY EndPassKeeps DEF Crash, userVars

\* A checkpoint, which may bring a newer spec.
LEMMA CheckpointKeeps ==
    ASSUME CoreInv, Checkpoint, UNCHANGED kind
    PROVE  CoreInv' /\ Promised
<1>0. /\ pc \in {"cleanup", "persist"} /\ store' = mem /\ forgotten' = Forgotten(mem)
      /\ UNCHANGED <<kind, spec, cr, forceAll, calm, resource, pc, mem, err, raced>>
      /\ view' = view \/ (pc = "cleanup" /\ view' = [view EXCEPT !.spec = spec])
      /\ view'.deleting = view.deleting /\ view'.forceAll = view.forceAll
      /\ Mine' = Mine /\ ~Destroying' /\ ~Ensuring' /\ ~Retaining' /\ ~Deleting' /\ ~Destroying
  BY DEF Checkpoint, userVars, Mine, Destroying, Ensuring, Retaining, Deleting, CoreInv, TypeInv, PassTypeOK
<1>1. TypeInv'
  <2>1. view' \in [spec : Specs, deleting : BOOLEAN, forceAll : BOOLEAN]
    BY <1>0 DEF CoreInv, TypeInv, PassTypeOK
  <2>2. store' \in GatedEntry /\ forgotten' \subseteq {"lift", "claim"}
    BY <1>0, ForgottenFacts DEF CoreInv, TypeInv, PassTypeOK
  <2> QED BY <1>0, <2>1, <2>2, Zenon DEF CoreInv, TypeInv, PassTypeOK
<1>2. ControlInv'
  BY <1>0 DEF CoreInv, ControlInv
<1>3. OwnInv'
  BY <1>0, Zenon DEF OwnInv, ChangesOnlyOwned
<1>4. ClaimInv'
  BY <1>0, ForgottenFacts, Zenon DEF CoreInv, ClaimInv, ControlInv, FinalizerHoldsResource
<1>5. NoticeInv'
  BY <1>0, ForgottenFacts DEF CoreInv, NoticeInv
<1>6. Promised
  BY <1>0, Written, Zenon
<1> QED BY <1>1, <1>2, <1>3, <1>4, <1>5, <1>6, Zenon DEF CoreInv

-----------------------------------------------------------------------------
(* Everybody else.                                                         *)

\* What users, time and AWS leave of a pass.
LEMMA UsersKeep ==
    ASSUME CoreInv, Users \/ Calm \/ UNCHANGED vars, UNCHANGED kind
    PROVE  CoreInv' /\ Promised
<1>0. /\ UNCHANGED <<kind, store, resource, pc, view, mem, err, forgotten, raced>>
      /\ spec' \in Specs /\ forceAll' \in BOOLEAN /\ calm' \in BOOLEAN
      /\ cr' \in {"live", "deleting", "gone"} /\ (cr' = "gone" <=> cr = "gone")
  BY ZenonT(40) DEF Users, EditSpec, DeleteCR, AnnotateForceDeleteAll, Calm, vars, userVars, passVars,
         CoreInv, TypeInv, PassTypeOK
<1>1. TypeInv'
  BY <1>0, ZenonT(40) DEF CoreInv, TypeInv, PassTypeOK
<1>2. ControlInv'
  BY <1>0, Zenon DEF CoreInv, ControlInv, Ensuring, Retaining, Deleting, Destroying, StillDeclared
<1>3. OwnInv'
  BY <1>0, Zenon DEF CoreInv, OwnInv, ChangesOnlyOwned, Destroying
<1>4. ClaimInv'
  BY <1>0, ZenonT(40) DEF CoreInv, ClaimInv, Mine, StillDeclared, FinalizerHoldsResource
<1>5. NoticeInv'
  BY <1>0 DEF CoreInv, NoticeInv, Mine, StillDeclared, Destroying, Forced
<1>6. Promised
  <2>1. SameResource /\ SameNotice /\ Destroying' = Destroying /\ Forced' = Forced
    BY <1>0, ZenonT(40) DEF SameResource, SameNotice, Mine, Held, Destroying, Forced
  <2> QED BY <2>1, Unseen, Zenon
<1> QED BY <1>1, <1>2, <1>3, <1>4, <1>5, <1>6, ZenonT(40) DEF CoreInv

\* A change of the resource that is not the operator's: it may go, be made
\* anew by somebody else, or be used.
LEMMA OutsideKeeps ==
    ASSUME CoreInv, NEW new \in Resource(AllData), Timely(new), Outside(new), UNCHANGED kind, raced' \in BOOLEAN,
           kind = "bucket" => new.data \subseteq {"objects", "uploads"},
           \/ ~new.exists /\ ~IsOwnedBy(new.tags) /\ raced' = raced
           \/ ~resource.exists /\ ~IsOwnedBy(new.tags) /\ raced' = (pc # "idle")
           \/ /\ new.exists = resource.exists /\ new.tags = resource.tags /\ new.deny = resource.deny
              /\ new.status = "Deleting" <=> resource.status = "Deleting"
              /\ raced' = raced,
           \/ ~Mine' \/ (Held' = Held /\ new.shown = resource.shown) \/ ~Held'
           \/ Held' /\ (resource.deny = Never \/ resource.deny < DenyDelay)
    PROVE  CoreInv' /\ Promised
<1>0. /\ UNCHANGED <<kind, spec, cr, forceAll, calm, store, pc, view, mem, err, forgotten>>
      /\ resource' = new
  BY DEF Outside, userVars, passVars
<1>1. TypeInv'
  BY <1>0, ZenonT(40) DEF CoreInv, TypeInv, PassTypeOK
<1>2. ControlInv'
  BY <1>0, ZenonT(40) DEF CoreInv, ControlInv, Ensuring, Retaining, Deleting, Destroying, StillDeclared
<1>3. OwnInv'
  BY <1>0, Zenon DEF CoreInv, OwnInv, ChangesOnlyOwned, Destroying
<1>4. Mine' => Mine /\ resource'.deny = resource.deny
  BY <1>0, ZenonT(40) DEF Mine
<1>5. ClaimInv'
  BY <1>0, <1>4, Zenon DEF CoreInv, ClaimInv, StillDeclared, FinalizerHoldsResource
<1>6. NoticeInv'
  BY <1>0, <1>4, ZenonT(40) DEF CoreInv, NoticeInv, StillDeclared, Destroying, Forced
<1>7. Promised
  <2>0. SameNotice /\ Destroying' = Destroying /\ Forced' = Forced
    BY <1>0, Zenon DEF SameNotice, Destroying, Forced
  <2>1. CASE Mine /\ ~Mine'
    BY <2>0, <2>1, Lost, Zenon
  <2>2. CASE ~Mine
    <3>1. SameResource BY <1>4, <2>2, Truths, Zenon DEF SameResource
    <3> QED BY <2>0, <3>1, Unseen, Zenon
  <2>3. CASE Mine /\ Mine'
    <3>1. CASE Held' = Held /\ resource'.shown = resource.shown
      BY <1>4, <2>0, <2>3, <3>1, Truths, Unseen, Zenon DEF SameResource
    <3>2. CASE ~Held'
      BY <1>4, <2>0, <2>3, <3>2, Truths, Drained, ZenonT(40)
    <3>3. CASE Held' /\ (resource.deny = Never \/ resource.deny < DenyDelay)
      <4>1. resource'.shown \in 0 .. ListLag BY <1>0 DEF Resource
      <4> QED BY <1>4, <2>0, <2>3, <3>3, <4>1, Filled, Zenon
    <3> QED BY <1>0, <2>3, <3>1, <3>2, <3>3, Zenon
  <2> QED BY <2>1, <2>2, <2>3, Zenon
<1> QED BY <1>1, <1>2, <1>3, <1>5, <1>6, <1>7, ZenonT(40) DEF CoreInv

\* A tick of the clock.
LEMMA TickKeeps ==
    ASSUME CoreInv, Tick, UNCHANGED kind
    PROVE  CoreInv' /\ Promised
<1>0. /\ UNCHANGED <<kind, spec, cr, forceAll, calm, pc, view, err, forgotten, raced>>
      /\ store' = OlderEntry(store) /\ mem' = OlderEntry(mem)
      /\ resource' = [resource EXCEPT !.deny = Older(resource.deny), !.shown = Later(resource.shown)]
  BY Zenon DEF Tick, userVars
<1>1. /\ store \in GatedEntry /\ mem \in GatedEntry /\ resource \in Resource(AllData)
      /\ resource.deny \in Age \cup {Never} /\ resource.shown \in 0 .. ListLag
      /\ store.pending \in Age \cup {Never} /\ mem.pending \in Age \cup {Never}
  BY DEF CoreInv, TypeInv, PassTypeOK, GatedEntry, Resource
<1>2. /\ resource' \in Resource(AllData) /\ resource'.deny = Older(resource.deny)
      /\ resource'.exists = resource.exists /\ resource'.tags = resource.tags
      /\ resource'.status = resource.status /\ resource'.data = resource.data
      /\ resource'.shown = Later(resource.shown)
  <2>1. Later(resource.shown) \in 0 .. ListLag
    BY <1>1, GateAssumption DEF Later
  <2> QED BY <1>0, <1>1, <2>1, OlderFacts, ZenonT(40) DEF Resource
<1>3. /\ store' \in GatedEntry /\ mem' \in GatedEntry
      /\ store'.state = store.state /\ mem'.state = mem.state /\ mem'.policy = mem.policy
      /\ mem'.force = mem.force
  BY <1>0, <1>1, OlderEntryFacts, Zenon
<1>4. store'.pending = Older(store.pending) /\ mem'.pending = Older(mem.pending)
  BY <1>0, <1>1, OlderEntryFacts, OlderFacts, ZenonT(40) DEF CoreInv, NoticeInv
<1>5. /\ Mine' = Mine /\ Held' = Held /\ Destroying' = Destroying /\ Forced' = Forced
      /\ StillDeclared' = StillDeclared
  BY <1>0, <1>2, <1>3, Zenon DEF Mine, Held, Destroying, Forced, StillDeclared
<1>6. TypeInv'
  <2>1. Timely(resource')
    <3>1. Timely(resource) BY DEF CoreInv, TypeInv
    <3> QED BY <1>1, <1>2, <3>1, LedgerAssumption, GateAssumption DEF Timely, Later, Older, Age, Never
  <2> QED BY <1>0, <1>2, <1>3, <2>1, ZenonT(40) DEF CoreInv, TypeInv, PassTypeOK
<1>7. ControlInv'
  BY <1>0, <1>3, <1>5 DEF CoreInv, ControlInv, Ensuring, Retaining, Deleting
<1>8. OwnInv'
  BY <1>0, <1>2, <1>5, ZenonT(40) DEF CoreInv, OwnInv, ChangesOnlyOwned
<1>9. ClaimInv'
  BY <1>0, <1>3, <1>5, Zenon DEF CoreInv, ClaimInv, FinalizerHoldsResource
<1>10. NoticeInv'
  <2>1. /\ store'.pending = Never <=> store.pending = Never
        /\ mem'.pending = Never <=> mem.pending = Never
        /\ resource'.deny = Never <=> resource.deny = Never
        /\ mem.pending >= DeletionQuietWindow => mem'.pending >= DeletionQuietWindow
    BY <1>1, <1>2, <1>4, OlderFacts, Zenon
  <2>2. resource.deny # Never =>
            /\ store.pending <= resource.deny => store'.pending <= resource'.deny
            /\ mem.pending <= resource.deny => mem'.pending <= resource'.deny
    BY <1>1, <1>2, <1>4, OlderFacts, ZenonT(40)
  <2>3. mem.pending = store.pending => mem'.pending = store'.pending
    BY <1>4
  <2> QED BY <1>0, <1>3, <1>5, <2>1, <2>2, <2>3, ZenonT(40) DEF CoreInv, NoticeInv
<1>11. Promised
  <2>1. SD!Tick
    BY <1>0, <1>2, <1>4, <1>5, Truths, Zenon DEF SD!Tick, SD!Older, SD!Never, Older, Never, Later
  <2> QED BY <2>1, Zenon DEF Promised, SD!Next
<1> QED BY <1>6, <1>7, <1>8, <1>9, <1>10, <1>11 DEF CoreInv
=============================================================================
