---------------------------- MODULE UpkeepProofs ----------------------------
(***************************************************************************)
(* What holds of the two parts of DatabaseUpkeep for every value of the    *)
(* constants.  First the consumers of NetworkAccess: what a consumer knows *)
(* is its own, so the argument is about one consumer and the steps that    *)
(* change its part.  Then DatabaseSettings, where the argument is one fact *)
(* about the operators: once the modify request is accepted, the settings  *)
(* that AWS has or is about to have are the requested ones, and those it   *)
(* had otherwise.                                                          *)
(***************************************************************************)
EXTENDS DatabaseUpkeep, TLAPS

-----------------------------------------------------------------------------
(* The consumers of NetworkAccess.                                         *)

\* The IDs a consumer may have written down.
OwnIds(c) == {<<c, VpcOf[p]>> : p \in Owners} \cup {NoGroup, Dead}

\* A consumer knows only its own groups; an entry without a group is no entry,
\* except while one is being attached; what a pass is about to delete is what the
\* ledger records; and a pass over a CR being deleted that met no error leaves no
\* group recorded.
ConsumerInv(c) ==
    /\ entry[c].id \in OwnIds(c) /\ mem[c].id \in OwnIds(c)
    /\ entry[c].state = "None" <=> entry[c].id = NoGroup
    /\ IF pc[c] = "attach" THEN mem[c].id # NoGroup ELSE mem[c].state = "None" <=> mem[c].id = NoGroup
    /\ pc[c] \in {"resolve", "attach"} => view[c].cr = "live"
    /\ pc[c] \in {"release", "delete"} => mem[c].id # NoGroup /\ mem[c].id = entry[c].id
    /\ pc[c] = "persist" /\ view[c].cr = "deleting" /\ ~err[c] => entry[c].id \in {NoGroup, Dead}

NetworkTypes ==
    /\ DOMAIN pc = CRs /\ DOMAIN view = CRs /\ DOMAIN mem = CRs /\ DOMAIN err = CRs
    /\ want \in [Consumers -> Wants] /\ entry \in [Consumers -> Entries]
    /\ \A c \in Consumers : mem[c] \in Entries /\ view[c] \in Wants
    /\ groups \subseteq GroupIds

NetworkInv == NetworkTypes /\ \A c \in Consumers : ConsumerInv(c)

\* What a consumer's own part of the state is.
SameConsumer(c) ==
    /\ entry'[c] = entry[c] /\ mem'[c] = mem[c] /\ view'[c] = view[c]
    /\ pc'[c] = pc[c] /\ err'[c] = err[c]

SameDomains ==
    /\ DOMAIN pc' = DOMAIN pc /\ DOMAIN view' = DOMAIN view
    /\ DOMAIN mem' = DOMAIN mem /\ DOMAIN err' = DOMAIN err

\* The words for no group are no groups, and no two consumers have a group in common.
LEMMA IdFacts ==
    /\ NoGroup # Dead /\ NoGroup \notin GroupIds /\ Dead \notin GroupIds
    /\ \A c \in Consumers : OwnIds(c) \subseteq AllIds
    /\ \A c, d \in Consumers : c # d => OwnIds(c) \cap OwnIds(d) = {NoGroup, Dead}
    /\ \A c \in Consumers : NoEntry \in Entries /\ NoGroup \in OwnIds(c) /\ Dead \in OwnIds(c)
<1>1. NoGroup # Dead
  BY DEF NoGroup, Dead
<1>2. NoGroup \notin GroupIds /\ Dead \notin GroupIds
  BY NetworkAssumption DEF NoGroup, Dead, GroupIds
<1>3. \A c \in Consumers : OwnIds(c) \subseteq AllIds
  BY DEF OwnIds, AllIds, GroupIds
<1>4. \A c, d \in Consumers : c # d => OwnIds(c) \cap OwnIds(d) = {NoGroup, Dead}
  BY NetworkAssumption DEF OwnIds, NoGroup, Dead
<1>5. \A c \in Consumers : NoEntry \in Entries /\ NoGroup \in OwnIds(c) /\ Dead \in OwnIds(c)
  BY DEF NoEntry, Entries, AllIds, OwnIds
<1> QED  BY <1>1, <1>2, <1>3, <1>4, <1>5

\* A consumer whose part stays as it is.
LEMMA SameKeeps ==
    ASSUME NEW c, ConsumerInv(c), SameConsumer(c)
    PROVE  ConsumerInv(c)'
BY Zenon DEF ConsumerInv, SameConsumer, OwnIds, NoGroup, Dead

\* A step that changes no consumer's part.
LEMMA NoneKeeps ==
    ASSUME NetworkInv, SameDomains, want' \in [Consumers -> Wants], entry' = entry, groups' = groups,
           \A c \in Consumers : SameConsumer(c)
    PROVE  NetworkInv'
<1>1. \A c \in Consumers : ConsumerInv(c)'
  BY SameKeeps DEF NetworkInv
<1>2. NetworkTypes'
  BY DEF NetworkInv, NetworkTypes, SameDomains, SameConsumer
<1> QED  BY <1>1, <1>2 DEF NetworkInv

\* A step that changes one consumer's part.
LEMMA OneKeeps ==
    ASSUME NetworkInv, NEW c \in Consumers, SameDomains, want' \in [Consumers -> Wants],
           entry' \in [Consumers -> Entries], mem'[c] \in Entries, view'[c] \in Wants,
           groups' \subseteq GroupIds, ConsumerInv(c)', \A d \in Consumers \ {c} : SameConsumer(d)
    PROVE  NetworkInv'
<1>1. \A d \in Consumers : ConsumerInv(d)'
  BY SameKeeps DEF NetworkInv
<1>2. NetworkTypes'
  BY DEF NetworkInv, NetworkTypes, SameDomains, SameConsumer
<1> QED  BY <1>1, <1>2 DEF NetworkInv

\* What an owner's pass, its users and its faults change is the owner's.
LEMMA OwnerKeeps ==
    ASSUME NetworkInv, NEW p \in Owners,
           OwnerPass(p) \/ EditOwner(p) \/ DeleteInstanceByHand(p) \/ OwnerCallFails(p) \/ Crash(p)
    PROVE  NetworkInv' /\ want' = want
<1> DEFINE Touched(f, g) == g = f \/ \E x : g = [f EXCEPT ![p] = x]
<1>1. p \notin Consumers /\ Consumers \subseteq CRs
  BY NetworkAssumption DEF CRs
<1>3. want' = want /\ entry' = entry /\ groups' = groups
  BY Zenon
    DEF OwnerPass, BeginOwner, findOrCreateSecurityGroup, readConsumers, AuthorizeIngress, revokeStaleIngress,
     ensureInstance, CleanupInstanceSecurityGroups, EditOwner, DeleteInstanceByHand, OwnerCallFails, Crash, podVars
<1>4. Touched(pc, pc') /\ Touched(err, err') /\ Touched(view, view') /\ Touched(mem, mem')
  <2>1. CASE BeginOwner(p) \/ readConsumers(p)
    BY <2>1, Zenon DEF BeginOwner, readConsumers, GoTo
  <2>2. CASE findOrCreateSecurityGroup(p)
    BY <2>2, Zenon DEF findOrCreateSecurityGroup, GoTo, CleanUp
  <2>3. CASE AuthorizeIngress(p)
    BY <2>3, Zenon DEF AuthorizeIngress, Done, GoTo, FailTo
  <2>4. CASE revokeStaleIngress(p)
    BY <2>4, Zenon DEF revokeStaleIngress, GoTo, CleanUp
  <2>5. CASE ensureInstance(p)
    BY <2>5, Zenon DEF ensureInstance, CleanUp
  <2>6. CASE CleanupInstanceSecurityGroups(p)
    BY <2>6, Zenon DEF CleanupInstanceSecurityGroups, PersistOwner, EndPass
  <2>7. CASE OwnerCallFails(p) \/ Crash(p)
    BY <2>7, Zenon DEF OwnerCallFails, CleanUp, Crash, EndPass
  <2>8. CASE EditOwner(p) \/ DeleteInstanceByHand(p)
    BY <2>8, Zenon DEF EditOwner, DeleteInstanceByHand, passVars
  <2> QED  BY <2>1, <2>2, <2>3, <2>4, <2>5, <2>6, <2>7, <2>8, Zenon DEF OwnerPass
<1>5. SameDomains /\ \A c \in Consumers : SameConsumer(c)
  BY <1>1, <1>3, <1>4 DEF NetworkInv, NetworkTypes, SameDomains, SameConsumer
<1>6. want' \in [Consumers -> Wants]
  BY <1>3 DEF NetworkInv, NetworkTypes
<1> QED  BY <1>3, <1>5, <1>6, NoneKeeps, Zenon

\* What a consumer's step changes of the passes and of the entries is its own;
\* DeleteSecurityGroup, which everybody hears of, is left for later.
LEMMA OthersKept ==
    ASSUME NetworkInv, NEW c \in Consumers,
           \/ BeginConsumer(c) \/ podSecurityGroup(c) \/ EnsurePodNetworkIdentity(c) \/ ReleasePodNetworkIdentity(c)
           \/ PersistConsumer(c) \/ ConsumerCallFails(c) \/ Crash(c)
    PROVE  SameDomains /\ \A d \in Consumers \ {c} : SameConsumer(d)
<1> DEFINE Touched(f, g) == g = f \/ \E x : g = [f EXCEPT ![c] = x]
<1>1. Touched(pc, pc') /\ Touched(err, err') /\ Touched(view, view') /\ Touched(mem, mem') /\ Touched(entry, entry')
  <2>1. CASE BeginConsumer(c)
    BY <2>1, Zenon DEF BeginConsumer, GoTo, podVars
  <2>2. CASE podSecurityGroup(c)
    BY <2>2, Zenon DEF podSecurityGroup, GoTo, FailTo
  <2>3. CASE EnsurePodNetworkIdentity(c)
    BY <2>3, Zenon DEF EnsurePodNetworkIdentity, GoTo, FailTo
  <2>4. CASE ReleasePodNetworkIdentity(c)
    BY <2>4, Zenon DEF ReleasePodNetworkIdentity, Done, GoTo, FailTo
  <2>5. CASE PersistConsumer(c)
    BY <2>5, Zenon DEF PersistConsumer, EndPass
  <2>6. CASE ConsumerCallFails(c)
    BY <2>6, Zenon DEF ConsumerCallFails, FailTo, podVars
  <2>7. CASE Crash(c)
    BY <2>7, Zenon DEF Crash, EndPass, podVars
  <2> QED  BY <2>1, <2>2, <2>3, <2>4, <2>5, <2>6, <2>7
<1> QED  BY <1>1 DEF NetworkInv, NetworkTypes, SameDomains, SameConsumer, CRs

\* A pass reads the CR and its entry, and goes on as they say.
LEMMA BeginKeeps ==
    ASSUME NetworkInv, NEW c \in Consumers, BeginConsumer(c)
    PROVE  NetworkInv' /\ want' = want
<1>1. SameDomains /\ \A d \in Consumers \ {c} : SameConsumer(d)
  BY OthersKept
<1>2. /\ pc'[c] = IF Consuming(want[c]) THEN "resolve" ELSE IF entry[c].state = "None" THEN "persist" ELSE "release"
      /\ view'[c] = want[c] /\ mem'[c] = entry[c]
      /\ want' = want /\ entry' = entry /\ groups' = groups
  BY DEF BeginConsumer, GoTo, podVars, NetworkInv, NetworkTypes, CRs
<1>3. ConsumerInv(c)'
  BY <1>2 DEF NetworkInv, NetworkTypes, ConsumerInv, OwnIds, Consuming
<1> QED  BY <1>1, <1>2, <1>3, OneKeeps DEF NetworkInv, NetworkTypes

\* The group of a consumer's pods, found or made, is one of its own.
LEMMA ResolveKeeps ==
    ASSUME NetworkInv, NEW c \in Consumers, podSecurityGroup(c)
    PROVE  NetworkInv' /\ want' = want
<1>1. SameDomains /\ \A d \in Consumers \ {c} : SameConsumer(d)
  BY OthersKept
<1>2. /\ want' = want /\ entry' = entry /\ view'[c] = [view[c] EXCEPT !.refs = {}] /\ pc[c] = "resolve"
      /\ \/ pc'[c] = "attach" /\ mem'[c] = mem[c] /\ mem[c].id \in groups /\ groups' = groups
         \/ pc'[c] = "persist" /\ mem'[c] = mem[c] /\ groups' = groups
         \/ \E v \in ConsumedVpcs(c) :
              /\ groups' = groups \cup {<<c, v>>}
              /\ \/ pc'[c] = "attach" /\ mem'[c] = [mem[c] EXCEPT !.id = <<c, v>>]
                 \/ pc'[c] = "persist" /\ mem'[c] = mem[c]
  BY DEF podSecurityGroup, GoTo, FailTo, NetworkInv, NetworkTypes, CRs
<1>3. \A v \in ConsumedVpcs(c) : <<c, v>> \in GroupIds /\ <<c, v>> \in OwnIds(c) /\ <<c, v>> # NoGroup
  <2>1. \A v \in ConsumedVpcs(c) : \E p \in Owners : v = VpcOf[p]
    BY DEF ConsumedVpcs, NetworkInv, NetworkTypes, Wants
  <2> QED  BY <2>1, NetworkAssumption DEF GroupIds, OwnIds, NoGroup
<1>4. groups' \subseteq GroupIds
  <2>1. groups \subseteq GroupIds
    BY DEF NetworkInv, NetworkTypes
  <2>2. ASSUME NEW v \in ConsumedVpcs(c), groups' = groups \cup {<<c, v>>}
        PROVE  groups' \subseteq GroupIds
    <3>1. <<c, v>> \in GroupIds
      BY <1>3, Zenon
    <3> QED  BY <2>1, <2>2, <3>1
  <2> QED  BY <1>2, <2>1, <2>2, Zenon
<1>5. view'[c] \in Wants /\ view'[c].cr = view[c].cr
  BY <1>2 DEF NetworkInv, NetworkTypes, Wants
<1>6. \/ mem'[c] = mem[c] /\ (pc'[c] = "attach" => mem[c].id # NoGroup)
      \/ /\ pc'[c] = "attach" /\ mem'[c] \in Entries
         /\ mem'[c].id \in OwnIds(c) /\ mem'[c].id # NoGroup
  <2>1. ASSUME mem[c].id \in groups  PROVE mem[c].id # NoGroup
    BY <2>1, IdFacts DEF NetworkInv, NetworkTypes
  <2>2. ASSUME NEW v \in ConsumedVpcs(c), mem'[c] = [mem[c] EXCEPT !.id = <<c, v>>]
        PROVE  mem'[c] \in Entries /\ mem'[c].id \in OwnIds(c) /\ mem'[c].id # NoGroup
    <3>1. <<c, v>> \in GroupIds /\ <<c, v>> \in OwnIds(c) /\ <<c, v>> # NoGroup
      BY <1>3, Zenon
    <3>2. mem[c] \in Entries
      BY DEF NetworkInv, NetworkTypes
    <3> QED  BY <2>2, <3>1, <3>2 DEF Entries, AllIds
  <2>3. "persist" # "attach"
    OBVIOUS
  <2> QED  BY <1>2, <2>1, <2>2, <2>3, Zenon
<1>7. mem'[c] \in Entries
  BY <1>6 DEF NetworkInv, NetworkTypes
<1>8. pc'[c] \in {"attach", "persist"}
  BY <1>2, Zenon
<1>9. ConsumerInv(c)'
  BY <1>2, <1>5, <1>6, <1>8 DEF NetworkInv, ConsumerInv, OwnIds
<1> QED  BY <1>1, <1>2, <1>4, <1>5, <1>7, <1>9, OneKeeps DEF NetworkInv, NetworkTypes

\* The entry is Verified with the group it has, or stays as persisted.
LEMMA AttachKeeps ==
    ASSUME NetworkInv, NEW c \in Consumers, EnsurePodNetworkIdentity(c)
    PROVE  NetworkInv' /\ want' = want
<1>1. SameDomains /\ \A d \in Consumers \ {c} : SameConsumer(d)
  BY OthersKept
<1>2. /\ want' = want /\ entry' = entry /\ groups' = groups /\ view' = view /\ pc[c] = "attach" /\ pc'[c] = "persist"
      /\ mem'[c] = [mem[c] EXCEPT !.state = "Verified"] \/ mem'[c] = entry[c]
  BY DEF EnsurePodNetworkIdentity, GoTo, FailTo, NetworkInv, NetworkTypes, CRs
<1>3. mem'[c] \in Entries
  BY <1>2 DEF NetworkInv, NetworkTypes, Entries
<1>4. ConsumerInv(c)'
  BY <1>2 DEF NetworkInv, NetworkTypes, ConsumerInv, OwnIds, Entries
<1> QED  BY <1>1, <1>2, <1>3, <1>4, OneKeeps DEF NetworkInv, NetworkTypes

\* An entry that is being released keeps its group until that is deleted.
LEMMA ReleaseKeeps ==
    ASSUME NetworkInv, NEW c \in Consumers, ReleasePodNetworkIdentity(c)
    PROVE  NetworkInv' /\ want' = want
<1>1. SameDomains /\ \A d \in Consumers \ {c} : SameConsumer(d)
  BY OthersKept
<1>2. /\ want' = want /\ entry' = entry /\ groups' = groups /\ view' = view /\ pc[c] = "release"
      /\ mem'[c] = [mem[c] EXCEPT !.state = "Releasing"]
      /\ pc'[c] = "delete" \/ (pc'[c] = "persist" /\ err'[c] = TRUE)
  BY DEF ReleasePodNetworkIdentity, Done, GoTo, FailTo, NetworkInv, NetworkTypes, CRs
<1>3. mem'[c] \in Entries
  BY <1>2 DEF NetworkInv, NetworkTypes, Entries
<1>4. ConsumerInv(c)'
  BY <1>2 DEF NetworkInv, NetworkTypes, ConsumerInv, OwnIds, Entries
<1> QED  BY <1>1, <1>2, <1>3, <1>4, OneKeeps DEF NetworkInv, NetworkTypes

\* A group is deleted only by its consumer, and nobody then has its ID any more.
LEMMA DeleteKeeps ==
    ASSUME NetworkInv, NEW c \in Consumers, DeleteSecurityGroup(c)
    PROVE  NetworkInv' /\ want' = want
<1> DEFINE id == mem[c].id
<1>1. /\ want' = want /\ view' = view /\ pc[c] = "delete"
      /\ \/ FailTo(c, "persist") /\ UNCHANGED <<groups, mem, entry>>
         \/ /\ groups' = groups \ {id} /\ entry' = Bury(entry, id)
            /\ \/ GoTo(c, "persist") /\ mem' = [mem EXCEPT ![c] = NoEntry]
               \/ FailTo(c, "persist") /\ mem' = Bury(mem, id)
  BY Zenon DEF DeleteSecurityGroup
<1>2. /\ pc'[c] = "persist" /\ DOMAIN pc' = DOMAIN pc /\ DOMAIN err' = DOMAIN err
      /\ \A d \in Consumers \ {c} : pc'[d] = pc[d] /\ err'[d] = err[d]
  BY <1>1 DEF GoTo, FailTo, NetworkInv, NetworkTypes, CRs
<1>3. id \in OwnIds(c) /\ id # NoGroup /\ entry[c].id = id /\ entry[c].state # "None" /\ mem[c].state # "None"
  BY <1>1 DEF NetworkInv, ConsumerInv
<1>4. \A d \in Consumers \ {c} : entry[d].id = id \/ mem[d].id = id => id = Dead
  BY <1>3, IdFacts DEF NetworkInv, ConsumerInv
<1>5. ASSUME NEW f, \A d \in Consumers : d \in DOMAIN f /\ f[d] \in Entries,
             \A d \in Consumers \ {c} : f[d].id = id => id = Dead
      PROVE  /\ DOMAIN Bury(f, id) = DOMAIN f
             /\ \A d \in Consumers \ {c} : Bury(f, id)[d] = f[d]
             /\ f[c].id = id => Bury(f, id)[c] = [f[c] EXCEPT !.id = Dead]
  BY <1>5 DEF Bury, Entries
<1>6. CASE FailTo(c, "persist") /\ UNCHANGED <<groups, mem, entry>>
  <2>1. err'[c] = TRUE
    BY <1>6 DEF FailTo, NetworkInv, NetworkTypes, CRs
  <2>2. SameDomains /\ \A d \in Consumers \ {c} : SameConsumer(d)
    BY <1>1, <1>2, <1>6 DEF SameDomains, SameConsumer
  <2>3. ConsumerInv(c)'
    BY <1>1, <1>2, <1>6, <2>1 DEF NetworkInv, ConsumerInv, OwnIds
  <2> QED  BY <1>1, <1>6, <2>2, <2>3, OneKeeps DEF NetworkInv, NetworkTypes
<1>7. CASE /\ groups' = groups \ {id} /\ entry' = Bury(entry, id)
           /\ mem' = [mem EXCEPT ![c] = NoEntry] \/ mem' = Bury(mem, id)
  <2>1. /\ DOMAIN entry' = Consumers /\ \A d \in Consumers \ {c} : entry'[d] = entry[d]
        /\ entry'[c] = [entry[c] EXCEPT !.id = Dead]
    BY <1>3, <1>4, <1>5, <1>7 DEF NetworkInv, NetworkTypes
  <2>2. entry'[c] \in Entries /\ entry'[c].id = Dead /\ entry'[c].state # "None"
    BY <1>3, <2>1 DEF NetworkInv, NetworkTypes, Entries, AllIds
  <2>3. entry' \in [Consumers -> Entries]
    BY <1>7, <2>1, <2>2 DEF NetworkInv, NetworkTypes, Bury
  <2>4. /\ DOMAIN mem' = DOMAIN mem /\ \A d \in Consumers \ {c} : mem'[d] = mem[d]
        /\ mem'[c] = NoEntry \/ mem'[c] = [mem[c] EXCEPT !.id = Dead]
    <3>1. CASE mem' = [mem EXCEPT ![c] = NoEntry]
      BY <3>1 DEF NetworkInv, NetworkTypes, CRs
    <3>2. CASE mem' = Bury(mem, id)
      <4>1. \A d \in Consumers : d \in DOMAIN mem /\ mem[d] \in Entries
        BY DEF NetworkInv, NetworkTypes, CRs
      <4>2. \A d \in Consumers \ {c} : mem[d].id = id => id = Dead
        BY <1>4, Zenon
      <4> QED  BY <1>5, <3>2, <4>1, <4>2, Zenon
    <3> QED  BY <1>7, <3>1, <3>2, Zenon
  <2>5. /\ mem'[c] \in Entries /\ mem'[c].id \in OwnIds(c)
        /\ mem'[c].state = "None" <=> mem'[c].id = NoGroup
    BY <1>3, <2>4, IdFacts DEF NetworkInv, NetworkTypes, Entries, AllIds, NoEntry
  <2>6. ConsumerInv(c)'
    BY <1>2, <2>2, <2>5, IdFacts DEF ConsumerInv, OwnIds
  <2>7. SameDomains /\ \A d \in Consumers \ {c} : SameConsumer(d)
    BY <1>1, <1>2, <2>1, <2>4 DEF SameDomains, SameConsumer
  <2>8. groups' \subseteq GroupIds /\ want' \in [Consumers -> Wants] /\ view'[c] \in Wants
    BY <1>1, <1>7 DEF NetworkInv, NetworkTypes
  <2> QED  BY <1>1, <2>3, <2>5, <2>6, <2>7, <2>8, OneKeeps
<1> QED  BY <1>1, <1>6, <1>7

\* A pass over consumer c is over, and nothing else of a pass changes.
EndKeeps(c) ==
    /\ SameDomains /\ pc'[c] = "idle" /\ mem'[c] = NoEntry /\ view'[c] = [refs |-> {}, cr |-> "live"]
    /\ \A d \in Consumers \ {c} : pc'[d] = pc[d] /\ mem'[d] = mem[d] /\ view'[d] = view[d] /\ err'[d] = err[d]

\* That is what EndPass does.
LEMMA EndFacts ==
    ASSUME NetworkInv, NEW c \in Consumers, EndPass(c)
    PROVE  EndKeeps(c)
<1>1. IdleMem(c) = NoEntry /\ IdleView(c) = [refs |-> {}, cr |-> "live"]
  BY NetworkAssumption DEF IdleMem, IdleView
<1> QED  BY <1>1 DEF EndPass, EndKeeps, SameDomains, NetworkInv, NetworkTypes, CRs

\* Between two passes only the persisted entry matters.
LEMMA EndsAnew ==
    ASSUME NetworkInv, NEW c \in Consumers, EndKeeps(c), want' \in [Consumers -> Wants], groups' = groups,
           entry' \in [Consumers -> Entries], \A d \in Consumers \ {c} : entry'[d] = entry[d],
           entry'[c].id \in OwnIds(c), entry'[c].state = "None" <=> entry'[c].id = NoGroup
    PROVE  NetworkInv'
<1>1. SameDomains /\ \A d \in Consumers \ {c} : SameConsumer(d)
  BY DEF EndKeeps, SameConsumer
<1>2. mem'[c] \in Entries /\ view'[c] \in Wants
  BY IdFacts DEF EndKeeps, Wants
<1>3. ConsumerInv(c)'
  BY IdFacts DEF EndKeeps, ConsumerInv, NoEntry, OwnIds
<1> QED  BY <1>1, <1>2, <1>3, OneKeeps DEF NetworkInv, NetworkTypes

\* The write of a consumer's entry, or the end of the CR: the next pass starts anew.
LEMMA PersistKeeps ==
    ASSUME NetworkInv, NEW c \in Consumers, PersistConsumer(c)
    PROVE  /\ NetworkInv'
           /\ \/ want' = want
              \/ /\ entry[c].id \in {NoGroup, Dead} /\ groups' = groups
                 /\ want' = [want EXCEPT ![c] = [@ EXCEPT !.cr = "gone"]]
<1>1. /\ pc[c] = "persist" /\ EndPass(c) /\ groups' = groups
      /\ \/ /\ view[c].cr = "deleting" /\ ~err[c]
            /\ want' = [want EXCEPT ![c] = [@ EXCEPT !.cr = "gone"]]
            /\ entry' = [entry EXCEPT ![c] = NoEntry]
         \/ want' = want /\ (entry' = [entry EXCEPT ![c] = mem[c]] \/ entry' = entry)
  BY Zenon DEF PersistConsumer
<1>2. EndKeeps(c)
  BY <1>1, EndFacts
<1>3. entry' \in [Consumers -> Entries] /\ \A d \in Consumers \ {c} : entry'[d] = entry[d]
  BY <1>1, IdFacts DEF NetworkInv, NetworkTypes
<1>4. want' \in [Consumers -> Wants]
  <2>1. want \in [Consumers -> Wants] /\ [want[c] EXCEPT !.cr = "gone"] \in Wants
    BY SMTT(30) DEF NetworkInv, NetworkTypes, Wants
  <2> QED  BY <1>1, <2>1
<1>5. entry'[c].id \in OwnIds(c) /\ (entry'[c].state = "None" <=> entry'[c].id = NoGroup)
  <2>1. entry'[c] \in {NoEntry, mem[c], entry[c]}
    BY <1>1 DEF NetworkInv, NetworkTypes
  <2>2. pc[c] # "attach"
    BY <1>1
  <2> QED  BY <2>1, <2>2, IdFacts DEF NetworkInv, ConsumerInv, NoEntry
<1>6. NetworkInv'
  BY <1>1, <1>2, <1>3, <1>4, <1>5, EndsAnew
<1>7. view[c].cr = "deleting" /\ ~err[c] => entry[c].id \in {NoGroup, Dead}
  BY <1>1, ZenonT(40) DEF NetworkInv, ConsumerInv
<1> QED  BY <1>1, <1>6, <1>7, Zenon

\* A crash loses the pass and nothing else.
LEMMA CrashKeeps ==
    ASSUME NetworkInv, NEW c \in Consumers, Crash(c)
    PROVE  NetworkInv' /\ want' = want
<1>1. EndPass(c) /\ groups' = groups /\ want' = want /\ entry' = entry
  BY Zenon DEF Crash, podVars
<1>2. EndKeeps(c)
  BY <1>1, EndFacts
<1>3. /\ want' \in [Consumers -> Wants] /\ entry' \in [Consumers -> Entries]
      /\ entry'[c].id \in OwnIds(c) /\ (entry'[c].state = "None" <=> entry'[c].id = NoGroup)
      /\ \A d \in Consumers \ {c} : entry'[d] = entry[d]
  BY <1>1, ZenonT(40) DEF NetworkInv, NetworkTypes, ConsumerInv
<1> QED  BY <1>1, <1>2, <1>3, EndsAnew, Zenon

\* A call of a consumer's pass that fails is followed by the write of its entry.
LEMMA CallKeeps ==
    ASSUME NetworkInv, NEW c \in Consumers, ConsumerCallFails(c)
    PROVE  NetworkInv' /\ want' = want
<1>1. SameDomains /\ \A d \in Consumers \ {c} : SameConsumer(d)
  BY OthersKept
<1>2. /\ pc[c] \in {"resolve", "attach", "release", "delete"} /\ pc'[c] = "persist" /\ err'[c] = TRUE
      /\ view' = view /\ want' = want /\ entry' = entry /\ groups' = groups
      /\ mem'[c] = IF pc[c] = "release" THEN [mem[c] EXCEPT !.state = "Releasing"]
                   ELSE IF pc[c] = "attach" THEN entry[c] ELSE mem[c]
  BY DEF ConsumerCallFails, FailTo, podVars, NetworkInv, NetworkTypes, CRs
<1>3. /\ mem'[c] \in Entries /\ mem'[c].id \in OwnIds(c)
      /\ mem'[c].state = "None" <=> mem'[c].id = NoGroup
  <2>1. CASE pc[c] = "release"
    <3>1. mem[c] \in Entries /\ mem[c].id \in OwnIds(c) /\ mem[c].id # NoGroup
      BY <2>1 DEF NetworkInv, NetworkTypes, ConsumerInv
    <3>2. mem'[c] = [mem[c] EXCEPT !.state = "Releasing"]
      BY <1>2, <2>1
    <3> QED  BY <3>1, <3>2 DEF Entries
  <2>2. CASE pc[c] = "attach"
    <3>1. mem'[c] = entry[c]
      BY <1>2, <2>2
    <3> QED  BY <3>1 DEF NetworkInv, NetworkTypes, ConsumerInv
  <2>3. CASE pc[c] \notin {"release", "attach"}
    <3>1. mem'[c] = mem[c]
      BY <1>2, <2>3
    <3> QED  BY <2>3, <3>1 DEF NetworkInv, NetworkTypes, ConsumerInv
  <2> QED  BY <2>1, <2>2, <2>3
<1>4. ConsumerInv(c)'
  BY <1>2, <1>3 DEF NetworkInv, ConsumerInv, OwnIds
<1> QED  BY <1>1, <1>2, <1>3, <1>4, OneKeeps DEF NetworkInv, NetworkTypes

\* No CR goes whose recorded group is there.
GoesWithoutGroup ==
    \A c \in Consumers : want[c].cr = "deleting" /\ want'[c].cr = "gone" => entry[c].id \notin groups'

\* What the users, the pods and Calm change is nothing of a pass.
LEMMA OutsideKeeps ==
    ASSUME NetworkInv, Calm \/ \E c \in Consumers : EditConsumer(c) \/ PodStarts(c) \/ PodStops(c)
    PROVE  NetworkInv' /\ GoesWithoutGroup
<1>1. /\ entry' = entry /\ groups' = groups
      /\ pc' = pc /\ view' = view /\ mem' = mem /\ err' = err
  BY Zenon DEF Calm, EditConsumer, PodStarts, PodStops, podVars, passVars
<1>2. /\ want' \in [Consumers -> Wants]
      /\ \A c \in Consumers : want[c].cr = "deleting" => want'[c] = want[c]
  <2>1. CASE want' = want
    BY <2>1 DEF NetworkInv, NetworkTypes
  <2>2. ASSUME NEW c \in Consumers, EditConsumer(c)
        PROVE  /\ want' \in [Consumers -> Wants]
               /\ \A d \in Consumers : want[d].cr = "deleting" => want'[d] = want[d]
    BY <2>2 DEF EditConsumer, NetworkInv, NetworkTypes, Wants
  <2> QED  BY <2>1, <2>2, Zenon DEF Calm, PodStarts, PodStops, podVars
<1>3. NetworkInv'
  BY <1>1, <1>2, NoneKeeps, Zenon DEF SameDomains, SameConsumer
<1>4. GoesWithoutGroup
  BY <1>2 DEF GoesWithoutGroup
<1> QED  BY <1>3, <1>4

\* No consumer knows a group at first.
LEMMA NetworkInit == UpkeepInit => NetworkInv
<1> SUFFICES ASSUME Init  PROVE NetworkInv
  BY Zenon DEF UpkeepInit
<1>1. \A c \in Consumers : c \in CRs /\ IdleMem(c) = NoEntry /\ IdleView(c) = [refs |-> {}, cr |-> "live"]
  BY NetworkAssumption, Zenon DEF IdleMem, IdleView, CRs
<1>2. NetworkTypes
  BY <1>1, IdFacts DEF Init, NetworkTypes, Wants
<1>3. \A c \in Consumers : ConsumerInv(c)
  BY <1>1, IdFacts DEF Init, ConsumerInv, NoEntry
<1> QED  BY <1>2, <1>3 DEF NetworkInv

\* Every step keeps the invariant, and only PersistConsumer lets a CR go.
LEMMA NetworkStep ==
    ASSUME NetworkInv, Next \/ Calm
    PROVE  NetworkInv' /\ GoesWithoutGroup
<1>1. ASSUME want' = want  PROVE GoesWithoutGroup
  BY <1>1 DEF GoesWithoutGroup
<1>2. CASE \E p \in Owners : OwnerPass(p) \/ EditOwner(p) \/ DeleteInstanceByHand(p) \/ OwnerCallFails(p) \/ Crash(p)
  BY <1>1, <1>2, OwnerKeeps, Zenon
<1>3. ASSUME NEW c \in Consumers, ConsumerPass(c)  PROVE NetworkInv' /\ GoesWithoutGroup
  <2>1. CASE BeginConsumer(c)
    BY <1>1, <2>1, BeginKeeps, Zenon
  <2>2. CASE podSecurityGroup(c)
    BY <1>1, <2>2, ResolveKeeps, Zenon
  <2>3. CASE EnsurePodNetworkIdentity(c)
    BY <1>1, <2>3, AttachKeeps, Zenon
  <2>4. CASE ReleasePodNetworkIdentity(c)
    BY <1>1, <2>4, ReleaseKeeps, Zenon
  <2>5. CASE DeleteSecurityGroup(c)
    BY <1>1, <2>5, DeleteKeeps, Zenon
  <2>6. CASE PersistConsumer(c)
    <3>1. CASE want' = want
      BY <1>1, <2>6, <3>1, PersistKeeps, Zenon
    <3>2. CASE /\ entry[c].id \in {NoGroup, Dead} /\ groups' = groups
               /\ want' = [want EXCEPT ![c] = [@ EXCEPT !.cr = "gone"]]
      <4>1. entry[c].id \notin groups'
        BY <3>2, IdFacts DEF NetworkInv, NetworkTypes
      <4>2. \A d \in Consumers \ {c} : want'[d] = want[d]
        BY <3>2 DEF NetworkInv, NetworkTypes
      <4>3. GoesWithoutGroup
        BY <4>1, <4>2 DEF GoesWithoutGroup
      <4> QED  BY <2>6, <4>3, PersistKeeps, Zenon
    <3> QED  BY <2>6, <3>1, <3>2, PersistKeeps, Zenon
  <2> QED  BY <1>3, <2>1, <2>2, <2>3, <2>4, <2>5, <2>6, Zenon DEF ConsumerPass
<1>4. CASE \E c \in Consumers : ConsumerCallFails(c) \/ Crash(c)
  BY <1>1, <1>4, CallKeeps, CrashKeeps, Zenon
<1>5. CASE Calm \/ \E c \in Consumers : EditConsumer(c) \/ PodStarts(c) \/ PodStops(c)
  BY <1>5, OutsideKeeps, Zenon
<1> QED  BY <1>2, <1>3, <1>4, <1>5, Zenon DEF Next, CRs

\* The inductive invariant of the consumers: a consumer knows only its own groups,
\* its entry names one exactly while it is not empty, what a pass is about to
\* delete is what the ledger records, and a pass over a CR that is being deleted
\* that met no error leaves no group recorded (CleanupPodNetworkIdentity).
THEOREM NetworkInvariant == UpkeepSpec => []NetworkInv
<1>1. NetworkInv /\ [Network(Next \/ Calm) \/ Setting(DS!Next)]_upkeepVars => NetworkInv'
  <2>1. ASSUME NetworkInv, Network(Next \/ Calm)  PROVE NetworkInv'
    BY <2>1, NetworkStep, Zenon DEF Network
  <2>2. ASSUME NetworkInv, UNCHANGED vars  PROVE NetworkInv'
    <3>1. /\ want' = want /\ entry' = entry /\ groups' = groups
          /\ pc' = pc /\ view' = view /\ mem' = mem /\ err' = err
      BY <2>2, Zenon DEF vars, podVars, passVars
    <3>2. want \in [Consumers -> Wants]
      BY <2>2, Zenon DEF NetworkInv, NetworkTypes
    <3> QED  BY <2>2, <3>1, <3>2, NoneKeeps, Zenon DEF SameDomains, SameConsumer
  <2> QED  BY <2>1, <2>2, Zenon DEF Setting, upkeepVars
<1> QED  BY <1>1, NetworkInit, PTL DEF UpkeepSpec

\* The finalizer of a consumer that is deleted stays until the group its ledger
\* records is gone, whatever the owners, the pods and the faults do meanwhile
\* (CleanupPodNetworkIdentity).
THEOREM ReleasesFirst == UpkeepSpec => ReleaseWaits
<1>1. NetworkInv /\ [Network(Next \/ Calm) \/ Setting(DS!Next)]_upkeepVars => [GoesWithoutGroup]_vars
  <2>1. ASSUME NetworkInv, Network(Next \/ Calm)  PROVE GoesWithoutGroup
    BY <2>1, NetworkStep, Zenon DEF Network
  <2> QED  BY <2>1, Zenon DEF Setting, upkeepVars
<1> QED  BY <1>1, NetworkInvariant, PTL DEF UpkeepSpec, ReleaseWaits, GoesWithoutGroup

-----------------------------------------------------------------------------
(* DatabaseSettings: the inductive invariant.                              *)

Now(set, pending) == DS!effectiveAttributes(set, pending)

IsSet(set) == DS!IsChange(set) /\ DOMAIN set = DS!AllSettings
IsDue(d) == DS!IsChange(d) /\ DOMAIN d \subseteq DS!Deferrable

\* Nothing is left to change in an instance with these settings.
Met(set, pending, w) ==
    LET is == Now(set, pending)
    IN  /\ is.class = w.class /\ is.storage >= w.storage /\ ~DS!Older(is.version, w.version)
        /\ w.backups => is.retention >= DS!defaultBackupRetentionDays
        /\ set.group /\ (w.adopt \/ set.copyTags)
        /\ ~(w.adopt /\ w.protection = DS!Unset) => set.protection = (w.protection # "off")
        /\ w.ceiling # 0 => set.ceiling = w.ceiling

Adoptable(set, pending, w) ==
    LET is == Now(set, pending)
    IN  is.class = w.class /\ w.storage <= is.storage /\ ~DS!Older(is.version, w.version)

SettingsInv ==
    /\ DS!TypeOK
    /\ tracked => have.mine
    /\ step = "modify" =>
         /\ have.mine
         /\ ~raced => seen.set = have.set /\ seen.due = due
         /\ seen.adopting => wanted.adopt /\ Adoptable(seen.set, seen.due, wanted)
         /\ agreed => Met(seen.set, seen.due, wanted)
    /\ agreed => Met(have.set, due, wanted)

UpkeepInv == IF part = "settings" THEN SettingsInv ELSE ~agreed /\ step = "idle"

-----------------------------------------------------------------------------
(* Changes of settings.                                                    *)

\* What one change on top of another is.
LEMMA OverFacts ==
    ASSUME NEW f, NEW g
    PROVE  /\ DOMAIN DS!Over(f, g) = DOMAIN f \cup DOMAIN g
           /\ \A s \in DOMAIN f : DS!Over(f, g)[s] = f[s]
           /\ \A s \in DOMAIN g \ DOMAIN f : DS!Over(f, g)[s] = g[s]
           /\ DS!Over(f, g) = [s \in DOMAIN DS!Over(f, g) |-> DS!Over(f, g)[s]]
BY DEF DS!Over

\* The part of a change that is about some settings.
LEMMA OnFacts ==
    ASSUME NEW f, NEW S
    PROVE  /\ DOMAIN DS!On(f, S) = DOMAIN f \cap S
           /\ \A s \in DOMAIN f \cap S : DS!On(f, S)[s] = f[s]
           /\ DS!On(f, S) = [s \in DOMAIN DS!On(f, S) |-> DS!On(f, S)[s]]
BY DEF DS!On

\* The change of one setting, and of none.
LEMMA ChangeFacts ==
    /\ \A s, v : /\ DOMAIN DS!Change(s, v) = {s} /\ DS!Change(s, v)[s] = v
                 /\ DS!Change(s, v) = [t \in {s} |-> v]
    /\ DOMAIN DS!NoChange = {} /\ DS!NoChange = [s \in {} |-> DS!NoChange[s]]
    /\ \A f : f = [s \in DOMAIN f |-> f[s]] /\ DOMAIN f = {} => f = DS!NoChange
BY DEF DS!Change, DS!NoChange

\* Changes on top of changes are changes.
LEMMA OverChange ==
    ASSUME NEW f, NEW g, DS!IsChange(f), DS!IsChange(g)
    PROVE  DS!IsChange(DS!Over(f, g))
<1> DEFINE h == DS!Over(f, g)
<1>0. /\ DOMAIN f \subseteq DS!AllSettings /\ \A s \in DOMAIN f : f[s] \in DS!Values(s)
      /\ DOMAIN g \subseteq DS!AllSettings /\ \A s \in DOMAIN g : g[s] \in DS!Values(s)
  BY DEF DS!IsChange
<1>1. /\ DOMAIN h = DOMAIN f \cup DOMAIN g /\ h = [s \in DOMAIN h |-> h[s]]
      /\ \A s \in DOMAIN f : h[s] = f[s]
      /\ \A s \in DOMAIN g \ DOMAIN f : h[s] = g[s]
  BY DEF DS!Over
<1> HIDE DEF h
<1>2. ASSUME NEW s \in DOMAIN h
      PROVE  h[s] \in DS!Values(s)
  BY <1>0, <1>1
<1>3. DOMAIN h \subseteq DS!AllSettings
  BY <1>0, <1>1
<1>4. DS!IsChange(h)
  BY <1>1, <1>2, <1>3 DEF DS!IsChange
<1> QED  BY <1>4 DEF h

\* And so are parts of them.
LEMMA OnChange ==
    ASSUME NEW f, NEW S, DS!IsChange(f)
    PROVE  DS!IsChange(DS!On(f, S))
<1> DEFINE h == DS!On(f, S)
<1>0. DOMAIN f \subseteq DS!AllSettings /\ \A s \in DOMAIN f : f[s] \in DS!Values(s)
  BY DEF DS!IsChange
<1>1. /\ DOMAIN h = DOMAIN f \cap S /\ h = [s \in DOMAIN h |-> h[s]]
      /\ \A s \in DOMAIN f \cap S : h[s] = f[s]
  BY OnFacts, Zenon
<1> HIDE DEF h
<1>2. ASSUME NEW s \in DOMAIN h
      PROVE  h[s] \in DS!Values(s)
  BY <1>0, <1>1
<1>3. DOMAIN h \subseteq DS!AllSettings
  BY <1>0, <1>1
<1>4. DS!IsChange(h)
  BY <1>1, <1>2, <1>3 DEF DS!IsChange
<1> QED  BY <1>4 DEF h

\* The settings of an instance are what they are meant to be.
LEMMA SetFields ==
    ASSUME NEW set, IsSet(set)
    PROVE  /\ set.class \in {"s", "l"} /\ set.version \in EngineVersions
           /\ set.storage \in Nat /\ set.retention \in Nat /\ set.ceiling \in Nat
           /\ set.protection \in BOOLEAN /\ set.copyTags \in BOOLEAN /\ set.group \in BOOLEAN
<1>1. \A s \in DS!AllSettings : set[s] \in DS!Values(s)
  BY DEF IsSet, DS!IsChange
<1> QED  BY <1>1 DEF DS!AllSettings, DS!Values

\* So are the ones it is about to have.
LEMMA NowFacts ==
    ASSUME NEW set, NEW d, IsSet(set), IsDue(d)
    PROVE  /\ IsSet(Now(set, d))
           /\ \A s \in DOMAIN d : Now(set, d)[s] = d[s]
           /\ \A s \in DS!AllSettings \ DOMAIN d : Now(set, d)[s] = set[s]
           /\ Now(set, d).protection = set.protection /\ Now(set, d).copyTags = set.copyTags
           /\ Now(set, d).group = set.group /\ Now(set, d).ceiling = set.ceiling
<1>1. DS!IsChange(set) /\ DOMAIN set = DS!AllSettings /\ DS!IsChange(d) /\ DOMAIN d \subseteq DS!Deferrable
  BY DEF IsSet, IsDue
<1>2. DS!Deferrable \subseteq DS!AllSettings
  BY DEF DS!Deferrable, DS!AllSettings
<1>3. Now(set, d) = DS!Over(d, set)
  BY DEF Now, DS!effectiveAttributes
<1>4. DS!IsChange(DS!Over(d, set))
  BY <1>1, OverChange
<1>5. /\ DOMAIN DS!Over(d, set) = DOMAIN d \cup DOMAIN set
      /\ \A s \in DOMAIN d : DS!Over(d, set)[s] = d[s]
      /\ \A s \in DOMAIN set \ DOMAIN d : DS!Over(d, set)[s] = set[s]
  BY DEF DS!Over
<1>6. /\ IsSet(Now(set, d))
      /\ \A s \in DOMAIN d : Now(set, d)[s] = d[s]
      /\ \A s \in DS!AllSettings \ DOMAIN d : Now(set, d)[s] = set[s]
  BY <1>1, <1>2, <1>3, <1>4, <1>5 DEF IsSet
<1>7. \A s \in {"protection", "copyTags", "group", "ceiling"} : s \in DS!AllSettings \ DOMAIN d
  BY <1>1 DEF DS!AllSettings, DS!Deferrable
<1> QED  BY <1>6, <1>7

\* What the settings in force read: what is due where something is, what is set elsewhere.
Reads(set, d) ==
    /\ \A s \in DOMAIN d : Now(set, d)[s] = d[s]
    /\ \A s \in DS!AllSettings \ DOMAIN d : Now(set, d)[s] = set[s]

\* The same of any settings and anything due, as one fact (effectiveAttributes).
LEMMA NowReads ==
    ASSUME NEW set, NEW d, IsSet(set), IsDue(d)
    PROVE  Reads(set, d)
BY NowFacts DEF Reads

-----------------------------------------------------------------------------
(* Versions.                                                               *)

\* A component of a version is a number.
LEMMA ComponentType ==
    ASSUME NEW v \in Seq(Nat), NEW i \in Nat \ {0}
    PROVE  DS!Component(v, i) \in Nat /\ (i > Len(v) => DS!Component(v, i) = 0)
BY DEF DS!Component

\* No version is older than itself (compareVersions).
LEMMA OlderIrreflexive ==
    ASSUME NEW v \in Seq(Nat)
    PROVE  ~DS!Older(v, v)
<1> SUFFICES ASSUME NEW i \in 1 .. Len(v), DS!Component(v, i) < DS!Component(v, i)
             PROVE  FALSE
  BY DEF DS!Older
<1>1. DS!Component(v, i) \in Nat
  BY ComponentType
<1> QED  BY <1>1

\* compareVersions orders them.
LEMMA OlderTransitive ==
    ASSUME NEW a \in Seq(Nat), NEW b \in Seq(Nat), NEW c \in Seq(Nat), DS!Older(a, b), DS!Older(b, c)
    PROVE  DS!Older(a, c)
<1>1. PICK i \in 1 .. Len(b) : /\ DS!Component(a, i) < DS!Component(b, i)
                               /\ \A j \in 1 .. i - 1 : DS!Component(a, j) = DS!Component(b, j)
  BY DEF DS!Older
<1>2. PICK k \in 1 .. Len(c) : /\ DS!Component(b, k) < DS!Component(c, k)
                               /\ \A j \in 1 .. k - 1 : DS!Component(b, j) = DS!Component(c, j)
  BY Zenon DEF DS!Older
<1> DEFINE m == IF i < k THEN i ELSE k
<1>3. i \in Nat \ {0} /\ k \in Nat \ {0} /\ m \in Nat \ {0} /\ m <= i /\ m <= k
  OBVIOUS
<1>4. \A j \in Nat \ {0} : /\ DS!Component(a, j) \in Nat /\ DS!Component(b, j) \in Nat
                           /\ DS!Component(c, j) \in Nat /\ (j > Len(c) => DS!Component(c, j) = 0)
  BY ComponentType, Zenon
<1>5. DS!Component(a, m) < DS!Component(c, m)
  <2>1. CASE i < k
    <3>1. m = i /\ i \in 1 .. k - 1
      BY <2>1, <1>3
    <3> QED  BY <3>1, <1>1, <1>2
  <2>2. CASE i = k
    BY <2>2, <1>1, <1>2, <1>3, <1>4
  <2>3. CASE k < i
    <3>1. m = k /\ k \in 1 .. i - 1
      BY <2>3, <1>3
    <3> QED  BY <3>1, <1>1, <1>2
  <2> QED  BY <1>3, <2>1, <2>2, <2>3
<1>6. \A j \in 1 .. m - 1 : DS!Component(a, j) = DS!Component(c, j)
  BY <1>1, <1>2, <1>3
<1>7. m \in 1 .. Len(c)
  BY <1>3, <1>4, <1>5
<1> QED  BY <1>5, <1>6, <1>7, ZenonT(40) DEF DS!Older

\* The version AWS resolves a minimum to is not older than the minimum.
LEMMA PrefixIsNotOlder ==
    ASSUME NEW v \in Seq(Nat), NEW prefix \in Seq(Nat), DS!hasVersionPrefix(v, prefix)
    PROVE  ~DS!Older(v, prefix)
<1> SUFFICES ASSUME NEW i \in 1 .. Len(prefix), DS!Component(v, i) < DS!Component(prefix, i)
             PROVE  FALSE
  BY DEF DS!Older
<1>1. DS!Component(v, i) = DS!Component(prefix, i)
  BY DEF DS!hasVersionPrefix, DS!Component
<1>2. DS!Component(v, i) \in Nat
  BY ComponentType
<1> QED  BY <1>1, <1>2

-----------------------------------------------------------------------------
(* The modify request.                                                     *)

\* Changes of different settings, one on top of the other.
LEMMA OverApart ==
    ASSUME NEW f, NEW g, DOMAIN f \cap DOMAIN g = {}
    PROVE  /\ DOMAIN DS!Over(f, g) = DOMAIN f \cup DOMAIN g
           /\ DS!Over(f, g) = [s \in DOMAIN f \cup DOMAIN g |-> DS!Over(f, g)[s]]
           /\ \A s \in DOMAIN f : DS!Over(f, g)[s] = f[s]
           /\ \A s \in DOMAIN g : DS!Over(f, g)[s] = g[s]
BY DEF DS!Over

\* engineVersionUpgrade finds none where the version will do, and otherwise
\* refuses it or asks for it.
LEMMA UpgradeFacts ==
    ASSUME NEW cur, NEW w
    PROVE  /\ DS!upgradeOf(cur, w) \in {"minor", "major"} => DS!Older(cur.version, w.version)
           /\ ~DS!Older(cur.version, w.version) => DS!upgradeOf(cur, w) = "none"
           /\ DS!Older(cur.version, w.version) /\ ~DS!VersionRefused(cur, w)
                => DS!upgradeOf(cur, w) \in {"minor", "major"}
<1>1. CASE ~DS!Older(cur.version, w.version)
  <2>1. DS!upgradeOf(cur, w) = "none"
    BY <1>1 DEF DS!upgradeOf, DS!engineVersionUpgrade
  <2> QED  BY <1>1, <2>1
<1>2. CASE DS!Older(cur.version, w.version)
  <2>1. DS!upgradeOf(cur, w) \in {"invalid", "major", "minor"}
    BY <1>2 DEF DS!upgradeOf, DS!engineVersionUpgrade
  <2> QED  BY <1>2, <2>1 DEF DS!VersionRefused
<1> QED  BY <1>1, <1>2

\* The request q of a pass that described the settings i, when they are cur with
\* those that wait: what it asks for and when (reconcileInstanceAttributes).
Asks(q, i, w, cur) ==
    /\ q = [s \in DOMAIN q |-> q[s]] /\ DOMAIN q \subseteq DS!AllSettings
    /\ "class" \in DOMAIN q <=> cur.class # w.class
    /\ "class" \in DOMAIN q => q.class = w.class
    /\ "retention" \in DOMAIN q <=> (w.backups /\ cur.retention < DS!defaultBackupRetentionDays)
    /\ "retention" \in DOMAIN q => q.retention = DS!defaultBackupRetentionDays
    /\ "storage" \in DOMAIN q <=> w.storage > cur.storage
    /\ "storage" \in DOMAIN q => q.storage = w.storage
    /\ "version" \in DOMAIN q <=> DS!upgradeOf(cur, w) \in {"minor", "major"}
    /\ "version" \in DOMAIN q => q.version = w.version
    /\ "group" \in DOMAIN q <=> ~i.set.group
    /\ "group" \in DOMAIN q => q.group = TRUE
    /\ "protection" \in DOMAIN q
         <=> (~(w.adopt /\ w.protection = DS!Unset) /\ i.set.protection # (w.protection # "off"))
    /\ "protection" \in DOMAIN q => q.protection = (w.protection # "off")
    /\ "copyTags" \in DOMAIN q <=> ~(w.adopt \/ i.set.copyTags)
    /\ "copyTags" \in DOMAIN q => q.copyTags = TRUE
    /\ "ceiling" \in DOMAIN q <=> (w.ceiling # 0 /\ i.set.ceiling # w.ceiling)
    /\ "ceiling" \in DOMAIN q => q.ceiling = w.ceiling

\* What reconcileInstanceAttributes asks for.
LEMMA RequestFacts ==
    ASSUME NEW i, NEW w, IsSet(i.set), IsDue(i.due), w \in DS!Entries
    PROVE  Asks(DS!reconcileInstanceAttributes(i, w), i, w, Now(i.set, i.due))
<1> DEFINE q == DS!reconcileInstanceAttributes(i, w)
           cur == Now(i.set, i.due)
<1> DEFINE sizing == DS!reconcileSizing(cur, w)
           backup == DS!reconcileBackupRetention(cur, w)
           growth == DS!reconcileStorage(cur, w)
           upgrade == DS!reconcileEngineVersion(cur, w)
           group == DS!withSecurityGroup(i.set)
           protection == DS!reconcileDeletionProtection(i.set, w)
           copyTags == DS!reconcileCopyTags(i.set, w)
           ceiling == DS!reconcileAutoscaling(i.set, w)
           on == w.protection # "off"
<1>1. /\ DOMAIN sizing = IF cur.class # w.class THEN {"class"} ELSE {}
      /\ "class" \in DOMAIN sizing => sizing["class"] = w.class
  BY ChangeFacts, Zenon DEF DS!reconcileSizing
<1>2. /\ DOMAIN backup = IF w.backups /\ cur.retention < DS!defaultBackupRetentionDays THEN {"retention"} ELSE {}
      /\ "retention" \in DOMAIN backup => backup["retention"] = DS!defaultBackupRetentionDays
  BY ChangeFacts, Zenon DEF DS!reconcileBackupRetention
<1>3. /\ DOMAIN growth = IF w.storage > cur.storage THEN {"storage"} ELSE {}
      /\ "storage" \in DOMAIN growth => growth["storage"] = w.storage
  BY ChangeFacts, Zenon DEF DS!reconcileStorage
<1>4. /\ DOMAIN upgrade = IF DS!upgradeOf(cur, w) \in {"minor", "major"} THEN {"version"} ELSE {}
      /\ "version" \in DOMAIN upgrade => upgrade["version"] = w.version
  BY ChangeFacts, Zenon DEF DS!reconcileEngineVersion
<1>5. /\ DOMAIN group = IF i.set.group THEN {} ELSE {"group"}
      /\ "group" \in DOMAIN group => group["group"] = TRUE
  BY ChangeFacts, Zenon DEF DS!withSecurityGroup
<1>6. /\ DOMAIN protection = IF ~(w.adopt /\ w.protection = DS!Unset) /\ i.set.protection # on THEN {"protection"} ELSE {}
      /\ "protection" \in DOMAIN protection => protection["protection"] = on
  <2>1. on = (w.protection = DS!Unset \/ w.protection = "on")
    BY DEF DS!Entries, DS!Unset
  <2> HIDE DEF on
  <2> QED  BY <2>1, ChangeFacts, Zenon DEF DS!reconcileDeletionProtection
<1>7. /\ DOMAIN copyTags = IF w.adopt \/ i.set.copyTags THEN {} ELSE {"copyTags"}
      /\ "copyTags" \in DOMAIN copyTags => copyTags["copyTags"] = TRUE
  BY ChangeFacts, Zenon DEF DS!reconcileCopyTags
<1>8. /\ DOMAIN ceiling = IF w.ceiling # 0 /\ i.set.ceiling # w.ceiling THEN {"ceiling"} ELSE {}
      /\ "ceiling" \in DOMAIN ceiling => ceiling["ceiling"] = w.ceiling
  BY ChangeFacts, Zenon DEF DS!reconcileAutoscaling
<1> DEFINE f1 == DS!Over(sizing, backup)
           f2 == DS!Over(growth, upgrade)
           f3 == DS!Over(f1, f2)
           g1 == DS!Over(group, protection)
           g2 == DS!Over(copyTags, ceiling)
           g3 == DS!Over(g1, g2)
<1>9. q = DS!Over(f3, g3)
  BY DEF DS!reconcileInstanceAttributes, Now
<1> HIDE DEF q, sizing, backup, growth, upgrade, group, protection, copyTags, ceiling, on
<1>10. /\ DOMAIN f1 = DOMAIN sizing \cup DOMAIN backup
       /\ \A s \in DOMAIN sizing : f1[s] = sizing[s]
       /\ \A s \in DOMAIN backup : f1[s] = backup[s]
  <2>1. DOMAIN sizing \cap DOMAIN backup = {}
    BY <1>1, <1>2
  <2> QED  BY <2>1, OverApart, ZenonT(40)
<1>11. /\ DOMAIN f2 = DOMAIN growth \cup DOMAIN upgrade
       /\ \A s \in DOMAIN growth : f2[s] = growth[s]
       /\ \A s \in DOMAIN upgrade : f2[s] = upgrade[s]
  <2>1. DOMAIN growth \cap DOMAIN upgrade = {}
    BY <1>3, <1>4
  <2> QED  BY <2>1, OverApart, ZenonT(40)
<1>12. /\ DOMAIN g1 = DOMAIN group \cup DOMAIN protection
       /\ \A s \in DOMAIN group : g1[s] = group[s]
       /\ \A s \in DOMAIN protection : g1[s] = protection[s]
  <2>1. DOMAIN group \cap DOMAIN protection = {}
    BY <1>5, <1>6
  <2> QED  BY <2>1, OverApart, Zenon
<1>13. /\ DOMAIN g2 = DOMAIN copyTags \cup DOMAIN ceiling
       /\ \A s \in DOMAIN copyTags : g2[s] = copyTags[s]
       /\ \A s \in DOMAIN ceiling : g2[s] = ceiling[s]
  <2>1. DOMAIN copyTags \cap DOMAIN ceiling = {}
    BY <1>7, <1>8, Zenon
  <2> QED  BY <2>1, OverApart, Zenon
<1> HIDE DEF f1, f2, g1, g2
<1>14. DOMAIN f1 \subseteq {"class", "retention"} /\ DOMAIN f2 \subseteq {"storage", "version"}
  BY <1>1, <1>2, <1>3, <1>4, <1>10, <1>11, Zenon
<1>15. DOMAIN g1 \subseteq {"group", "protection"} /\ DOMAIN g2 \subseteq {"copyTags", "ceiling"}
  BY <1>5, <1>6, <1>7, <1>8, <1>12, <1>13, ZenonT(40)
<1>16. /\ DOMAIN f3 = DOMAIN f1 \cup DOMAIN f2
       /\ \A s \in DOMAIN f1 : f3[s] = f1[s]
       /\ \A s \in DOMAIN f2 : f3[s] = f2[s]
  <2>1. DOMAIN f1 \cap DOMAIN f2 = {}
    BY <1>14
  <2> QED  BY <2>1, OverApart, ZenonT(40)
<1>17. /\ DOMAIN g3 = DOMAIN g1 \cup DOMAIN g2
       /\ \A s \in DOMAIN g1 : g3[s] = g1[s]
       /\ \A s \in DOMAIN g2 : g3[s] = g2[s]
  <2>1. DOMAIN g1 \cap DOMAIN g2 = {}
    BY <1>15
  <2> QED  BY <2>1, OverApart, ZenonT(40)
<1> HIDE DEF f3, g3
<1>18. /\ DOMAIN q = DOMAIN f3 \cup DOMAIN g3
       /\ q = [s \in DOMAIN f3 \cup DOMAIN g3 |-> q[s]]
       /\ \A s \in DOMAIN f3 : q[s] = f3[s]
       /\ \A s \in DOMAIN g3 : q[s] = g3[s]
  <2>1. DOMAIN f3 \cap DOMAIN g3 = {}
    BY <1>14, <1>15, <1>16, <1>17, Zenon
  <2> DEFINE h == DS!Over(f3, g3)
  <2>2. /\ DOMAIN h = DOMAIN f3 \cup DOMAIN g3
        /\ h = [s \in DOMAIN f3 \cup DOMAIN g3 |-> h[s]]
        /\ \A s \in DOMAIN f3 : h[s] = f3[s]
        /\ \A s \in DOMAIN g3 : h[s] = g3[s]
    BY <2>1 DEF DS!Over
  <2> QED  BY <1>9, <2>2, Zenon
<1>19. q = [s \in DOMAIN q |-> q[s]]
  BY <1>18
<1>20. DOMAIN q = DOMAIN sizing \cup DOMAIN backup \cup DOMAIN growth \cup DOMAIN upgrade
                  \cup DOMAIN group \cup DOMAIN protection \cup DOMAIN copyTags \cup DOMAIN ceiling
  BY <1>10, <1>11, <1>12, <1>13, <1>16, <1>17, <1>18, Zenon
<1>21. /\ \A s \in DOMAIN sizing : q[s] = sizing[s]
       /\ \A s \in DOMAIN backup : q[s] = backup[s]
       /\ \A s \in DOMAIN growth : q[s] = growth[s]
       /\ \A s \in DOMAIN upgrade : q[s] = upgrade[s]
  BY <1>10, <1>11, <1>16, <1>18, Zenon
<1>22. /\ \A s \in DOMAIN group : q[s] = group[s]
       /\ \A s \in DOMAIN protection : q[s] = protection[s]
       /\ \A s \in DOMAIN copyTags : q[s] = copyTags[s]
       /\ \A s \in DOMAIN ceiling : q[s] = ceiling[s]
  BY <1>12, <1>13, <1>17, <1>18, ZenonT(40)
<1>23. DOMAIN q \subseteq DS!AllSettings
  BY <1>1, <1>2, <1>3, <1>4, <1>5, <1>6, <1>7, <1>8, <1>20, ZenonT(40) DEF DS!AllSettings
<1>24. /\ "class" \in DOMAIN q <=> "class" \in DOMAIN sizing
       /\ "retention" \in DOMAIN q <=> "retention" \in DOMAIN backup
       /\ "storage" \in DOMAIN q <=> "storage" \in DOMAIN growth
       /\ "version" \in DOMAIN q <=> "version" \in DOMAIN upgrade
       /\ "group" \in DOMAIN q <=> "group" \in DOMAIN group
       /\ "protection" \in DOMAIN q <=> "protection" \in DOMAIN protection
       /\ "copyTags" \in DOMAIN q <=> "copyTags" \in DOMAIN copyTags
       /\ "ceiling" \in DOMAIN q <=> "ceiling" \in DOMAIN ceiling
  BY <1>1, <1>2, <1>3, <1>4, <1>5, <1>6, <1>7, <1>8, <1>20
<1>25. /\ "class" \in DOMAIN q <=> cur.class # w.class
       /\ "class" \in DOMAIN q => q.class = w.class
       /\ "retention" \in DOMAIN q <=> (w.backups /\ cur.retention < DS!defaultBackupRetentionDays)
       /\ "retention" \in DOMAIN q => q.retention = DS!defaultBackupRetentionDays
  BY <1>1, <1>2, <1>21, <1>24, Zenon
<1>26. /\ "storage" \in DOMAIN q <=> w.storage > cur.storage
       /\ "storage" \in DOMAIN q => q.storage = w.storage
       /\ "version" \in DOMAIN q <=> DS!upgradeOf(cur, w) \in {"minor", "major"}
       /\ "version" \in DOMAIN q => q.version = w.version
  BY <1>3, <1>4, <1>21, <1>24, Zenon
<1>27. /\ "group" \in DOMAIN q <=> ~i.set.group
       /\ "group" \in DOMAIN q => q.group = TRUE
       /\ "protection" \in DOMAIN q <=> (~(w.adopt /\ w.protection = DS!Unset) /\ i.set.protection # on)
       /\ "protection" \in DOMAIN q => q.protection = on
  BY <1>5, <1>6, <1>22, <1>24, ZenonT(40)
<1>28. /\ "copyTags" \in DOMAIN q <=> ~(w.adopt \/ i.set.copyTags)
       /\ "copyTags" \in DOMAIN q => q.copyTags = TRUE
       /\ "ceiling" \in DOMAIN q <=> (w.ceiling # 0 /\ i.set.ceiling # w.ceiling)
       /\ "ceiling" \in DOMAIN q => q.ceiling = w.ceiling
  BY <1>7, <1>8, <1>22, <1>24
<1>29. Asks(q, i, w, cur)
  BY <1>19, <1>23, <1>25, <1>26, <1>27, <1>28, Zenon DEF on, Asks
<1> QED  BY <1>29, Zenon DEF q

-----------------------------------------------------------------------------
(* What an accepted request does to the settings.                          *)

\* What Modified makes wait, does at once, and leaves, for a request resolved to r.
Waiting(r, d) == DS!Over(DS!On(r, DS!Deferrable), d)
AtOnce(r) == DS!On(r, DOMAIN r \ DS!Deferrable)
SetAfter(set, d, r, now) == DS!Over(IF now THEN DS!Over(Waiting(r, d), AtOnce(r)) ELSE AtOnce(r), set)
DueAfter(set, d, r, now) ==
    IF now THEN DS!NoChange
    ELSE DS!On(Waiting(r, d), {s \in DOMAIN Waiting(r, d) : Waiting(r, d)[s] # set[s]})

\* The requested settings that may wait, with those that were waiting.
LEMMA WaitingFacts ==
    ASSUME NEW d, NEW r, IsDue(d), DS!IsChange(r)
    PROVE  /\ IsDue(Waiting(r, d))
           /\ DOMAIN Waiting(r, d) = (DOMAIN r \cap DS!Deferrable) \cup DOMAIN d
           /\ \A s \in DOMAIN r \cap DS!Deferrable : Waiting(r, d)[s] = r[s]
           /\ \A s \in DOMAIN d \ DOMAIN r : Waiting(r, d)[s] = d[s]
<1> DEFINE f == DS!On(r, DS!Deferrable)
           h == DS!Over(f, d)
<1>1. DS!IsChange(d) /\ DOMAIN d \subseteq DS!Deferrable
  BY DEF IsDue
<1>2. /\ DOMAIN f = DOMAIN r \cap DS!Deferrable
      /\ \A s \in DOMAIN r \cap DS!Deferrable : f[s] = r[s]
  BY DEF DS!On
<1>3. DS!IsChange(f)
  BY OnChange, Zenon
<1> HIDE DEF f
<1>4. /\ DOMAIN h = DOMAIN f \cup DOMAIN d
      /\ \A s \in DOMAIN f : h[s] = f[s]
      /\ \A s \in DOMAIN d \ DOMAIN f : h[s] = d[s]
  BY DEF DS!Over
<1>5. DS!IsChange(h)
  BY <1>1, <1>3, OverChange, Zenon
<1> HIDE DEF h
<1>6. /\ DS!IsChange(h) /\ DOMAIN h \subseteq DS!Deferrable
      /\ DOMAIN h = (DOMAIN r \cap DS!Deferrable) \cup DOMAIN d
      /\ \A s \in DOMAIN r \cap DS!Deferrable : h[s] = r[s]
      /\ \A s \in DOMAIN d \ DOMAIN r : h[s] = d[s]
  BY <1>1, <1>2, <1>4, <1>5
<1> QED  BY <1>6, Zenon DEF h, f, Waiting, IsDue

\* The requested settings that do not wait.
LEMMA AtOnceFacts ==
    ASSUME NEW r, DS!IsChange(r)
    PROVE  /\ DS!IsChange(AtOnce(r)) /\ DOMAIN AtOnce(r) = DOMAIN r \ DS!Deferrable
           /\ \A s \in DOMAIN r \ DS!Deferrable : AtOnce(r)[s] = r[s]
<1>1. DS!IsChange(AtOnce(r))
  BY OnChange, Zenon DEF AtOnce
<1>2. /\ DOMAIN AtOnce(r) = DOMAIN r \ DS!Deferrable
      /\ \A s \in DOMAIN r \ DS!Deferrable : AtOnce(r)[s] = r[s]
  BY DEF AtOnce, DS!On
<1> QED  BY <1>1, <1>2

\* Applying a change to settings gives settings.
LEMMA Applied ==
    ASSUME NEW c, NEW set, DS!IsChange(c), IsSet(set)
    PROVE  /\ IsSet(DS!Over(c, set))
           /\ \A s \in DOMAIN c : DS!Over(c, set)[s] = c[s]
           /\ \A s \in DS!AllSettings \ DOMAIN c : DS!Over(c, set)[s] = set[s]
<1> DEFINE h == DS!Over(c, set)
<1>1. DS!IsChange(set) /\ DOMAIN set = DS!AllSettings /\ DOMAIN c \subseteq DS!AllSettings
  BY DEF IsSet, DS!IsChange
<1>2. DS!IsChange(h)
  BY <1>1, OverChange, Zenon
<1>3. /\ DOMAIN h = DOMAIN c \cup DOMAIN set
      /\ \A s \in DOMAIN c : h[s] = c[s]
      /\ \A s \in DOMAIN set \ DOMAIN c : h[s] = set[s]
  BY DEF DS!Over
<1> HIDE DEF h
<1>4. IsSet(h) /\ (\A s \in DOMAIN c : h[s] = c[s]) /\ (\A s \in DS!AllSettings \ DOMAIN c : h[s] = set[s])
  BY <1>1, <1>2, <1>3 DEF IsSet
<1> QED  BY <1>4 DEF h

\* No change waits.
LEMMA NothingDue == DS!IsChange(DS!NoChange) /\ IsDue(DS!NoChange) /\ DOMAIN DS!NoChange = {}
<1>1. DOMAIN DS!NoChange = {} /\ DS!NoChange = [s \in {} |-> DS!NoChange[s]]
  BY ChangeFacts
<1>2. DS!IsChange(DS!NoChange)
  BY <1>1, ZenonT(40) DEF DS!IsChange
<1> QED  BY <1>1, <1>2 DEF IsDue

\* What an accepted request leaves of the settings, one by one.
Lands(set, d, r, now) ==
    /\ \A s \in DOMAIN r : Now(SetAfter(set, d, r, now), DueAfter(set, d, r, now))[s] = r[s]
    /\ \A s \in DS!AllSettings \ DOMAIN r :
         Now(SetAfter(set, d, r, now), DueAfter(set, d, r, now))[s] = Now(set, d)[s]
    /\ ~now => \A s \in DS!Deferrable : SetAfter(set, d, r, now)[s] = set[s]
    /\ d = DS!NoChange => \A s \in DS!Deferrable \ DOMAIN r : SetAfter(set, d, r, now)[s] = set[s]

\* Once the request is accepted the settings that the instance has or is about to
\* have are the requested ones, and its own otherwise; what waits changes nothing
\* yet, and a request made at once drags nothing along when nothing waited.
LEMMA Landed ==
    ASSUME NEW set, NEW d, NEW r, NEW now \in BOOLEAN, IsSet(set), IsDue(d), DS!IsChange(r)
    PROVE  /\ IsSet(SetAfter(set, d, r, now)) /\ IsDue(DueAfter(set, d, r, now))
           /\ Lands(set, d, r, now)
<1> DEFINE waiting == Waiting(r, d)
           atOnce == AtOnce(r)
           set2 == SetAfter(set, d, r, now)
           due2 == DueAfter(set, d, r, now)
<1>1. /\ IsDue(waiting) /\ DOMAIN waiting = (DOMAIN r \cap DS!Deferrable) \cup DOMAIN d
      /\ \A s \in DOMAIN r \cap DS!Deferrable : waiting[s] = r[s]
      /\ \A s \in DOMAIN d \ DOMAIN r : waiting[s] = d[s]
  BY WaitingFacts, ZenonT(40)
<1>2. /\ DS!IsChange(atOnce) /\ DOMAIN atOnce = DOMAIN r \ DS!Deferrable
      /\ \A s \in DOMAIN r \ DS!Deferrable : atOnce[s] = r[s]
  BY AtOnceFacts, Zenon
<1>3. /\ DS!IsChange(d) /\ DOMAIN d \subseteq DS!Deferrable /\ DS!IsChange(waiting)
      /\ DS!Deferrable \subseteq DS!AllSettings /\ DOMAIN r \subseteq DS!AllSettings
  BY <1>1 DEF IsDue, DS!IsChange, DS!Deferrable, DS!AllSettings
<1>4. /\ IsSet(Now(set, d)) /\ \A s \in DOMAIN d : Now(set, d)[s] = d[s]
      /\ \A s \in DS!AllSettings \ DOMAIN d : Now(set, d)[s] = set[s]
  BY NowFacts
<1>5. DOMAIN DS!NoChange = {}
  BY NothingDue
<1>6. CASE now
  <2> DEFINE applied == DS!Over(waiting, atOnce)
  <2>1. set2 = DS!Over(applied, set) /\ due2 = DS!NoChange
    BY <1>6 DEF SetAfter, DueAfter
  <2>2. /\ DOMAIN applied = DOMAIN waiting \cup DOMAIN atOnce
        /\ \A s \in DOMAIN waiting : applied[s] = waiting[s]
        /\ \A s \in DOMAIN atOnce \ DOMAIN waiting : applied[s] = atOnce[s]
    BY DEF DS!Over
  <2>3. DS!IsChange(applied)
    BY <1>2, <1>3, OverChange, Zenon
  <2> HIDE DEF applied, waiting, atOnce
  <2>4. /\ DOMAIN applied = DOMAIN r \cup DOMAIN d
        /\ \A s \in DOMAIN r : applied[s] = r[s]
        /\ \A s \in DOMAIN d \ DOMAIN r : applied[s] = d[s]
    BY <1>1, <1>2, <1>3, <2>2, ZenonT(40)
  <2>5. /\ IsSet(set2) /\ \A s \in DOMAIN applied : set2[s] = applied[s]
        /\ \A s \in DS!AllSettings \ DOMAIN applied : set2[s] = set[s]
    BY <2>1, <2>3, Applied
  <2> HIDE DEF set2, due2
  <2>6. IsDue(due2) /\ DOMAIN due2 = {}
    BY <2>1, NothingDue, Zenon
  <2>7. \A s \in DS!AllSettings : Now(set2, due2)[s] = set2[s]
    BY <2>5, <2>6, NowFacts
  <2>8. \A s \in DOMAIN r : Now(set2, due2)[s] = r[s]
    BY <1>3, <2>4, <2>5, <2>7, ZenonT(40)
  <2>9. \A s \in DS!AllSettings \ DOMAIN r : Now(set2, due2)[s] = Now(set, d)[s]
    BY <1>3, <1>4, <2>4, <2>5, <2>7, ZenonT(40)
  <2>10. d = DS!NoChange => \A s \in DS!Deferrable \ DOMAIN r : set2[s] = set[s]
    BY <1>3, <1>5, <2>4, <2>5
  <2> QED  BY <1>6, <2>5, <2>6, <2>8, <2>9, <2>10, ZenonT(40) DEF set2, due2, Lands
<1>7. CASE ~now
  <2> DEFINE differ == {s \in DOMAIN waiting : waiting[s] # set[s]}
  <2>1. set2 = DS!Over(atOnce, set) /\ due2 = DS!On(waiting, differ)
    BY <1>7, ZenonT(40) DEF SetAfter, DueAfter
  <2> HIDE DEF waiting, atOnce
  <2>2. /\ IsSet(set2) /\ \A s \in DOMAIN atOnce : set2[s] = atOnce[s]
        /\ \A s \in DS!AllSettings \ DOMAIN atOnce : set2[s] = set[s]
    BY <1>2, <2>1, Applied
  <2>3. DS!IsChange(due2)
    BY <1>3, <2>1, OnChange, ZenonT(40)
  <2> HIDE DEF set2, due2
  <2>4. DOMAIN due2 = differ /\ \A s \in differ : due2[s] = waiting[s]
    <3> DEFINE h == DS!On(waiting, differ)
    <3>1. DOMAIN h = DOMAIN waiting \cap differ /\ \A s \in DOMAIN waiting \cap differ : h[s] = waiting[s]
      BY DEF DS!On
    <3> HIDE DEF h
    <3>2. h = due2
      BY <2>1 DEF h
    <3> QED  BY <3>1, <3>2
  <2>5. IsDue(due2)
    BY <1>1, <2>3, <2>4, ZenonT(40) DEF IsDue
  <2>6. /\ \A s \in DOMAIN due2 : Now(set2, due2)[s] = due2[s]
        /\ \A s \in DS!AllSettings \ DOMAIN due2 : Now(set2, due2)[s] = set2[s]
    BY <2>2, <2>5, NowFacts
  <2>7. \A s \in DS!Deferrable : set2[s] = set[s]
    BY <1>2, <1>3, <2>2, Zenon
  <2>8. \A s \in DOMAIN waiting : Now(set2, due2)[s] = waiting[s]
    BY <1>1, <1>3, <2>4, <2>6, <2>7, Zenon DEF IsDue
  <2>9. ASSUME NEW s \in DOMAIN r
        PROVE  Now(set2, due2)[s] = r[s]
    <3>1. CASE s \in DS!Deferrable
      BY <3>1, <1>1, <2>8, ZenonT(40)
    <3>2. CASE s \notin DS!Deferrable
      <4>1. s \in DOMAIN atOnce /\ atOnce[s] = r[s] /\ s \notin DOMAIN waiting
        BY <3>2, <1>1, <1>2, <1>3, ZenonT(40)
      <4> QED  BY <4>1, <1>3, <2>2, <2>4, <2>6
    <3> QED  BY <3>1, <3>2, Zenon
  <2>10. ASSUME NEW s \in DS!AllSettings \ DOMAIN r
         PROVE  Now(set2, due2)[s] = Now(set, d)[s]
    <3>1. CASE s \in DOMAIN d
      BY <3>1, <1>1, <1>4, <2>8, ZenonT(40)
    <3>2. CASE s \notin DOMAIN d
      <4>1. s \notin DOMAIN waiting /\ s \notin DOMAIN atOnce
        BY <3>2, <1>1, <1>2
      <4> QED  BY <3>2, <4>1, <1>4, <2>2, <2>4, <2>6, ZenonT(40)
    <3> QED  BY <3>1, <3>2
  <2> QED  BY <1>7, <2>2, <2>5, <2>7, <2>9, <2>10, ZenonT(40) DEF set2, due2, Lands
<1> QED  BY <1>6, <1>7, ZenonT(40)

-----------------------------------------------------------------------------
(* The pass that asks.                                                     *)

\* The types, of the operators above.
LEMMA Typed ==
    ASSUME SettingsInv
    PROVE  /\ wanted \in DS!Entries /\ IsSet(have.set) /\ IsDue(due)
           /\ step = "modify" => IsSet(seen.set) /\ IsDue(seen.due)
<1>1. DS!TypeOK
  BY DEF SettingsInv
<1>2. wanted \in Wanted /\ DS!IsInstance(have) /\ IsDue(due)
  BY <1>1, Zenon DEF DS!TypeOK, IsDue
<1>3. step = "modify" => IsSet(seen.set) /\ IsDue(seen.due)
  BY <1>1 DEF DS!TypeOK, IsDue, IsSet
<1>4. IsSet(have.set)
  BY <1>2, Zenon DEF DS!IsInstance, IsSet
<1> QED  BY <1>2, <1>3, <1>4, SettingsAssumption, Zenon

\* The version AWS resolves a minimum to is one it has that satisfies it.
LEMMA NewestFacts ==
    ASSUME NEW some \in SUBSET EngineVersions, some # {}
    PROVE  DS!Newest(some) \in some
<1>1. \E v \in some : \A o \in some : ~DS!Older(v, o)
  BY SettingsAssumption, Zenon
<1> QED  BY <1>1, Zenon DEF DS!Newest

\* What AWS makes of a request it accepts.
LEMMA ResolvedFacts ==
    ASSUME NEW q, q = [s \in DOMAIN q |-> q[s]], DOMAIN q \subseteq DS!AllSettings,
           \A s \in DOMAIN q \ {"version"} : q[s] \in DS!Values(s),
           DS!Accepts(q)
    PROVE  /\ DS!IsChange(DS!Resolved(q)) /\ DOMAIN DS!Resolved(q) = DOMAIN q
           /\ \A s \in DOMAIN q \ {"version"} : DS!Resolved(q)[s] = q[s]
           /\ "version" \in DOMAIN q => /\ DS!Resolved(q).version \in EngineVersions
                                        /\ DS!hasVersionPrefix(DS!Resolved(q).version, q.version)
<1> DEFINE r == DS!Resolved(q)
           matched == {t \in DS!ValidUpgradeTargets(have.set.version) : DS!hasVersionPrefix(t, q.version)}
<1>1. /\ DOMAIN r = DOMAIN q /\ r = [s \in DOMAIN q |-> r[s]]
      /\ \A s \in DOMAIN q \ {"version"} : r[s] = q[s]
      /\ "version" \in DOMAIN q => r["version"] = DS!Newest(matched)
  BY ZenonT(40) DEF DS!Resolved
<1>2. "version" \in DOMAIN q => matched # {}
  BY Zenon DEF DS!Accepts
<1>3. matched \in SUBSET EngineVersions
  BY DEF DS!ValidUpgradeTargets
<1>4. "version" \in DOMAIN q => DS!Newest(matched) \in matched
  BY <1>2, <1>3, NewestFacts, Zenon
<1>5. "version" \in DOMAIN q => /\ DS!Newest(matched) \in EngineVersions
                                /\ DS!hasVersionPrefix(DS!Newest(matched), q.version)
  BY <1>3, <1>4, Zenon
<1> HIDE DEF r, matched
<1>6. "version" \in DOMAIN q => r["version"] \in EngineVersions /\ DS!hasVersionPrefix(r["version"], q.version)
  BY <1>1, <1>5, Zenon
<1>7. DS!Values("version") = EngineVersions
  BY DEF DS!Values
<1>8. \A s \in DOMAIN q : r[s] \in DS!Values(s)
  BY <1>1, <1>6, <1>7
<1>9. DS!IsChange(r)
  BY <1>1, <1>8, Zenon DEF DS!IsChange
<1> QED  BY <1>1, <1>6, <1>9, Zenon DEF r

\* A request asks for values that settings may have.
LEMMA RequestTyped ==
    ASSUME NEW i, NEW w, IsSet(i.set), IsDue(i.due), w \in DS!Entries,
           NEW q, Asks(q, i, w, Now(i.set, i.due))
    PROVE  \A s \in DOMAIN q \ {"version"} : q[s] \in DS!Values(s)
<1>1. /\ w.class \in {"s", "l"} /\ w.storage \in Nat /\ w.ceiling \in Nat
  BY DEF DS!Entries
<1>2. /\ DOMAIN q \subseteq DS!AllSettings
      /\ "class" \in DOMAIN q => q.class = w.class
      /\ "retention" \in DOMAIN q => q.retention = DS!defaultBackupRetentionDays
      /\ "storage" \in DOMAIN q => q.storage = w.storage
      /\ "group" \in DOMAIN q => q.group = TRUE
      /\ "protection" \in DOMAIN q => q.protection = (w.protection # "off")
      /\ "copyTags" \in DOMAIN q => q.copyTags = TRUE
      /\ "ceiling" \in DOMAIN q => q.ceiling = w.ceiling
  BY Zenon DEF Asks
<1>3. /\ DS!Values("class") = {"s", "l"} /\ DS!Values("storage") = Nat /\ DS!Values("retention") = Nat
      /\ DS!Values("ceiling") = Nat /\ DS!Values("protection") = BOOLEAN
      /\ DS!Values("copyTags") = BOOLEAN /\ DS!Values("group") = BOOLEAN
  BY DEF DS!Values
<1>4. DS!defaultBackupRetentionDays \in Nat /\ (w.protection # "off") \in BOOLEAN
  BY DEF DS!defaultBackupRetentionDays
<1>5. /\ "class" \in DOMAIN q => q["class"] \in DS!Values("class")
      /\ "retention" \in DOMAIN q => q["retention"] \in DS!Values("retention")
      /\ "storage" \in DOMAIN q => q["storage"] \in DS!Values("storage")
      /\ "ceiling" \in DOMAIN q => q["ceiling"] \in DS!Values("ceiling")
  BY <1>1, <1>2, <1>3, <1>4, Zenon
<1>6. /\ "group" \in DOMAIN q => q["group"] \in DS!Values("group")
      /\ "protection" \in DOMAIN q => q["protection"] \in DS!Values("protection")
      /\ "copyTags" \in DOMAIN q => q["copyTags"] \in DS!Values("copyTags")
  BY <1>2, <1>3, <1>4, ZenonT(40)
<1>7. \A s \in DOMAIN q \ {"version"} :
        s \in {"class", "retention", "storage", "ceiling", "group", "protection", "copyTags"}
  BY <1>2 DEF DS!AllSettings
<1> QED  BY <1>5, <1>6, <1>7, Zenon

\* A pass asks for nothing exactly when nothing is left to ask for.
LEMMA NothingToAsk ==
    ASSUME NEW i, NEW w, IsSet(i.set), IsDue(i.due), w \in DS!Entries,
           NEW cur, cur = Now(i.set, i.due), NEW q, Asks(q, i, w, cur)
    PROVE  (q = DS!NoChange /\ ~DS!VersionRefused(cur, w)) <=> Met(i.set, i.due, w)
<1> DEFINE asks == /\ cur.class = w.class /\ ~(w.storage > cur.storage)
                   /\ ~(w.backups /\ cur.retention < DS!defaultBackupRetentionDays)
                   /\ i.set.group /\ (w.adopt \/ i.set.copyTags)
                   /\ ~(~(w.adopt /\ w.protection = DS!Unset) /\ i.set.protection # (w.protection # "off"))
                   /\ ~(w.ceiling # 0 /\ i.set.ceiling # w.ceiling)
<1>1. /\ q = [s \in DOMAIN q |-> q[s]] /\ DOMAIN q \subseteq DS!AllSettings
      /\ "class" \in DOMAIN q <=> cur.class # w.class
      /\ "retention" \in DOMAIN q <=> (w.backups /\ cur.retention < DS!defaultBackupRetentionDays)
      /\ "storage" \in DOMAIN q <=> w.storage > cur.storage
      /\ "version" \in DOMAIN q <=> DS!upgradeOf(cur, w) \in {"minor", "major"}
      /\ "group" \in DOMAIN q <=> ~i.set.group
      /\ "protection" \in DOMAIN q
           <=> (~(w.adopt /\ w.protection = DS!Unset) /\ i.set.protection # (w.protection # "off"))
      /\ "copyTags" \in DOMAIN q <=> ~(w.adopt \/ i.set.copyTags)
      /\ "ceiling" \in DOMAIN q <=> (w.ceiling # 0 /\ i.set.ceiling # w.ceiling)
  BY Zenon DEF Asks
<1>2. q = DS!NoChange <=> \A s \in DS!AllSettings : s \notin DOMAIN q
  BY <1>1, ChangeFacts, Zenon
<1>3. q = DS!NoChange <=> (asks /\ ~(DS!upgradeOf(cur, w) \in {"minor", "major"}))
  BY <1>1, <1>2, Zenon DEF DS!AllSettings
<1>4. ~DS!Older(cur.version, w.version) <=>
        (~(DS!upgradeOf(cur, w) \in {"minor", "major"}) /\ ~DS!VersionRefused(cur, w))
  BY UpgradeFacts DEF DS!VersionRefused
<1>5. cur.storage \in Nat /\ cur.retention \in Nat /\ w.storage \in Nat
  <2>1. IsSet(cur)
    BY NowFacts, Zenon
  <2>2. w.storage \in Nat
    BY DEF DS!Entries
  <2> QED  BY <2>1, <2>2, SetFields, Zenon
<1>6. /\ ~(w.storage > cur.storage) <=> cur.storage >= w.storage
      /\ ~(cur.retention < DS!defaultBackupRetentionDays) <=> cur.retention >= DS!defaultBackupRetentionDays
  BY <1>5 DEF DS!defaultBackupRetentionDays
<1>7. (asks /\ ~DS!Older(cur.version, w.version)) <=> Met(i.set, i.due, w)
  BY <1>6, Zenon DEF Met
<1> QED  BY <1>3, <1>4, <1>7, Zenon

\* What the settings of an instance, with those that wait, were before a request
\* that the spec entry w makes was accepted, and are afterwards.
Becomes(was, is, w) ==
    /\ is.class = w.class
    /\ is.storage = IF w.storage > was.storage THEN w.storage ELSE was.storage
    /\ is.retention = IF w.backups /\ was.retention < DS!defaultBackupRetentionDays
                      THEN DS!defaultBackupRetentionDays ELSE was.retention
    /\ \/ is.version = was.version /\ ~(DS!upgradeOf(was, w) \in {"minor", "major"})
       \/ DS!Older(was.version, w.version) /\ DS!hasVersionPrefix(is.version, w.version)
    /\ is.group = TRUE
    /\ is.copyTags = IF w.adopt THEN was.copyTags ELSE TRUE
    /\ is.protection = IF w.adopt /\ w.protection = DS!Unset THEN was.protection ELSE w.protection # "off"
    /\ is.ceiling = IF w.ceiling # 0 THEN w.ceiling ELSE was.ceiling

\* What the service answers to the request q made of the observed instance: r sets
\* what q asked for, and a version under the requested prefix.
Answers(q, r) ==
    /\ Asks(q, seen, wanted, Now(seen.set, seen.due))
    /\ DS!IsChange(r) /\ DOMAIN r = DOMAIN q /\ \A s \in DOMAIN q \ {"version"} : r[s] = q[s]
    /\ "version" \in DOMAIN q => DS!hasVersionPrefix(r.version, q.version)

\* An accepted request is answered with what it asked for.
LEMMA AcceptedAnswer ==
    ASSUME SettingsInv, step = "modify",
           NEW q, q = DS!reconcileInstanceAttributes(seen, wanted), DS!Accepts(q),
           NEW r, r = DS!Resolved(q)
    PROVE  Answers(q, r)
<1>1. wanted \in DS!Entries /\ IsSet(seen.set) /\ IsDue(seen.due)
  BY Typed, Zenon
<1>2. Asks(q, seen, wanted, Now(seen.set, seen.due))
  BY <1>1, RequestFacts, Zenon
<1>3. q = [s \in DOMAIN q |-> q[s]] /\ DOMAIN q \subseteq DS!AllSettings
  BY <1>2, Zenon DEF Asks
<1>4. \A s \in DOMAIN q \ {"version"} : q[s] \in DS!Values(s)
  BY <1>1, <1>2, RequestTyped, Zenon
<1>5. /\ DS!IsChange(r) /\ DOMAIN r = DOMAIN q /\ \A s \in DOMAIN q \ {"version"} : r[s] = q[s]
      /\ "version" \in DOMAIN q => DS!hasVersionPrefix(r.version, q.version)
  BY <1>3, <1>4, ResolvedFacts, ZenonT(40)
<1> QED  BY <1>2, <1>5, Zenon DEF Answers

\* An accepted request leaves settings, and none of the unaccepted ones.
LEMMA AcceptedTyped ==
    ASSUME SettingsInv, step = "modify", NEW now \in BOOLEAN,
           NEW q, q = DS!reconcileInstanceAttributes(seen, wanted), DS!Accepts(q),
           NEW r, r = DS!Resolved(q)
    PROVE  /\ Asks(q, seen, wanted, Now(seen.set, seen.due))
           /\ DS!IsChange(r) /\ DOMAIN r = DOMAIN q /\ \A s \in DOMAIN q \ {"version"} : r[s] = q[s]
           /\ "version" \in DOMAIN q => DS!hasVersionPrefix(r.version, q.version)
           /\ IsSet(SetAfter(have.set, due, r, now)) /\ IsDue(DueAfter(have.set, due, r, now))
<1>1. IsSet(have.set) /\ IsDue(due)
  BY Typed, Zenon
<1>2. Answers(q, r)
  BY AcceptedAnswer, Zenon
<1>3. DS!IsChange(r)
  BY <1>2, Zenon DEF Answers
<1>4. IsSet(SetAfter(have.set, due, r, now)) /\ IsDue(DueAfter(have.set, due, r, now))
  BY <1>1, <1>3, Landed, ZenonT(40)
<1> QED  BY <1>2, <1>4, Zenon DEF Answers

\* What a request made of an up-to-date description does.
LEMMA AcceptedEffect ==
    ASSUME SettingsInv, step = "modify", ~raced, NEW now \in BOOLEAN,
           NEW q, q = DS!reconcileInstanceAttributes(seen, wanted), DS!Accepts(q),
           NEW r, r = DS!Resolved(q)
    PROVE  Becomes(Now(have.set, due), Now(SetAfter(have.set, due, r, now), DueAfter(have.set, due, r, now)), wanted)
<1> DEFINE was == Now(have.set, due)
           is == Now(SetAfter(have.set, due, r, now), DueAfter(have.set, due, r, now))
<1>1. wanted \in DS!Entries /\ IsSet(have.set) /\ IsDue(due) /\ seen.set = have.set /\ seen.due = due
  BY Typed, Zenon DEF SettingsInv
<1>2. /\ Asks(q, seen, wanted, was)
      /\ DS!IsChange(r) /\ DOMAIN r = DOMAIN q /\ \A s \in DOMAIN q \ {"version"} : r[s] = q[s]
      /\ "version" \in DOMAIN q => DS!hasVersionPrefix(r.version, q.version)
  <2>1. Answers(q, r)
    BY AcceptedAnswer, Zenon
  <2> QED  BY <1>1, <2>1, ZenonT(40) DEF Answers
<1>3. /\ \A s \in DOMAIN q : is[s] = r[s]
      /\ \A s \in DS!AllSettings \ DOMAIN q : is[s] = was[s]
  <2>1. /\ \A s \in DOMAIN r : is[s] = r[s]
        /\ \A s \in DS!AllSettings \ DOMAIN r : is[s] = was[s]
    <3>1. Lands(have.set, due, r, now)
      BY <1>1, <1>2, Landed, ZenonT(40)
    <3> QED  BY <3>1, Zenon DEF Lands
  <2> QED  BY <1>2, <2>1, Zenon
<1>4. \A s \in {"protection", "copyTags", "group", "ceiling"} : was[s] = have.set[s]
  BY <1>1, NowFacts
<1>5. /\ was.protection \in BOOLEAN /\ was.copyTags \in BOOLEAN /\ was.group \in BOOLEAN
      /\ have.set.protection = was.protection /\ have.set.copyTags = was.copyTags
      /\ have.set.group = was.group /\ have.set.ceiling = was.ceiling
  <2>1. was.protection = have.set.protection /\ was.copyTags = have.set.copyTags
        /\ was.group = have.set.group /\ was.ceiling = have.set.ceiling
    BY <1>4
  <2> QED  BY <1>1, <2>1, SetFields, ZenonT(40)
<1> HIDE DEF was, is
<1>6. \A s \in DS!AllSettings \ {"version"} : is[s] = IF s \in DOMAIN q THEN q[s] ELSE was[s]
  BY <1>2, <1>3, Zenon
<1>7. /\ "class" \in DS!AllSettings \ {"version"} /\ "storage" \in DS!AllSettings \ {"version"}
      /\ "retention" \in DS!AllSettings \ {"version"} /\ "group" \in DS!AllSettings \ {"version"}
      /\ "protection" \in DS!AllSettings \ {"version"} /\ "copyTags" \in DS!AllSettings \ {"version"}
      /\ "ceiling" \in DS!AllSettings \ {"version"} /\ "version" \in DS!AllSettings
  BY DEF DS!AllSettings
<1>8. is.class = wanted.class
  BY <1>2, <1>6, <1>7, Zenon DEF Asks
<1>9. is.storage = IF wanted.storage > was.storage THEN wanted.storage ELSE was.storage
  BY <1>2, <1>6, <1>7, Zenon DEF Asks
<1>10. is.retention = IF wanted.backups /\ was.retention < DS!defaultBackupRetentionDays
                      THEN DS!defaultBackupRetentionDays ELSE was.retention
  BY <1>2, <1>6, <1>7, ZenonT(40) DEF Asks
<1>11. is.group = TRUE
  BY <1>1, <1>2, <1>5, <1>6, <1>7, Zenon DEF Asks
<1>12. is.copyTags = IF wanted.adopt THEN was.copyTags ELSE TRUE
  BY <1>1, <1>2, <1>5, <1>6, <1>7, Zenon DEF Asks
<1>13. is.protection = IF wanted.adopt /\ wanted.protection = DS!Unset THEN was.protection ELSE wanted.protection # "off"
  BY <1>1, <1>2, <1>5, <1>6, <1>7, ZenonT(40) DEF Asks
<1>14. is.ceiling = IF wanted.ceiling # 0 THEN wanted.ceiling ELSE was.ceiling
  BY <1>1, <1>2, <1>5, <1>6, <1>7 DEF Asks
<1>15. \/ is.version = was.version /\ ~(DS!upgradeOf(was, wanted) \in {"minor", "major"})
       \/ DS!Older(was.version, wanted.version) /\ DS!hasVersionPrefix(is.version, wanted.version)
  <2>1. CASE "version" \in DOMAIN q
    <3>1. q.version = wanted.version /\ DS!upgradeOf(was, wanted) \in {"minor", "major"}
      BY <2>1, <1>2, Zenon DEF Asks
    <3>2. DS!Older(was.version, wanted.version)
      BY <3>1, UpgradeFacts, Zenon
    <3>3. DS!hasVersionPrefix(is.version, wanted.version)
      BY <2>1, <3>1, <1>2, <1>3, Zenon
    <3> QED  BY <3>2, <3>3, Zenon
  <2>2. CASE "version" \notin DOMAIN q
    BY <2>2, <1>2, <1>3, <1>7, Zenon DEF Asks
  <2> QED  BY <2>1, <2>2, Zenon
<1>16. Becomes(was, is, wanted)
  BY <1>8, <1>9, <1>10, <1>11, <1>12, <1>13, <1>14, <1>15, Zenon DEF Becomes
<1> QED  BY <1>16 DEF was, is

\* And then nothing is left to ask for.
LEMMA BecomesMet ==
    ASSUME NEW set, NEW d, IsSet(set), IsDue(d), NEW was, IsSet(was), NEW w \in DS!Entries,
           Becomes(was, Now(set, d), w), ~DS!VersionRefused(was, w)
    PROVE  Met(set, d, w)
<1> DEFINE is == Now(set, d)
<1>1. /\ is.protection = set.protection /\ is.copyTags = set.copyTags
      /\ is.group = set.group /\ is.ceiling = set.ceiling /\ IsSet(is)
  BY NowFacts, Zenon
<1> HIDE DEF is
<1>2. /\ is.class = w.class /\ is.group = TRUE /\ (w.adopt \/ is.copyTags)
      /\ ~(w.adopt /\ w.protection = DS!Unset) => is.protection = (w.protection # "off")
      /\ w.ceiling # 0 => is.ceiling = w.ceiling
  BY Zenon DEF Becomes, is
<1>3. was.storage \in Nat /\ was.retention \in Nat /\ is.version \in Seq(Nat)
  BY <1>1, SetFields, SettingsAssumption
<1>4. w.storage \in Nat /\ w.version \in Seq(Nat)
  BY ZenonT(40) DEF DS!Entries
<1>5. is.storage >= w.storage /\ (w.backups => is.retention >= DS!defaultBackupRetentionDays)
  BY <1>3, <1>4 DEF Becomes, is, DS!defaultBackupRetentionDays
<1>6. ~DS!Older(is.version, w.version)
  <2>1. CASE is.version = was.version /\ ~(DS!upgradeOf(was, w) \in {"minor", "major"})
    BY <2>1, UpgradeFacts, Zenon
  <2>2. CASE DS!hasVersionPrefix(is.version, w.version)
    BY <2>2, <1>3, <1>4, PrefixIsNotOlder, Zenon
  <2> QED  BY <2>1, <2>2, Zenon DEF Becomes, is
<1> QED  BY <1>1, <1>2, <1>5, <1>6, Zenon DEF Met, is

-----------------------------------------------------------------------------
(* The inductive invariant.                                                *)

\* The statuses an instance may have.
Statuses == {"available", "busy", "serving"}

\* An instance with other settings and another status.
Other(i, set, status) == [i EXCEPT !.set = set, !.status = status]

\* It is an instance.
LEMMA InstanceChange ==
    ASSUME NEW i, DS!IsInstance(i), NEW set, IsSet(set), NEW status \in Statuses
    PROVE  /\ DS!IsInstance(Other(i, set, status))
           /\ Other(i, set, status).set = set /\ Other(i, set, status).mine = i.mine
<1> DEFINE j == Other(i, set, status)
<1>1. /\ i = [set |-> i.set, fits |-> i.fits, encryption |-> i.encryption, mine |-> i.mine, status |-> i.status]
      /\ i.fits \in BOOLEAN /\ i.mine \in BOOLEAN
  BY DEF DS!IsInstance
<1>2. j = [set |-> set, fits |-> i.fits, encryption |-> i.encryption, mine |-> i.mine, status |-> status]
  <2>1. ASSUME NEW k, k = [i EXCEPT !.set = set, !.status = status]
        PROVE  k = [set |-> set, fits |-> i.fits, encryption |-> i.encryption, mine |-> i.mine, status |-> status]
    BY <1>1, <2>1, Zenon
  <2> QED  BY <2>1, Zenon DEF Other
<1> HIDE DEF j
<1>3. /\ j.set = set /\ j.fits = i.fits /\ j.encryption = i.encryption /\ j.mine = i.mine /\ j.status = status
  BY <1>2
<1>4. j = [set |-> j.set, fits |-> j.fits, encryption |-> j.encryption, mine |-> j.mine, status |-> j.status]
  BY <1>2, <1>3, Zenon
<1>5. DS!IsChange(j.set) /\ DOMAIN j.set = DS!AllSettings
  BY <1>3, Zenon DEF IsSet
<1>6. {j.fits, j.mine} \subseteq BOOLEAN /\ j.status \in Statuses
  BY <1>1, <1>3, Zenon
<1>7. DS!IsInstance(j)
  BY <1>4, <1>5, <1>6, Zenon DEF DS!IsInstance, Statuses
<1> QED  BY <1>3, <1>7, Zenon DEF j

\* So is one that is tagged.
LEMMA InstanceTagged ==
    ASSUME NEW i, DS!IsInstance(i), NEW j, j = [i EXCEPT !.mine = TRUE]
    PROVE  DS!IsInstance(j) /\ j.set = i.set /\ j.mine = TRUE
<1>1. /\ i = [set |-> i.set, fits |-> i.fits, encryption |-> i.encryption, mine |-> i.mine, status |-> i.status]
      /\ i.fits \in BOOLEAN /\ i.status \in Statuses
  BY DEF DS!IsInstance, Statuses
<1>2. j = [set |-> i.set, fits |-> i.fits, encryption |-> i.encryption, mine |-> TRUE, status |-> i.status]
  BY <1>1, Zenon
<1>3. /\ j.set = i.set /\ j.fits = i.fits /\ j.encryption = i.encryption /\ j.mine = TRUE /\ j.status = i.status
  BY <1>2
<1>4. j = [set |-> j.set, fits |-> j.fits, encryption |-> j.encryption, mine |-> j.mine, status |-> j.status]
  BY <1>2, <1>3, Zenon
<1>5. DS!IsChange(i.set) /\ DOMAIN i.set = DS!AllSettings
  BY Zenon DEF DS!IsInstance
<1> QED  BY <1>1, <1>3, <1>4, <1>5 DEF DS!IsInstance

\* What the invariant says of the variables.
LEMMA Known ==
    ASSUME SettingsInv
    PROVE  /\ wanted \in Wanted /\ DS!IsInstance(have) /\ IsDue(due)
           /\ tracked \in BOOLEAN /\ raced \in BOOLEAN /\ agreed \in BOOLEAN
           /\ tracked => have.mine
           /\ have.mine \in BOOLEAN /\ have.status \in Statuses
<1>1. /\ wanted \in Wanted /\ DS!IsInstance(have) /\ DS!IsChange(due) /\ DOMAIN due \subseteq DS!Deferrable
      /\ {tracked, raced, agreed} \subseteq BOOLEAN /\ (tracked => have.mine)
  BY Zenon DEF SettingsInv, DS!TypeOK
<1>2. have.mine \in BOOLEAN /\ have.status \in Statuses
  BY <1>1 DEF DS!IsInstance, Statuses
<1> QED  BY <1>1, <1>2 DEF IsDue

\* Outside a pass the invariant is about the instance only.
LEMMA AtIdle ==
    ASSUME wanted' \in Wanted, DS!IsInstance(have'), IsDue(due'), tracked' \in BOOLEAN, raced' \in BOOLEAN,
           agreed' \in BOOLEAN, tracked' => have'.mine, step' = "idle",
           agreed' => Met(have'.set, due', wanted')
    PROVE  SettingsInv'
<1>1. DS!TypeOK'
  BY Zenon DEF DS!TypeOK, IsDue
<1> QED  BY <1>1, Zenon DEF SettingsInv

\* Where a pass is at the modify call.
LEMMA AtModify ==
    ASSUME SettingsInv, step = "modify"
    PROVE  /\ have.mine /\ seen = [set |-> seen.set, due |-> seen.due, adopting |-> seen.adopting]
           /\ IsSet(seen.set) /\ IsDue(seen.due) /\ seen.adopting \in BOOLEAN
           /\ ~raced => seen.set = have.set /\ seen.due = due
           /\ seen.adopting => wanted.adopt /\ Adoptable(seen.set, seen.due, wanted)
           /\ agreed => Met(seen.set, seen.due, wanted) /\ Met(have.set, due, wanted)
<1>1. DS!TypeOK /\ step # "idle"
  BY DEF SettingsInv
<1>2. /\ seen = [set |-> seen.set, due |-> seen.due, adopting |-> seen.adopting]
      /\ IsSet(seen.set) /\ IsDue(seen.due) /\ seen.adopting \in BOOLEAN
  BY <1>1, Zenon DEF DS!TypeOK, IsSet, IsDue
<1> QED  BY <1>2, Zenon DEF SettingsInv

\* A step that leaves the running pass as it is.
LEMMA PassGoesOn ==
    ASSUME SettingsInv, wanted' = wanted, DS!IsInstance(have'), IsDue(due'), tracked' = tracked, have'.mine = have.mine,
           step' = step, seen' = seen, raced' \in BOOLEAN, agreed' \in BOOLEAN, agreed' => agreed,
           agreed' => Met(have'.set, due', wanted),
           step = "modify" /\ ~raced' => ~raced /\ have'.set = have.set /\ due' = due
    PROVE  SettingsInv'
<1>1. /\ wanted \in Wanted /\ tracked \in BOOLEAN /\ (tracked => have.mine)
  BY Known, Zenon
<1>2. CASE step = "idle"
  BY <1>1, <1>2, AtIdle, Zenon
<1>3. CASE step # "idle"
  <2>1. step = "modify"
    BY <1>3, Zenon DEF SettingsInv, DS!TypeOK
  <2>2. /\ have.mine /\ seen = [set |-> seen.set, due |-> seen.due, adopting |-> seen.adopting]
        /\ IsSet(seen.set) /\ IsDue(seen.due) /\ seen.adopting \in BOOLEAN
        /\ ~raced => seen.set = have.set /\ seen.due = due
        /\ seen.adopting => wanted.adopt /\ Adoptable(seen.set, seen.due, wanted)
        /\ agreed => Met(seen.set, seen.due, wanted)
    BY <2>1, AtModify, Zenon
  <2>3. DS!TypeOK'
    BY <1>1, <2>1, <2>2, Zenon DEF DS!TypeOK, IsDue, IsSet
  <2>4. /\ have'.mine /\ (~raced' => seen'.set = have'.set /\ seen'.due = due')
        /\ seen'.adopting => wanted'.adopt /\ Adoptable(seen'.set, seen'.due, wanted')
        /\ agreed' => Met(seen'.set, seen'.due, wanted')
    BY <2>1, <2>2, Zenon
  <2>5. (tracked' => have'.mine) /\ (agreed' => Met(have'.set, due', wanted'))
    BY <1>1, Zenon
  <2> QED  BY <2>3, <2>4, <2>5, Zenon DEF SettingsInv
<1> QED  BY <1>2, <1>3

\* ensureInstanceObserving describes the instance, and adopts it only when nothing
\* would be resized.
LEMMA Observes ==
    ASSUME SettingsInv, DS!ensureInstanceObserving
    PROVE  SettingsInv'
<1>1. /\ wanted \in Wanted /\ DS!IsInstance(have) /\ IsDue(due)
      /\ tracked \in BOOLEAN /\ raced \in BOOLEAN /\ agreed \in BOOLEAN
      /\ (tracked => have.mine) /\ have.mine \in BOOLEAN
  BY Known, Zenon
<1>2. IsSet(have.set) /\ (agreed => Met(have.set, due, wanted))
  BY Typed, Zenon DEF SettingsInv
<1>3. step = "idle" /\ wanted' = wanted /\ due' = due /\ agreed' = agreed
  BY Zenon DEF DS!ensureInstanceObserving
<1>4. CASE DS!Refused /\ have' = have
  <2>1. step' = "idle" /\ raced' = FALSE /\ tracked' = tracked
    BY <1>4, Zenon DEF DS!Refused, DS!End
  <2> QED  BY <1>1, <1>2, <1>3, <1>4, <2>1, AtIdle, Zenon
<1>5. ASSUME have' = [have EXCEPT !.mine = TRUE]
      PROVE  DS!IsInstance(have') /\ have'.set = have.set /\ have'.mine = TRUE
  BY <1>1, <1>5, InstanceTagged, Zenon
<1>6. CASE have' = [have EXCEPT !.mine = TRUE] /\ (DS!Refused \/ DS!recordVerified)
  <2>1. step' = "idle" /\ raced' = FALSE /\ (tracked' = tracked \/ tracked' = TRUE)
    BY <1>6, Zenon DEF DS!Refused, DS!recordVerified, DS!End
  <2>2. DS!IsInstance(have') /\ have'.set = have.set /\ have'.mine = TRUE
    BY <1>5, <1>6
  <2>3. Met(have'.set, due', wanted') <=> Met(have.set, due, wanted)
    BY <1>3, <2>2, Zenon
  <2> QED  BY <1>1, <1>2, <1>3, <2>1, <2>2, <2>3, AtIdle, ZenonT(40)
<1>7. CASE /\ have' = [have EXCEPT !.mine = TRUE] /\ step' = "modify"
           /\ seen' = [set |-> have.set, due |-> due, adopting |-> ~have.mine]
           /\ tracked' = tracked /\ raced' = raced
           /\ DS!checkAdoptable(have, wanted) /\ (have.mine \/ wanted.adopt)
  <2>1. DS!IsInstance(have') /\ have'.set = have.set /\ have'.mine = TRUE
    BY <1>5, <1>7
  <2>2. /\ seen'.set = have.set /\ seen'.due = due /\ seen'.adopting = ~have.mine
        /\ seen' = [set |-> seen'.set, due |-> seen'.due, adopting |-> seen'.adopting]
    BY <1>7
  <2>3. DS!TypeOK'
    BY <1>1, <1>2, <1>3, <1>7, <2>1, <2>2, ZenonT(40) DEF DS!TypeOK, IsDue, IsSet
  <2>4. ASSUME ~have.mine
        PROVE  wanted.adopt /\ Adoptable(have.set, due, wanted)
    <3>1. wanted.adopt /\ ~DS!adoptionConflicts(have, wanted)
      BY <1>1, <1>7, <2>4, Zenon DEF DS!checkAdoptable
    <3> DEFINE cur == Now(have.set, due)
    <3>2. cur.class = wanted.class /\ ~(wanted.storage > cur.storage) /\ ~DS!Older(cur.version, wanted.version)
      BY <3>1, Zenon DEF DS!adoptionConflicts, Now
    <3>3. IsSet(cur)
      BY <1>1, <1>2, NowFacts, Zenon
    <3> HIDE DEF cur
    <3>4. cur.storage \in Nat /\ wanted.storage \in Nat
      <4>1. wanted \in DS!Entries
        BY Typed, Zenon
      <4> QED  BY <3>3, <4>1, SetFields DEF DS!Entries
    <3>5. wanted.storage <= cur.storage
      BY <3>2, <3>4
    <3> QED  BY <3>1, <3>2, <3>5, Zenon DEF Adoptable, cur
  <2>5. seen'.adopting => wanted'.adopt /\ Adoptable(seen'.set, seen'.due, wanted')
    BY <1>3, <2>2, <2>4, Zenon
  <2>6. agreed' => Met(seen'.set, seen'.due, wanted') /\ Met(have'.set, due', wanted')
    BY <1>2, <1>3, <2>1, <2>2, Zenon
  <2> QED  BY <1>3, <2>1, <2>2, <2>3, <2>5, <2>6, ZenonT(40) DEF SettingsInv
<1> QED
  <2>1. CASE ~DS!checkAdoptable(have, wanted) \/ (~have.mine /\ ~wanted.adopt)
    BY <2>1, <1>4, Zenon DEF DS!ensureInstanceObserving
  <2>2. CASE DS!checkAdoptable(have, wanted) /\ (have.mine \/ wanted.adopt)
    <3>1. have' = [have EXCEPT !.mine = TRUE]
      BY <2>2, Zenon DEF DS!ensureInstanceObserving
    <3>2. \/ DS!Refused \/ DS!recordVerified
          \/ /\ step' = "modify" /\ seen' = [set |-> have.set, due |-> due, adopting |-> ~have.mine]
             /\ tracked' = tracked /\ raced' = raced
      BY <2>2 DEF DS!ensureInstanceObserving
    <3> QED  BY <2>2, <3>1, <3>2, <1>6, <1>7, Zenon
  <2> QED  BY <1>1, <2>1, <2>2, Zenon

\* What an accepted request does to the instance.
LEMMA ModifiedFacts ==
    ASSUME NEW q, NEW now \in BOOLEAN, DS!Modified(q, now)
    PROVE  /\ have' = Other(have, SetAfter(have.set, due, DS!Resolved(q), now),
                             IF now /\ Waiting(DS!Resolved(q), due) # DS!NoChange THEN "busy" ELSE have.status)
           /\ due' = DueAfter(have.set, due, DS!Resolved(q), now)
BY Zenon DEF DS!Modified, Other, SetAfter, DueAfter, Waiting, AtOnce

\* ModifyDBInstance asks for what is missing, and what it gets is what was asked.
LEMMA Modifies ==
    ASSUME SettingsInv, DS!ModifyDBInstance
    PROVE  SettingsInv'
<1> DEFINE q == DS!reconcileInstanceAttributes(seen, wanted)
           r == DS!Resolved(q)
           cur == Now(seen.set, seen.due)
           now == DS!immediate(seen, wanted, q)
<1>1. /\ wanted \in Wanted /\ DS!IsInstance(have) /\ IsDue(due) /\ tracked \in BOOLEAN
      /\ raced \in BOOLEAN /\ agreed \in BOOLEAN /\ have.status \in Statuses
  BY Known, Zenon
<1>2. step = "modify" /\ wanted' = wanted
  BY Zenon DEF DS!ModifyDBInstance
<1>3. /\ have.mine /\ IsSet(seen.set) /\ IsDue(seen.due)
      /\ ~raced => seen.set = have.set /\ seen.due = due
      /\ agreed => Met(have.set, due, wanted)
  BY <1>2, AtModify, Zenon
<1>4. wanted \in DS!Entries /\ IsSet(have.set)
  BY Typed, Zenon
<1>5. /\ DS!Refused => step' = "idle" /\ raced' = FALSE /\ tracked' = tracked
      /\ DS!recordVerified => step' = "idle" /\ raced' = FALSE /\ (tracked' = tracked \/ tracked' = TRUE)
  BY Zenon DEF DS!Refused, DS!recordVerified, DS!End
<1>6. CASE DS!Refused /\ have' = have /\ due' = due /\ agreed' = agreed
  BY <1>1, <1>2, <1>3, <1>5, <1>6, AtIdle, Zenon
<1>7. CASE /\ ~DS!VersionRefused(cur, wanted) /\ q = DS!NoChange
           /\ DS!recordVerified /\ agreed' = ~raced /\ have' = have /\ due' = due
  <2>1. Asks(q, seen, wanted, cur)
    BY <1>3, <1>4, RequestFacts, Zenon
  <2> HIDE DEF q, cur
  <2>2. Met(seen.set, seen.due, wanted)
    BY <1>3, <1>4, <1>7, <2>1, NothingToAsk, Zenon DEF cur
  <2>3. agreed' => Met(have'.set, due', wanted')
    BY <1>2, <1>3, <1>7, <2>2, Zenon
  <2> QED  BY <1>1, <1>2, <1>3, <1>5, <1>7, <2>3, AtIdle, ZenonT(40)
<1>8. CASE /\ ~DS!VersionRefused(cur, wanted) /\ DS!Accepts(q) /\ DS!Modified(q, now)
           /\ DS!recordVerified /\ agreed' = ~raced
  <2>0. now \in BOOLEAN
    <3>1. wanted.immediate \in BOOLEAN
      BY <1>4 DEF DS!Entries
    <3> QED  BY <3>1 DEF DS!immediate
  <2> DEFINE set2 == SetAfter(have.set, due, r, now)
             due2 == DueAfter(have.set, due, r, now)
             status2 == IF now /\ Waiting(r, due) # DS!NoChange THEN "busy" ELSE have.status
  <2>1. have' = Other(have, set2, status2) /\ due' = due2
    <3> HIDE DEF q, now
    <3> QED  BY <1>8, <2>0, ModifiedFacts, Zenon
  <2>2. IsSet(set2) /\ IsDue(due2)
    <3> HIDE DEF now
    <3> QED  BY <1>2, <1>8, <2>0, AcceptedTyped, Zenon
  <2>3. ~raced => Becomes(Now(have.set, due), Now(set2, due2), wanted)
    <3> HIDE DEF now
    <3> QED  BY <1>2, <1>8, <2>0, AcceptedEffect, Zenon
  <2>4. status2 \in Statuses
    BY <1>1 DEF Statuses
  <2>5. IsSet(Now(have.set, due))
    BY <1>1, <1>4, NowFacts, Zenon
  <2> HIDE DEF set2, due2, status2, q, r, now
  <2>6. DS!IsInstance(have') /\ have'.set = set2 /\ have'.mine = have.mine
    <3>1. DS!IsInstance(have) /\ IsSet(set2) /\ status2 \in Statuses
      BY <1>1, <2>2, <2>4, Zenon DEF Statuses
    <3>2. DS!IsInstance(Other(have, set2, status2)) /\ Other(have, set2, status2).set = set2 /\ Other(have, set2, status2).mine = have.mine
      BY <3>1, InstanceChange
    <3> QED  BY <2>1, <3>2, Zenon
  <2>7. ASSUME ~raced
        PROVE  Met(set2, due2, wanted)
    <3>1. ~DS!VersionRefused(Now(have.set, due), wanted)
      BY <1>3, <1>8, <2>7, Zenon
    <3> QED  BY <1>4, <2>2, <2>3, <2>5, <2>7, <3>1, BecomesMet, ZenonT(40)
  <2>8. agreed' => Met(have'.set, due', wanted')
    BY <1>2, <1>8, <2>1, <2>6, <2>7, Zenon
  <2>9. /\ wanted' \in Wanted /\ DS!IsInstance(have') /\ IsDue(due') /\ tracked' \in BOOLEAN /\ raced' \in BOOLEAN
        /\ agreed' \in BOOLEAN /\ (tracked' => have'.mine) /\ step' = "idle"
    BY <1>1, <1>2, <1>3, <1>5, <1>8, <2>1, <2>2, <2>6, ZenonT(40)
  <2> QED  BY <2>8, <2>9, AtIdle, Zenon
<1> QED  BY <1>6, <1>7, <1>8, Zenon DEF DS!ModifyDBInstance, Now

\* A pass that fails is over.
LEMMA FailsKeeps ==
    ASSUME SettingsInv, DS!Fails
    PROVE  SettingsInv'
<1>1. /\ wanted \in Wanted /\ DS!IsInstance(have) /\ IsDue(due)
      /\ tracked \in BOOLEAN /\ agreed \in BOOLEAN /\ (tracked => have.mine)
  BY Known, Zenon
<1>2. /\ step' = "idle" /\ raced' = FALSE /\ wanted' = wanted /\ have' = have /\ due' = due
      /\ tracked' = tracked /\ agreed' = agreed
  BY Zenon DEF DS!Fails, DS!End
<1>3. agreed => Met(have.set, due, wanted)
  BY Zenon DEF SettingsInv
<1> QED  BY <1>1, <1>2, <1>3, AtIdle, Zenon

\* Settings met by what an instance has or is about to have are met by it once
\* the settings are at least as good.
LEMMA StillMet ==
    ASSUME NEW set, NEW d, NEW set2, NEW d2, IsSet(set), IsDue(d), IsSet(set2), IsDue(d2), NEW w \in DS!Entries,
           Met(set, d, w), Now(set2, d2).storage >= Now(set, d).storage,
           \A s \in DS!AllSettings \ {"storage"} : Now(set2, d2)[s] = Now(set, d)[s]
    PROVE  Met(set2, d2, w)
<1> DEFINE was == Now(set, d)
           is == Now(set2, d2)
<1>1. /\ is.protection = set2.protection /\ is.copyTags = set2.copyTags
      /\ is.group = set2.group /\ is.ceiling = set2.ceiling /\ IsSet(is)
  BY NowFacts, ZenonT(40)
<1>2. /\ was.protection = set.protection /\ was.copyTags = set.copyTags
      /\ was.group = set.group /\ was.ceiling = set.ceiling /\ IsSet(was)
  BY NowFacts, ZenonT(40)
<1> HIDE DEF was, is
<1>3. /\ is.class = was.class /\ is.version = was.version /\ is.retention = was.retention
      /\ is.protection = was.protection /\ is.copyTags = was.copyTags
      /\ is.group = was.group /\ is.ceiling = was.ceiling
  BY Zenon DEF DS!AllSettings, was, is
<1>4. was.storage \in Nat /\ is.storage \in Nat /\ w.storage \in Nat
  BY <1>1, <1>2, SetFields, ZenonT(40) DEF DS!Entries
<1>5. was.storage >= w.storage
  BY Zenon DEF Met, was
<1>6. is.storage >= w.storage
  BY <1>4, <1>5 DEF was, is
<1> QED  BY <1>1, <1>2, <1>3, <1>6, Zenon DEF Met, was, is

\* In the maintenance window what waited lands.
LEMMA WindowKeeps ==
    ASSUME SettingsInv, DS!MaintenanceWindow
    PROVE  SettingsInv'
<1> DEFINE set2 == DS!Over(due, have.set)
<1>1. /\ DS!IsInstance(have) /\ IsDue(due) /\ raced \in BOOLEAN /\ agreed \in BOOLEAN
      /\ wanted \in DS!Entries /\ IsSet(have.set) /\ (agreed => Met(have.set, due, wanted))
  BY Known, Typed, Zenon DEF SettingsInv
<1>2. /\ have' = Other(have, set2, "busy")
      /\ due' = DS!NoChange /\ raced' = (step # "idle") /\ wanted' = wanted /\ tracked' = tracked
      /\ step' = step /\ seen' = seen /\ agreed' = agreed
  BY Zenon DEF DS!MaintenanceWindow, Other
<1>3. IsSet(set2)
  BY <1>1, Applied, ZenonT(40) DEF IsDue
<1>4. IsDue(due') /\ DOMAIN due' = {}
  BY <1>2, NothingDue, ZenonT(40)
<1>5. \A s \in DS!AllSettings : Now(set2, due')[s] = set2[s]
  <2> HIDE DEF set2
  <2> QED  BY <1>3, <1>4, NowFacts
<1>6. set2 = Now(have.set, due)
  BY Zenon DEF Now, DS!effectiveAttributes
<1>7. set2.storage \in Nat /\ "storage" \in DS!AllSettings
  BY <1>3, SetFields DEF DS!AllSettings
<1> HIDE DEF set2
<1>8. agreed => Met(set2, due', wanted)
  <2>1. Now(set2, due').storage >= Now(have.set, due).storage
    BY <1>5, <1>6, <1>7
  <2>2. \A s \in DS!AllSettings \ {"storage"} : Now(set2, due')[s] = Now(have.set, due)[s]
    BY <1>5, <1>6, Zenon
  <2> QED  BY <1>1, <1>3, <1>4, <2>1, <2>2, StillMet, ZenonT(40)
<1>9. DS!IsInstance(have') /\ have'.set = set2 /\ have'.mine = have.mine
  <2>1. DS!IsInstance(have) /\ IsSet(set2) /\ "busy" \in Statuses
    BY <1>1, <1>3, Zenon DEF Statuses
  <2>2. DS!IsInstance(Other(have, set2, "busy")) /\ Other(have, set2, "busy").set = set2 /\ Other(have, set2, "busy").mine = have.mine
    BY <2>1, InstanceChange
  <2> QED  BY <1>2, <2>2, Zenon
<1>10. raced' \in BOOLEAN /\ ~(step = "modify" /\ ~raced')
  BY <1>2, Zenon
<1> QED  BY <1>1, <1>2, <1>4, <1>8, <1>9, <1>10, PassGoesOn, ZenonT(40)

\* What AWS was busy with ends.
LEMMA SettleKeeps ==
    ASSUME SettingsInv, DS!Settle
    PROVE  SettingsInv'
<1>1. /\ wanted \in Wanted /\ DS!IsInstance(have) /\ IsDue(due) /\ tracked \in BOOLEAN /\ raced \in BOOLEAN
      /\ agreed \in BOOLEAN /\ (tracked => have.mine)
      /\ IsSet(have.set) /\ (agreed => Met(have.set, due, wanted))
  BY Known, Typed, Zenon DEF SettingsInv
<1>2. /\ \E status \in Statuses : have' = [have EXCEPT !.status = status]
      /\ step = "idle" /\ wanted' = wanted /\ due' = due /\ tracked' = tracked
      /\ step' = step /\ seen' = seen /\ raced' = raced /\ agreed' = agreed
  BY Zenon DEF DS!Settle, Statuses
<1>3. PICK status \in Statuses : have' = [have EXCEPT !.status = status]
  BY <1>2
<1>4. have' = Other(have, have.set, status)
  BY <1>1, <1>3, Zenon DEF DS!IsInstance, Other
<1>5. DS!IsInstance(have') /\ have'.set = have.set /\ have'.mine = have.mine
  <2>1. DS!IsInstance(have) /\ IsSet(have.set) /\ status \in Statuses
    BY <1>1, Zenon DEF Statuses
  <2>2. DS!IsInstance(Other(have, have.set, status)) /\ Other(have, have.set, status).set = have.set /\ Other(have, have.set, status).mine = have.mine
    BY <2>1, InstanceChange
  <2> QED  BY <1>4, <2>2, Zenon
<1>6. Met(have'.set, due', wanted') <=> Met(have.set, due, wanted)
  BY <1>2, <1>5, Zenon
<1> QED  BY <1>1, <1>2, <1>5, <1>6, AtIdle, ZenonT(40)

\* Storage that grows on its own only grows.
LEMMA AutoscaleKeeps ==
    ASSUME SettingsInv, DS!Autoscale
    PROVE  SettingsInv'
<1> DEFINE more == have.set.storage + 1
           set2 == DS!Over(DS!Change("storage", more), have.set)
           larger == {s \in DOMAIN due : s # "storage" \/ due[s] > more}
<1>1. /\ DS!IsInstance(have) /\ IsDue(due) /\ raced \in BOOLEAN /\ agreed \in BOOLEAN
      /\ wanted \in DS!Entries /\ IsSet(have.set) /\ (agreed => Met(have.set, due, wanted))
      /\ have.status \in Statuses
  BY Known, Typed, ZenonT(40) DEF SettingsInv
<1>2. have.set.storage \in Nat /\ more \in Nat
  BY <1>1, SetFields
<1>3. /\ have' = [have EXCEPT !.set = set2] /\ wanted' = wanted /\ tracked' = tracked
      /\ due' = DS!On(due, {s \in DOMAIN due : s # "storage" \/ due[s] > have'.set.storage})
      /\ step' = step /\ seen' = seen /\ agreed' = agreed /\ raced' = (step # "idle")
  BY Zenon DEF DS!Autoscale
<1>4. DS!IsChange(DS!Change("storage", more)) /\ DOMAIN DS!Change("storage", more) = {"storage"}
      /\ DS!Change("storage", more)["storage"] = more
  <2> HIDE DEF more
  <2>1. /\ DOMAIN DS!Change("storage", more) = {"storage"} /\ DS!Change("storage", more)["storage"] = more
        /\ DS!Change("storage", more) = [t \in {"storage"} |-> more]
    BY ChangeFacts, Zenon
  <2>2. "storage" \in DS!AllSettings /\ DS!Values("storage") = Nat
    BY ZenonT(40) DEF DS!AllSettings, DS!Values
  <2> QED  BY <1>2, <2>1, <2>2 DEF DS!IsChange
<1>5. /\ IsSet(set2) /\ set2["storage"] = more
      /\ \A s \in DS!AllSettings \ {"storage"} : set2[s] = have.set[s]
  <2> HIDE DEF more
  <2> QED  BY <1>1, <1>4, Applied
<1> HIDE DEF set2, more
<1>6. have' = Other(have, set2, have.status)
  BY <1>1, <1>3, Zenon DEF DS!IsInstance, Other
<1>7. DS!IsInstance(have') /\ have'.set = set2 /\ have'.mine = have.mine
  <2>1. DS!IsInstance(have) /\ IsSet(set2) /\ have.status \in Statuses
    BY <1>1, <1>5, Zenon DEF Statuses
  <2>2. DS!IsInstance(Other(have, set2, have.status)) /\ Other(have, set2, have.status).set = set2 /\ Other(have, set2, have.status).mine = have.mine
    BY <2>1, InstanceChange
  <2> QED  BY <1>6, <2>2, Zenon
<1>8. due' = DS!On(due, larger)
  BY <1>3, <1>5, <1>7, ZenonT(40)
<1>9. /\ DOMAIN due' = larger /\ \A s \in larger : due'[s] = due[s]
  <2>1. /\ DOMAIN DS!On(due, larger) = DOMAIN due \cap larger
        /\ \A s \in DOMAIN due \cap larger : DS!On(due, larger)[s] = due[s]
    BY DEF DS!On
  <2> QED  BY <1>8, <2>1
<1>10. IsDue(due')
  <2>1. DS!IsChange(due')
    BY <1>1, <1>8, OnChange, ZenonT(40) DEF IsDue
  <2> QED  BY <1>1, <1>9, <2>1 DEF IsDue
<1>11. /\ \A s \in DOMAIN due : Now(have.set, due)[s] = due[s]
       /\ \A s \in DS!AllSettings \ DOMAIN due : Now(have.set, due)[s] = have.set[s]
  <2>1. Reads(have.set, due)
    BY <1>1, NowReads, Zenon
  <2> QED  BY <2>1, Zenon DEF Reads
<1>12. /\ \A s \in larger : Now(set2, due')[s] = due'[s]
       /\ \A s \in DS!AllSettings \ larger : Now(set2, due')[s] = set2[s]
  <2> HIDE DEF larger
  <2>1. Reads(set2, due')
    BY <1>5, <1>10, NowReads, Zenon
  <2> QED  BY <1>9, <2>1, Zenon DEF Reads
<1>13. \A s \in DS!AllSettings \ {"storage"} : Now(set2, due')[s] = Now(have.set, due)[s]
  BY <1>5, <1>9, <1>11, <1>12, ZenonT(40)
<1>14. Now(set2, due').storage >= Now(have.set, due).storage
  <2>1. "storage" \in DOMAIN due => due["storage"] \in Nat
    BY <1>1 DEF IsDue, DS!IsChange, DS!Values
  <2>2. "storage" \in DS!AllSettings
    BY DEF DS!AllSettings
  <2>3. Now(have.set, due)["storage"] = IF "storage" \in DOMAIN due THEN due["storage"] ELSE have.set["storage"]
    BY <1>11, <2>2, Zenon
  <2>4. Now(set2, due')["storage"] = IF "storage" \in larger THEN due["storage"] ELSE more
    BY <1>5, <1>9, <1>12, <2>2, Zenon
  <2>5. "storage" \in larger <=> "storage" \in DOMAIN due /\ due["storage"] > more
    BY Zenon
  <2>6. have.set["storage"] \in Nat /\ more = have.set["storage"] + 1
    BY <1>2 DEF more
  <2> HIDE DEF larger
  <2> QED  BY <2>1, <2>3, <2>4, <2>5, <2>6
<1>15. ASSUME agreed
       PROVE  Met(set2, due', wanted)
  <2>1. wanted \in DS!Entries /\ IsSet(have.set) /\ IsDue(due) /\ Met(have.set, due, wanted) /\ IsSet(set2)
    BY <1>1, <1>5, <1>15, Zenon
  <2> QED  BY <2>1, <1>10, <1>13, <1>14, StillMet, Zenon
<1>16. raced' \in BOOLEAN /\ ~(step = "modify" /\ ~raced')
  BY <1>3, Zenon
<1> QED  BY <1>1, <1>3, <1>7, <1>10, <1>15, <1>16, PassGoesOn, ZenonT(40)

\* A change made in AWS ends the agreement.
LEMMA DriftKeeps ==
    ASSUME SettingsInv, DS!Drift
    PROVE  SettingsInv'
<1>1. /\ DS!IsInstance(have) /\ IsDue(due) /\ IsSet(have.set)
      /\ have.status \in Statuses
  BY Known, Typed, Zenon
<1>2. /\ wanted' = wanted /\ tracked' = tracked /\ step' = step /\ seen' = seen
      /\ agreed' = FALSE /\ raced' = (step # "idle")
  BY Zenon DEF DS!Drift
<1>3. /\ DS!IsChange(DS!Change("retention", 14)) /\ DS!IsChange(DS!Change("retention", 0))
      /\ DS!IsChange([s \in {"protection", "copyTags", "group"} |-> FALSE])
      /\ DS!IsChange(DS!Change("class", "s")) /\ DS!IsChange(DS!Change("class", "l"))
  <2>1. /\ DS!Values("retention") = Nat /\ DS!Values("class") = {"s", "l"}
        /\ \A s \in {"protection", "copyTags", "group"} : DS!Values(s) = BOOLEAN
    BY DEF DS!Values
  <2>2. {"protection", "copyTags", "group", "retention", "class"} \subseteq DS!AllSettings
    BY DEF DS!AllSettings
  <2>3. ASSUME NEW s \in {"retention", "class"}, NEW v \in DS!Values(s)
        PROVE  DS!IsChange(DS!Change(s, v))
    BY <2>2 DEF DS!IsChange, DS!Change
  <2>4. DS!IsChange([s \in {"protection", "copyTags", "group"} |-> FALSE])
    BY <2>1, <2>2, Zenon DEF DS!IsChange
  <2>5. 14 \in DS!Values("retention") /\ 0 \in DS!Values("retention") /\ {"s", "l"} \subseteq DS!Values("class")
    BY <2>1
  <2> QED  BY <2>3, <2>4, <2>5
<1>4. DS!IsInstance(have') /\ have'.mine = have.mine /\ IsDue(due')
  <2>1. CASE /\ \E change \in {DS!Change("retention", 14), DS!Change("retention", 0),
                               [s \in {"protection", "copyTags", "group"} |-> FALSE]} :
                   have' = [have EXCEPT !.set = DS!Over(change, have.set)]
             /\ due' = due
    <3>1. PICK change : DS!IsChange(change) /\ have' = [have EXCEPT !.set = DS!Over(change, have.set)]
      BY <1>3, <2>1, Zenon
    <3> DEFINE set2 == DS!Over(change, have.set)
    <3>2. IsSet(set2)
      BY <1>1, <3>1, Applied
    <3>3. have' = [have EXCEPT !.set = set2]
      BY <3>1
    <3> HIDE DEF set2
    <3>4. have' = Other(have, set2, have.status)
      BY <1>1, <3>3, Zenon DEF DS!IsInstance, Other
    <3> QED  BY <1>1, <2>1, <3>2, <3>4, InstanceChange, Zenon
  <2>2. CASE due' = DS!Over(DS!Change("class", IF have.set.class = "s" THEN "l" ELSE "s"), due) /\ have' = have
    <3>1. PICK v \in {"s", "l"} : due' = DS!Over(DS!Change("class", v), due)
      BY <2>2
    <3> DEFINE change == DS!Change("class", v)
    <3>2. DS!IsChange(change) /\ DOMAIN change = {"class"}
      BY <1>3, ChangeFacts, Zenon
    <3> HIDE DEF change
    <3>3. DS!IsChange(due')
      BY <1>1, <3>1, <3>2, OverChange, Zenon DEF IsDue, change
    <3>4. DOMAIN DS!Over(change, due) = DOMAIN change \cup DOMAIN due
      BY DEF DS!Over
    <3>5. DOMAIN due' \subseteq DS!Deferrable
      BY <1>1, <3>1, <3>2, <3>4, Zenon DEF IsDue, change, DS!Deferrable
    <3> QED  BY <1>1, <2>2, <3>3, <3>5, Zenon DEF IsDue
  <2> QED  BY <2>1, <2>2, Zenon DEF DS!Drift
<1>5. raced' \in BOOLEAN /\ agreed' \in BOOLEAN /\ ~agreed' /\ ~(step = "modify" /\ ~raced')
  BY <1>2, Zenon
<1> QED  BY <1>2, <1>4, <1>5, PassGoesOn, Zenon

\* So does an edit of the spec.
LEMMA EditKeeps ==
    ASSUME SettingsInv, DS!EditEntry
    PROVE  SettingsInv'
<1>1. /\ DS!IsInstance(have) /\ IsDue(due) /\ tracked \in BOOLEAN /\ raced \in BOOLEAN /\ (tracked => have.mine)
  BY Known, Zenon
<1>2. /\ wanted' \in Wanted /\ have' = have /\ due' = due /\ tracked' = tracked /\ step' = "idle"
      /\ raced' = raced /\ agreed' = FALSE
  BY Zenon DEF DS!EditEntry
<1> QED  BY <1>1, <1>2, AtIdle, Zenon

\* The invariant holds initially.
LEMMA InitKeeps ==
    ASSUME UpkeepInit
    PROVE  UpkeepInv
<1>1. CASE part = "network" /\ AtRest
  BY <1>1, Zenon DEF AtRest, UpkeepInv
<1>2. CASE part = "settings" /\ DS!Init
  <2>1. /\ wanted \in Wanted /\ have \in Haves /\ due = DS!NoChange /\ tracked = have.mine
        /\ step = "idle" /\ raced = FALSE /\ agreed = FALSE
    BY <1>2, Zenon DEF DS!Init
  <2>2. DS!IsInstance(have)
    BY <2>1, SettingsAssumption, Zenon
  <2>3. have.mine \in BOOLEAN
    BY <2>2 DEF DS!IsInstance
  <2>4. DS!IsChange(due) /\ DOMAIN due \subseteq DS!Deferrable
    BY <2>1, NothingDue, Zenon DEF IsDue
  <2>5. DS!TypeOK
    BY <2>1, <2>2, <2>3, <2>4, Zenon DEF DS!TypeOK
  <2> QED  BY <1>2, <2>1, <2>5 DEF UpkeepInv, SettingsInv
<1> QED  BY <1>1, <1>2, Zenon DEF UpkeepInit

\* Every step of the settings keeps it.
LEMMA SettingsKeep ==
    ASSUME SettingsInv, DS!Next
    PROVE  SettingsInv'
BY Observes, Modifies, FailsKeeps, WindowKeeps, SettleKeeps, AutoscaleKeeps, DriftKeeps, EditKeeps, Zenon
   DEF DS!Next, DS!Pass

\* And so does every step.
LEMMA StepKeeps ==
    ASSUME UpkeepInv, [Network(Next \/ Calm) \/ Setting(DS!Next)]_upkeepVars
    PROVE  UpkeepInv'
<1>1. CASE Network(Next \/ Calm)
  <2>1. part = "network" /\ part' = part /\ agreed' = agreed /\ step' = step
    BY <1>1, Zenon DEF Network, settingsVars
  <2> QED  BY <2>1 DEF UpkeepInv
<1>2. CASE Setting(DS!Next)
  <2>1. part = "settings" /\ part' = part /\ DS!Next
    BY <1>2, Zenon DEF Setting
  <2>2. SettingsInv'
    BY <2>1, SettingsKeep, Zenon DEF UpkeepInv
  <2> QED  BY <2>1, <2>2, Zenon DEF UpkeepInv
<1>3. CASE UNCHANGED upkeepVars
  <2>1. UNCHANGED settingsVars /\ part' = part
    BY <1>3, Zenon DEF upkeepVars
  <2> QED  BY <2>1, Zenon DEF UpkeepInv, SettingsInv, DS!TypeOK, settingsVars
<1> QED  BY <1>1, <1>2, <1>3

\* The invariant that the properties of the settings rest on: what the pass knows
\* is what AWS has until somebody races it, an instance is adopted only as it is,
\* and what was agreed on is met (ensureInstanceObserving, reconcileInstanceAttributes).
THEOREM UpkeepInvariant == UpkeepSpec => []UpkeepInv
<1>1. UpkeepInit => UpkeepInv
  BY InitKeeps
<1>2. UpkeepInv /\ [Network(Next \/ Calm) \/ Setting(DS!Next)]_upkeepVars => UpkeepInv'
  BY StepKeeps
<1> QED  BY <1>1, <1>2, PTL DEF UpkeepSpec

-----------------------------------------------------------------------------
(* What a pass that modifies the instance does.                            *)

\* Only ModifyDBInstance modifies, with a request that AWS accepts.
LEMMA OnlyModify ==
    ASSUME SettingsInv, DS!Next, DS!Modifying,
           NEW q, q = DS!reconcileInstanceAttributes(seen, wanted)
    PROVE  /\ step = "modify" /\ DS!Accepts(q) /\ q # DS!NoChange
           /\ ~DS!VersionRefused(Now(seen.set, seen.due), wanted)
           /\ DS!Modified(q, DS!immediate(seen, wanted, q))
<1>1. step = "modify" /\ step' # "modify" /\ ~(have' = have /\ due' = due)
  BY Zenon DEF DS!Modifying
<1>2. ~DS!ensureInstanceObserving /\ ~DS!Settle /\ ~DS!EditEntry
  BY <1>1 DEF DS!ensureInstanceObserving, DS!Settle, DS!EditEntry
<1>3. ~DS!MaintenanceWindow /\ ~DS!Autoscale /\ ~DS!Drift
  BY <1>1, Zenon DEF DS!MaintenanceWindow, DS!Autoscale, DS!Drift
<1>4. ~DS!Fails
  BY <1>1, Zenon DEF DS!Fails
<1>5. DS!ModifyDBInstance
  BY <1>2, <1>3, <1>4, Zenon DEF DS!Next, DS!Pass
<1> QED  BY <1>1, <1>5, Zenon DEF DS!ModifyDBInstance, Now

\* What becomes of an instance whose description is up to date.
LEMMA ModifyingEffect ==
    ASSUME SettingsInv, DS!Next, DS!Modifying, ~raced
    PROVE  /\ Becomes(Now(have.set, due), Now(have'.set, due'), wanted)
           /\ IsSet(Now(have.set, due)) /\ IsSet(Now(have'.set, due'))
           /\ \A s \in {"class", "version"} : have'.set[s] # have.set[s] => wanted.immediate
<1> DEFINE q == DS!reconcileInstanceAttributes(seen, wanted)
           r == DS!Resolved(q)
           now == DS!immediate(seen, wanted, q)
           set2 == SetAfter(have.set, due, r, now)
           due2 == DueAfter(have.set, due, r, now)
           status2 == IF now /\ Waiting(r, due) # DS!NoChange THEN "busy" ELSE have.status
<1>1. step = "modify" /\ DS!Accepts(q) /\ DS!Modified(q, now)
  BY OnlyModify, Zenon
<1>2. /\ DS!IsInstance(have) /\ IsDue(due) /\ IsSet(have.set) /\ wanted \in DS!Entries
      /\ have.status \in Statuses /\ seen.due = due
  BY <1>1, Known, Typed, AtModify, Zenon
<1>3. now \in BOOLEAN
  <2>1. wanted.immediate \in BOOLEAN
    BY <1>2 DEF DS!Entries
  <2> QED  BY <2>1 DEF DS!immediate
<1>4. ~wanted.immediate /\ now => DOMAIN q \cap DS!Deferrable = {"storage"} /\ due = DS!NoChange
  BY <1>2, Zenon DEF DS!immediate
<1> HIDE DEF now
<1>5. have' = Other(have, set2, status2) /\ due' = due2
  BY <1>1, <1>3, ModifiedFacts, Zenon
<1>6. DS!IsChange(r) /\ DOMAIN r = DOMAIN q /\ IsSet(set2) /\ IsDue(due2)
  BY <1>1, <1>3, AcceptedTyped, Zenon
<1>7. Becomes(Now(have.set, due), Now(set2, due2), wanted)
  BY <1>1, <1>3, AcceptedEffect, ZenonT(40)
<1>8. /\ ~now => \A s \in DS!Deferrable : set2[s] = have.set[s]
      /\ due = DS!NoChange => \A s \in DS!Deferrable \ DOMAIN r : set2[s] = have.set[s]
  <2> HIDE DEF r
  <2>1. Lands(have.set, due, r, now)
    BY <1>2, <1>3, <1>6, Landed, ZenonT(40)
  <2> QED  BY <2>1, Zenon DEF Lands
<1>9. status2 \in Statuses
  BY <1>2 DEF Statuses
<1> HIDE DEF q, r, set2, due2, status2
<1>10. have'.set = set2
  <2>1. DS!IsInstance(have) /\ IsSet(set2) /\ status2 \in Statuses
    BY <1>2, <1>6, <1>9, Zenon DEF Statuses
  <2>2. DS!IsInstance(Other(have, set2, status2)) /\ Other(have, set2, status2).set = set2 /\ Other(have, set2, status2).mine = have.mine
    BY <2>1, InstanceChange
  <2> QED  BY <1>5, <2>2, Zenon
<1>11. \A s \in {"class", "version"} : s \in DS!Deferrable /\ s # "storage"
  BY Zenon DEF DS!Deferrable
<1>12. ASSUME NEW s \in {"class", "version"}, ~wanted.immediate
       PROVE  set2[s] = have.set[s]
  <2>1. CASE ~now
    BY <2>1, <1>8, <1>11
  <2>2. CASE now
    <3>1. s \in DS!Deferrable \ DOMAIN r
      BY <2>2, <1>4, <1>6, <1>11, <1>12, Zenon
    <3> QED  BY <2>2, <3>1, <1>4, <1>8, <1>12, Zenon
  <2> QED  BY <2>1, <2>2, ZenonT(40)
<1>13. IsSet(Now(have.set, due)) /\ IsSet(Now(set2, due2))
  BY <1>2, <1>6, NowFacts, ZenonT(40)
<1> QED  BY <1>5, <1>7, <1>10, <1>12, <1>13, Zenon

\* The versions of an instance are versions.
LEMMA VersionType ==
    ASSUME NEW set, IsSet(set)
    PROVE  set.version \in Seq(Nat)
BY SetFields, SettingsAssumption

\* A modification of an up-to-date instance takes nothing away.
LEMMA TakesNothingAway ==
    ASSUME SettingsInv, DS!Next
    PROVE  DS!NeverWeaker
<1> SUFFICES ASSUME DS!Modifying, ~raced
             PROVE  LET was == Now(have.set, due)
                        is  == Now(have'.set, due')
                    IN  /\ is.storage >= was.storage /\ is.retention >= was.retention
                        /\ ~DS!Older(is.version, was.version)
                        /\ was.protection /\ ~is.protection => wanted.protection = "off"
  BY Zenon DEF DS!NeverWeaker, Now
<1> DEFINE was == Now(have.set, due)
           is  == Now(have'.set, due')
<1>1. Becomes(was, is, wanted) /\ IsSet(was) /\ IsSet(is)
  BY ModifyingEffect, Zenon
<1>2. wanted.storage \in Nat /\ wanted.version \in Seq(Nat)
  BY Typed DEF DS!Entries
<1> HIDE DEF was, is
<1>3. was.storage \in Nat /\ was.retention \in Nat /\ was.version \in Seq(Nat) /\ is.version \in Seq(Nat)
  BY <1>1, SetFields, VersionType, ZenonT(40)
<1>4. is.storage >= was.storage /\ is.retention >= was.retention
  BY <1>1, <1>2, <1>3 DEF Becomes, DS!defaultBackupRetentionDays
<1>5. ~DS!Older(is.version, was.version)
  <2>1. CASE is.version = was.version
    BY <2>1, <1>3, OlderIrreflexive, Zenon
  <2>2. CASE DS!Older(was.version, wanted.version) /\ DS!hasVersionPrefix(is.version, wanted.version)
    <3>1. ~DS!Older(is.version, wanted.version)
      BY <2>2, <1>2, <1>3, PrefixIsNotOlder, Zenon
    <3> QED  BY <2>2, <3>1, <1>2, <1>3, OlderTransitive, Zenon
  <2> QED  BY <1>1, <2>1, <2>2, Zenon DEF Becomes
<1>6. was.protection /\ ~is.protection => wanted.protection = "off"
  BY <1>1, Zenon DEF Becomes
<1> QED  BY <1>4, <1>5, <1>6, Zenon DEF was, is

\* The pass that adopts an instance leaves its size, its version and its tags'
\* copying alone.
LEMMA AdoptsAsIs ==
    ASSUME SettingsInv, DS!Next
    PROVE  DS!AdoptionResizesNothing
<1> SUFFICES ASSUME DS!Modifying, ~raced, seen.adopting
             PROVE  \A s \in {"class", "version", "storage", "copyTags"} : Now(have'.set, due')[s] = Now(have.set, due)[s]
  BY Zenon DEF DS!AdoptionResizesNothing, Now
<1> DEFINE was == Now(have.set, due)
           is  == Now(have'.set, due')
<1>1. Becomes(was, is, wanted) /\ IsSet(was) /\ IsSet(is)
  BY ModifyingEffect, Zenon
<1>2. step = "modify"
  BY Zenon DEF DS!Modifying
<1>3. wanted.adopt /\ Adoptable(have.set, due, wanted)
  BY <1>2, AtModify, Zenon
<1>4. was.class = wanted.class /\ wanted.storage <= was.storage /\ ~DS!Older(was.version, wanted.version)
  BY <1>3, Zenon DEF Adoptable
<1>5. wanted.storage \in Nat
  BY Typed DEF DS!Entries
<1> HIDE DEF was, is
<1>6. was.storage \in Nat
  BY <1>1, SetFields, ZenonT(40)
<1>7. is.storage = was.storage
  BY <1>1, <1>4, <1>5, <1>6 DEF Becomes
<1>8. is.class = was.class /\ is.version = was.version /\ is.copyTags = was.copyTags
  BY <1>1, <1>3, <1>4, Zenon DEF Becomes
<1> QED  BY <1>7, <1>8 DEF was, is

\* A pass changes nothing that was agreed on.
LEMMA AsksOnce ==
    ASSUME SettingsInv, DS!Next
    PROVE  DS!ModifyIsNotRepeated
<1> SUFFICES ASSUME DS!Modifying, agreed
             PROVE  FALSE
  BY Zenon DEF DS!ModifyIsNotRepeated
<1> DEFINE q == DS!reconcileInstanceAttributes(seen, wanted)
<1>1. step = "modify" /\ q # DS!NoChange
  BY OnlyModify, Zenon
<1>2. Met(seen.set, seen.due, wanted) /\ IsSet(seen.set) /\ IsDue(seen.due) /\ wanted \in DS!Entries
  BY <1>1, AtModify, Typed, Zenon
<1> DEFINE cur == Now(seen.set, seen.due)
<1>3. Asks(q, seen, wanted, cur)
  BY <1>2, RequestFacts, Zenon
<1> HIDE DEF q, cur
<1>4. q = DS!NoChange
  BY <1>2, <1>3, NothingToAsk DEF cur
<1> QED  BY <1>1, <1>4

\* What is left to ask for is at least what the spec says.
LEMMA AgreedIsMet ==
    ASSUME UpkeepInv
    PROVE  DS!AgreedMeansMet
<1>1. CASE part # "settings"
  BY <1>1, Zenon DEF UpkeepInv, DS!AgreedMeansMet
<1>2. CASE part = "settings"
  <2> SUFFICES ASSUME agreed
               PROVE  LET is == Now(have.set, due)
                      IN  /\ is.class = wanted.class /\ is.storage >= wanted.storage /\ is.group
                          /\ ~DS!Older(is.version, wanted.version)
                          /\ wanted.backups => is.retention >= DS!defaultBackupRetentionDays
                          /\ wanted.protection # DS!Unset => is.protection = (wanted.protection = "on")
                          /\ wanted.ceiling # 0 => is.ceiling = wanted.ceiling
    BY Zenon DEF DS!AgreedMeansMet, Now
  <2>1. SettingsInv
    BY <1>2, Zenon DEF UpkeepInv
  <2>2. Met(have.set, due, wanted)
    BY <2>1 DEF SettingsInv
  <2>3. IsSet(have.set) /\ IsDue(due) /\ wanted \in DS!Entries
    BY <2>1, Typed, ZenonT(40)
  <2> DEFINE is == Now(have.set, due)
  <2>4. /\ is.protection = have.set.protection /\ is.group = have.set.group /\ is.ceiling = have.set.ceiling
    BY <2>3, NowFacts
  <2>5. wanted.protection # DS!Unset => ((wanted.protection # "off") = (wanted.protection = "on"))
    BY <2>3 DEF DS!Entries, DS!Unset
  <2> HIDE DEF is
  <2>6. /\ is.class = wanted.class /\ is.storage >= wanted.storage /\ have.set.group
        /\ ~DS!Older(is.version, wanted.version)
        /\ wanted.backups => is.retention >= DS!defaultBackupRetentionDays
        /\ wanted.protection # DS!Unset => have.set.protection = (wanted.protection # "off")
        /\ wanted.ceiling # 0 => have.set.ceiling = wanted.ceiling
    BY <2>2, Zenon DEF Met, is
  <2> QED  BY <2>4, <2>5, <2>6, Zenon DEF is
<1> QED  BY <1>1, <1>2

\* A step that is not one of the settings modifies nothing.
LEMMA OnlySettings ==
    ASSUME UpkeepInv, Network(Next \/ Calm) \/ Setting(DS!Next), DS!Modifying
    PROVE  SettingsInv /\ DS!Next
<1>1. CASE Network(Next \/ Calm)
  BY <1>1, Zenon DEF Network, settingsVars, DS!Modifying
<1>2. CASE Setting(DS!Next)
  BY <1>2, Zenon DEF Setting, UpkeepInv
<1> QED  BY <1>1, <1>2

\* A disruptive change takes effect outside the maintenance window only when the
\* spec asks for that, unless it was made to wait since the pass described the
\* instance: sendModify asks for growth at once only when it would drag nothing
\* along.
THEOREM DraggedEarly == UpkeepSpec => NothingDraggedEarly
<1>1. UpkeepInv /\ [Network(Next \/ Calm) \/ Setting(DS!Next)]_upkeepVars => [DS!NothingDraggedEarly]_upkeepVars
  BY OnlySettings, ModifyingEffect, Zenon DEF DS!NothingDraggedEarly
<1> QED  BY <1>1, UpkeepInvariant, PTL DEF UpkeepSpec, NothingDraggedEarly

\* The operator takes nothing away from an instance whose description is up to
\* date: not storage, backups, a version, nor a deletion protection that the spec
\* does not turn off (reconcileInstanceAttributes).
THEOREM Weaker == UpkeepSpec => NeverWeaker
<1>1. UpkeepInv /\ [Network(Next \/ Calm) \/ Setting(DS!Next)]_upkeepVars => [DS!NeverWeaker]_upkeepVars
  <2>1. ASSUME UpkeepInv, Network(Next \/ Calm) \/ Setting(DS!Next)
        PROVE  DS!NeverWeaker
    <3>1. CASE DS!Modifying
      BY <2>1, <3>1, OnlySettings, TakesNothingAway, Zenon
    <3>2. CASE ~DS!Modifying
      BY <3>2, ZenonT(40) DEF DS!NeverWeaker
    <3> QED  BY <3>1, <3>2
  <2> QED  BY <2>1, Zenon
<1> QED  BY <1>1, UpkeepInvariant, PTL DEF UpkeepSpec, NeverWeaker

\* The pass that adopts an instance neither resizes nor upgrades it, nor makes it
\* copy tags (checkAdoptable, adoptionConflicts).
THEOREM Adoption == UpkeepSpec => AdoptionResizesNothing
<1>1. UpkeepInv /\ [Network(Next \/ Calm) \/ Setting(DS!Next)]_upkeepVars => [DS!AdoptionResizesNothing]_upkeepVars
  <2>1. ASSUME UpkeepInv, Network(Next \/ Calm) \/ Setting(DS!Next)
        PROVE  DS!AdoptionResizesNothing
    <3>1. CASE DS!Modifying
      BY <2>1, <3>1, OnlySettings, AdoptsAsIs, Zenon
    <3>2. CASE ~DS!Modifying
      BY <3>2, Zenon DEF DS!AdoptionResizesNothing
    <3> QED  BY <3>1, <3>2
  <2> QED  BY <2>1, Zenon
<1> QED  BY <1>1, UpkeepInvariant, PTL DEF UpkeepSpec, AdoptionResizesNothing

\* What a pass that ended well leaves, with the changes that wait, is what the
\* spec asks for, and no later pass asks for it again (effectiveAttributes).
THEOREM Agreement == UpkeepSpec => AgreementLasts
<1>1. UpkeepInv /\ [Network(Next \/ Calm) \/ Setting(DS!Next)]_upkeepVars => [DS!ModifyIsNotRepeated]_upkeepVars
  <2>1. ASSUME UpkeepInv, Network(Next \/ Calm) \/ Setting(DS!Next)
        PROVE  DS!ModifyIsNotRepeated
    <3>1. CASE DS!Modifying
      BY <2>1, <3>1, OnlySettings, AsksOnce, Zenon
    <3>2. CASE ~DS!Modifying
      BY <3>2, Zenon DEF DS!ModifyIsNotRepeated
    <3> QED  BY <3>1, <3>2
  <2> QED  BY <2>1, Zenon
<1>2. UpkeepInv => DS!AgreedMeansMet
  BY AgreedIsMet
<1> QED  BY <1>1, <1>2, UpkeepInvariant, PTL DEF UpkeepSpec, AgreementLasts
=============================================================================
