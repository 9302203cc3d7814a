------------------------------- MODULE Alarms -------------------------------
(***************************************************************************)
(* The CR's CloudWatch alarms, which may notify another CR's topic:        *)
(* internal/resources/alarms, section_alarms.go.  No ledger entry: what    *)
(* exists is listed by name, unless the status says that there is nothing  *)
(* to list.  The producer's part is the policy of the topic's key, which   *)
(* names the alarms allowed to publish (section_keypolicy.go).             *)
(***************************************************************************)
EXTENDS ConsumerPass

CONSTANTS Names,        \* the alarms the operator knows of
          AlarmSpecs    \* what the CR may declare of them

\* The alarms desired, none when they are disabled; whether snsTopicRef is set;
\* whether the CR is told to take over from its previous incarnation.
AlarmDeclares(alarms, topic, takeOver) == [alarms |-> alarms, topic |-> topic, takeOver |-> takeOver]
NoAlarmSpec == AlarmDeclares({}, FALSE, FALSE)
AllAlarmSpecs == {NoAlarmSpec} \cup AlarmSpecs

\* An alarm: whose tags it has, and whether it notifies the topic.
AllAlarms == [tags : {"absent", "none", "ours", "previous", "other"}, notifies : BOOLEAN]
NoAlarm == [tags |-> "absent", notifies |-> FALSE]
Alarm(tags, notifies) == [tags |-> tags, notifies |-> notifies]

\* store and mem: AlarmsMayExist.
NoAlarmStatus == "unknown"

\* listed: the alarms as listed; todo: the desired ones still to be seen to, and
\* then the ones to delete; next: the one to put, and whether as a new one.
NoNext == [name |-> "none", create |-> FALSE]
AlarmViews == [spec : AllAlarmSpecs, deleting : BOOLEAN, listed : [Names -> AllAlarms], todo : SUBSET Names,
               next : [name : Names \cup {"none"}, create : BOOLEAN], failed : BOOLEAN]
AlarmIdleView == [spec |-> NoAlarmSpec, deleting |-> FALSE, listed |-> [n \in Names |-> NoAlarm],
                  todo |-> {}, next |-> NoNext, failed |-> FALSE]

AlarmTypeOK ==
    /\ PassTypeOK /\ spec \in AllAlarmSpecs /\ view \in AlarmViews /\ {store, mem} \subseteq {"unknown", "no", "yes"}
    /\ aws \in [alarms : [Names -> AllAlarms], key : SUBSET Names]
    /\ lost \subseteq {"alarm", "raced"}

AlarmInit ==
    /\ PassInit /\ spec \in AllAlarmSpecs /\ view = AlarmIdleView /\ lost = {}
    /\ store = NoAlarmStatus /\ mem = NoAlarmStatus
    /\ \E alarms \in [Names -> {NoAlarm, Alarm("previous", FALSE), Alarm("other", FALSE)}] :
         aws = [alarms |-> alarms, key |-> {}]

Exists(alarm) == alarm.tags # "absent"

\* The alarm n, and no other, becomes alarm.
AlarmBecomes(n, alarm) == aws' = [aws EXCEPT !.alarms = [@ EXCEPT ![n] = alarm]]

-----------------------------------------------------------------------------
AlarmBegin ==
    /\ pc = "idle" /\ cr # "gone"
    /\ view' = [AlarmIdleView EXCEPT !.spec = spec, !.deleting = cr = "deleting"]
    /\ mem' = store
    /\ GoTo(IF cr = "live" THEN "ensure" ELSE "list")
    /\ UNCHANGED <<userVars, store, aws, lost>>

desiredAlarms == view.spec.alarms

mayExistAfterFailure == IF mem = "unknown" THEN "yes" ELSE mem

\* Ensure: a topic that is not shared with the CR stops it before any alarm is
\* looked at; so does the status, when no alarm is desired.
alarms_Ensure ==
    /\ pc = "ensure"
    /\ \/ /\ view.spec.topic /\ (~ResolveConsumeARN \/ ~calm)
          /\ FailTo("persist") /\ mem' = mayExistAfterFailure
       \/ /\ ~view.spec.topic \/ ResolveConsumeARN
          /\ GoTo(IF desiredAlarms = {} /\ mem = "no" THEN "persist" ELSE "list")
          /\ UNCHANGED mem
    /\ UNCHANGED <<userVars, store, aws, view, lost>>

\* Mutant: what could not be deleted is forgotten.
ReturnedDespiteFailure(ok) == mem' = IF view.deleting THEN mem ELSE IF desiredAlarms = {} THEN "no" ELSE "yes"

\* Ensure's answer after reconcileAlarms: a failed pass may have left alarms.
Returned(ok) == mem' = IF view.deleting THEN mem ELSE IF ok /\ desiredAlarms = {} THEN "no" ELSE "yes"

listAlarmsByPrefix ==
    /\ pc = "list"
    /\ \/ /\ view' = [view EXCEPT !.listed = aws.alarms, !.todo = desiredAlarms]
          /\ GoTo("alarm") /\ lost' = lost \ {"raced"} /\ UNCHANGED mem
       \/ ~calm /\ FailTo("persist") /\ Returned(FALSE) /\ UNCHANGED <<view, lost>>
    /\ UNCHANGED <<userVars, store, aws>>

\* alarmMatches, for what is told apart.
alarmMatches(n) == Exists(view.listed[n]) /\ view.listed[n].notifies = view.spec.topic

TakingOver == view.spec.takeOver

Then(step, n, create) ==
    GoTo(step) /\ view' = [view EXCEPT !.todo = @ \ {n}, !.next = [name |-> n, create |-> create]]
Skip(n) == GoTo("alarm") /\ view' = [view EXCEPT !.todo = @ \ {n}]
Fail(n) == pc' = "alarm" /\ err' = view.deleting /\ view' = [view EXCEPT !.todo = @ \ {n}, !.failed = TRUE]

\* One desired alarm: left alone when it matches, put when it is the CR's or
\* not there, replaced when it is a previous incarnation's, and otherwise
\* refused.
reconcileAlarm(n) ==
    /\ pc = "alarm" /\ n \in view.todo
    /\ \/ alarmMatches(n) /\ ~TakingOver /\ Skip(n)
       \/ ~Exists(view.listed[n]) /\ Then("put", n, TRUE)
       \/ /\ Exists(view.listed[n]) /\ ~(alarmMatches(n) /\ ~TakingOver)
          /\ \/ /\ aws.alarms[n].tags = "ours"
                /\ IF alarmMatches(n) THEN Skip(n) ELSE Then("put", n, FALSE)
             \/ aws.alarms[n].tags = "previous" /\ TakingOver /\ Then("replace", n, TRUE)
             \/ aws.alarms[n].tags # "ours" /\ ~(aws.alarms[n].tags = "previous" /\ TakingOver) /\ Fail(n)
       \/ ~calm /\ Fail(n)
    /\ UNCHANGED <<userVars, store, aws, mem, lost>>

\* An alarm of the previous incarnation is deleted, to be put anew.
replaceAlarm ==
    /\ pc = "replace"
    /\ \/ AlarmBecomes(view.next.name, NoAlarm) /\ GoTo("put") /\ UNCHANGED view
       \/ /\ ~calm /\ (AlarmBecomes(view.next.name, NoAlarm) \/ UNCHANGED aws)
          /\ GoTo("alarm") /\ view' = [view EXCEPT !.next = NoNext, !.failed = TRUE]
    /\ UNCHANGED <<userVars, store, mem, lost>>

\* PutMetricAlarm ignores the tags of an alarm that is there, and makes one
\* without tags of one that is not.
putAlarm ==
    LET n == view.next.name
        tags == IF Exists(aws.alarms[n]) THEN aws.alarms[n].tags
                ELSE IF view.next.create THEN "ours" ELSE "none"
    IN  /\ pc = "put"
        /\ AlarmBecomes(n, Alarm(tags, view.spec.topic))
        /\ view' = [view EXCEPT !.next = NoNext] \/ (~calm /\ view' = [view EXCEPT !.next = NoNext, !.failed = TRUE])
        /\ GoTo("alarm")
        /\ UNCHANGED <<userVars, store, mem, lost>>

Mine(n) == aws.alarms[n].tags = "ours"

Undeclared == {n \in Names \ desiredAlarms : Exists(view.listed[n])}

OwnedUndeclared == {n \in Undeclared : Mine(n)}

\* The tags of the alarms that are not declared are read one by one, and the list
\* is done with; an alarm whose tags cannot be read stays.
isAlarmOwnedByUs ==
    /\ pc = "alarm" /\ view.todo = {} /\ GoTo("delete")
    /\ \E owned \in SUBSET OwnedUndeclared, failed \in BOOLEAN :
         /\ (owned = OwnedUndeclared /\ failed = view.failed) \/ (~calm /\ failed)
         /\ view' = [view EXCEPT !.todo = owned, !.listed = AlarmIdleView.listed, !.failed = failed]
    /\ UNCHANGED <<userVars, store, aws, mem, lost>>

DeleteAlarms ==
    aws' = [aws EXCEPT !.alarms = [n \in Names |-> IF n \in view.todo THEN NoAlarm ELSE aws.alarms[n]]]

\* The ones that are the CR's go in one call.
deleteUndeclaredAlarms ==
    /\ pc = "delete"
    /\ \/ DeleteAlarms /\ ~view.failed /\ GoTo("persist") /\ Returned(TRUE)
       \/ DeleteAlarms /\ view.failed /\ FailTo("persist") /\ Returned(FALSE)
       \/ ~calm /\ (DeleteAlarms \/ UNCHANGED aws) /\ FailTo("persist") /\ Returned(FALSE)
    /\ UNCHANGED <<userVars, store, view, lost>>

-----------------------------------------------------------------------------
Unknown(status) == IF status = "no" /\ \E n \in Names : Mine(n) THEN {"alarm"} ELSE {}

AlarmPersist ==
    /\ pc = "persist" /\ EndPass(mem, AlarmIdleView, NoAlarmStatus)
    /\ lost' = lost \cap Unknown(mem)
    /\ cr' = IF view.deleting /\ ~err THEN "gone" ELSE cr
    /\ UNCHANGED <<producer, spec, calm, aws>>

AlarmCrash ==
    /\ ~calm /\ pc # "idle" /\ EndPass(store, AlarmIdleView, NoAlarmStatus)
    /\ lost' = Unknown(store)
    /\ UNCHANGED <<userVars, aws>>

\* The key section of the producer's pass: the alarms of a CR that is live,
\* that the topic is shared with and that names it.  A CR that changes its
\* alarms wakes the producer.
topicPublishingAlarms ==
    IF producerResource /\ producer.sharedWith # "None" /\ cr = "live" /\ spec.topic THEN spec.alarms ELSE {}

SyncTopicKey ==
    /\ producer.exists /\ aws.key # topicPublishingAlarms
    /\ aws' = [aws EXCEPT !.key = topicPublishingAlarms]
    /\ UNCHANGED <<userVars, store, passVars, lost>>

\* Somebody deletes an alarm, edits it, or makes one of that name.
EditAlarm ==
    /\ ~calm /\ pc \in {"idle", "alarm", "replace", "put", "delete"}
    /\ \E n \in Names :
         \/ Exists(aws.alarms[n]) /\ AlarmBecomes(n, NoAlarm)
         \/ aws.alarms[n].notifies /\ AlarmBecomes(n, Alarm(aws.alarms[n].tags, FALSE))
         \/ ~Exists(aws.alarms[n]) /\ AlarmBecomes(n, Alarm("other", FALSE))
    /\ lost' = IF pc = "idle" THEN lost ELSE lost \cup {"raced"}
    /\ UNCHANGED <<userVars, store, passVars>>

-----------------------------------------------------------------------------
AlarmPass == \/ AlarmBegin \/ alarms_Ensure \/ listAlarmsByPrefix \/ (\E n \in Names : reconcileAlarm(n))
             \/ replaceAlarm \/ putAlarm \/ isAlarmOwnedByUs \/ deleteUndeclaredAlarms \/ AlarmPersist

\* A pass reads the spec and the producer as it begins.
AlarmUsers ==
    /\ pc = "idle"
    /\ \/ EditProducer({Absent, Silent, Sharing("None", FALSE), Sharing("Read", FALSE)})
       \/ EditSpec(AllAlarmSpecs) \/ DeleteCR(NoAlarmSpec)

AlarmProducing == (calm \/ pc = "idle") /\ (ProducerPass \/ SyncTopicKey)

AlarmNext == AlarmPass \/ AlarmCrash \/ AlarmProducing \/ AlarmUsers \/ EditAlarm

-----------------------------------------------------------------------------
\* Status.AlarmsMayExist says "no" only when the CR has no alarm, unless the
\* write that said otherwise was lost (alarms.go:161).
NoAlarmsMeansNone ==
    pc = "idle" /\ store = "no" /\ (\E n \in Names : Mine(n)) => "alarm" \in lost

\* A step of the operator that changes an alarm changes one of the CR's, or one of
\* the previous incarnation's that the CR was told to take over, unless somebody
\* changed it since it was listed.
AlarmChangesOnlyOwned ==
    \A n \in Names :
        (pc # pc' \/ view # view') /\ Exists(aws.alarms[n]) /\ aws.alarms[n] # aws'.alarms[n]
            => \/ aws.alarms[n].tags = "ours" \/ "raced" \in lost
               \/ aws.alarms[n].tags = "previous" /\ pc = "replace" /\ view.spec.takeOver

\* No alarm of the CR's outlives it (Cleanup).
FinalizerHoldsAlarms == cr = "gone" => \A n \in Names : ~Mine(n)

\* The alarms settle to those declared, which notify the topic and which the
\* topic's key lets in, unless the topic is not shared with the CR, the name is
\* somebody else's or the status lost the alarms.
AlarmMustSettle ==
    /\ calm /\ pc = "idle" /\ cr = "live" /\ "alarm" \notin lost
    /\ spec.topic => producerResource /\ producer.sharedWith # "None"

AlarmSettled ==
    \A n \in Names : aws.alarms[n].tags \in {"absent", "ours"} =>
        IF n \in spec.alarms
        THEN aws.alarms[n] = Alarm("ours", spec.topic) /\ (spec.topic => n \in aws.key)
        ELSE aws.alarms[n] = NoAlarm
=============================================================================
