---------------------------- MODULE ConsumerPass ----------------------------
(***************************************************************************)
(* A CR that uses what another CR owns: internal/resources/iam/derive.go   *)
(* says what the reference to the producer resolves to, and everything     *)
(* that depends on it asks again on every pass.  One resource of one       *)
(* producer, and the pass of one consumer; what the pass does is in the    *)
(* modules that EXTEND this one, which also say what spec, store, aws and  *)
(* mem hold.                                                               *)
(***************************************************************************)
EXTENDS Naturals, FiniteSets

VARIABLES
    producer,   \* the other CR: its spec, what it has published, its resource
    spec,       \* what the consumer declares
    cr,         \* the consumer: "live", "deleting" (deletionTimestamp set) or "gone"
    store,      \* what the consumer's status records, as persisted
    aws,        \* what exists because of the consumer, in AWS and in the cluster
    pc,         \* where the running pass is; "idle" between passes
    view,       \* what the pass has read, of its own CR and of others
    mem,        \* the pass's copy of the status
    err,        \* whether the pass has met an error
    calm,       \* no further fault, edit or outside change
    lost        \* history: effects that the persisted status does not know of, and the like

passVars == <<pc, view, mem, err>>
userVars == <<producer, spec, cr, calm>>
vars == <<userVars, store, aws, passVars, lost>>

\* sharedWith is what the producer grants this consumer, key the resource's
\* customer managed key, entry whether the ledger has the resource, and
\* resource whether AWS does.
Producers ==
    [exists : BOOLEAN, declared : BOOLEAN, sharedWith : {"None", "Read", "ReadWrite"},
     key : {"None", "Pending", "Ready"}, entry : BOOLEAN, resource : BOOLEAN]

NoProducer == [exists |-> FALSE, declared |-> FALSE, sharedWith |-> "None",
               key |-> "None", entry |-> FALSE, resource |-> FALSE]

PassTypeOK ==
    /\ producer \in Producers /\ cr \in {"live", "deleting", "gone"}
    /\ {err, calm} \subseteq BOOLEAN

PassInit ==
    /\ producer = NoProducer /\ cr = "live" /\ calm = FALSE
    /\ pc = "idle" /\ err = FALSE

-----------------------------------------------------------------------------
(* What the reference resolves to.                                         *)

\* The section's entry of that name, with its sharedWith.
producerResource == producer.exists /\ producer.declared

\* Why the reference does not resolve, as far as the specs go.  A producer
\* being deleted still counts.
lookupConsume ==
    CASE ~producer.exists -> "ProducerNotFound"
      [] producer.exists /\ ~producerResource -> "ResourceNotDeclared"
      [] producerResource /\ producer.sharedWith = "None" -> "NotAuthorized"
      [] producerResource /\ producer.sharedWith # "None" -> "Resolved"

\* The grants the reference is worth: the resource, and its key unless DynamoDB
\* uses that on the caller's behalf.  Nothing before both are published.
resolveConsume ==
    IF lookupConsume = "Resolved" /\ producer.entry /\ producer.key # "Pending"
    THEN {<<"resource", producer.sharedWith>>}
         \cup (IF producer.key = "Ready" THEN {<<"key", producer.sharedWith>>} ELSE {})
    ELSE {}

ResolveConsumeARN == resolveConsume # {}

-----------------------------------------------------------------------------
(* The pass.  GoTo moves on within it; FailTo also records an error, which *)
(* holds the finalizer: a pass over a live CR goes on to the next section  *)
(* all the same.                                                           *)

GoTo(step) == pc' = step /\ UNCHANGED err

FailTo(step) == pc' = step /\ err' = view.deleting

\* A call that took effect: the reply may be lost.
Done(step, failStep) == GoTo(step) \/ (~calm /\ FailTo(failStep))

EndPass(ledger, idleView, idleMem) ==
    /\ store' = ledger
    /\ pc' = "idle" /\ view' = idleView /\ mem' = idleMem /\ err' = FALSE

-----------------------------------------------------------------------------
(* Everybody else.                                                         *)

\* The forms the producer's spec takes, and a change from one to another.
Absent == [exists |-> FALSE, declared |-> FALSE, sharedWith |-> "None", encrypted |-> FALSE]
Silent == [Absent EXCEPT !.exists = TRUE]
Sharing(level, encrypted) ==
    [exists |-> TRUE, declared |-> TRUE, sharedWith |-> level, encrypted |-> encrypted]

As(form) ==
    [exists |-> form.exists, declared |-> form.declared, sharedWith |-> form.sharedWith,
     key |-> CASE ~form.encrypted -> "None"
               [] form.encrypted /\ producer.key = "None" -> "Pending"
               [] form.encrypted /\ producer.key # "None" -> producer.key,
     entry |-> producer.entry /\ form.exists, resource |-> producer.resource]

EditProducer(forms) ==
    /\ ~calm /\ cr = "live"
    /\ producer' \in {As(form) : form \in forms} \ {producer}
    /\ UNCHANGED <<spec, cr, calm, store, aws, passVars, lost>>

\* Its own pass creates the resource and its key and publishes both, or
\* retires the entry of what is no longer declared.
ProducerPass ==
    /\ producer.exists
    /\ producer' = IF producer.declared
                   THEN [producer EXCEPT !.entry = TRUE, !.resource = TRUE,
                                         !.key = IF @ = "None" THEN @ ELSE "Ready"]
                   ELSE [producer EXCEPT !.entry = FALSE, !.key = "None"]
    /\ producer' # producer
    /\ UNCHANGED <<spec, cr, calm, store, aws, passVars, lost>>

EditSpec(specs) ==
    /\ ~calm /\ cr = "live"
    /\ spec' \in specs \ {spec}
    /\ UNCHANGED <<producer, cr, calm, store, aws, passVars, lost>>

\* No pass asks about the spec of a CR that is being deleted, or its producer.
DeleteCR(noSpec) ==
    /\ ~calm /\ cr = "live" /\ cr' = "deleting" /\ spec' = noSpec /\ producer' = NoProducer
    /\ UNCHANGED <<calm, store, aws, passVars, lost>>

Calm ==
    /\ ~calm /\ pc = "idle" /\ calm' = TRUE
    /\ UNCHANGED <<producer, spec, cr, store, aws, passVars, lost>>
=============================================================================
