------------------------------ MODULE Operator ------------------------------
(***************************************************************************)
(* The controller around the sections: the passes of one CR (Reconciler)   *)
(* and the wake-ups between CRs (Watches).  A pass takes the request a     *)
(* wake-up left and they share nothing else, so a behaviour is about one   *)
(* of them, and the other part is at rest.                                 *)
(***************************************************************************)
EXTENDS Reconciler

CONSTANTS
    Crs, Specs    \* of Watches

VARIABLES
    part,   \* "pass" or "watches"
    objects, cached, grant, cachedGrant, subject, woken, seen   \* of Watches

Wakeups == INSTANCE Watches

\* Every CR may have some spec, and a spec refers to CRs, there or not.
ASSUME OperatorAssumption ==
    \A x \in Crs :
        /\ Specs[x] # {}
        /\ \A s \in Specs[x] : s.consumes \cup s.rds \cup s.alarm \cup s.shares \subseteq Crs

watchVars    == <<objects, cached, grant, cachedGrant, subject, woken, seen>>
operatorVars == <<vars, watchVars, part>>

OperatorTypeOK == TypeOK /\ Wakeups!WatchTypeOK

OperatorInit ==
    \/ part = "pass" /\ Init /\ Wakeups!WatchInit /\ subject = CHOOSE x \in Crs : TRUE
    \/ part = "watches" /\ Init /\ Wakeups!WatchInit /\ ~api.legacy

Passing(Action) == part = "pass" /\ Action /\ UNCHANGED <<watchVars, part>>

Watching(Action) == part = "watches" /\ Action /\ UNCHANGED <<vars, part>>

\* The manager's workers take what is queued, and its watches deliver what
\* happened.
OperatorSpec ==
    /\ OperatorInit
    /\ [][Passing(Next) \/ Watching(Wakeups!WatchNext)]_operatorVars
    /\ WF_operatorVars(Passing(Pass)) /\ WF_operatorVars(Passing(Deliver))

-----------------------------------------------------------------------------
(* Properties.                                                             *)

\* When nothing more goes wrong the CR settles (the results of reconcileNormal
\* and reconcileDelete, the watch and the delayed requests).
CRSettles == []<>(part = "watches" \/ Settled)

\* No CR is forgotten: between passes something will wake it, and if its last
\* pass found something else than what is there now, something will without
\* waiting for the drift timer (the results of a pass, the predicates, the map
\* functions and their indexes).
NoneForgotten == SomethingWakes /\ Wakeups!StaleIsWoken
=============================================================================
