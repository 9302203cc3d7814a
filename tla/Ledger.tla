------------------------------- MODULE Ledger -------------------------------
(***************************************************************************)
(* A ledger entry of status.managedResources (internal/status/             *)
(* managed_resources.go) and the timers the operator reads from it.        *)
(*                                                                         *)
(* A timestamp is kept as its age, the ticks elapsed since it was taken,   *)
(* which stops growing at MaxAge: MaxAge is no less than any threshold an  *)
(* age has to reach and above any it has to exceed, so two ages at the cap *)
(* are never told apart.  Time is thereby unbounded and the state finite.  *)
(***************************************************************************)
EXTENDS Integers

CONSTANTS
    TrustWindow,                  \* 10 min: a verified entry is trusted
    DeletionQuietWindow,          \* 10 min: pending before emptiness counts
    RelinquishedRecheckInterval,  \* 24 h: a relinquished entry is rechecked
    EmptyCheckBackoffStartAfter,  \* 24 h: emptiness checks start backing off
    EmptyCheckDay,                \* 24 h: the interval doubles once per day
    EmptyCheckBaseInterval,       \* 10 min
    EmptyCheckMaxInterval,        \* 20 h
    MaxAge                        \* the bound: where an age stops growing

ASSUME LedgerAssumption ==
    /\ TrustWindow \in Nat /\ TrustWindow < MaxAge
    /\ DeletionQuietWindow \in Nat \ {0} /\ DeletionQuietWindow <= MaxAge
    /\ RelinquishedRecheckInterval \in Nat /\ RelinquishedRecheckInterval < MaxAge
    /\ EmptyCheckBackoffStartAfter \in Nat /\ EmptyCheckBackoffStartAfter <= MaxAge
    /\ EmptyCheckDay \in Nat \ {0}
    /\ EmptyCheckBaseInterval \in Nat \ {0}
    /\ EmptyCheckMaxInterval \in Nat \ {0} /\ EmptyCheckMaxInterval <= MaxAge
    /\ EmptyCheckBaseInterval <= EmptyCheckMaxInterval
    /\ MaxAge \in Nat

\* The age of a timestamp that is not set.
Never == -1

Age == 0 .. MaxAge

Older(age) == IF age = Never \/ age = MaxAge THEN age ELSE age + 1

DeletionPolicies == {"Retain", "Delete"}

\* state "None" is the absence of an entry.
Entry == [state   : {"None", "Verified", "Relinquished"},
          policy  : DeletionPolicies,
          force   : BOOLEAN,
          verified: Age,                  \* LastVerifiedAt
          pending : Age \cup {Never},     \* PendingDeletionSince
          checked : Age \cup {Never}]     \* LastEmptyCheckAt

NoEntry == [state |-> "None", policy |-> "Retain", force |-> FALSE,
            verified |-> 0, pending |-> Never, checked |-> Never]

\* One tick of the clock, as an entry sees it.
OlderEntry(e) ==
    IF e.state = "None"
    THEN e
    ELSE [e EXCEPT !.verified = Older(@), !.pending = Older(@), !.checked = Older(@)]

\* An entry rebuilt after a full ownership check: nothing pending survives.
VerifiedEntry(policy, force) ==
    [state |-> "Verified", policy |-> policy, force |-> force,
     verified |-> 0, pending |-> Never, checked |-> Never]

\* Mutant: the state of an entry nobody ever set.
RelinquishedUnknown(e) == [e EXCEPT !.state = "", !.verified = 0]

Relinquished(e) == [e EXCEPT !.state = "Relinquished", !.verified = 0]

NeedsRelinquishedRecheck(e) ==
    e.state = "Relinquished" /\ e.verified > RelinquishedRecheckInterval

NeedsRevalidation(e) == e.state # "Verified" \/ e.verified > TrustWindow

emptyCheckInterval(age) ==
    LET days == (age - EmptyCheckBackoffStartAfter) \div EmptyCheckDay
        doubled == EmptyCheckBaseInterval * 2^days
    IN  IF days > 0 /\ doubled >= EmptyCheckMaxInterval
        THEN EmptyCheckMaxInterval
        ELSE doubled

NeedsEmptyCheck(e) ==
    \/ e.pending = Never
    \/ e.pending < EmptyCheckBackoffStartAfter
    \/ e.checked = Never
    \/ e.checked >= emptyCheckInterval(e.pending)
=============================================================================
