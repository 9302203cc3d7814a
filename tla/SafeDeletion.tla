---------------------------- MODULE SafeDeletion ----------------------------
(***************************************************************************)
(* What the operator promises of anything that holds data and has          *)
(* deletionPolicy Delete, whatever the AWS service: it is closed to writes *)
(* before its owner is told it is leaving, it is destroyed only after that *)
(* notice has stood for the quiet window and it was found empty, or by     *)
(* force, and once destroyed for being empty nothing was in it.            *)
(*                                                                         *)
(* The resource is seen only while it is the CR's own (mine).  What the    *)
(* ledger cannot know is explicit: the resource may be reopened without    *)
(* the notice being withdrawn, after which the promise is excused until    *)
(* the ledger has caught up.                                               *)
(***************************************************************************)
EXTENDS Integers

CONSTANTS
    Window,   \* the notice to be given
    Delay,    \* ticks until closing it stops every write
    Lag,      \* the most ticks a write may be missing from what is read
    MaxAge    \* where an age stops growing

VARIABLES
    mine,     \* the resource exists and is tagged as the CR's
    closed,   \* the age of the write block, or Never
    notice,   \* the age of the persisted pending mark, or Never
    full,     \* it holds data
    filled,   \* how long the newest data has had to show, Lag if it cannot be missed
    doomed,   \* the decision to destroy it: "no", "drained" or "forced"
    excused   \* it was reopened and the ledger may not know

vars == <<mine, closed, notice, full, filled, doomed, excused>>

Never == -1
Ages  == 0 .. MaxAge
Older(age) == IF age = Never \/ age = MaxAge THEN age ELSE age + 1

Init ==
    /\ mine = FALSE /\ closed = Never /\ notice = Never
    /\ full = FALSE /\ filled = Lag /\ doomed = "no" /\ excused = FALSE

\* An attempt to destroy the resource is over; the next one starts afresh.
Drop == doomed' = "no"

\* What is in a resource that was closed a while ago has been there a while.
Settled(c, f) == c = Never \/ f = Lag \/ c <= f + Delay

\* Created or adopted, in whatever state it is.
Acquire ==
    /\ ~mine /\ mine' = TRUE /\ excused' = TRUE
    /\ closed' \in Ages \cup {Never} /\ full' \in BOOLEAN /\ filled' \in 0 .. Lag
    /\ Settled(closed', filled')
    /\ Drop /\ UNCHANGED notice

\* Destroyed, released or taken away.
Lose ==
    /\ mine /\ mine' = FALSE
    /\ closed' = Never /\ full' = FALSE /\ filled' = Lag
    /\ Drop /\ UNCHANGED <<notice, excused>>

Close ==
    /\ mine /\ closed' = (IF closed = Never THEN 0 ELSE closed)
    /\ Drop /\ UNCHANGED <<mine, notice, full, filled, excused>>

Reopen ==
    /\ closed' = Never /\ excused' = TRUE
    /\ Drop /\ UNCHANGED <<mine, notice, full, filled>>

\* Notice is given only of a resource that was closed before, or excused.
Announce ==
    /\ notice = Never /\ notice' \in Ages
    /\ mine /\ ~excused' => closed # Never /\ notice' <= closed
    /\ excused' \in BOOLEAN /\ (excused => excused')
    /\ Drop /\ UNCHANGED <<mine, closed, full, filled>>

\* Without a notice there is nothing to be excused from.
Withdraw ==
    /\ notice' = Never
    /\ excused' \in BOOLEAN /\ (excused' => excused)
    /\ Drop /\ UNCHANGED <<mine, closed, full, filled>>

GiveUp == Drop /\ UNCHANGED <<mine, closed, notice, full, filled, excused>>

Doom ==
    /\ doomed = "no" /\ mine
    /\ \/ doomed' = "forced"
       \/ /\ doomed' = "drained" /\ notice # Never /\ notice >= Window
          /\ full => filled < Lag
    /\ UNCHANGED <<mine, closed, notice, full, filled, excused>>

\* Writers, until the block has taken effect, and readers that consume.
Fill ==
    /\ mine /\ (closed = Never \/ closed < Delay)
    /\ full' = TRUE /\ filled' \in 0 .. Lag
    /\ UNCHANGED <<mine, closed, notice, doomed, excused>>

Drain ==
    /\ full' = FALSE /\ filled' = Lag /\ doomed' \in {doomed, "no"}
    /\ UNCHANGED <<mine, closed, notice, excused>>

Tick ==
    /\ closed' = Older(closed) /\ notice' = Older(notice) /\ filled' = IF filled = Lag THEN Lag ELSE filled + 1
    /\ UNCHANGED <<mine, full, doomed, excused>>

Next == \/ Acquire \/ Lose \/ Close \/ Reopen \/ Announce \/ Withdraw \/ GiveUp
        \/ Doom \/ Fill \/ Drain \/ Tick

Spec == Init /\ [][Next]_vars

\* What is about to be destroyed for being empty is empty.
DoomedIsEmpty == doomed = "drained" /\ mine /\ ~excused => ~full

-----------------------------------------------------------------------------
(* DoomedIsEmpty follows from the steps, whenever the window is no shorter *)
(* than the delay and the lag together: by induction, with SafeInv.        *)

\* The parts of the induction.
TypeInv ==
    /\ mine \in BOOLEAN /\ full \in BOOLEAN /\ excused \in BOOLEAN
    /\ closed \in Ages \cup {Never} /\ notice \in Ages \cup {Never}
    /\ filled \in 0 .. Lag /\ doomed \in {"no", "drained", "forced"}

\* Notice was given of a resource that had been closed before.
ClosedFirst == mine /\ ~excused /\ notice # Never => closed # Never /\ notice <= closed

\* Nothing was written once the block had taken effect.
NothingNew == mine => Settled(closed, filled)

\* A resource found empty after its notice had stood for the window is empty.
FoundEmpty == doomed = "drained" /\ mine /\ ~excused => ~full /\ notice # Never /\ notice >= Window

SafeInv == TypeInv /\ ClosedFirst /\ NothingNew /\ FoundEmpty

\* The window is long enough for the block to take effect and for the last
\* write before it to show.
LongEnough == /\ Window \in Nat /\ Delay \in Nat /\ Lag \in Nat /\ MaxAge \in Nat
              /\ Delay + Lag <= Window
=============================================================================
