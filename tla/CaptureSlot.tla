----------------------------- MODULE CaptureSlot -----------------------------
(***************************************************************************)
(* What the capture queue promises, without saying how: one slot that at   *)
(* most one job occupies, each job entering it at most once and leaving it *)
(* for good, and a store of evidence that only grows and only holds jobs   *)
(* that once had the slot.                                                 *)
(***************************************************************************)
CONSTANT Jobs

VARIABLES
    slot,       \* the jobs in the slot: none or one
    admitted,   \* jobs that were ever given the slot
    evidence    \* jobs with a stored screenshot

vars == <<slot, admitted, evidence>>

Init == slot = {} /\ admitted = {} /\ evidence = {}

Admit(j) ==
    /\ slot = {}
    /\ j \notin admitted
    /\ slot' = {j}
    /\ admitted' = admitted \cup {j}
    /\ UNCHANGED evidence

\* The slot is vacated, with evidence stored or without.
Vacate ==
    /\ slot # {}
    /\ slot' = {}
    /\ UNCHANGED <<admitted, evidence>>

\* Evidence may also be stored for a job whose slot was taken from it by a
\* cancellation the worker had not seen.
Store(j) ==
    /\ j \in admitted
    /\ j \notin evidence
    /\ slot' = slot \ {j}
    /\ evidence' = evidence \cup {j}
    /\ UNCHANGED admitted

Next == Vacate \/ \E j \in Jobs : Admit(j) \/ Store(j)

Spec == Init /\ [][Next]_vars
=============================================================================
