--------------------------- MODULE SessionCounters ---------------------------
(***************************************************************************)
(* What the session store promises its callers: one record per session on  *)
(* which Block, Allow and Reset are atomic, and which is lost only when a  *)
(* process dies or an I/O call fails in the middle of a rewrite.           *)
(***************************************************************************)
EXTENDS Snapshot

VARIABLES
    snap,     \* the record
    now,      \* wall clock
    faults    \* crashes and I/O errors that have taken effect so far

cvars == <<snap, now, faults>>

CountersInit ==
    /\ snap = Zero
    /\ now = 1
    /\ faults = 0

\* A trip carries a time the clock has already shown.
Apply(op) ==
    /\ \E t \in 1..now : snap' = Mutated(op, snap, t)
    /\ UNCHANGED <<now, faults>>

Elapse ==
    /\ now' = now + 1
    /\ UNCHANGED <<snap, faults>>

\* Faults may take time and lose the record, never change it into another.
Fault ==
    /\ faults' > faults
    /\ snap' \in {snap, Zero}
    /\ now' >= now

CountersNext == (\E op \in Ops : Apply(op)) \/ Elapse \/ Fault

CountersSpec == CountersInit /\ [][CountersNext]_cvars
=============================================================================
