------------------------------ MODULE Snapshot ------------------------------
(***************************************************************************)
(* The per-session backstop record of internal/llmclassifier/state and the *)
(* three pure mutations the store applies to it.  A time is a natural      *)
(* number; 0 is Go's zero time.Time.  The free-text reason is left out: it *)
(* is set and cleared together with AutoDisabledAt.                        *)
(***************************************************************************)
EXTENDS Integers

CONSTANTS
    MaxConsecutive,   \* Limits.MaxConsecutive; 0 switches that arm off
    MaxTotal          \* Limits.MaxTotal; 0 switches that arm off

ASSUME LimitsAreNat == MaxConsecutive \in Nat /\ MaxTotal \in Nat

Snapshot == [consecutive : Nat, total : Nat, disabledAt : Nat]

Zero == [consecutive |-> 0, total |-> 0, disabledAt |-> 0]

Disabled(s) == s.disabledAt # 0

\* A trip ages out only strictly after ttl; ttl = 0 never ages it out.
Expired(s, ttl, now) == Disabled(s) /\ ttl > 0 /\ now - s.disabledAt > ttl

\* Mutant of LimitHit: the block that reaches a limit does not trip it.
LimitHit_Late(s) ==
    \/ MaxConsecutive > 0 /\ s.consecutive > MaxConsecutive
    \/ MaxTotal > 0 /\ s.total > MaxTotal

LimitHit(s) ==
    \/ MaxConsecutive > 0 /\ s.consecutive >= MaxConsecutive
    \/ MaxTotal > 0 /\ s.total >= MaxTotal

Bumped(s) ==
    [consecutive |-> s.consecutive + 1, total |-> s.total + 1, disabledAt |-> s.disabledAt]

\* Mutant of Blocked: a block at a limit trips a tripped session again.
Blocked_Again(s, t) ==
    IF LimitHit(Bumped(s))
    THEN [consecutive |-> 0, total |-> 0, disabledAt |-> t]
    ELSE Bumped(s)

\* The mutation of Store.Block at time t: count, and trip at a limit unless
\* already tripped.  A trip starts the counters over.
Blocked(s, t) ==
    IF ~Disabled(s) /\ LimitHit(Bumped(s))
    THEN [consecutive |-> 0, total |-> 0, disabledAt |-> t]
    ELSE Bumped(s)

\* Mutant of Allowed: takes one block back instead of ending the streak.
Allowed_OneBack(s) == [s EXCEPT !.consecutive = s.consecutive - 1]

\* The mutation of Store.Allow.
Allowed(s) == [s EXCEPT !.consecutive = 0]

Ops == {"block", "allow", "reset"}

Mutated(op, s, t) ==
    CASE op = "block" -> Blocked(s, t)
      [] op = "allow" -> Allowed(s)
      [] op = "reset" -> Zero

\* Mutant of Changes: Reset finds zero counters, and forgets the trip.
Changes_ByCounters(op, s) ==
    \/ op = "block"
    \/ s.consecutive # 0
    \/ op = "reset" /\ s.total # 0

\* What mutate returns: TRUE when the record has to be written back.
Changes(op, s) ==
    \/ op = "block"
    \/ op = "allow" /\ s.consecutive # 0
    \/ op = "reset" /\ s # Zero

\* A record the mutations can build: a streak is part of the total, and an
\* armed record has room for a block below every limit that is switched on.
WithinLimits(s) ==
    /\ s.consecutive <= s.total
    /\ ~Disabled(s) => /\ s.consecutive \in 0..(MaxConsecutive - 1) \/ MaxConsecutive = 0
                       /\ s.total \in 0..(MaxTotal - 1) \/ MaxTotal = 0
=============================================================================
