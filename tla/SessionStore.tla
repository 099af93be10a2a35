---------------------------- MODULE SessionStore ----------------------------
(***************************************************************************)
(* state.Store on one session file, as the processes of one session use    *)
(* it: every update opens the file, takes the flock, decodes, mutates,     *)
(* truncates, writes and unlocks, each a step of its own; Get reads the    *)
(* file without the lock.  A process may be killed between any two steps   *)
(* (the kernel then drops its flock) and an I/O call may fail.             *)
(***************************************************************************)
EXTENDS Snapshot

CONSTANTS
    Procs,      \* the hook processes that share the session id
    NoProc,     \* nobody holds the flock
    MaxFaults   \* bound on kills and I/O errors

ASSUME NoProcIsNobody == NoProc \notin Procs

ASSUME FaultBoundIsNat == MaxFaults \in Nat

VARIABLES
    file,       \* the session file: what decode makes of it, and the record
    holder,     \* the process that holds the flock, or NoProc
    pc,         \* next step of p's update; "idle" when p is in none
    op,         \* the mutation p's update applies
    old,        \* the record p decoded under the flock
    new,        \* the record p is about to write
    now,        \* wall clock
    faults,     \* kills and I/O errors so far
    consumed    \* history: the trips a completed Reset has cleared

storeVars == <<file, holder, pc, op, old, new, now, faults, consumed>>

FileStates == {"absent", "empty", "corrupt", "json"}

PCs == {"idle", "lock", "mutate", "truncate", "write", "unlock"}

StoreInit ==
    /\ file = [state |-> "absent", snap |-> Zero]
    /\ holder = NoProc
    /\ pc = [p \in Procs |-> "idle"]
    /\ op = [p \in Procs |-> "allow"]
    /\ old = [p \in Procs |-> Zero]
    /\ new = [p \in Procs |-> Zero]
    /\ now = 1
    /\ faults = 0
    /\ consumed = {}

----------------------------------------------------------------------------

\* decode: a missing, empty or undecodable file counts as the zero record.
\* (Get reports the undecodable one as an error, which its caller ignores.)
Decoded == IF file.state = "json" THEN file.snap ELSE Zero

Goto(p, label) == pc' = [pc EXCEPT ![p] = label]

OpenFile(p, o) ==
    /\ pc[p] = "idle"
    /\ file' = IF file.state = "absent" THEN [file EXCEPT !.state = "empty"] ELSE file
    /\ op' = [op EXCEPT ![p] = o]
    /\ Goto(p, "lock")
    /\ UNCHANGED <<holder, old, new, now, faults, consumed>>

\* MkdirAll or OpenFile returns an error: the update has done nothing.
OpenFails(p) ==
    /\ pc[p] = "idle"
    /\ faults < MaxFaults
    /\ faults' = faults + 1
    /\ UNCHANGED <<file, holder, pc, op, old, new, now, consumed>>

\* Get's open or read returns an error.
ReadFails ==
    /\ faults < MaxFaults
    /\ faults' = faults + 1
    /\ UNCHANGED <<file, holder, pc, op, old, new, now, consumed>>

\* Mutant of LockFree: the no-op lock of lock_other.go.
LockFree_NoOp == TRUE

LockFree == holder = NoProc

LockFile(p) ==
    /\ pc[p] = "lock"
    /\ LockFree
    /\ holder' = p
    /\ Goto(p, "mutate")
    /\ UNCHANGED <<file, op, old, new, now, faults, consumed>>

\* mutate, on the record s that update has decoded.  time.Now is finer than
\* any two trips are apart, so the clock moves on when a trip takes its time.
MutateFrom(p, s) ==
    LET m == Mutated(op[p], s, now)
    IN  /\ pc[p] = "mutate"
        /\ old' = [old EXCEPT ![p] = s]
        /\ new' = [new EXCEPT ![p] = m]
        /\ now' = IF ~Disabled(s) /\ Disabled(m) THEN now + 1 ELSE now
        /\ Goto(p, IF Changes(op[p], s) THEN "truncate" ELSE "unlock")
        /\ UNCHANGED <<file, holder, op, consumed>>

\* Stat, decode and mutate.
Mutate(p) == MutateFrom(p, Decoded) /\ UNCHANGED faults

\* Stat or a read returns an error: update does not give up but starts fresh,
\* as if the file had been corrupt.
Misread(p) ==
    /\ faults < MaxFaults
    /\ MutateFrom(p, Zero)
    /\ faults' = faults + 1

Truncate(p) ==
    /\ pc[p] = "truncate"
    /\ file' = [state |-> "empty", snap |-> Zero]
    /\ Goto(p, "write")
    /\ UNCHANGED <<holder, op, old, new, now, faults, consumed>>

WriteFile(p) ==
    /\ pc[p] = "write"
    /\ file' = [state |-> "json", snap |-> new[p]]
    /\ consumed' = IF Disabled(old[p]) /\ ~Disabled(new[p])
                   THEN consumed \union {old[p].disabledAt} ELSE consumed
    /\ Goto(p, "unlock")
    /\ UNCHANGED <<holder, op, old, new, now, faults>>

\* Mutant of Close: a lock that outlives a killed holder.
Close_OnReturnOnly(p) ==
    /\ holder' = IF holder = p /\ pc[p] = "unlock" THEN NoProc ELSE holder
    /\ old' = [old EXCEPT ![p] = Zero]
    /\ new' = [new EXCEPT ![p] = Zero]
    /\ Goto(p, "idle")

\* The descriptor is closed, and with it goes p's flock; update's locals go
\* out of scope.
Close(p) ==
    /\ holder' = IF holder = p THEN NoProc ELSE holder
    /\ old' = [old EXCEPT ![p] = Zero]
    /\ new' = [new EXCEPT ![p] = Zero]
    /\ Goto(p, "idle")

\* The deferred unlockFile and Close, on every return after lockFile.
UnlockFile(p) ==
    /\ pc[p] = "unlock"
    /\ Close(p)
    /\ UNCHANGED <<file, op, now, faults, consumed>>

\* flock, seek, truncate or write returns an error: update gives up.  A write
\* that fails leaves the truncated file, or a prefix that does not decode.
IOError(p) ==
    /\ faults < MaxFaults
    /\ \/ /\ pc[p] = "lock"
          /\ Goto(p, "idle")
          /\ UNCHANGED file
       \/ /\ pc[p] \in {"mutate", "truncate"}
          /\ Goto(p, "unlock")
          /\ UNCHANGED file
       \/ /\ pc[p] = "write"
          /\ Goto(p, "unlock")
          /\ file' \in {file, [state |-> "corrupt", snap |-> Zero]}
    /\ faults' = faults + 1
    /\ UNCHANGED <<holder, op, old, new, now, consumed>>

\* The process dies; the kernel closes its descriptor and with it the flock.
Killed(p) ==
    /\ faults < MaxFaults
    /\ faults' = faults + 1
    /\ Close(p)
    /\ UNCHANGED <<file, op, now, consumed>>

Tick ==
    /\ now' = now + 1
    /\ UNCHANGED <<file, holder, pc, op, old, new, faults, consumed>>

UpdateStep(p) ==
    LockFile(p) \/ Mutate(p) \/ Truncate(p) \/ WriteFile(p) \/ UnlockFile(p)

StoreNext ==
    \/ \E p \in Procs : \/ \E o \in Ops : OpenFile(p, o)
                        \/ OpenFails(p)
                        \/ UpdateStep(p)
                        \/ Misread(p)
                        \/ IOError(p)
                        \/ Killed(p)
    \/ ReadFails
    \/ Tick

StoreSpec == StoreInit /\ [][StoreNext]_storeVars

----------------------------------------------------------------------------

\* Every variable holds a value the code's own types allow.
StoreTypeOK ==
    /\ file \in [state : FileStates, snap : Snapshot]
    /\ holder \in Procs \union {NoProc}
    /\ pc \in [Procs -> PCs]
    /\ op \in [Procs -> Ops]
    /\ old \in [Procs -> Snapshot]
    /\ new \in [Procs -> Snapshot]
    /\ now \in Nat \ {0}
    /\ faults \in 0..MaxFaults
    /\ consumed \subseteq Nat

\* The record as the callers see it: a rewrite takes effect with its write.
Record == IF holder # NoProc /\ pc[holder] = "write" THEN old[holder] ELSE Decoded

\* A misread whose rewrite has not truncated the file yet has not cost the
\* record anything.
Pending == IF holder # NoProc /\ pc[holder] = "truncate" /\ old[holder] # Decoded
           THEN 1 ELSE 0

Counters == INSTANCE SessionCounters WITH snap <- Record, faults <- faults - Pending

\* Whatever the interleaving, the locked read-modify-write is one atomic
\* update of one record: no increment is lost between processes, and only a
\* fault inside the rewrite loses the record.
StoreIsAtomic == Counters!CountersSpec

\* The record is always one the mutations can build: an armed session is
\* below both limits, whatever mixture of processes counted the blocks.
RecordWithinLimits == WithinLimits(Record)

\* Once a Reset has cleared a trip, no update that was under way at the time
\* brings the trip back ("counters reset immediately so the next call
\* classifies fresh").
ConsumedTripsStayCleared == Record.disabledAt \notin consumed

\* A trip sticks: blocks recorded after it never move its time, so the TTL
\* counts from the first one.
TripTimeSticks ==
    [][Disabled(Record) /\ Disabled(Record)' => UNCHANGED Record.disabledAt]_storeVars

----------------------------------------------------------------------------

(***************************************************************************)
(* The inductive invariant behind the properties above.                    *)
(***************************************************************************)

Critical == {"mutate", "truncate", "write", "unlock"}

\* A process is past lockFile exactly when the flock is its own.
LockInv == \A p \in Procs : pc[p] \in Critical <=> holder = p

\* What a rewrite in progress holds: the record it decoded is still the one
\* on disk until it truncates, unless a read failed; what it will write is
\* what it decoded, mutated at a time the clock has passed.
RewriteAt(p) ==
    /\ pc[p] = "truncate" => old[p] = Decoded \/ (old[p] = Zero /\ faults > 0)
    /\ pc[p] = "write" => file.state = "empty"
    /\ pc[p] \in {"truncate", "write"} =>
          \E t \in 1..now : new[p] = Mutated(op[p], old[p], t)

RewriteInv == \A p \in Procs : RewriteAt(p)

LimitsInv ==
    /\ WithinLimits(Decoded)
    /\ \A p \in Procs : WithinLimits(old[p])

\* Every trip time in use is past, and none in use has been cleared.
TripInv ==
    /\ Decoded.disabledAt < now
    /\ \A p \in Procs : old[p].disabledAt < now /\ new[p].disabledAt < now
    /\ \A c \in consumed : 0 < c /\ c < now
    /\ Record.disabledAt \notin consumed
    /\ \A p \in Procs : pc[p] \in {"truncate", "write"} => new[p].disabledAt \notin consumed

\* The whole of it.
StoreInv == StoreTypeOK /\ LockInv /\ RewriteInv /\ LimitsInv /\ TripInv
=============================================================================
