--------------------------- MODULE BackstopProofs ---------------------------
(***************************************************************************)
(* Theorems about SessionStore and Backstop for any number of processes    *)
(* and calls, any limits, kills and I/O errors.  First the store: types,   *)
(* mutual exclusion of its critical section, the shape of the record, and  *)
(* that the locked read-modify-write implements SessionCounters.  Then the *)
(* classifier, a client of the store: what is proved of the store holds of *)
(* it, and a process does not ask twice for a trip.                        *)
(***************************************************************************)
EXTENDS Backstop, TLAPS

(***************************************************************************)
(* What the three mutations do to a record.                                *)
(***************************************************************************)

\* Every mutation of a record at a time is a record.
LEMMA MutatedType ==
    ASSUME NEW o \in Ops, NEW s \in Snapshot, NEW t \in Nat
    PROVE  Mutated(o, s, t) \in Snapshot
<1>1. Bumped(s) \in Snapshot
  BY DEF Bumped, Snapshot
<1>2. [consecutive |-> 0, total |-> 0, disabledAt |-> t] \in Snapshot
  BY DEF Snapshot
<1>3. Blocked(s, t) \in Snapshot
  BY <1>1, <1>2 DEF Blocked
<1>4. Allowed(s) \in Snapshot
  BY DEF Allowed, Snapshot
<1>5. Zero \in Snapshot
  BY DEF Zero, Snapshot
<1>. QED  BY <1>3, <1>4, <1>5 DEF Mutated, Ops

\* Every mutation keeps a streak within the total and an armed record below
\* the limits, provided a trip carries a non-zero time.
LEMMA MutatedWithinLimits ==
    ASSUME NEW o \in Ops, NEW s \in Snapshot, NEW t \in Nat \ {0}, WithinLimits(s)
    PROVE  WithinLimits(Mutated(o, s, t))
<1>. USE LimitsAreNat DEF Snapshot, WithinLimits, LimitHit, Disabled
<1>1. CASE o = "block"
  <2>1. CASE ~Disabled(s) /\ LimitHit(Bumped(s))
    BY <1>1, <2>1 DEF Mutated, Blocked
  <2>2. CASE ~(~Disabled(s) /\ LimitHit(Bumped(s)))
    BY <1>1, <2>2 DEF Mutated, Blocked, Bumped
  <2>. QED  BY <2>1, <2>2
<1>2. CASE o = "allow"
  BY <1>2 DEF Mutated, Allowed
<1>3. CASE o = "reset"
  BY <1>3 DEF Mutated, Zero
<1>. QED  BY <1>1, <1>2, <1>3 DEF Ops

\* A mutation clears the trip time, keeps it, or, from an armed record, sets
\* it to the time it runs at.
LEMMA MutatedTrip ==
    ASSUME NEW o \in Ops, NEW s \in Snapshot, NEW t \in Nat
    PROVE  \/ Mutated(o, s, t).disabledAt = 0
           \/ Mutated(o, s, t).disabledAt = s.disabledAt
           \/ ~Disabled(s) /\ Mutated(o, s, t).disabledAt = t
<1>1. CASE o = "block"
  BY <1>1 DEF Mutated, Snapshot, Blocked, Bumped, Disabled
<1>2. CASE o = "allow"
  BY <1>2 DEF Mutated, Snapshot, Allowed
<1>3. CASE o = "reset"
  BY <1>3 DEF Mutated, Zero
<1>. QED  BY <1>1, <1>2, <1>3 DEF Ops

LEMMA ZeroIsWithinLimits == Zero \in Snapshot /\ WithinLimits(Zero)
BY LimitsAreNat DEF Zero, Snapshot, WithinLimits, LimitHit, Disabled

-----------------------------------------------------------------------------

\* Decode and mutate, whether the read has worked or not.
Mutates(p) == Mutate(p) \/ Misread(p)

\* The initial state and every step of any client keep the types.
LEMMA StoreTypeInit == StoreInit => StoreTypeOK
BY FaultBoundIsNat DEF StoreInit, StoreTypeOK, FileStates, PCs, Ops, Snapshot, Zero

LEMMA StoreTypeStep == StoreTypeOK /\ [StoreNext]_storeVars => StoreTypeOK'
<1>. SUFFICES ASSUME StoreTypeOK, [StoreNext]_storeVars PROVE StoreTypeOK'
  OBVIOUS
<1>. USE ZeroIsWithinLimits DEF StoreTypeOK, FileStates, PCs
<1>1. ASSUME NEW p \in Procs, NEW o \in Ops, OpenFile(p, o) PROVE StoreTypeOK'
  BY <1>1 DEF OpenFile, Goto
<1>2. ASSUME NEW p \in Procs, LockFile(p) PROVE StoreTypeOK'
  BY <1>2 DEF LockFile, Goto
<1>3. ASSUME NEW p \in Procs, Mutates(p) PROVE StoreTypeOK'
  <2>1. PICK s \in Snapshot : MutateFrom(p, s)
    BY <1>3 DEF Mutates, Mutate, Misread, Decoded
  <2>2. Mutated(op[p], s, now) \in Snapshot
    BY MutatedType
  <2>3. pc' \in [Procs -> PCs]
    BY <2>1 DEF MutateFrom, Goto
  <2>4. old' \in [Procs -> Snapshot] /\ new' \in [Procs -> Snapshot]
    BY <2>1, <2>2 DEF MutateFrom
  <2>5. now' \in Nat \ {0}
    BY <2>1 DEF MutateFrom
  <2>6. faults' \in 0..MaxFaults
    BY <1>3, FaultBoundIsNat DEF Mutates, Mutate, Misread
  <2>. QED  BY <2>1, <2>3, <2>4, <2>5, <2>6 DEF MutateFrom
<1>4. ASSUME NEW p \in Procs, Truncate(p) PROVE StoreTypeOK'
  <2>1. file' \in [state : FileStates, snap : Snapshot]
    BY <1>4 DEF Truncate
  <2>. QED  BY <1>4, <2>1 DEF Truncate, Goto
<1>5. ASSUME NEW p \in Procs, WriteFile(p) PROVE StoreTypeOK'
  <2>1. file' \in [state : FileStates, snap : Snapshot]
    BY <1>5 DEF WriteFile
  <2>2. old[p].disabledAt \in Nat
    BY DEF Snapshot
  <2>3. consumed' \subseteq Nat
    BY <1>5, <2>2 DEF WriteFile
  <2>. QED  BY <1>5, <2>1, <2>3 DEF WriteFile, Goto
<1>6. ASSUME NEW p \in Procs, UnlockFile(p) PROVE StoreTypeOK'
  BY <1>6 DEF UnlockFile, Close, Goto
<1>7. ASSUME NEW p \in Procs, IOError(p) PROVE StoreTypeOK'
  <2>1. file' \in [state : FileStates, snap : Snapshot]
    BY <1>7 DEF IOError
  <2>. QED  BY <1>7, <2>1, FaultBoundIsNat DEF IOError, Goto
<1>8. ASSUME NEW p \in Procs, Killed(p) PROVE StoreTypeOK'
  BY <1>8, FaultBoundIsNat DEF Killed, Close, Goto
<1>9. CASE Tick
  BY <1>9 DEF Tick
<1>10. CASE UNCHANGED storeVars
  BY <1>10 DEF storeVars
<1>11. ASSUME NEW p \in Procs, OpenFails(p) PROVE StoreTypeOK'
  BY <1>11, FaultBoundIsNat DEF OpenFails
<1>12. CASE ReadFails
  BY <1>12, FaultBoundIsNat DEF ReadFails
<1>. QED
  BY <1>1, <1>2, <1>3, <1>4, <1>5, <1>6, <1>7, <1>8, <1>9, <1>10, <1>11, <1>12
  DEF StoreNext, UpdateStep, Mutates

\* The store's variables keep their types under any client.
THEOREM StoreTypeCorrect == StoreSpec => []StoreTypeOK
<1>1. StoreInit => StoreTypeOK
  BY StoreTypeInit
<1>2. StoreTypeOK /\ [StoreNext]_storeVars => StoreTypeOK'
  BY StoreTypeStep
<1>. QED  BY <1>1, <1>2, PTL DEF StoreSpec

-----------------------------------------------------------------------------
(***************************************************************************)
(* Mutual exclusion.                                                       *)
(***************************************************************************)

\* Every step of any client keeps the flock with the process that is past
\* lockFile, whichever way it leaves update.
LEMMA LockStep == StoreTypeOK /\ LockInv /\ [StoreNext]_storeVars => LockInv'
<1>. SUFFICES ASSUME StoreTypeOK, LockInv, [StoreNext]_storeVars PROVE LockInv'
  OBVIOUS
<1>. USE NoProcIsNobody DEF StoreTypeOK, LockInv, Critical, PCs
<1>1. ASSUME NEW p \in Procs, NEW o \in Ops, OpenFile(p, o) PROVE LockInv'
  BY <1>1 DEF OpenFile, Goto
<1>2. ASSUME NEW p \in Procs, LockFile(p) PROVE LockInv'
  BY <1>2 DEF LockFile, LockFree, Goto
<1>3. ASSUME NEW p \in Procs, Mutates(p) PROVE LockInv'
  BY <1>3 DEF Mutates, Mutate, Misread, MutateFrom, Goto
<1>4. ASSUME NEW p \in Procs, Truncate(p) PROVE LockInv'
  BY <1>4 DEF Truncate, Goto
<1>5. ASSUME NEW p \in Procs, WriteFile(p) PROVE LockInv'
  BY <1>5 DEF WriteFile, Goto
<1>6. ASSUME NEW p \in Procs, UnlockFile(p) PROVE LockInv'
  BY <1>6 DEF UnlockFile, Close, Goto
<1>7. ASSUME NEW p \in Procs, IOError(p) PROVE LockInv'
  BY <1>7 DEF IOError, Goto
<1>8. ASSUME NEW p \in Procs, Killed(p) PROVE LockInv'
  BY <1>8 DEF Killed, Close, Goto
<1>9. CASE Tick
  BY <1>9 DEF Tick
<1>10. CASE UNCHANGED storeVars
  BY <1>10 DEF storeVars
<1>11. ASSUME NEW p \in Procs, OpenFails(p) PROVE LockInv'
  BY <1>11 DEF OpenFails
<1>12. CASE ReadFails
  BY <1>12 DEF ReadFails
<1>. QED
  BY <1>1, <1>2, <1>3, <1>4, <1>5, <1>6, <1>7, <1>8, <1>9, <1>10, <1>11, <1>12
  DEF StoreNext, UpdateStep, Mutates

-----------------------------------------------------------------------------
(***************************************************************************)
(* How the record moves: only a completed write changes it to a mutated    *)
(* record, and only a fault in the rewrite, or the rewrite of a record that *)
(* could not be read, changes it to zero.                                  *)
(***************************************************************************)

RecordMove ==
    \/ Record' = Record /\ consumed' = consumed
    \/ \E p \in Procs : WriteFile(p) /\ holder = p /\ Record = old[p] /\ Record' = new[p]
    \/ \E p \in Procs : /\ Truncate(p) /\ holder = p /\ old[p] = Zero /\ faults > 0
                         /\ Record' = Zero /\ consumed' = consumed
    \/ /\ Record' = Zero /\ faults' = faults + 1 /\ Pending' = 0
       /\ UNCHANGED <<now, consumed>>

LEMMA RecordMoves ==
    StoreTypeOK /\ LockInv /\ RewriteInv /\ [StoreNext]_storeVars => RecordMove
<1>. SUFFICES ASSUME StoreTypeOK, LockInv, RewriteInv, [StoreNext]_storeVars
              PROVE  RecordMove
  OBVIOUS
<1>. USE NoProcIsNobody DEF StoreTypeOK, LockInv, Critical, PCs, Record, Decoded, RecordMove
<1>1. ASSUME NEW p \in Procs, NEW o \in Ops, OpenFile(p, o) PROVE RecordMove
  BY <1>1 DEF OpenFile, Goto
<1>2. ASSUME NEW p \in Procs, LockFile(p) PROVE RecordMove
  BY <1>2 DEF LockFile, LockFree, Goto
<1>3. ASSUME NEW p \in Procs, Mutates(p) PROVE RecordMove
  BY <1>3 DEF Mutates, Mutate, Misread, MutateFrom, Goto
<1>4. ASSUME NEW p \in Procs, Truncate(p) PROVE RecordMove
  BY <1>4 DEF Truncate, Goto, RewriteInv, RewriteAt
<1>5. ASSUME NEW p \in Procs, WriteFile(p) PROVE RecordMove
  BY <1>5 DEF WriteFile, Goto
<1>6. ASSUME NEW p \in Procs, UnlockFile(p) PROVE RecordMove
  BY <1>6 DEF UnlockFile, Close, Goto
<1>7. ASSUME NEW p \in Procs, IOError(p) PROVE RecordMove
  BY <1>7 DEF IOError, Goto, RewriteInv, RewriteAt, Pending
<1>8. ASSUME NEW p \in Procs, Killed(p) PROVE RecordMove
  BY <1>8 DEF Killed, Close, Goto, RewriteInv, RewriteAt, Pending
<1>9. CASE Tick
  BY <1>9 DEF Tick
<1>10. CASE UNCHANGED storeVars
  BY <1>10 DEF storeVars
<1>11. ASSUME NEW p \in Procs, OpenFails(p) PROVE RecordMove
  BY <1>11 DEF OpenFails
<1>12. CASE ReadFails
  BY <1>12 DEF ReadFails
<1>. QED
  BY <1>1, <1>2, <1>3, <1>4, <1>5, <1>6, <1>7, <1>8, <1>9, <1>10, <1>11, <1>12
  DEF StoreNext, UpdateStep, Mutates

-----------------------------------------------------------------------------
(***************************************************************************)
(* A rewrite in progress holds what the file held.                         *)
(***************************************************************************)

\* The flock keeps every other process from changing the file between p's
\* decode and p's write.
LEMMA RewriteStep ==
    StoreTypeOK /\ LockInv /\ RewriteInv /\ [StoreNext]_storeVars => RewriteInv'
<1>. SUFFICES ASSUME StoreTypeOK, LockInv, RewriteInv, [StoreNext]_storeVars,
                     NEW q \in Procs
              PROVE  RewriteAt(q)'
  BY DEF RewriteInv
<1>. USE NoProcIsNobody DEF StoreTypeOK, LockInv, Critical, PCs, Decoded, RewriteInv, RewriteAt
<1>1. ASSUME NEW p \in Procs, NEW o \in Ops, OpenFile(p, o) PROVE RewriteAt(q)'
  BY <1>1 DEF OpenFile, Goto
<1>2. ASSUME NEW p \in Procs, LockFile(p) PROVE RewriteAt(q)'
  BY <1>2 DEF LockFile, LockFree, Goto
<1>3. ASSUME NEW p \in Procs, Mutates(p) PROVE RewriteAt(q)'
  <2>1. CASE q = p
    <3>1. new'[q] = Mutated(op'[q], old'[q], now) /\ now \in 1..now'
      BY <1>3, <2>1 DEF Mutates, Mutate, Misread, MutateFrom
    <3>2. pc'[q] # "write"
      BY <1>3, <2>1 DEF Mutates, Mutate, Misread, MutateFrom, Goto
    <3>3. old'[q] = Decoded' \/ (old'[q] = Zero /\ faults' > 0)
      BY <1>3, <2>1 DEF Mutates, Mutate, Misread, MutateFrom
    <3>. QED  BY <3>1, <3>2, <3>3
  <2>2. CASE q # p
    BY <1>3, <2>2 DEF Mutates, Mutate, Misread, MutateFrom, Goto
  <2>. QED  BY <2>1, <2>2
<1>4. ASSUME NEW p \in Procs, Truncate(p) PROVE RewriteAt(q)'
  BY <1>4 DEF Truncate, Goto
<1>5. ASSUME NEW p \in Procs, WriteFile(p) PROVE RewriteAt(q)'
  BY <1>5 DEF WriteFile, Goto
<1>6. ASSUME NEW p \in Procs, UnlockFile(p) PROVE RewriteAt(q)'
  BY <1>6 DEF UnlockFile, Close, Goto
<1>7. ASSUME NEW p \in Procs, IOError(p) PROVE RewriteAt(q)'
  BY <1>7 DEF IOError, Goto
<1>8. ASSUME NEW p \in Procs, Killed(p) PROVE RewriteAt(q)'
  BY <1>8 DEF Killed, Close, Goto
<1>9. CASE Tick
  BY <1>9 DEF Tick
<1>10. CASE UNCHANGED storeVars
  BY <1>10 DEF storeVars
<1>11. ASSUME NEW p \in Procs, OpenFails(p) PROVE RewriteAt(q)'
  BY <1>11 DEF OpenFails
<1>12. CASE ReadFails
  BY <1>12 DEF ReadFails
<1>. QED
  BY <1>1, <1>2, <1>3, <1>4, <1>5, <1>6, <1>7, <1>8, <1>9, <1>10, <1>11, <1>12
  DEF StoreNext, UpdateStep, Mutates

-----------------------------------------------------------------------------
(***************************************************************************)
(* Where the values a step leaves behind come from.                        *)
(***************************************************************************)

ValueMove ==
    /\ \/ Decoded' \in {Decoded, Zero}
       \/ \E p \in Procs : WriteFile(p) /\ Decoded' = new[p]
    /\ \A q \in Procs : old'[q] \in {old[q], Decoded, Zero}
    /\ \A q \in Procs : new'[q] \in {new[q], Zero} \/ Mutates(q)
    /\ now' \in {now, now + 1}

LEMMA ValueMoves == StoreTypeOK /\ [StoreNext]_storeVars => ValueMove
<1>. SUFFICES ASSUME StoreTypeOK, [StoreNext]_storeVars PROVE ValueMove
  OBVIOUS
<1>. USE DEF StoreTypeOK, Decoded, ValueMove
<1>1. ASSUME NEW p \in Procs, NEW o \in Ops, OpenFile(p, o) PROVE ValueMove
  BY <1>1 DEF OpenFile
<1>2. ASSUME NEW p \in Procs, LockFile(p) PROVE ValueMove
  BY <1>2 DEF LockFile
<1>3. ASSUME NEW p \in Procs, Mutates(p) PROVE ValueMove
  <2>. USE DEF Mutates, Mutate, Misread, MutateFrom
  <2>1. Decoded' = Decoded /\ now' \in {now, now + 1}
    BY <1>3
  <2>2. \A q \in Procs : q = p \/ (old'[q] = old[q] /\ new'[q] = new[q])
    BY <1>3
  <2>3. old'[p] \in {Decoded, Zero}
    BY <1>3
  <2>. QED  BY <1>3, <2>1, <2>2, <2>3
<1>4. ASSUME NEW p \in Procs, Truncate(p) PROVE ValueMove
  BY <1>4 DEF Truncate
<1>5. ASSUME NEW p \in Procs, WriteFile(p) PROVE ValueMove
  <2>1. Decoded' = new[p] /\ UNCHANGED <<old, new, now>>
    BY <1>5 DEF WriteFile
  <2>. QED  BY <1>5, <2>1
<1>6. ASSUME NEW p \in Procs, UnlockFile(p) PROVE ValueMove
  BY <1>6 DEF UnlockFile, Close
<1>7. ASSUME NEW p \in Procs, IOError(p) PROVE ValueMove
  BY <1>7 DEF IOError
<1>8. ASSUME NEW p \in Procs, Killed(p) PROVE ValueMove
  BY <1>8 DEF Killed, Close
<1>9. CASE Tick
  BY <1>9 DEF Tick
<1>10. CASE UNCHANGED storeVars
  BY <1>10 DEF storeVars
<1>11. ASSUME NEW p \in Procs, OpenFails(p) PROVE ValueMove
  BY <1>11 DEF OpenFails
<1>12. CASE ReadFails
  BY <1>12 DEF ReadFails
<1>. QED
  BY <1>1, <1>2, <1>3, <1>4, <1>5, <1>6, <1>7, <1>8, <1>9, <1>10, <1>11, <1>12
  DEF StoreNext, UpdateStep, Mutates

\* What a writer writes is a mutation of what it decoded.
LEMMA WritesMutated ==
    ASSUME StoreTypeOK, RewriteInv, NEW p \in Procs, pc[p] \in {"truncate", "write"}
    PROVE  \E t \in 1..now : t \in Nat \ {0} /\ new[p] = Mutated(op[p], old[p], t)
BY DEF StoreTypeOK, RewriteInv, RewriteAt

\* No step takes a record out of the limits.
LEMMA LimitsStep ==
    StoreTypeOK /\ RewriteInv /\ LimitsInv /\ [StoreNext]_storeVars => LimitsInv'
<1>. SUFFICES ASSUME StoreTypeOK, RewriteInv, LimitsInv, [StoreNext]_storeVars
              PROVE  LimitsInv'
  OBVIOUS
<1>1. ValueMove
  BY ValueMoves
<1>2. \A q \in Procs : WithinLimits(old'[q])
  BY <1>1, ZeroIsWithinLimits DEF ValueMove, LimitsInv
<1>3. ASSUME NEW p \in Procs, WriteFile(p), Decoded' = new[p]
      PROVE  WithinLimits(Decoded')
  <2>1. PICK t \in 1..now : t \in Nat \ {0} /\ new[p] = Mutated(op[p], old[p], t)
    BY <1>3, WritesMutated DEF WriteFile
  <2>2. op[p] \in Ops /\ old[p] \in Snapshot /\ WithinLimits(old[p])
    BY DEF StoreTypeOK, LimitsInv
  <2>3. WithinLimits(Mutated(op[p], old[p], t))
    BY <2>1, <2>2, MutatedWithinLimits
  <2>. QED  BY <1>3, <2>1, <2>3
<1>4. WithinLimits(Decoded')
  BY <1>1, <1>3, ZeroIsWithinLimits DEF ValueMove, LimitsInv
<1>. QED  BY <1>2, <1>4 DEF LimitsInv

-----------------------------------------------------------------------------
(***************************************************************************)
(* Trip times: all in the past, and none that was cleared is in use.       *)
(***************************************************************************)

\* What mutate makes of the trip time: it stays below the clock, and it is
\* zero, the record's own, or fresh.
LEMMA MutateTrip ==
    ASSUME StoreTypeOK, TripInv, NEW p \in Procs, Mutates(p)
    PROVE  /\ new'[p].disabledAt < now'
           /\ new'[p].disabledAt \in {0, Decoded.disabledAt, now}
<1>1. Decoded \in Snapshot /\ op[p] \in Ops /\ now \in Nat \ {0}
  BY ZeroIsWithinLimits DEF StoreTypeOK, Decoded
<1>2. PICK s \in {Decoded, Zero} : MutateFrom(p, s)
  BY DEF Mutates, Mutate, Misread
<1>3. s \in Snapshot /\ s.disabledAt \in {0, Decoded.disabledAt}
  BY <1>1, ZeroIsWithinLimits DEF Zero
<1>4. new'[p] = Mutated(op[p], s, now)
  BY <1>2 DEF MutateFrom, StoreTypeOK
<1>5. \/ new'[p].disabledAt = 0
      \/ new'[p].disabledAt = s.disabledAt
      \/ ~Disabled(s) /\ new'[p].disabledAt = now
  BY <1>1, <1>3, <1>4, MutatedTrip
<1>6. now' \in {now, now + 1} /\ Decoded.disabledAt < now
  BY <1>2 DEF MutateFrom, TripInv
<1>7. ~Disabled(s) /\ new'[p].disabledAt = now => now' = now + 1
  BY <1>1, <1>2, <1>4 DEF MutateFrom, Disabled
<1>8. Decoded.disabledAt \in Nat
  BY <1>1 DEF Snapshot
<1>. QED  BY <1>1, <1>3, <1>5, <1>6, <1>7, <1>8

\* Only mutate starts a rewrite.
LEMMA RewriteMoves ==
    ASSUME StoreTypeOK, [StoreNext]_storeVars, NEW q \in Procs,
           pc'[q] \in {"truncate", "write"}, ~Mutates(q)
    PROVE  pc[q] \in {"truncate", "write"}
<1>. USE DEF StoreTypeOK, Goto
<1>1. ASSUME NEW p \in Procs, NEW o \in Ops, OpenFile(p, o)
      PROVE  pc[q] \in {"truncate", "write"}
  BY <1>1 DEF OpenFile
<1>2. ASSUME NEW p \in Procs, OpenFails(p) \/ LockFile(p) \/ Mutates(p) \/ Truncate(p)
      PROVE  pc[q] \in {"truncate", "write"}
  BY <1>2 DEF OpenFails, LockFile, Mutates, Mutate, Misread, MutateFrom, Truncate
<1>3. ASSUME NEW p \in Procs, WriteFile(p) \/ UnlockFile(p) \/ IOError(p) \/ Killed(p)
      PROVE  pc[q] \in {"truncate", "write"}
  BY <1>3 DEF WriteFile, UnlockFile, IOError, Killed, Close
<1>4. CASE ReadFails \/ Tick \/ UNCHANGED storeVars
  BY <1>4 DEF ReadFails, Tick, storeVars
<1>. QED  BY <1>1, <1>2, <1>3, <1>4 DEF StoreNext, UpdateStep, Mutates

\* The steps that leave consumed alone or add the trip p's write clears.
LEMMA ConsumedMoves ==
    StoreTypeOK /\ [StoreNext]_storeVars =>
        \/ consumed' = consumed
        \/ \E p \in Procs : /\ WriteFile(p)
                             /\ Disabled(old[p]) /\ ~Disabled(new[p])
                             /\ consumed' = consumed \union {old[p].disabledAt}
BY DEF StoreNext, UpdateStep, OpenFile, OpenFails, ReadFails, LockFile, Mutate, Misread,
       MutateFrom, Truncate, WriteFile, UnlockFile, IOError, Killed, Tick, storeVars, Goto

\* No step uses a trip time from the future or one that was cleared.
LEMMA TripStep ==
    StoreTypeOK /\ LockInv /\ RewriteInv /\ TripInv /\ [StoreNext]_storeVars => TripInv'
<1>. SUFFICES ASSUME StoreTypeOK, LockInv, RewriteInv, TripInv, [StoreNext]_storeVars
              PROVE  TripInv'
  OBVIOUS
<1>1. ValueMove /\ RecordMove
  BY ValueMoves, RecordMoves
<1>2. /\ now \in Nat \ {0} /\ now' \in {now, now + 1}
      /\ Decoded \in Snapshot
      /\ \A q \in Procs : old[q] \in Snapshot /\ new[q] \in Snapshot
  BY <1>1, ZeroIsWithinLimits DEF ValueMove, StoreTypeOK, Decoded
<1>3. Zero.disabledAt = 0
  BY DEF Zero
<1>4. \A s \in Snapshot : s.disabledAt \in Nat
  BY DEF Snapshot
<1>5. Decoded'.disabledAt < now'
  <2>1. CASE Decoded' \in {Decoded, Zero}
    BY <1>2, <1>3, <1>4, <2>1 DEF TripInv
  <2>2. CASE \E p \in Procs : WriteFile(p) /\ Decoded' = new[p]
    BY <1>2, <1>4, <2>2 DEF TripInv
  <2>. QED  BY <1>1, <2>1, <2>2 DEF ValueMove
<1>6. ASSUME NEW q \in Procs
      PROVE  old'[q].disabledAt < now' /\ new'[q].disabledAt < now'
  <2>1. old'[q] \in {old[q], Decoded, Zero}
    BY <1>1 DEF ValueMove
  <2>2. old'[q].disabledAt < now'
    BY <2>1, <1>2, <1>3, <1>4 DEF TripInv
  <2>3. CASE new'[q] \in {new[q], Zero}
    <3>1. new'[q].disabledAt < now'
      BY <2>3, <1>2, <1>3, <1>4 DEF TripInv
    <3>. QED  BY <2>2, <3>1
  <2>4. CASE Mutates(q)
    BY <2>2, <2>4, MutateTrip
  <2>. QED  BY <1>1, <2>3, <2>4 DEF ValueMove
<1>7. \A c \in consumed' : 0 < c /\ c < now'
  <2>1. CASE consumed' = consumed
    BY <1>2, <2>1 DEF TripInv, StoreTypeOK
  <2>2. CASE \E p \in Procs : /\ WriteFile(p)
                              /\ Disabled(old[p]) /\ ~Disabled(new[p])
                              /\ consumed' = consumed \union {old[p].disabledAt}
    <3>1. PICK p \in Procs : /\ Disabled(old[p])
                             /\ consumed' = consumed \union {old[p].disabledAt}
      BY <2>2
    <3>2. 0 < old[p].disabledAt /\ old[p].disabledAt < now /\ old[p].disabledAt \in Nat
      BY <1>2, <1>4, <3>1 DEF TripInv, Disabled
    <3>. QED  BY <1>2, <3>1, <3>2 DEF TripInv, StoreTypeOK
  <2>. QED  BY <2>1, <2>2, ConsumedMoves
<1>8. Record'.disabledAt \notin consumed'
  <2>1. CASE Record' = Record /\ consumed' = consumed
    BY <2>1 DEF TripInv
  <2>2. ASSUME NEW p \in Procs, WriteFile(p), Record' = new[p]
        PROVE  Record'.disabledAt \notin consumed'
    <3>1. new[p].disabledAt \notin consumed
      BY <2>2 DEF TripInv, WriteFile
    <3>2. CASE Disabled(old[p]) /\ ~Disabled(new[p])
      <4>1. Record'.disabledAt = 0
        BY <2>2, <3>2 DEF Disabled
      <4>. QED  BY <4>1, <1>7
    <3>3. CASE ~(Disabled(old[p]) /\ ~Disabled(new[p]))
      BY <2>2, <3>1, <3>3 DEF WriteFile
    <3>. QED  BY <3>2, <3>3
  <2>3. CASE Record' = Zero /\ consumed' = consumed
    BY <2>3, <1>3, <1>7
  <2>. QED  BY <1>1, <2>1, <2>2, <2>3 DEF RecordMove
<1>9. ASSUME NEW q \in Procs, pc'[q] \in {"truncate", "write"}
      PROVE  new'[q].disabledAt \notin consumed'
  <2>1. CASE Mutates(q)
    <3>1. consumed' = consumed /\ Decoded = Record
      BY <2>1 DEF Mutates, Mutate, Misread, MutateFrom, LockInv, Critical, Record
    <3>2. 0 \notin consumed /\ now \notin consumed /\ Decoded.disabledAt \notin consumed
      BY <1>2, <3>1 DEF TripInv
    <3>. QED  BY <2>1, <3>1, <3>2, MutateTrip
  <2>2. CASE ~Mutates(q)
    <3>1. new'[q] \in {new[q], Zero}
      BY <1>1, <2>2 DEF ValueMove
    <3>2. CASE new'[q] = Zero
      BY <3>2, <1>3, <1>7
    <3>3. CASE new'[q] = new[q]
      <4>1. pc[q] \in {"truncate", "write"}
        BY <1>9, <2>2, RewriteMoves
      <4>2. ASSUME NEW p \in Procs, WriteFile(p) PROVE FALSE
        <5>1. pc[p] = "write" /\ pc'[p] = "unlock"
          BY <4>2 DEF WriteFile, Goto, StoreTypeOK
        <5>2. p = q
          BY <4>1, <5>1 DEF LockInv, Critical
        <5>. QED  BY <5>1, <5>2, <1>9
      <4>3. consumed' = consumed
        BY <4>2, ConsumedMoves
      <4>. QED  BY <3>3, <4>1, <4>3 DEF TripInv
    <3>. QED  BY <3>1, <3>2, <3>3
  <2>. QED  BY <2>1, <2>2
<1>. QED  BY <1>5, <1>6, <1>7, <1>8, <1>9 DEF TripInv

-----------------------------------------------------------------------------
(***************************************************************************)
(* The inductive invariant and what follows from it.                       *)
(***************************************************************************)

\* The first state, and every step of any client, satisfy the invariant.
LEMMA StoreInvInit == StoreInit => StoreInv
<1>. SUFFICES ASSUME StoreInit PROVE StoreInv
  OBVIOUS
<1>1. StoreTypeOK
  BY StoreTypeInit
<1>2. LockInv /\ RewriteInv
  BY NoProcIsNobody DEF StoreInit, LockInv, Critical, RewriteInv, RewriteAt
<1>3. LimitsInv
  BY ZeroIsWithinLimits DEF StoreInit, LimitsInv, Decoded
<1>4. TripInv
  BY DEF StoreInit, TripInv, Decoded, Record, Zero
<1>. QED  BY <1>1, <1>2, <1>3, <1>4 DEF StoreInv

LEMMA StoreInvStep == StoreInv /\ [StoreNext]_storeVars => StoreInv'
BY StoreTypeStep, LockStep, RewriteStep, LimitsStep, TripStep DEF StoreInv

LEMMA StoreInvCorrect == StoreSpec => []StoreInv
BY StoreInvInit, StoreInvStep, PTL DEF StoreSpec

\* The record is one the mutations can build, whatever the interleaving and
\* the faults: state.Store keeps an armed session below both limits.
THEOREM RecordStaysWithinLimits == StoreSpec => []RecordWithinLimits
<1>1. StoreInv => RecordWithinLimits
  BY DEF StoreInv, LimitsInv, LockInv, Critical, StoreTypeOK, RecordWithinLimits, Record
<1>. QED  BY <1>1, StoreInvCorrect, PTL

\* A trip that a completed Reset has cleared never comes back.
THEOREM ConsumedTripsNeverReturn == StoreSpec => []ConsumedTripsStayCleared
<1>1. StoreInv => ConsumedTripsStayCleared
  BY DEF StoreInv, TripInv, ConsumedTripsStayCleared
<1>. QED  BY <1>1, StoreInvCorrect, PTL

\* A trip keeps its time until it is cleared.
THEOREM TripTimeIsFixed == StoreSpec => TripTimeSticks
<1>1. StoreInv /\ [StoreNext]_storeVars =>
          [Disabled(Record) /\ Disabled(Record)' => UNCHANGED Record.disabledAt]_storeVars
  <2>. SUFFICES ASSUME StoreInv, [StoreNext]_storeVars, Disabled(Record), Disabled(Record)'
                PROVE  Record'.disabledAt = Record.disabledAt
    OBVIOUS
  <2>1. RecordMove
    BY RecordMoves DEF StoreInv
  <2>2. ASSUME NEW p \in Procs, WriteFile(p), Record = old[p], Record' = new[p]
        PROVE  Record'.disabledAt = Record.disabledAt
    <3>1. PICK t \in 1..now : t \in Nat \ {0} /\ new[p] = Mutated(op[p], old[p], t)
      BY <2>2, WritesMutated DEF WriteFile, StoreInv
    <3>2. op[p] \in Ops /\ old[p] \in Snapshot
      BY DEF StoreInv, StoreTypeOK
    <3>. QED  BY <2>2, <3>1, <3>2, MutatedTrip DEF Disabled
  <2>3. CASE Record' = Zero
    BY <2>3 DEF Disabled, Zero
  <2>. QED  BY <2>1, <2>2, <2>3 DEF RecordMove
<1>. QED  BY <1>1, StoreInvCorrect, PTL DEF StoreSpec, TripTimeSticks

-----------------------------------------------------------------------------
(***************************************************************************)
(* The refinement: each step of the store is a step of SessionCounters.    *)
(***************************************************************************)

LEMMA SameMutation ==
    \A o, s, t : Counters!Mutated(o, s, t) = Mutated(o, s, t)
BY DEF Mutated, Blocked, Allowed, Bumped, LimitHit, Disabled, Zero,
       Counters!Mutated, Counters!Blocked, Counters!Allowed, Counters!Bumped,
       Counters!LimitHit, Counters!Disabled, Counters!Zero

\* A step may move the clock on by one and may count one fault.
LEMMA ClockMoves ==
    ASSUME [StoreNext]_storeVars
    PROVE  now' \in {now, now + 1} /\ faults' \in {faults, faults + 1}
BY DEF StoreNext, UpdateStep, OpenFile, OpenFails, ReadFails, LockFile, Mutate, Misread,
       MutateFrom, Truncate, WriteFile, UnlockFile, IOError, Killed, Tick, storeVars

\* Only a failing read leaves a rewrite behind that will lose the record, and
\* only its own truncation, or a further fault, ends that.
LEMMA PendingMoves ==
    ASSUME StoreInv, [StoreNext]_storeVars, faults' = faults
    PROVE  \/ Pending' = Pending
           \/ \E p \in Procs : Truncate(p) /\ Pending = 1 /\ Pending' = 0
<1>. USE NoProcIsNobody
     DEF StoreInv, StoreTypeOK, LockInv, Critical, PCs, Pending, Decoded, Goto
<1>1. ASSUME NEW p \in Procs, NEW o \in Ops, OpenFile(p, o) PROVE Pending' = Pending
  BY <1>1 DEF OpenFile
<1>2. ASSUME NEW p \in Procs, LockFile(p) PROVE Pending' = Pending
  BY <1>2 DEF LockFile, LockFree
<1>3. ASSUME NEW p \in Procs, Mutate(p) PROVE Pending' = Pending
  <2>1. holder = p /\ holder' = p /\ Pending = 0
    BY <1>3 DEF Mutate, MutateFrom
  <2>2. old'[p] = Decoded'
    BY <1>3 DEF Mutate, MutateFrom
  <2>. QED  BY <2>1, <2>2
<1>4. ASSUME NEW p \in Procs, Truncate(p) PROVE Pending \in {0, 1} /\ Pending' = 0
  BY <1>4 DEF Truncate
<1>5. ASSUME NEW p \in Procs, WriteFile(p) PROVE Pending' = Pending
  BY <1>5 DEF WriteFile
<1>6. ASSUME NEW p \in Procs, UnlockFile(p) PROVE Pending' = Pending
  BY <1>6 DEF UnlockFile, Close
<1>7. CASE Tick \/ UNCHANGED storeVars
  BY <1>7 DEF Tick, storeVars
<1>8. ASSUME NEW p \in Procs
      PROVE  ~OpenFails(p) /\ ~ReadFails /\ ~Misread(p) /\ ~IOError(p) /\ ~Killed(p)
  BY DEF OpenFails, ReadFails, Misread, IOError, Killed
<1>9. ~ReadFails
  BY DEF ReadFails
<1>. QED
  BY <1>1, <1>2, <1>3, <1>4, <1>5, <1>6, <1>7, <1>8, <1>9 DEF StoreNext, UpdateStep

\* The locked read-modify-write of the store's processes implements one
\* atomic record: WriteFile is the mutation, a fault may lose the record
\* when it happens or, a failing read, when the rewrite truncates the file;
\* every other step is invisible.
THEOREM StoreImplementsCounters == StoreSpec => StoreIsAtomic
<1>1. StoreInit => Counters!CountersInit
  BY DEF StoreInit, Counters!CountersInit, Counters!Zero, Record, Decoded, Zero,
         Pending
<1>2. StoreInv /\ [StoreNext]_storeVars => [Counters!CountersNext]_(Counters!cvars)
  <2>. SUFFICES ASSUME StoreInv, [StoreNext]_storeVars
                PROVE  [Counters!CountersNext]_(Counters!cvars)
    OBVIOUS
  <2>. USE DEF Counters!CountersNext, Counters!cvars
  <2>1. RecordMove
    BY RecordMoves DEF StoreInv
  <2>2. /\ now \in Nat /\ now' \in {now, now + 1}
        /\ faults \in Nat /\ faults' \in {faults, faults + 1}
        /\ Pending \in {0, 1} /\ Pending' \in {0, 1}
    BY ClockMoves DEF StoreInv, StoreTypeOK, Pending
  <2>3. CASE faults' = faults /\ Pending' = Pending /\ Record' = Record
    BY <2>2, <2>3 DEF Counters!Elapse
  <2>4. CASE faults' = faults + 1 /\ Record' = Record
    <3>1. CASE Pending = 0 /\ Pending' = 1
      BY <2>2, <2>4, <3>1 DEF Counters!Elapse
    <3>2. CASE Pending' = Pending
      BY <2>2, <2>4, <3>2 DEF Counters!Fault
    <3>3. CASE Pending = 1 /\ Pending' = 0
      BY <2>2, <2>4, <3>3 DEF Counters!Fault
    <3>. QED  BY <2>2, <3>1, <3>2, <3>3
  <2>5. ASSUME NEW p \in Procs, WriteFile(p), holder = p, Record = old[p], Record' = new[p]
        PROVE  Counters!CountersNext
    <3>1. PICK t \in 1..now : new[p] = Mutated(op[p], old[p], t)
      BY <2>5, WritesMutated DEF WriteFile, StoreInv
    <3>2. op[p] \in Counters!Ops
      BY DEF StoreInv, StoreTypeOK, Ops, Counters!Ops
    <3>3. Record' = Counters!Mutated(op[p], Record, t)
      BY <2>5, <3>1, SameMutation
    <3>4. Pending = 0 /\ Pending' = 0
      BY <2>5 DEF WriteFile, Goto, Pending, StoreInv, StoreTypeOK
    <3>5. Counters!Apply(op[p])
      BY <2>5, <3>3, <3>4 DEF Counters!Apply, WriteFile
    <3>. QED  BY <3>2, <3>5
  <2>6. ASSUME Pending = 1, Pending' = 0, UNCHANGED <<now, faults>>, Record' \in {Record, Zero}
        PROVE  Counters!CountersNext
    BY <2>2, <2>6 DEF Counters!Fault, Counters!Zero, Zero
  <2>7. ASSUME NEW p \in Procs, Truncate(p) PROVE Pending' = 0 /\ UNCHANGED <<now, faults>>
    BY <2>7, NoProcIsNobody DEF Truncate, Goto, Pending, StoreInv, StoreTypeOK, LockInv, Critical
  <2>8. CASE Record' = Record
    <3>1. CASE faults' = faults
      BY <2>3, <2>6, <2>7, <2>8, <3>1, PendingMoves
    <3>. QED  BY <2>2, <2>4, <2>8, <3>1
  <2>9. ASSUME NEW p \in Procs, Truncate(p), holder = p, old[p] = Zero, Record' = Zero
        PROVE  [Counters!CountersNext]_(Counters!cvars)
    <3>1. Record = Decoded /\ (Decoded # Zero => Pending = 1)
      BY <2>9, NoProcIsNobody DEF Truncate, Record, Pending
    <3>. QED  BY <2>6, <2>7, <2>8, <2>9, <3>1
  <2>10. CASE Record' = Zero /\ faults' = faults + 1 /\ Pending' = 0 /\ UNCHANGED now
    BY <2>2, <2>10 DEF Counters!Fault, Counters!Zero, Zero
  <2>. QED  BY <2>1, <2>5, <2>8, <2>9, <2>10 DEF RecordMove
<1>. QED  BY <1>1, <1>2, StoreInvCorrect, PTL DEF StoreSpec, StoreIsAtomic, Counters!CountersSpec

-----------------------------------------------------------------------------
(***************************************************************************)
(* Every step of a hook process is a step of the store or leaves it alone. *)
(***************************************************************************)

LEMMA BackstopStoreStep == [Next]_vars => [StoreNext]_storeVars
<1>. SUFFICES ASSUME [Next]_vars PROVE StoreNext \/ UNCHANGED storeVars
  BY DEF storeVars
<1>1. ASSUME NEW p \in Procs,
             StartCall(p) \/ CheckBackstop(p) \/ AfterReset(p) \/ Judge(p)
             \/ Unavailable(p) \/ AfterRecord(p)
      PROVE  UNCHANGED storeVars
  BY <1>1 DEF StartCall, CheckBackstop, AfterReset, Judge, Unavailable, AfterRecord
<1>2. ASSUME NEW p \in Procs, ResetTrip(p) \/ RecordVerdict(p) PROVE StoreNext
  BY <1>2 DEF ResetTrip, RecordVerdict, StoreNext, Ops
<1>3. ASSUME NEW p \in Procs,
             Update(p) \/ GetFails(p) \/ OpenError(p) \/ UpdateFails(p) \/ Die(p)
      PROVE  StoreNext
  BY <1>3 DEF Update, GetFails, OpenError, UpdateFails, Die, StoreNext
<1>4. CASE ClockTick
  BY <1>4 DEF ClockTick, StoreNext
<1>5. CASE UNCHANGED vars
  BY <1>5 DEF vars
<1>. QED  BY <1>1, <1>2, <1>3, <1>4, <1>5 DEF Next, Step

\* The hook processes are clients of the store, and nothing else.
THEOREM BackstopUsesStore == Spec => StoreSpec
<1>1. Init => StoreInit
  BY DEF Init
<1>. QED  BY <1>1, BackstopStoreStep, PTL DEF Spec, StoreSpec

\* In the running classifier too, no count is lost between the processes of
\* a session: the store is one atomic record.
THEOREM BackstopCountsAtomically == Spec => StoreIsAtomic
BY BackstopUsesStore, StoreImplementsCounters, PTL

\* In the running classifier too, the record stays within its limits.
THEOREM BackstopWithinLimits == Spec => []RecordWithinLimits
BY BackstopUsesStore, RecordStaysWithinLimits, PTL

\* In the running classifier too, a trip that was cleared stays cleared.
THEOREM BackstopTripsStayCleared == Spec => []ConsumedTripsStayCleared
BY BackstopUsesStore, ConsumedTripsNeverReturn, PTL

-----------------------------------------------------------------------------
(***************************************************************************)
(* Types.                                                                  *)
(***************************************************************************)

LEMMA BackstopTypeInit == Init => TypeOK
BY StoreTypeInit, KnobsAreLegal, ZeroIsWithinLimits DEF Init, TypeOK, Phases, Votes

LEMMA BackstopTypeStep == TypeOK /\ [Next]_vars => TypeOK'
<1>. SUFFICES ASSUME TypeOK, [Next]_vars PROVE TypeOK'
  OBVIOUS
<1>1. StoreTypeOK'
  BY BackstopStoreStep, StoreTypeStep DEF TypeOK
<1>. USE <1>1, KnobsAreLegal, ZeroIsWithinLimits DEF TypeOK, Phases, Votes, Enter, Vote
<1>2. ASSUME NEW p \in Procs, StartCall(p) PROVE TypeOK'
  BY <1>2 DEF StartCall
<1>3. ASSUME NEW p \in Procs, CheckBackstop(p) PROVE TypeOK'
  <2>1. Decoded \in Snapshot
    BY DEF Decoded, StoreTypeOK
  <2>. QED  BY <1>3, <2>1 DEF CheckBackstop
<1>4. ASSUME NEW p \in Procs, ResetTrip(p) \/ RecordVerdict(p) PROVE TypeOK'
  BY <1>4 DEF ResetTrip, RecordVerdict
<1>5. ASSUME NEW p \in Procs, AfterReset(p) PROVE TypeOK'
  <2>1. seen[p].disabledAt \in Nat
    BY DEF Snapshot
  <2>. QED  BY <1>5, <2>1 DEF AfterReset
<1>6. ASSUME NEW p \in Procs, Judge(p) PROVE TypeOK'
  BY <1>6 DEF Judge
<1>7. ASSUME NEW p \in Procs, Unavailable(p) \/ AfterRecord(p) PROVE TypeOK'
  BY <1>7 DEF Unavailable, AfterRecord
<1>8. ASSUME NEW p \in Procs, GetFails(p) \/ OpenError(p) \/ Die(p) PROVE TypeOK'
  BY <1>8 DEF GetFails, OpenError, Die
<1>9. ASSUME NEW p \in Procs, Update(p) \/ UpdateFails(p) PROVE TypeOK'
  BY <1>9 DEF Update, UpdateFails, callVars
<1>10. CASE ClockTick \/ UNCHANGED vars
  BY <1>10 DEF ClockTick, vars, callVars
<1>. QED
  BY <1>2, <1>3, <1>4, <1>5, <1>6, <1>7, <1>8, <1>9, <1>10 DEF Next, Step

\* The classifier's variables keep their types.
THEOREM BackstopTypeCorrect == Spec => []TypeOK
BY BackstopTypeInit, BackstopTypeStep, PTL DEF Spec

-----------------------------------------------------------------------------
(***************************************************************************)
(* A process does not ask twice for one trip.                              *)
(***************************************************************************)

LEMMA BackstopInvInit == Init => BackstopInv
BY StoreInvInit, BackstopTypeInit DEF Init, BackstopInv, AskInv, ResetAt, Resetting

\* Without a fault, a trip on record stays there until it is counted as cleared.
LEMMA TripsAreCleared ==
    ASSUME StoreInv, [StoreNext]_storeVars, faults' = 0, NEW d \in Nat \ {0},
           d \in consumed \union {Record.disabledAt}
    PROVE  d \in consumed' \union {Record'.disabledAt}
<1>1. consumed \subseteq consumed'
  BY ConsumedMoves DEF StoreInv
<1>2. RecordMove
  BY RecordMoves DEF StoreInv
<1>3. ASSUME NEW p \in Procs, WriteFile(p), Record = old[p], Record' = new[p],
             d = old[p].disabledAt
      PROVE  d \in consumed' \union {Record'.disabledAt}
  <2>1. PICK t \in 1..now : t \in Nat \ {0} /\ new[p] = Mutated(op[p], old[p], t)
    BY <1>3, WritesMutated DEF WriteFile, StoreInv
  <2>2. op[p] \in Ops /\ old[p] \in Snapshot
    BY DEF StoreInv, StoreTypeOK
  <2>3. new[p].disabledAt = 0 \/ new[p].disabledAt = d
    BY <1>3, <2>1, <2>2, MutatedTrip DEF Disabled
  <2>. QED  BY <1>3, <2>3 DEF WriteFile, Disabled
<1>4. faults' # faults + 1
  BY DEF StoreInv, StoreTypeOK
<1>5. ~(\E p \in Procs : Truncate(p) /\ faults > 0)
  BY DEF Truncate, StoreInv, StoreTypeOK
<1>. QED  BY <1>1, <1>2, <1>3, <1>4, <1>5 DEF RecordMove

\* What Get reads while the session is tripped is the record itself.
LEMMA TrippedReadIsRecord ==
    ASSUME StoreInv, Disabled(Decoded)
    PROVE  Record = Decoded /\ Decoded.disabledAt \notin consumed
<1>1. Record = Decoded
  BY NoProcIsNobody
  DEF StoreInv, StoreTypeOK, RewriteInv, RewriteAt, Record, Decoded, Disabled, Zero
<1>. QED  BY <1>1 DEF StoreInv, TripInv

\* p's own update, when it is the Reset, hands the trip from the record
\* through old[p] to consumed.
LEMMA ResetStep ==
    ASSUME BackstopInv, [Next]_vars, faults = 0, faults' = 0,
           NEW p \in Procs, Update(p), phase[p] = "resetting"
    PROVE  /\ pc'[p] \in {"truncate", "write"} =>
                 seen[p].disabledAt \in consumed' \union {old'[p].disabledAt}
           /\ pc'[p] \in {"unlock", "idle"} => seen[p].disabledAt \in consumed'
<1>. DEFINE trip == seen[p].disabledAt
<1>1. /\ op[p] = "reset"
      /\ trip # 0
      /\ trip \in consumed \union {Record.disabledAt}
      /\ pc[p] \in {"truncate", "write"} => trip \in consumed \union {old[p].disabledAt}
      /\ pc[p] \in {"unlock", "idle"} => trip \in consumed
  BY DEF BackstopInv, AskInv, ResetAt, Resetting, Disabled
<1>2. StoreInv /\ StoreTypeOK
  BY DEF BackstopInv, StoreInv
<1>. USE DEF StoreTypeOK, Goto
<1>3. CASE LockFile(p)
  BY <1>2, <1>3 DEF LockFile
<1>4. CASE Mutate(p)
  <2>1. Record = Decoded
    BY <1>2, <1>4 DEF Mutate, MutateFrom, Record, LockInv, Critical, StoreInv
  <2>2. old'[p] = Decoded /\ consumed' = consumed
    BY <1>2, <1>4 DEF Mutate, MutateFrom
  <2>3. ~Changes("reset", Decoded) => trip \in consumed
    BY <1>1, <2>1 DEF Changes, Zero
  <2>4. pc'[p] = IF Changes("reset", Decoded) THEN "truncate" ELSE "unlock"
    BY <1>1, <1>2, <1>4 DEF Mutate, MutateFrom
  <2>. QED  BY <1>1, <2>1, <2>2, <2>3, <2>4
<1>5. CASE Truncate(p)
  BY <1>1, <1>2, <1>5 DEF Truncate
<1>6. CASE WriteFile(p)
  <2>1. new[p] = Zero
    BY <1>1, <1>2, <1>6, WritesMutated DEF WriteFile, StoreInv, Mutated
  <2>2. trip \in consumed'
    BY <1>1, <1>6, <2>1 DEF WriteFile, Disabled, Zero
  <2>. QED  BY <1>2, <1>6, <2>2 DEF WriteFile
<1>7. CASE UnlockFile(p)
  BY <1>1, <1>2, <1>7 DEF UnlockFile, Close
<1>. QED  BY <1>3, <1>4, <1>5, <1>6, <1>7 DEF Update, UpdateStep

\* Without a fault, every step keeps each seen trip accounted for.
LEMMA ResetAtStep ==
    ASSUME BackstopInv, [Next]_vars, faults = 0, faults' = 0, NEW q \in Procs
    PROVE  ResetAt(q)'
<1>1. StoreInv /\ TypeOK /\ [StoreNext]_storeVars /\ ResetAt(q)
  BY BackstopStoreStep DEF BackstopInv, AskInv
<1>2. consumed \subseteq consumed'
  BY <1>1, ConsumedMoves DEF StoreInv
<1>3. Resetting(q) => seen[q].disabledAt \in consumed' \union {Record'.disabledAt}
  <2>1. seen[q].disabledAt \in Nat
    BY <1>1 DEF TypeOK, Snapshot
  <2>. QED  BY <1>1, <2>1, TripsAreCleared DEF ResetAt, Disabled
<1>. USE <1>2, <1>3 DEF TypeOK, StoreTypeOK, Phases, PCs, Enter, Goto, Resetting
<1>4. ASSUME NEW p \in Procs, StartCall(p) \/ Judge(p) \/ Unavailable(p) \/ AfterRecord(p)
      PROVE  ResetAt(q)'
  BY <1>1, <1>4 DEF StartCall, Judge, Unavailable, AfterRecord, Vote, ResetAt, storeVars
<1>5. ASSUME NEW p \in Procs, CheckBackstop(p) PROVE ResetAt(q)'
  <2>1. UNCHANGED storeVars /\ asked' = asked /\ Record' = Record
    BY <1>5 DEF CheckBackstop, storeVars, Record, Decoded
  <2>2. CASE q = p /\ Disabled(Decoded)
    <3>1. phase'[q] = "tripped" /\ seen'[q] = Decoded
      BY <1>1, <1>5, <2>2 DEF CheckBackstop
    <3>2. Record = Decoded /\ Decoded.disabledAt \notin consumed
      BY <1>1, <2>2, TrippedReadIsRecord
    <3>3. <<q, Decoded.disabledAt>> \notin asked
      BY <3>2 DEF BackstopInv, AskInv
    <3>. QED  BY <2>1, <2>2, <3>1, <3>2, <3>3 DEF ResetAt, storeVars
  <2>3. CASE ~(q = p /\ Disabled(Decoded))
    <3>1. \/ ~Resetting(q)' /\ phase'[q] # "resetting"
          \/ phase'[q] = phase[q] /\ seen'[q] = seen[q]
      BY <1>1, <1>5, <2>3 DEF CheckBackstop
    <3>. QED  BY <1>1, <2>1, <3>1 DEF ResetAt, storeVars
  <2>. QED  BY <2>2, <2>3
<1>6. ASSUME NEW p \in Procs, AfterReset(p) PROVE ResetAt(q)'
  <2>1. UNCHANGED storeVars /\ Record' = Record
    BY <1>6 DEF AfterReset, storeVars, Record, Decoded
  <2>2. asked' \in {asked, asked \union {<<p, seen[p].disabledAt>>}}
    BY <1>6 DEF AfterReset
  <2>3. CASE q = p
    BY <1>1, <1>6, <2>3 DEF AfterReset, Vote, ResetAt
  <2>4. CASE q # p
    <3>1. phase'[q] = phase[q] /\ seen'[q] = seen[q]
      BY <1>1, <1>6, <2>4 DEF AfterReset, Vote
    <3>. QED  BY <1>1, <2>1, <2>2, <2>4, <3>1 DEF ResetAt, storeVars
  <2>. QED  BY <2>3, <2>4
<1>7. ASSUME NEW p \in Procs, ResetTrip(p) \/ RecordVerdict(p) PROVE ResetAt(q)'
  <2>1. UNCHANGED <<old, consumed, seen, asked>>
    BY <1>7 DEF ResetTrip, RecordVerdict, OpenFile
  <2>2. CASE q = p
    <3>1. pc'[q] = "lock" /\ (phase'[q] = "resetting" => op'[q] = "reset")
      BY <1>1, <1>7, <2>2 DEF ResetTrip, RecordVerdict, OpenFile
    <3>2. Resetting(q)' => Resetting(q)
      BY <1>1, <1>7, <2>2 DEF ResetTrip, RecordVerdict
    <3>. QED  BY <1>1, <2>1, <3>1, <3>2 DEF ResetAt
  <2>3. CASE q # p
    <3>1. phase'[q] = phase[q] /\ op'[q] = op[q] /\ pc'[q] = pc[q]
      BY <1>1, <1>7, <2>3 DEF ResetTrip, RecordVerdict, OpenFile
    <3>. QED  BY <1>1, <2>1, <3>1 DEF ResetAt
  <2>. QED  BY <2>2, <2>3
<1>8. ASSUME NEW p \in Procs, Update(p) PROVE ResetAt(q)'
  <2>1. UNCHANGED <<op, seen, asked, phase>>
    BY <1>8 DEF Update, UpdateStep, callVars, LockFile, Mutate, MutateFrom, Truncate, WriteFile, UnlockFile
  <2>2. CASE q = p
    BY <1>1, <1>8, <2>1, <2>2, ResetStep DEF ResetAt
  <2>3. CASE q # p
    <3>1. pc'[q] = pc[q] /\ old'[q] = old[q]
      BY <1>1, <1>8, <2>3
      DEF Update, UpdateStep, LockFile, Mutate, MutateFrom, Truncate, WriteFile, UnlockFile,
          Close
    <3>. QED  BY <1>1, <2>1, <3>1 DEF ResetAt
  <2>. QED  BY <2>2, <2>3
<1>9. ASSUME NEW p \in Procs, GetFails(p) \/ OpenError(p) \/ UpdateFails(p) \/ Die(p)
      PROVE  ResetAt(q)'
  BY <1>9
  DEF GetFails, OpenError, UpdateFails, Die, ReadFails, OpenFails, Misread, IOError, Killed
<1>10. CASE ClockTick \/ UNCHANGED vars
  BY <1>1, <1>10 DEF ClockTick, Tick, vars, storeVars, callVars, ResetAt
<1>. QED
  BY <1>4, <1>5, <1>6, <1>7, <1>8, <1>9, <1>10 DEF Next, Step

LEMMA AskStep == BackstopInv /\ [Next]_vars => AskInv'
<1>. SUFFICES ASSUME BackstopInv, [Next]_vars, faults' = 0 PROVE AskInv'
  BY DEF AskInv
<1>1. StoreInv /\ TypeOK /\ [StoreNext]_storeVars
  BY BackstopStoreStep DEF BackstopInv
<1>2. faults = 0
  BY <1>1, ClockMoves DEF TypeOK, StoreTypeOK
<1>3. \A q \in Procs : ResetAt(q)'
  BY <1>2, ResetAtStep
<1>4. consumed \subseteq consumed' /\ (\A a \in asked : a[2] \in consumed)
  BY <1>1, <1>2, ConsumedMoves DEF StoreInv, BackstopInv, AskInv
<1>5. \A a \in asked' : a[2] \in consumed'
  <2>1. CASE asked' = asked
    BY <1>4, <2>1
  <2>2. ASSUME NEW p \in Procs, AfterReset(p), asked' = asked \union {<<p, seen[p].disabledAt>>}
        PROVE  \A a \in asked' : a[2] \in consumed'
    <3>1. seen[p].disabledAt \in consumed
      BY <1>2, <2>2 DEF AfterReset, BackstopInv, AskInv, ResetAt
    <3>. QED  BY <1>4, <2>2, <3>1
  <2>3. \/ asked' = asked
        \/ \E p \in Procs : AfterReset(p) /\ asked' = asked \union {<<p, seen[p].disabledAt>>}
    BY DEF Next, Step, StartCall, CheckBackstop, ResetTrip, AfterReset, Judge, Unavailable,
           RecordVerdict, AfterRecord, Update, GetFails, OpenError, UpdateFails, Die, ClockTick,
           vars, callVars
  <2>. QED  BY <2>1, <2>2, <2>3
<1>. QED  BY <1>3, <1>5 DEF AskInv

LEMMA BackstopInvStep == BackstopInv /\ [Next]_vars => BackstopInv'
BY BackstopStoreStep, StoreInvStep, BackstopTypeStep, AskStep DEF BackstopInv

\* The inductive invariant of the classifier and its store.
THEOREM BackstopInvCorrect == Spec => []BackstopInv
BY BackstopInvInit, BackstopInvStep, PTL DEF Spec

\* While nothing fails, a hook process asks at most once about one trip: when
\* it asks, its Reset has cleared the trip, and no other process's update
\* brings it back.
THEOREM NoProcessAsksTwice == Spec => NoRepeatedAsk
<1>1. BackstopInv /\ [Next]_vars =>
        [\A p \in Procs :
           AfterReset(p) /\ vote'[p] = "ask" /\ faults = 0 =>
              <<p, seen[p].disabledAt>> \notin asked]_vars
  BY DEF BackstopInv, AskInv, ResetAt, Resetting, AfterReset
<1>. QED  BY <1>1, BackstopInvCorrect, PTL DEF Spec, NoRepeatedAsk
=============================================================================
