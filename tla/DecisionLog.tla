----------------------------- MODULE DecisionLog -----------------------------
(***************************************************************************)
(* decisionlog.Writer: hook processes append lines to one JSONL file and,  *)
(* before each append, cut the file to its last MaxBytes bytes of whole    *)
(* lines when it has grown beyond them.  The file system is modelled by    *)
(* inodes, the two names that may point to them (path and path.tmp) and a  *)
(* flock per inode; one step is one system call.                           *)
(***************************************************************************)
EXTENDS Integers, FiniteSets, SequencesExt

CONSTANTS
    Procs,      \* processes with an Append under way
    Nobody,     \* nobody holds the flock
    MaxBytes,   \* the size cap; 0 switches truncation off
    Lens,       \* lengths of the lines, newline included
    MaxLines,   \* bound on the lines of a behaviour
    MaxFaults   \* bound on kills and I/O errors

ASSUME ProcsAreFinite == IsFiniteSet(Procs)

ASSUME NobodyIsNoProc == Nobody \notin Procs

ASSUME BoundsAreNat ==
    /\ MaxBytes \in Nat /\ MaxLines \in Nat /\ MaxFaults \in Nat
    /\ Lens \subseteq Nat \ {0}

VARIABLES
    data,      \* contents of each inode: a sequence of lines
    path,      \* the inode the log's name points to, or NoInode
    tmp,       \* the inode path.tmp points to, or NoInode
    lock,      \* who holds the flock of each inode
    pc,        \* the next system call of p
    rfd,       \* the inode p's maybeTruncate has open, or NoInode
    wfd,       \* the inode p is writing to (path.tmp, then the log), or NoInode
    tail,      \* what p has read and will keep
    faults,    \* kills and I/O errors so far
    started,   \* lines whose Append has begun
    written,   \* history: the bytes appended, as the lines they make up
    raced,     \* history: a truncation has overlapped another Append
    short      \* history: a failed read has been taken for the tail

fsVars == <<data, path, tmp, lock>>

vars == <<fsVars, pc, rfd, wfd, tail, faults, started, written,
          raced, short>>

NoInode == 0

\* Two names, and two descriptors per process, keep no more inodes alive.
Inodes == 1..(2 + 2 * Cardinality(Procs))

\* len bytes; only the last line of a file may lack its newline.  Where the
\* beginning has been overwritten, id is 0.
Line == [id : 0..MaxLines, len : Nat \ {0}, nl : BOOLEAN]

PCs == {"idle", "stat", "flock", "read", "opentmp", "writetmp", "rename", "open", "append"}

Init ==
    /\ data = [i \in Inodes |-> <<>>]
    /\ path = NoInode
    /\ tmp = NoInode
    /\ lock = [i \in Inodes |-> Nobody]
    /\ pc = [p \in Procs |-> "idle"]
    /\ rfd = [p \in Procs |-> NoInode]
    /\ wfd = [p \in Procs |-> NoInode]
    /\ tail = [p \in Procs |-> <<>>]
    /\ faults = 0
    /\ started = 0
    /\ written = <<>>
    /\ raced = FALSE
    /\ short = FALSE

----------------------------------------------------------------------------

\* Ends(s)[n]: the offset in the file s where its n-th line ends.
Ends(s) ==
    LET end[n \in 0..Len(s)] == IF n = 0 THEN 0 ELSE end[n - 1] + s[n].len
    IN  end

Bytes(s) == Ends(s)[Len(s)]

\* Mutants of KeptTail: the head of the file is kept; the line the offset
\* falls in is kept whole.
KeptTail_Head(s, cap) ==
    LET k == CHOOSE k \in 0..Len(s) :
               /\ Ends(s)[k] < cap
               /\ \A j \in k + 1..Len(s) : Ends(s)[j] >= cap
    IN  SubSeq(s, 1, k)

KeptTail_WholeLine(s, cap) ==
    LET k == CHOOSE k \in 1..Len(s) :
               /\ Ends(s)[k] > Bytes(s) - cap
               /\ \A j \in 0..k - 1 : Ends(s)[j] <= Bytes(s) - cap
    IN  SubSeq(s, k, Len(s))

\* The last cap bytes, from the byte after the first newline among them: line
\* k is the first to end behind the offset.
KeptTail(s, cap) ==
    LET k == CHOOSE k \in 0..Len(s) :
               /\ Ends(s)[k] > Bytes(s) - cap
               /\ \A j \in 0..k - 1 : Ends(s)[j] <= Bytes(s) - cap
    IN  SubSeq(s, k + 1, Len(s))

\* Bytes that land behind a line without a newline become part of it.
Glue(s, l) ==
    IF s = <<>> \/ Last(s).nl THEN Append(s, l)
    ELSE Append(Front(s), [Last(s) EXCEPT !.len = @ + l.len, !.nl = l.nl])

\* How many lines of s are whole within its first n bytes.
WholeLines(s, n) ==
    CHOOSE k \in 0..Len(s) : /\ Ends(s)[k] <= n
                             /\ \A j \in k + 1..Len(s) : Ends(s)[j] > n

\* The first n bytes of s.
FirstBytes(s, n) ==
    LET k == WholeLines(s, n)
        rest == n - Ends(s)[k]
    IN  IF rest = 0 THEN SubSeq(s, 1, k)
        ELSE Append(SubSeq(s, 1, k), [s[k + 1] EXCEPT !.len = rest, !.nl = FALSE])

\* Writing s at offset 0 of a file that holds f: what f has beyond stays, its
\* first line cut where s ends.
Overwritten(f, s) ==
    IF Bytes(f) <= Bytes(s) THEN s
    ELSE LET k == WholeLines(f, Bytes(s))
             cut == Ends(f)[k + 1] - Bytes(s)
             first == IF cut = f[k + 1].len THEN f[k + 1]
                      ELSE [f[k + 1] EXCEPT !.id = 0, !.len = cut]
         IN  Glue(s, first) \o SubSeq(f, k + 2, Len(f))

\* A new inode: one that no name and no descriptor refers to.
Fresh == CHOOSE i \in Inodes :
            /\ i \notin {path, tmp}
            /\ \A p \in Procs : i \notin {rfd[p], wfd[p]}
            /\ \A j \in 1..i - 1 : \/ j \in {path, tmp}
                                   \/ \E p \in Procs : j \in {rfd[p], wfd[p]}

Goto(p, label) == pc' = [pc EXCEPT ![p] = label]

\* Closing maybeTruncate's descriptor drops the flock p took through it.
CloseRead(p) ==
    /\ rfd' = [rfd EXCEPT ![p] = NoInode]
    /\ lock' = [i \in Inodes |-> IF lock[i] = p THEN Nobody ELSE lock[i]]

CloseWrite(p) == wfd' = [wfd EXCEPT ![p] = NoInode]

\* maybeTruncate returns, for whatever reason.
SkipTruncate(p) ==
    /\ CloseRead(p)
    /\ CloseWrite(p)
    /\ tail' = [tail EXCEPT ![p] = <<>>]
    /\ Goto(p, "open")

\* Append is called: marshal, MkdirAll.
Start(p) ==
    /\ pc[p] = "idle"
    /\ started < MaxLines
    /\ started' = started + 1
    /\ Goto(p, IF MaxBytes > 0 THEN "stat" ELSE "open")
    /\ UNCHANGED <<fsVars, rfd, wfd, tail, faults, written>>

OpenRead(p) ==
    /\ pc[p] = "stat"
    /\ rfd' = [rfd EXCEPT ![p] = path]
    /\ Goto(p, IF path = NoInode THEN "open" ELSE "flock")
    /\ UNCHANGED <<fsVars, wfd, tail, faults, started, written>>

CanLock(p) == lock[rfd[p]] = Nobody

\* LOCK_EX|LOCK_NB: the loser skips the truncation.
TryLock(p) ==
    /\ pc[p] = "flock"
    /\ IF CanLock(p)
       THEN /\ lock' = [lock EXCEPT ![rfd[p]] = p]
            /\ Goto(p, "read")
            /\ UNCHANGED <<rfd, wfd, tail>>
       ELSE SkipTruncate(p)
    /\ UNCHANGED <<data, path, tmp, faults, started, written>>

TooBig(s) == Bytes(s) > MaxBytes

\* Stat and ReadAt; bytes once written at an offset stay, so they are one step.
ReadTail(p) ==
    LET keep == KeptTail(data[rfd[p]], MaxBytes)
    IN  /\ pc[p] = "read"
        /\ IF TooBig(data[rfd[p]]) /\ keep # <<>>
           THEN /\ tail' = [tail EXCEPT ![p] = keep]
                /\ Goto(p, "opentmp")
                /\ UNCHANGED <<lock, rfd, wfd>>
           ELSE SkipTruncate(p)
        /\ UNCHANGED <<data, path, tmp, faults, started, written>>

\* O_CREATE|O_TRUNC on the one path.tmp all processes share.
OpenTmp(p) ==
    LET i == IF tmp = NoInode THEN Fresh ELSE tmp
    IN  /\ pc[p] = "opentmp"
        /\ data' = [data EXCEPT ![i] = <<>>]
        /\ tmp' = i
        /\ wfd' = [wfd EXCEPT ![p] = i]
        /\ Goto(p, "writetmp")
        /\ UNCHANGED <<path, lock, rfd, tail, faults, started, written>>

\* s lands in path.tmp.
Fills(p, s) == data' = [data EXCEPT ![wfd[p]] = Overwritten(data[wfd[p]], s)]

WriteTmp(p) ==
    /\ pc[p] = "writetmp"
    /\ Fills(p, tail[p])
    /\ CloseWrite(p)
    /\ Goto(p, "rename")
    /\ UNCHANGED <<path, tmp, lock, rfd, tail, faults, started, written>>

\* Renames whatever path.tmp is by now; its absence is ignored.
Rename(p) ==
    /\ pc[p] = "rename"
    /\ path' = IF tmp = NoInode THEN path ELSE tmp
    /\ tmp' = NoInode
    /\ SkipTruncate(p)
    /\ UNCHANGED <<data, faults, started, written>>

OpenAppend(p) ==
    LET i == IF path = NoInode THEN Fresh ELSE path
    IN  /\ pc[p] = "open"
        /\ path' = i
        /\ data' = IF path = NoInode THEN [data EXCEPT ![i] = <<>>] ELSE data
        /\ wfd' = [wfd EXCEPT ![p] = i]
        /\ Goto(p, "append")
        /\ UNCHANGED <<tmp, lock, rfd, tail, faults, started, written>>

\* len bytes land at the end of the file p has open: one O_APPEND write.
Lands(p, len, nl) ==
    LET l == [id |-> Len(written) + 1, len |-> len, nl |-> nl]
    IN  /\ data' = [data EXCEPT ![wfd[p]] = Glue(data[wfd[p]], l)]
        /\ written' = Glue(written, l)

\* Mutant of AppendLine: the newline is not counted into the line.
AppendLine_NoNewline(p) ==
    /\ pc[p] = "append"
    /\ \E n \in Lens : Lands(p, n - 1, TRUE)
    /\ CloseWrite(p)
    /\ Goto(p, "idle")
    /\ UNCHANGED <<path, tmp, lock, rfd, tail, faults, started>>

AppendLine(p) ==
    /\ pc[p] = "append"
    /\ \E n \in Lens : Lands(p, n, TRUE)
    /\ CloseWrite(p)
    /\ Goto(p, "idle")
    /\ UNCHANGED <<path, tmp, lock, rfd, tail, faults, started>>

Fault ==
    /\ faults < MaxFaults
    /\ faults' = faults + 1

\* ReadAt fails after some bytes: no error is seen, and what came is the tail.
ReadShort(p) ==
    LET keep == KeptTail(data[rfd[p]], MaxBytes)
    IN  /\ Fault
        /\ pc[p] = "read"
        /\ TooBig(data[rfd[p]])
        /\ \E n \in 1..Bytes(keep) - 1 : tail' = [tail EXCEPT ![p] = FirstBytes(keep, n)]
        /\ Goto(p, "opentmp")
        /\ UNCHANGED <<fsVars, rfd, wfd, started, written>>

\* What a write that fails or is killed leaves: nothing, or a first part.  A
\* part of a log line has no newline: the next line is glued to it.
Part(p) ==
    \/ UNCHANGED <<data, written>>
    \/ /\ pc[p] = "writetmp"
       /\ \E n \in 1..Bytes(tail[p]) : Fills(p, FirstBytes(tail[p], n))
       /\ UNCHANGED written
    \/ /\ pc[p] = "append"
       /\ \E n \in Lens : \E m \in 1..n - 1 : Lands(p, m, FALSE)

\* A system call of maybeTruncate fails and it gives up, or one of Append's
\* own fails and the call ends.
IOError(p) ==
    /\ Fault
    /\ \/ /\ pc[p] \in {"stat", "flock", "read", "opentmp", "writetmp", "rename"}
          /\ SkipTruncate(p)
       \/ /\ pc[p] \in {"open", "append"}
          /\ CloseWrite(p)
          /\ Goto(p, "idle")
          /\ UNCHANGED <<lock, rfd, tail>>
    /\ Part(p)
    /\ UNCHANGED <<path, tmp, started>>

Killed(p) ==
    /\ pc[p] # "idle"
    /\ Fault
    /\ CloseRead(p)
    /\ CloseWrite(p)
    /\ tail' = [tail EXCEPT ![p] = <<>>]
    /\ Goto(p, "idle")
    /\ Part(p)
    /\ UNCHANGED <<path, tmp, started>>

\* p is replacing the log while q has an inode of it open.
Racing == \E p, q \in Procs :
            /\ p # q
            /\ pc[p] \in {"opentmp", "writetmp", "rename"}
            /\ pc[q] \notin {"idle", "stat", "open"}

Step(p) ==
    \/ Start(p) \/ OpenRead(p) \/ TryLock(p) \/ ReadTail(p) \/ OpenTmp(p)
    \/ WriteTmp(p) \/ Rename(p) \/ OpenAppend(p) \/ AppendLine(p)
    \/ IOError(p) \/ Killed(p)

Next ==
    /\ \/ (\E p \in Procs : Step(p)) /\ UNCHANGED short
       \/ (\E p \in Procs : ReadShort(p)) /\ short' = TRUE
    /\ raced' = (raced \/ Racing')

Spec == Init /\ [][Next]_vars

----------------------------------------------------------------------------

Log == IF path = NoInode THEN <<>> ELSE data[path]

\* Every variable holds a value the code's own types allow.
TypeOK ==
    /\ data \in [Inodes -> Seq(Line)]
    /\ {path, tmp} \subseteq Inodes \union {NoInode}
    /\ lock \in [Inodes -> Procs \union {Nobody}]
    /\ pc \in [Procs -> PCs]
    /\ rfd \in [Procs -> Inodes \union {NoInode}]
    /\ wfd \in [Procs -> Inodes \union {NoInode}]
    /\ tail \in [Procs -> Seq(Line)]
    /\ faults \in 0..MaxFaults
    /\ started \in 0..MaxLines
    /\ written \in Seq(Line)
    /\ {raced, short} \subseteq BOOLEAN

\* log is the end of all, and misses only what the cap pushes out.
EndOf(log, all) ==
    /\ IsSuffix(log, all)
    /\ \/ log = all
       \/ MaxBytes > 0 /\ Bytes(log) + all[Len(all) - Len(log)].len >= MaxBytes

\* "O_APPEND atomicity holds across processes; flock-guarded rotation keeps
\* the last maxBytes of complete lines": the log is the end of the bytes that
\* were appended, and misses only what the cap pushes out.  Kills, calls that
\* fail and writes that land in part are included; a replacement that overlaps
\* another Append, or that rests on a read failing half way, is not.
LogIsRecent == ~raced /\ ~short => EndOf(Log, written)

\* A replacement that overlaps nothing leaves something, and less than the cap,
\* even when the read of the tail has failed half way: the next append does
\* not cut again.
TruncationFits ==
    [][\A p \in Procs : Rename(p) /\ tmp # NoInode /\ ~raced =>
          Log' # <<>> /\ Bytes(Log') < MaxBytes]_vars

\* "No rotation storm clobbers any committed lines": a line that was appended
\* and is missing is older than every line that is left.
CommittedLinesKept == IsSuffix(Log, written)

----------------------------------------------------------------------------
\* The inductive invariants.

Truncating == {"flock", "read", "opentmp", "writetmp", "rename"}

Replacing == {"opentmp", "writetmp", "rename"}

Busy == {p \in Procs : pc[p] # "idle"}

\* A process that is to use a descriptor has it open, maybeTruncate runs only
\* under a cap, and every line but those still on their way is counted.
DescriptorsOpen ==
    /\ \A p \in Procs :
         /\ pc[p] \in Truncating => rfd[p] \in Inodes
         /\ pc[p] \in Truncating \union {"stat"} => MaxBytes > 0
         /\ pc[p] \in {"writetmp", "append"} => wfd[p] \in Inodes
    /\ Len(written) + Cardinality(Busy) <= started

\* p has open the inode the name points to, and if it is replacing the log it
\* holds the tail of what is still there.
Undisturbed(p) ==
    /\ pc[p] \in Truncating => rfd[p] = path
    /\ pc[p] = "append" => wfd[p] = path
    /\ pc[p] \in Replacing => /\ TooBig(Log) /\ tail[p] # <<>>
                              /\ Bytes(tail[p]) < MaxBytes
                              /\ short \/ tail[p] = KeptTail(Log, MaxBytes)
    /\ pc[p] = "writetmp" => wfd[p] = tmp /\ data[tmp] = <<>>
    /\ pc[p] = "rename" => tmp # NoInode /\ data[tmp] = tail[p]

\* While no replacement has overlapped another Append, none does.
AloneWhileReplacing ==
    ~raced => /\ ~Racing
              /\ path # tmp \/ path = NoInode
              /\ Log = <<>> => written = <<>>
              /\ \A p \in Procs : Undisturbed(p)

LogInv == TypeOK /\ DescriptorsOpen /\ AloneWhileReplacing /\ LogIsRecent
=============================================================================
