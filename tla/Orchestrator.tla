---------------------------- MODULE Orchestrator ----------------------------
(***************************************************************************)
(* One hook process: app.Hook.Run reads the event, orchestrator.Run asks   *)
(* the deciders in turn, combines their votes, answers on stdout and then  *)
(* appends the decision-log entry.  The process may be killed at any point *)
(* and every write may fail.                                               *)
(***************************************************************************)
EXTENDS Votes

CONSTANTS
    N,              \* how many deciders are registered
    LogDecisions    \* whether there is a decision-log writer

ASSUME NIsNat == N \in Nat

ASSUME LogIsOnOrOff == LogDecisions \in BOOLEAN

VARIABLES
    stage,      \* where the process is
    opinion,    \* what each decider would vote; fixed
    votes,      \* the results collected so far
    denied,     \* runDeciders has seen a deny
    wire,       \* what was written to stdout
    entry       \* the log entry: its votes and verdict; <<>> while unwritten

vars == <<stage, opinion, votes, denied, wire, entry>>

Stages == {"reading", "deciding", "logging", "done"}

Init ==
    /\ stage = "reading"
    /\ opinion \in [1..N -> Decisions]
    /\ votes = <<>>
    /\ denied = FALSE
    /\ wire = Nothing
    /\ entry = <<>>

----------------------------------------------------------------------------

\* An undecodable event and Claude Code's own auto mode end the process
\* without a word.
ReadInput ==
    /\ stage = "reading"
    /\ stage' \in {"deciding", "done"}
    /\ UNCHANGED <<opinion, votes, denied, wire, entry>>

\* Mutants of NextVote: the result of a decider that is not asked keeps Go's
\* zero decision; deciders behind a deny are asked all the same.
NextVote_ZeroValue == IF denied THEN "" ELSE opinion[Len(votes) + 1]

NextVote_AskAll == opinion[Len(votes) + 1]

\* A decider after a deny is not asked; its result is silent.
NextVote == IF denied THEN "silent" ELSE opinion[Len(votes) + 1]

Decide ==
    /\ stage = "deciding"
    /\ Len(votes) < N
    /\ votes' = Append(votes, NextVote)
    /\ denied' = (denied \/ NextVote = "deny")
    /\ UNCHANGED <<stage, opinion, wire, entry>>

\* Combine and write; a failed write goes unnoticed.
Answer ==
    /\ stage = "deciding"
    /\ Len(votes) = N
    /\ wire' \in {OnWire(Combine(votes)), Nothing}
    /\ stage' = "logging"
    /\ UNCHANGED <<opinion, votes, denied, entry>>

\* log.Append, a no-op without a writer; its error is dropped.
LogEntry ==
    /\ stage = "logging"
    /\ \/ /\ LogDecisions
          /\ entry' = <<[votes |-> votes, verdict |-> Combine(votes)]>>
       \/ UNCHANGED entry
    /\ stage' = "done"
    /\ UNCHANGED <<opinion, votes, denied, wire>>

Die ==
    /\ stage # "done"
    /\ stage' = "done"
    /\ UNCHANGED <<opinion, votes, denied, wire, entry>>

Next == ReadInput \/ Decide \/ Answer \/ LogEntry \/ Die

Spec == Init /\ [][Next]_vars

----------------------------------------------------------------------------

\* Every variable holds a value the code's own types allow.
TypeOK ==
    /\ stage \in Stages
    /\ opinion \in [1..N -> Decisions]
    /\ votes \in Seq(Decisions) /\ Len(votes) <= N
    /\ denied \in BOOLEAN

Contract == INSTANCE HookContract

\* Asking the deciders one after the other and leaving out those behind a
\* deny gives Claude Code the verdict of all their opinions, or nothing:
\* "a later decider can always veto an earlier permissive vote".
HonoursContract == Contract!ContractSpec

\* The entry of a call accounts for what Claude Code was told: it names every
\* decider, and nothing else was written to stdout.
LogExplainsWire ==
    \A k \in DOMAIN entry :
        /\ Len(entry[k].votes) = N
        /\ entry[k].verdict = Combine(entry[k].votes)
        /\ wire # Nothing => wire = entry[k].verdict

----------------------------------------------------------------------------

(***************************************************************************)
(* The inductive invariant behind HonoursContract.                         *)
(***************************************************************************)

\* The votes are the opinions up to the first deny and silent from there on.
VotesInv ==
    /\ denied <=> \E i \in DOMAIN votes : votes[i] = "deny"
    /\ denied <=> \E i \in DOMAIN votes : opinion[i] = "deny"
    /\ \A i \in DOMAIN votes :
          votes[i] = IF \E j \in 1..i - 1 : opinion[j] = "deny" THEN "silent" ELSE opinion[i]

\* Nothing is on the wire before the answer, nor in the log before the end.
OrderInv ==
    /\ stage \in {"reading", "deciding"} => wire = Nothing
    /\ stage \in {"reading", "deciding", "logging"} => entry = <<>>
    /\ stage = "logging" => Len(votes) = N /\ wire \in {OnWire(Combine(votes)), Nothing}

\* The whole of it.
OrchestratorInv == TypeOK /\ VotesInv /\ OrderInv
=============================================================================
