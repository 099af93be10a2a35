------------------------------ MODULE Backstop ------------------------------
(***************************************************************************)
(* The classifier decider around the session store: each hook process of a *)
(* session judges one tool call after another.  A call reads the record    *)
(* (checkBackstop), clears a trip it finds and asks, or goes on to the     *)
(* verdict and records it.  The processes are Claude Code's parent agent   *)
(* and its subagents; every one works on its own call, all on one file.    *)
(***************************************************************************)
EXTENDS SessionStore

CONSTANTS
    BackstopTtl,         \* clock units a trip stays fresh; 0 for ever
    OnClassifierError,   \* "passthrough" or "ask"
    Mode,                \* "full_auto" or "block_only"
    MaxCalls,            \* bound on the tool calls of the session
    MaxClock             \* bound on the clock's own ticks

ASSUME KnobsAreLegal ==
    /\ BackstopTtl \in Nat
    /\ OnClassifierError \in {"passthrough", "ask"}
    /\ Mode \in {"full_auto", "block_only"}
    /\ MaxCalls \in Nat
    /\ MaxClock \in Nat

VARIABLES
    phase,      \* where p is in runPipeline
    seen,       \* the tripped record p's Get returned, until p has acted on it
    verdict,    \* TRUE when p's provider said block
    vote,       \* p's vote on its latest call; "none" while it is open
    asked,      \* history: <<process, trip>> of every backstop ask
    calls       \* calls started so far

callVars == <<phase, seen, verdict, vote, asked, calls>>

vars == <<storeVars, callVars>>

Phases == {"idle", "backstop", "tripped", "resetting", "judging", "verdict", "recording"}

Votes == {"none", "silent", "passthrough", "ask", "allow", "deny"}

Init ==
    /\ StoreInit
    /\ phase = [p \in Procs |-> "idle"]
    /\ seen = [p \in Procs |-> Zero]
    /\ verdict = [p \in Procs |-> FALSE]
    /\ vote = [p \in Procs |-> "none"]
    /\ asked = {}
    /\ calls = 0

----------------------------------------------------------------------------

Enter(p, ph) == phase' = [phase EXCEPT ![p] = ph]

Vote(p, v) ==
    /\ vote' = [vote EXCEPT ![p] = v]
    /\ Enter(p, "idle")

StartCall(p) ==
    /\ phase[p] = "idle"
    /\ calls < MaxCalls
    /\ calls' = calls + 1
    /\ vote' = [vote EXCEPT ![p] = "none"]
    /\ Enter(p, "backstop")
    /\ UNCHANGED <<storeVars, seen, verdict, asked>>

\* stateStore.Get, which takes no lock: an armed, missing, empty or
\* undecodable record lets the call go on to classification.
CheckBackstop(p) ==
    /\ phase[p] = "backstop"
    /\ IF Disabled(Decoded)
       THEN /\ seen' = [seen EXCEPT ![p] = Decoded]
            /\ Enter(p, "tripped")
       ELSE /\ Enter(p, "judging")
            /\ UNCHANGED seen
    /\ UNCHANGED <<storeVars, verdict, vote, asked, calls>>

\* stateStore.Get returns an error: the call goes on to classification.
GetFails(p) ==
    /\ phase[p] = "backstop"
    /\ ReadFails
    /\ Enter(p, "judging")
    /\ UNCHANGED <<seen, verdict, vote, asked, calls>>

\* stateStore.Reset after a tripped Get.
ResetTrip(p) ==
    /\ phase[p] = "tripped"
    /\ OpenFile(p, "reset")
    /\ Enter(p, "resetting")
    /\ UNCHANGED <<seen, verdict, vote, asked, calls>>

\* Reset has returned, its error ignored: ask, unless the trip has aged out.
AfterReset(p) ==
    /\ phase[p] = "resetting"
    /\ pc[p] = "idle"
    /\ IF Expired(seen[p], BackstopTtl, now)
       THEN /\ Enter(p, "judging")
            /\ UNCHANGED <<vote, asked>>
       ELSE /\ Vote(p, "ask")
            /\ asked' = asked \union {<<p, seen[p].disabledAt>>}
    /\ seen' = [seen EXCEPT ![p] = Zero]
    /\ UNCHANGED <<storeVars, verdict, calls>>

\* checkPermissionMode or checkSkippable stops the call, or the provider
\* returns a verdict: these read only the call's own input.
Judge(p) ==
    /\ phase[p] = "judging"
    /\ \/ Vote(p, "silent") /\ UNCHANGED verdict
       \/ /\ verdict' \in {[verdict EXCEPT ![p] = b] : b \in BOOLEAN}
          /\ Enter(p, "verdict")
          /\ UNCHANGED vote
    /\ UNCHANGED <<storeVars, seen, asked, calls>>

\* The transcript, the prompt, the provider or its deadline fails: onError
\* votes, and the counters are left alone.
Unavailable(p) ==
    /\ phase[p] = "judging"
    /\ Vote(p, OnClassifierError)
    /\ UNCHANGED <<storeVars, seen, verdict, asked, calls>>

\* classifyAndRecord calls Block or Allow.
RecordVerdict(p) ==
    /\ phase[p] = "verdict"
    /\ OpenFile(p, IF verdict[p] THEN "block" ELSE "allow")
    /\ Enter(p, "recording")
    /\ UNCHANGED <<seen, verdict, vote, asked, calls>>

\* Reset, Block or Allow returns an error before it has opened the file.
OpenError(p) ==
    /\ phase[p] \in {"tripped", "verdict"}
    /\ OpenFails(p)
    /\ Enter(p, IF phase[p] = "tripped" THEN "resetting" ELSE "recording")
    /\ UNCHANGED <<seen, verdict, vote, asked, calls>>

\* verdictVote, once the update has returned, whatever it returned.
AfterRecord(p) ==
    /\ phase[p] = "recording"
    /\ pc[p] = "idle"
    /\ Vote(p, IF verdict[p] THEN "deny"
               ELSE IF Mode = "block_only" THEN "silent" ELSE "allow")
    /\ UNCHANGED <<storeVars, seen, verdict, asked, calls>>

Update(p) == UpdateStep(p) /\ UNCHANGED callVars

UpdateFails(p) == (Misread(p) \/ IOError(p)) /\ UNCHANGED callVars

\* The hook process is killed; its call ends without a vote.
Die(p) ==
    /\ phase[p] # "idle"
    /\ Killed(p)
    /\ seen' = [seen EXCEPT ![p] = Zero]
    /\ Enter(p, "idle")
    /\ UNCHANGED <<verdict, vote, asked, calls>>

ClockTick ==
    /\ now < MaxClock
    /\ Tick
    /\ UNCHANGED callVars

Step(p) ==
    \/ CheckBackstop(p) \/ ResetTrip(p) \/ AfterReset(p)
    \/ Judge(p) \/ Unavailable(p)
    \/ RecordVerdict(p) \/ AfterRecord(p)
    \/ Update(p)

Next ==
    \/ \E p \in Procs : \/ StartCall(p)
                        \/ Step(p)
                        \/ GetFails(p) \/ OpenError(p) \/ UpdateFails(p) \/ Die(p)
    \/ ClockTick

Spec == Init /\ [][Next]_vars

\* A running process is scheduled; nothing makes calls start, I/O fail,
\* processes die or clocks tick.
FairSpec == Spec /\ \A p \in Procs : WF_vars(Step(p))

----------------------------------------------------------------------------

\* Every variable holds a value the code's own types allow.
TypeOK ==
    /\ StoreTypeOK
    /\ phase \in [Procs -> Phases]
    /\ seen \in [Procs -> Snapshot]
    /\ verdict \in [Procs -> BOOLEAN]
    /\ vote \in [Procs -> Votes]
    /\ asked \subseteq Procs \X Nat
    /\ calls \in 0..MaxCalls

\* While no kill and no I/O error has happened, a process never asks twice
\* for one trip: its own Reset returns before its next Get, and no other
\* process's update undoes it.
NoRepeatedAsk ==
    [][\A p \in Procs :
         AfterReset(p) /\ vote'[p] = "ask" /\ faults = 0 =>
            <<p, seen[p].disabledAt>> \notin asked]_vars

\* A call that started is voted on, or its process dies: nobody waits for
\* ever on the session lock, even one whose holder was killed.
EveryCallEnds == \A p \in Procs : phase[p] # "idle" ~> phase[p] = "idle"

\* "One-shot ask, then reset": one trip is asked about once.
OneAskPerTrip == \A a, b \in asked : a[2] = b[2] => a = b

\* "Backstop trip -> ask unconditionally": a call that reaches checkBackstop
\* while the session is tripped, and nobody is clearing the trip, is not
\* classified.
Clearing == \E q \in Procs : pc[q] # "idle" /\ op[q] = "reset"

TrippedCallsDoNotClassify ==
    [][\A p \in Procs :
         CheckBackstop(p) /\ Disabled(Record) /\ ~Clearing => phase'[p] = "tripped"]_vars

----------------------------------------------------------------------------

(***************************************************************************)
(* The inductive invariant behind NoRepeatedAsk: what p's reset still owes *)
(* the trip p has seen.                                                    *)
(***************************************************************************)

Resetting(p) == phase[p] \in {"tripped", "resetting"}

\* The trip p has seen is on record or cleared; p's rewrite holds it until
\* it is cleared; once p's Reset is past its write, it is cleared.
ResetAt(p) ==
    LET trip == seen[p].disabledAt
    IN  /\ Resetting(p) => /\ Disabled(seen[p])
                           /\ trip \in consumed \union {Record.disabledAt}
                           /\ <<p, trip>> \notin asked
        /\ phase[p] = "resetting" =>
              /\ op[p] = "reset"
              /\ pc[p] \in {"truncate", "write"} =>
                    trip \in consumed \union {old[p].disabledAt}
              /\ pc[p] \in {"unlock", "idle"} => trip \in consumed

AskInv ==
    faults = 0 => /\ \A a \in asked : a[2] \in consumed
                  /\ \A p \in Procs : ResetAt(p)

\* The whole of it: the store's part and the classifier's.
BackstopInv == StoreInv /\ TypeOK /\ AskInv
=============================================================================
