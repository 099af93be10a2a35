----------------------------- MODULE Classifier -----------------------------
(***************************************************************************)
(* One tool call in the classifier decider: the phases of runPipeline and, *)
(* behind classifyAndRecord, the one or two Converse calls of the Bedrock  *)
(* provider.  The session store is seen through its interface: what Get    *)
(* returns, and the updates the call makes (Backstop has the store itself).*)
(***************************************************************************)
EXTENDS Integers, SequencesExt

CONSTANTS
    Timeouts,    \* the values of timeout_ms, in clock units; 0 for none
    MaxTokens,   \* bound on the length of a model's reply
    MaxSpent     \* bound on the clock, beyond every timeout

ASSUME BoundsAreNat ==
    /\ MaxTokens \in Nat /\ MaxSpent \in Nat
    /\ Timeouts \subseteq 0..MaxSpent

VARIABLES
    cfg,       \* the config of the project's block, if one matches; fixed
    call,      \* the hook input, as far as the phases look at it; fixed
    trip,      \* what Get returns for the session; fixed
    phase,     \* the next phase
    spent,     \* time since classifyAndRecord made its context
    text,      \* the model's latest reply
    heard,     \* what was parsed from each reply
    updates,   \* the updates asked of the session store
    vote       \* "none" while the call is open

vars == <<cfg, call, trip, phase, spent, text, heard, updates, vote>>

inputs == <<cfg, call, trip>>

\* block: whether a block matches the project root, and is enabled.
Configs == [block : {"none", "disabled", "enabled"},
            mode : {"full_auto", "block_only"}, onError : {"passthrough", "ask"},
            timeout : Timeouts, twoStage : {"off", "fast", "both", "thinking"}]

\* The tools as Skippable and isFileMutatingTool tell them apart: on the safe
\* list; a Read or an edit with its path inside or outside the working
\* directories; anything else; no name at all.
Tools == {"none", "safe", "read_inside", "read_outside", "edit_inside", "edit_outside", "other"}

Calls == [tool : Tools, session : BOOLEAN,
          permission : {"default", "acceptEdits", "bypassPermissions"}]

Trips == {"armed", "unreadable", "fresh", "aged"}

Phases == {"input", "config", "backstop", "mode", "skip", "prepare",
           "stage1", "stage2", "count", "cast", "done", "dead"}

Votes == {"none", "silent", "passthrough", "ask", "allow", "deny"}

\* A reply is the tags it holds: <thinking>, </thinking>, <block>yes, <block>no.
Tokens == {"open", "close", "yes", "no"}

Init ==
    /\ cfg \in Configs
    /\ call \in Calls
    /\ trip \in Trips
    /\ phase = "input"
    /\ spent = 0
    /\ text = <<>>
    /\ heard = <<>>
    /\ updates = <<>>
    /\ vote = "none"

----------------------------------------------------------------------------

Goto(ph) ==
    /\ phase' = ph
    /\ UNCHANGED vote

Cast(v) ==
    /\ phase' = "done"
    /\ vote' = v

CheckInput ==
    /\ phase = "input"
    /\ IF call.tool = "none" THEN Cast("silent") ELSE Goto("config")
    /\ UNCHANGED <<inputs, spent, text, heard, updates>>

MatchProjectConfig ==
    /\ phase = "config"
    /\ IF cfg.block = "enabled" THEN Goto("backstop") ELSE Cast("silent")
    /\ UNCHANGED <<inputs, spent, text, heard, updates>>

\* Mutant of CheckBackstop: the trip is reset only when it has aged out.
CheckBackstop_AskOnly ==
    /\ phase = "backstop"
    /\ IF call.session /\ trip = "aged"
       THEN updates' = Append(updates, "reset") ELSE UNCHANGED updates
    /\ IF call.session /\ trip = "fresh" THEN Cast("ask") ELSE Goto("mode")
    /\ UNCHANGED <<inputs, spent, text, heard>>

\* Without a session, or with Get failing, the call goes on.  A trip is reset
\* at once and asked about, unless it has aged out.
CheckBackstop ==
    /\ phase = "backstop"
    /\ IF call.session /\ trip \in {"fresh", "aged"}
       THEN /\ updates' = Append(updates, "reset")
            /\ IF trip = "fresh" THEN Cast("ask") ELSE Goto("mode")
       ELSE /\ Goto("mode")
            /\ UNCHANGED updates
    /\ UNCHANGED <<inputs, spent, text, heard>>

IsFileMutating(tool) == tool \in {"edit_inside", "edit_outside"}

CheckPermissionMode ==
    /\ phase = "mode"
    /\ IF \/ call.permission = "bypassPermissions"
          \/ call.permission = "acceptEdits" /\ IsFileMutating(call.tool)
       THEN Cast("silent") ELSE Goto("skip")
    /\ UNCHANGED <<inputs, spent, text, heard, updates>>

Skippable(tool) == tool \in {"safe", "read_inside", "edit_inside"}

CheckSkippable ==
    /\ phase = "skip"
    /\ IF Skippable(call.tool) THEN Cast("silent") ELSE Goto("prepare")
    /\ UNCHANGED <<inputs, spent, text, heard, updates>>

\* Mutant of OnError: the decision the documentation calls "withheld".
OnError_Unmapped == Cast(IF cfg.onError = "ask" THEN "ask" ELSE "withheld")

\* Every infrastructure failure votes as configured and leaves the counters.
OnError == Cast(cfg.onError)

\* Sanitize, read the transcript, build the prompt, resolve the provider: any
\* but the first may fail.  The provider call gets its one deadline here.
Prepare ==
    /\ phase = "prepare"
    /\ Goto("stage1") \/ OnError
    /\ UNCHANGED <<inputs, spent, text, heard, updates>>

InProvider == phase \in {"stage1", "stage2"}

\* Every reply the model may give, cut off anywhere by max_tokens.  The forced
\* tool use answers yes, no, or without a verdict; stage 1 of BOTH stops at
\* the </block> of its first verdict.
Replies ==
    CASE cfg.twoStage = "off" -> {<<>>, <<"yes">>, <<"no">>}
      [] cfg.twoStage = "both" /\ phase = "stage1" ->
            {t \in SeqOf(Tokens, MaxTokens) :
               \A i \in DOMAIN t : t[i] \in {"yes", "no"} => i = Len(t)}
      [] OTHER -> SeqOf(Tokens, MaxTokens)

\* Mutant of InThought: the thoughts are parsed too.
InThought_Never(t, i) == FALSE

\* stripThinking drops everything from a <thinking> to the next </thinking>,
\* or to the end.
InThought(t, i) ==
    \E o \in 1..i - 1 : t[o] = "open" /\ \A c \in o + 1..i - 1 : t[c] # "close"

\* parseXMLBlock: the first verdict outside the thoughts.
Parsed(t) ==
    LET said == {i \in DOMAIN t : t[i] \in {"yes", "no"} /\ ~InThought(t, i)}
    IN  IF said = {} THEN "none" ELSE t[Min(said)]

\* Mutant of Escalates: an unparseable stage 1 is settled on the spot.
Escalates_OnYes(answer) == cfg.twoStage = "both" /\ phase = "stage1" /\ answer = "yes"

\* Only BOTH does not settle for a stage 1 that says yes or nothing.
Escalates(answer) == cfg.twoStage = "both" /\ phase = "stage1" /\ answer # "no"

Reply ==
    /\ InProvider
    /\ \E t \in Replies :
          /\ text' = t
          /\ heard' = Append(heard, Parsed(t))
          /\ Goto(IF Escalates(Parsed(t)) THEN "stage2" ELSE "count")
    /\ UNCHANGED <<inputs, spent, updates>>

\* Converse returns an error, or the forced tool use no tool_use block.
ConverseFails ==
    /\ InProvider
    /\ OnError
    /\ UNCHANGED <<inputs, spent, text, heard, updates>>

HasDeadline == cfg.timeout > 0

\* Mutant of Expired: stage 2 runs on a context without the deadline.
Expired_StageOne == HasDeadline /\ phase = "stage1" /\ spent = cfg.timeout

\* The context both stages share is done.
Expired == HasDeadline /\ spent = cfg.timeout

Expire ==
    /\ Expired
    /\ ConverseFails

\* Time passes while Converse is out; it cannot pass the deadline.
Tick ==
    /\ InProvider
    /\ ~Expired
    /\ spent < MaxSpent
    /\ spent' = spent + 1
    /\ UNCHANGED <<inputs, phase, text, heard, updates, vote>>

\* No verdict is a block.
ShouldBlock == Last(heard) # "no"

CountVerdict ==
    /\ phase = "count"
    /\ updates' = IF call.session
                  THEN Append(updates, IF ShouldBlock THEN "block" ELSE "allow")
                  ELSE updates
    /\ Goto("cast")
    /\ UNCHANGED <<inputs, spent, text, heard>>

VerdictVote ==
    /\ phase = "cast"
    /\ Cast(IF ShouldBlock THEN "deny"
            ELSE IF cfg.mode = "block_only" THEN "silent" ELSE "allow")
    /\ UNCHANGED <<inputs, spent, text, heard, updates>>

\* The hook process is killed.
Die ==
    /\ phase \notin {"done", "dead"}
    /\ Goto("dead")
    /\ UNCHANGED <<inputs, spent, text, heard, updates>>

Next ==
    \/ CheckInput \/ MatchProjectConfig \/ CheckBackstop \/ CheckPermissionMode
    \/ CheckSkippable \/ Prepare
    \/ Reply \/ ConverseFails \/ Expire \/ Tick
    \/ CountVerdict \/ VerdictVote \/ Die

Spec == Init /\ [][Next]_vars

\* The process is scheduled, the clock runs and a context expires; the model
\* may never answer.
FairSpec ==
    /\ Spec
    /\ WF_vars(Tick)
    /\ WF_vars(Expire)
    /\ WF_vars(CountVerdict \/ VerdictVote)

----------------------------------------------------------------------------

\* Every variable holds a value the code's own types allow.
TypeOK ==
    /\ cfg \in Configs /\ call \in Calls /\ trip \in Trips
    /\ phase \in Phases
    /\ spent \in Nat
    /\ text \in Seq(Tokens)
    /\ heard \in Seq({"yes", "no", "none"})
    /\ updates \in Seq({"reset", "block", "allow"})
    /\ vote \in Votes

Depth(t, i) ==
    LET marks(m) == Cardinality({j \in 1..i - 1 : t[j] = m})
    IN  marks("open") - marks("close")

\* Thoughts that open and close in turn.
Tidy(t) == \A i \in 1..Len(t) + 1 : Depth(t, i) \in {0, 1}

\* "Tags inside chain-of-thought aren't mistaken for the verdict", and nothing
\* but a spoken no lets a call through: whenever the classifier allows, the
\* reply that decided has a no outside its thoughts and no yes before it.
AllowIsSpoken ==
    vote = "allow" /\ Tidy(text) =>
        \E i \in DOMAIN text :
            /\ text[i] = "no" /\ Depth(text, i) = 0
            /\ \A j \in 1..i - 1 : text[j] = "yes" => Depth(text, j) = 1

\* "On stage-1 yes, escalate": in BOTH mode no call is denied on the
\* conservative prefilter alone, nor classified twice after it said no.
PrefilterNeverDenies ==
    cfg.twoStage = "both" =>
        /\ vote = "deny" => Len(heard) = 2
        /\ Len(heard) = 2 => heard[1] # "no"
        /\ Len(heard) <= 2

\* The call has come as far as checkBackstop, and Get has returned a trip.
SawTrip == call.tool # "none" /\ cfg.block = "enabled" /\ call.session /\ trip \in {"fresh", "aged"}

\* The model was heard out and said no, whatever mode makes of that.
ModelAllowed == vote \in {"allow", "silent"} /\ heard # <<>>

\* The updates a finished call owes the session, from its input and its vote:
\* the reset of a trip it saw, then a block for a deny, an allow for a no.
Owed ==
    LET reset == IF SawTrip THEN <<"reset">> ELSE <<>>
    IN  CASE call.session /\ vote = "deny" -> Append(reset, "block")
          [] call.session /\ ModelAllowed -> Append(reset, "allow")
          [] OTHER -> reset

\* "Don't bump the block counter - the backstop is for runaway blocks, not
\* outages": a finished call has made exactly the updates it owes, in that
\* order.  A failure of the transcript, the provider or the deadline counts
\* nothing; a last reply without a verdict is no failure but a deny, and counts
\* as one; a trip has been reset by every call that saw it, and a fresh one is
\* asked about before any model is.
CountsFollowVerdicts ==
    phase = "done" =>
        /\ updates = Owed
        /\ SawTrip /\ trip = "fresh" => vote = "ask" /\ heard = <<>>
        /\ vote = "deny" => heard # <<>>
        /\ heard # <<>> /\ vote \in {"deny", "allow", "silent"} =>
              (vote = "deny" <=> Last(heard) \in {"yes", "none"})

\* "Per-call timeout bounds the round-trip": with one, a call that has reached
\* the provider ends, in whichever stage the model stops answering.
ProviderCallEnds == HasDeadline /\ InProvider ~> phase \in {"done", "dead"}

----------------------------------------------------------------------------

(***************************************************************************)
(* The inductive invariant behind AllowIsSpoken, PrefilterNeverDenies and  *)
(* CountsFollowVerdicts.                                                   *)
(***************************************************************************)

\* The reset of a trip that has aged out, and behind it the verdict's count.
Cleared == IF call.session /\ trip = "aged" THEN <<"reset">> ELSE <<>>

Counted ==
    IF call.session THEN Append(Cleared, IF ShouldBlock THEN "block" ELSE "allow") ELSE Cleared

\* The input and the config let the call come to checkBackstop.
Reached == call.tool # "none" /\ cfg.block = "enabled"

\* What has been heard leaves the verdict open: nothing yet, or a stage 1 of
\* BOTH that did not say no.
Unsettled ==
    \/ heard = <<>>
    \/ cfg.twoStage = "both" /\ Len(heard) = 1 /\ heard[1] # "no"

\* One stage has settled it, in BOTH by saying no; or the second one has.
Settled ==
    IF cfg.twoStage = "both"
    THEN \/ Len(heard) = 1 /\ heard[1] = "no"
         \/ Len(heard) = 2 /\ heard[1] # "no"
    ELSE Len(heard) = 1

\* How the vote of a finished call came about: silence or a question before the
\* provider, a failure, a verdict.
DoneInv ==
    \/ vote = "silent" /\ heard = <<>> /\ updates = <<>> /\ ~Reached
    \/ /\ vote = "ask" /\ heard = <<>> /\ Reached
       /\ call.session /\ trip = "fresh" /\ updates = <<"reset">>
    \/ /\ Reached /\ ~(call.session /\ trip = "fresh")
       /\ \/ vote = "silent" /\ heard = <<>> /\ updates = Cleared
          \/ vote \in {"passthrough", "ask"} /\ Unsettled /\ updates = Cleared
          \/ /\ vote \in IF ShouldBlock THEN {"deny"} ELSE {"silent", "allow"}
             /\ Settled /\ updates = Counted

CallInv ==
    /\ TypeOK
    /\ phase # "done" => vote = "none"
    /\ heard # <<>> => Last(heard) = Parsed(text)
    /\ Unsettled \/ Settled
    /\ phase \in {"input", "config", "backstop"} => heard = <<>> /\ updates = <<>>
    /\ phase = "config" => call.tool # "none"
    /\ phase = "backstop" => Reached
    /\ phase \in {"mode", "skip", "prepare", "stage1", "stage2", "count", "cast"} =>
          Reached /\ ~(call.session /\ trip = "fresh")
    /\ phase \in {"mode", "skip", "prepare", "stage1"} => heard = <<>> /\ updates = Cleared
    /\ phase = "stage2" => heard # <<>> /\ Unsettled /\ updates = Cleared
    /\ phase = "count" => Settled /\ updates = Cleared
    /\ phase = "cast" => Settled /\ updates = Counted
    /\ phase = "done" => DoneInv
=============================================================================
