------------------------- MODULE OrchestratorProofs -------------------------
(***************************************************************************)
(* For any number of deciders and any opinions: the orchestrator's loop,   *)
(* short-circuit included, implements HookContract.                        *)
(***************************************************************************)
EXTENDS Orchestrator, TLAPS, WellFoundedInduction

-----------------------------------------------------------------------------
(***************************************************************************)
(* Combine.                                                                *)
(***************************************************************************)

\* A decision that was cast has a first decider that cast it.
LEMMA FirstExists ==
    ASSUME NEW votes_ \in Seq(Decisions), NEW d, Cast(votes_, d)
    PROVE  First(votes_, d) \in DOMAIN votes_ /\ IsFirst(votes_, d, First(votes_, d))
<1>. DEFINE T == {i \in DOMAIN votes_ : votes_[i] = d}
<1>1. T \subseteq Nat /\ T # {}
  BY DEF Cast
<1>2. PICK x \in T : \A y \in T : ~(<<y, x>> \in OpToRel(<, Nat))
  BY <1>1, NatLessThanWellFounded, WFMin
<1>3. \A y \in T : ~(y < x)
  BY <1>1, <1>2 DEF OpToRel
<1>4. x \in DOMAIN votes_ /\ IsFirst(votes_, d, x)
  BY <1>3 DEF IsFirst
<1>. QED  BY <1>4 DEF First

\* Combine is the verdict of the votes: the highest-ranked decision,
\* credited to the first decider that cast it.
THEOREM CombineIsVerdict ==
    ASSUME NEW votes_ \in Seq(Decisions)
    PROVE  /\ IsVerdict(votes_, Combine(votes_))
           /\ Combine(votes_) \in [decision : Decisions, by : 0..Len(votes_)]
<1>. DEFINE v(d) == [decision |-> d, by |-> First(votes_, d)]
<1>1. \A i \in DOMAIN votes_ : votes_[i] \in Decisions
  OBVIOUS
<1>2. ASSUME NEW d \in Decisions \ {"silent"}, Cast(votes_, d),
             \A e \in Decisions : Rank(e) > Rank(d) => ~Cast(votes_, e)
      PROVE  IsVerdict(votes_, v(d)) /\ v(d) \in [decision : Decisions, by : 0..Len(votes_)]
  <2>1. First(votes_, d) \in DOMAIN votes_ /\ IsFirst(votes_, d, First(votes_, d))
    BY <1>2, FirstExists
  <2>2. \A i \in DOMAIN votes_ : Rank(votes_[i]) <= Rank(d)
    BY <1>1, <1>2 DEF Cast, Rank, Decisions
  <2>. QED  BY <2>1, <2>2 DEF IsVerdict, Decisions
<1>3. CASE Cast(votes_, "deny")
  BY <1>2, <1>3 DEF Combine, Rank, Decisions
<1>4. CASE ~Cast(votes_, "deny") /\ Cast(votes_, "ask")
  BY <1>2, <1>4 DEF Combine, Rank, Decisions
<1>5. CASE ~Cast(votes_, "deny") /\ ~Cast(votes_, "ask") /\ Cast(votes_, "passthrough")
  BY <1>2, <1>5 DEF Combine, Rank, Decisions
<1>6. CASE /\ ~Cast(votes_, "deny") /\ ~Cast(votes_, "ask")
           /\ ~Cast(votes_, "passthrough") /\ Cast(votes_, "allow")
  BY <1>2, <1>6 DEF Combine, Rank, Decisions
<1>7. CASE /\ ~Cast(votes_, "deny") /\ ~Cast(votes_, "ask")
           /\ ~Cast(votes_, "passthrough") /\ ~Cast(votes_, "allow")
  <2>1. \A i \in DOMAIN votes_ : votes_[i] = "silent"
    BY <1>1, <1>7 DEF Cast, Decisions
  <2>2. Combine(votes_) = [decision |-> "silent", by |-> NoOne]
    BY <1>7 DEF Combine
  <2>. QED  BY <2>1, <2>2 DEF IsVerdict, Decisions, NoOne, Rank
<1>. QED  BY <1>3, <1>4, <1>5, <1>6, <1>7

-----------------------------------------------------------------------------
(***************************************************************************)
(* The inductive invariant.                                                *)
(***************************************************************************)

LEMMA OrchestratorInit == Init => OrchestratorInv
<1>. SUFFICES ASSUME Init PROVE OrchestratorInv
  OBVIOUS
<1>1. votes = <<>> /\ votes \in Seq(Decisions) /\ Len(votes) = 0 /\ DOMAIN votes = {}
  BY DEF Init
<1>2. TypeOK
  <2>1. stage \in Stages /\ denied \in BOOLEAN /\ opinion \in [1..N -> Decisions]
    BY Zenon DEF Init, Stages
  <2>2. votes \in Seq(Decisions) /\ Len(votes) <= N
    BY <1>1, NIsNat
  <2>. QED  BY <2>1, <2>2, Zenon DEF TypeOK
<1>3. VotesInv
  BY <1>1 DEF Init, VotesInv
<1>4. OrderInv
  BY DEF Init, OrderInv
<1>. QED  BY <1>2, <1>3, <1>4 DEF OrchestratorInv

LEMMA OrchestratorStep == OrchestratorInv /\ [Next]_vars => OrchestratorInv'
<1>. SUFFICES ASSUME OrchestratorInv, [Next]_vars PROVE OrchestratorInv'
  OBVIOUS
<1>. USE NIsNat DEF OrchestratorInv, TypeOK, VotesInv, OrderInv, Stages
<1>1. CASE ReadInput
  BY <1>1 DEF ReadInput
<1>2. CASE Decide
  <2>1. Len(votes) + 1 \in 1..N /\ NextVote \in Decisions
    BY <1>2 DEF Decide, NextVote, Decisions
  <2>2. /\ votes' \in Seq(Decisions) /\ Len(votes') = Len(votes) + 1
        /\ votes'[Len(votes) + 1] = NextVote
        /\ \A i \in 1..Len(votes) : votes'[i] = votes[i]
    BY <1>2, <2>1 DEF Decide
  <2>. DEFINE n == Len(votes)
  <2>3. n \in Nat /\ DOMAIN votes = 1..n /\ DOMAIN votes' = 1..(n + 1)
    <3>1. n \in Nat /\ Len(votes') = n + 1
      BY <2>2
    <3>. QED  BY <2>2, <3>1
  <2>4. opinion' = opinion /\ (denied' <=> (denied \/ NextVote = "deny"))
    BY <1>2, Zenon DEF Decide
  <2>5. 1..(n + 1) = (1..n) \cup {n + 1}
    <3>. HIDE DEF n
    <3>. QED  BY <2>3
  <2>6. VotesInv'
    <3>. HIDE DEF n
    <3>1. (denied <=> \E i \in DOMAIN votes : votes[i] = "deny")'
      <4>1. (\E i \in 1..(n + 1) : votes'[i] = "deny")
              <=> ((\E i \in 1..n : votes[i] = "deny") \/ NextVote = "deny")
        BY <2>2, <2>3, <2>5 DEF n
      <4>. QED  BY <2>3, <2>4, <4>1
    <3>2. (denied <=> \E i \in DOMAIN votes : opinion[i] = "deny")'
      <4>1. denied' <=> (denied \/ opinion[n + 1] = "deny")
        BY <2>3, <2>4 DEF NextVote, n
      <4>2. (\E i \in 1..(n + 1) : opinion[i] = "deny")
              <=> ((\E i \in 1..n : opinion[i] = "deny") \/ opinion[n + 1] = "deny")
        BY <2>5
      <4>. QED  BY <2>3, <2>4, <4>1, <4>2
    <3>3. ASSUME NEW i \in 1..(n + 1)
          PROVE  votes'[i] = IF \E j \in 1..i - 1 : opinion[j] = "deny"
                             THEN "silent" ELSE opinion[i]
      <4>1. CASE i = n + 1
        <5>1. 1..i - 1 = 1..n
          BY <2>3, <2>4, <4>1
        <5>2. (\E j \in 1..i - 1 : opinion[j] = "deny") <=> denied
          BY <2>3, <2>4, <5>1
        <5>. QED  BY <2>2, <4>1, <5>2 DEF NextVote, n
      <4>2. CASE i \in 1..n
        <5>1. votes'[i] = votes[i]
          BY <2>2, <4>2 DEF n
        <5>. QED  BY <2>3, <2>4, <4>2, <5>1
      <4>. QED  BY <2>5, <4>1, <4>2
    <3>. QED  BY <2>3, <2>4, <3>1, <3>2, <3>3
  <2>. QED  BY <1>2, <2>1, <2>2, <2>6 DEF Decide
<1>3. CASE Answer
  BY <1>3 DEF Answer
<1>4. CASE LogEntry
  BY <1>4 DEF LogEntry
<1>5. CASE Die
  BY <1>5 DEF Die
<1>6. CASE UNCHANGED vars
  BY <1>6 DEF vars
<1>. QED  BY <1>1, <1>2, <1>3, <1>4, <1>5, <1>6 DEF Next

\* The votes collected are the opinions up to the first deny, and nothing is
\* on the wire before they are complete.
THEOREM OrchestratorInvCorrect == Spec => []OrchestratorInv
BY OrchestratorInit, OrchestratorStep, PTL DEF Spec

\* The stage, the votes and the opinions keep to the values the code's types
\* allow: no decider's result is left without a decision.
THEOREM OrchestratorTypeCorrect == Spec => []TypeOK
<1>1. OrchestratorInv => TypeOK
  BY DEF OrchestratorInv
<1>. QED  BY <1>1, OrchestratorInvCorrect, PTL

\* Whatever the opinions and wherever the process is killed or a write fails,
\* an entry of the decision log has a vote of every decider and the verdict
\* that is on the wire, if anything is.
THEOREM LogAccountsForWire == Spec => []LogExplainsWire
<1>1. Init => LogExplainsWire
  BY DEF Init, LogExplainsWire
<1>2. OrchestratorInv /\ LogExplainsWire /\ [Next]_vars => LogExplainsWire'
  <2>. SUFFICES ASSUME OrchestratorInv, LogExplainsWire, [Next]_vars
                PROVE  LogExplainsWire'
    OBVIOUS
  <2>1. CASE LogEntry
    <3>1. CASE UNCHANGED entry
      BY <2>1, <3>1 DEF LogEntry, LogExplainsWire
    <3>2. CASE entry' = <<[votes |-> votes, verdict |-> Combine(votes)]>>
      <4>1. Len(votes) = N /\ wire' = wire /\ wire \in {OnWire(Combine(votes)), Nothing}
        BY <2>1 DEF LogEntry, OrchestratorInv, OrderInv
      <4>2. OnWire(Combine(votes)) \in {Combine(votes), Nothing}
        BY DEF OnWire
      <4>. QED  BY <3>2, <4>1, <4>2 DEF LogExplainsWire
    <3>. QED  BY <2>1, <3>1, <3>2 DEF LogEntry
  <2>2. CASE ReadInput \/ Decide \/ Answer
    <3>1. entry = <<>> /\ entry' = <<>>
      BY <2>2 DEF ReadInput, Decide, Answer, OrchestratorInv, OrderInv
    <3>. QED  BY <3>1 DEF LogExplainsWire
  <2>3. CASE Die \/ UNCHANGED vars
    BY <2>3 DEF Die, vars, LogExplainsWire
  <2>. QED  BY <2>1, <2>2, <2>3 DEF Next
<1>. QED  BY <1>1, <1>2, OrchestratorInvCorrect, PTL DEF Spec

-----------------------------------------------------------------------------
(***************************************************************************)
(* The refinement.                                                         *)
(***************************************************************************)

\* A verdict of the collected votes is a verdict of the opinions.
LEMMA ShortCircuitIsSound ==
    ASSUME OrchestratorInv, Len(votes) = N, NEW v \in [decision : Decisions, by : 0..N],
           IsVerdict(votes, v)
    PROVE  IsVerdict(opinion, v)
<1>. USE NIsNat DEF OrchestratorInv, TypeOK, VotesInv
<1>1. DOMAIN votes = 1..N /\ DOMAIN opinion = 1..N
  OBVIOUS
<1>2. CASE denied
  <2>1. v.decision = "deny"
    <3>1. PICK i \in DOMAIN votes : votes[i] = "deny"
      BY <1>2
    <3>2. Rank("deny") <= Rank(v.decision)
      BY <3>1, Zenon DEF IsVerdict
    <3>3. v.decision \in Decisions
      OBVIOUS
    <3>. QED  BY <3>2, <3>3 DEF Rank, Decisions
  <2>2. v.by \in 1..N /\ votes[v.by] = "deny" /\ \A j \in 1..N : j < v.by => votes[j] # "deny"
    BY <1>1, <2>1 DEF IsVerdict, IsFirst
  <2>3. opinion[v.by] = "deny" /\ \A j \in 1..v.by - 1 : opinion[j] # "deny"
    BY <1>1, <2>2
  <2>4. \A i \in 1..N : Rank(opinion[i]) <= Rank("deny")
    BY DEF Rank, Decisions
  <2>. QED  BY <1>1, <2>1, <2>2, <2>3, <2>4 DEF IsVerdict, IsFirst
<1>3. CASE ~denied
  <2>1. \A i \in 1..N : votes[i] = opinion[i]
    BY <1>1, <1>3
  <2>. QED  BY <1>1, <2>1 DEF IsVerdict, IsFirst
<1>. QED  BY <1>2, <1>3

\* Every decider's opinion counts: the loop that stops asking after a deny
\* tells Claude Code the verdict of all of them, or nothing.
THEOREM OrchestratorHonoursContract == Spec => HonoursContract
<1>1. Init => Contract!ContractInit
  BY DEF Init, Contract!ContractInit, Decisions, Contract!Decisions,
         Nothing, Contract!Nothing, NoOne, Contract!NoOne
<1>2. OrchestratorInv /\ [Next]_vars => [Contract!Deliver]_<<opinion, wire>>
  <2>. SUFFICES ASSUME OrchestratorInv, [Next]_vars, ~UNCHANGED <<opinion, wire>>
                PROVE  Contract!Deliver
    OBVIOUS
  <2>1. Answer /\ wire' = OnWire(Combine(votes)) /\ wire = Nothing /\ UNCHANGED opinion
    BY DEF Next, vars, ReadInput, Decide, Answer, LogEntry, Die, OrchestratorInv, OrderInv
  <2>2. /\ Len(votes) = N
        /\ IsVerdict(votes, Combine(votes))
        /\ Combine(votes) \in [decision : Decisions, by : 0..N]
    BY <2>1, CombineIsVerdict DEF Answer, OrchestratorInv, TypeOK
  <2>3. IsVerdict(opinion, Combine(votes))
    BY <2>2, ShortCircuitIsSound
  <2>4. /\ \A o, v : Contract!IsVerdict(o, v) <=> IsVerdict(o, v)
        /\ \A v : Contract!OnWire(v) = OnWire(v)
        /\ Contract!Nothing = Nothing /\ Contract!Decisions = Decisions
    BY DEF IsVerdict, IsFirst, Rank, OnWire, Nothing, NoOne, Decisions,
           Contract!IsVerdict, Contract!IsFirst, Contract!Rank, Contract!OnWire,
           Contract!Nothing, Contract!NoOne, Contract!Decisions
  <2>. QED  BY <2>1, <2>2, <2>3, <2>4 DEF Contract!Deliver
<1>. QED
  BY <1>1, <1>2, OrchestratorInvCorrect, PTL
  DEF Spec, HonoursContract, Contract!ContractSpec
=============================================================================
