--------------------------- MODULE ClassifierProofs ---------------------------
(***************************************************************************)
(* For every configuration, call, trip and timeout, and for model replies  *)
(* of any length: a call's counts follow its verdict, BOTH never denies on *)
(* its first stage, and nothing but a spoken no allows.                    *)
(***************************************************************************)
EXTENDS Classifier, TLAPS, FiniteSetTheorems, WellFoundedInduction

-----------------------------------------------------------------------------
(***************************************************************************)
(* Parsing a reply.                                                        *)
(***************************************************************************)

\* A nonempty set of positions has a least one.
LEMMA LeastPosition ==
    ASSUME NEW S \in SUBSET Nat, S # {}
    PROVE  Min(S) \in S /\ \A y \in S : Min(S) <= y
<1>0. S \subseteq Nat /\ S # {}
  OBVIOUS
<1>1. PICK x \in S : \A y \in S : ~(<<y, x>> \in OpToRel(<, Nat))
  BY <1>0, NatLessThanWellFounded, WFMin
<1>2. \A y \in S : ~(y < x)
  BY <1>0, <1>1 DEF OpToRel
<1>3. \A y \in S : x <= y
  BY <1>0, <1>2
<1>. QED  BY <1>3 DEF Min

\* What Parsed returns: a verdict stands outside the thoughts, and every other
\* verdict before it inside them.
LEMMA ParsedIsFirst ==
    ASSUME NEW t \in Seq(Tokens)
    PROVE  /\ Parsed(t) \in {"yes", "no", "none"}
           /\ Parsed(t) # "none" =>
                \E i \in DOMAIN t :
                    /\ t[i] = Parsed(t) /\ ~InThought(t, i)
                    /\ \A j \in 1..i - 1 : t[j] \in {"yes", "no"} => InThought(t, j)
<1>. DEFINE said == {i \in DOMAIN t : t[i] \in {"yes", "no"} /\ ~InThought(t, i)}
<1>1. DOMAIN t = 1..Len(t) /\ Len(t) \in Nat
  OBVIOUS
<1>2. CASE said = {}
  BY <1>2 DEF Parsed
<1>3. CASE said # {}
  <2>1. said \in SUBSET Nat
    BY <1>1
  <2>. DEFINE i == Min(said)
  <2>2. i \in said /\ \A y \in said : i <= y
    BY <1>3, <2>1, LeastPosition
  <2>3. Parsed(t) = t[i]
    BY <1>3 DEF Parsed
  <2>. HIDE DEF i
  <2>4. i \in 1..Len(t) /\ t[i] \in {"yes", "no"} /\ ~InThought(t, i)
    BY <1>1, <2>2
  <2>5. ASSUME NEW j \in 1..i - 1, t[j] \in {"yes", "no"} PROVE InThought(t, j)
    <3>1. j \in DOMAIN t /\ ~(i <= j)
      BY <1>1, <2>4
    <3>. QED  BY <2>2, <2>5, <3>1
  <2>. QED  BY <1>1, <2>3, <2>4, <2>5
<1>. QED  BY <1>2, <1>3

LEMMA RepliesAreTokens == Replies \subseteq Seq(Tokens)
<1>1. SeqOf(Tokens, MaxTokens) \subseteq Seq(Tokens)
  BY BoundsAreNat DEF SeqOf
<1>2. {<<>>, <<"yes">>, <<"no">>} \subseteq Seq(Tokens)
  BY DEF Tokens
<1>3. CASE cfg.twoStage = "off"
  BY <1>2, <1>3 DEF Replies
<1>4. CASE cfg.twoStage # "off"
  BY <1>1, <1>4, Zenon DEF Replies
<1>. QED  BY <1>3, <1>4

-----------------------------------------------------------------------------
(***************************************************************************)
(* Thoughts.  In a reply whose thoughts open and close in turn, what       *)
(* stripThinking drops is what has been opened and not closed.             *)
(***************************************************************************)

\* The marks m before position i, as Depth counts them.
Marks(t, i, m) == {j \in 1..i - 1 : t[j] = m}

LEMMA MarksStep ==
    ASSUME NEW t, NEW i \in Nat \ {0}, NEW m
    PROVE  /\ Cardinality(Marks(t, i, m)) \in Nat
           /\ Cardinality(Marks(t, i + 1, m))
                = Cardinality(Marks(t, i, m)) + IF t[i] = m THEN 1 ELSE 0
<1>1. IsFiniteSet(Marks(t, i, m))
  <2>1. IsFiniteSet(1..i - 1)
    BY FS_Interval
  <2>. QED  BY <2>1, FS_Subset DEF Marks
<1>2. Cardinality(Marks(t, i, m)) \in Nat
  BY <1>1, FS_CardinalityType
<1>3. (1..(i + 1) - 1) = (1..i - 1) \cup {i} /\ i \notin 1..i - 1
  OBVIOUS
<1>4. CASE t[i] = m
  <2>1. Marks(t, i + 1, m) = Marks(t, i, m) \cup {i} /\ i \notin Marks(t, i, m)
    BY <1>3, <1>4 DEF Marks
  <2>2. Cardinality(Marks(t, i, m) \cup {i}) = Cardinality(Marks(t, i, m)) + 1
    BY <1>1, <2>1, FS_AddElement
  <2>. QED  BY <1>2, <1>4, <2>1, <2>2
<1>5. CASE t[i] # m
  <2>1. Marks(t, i + 1, m) = Marks(t, i, m)
    BY <1>3, <1>5 DEF Marks
  <2>. QED  BY <1>2, <1>5, <2>1
<1>. QED  BY <1>4, <1>5

LEMMA DepthStep ==
    ASSUME NEW t, NEW i \in Nat \ {0}
    PROVE  /\ Depth(t, 1) = 0
           /\ Depth(t, i) \in Int
           /\ Depth(t, i + 1) = Depth(t, i)
                + (IF t[i] = "open" THEN 1 ELSE 0) - (IF t[i] = "close" THEN 1 ELSE 0)
<1>. DEFINE D(k) == Cardinality(Marks(t, k, "open")) - Cardinality(Marks(t, k, "close"))
<1>1. \A k : Depth(t, k) = D(k)
  BY DEF Depth, Marks
<1>2. Marks(t, 1, "open") = {} /\ Marks(t, 1, "close") = {}
  BY DEF Marks
<1>3. D(1) = 0
  BY <1>2, FS_EmptySet
<1>4. /\ Cardinality(Marks(t, i, "open")) \in Nat
      /\ Cardinality(Marks(t, i, "close")) \in Nat
      /\ Cardinality(Marks(t, i + 1, "open"))
           = Cardinality(Marks(t, i, "open")) + IF t[i] = "open" THEN 1 ELSE 0
      /\ Cardinality(Marks(t, i + 1, "close"))
           = Cardinality(Marks(t, i, "close")) + IF t[i] = "close" THEN 1 ELSE 0
  BY MarksStep
<1>. QED  BY <1>1, <1>3, <1>4

LEMMA InThoughtStep ==
    ASSUME NEW t, NEW i \in Nat \ {0}
    PROVE  /\ ~InThought(t, 1)
           /\ InThought(t, i + 1) <=> t[i] = "open" \/ (InThought(t, i) /\ t[i] # "close")
<1>1. ~InThought(t, 1)
  BY DEF InThought
<1>2. (1..(i + 1) - 1) = (1..i - 1) \cup {i}
  OBVIOUS
<1>3. \A o \in 1..i - 1 : (o + 1..(i + 1) - 1) = (o + 1..i - 1) \cup {i}
  OBVIOUS
<1>4. (i + 1..(i + 1) - 1) = {}
  OBVIOUS
<1>. QED  BY <1>1, <1>2, <1>3, <1>4 DEF InThought

LEMMA TidyThoughts ==
    ASSUME NEW t \in Seq(Tokens), Tidy(t)
    PROVE  \A i \in 1..Len(t) + 1 : InThought(t, i) <=> Depth(t, i) = 1
<1>. DEFINE Odd == {i \in 1..Len(t) + 1 : ~(InThought(t, i) <=> Depth(t, i) = 1)}
<1>0. Len(t) \in Nat
  OBVIOUS
<1>1. SUFFICES ASSUME Odd # {} PROVE FALSE
  OBVIOUS
<1>2. Odd \in SUBSET Nat
  BY <1>0
<1>. DEFINE k == Min(Odd)
<1>3. k \in Odd /\ \A y \in Odd : k <= y
  BY <1>1, <1>2, LeastPosition
<1>4. k \in 1..Len(t) + 1 /\ ~(InThought(t, k) <=> Depth(t, k) = 1)
  BY <1>3
<1>. HIDE DEF k
<1>5. k # 1
  BY <1>4, DepthStep, InThoughtStep
<1>. DEFINE i == k - 1
<1>6. i \in Nat \ {0} /\ i \in 1..Len(t) + 1 /\ k = i + 1 /\ ~(k <= i)
  BY <1>0, <1>4, <1>5
<1>7. InThought(t, i) <=> Depth(t, i) = 1
  BY <1>3, <1>6
<1>8. Depth(t, i) \in {0, 1} /\ Depth(t, k) \in {0, 1}
  BY <1>4, <1>6 DEF Tidy
<1>9. Depth(t, k) = Depth(t, i)
        + (IF t[i] = "open" THEN 1 ELSE 0) - (IF t[i] = "close" THEN 1 ELSE 0)
  BY <1>6, DepthStep
<1>10. InThought(t, k) <=> t[i] = "open" \/ (InThought(t, i) /\ t[i] # "close")
  BY <1>6, InThoughtStep
<1>. QED  BY <1>4, <1>7, <1>8, <1>9, <1>10

-----------------------------------------------------------------------------
(***************************************************************************)
(* The inductive invariant.                                                *)
(***************************************************************************)

Updates == {"reset", "block", "allow"}

LEMMA AppendFirst == \A e : Append(<<>>, e) = <<e>>
OBVIOUS

LEMMA CallInit == Init => CallInv
<1>. SUFFICES ASSUME Init PROVE CallInv
  OBVIOUS
<1>1. TypeOK
  <2>1. phase \in Phases /\ vote \in Votes /\ spent \in Nat
    BY DEF Init, Phases, Votes
  <2>2. cfg \in Configs /\ call \in Calls /\ trip \in Trips
    BY DEF Init
  <2>3. text = <<>> /\ heard = <<>> /\ updates = <<>>
    BY DEF Init
  <2>4. <<>> \in Seq(Tokens) /\ <<>> \in Seq({"yes", "no", "none"}) /\ <<>> \in Seq(Updates)
    OBVIOUS
  <2>. QED  BY <2>1, <2>2, <2>3, <2>4, Zenon DEF TypeOK, Updates
<1>. QED  BY <1>1 DEF Init, CallInv, Unsettled

LEMMA CallStep == CallInv /\ [Next]_vars => CallInv'
<1>. SUFFICES ASSUME CallInv, [Next]_vars PROVE CallInv'
  OBVIOUS
<1>. USE DEF CallInv, TypeOK, Phases, Votes, inputs, Goto, Cast, Cleared, Reached, Unsettled
<1>1. CASE CheckInput
  BY <1>1 DEF CheckInput, DoneInv
<1>2. CASE MatchProjectConfig
  BY <1>2 DEF MatchProjectConfig, DoneInv
<1>3. CASE CheckBackstop
  <2>1. updates = <<>> /\ heard = <<>> /\ UNCHANGED <<cfg, call, trip, spent, text, heard>>
    BY <1>3 DEF CheckBackstop
  <2>2. CASE ~(call.session /\ trip \in {"fresh", "aged"})
    <3>1. updates' = <<>> /\ phase' = "mode" /\ vote' = vote
      BY <1>3, <2>1, <2>2 DEF CheckBackstop
    <3>. QED  BY <1>3, <2>1, <2>2, <3>1 DEF CheckBackstop
  <2>3. CASE call.session /\ trip \in {"fresh", "aged"}
    <3>1. updates' = <<"reset">> /\ updates' \in Seq({"reset", "block", "allow"})
      <4>1. updates' = Append(<<>>, "reset")
        BY <1>3, <2>1, <2>3 DEF CheckBackstop
      <4>2. updates' = <<"reset">>
        BY <4>1, AppendFirst
      <4>3. <<"reset">> \in Seq({"reset", "block", "allow"})
        OBVIOUS
      <4>. QED  BY <4>2, <4>3
    <3>2. CASE trip = "fresh"
      BY <1>3, <2>1, <2>3, <3>1, <3>2 DEF CheckBackstop, DoneInv
    <3>3. CASE trip = "aged"
      BY <1>3, <2>1, <2>3, <3>1, <3>3 DEF CheckBackstop
    <3>. QED  BY <2>3, <3>2, <3>3
  <2>. QED  BY <2>2, <2>3
<1>4. CASE CheckPermissionMode
  BY <1>4 DEF CheckPermissionMode, DoneInv
<1>5. CASE CheckSkippable
  BY <1>5 DEF CheckSkippable, DoneInv
<1>6. CASE Prepare
  BY <1>6 DEF Prepare, DoneInv, OnError, Configs
<1>7. CASE Reply
  <2>1. PICK t \in Replies :
          /\ text' = t
          /\ heard' = Append(heard, Parsed(t))
          /\ phase' = IF Escalates(Parsed(t)) THEN "stage2" ELSE "count"
    BY <1>7 DEF Reply
  <2>2. t \in Seq(Tokens) /\ Parsed(t) \in {"yes", "no", "none"}
    BY <2>1, RepliesAreTokens, ParsedIsFirst
  <2>3. /\ heard' \in Seq({"yes", "no", "none"}) /\ Len(heard') = Len(heard) + 1
        /\ heard' # <<>> /\ Last(heard') = Parsed(text')
        /\ Len(heard) > 0 => heard'[1] = heard[1]
    BY <2>1, <2>2 DEF Last
  <2>4. UNCHANGED <<cfg, call, trip, spent, updates, vote>>
    BY <1>7 DEF Reply
  <2>5. CASE phase = "stage1"
    <3>1. Len(heard') = 1 /\ heard'[1] = Parsed(t) /\ updates = Cleared
      BY <2>1, <2>3, <2>5 DEF Last
    <3>2. CASE Escalates(Parsed(t))
      BY <2>1, <2>2, <2>3, <2>4, <2>5, <3>1, <3>2 DEF Escalates
    <3>3. CASE ~Escalates(Parsed(t))
      BY <2>1, <2>2, <2>3, <2>4, <2>5, <3>1, <3>3 DEF Escalates, Settled
    <3>. QED  BY <3>2, <3>3
  <2>6. CASE phase = "stage2"
    <3>1. /\ cfg.twoStage = "both" /\ Len(heard') = 2 /\ heard'[1] # "no"
          /\ phase' = "count" /\ updates = Cleared
      BY <2>1, <2>3, <2>6 DEF Escalates
    <3>. QED  BY <2>1, <2>2, <2>3, <2>4, <2>6, <3>1 DEF Settled
  <2>. QED  BY <1>7, <2>5, <2>6 DEF Reply, InProvider
<1>8. CASE ConverseFails
  BY <1>8 DEF ConverseFails, InProvider, DoneInv, OnError, Configs
<1>9. CASE Expire
  BY <1>8, <1>9 DEF Expire
<1>10. CASE Tick
  BY <1>10 DEF Tick, InProvider, Settled, Counted, DoneInv
<1>11. CASE CountVerdict
  <2>1. updates' \in Seq({"reset", "block", "allow"}) /\ updates' = Counted'
    BY <1>11 DEF CountVerdict, Counted, ShouldBlock
  <2>2. Settled' /\ phase' = "cast"
    BY <1>11 DEF CountVerdict, Settled
  <2>. QED  BY <1>11, <2>1, <2>2 DEF CountVerdict
<1>12. CASE VerdictVote
  BY <1>12 DEF VerdictVote, DoneInv, Settled, Counted, ShouldBlock
<1>13. CASE Die
  BY <1>13 DEF Die, Settled
<1>14. CASE UNCHANGED vars
  BY <1>14 DEF vars, Settled, Counted, ShouldBlock, DoneInv
<1>. QED
  BY <1>1, <1>2, <1>3, <1>4, <1>5, <1>6, <1>7, <1>8, <1>9, <1>10, <1>11, <1>12,
     <1>13, <1>14 DEF Next

\* Each phase of runPipeline keeps what the replies so far have settled.
THEOREM CallInvCorrect == Spec => []CallInv
BY CallInit, CallStep, PTL DEF Spec

-----------------------------------------------------------------------------
(***************************************************************************)
(* What follows from it.                                                   *)
(***************************************************************************)

\* Type correctness: every failure votes as a decision the config allows.
THEOREM ClassifierTypeCorrect == Spec => []TypeOK
<1>1. CallInv => TypeOK
  BY DEF CallInv
<1>. QED  BY <1>1, CallInvCorrect, PTL

\* In BOTH mode a deny has been confirmed by the second stage, and a first
\* stage that said no is final.
THEOREM PrefilterIsNotFinal == Spec => []PrefilterNeverDenies
<1>1. CallInv => PrefilterNeverDenies
  <2>. SUFFICES ASSUME CallInv, cfg.twoStage = "both"
                PROVE  /\ vote = "deny" => Len(heard) = 2
                       /\ Len(heard) = 2 => heard[1] # "no"
                       /\ Len(heard) <= 2
    BY DEF PrefilterNeverDenies
  <2>1. Len(heard) = 2 => heard[1] # "no"
    BY DEF CallInv, Settled, Unsettled
  <2>2. Len(heard) <= 2
    <3>. DEFINE n == Len(heard)
    <3>1. heard = <<>> => n = 0
      OBVIOUS
    <3>2. n = 0 \/ n = 1 \/ n = 2
      BY <3>1 DEF CallInv, Unsettled, Settled
    <3>. HIDE DEF n
    <3>3. n <= 2
      BY <3>2
    <3>. QED  BY <3>3 DEF n
  <2>3. ASSUME vote = "deny" PROVE Len(heard) = 2
    <3>1. Settled /\ Last(heard) # "no"
      BY <2>3 DEF CallInv, DoneInv, ShouldBlock
    <3>. QED  BY <3>1 DEF Settled, Last
  <2>. QED  BY <2>1, <2>2, <2>3
<1>. QED  BY <1>1, CallInvCorrect, PTL

\* A finished call has made exactly the updates its input and its vote call
\* for: the reset of a trip it saw, asked about or aged out, then a block for a
\* deny or an allow for a no, and for a failure nothing.
THEOREM CountsAreFaithful == Spec => []CountsFollowVerdicts
<1>1. CallInv => CountsFollowVerdicts
  <2>. SUFFICES ASSUME CallInv, phase = "done" PROVE CountsFollowVerdicts
    BY DEF CountsFollowVerdicts
  <2>. USE DEF Cleared, ShouldBlock, SawTrip, Reached
  <2>0. DoneInv /\ trip \in Trips /\ (heard # <<>> => Last(heard) \in {"yes", "no", "none"})
    BY DEF CallInv, TypeOK, Last
  <2>1. CASE vote = "silent" /\ heard = <<>> /\ updates = <<>> /\ ~Reached
    BY <2>1 DEF CountsFollowVerdicts, Owed, ModelAllowed
  <2>2. CASE /\ vote = "ask" /\ heard = <<>> /\ Reached
             /\ call.session /\ trip = "fresh" /\ updates = <<"reset">>
    BY <2>2 DEF CountsFollowVerdicts, Owed, ModelAllowed
  <2>3. ASSUME Reached, ~(call.session /\ trip = "fresh")
        PROVE  Cleared = IF SawTrip THEN <<"reset">> ELSE <<>>
    BY <2>3
  <2>4. CASE /\ Reached /\ ~(call.session /\ trip = "fresh")
             /\ \/ vote = "silent" /\ heard = <<>> /\ updates = Cleared
                \/ vote \in {"passthrough", "ask"} /\ Unsettled /\ updates = Cleared
    BY <2>3, <2>4 DEF CountsFollowVerdicts, Owed, ModelAllowed
  <2>5. CASE /\ Reached /\ ~(call.session /\ trip = "fresh")
             /\ vote \in IF ShouldBlock THEN {"deny"} ELSE {"silent", "allow"}
             /\ Settled /\ updates = Counted
    <3>1. heard # <<>>
      BY <2>5 DEF Settled
    <3>2. ~(SawTrip /\ trip = "fresh")
      BY <2>5
    <3>3. vote = "deny" <=> Last(heard) \in {"yes", "none"}
      BY <2>0, <2>5, <3>1
    <3>4. updates = Owed
      BY <2>3, <2>5, <3>1 DEF Counted, Owed, ModelAllowed
    <3>. QED  BY <3>1, <3>2, <3>3, <3>4 DEF CountsFollowVerdicts
  <2>. QED  BY <2>0, <2>1, <2>2, <2>4, <2>5 DEF DoneInv
<1>. QED  BY <1>1, CallInvCorrect, PTL

\* Nothing but a spoken no allows, for replies of any length whose thoughts do
\* not nest: what the classifier has heard is what the model said outside them.
THEOREM AllowsAreSpoken == Spec => []AllowIsSpoken
<1>1. CallInv => AllowIsSpoken
  <2>. SUFFICES ASSUME CallInv, vote = "allow", Tidy(text)
                PROVE  \E i \in DOMAIN text :
                          /\ text[i] = "no" /\ Depth(text, i) = 0
                          /\ \A j \in 1..i - 1 : text[j] = "yes" => Depth(text, j) = 1
    BY DEF AllowIsSpoken
  <2>1. heard # <<>> /\ Last(heard) = "no"
    BY DEF CallInv, DoneInv, ShouldBlock, Settled
  <2>2. text \in Seq(Tokens) /\ Parsed(text) = "no"
    BY <2>1 DEF CallInv, TypeOK
  <2>3. PICK i \in DOMAIN text :
          /\ text[i] = "no" /\ ~InThought(text, i)
          /\ \A j \in 1..i - 1 : text[j] \in {"yes", "no"} => InThought(text, j)
    BY <2>2, ParsedIsFirst
  <2>4. /\ i \in 1..Len(text) + 1 /\ 1..i - 1 \subseteq 1..Len(text) + 1
    BY <2>2
  <2>5. Depth(text, i) = 0
    BY <2>2, <2>3, <2>4, TidyThoughts DEF Tidy
  <2>6. \A j \in 1..i - 1 : text[j] = "yes" => Depth(text, j) = 1
    BY <2>2, <2>3, <2>4, TidyThoughts
  <2>. QED  BY <2>3, <2>5, <2>6
<1>. QED  BY <1>1, CallInvCorrect, PTL
=============================================================================
