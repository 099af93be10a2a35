--------------------------- MODULE StaticBashProofs ---------------------------
(***************************************************************************)
(* For every syntax tree, configuration, file system and hook input, and   *)
(* whatever the conditions inside other conditions say: an allow vote is   *)
(* an evaluation in which every node cleared, however deep the nesting; no *)
(* evaluation names as a command a file it has written, by names that are  *)
(* seen through; what this host grants does not hold on a remote one; the  *)
(* closest project's rules decide about the commands they name; without    *)
(* rules only calls that a checker has passed are allowed; and a command   *)
(* whose rules list its flags is read by the parser as that list says.     *)
(***************************************************************************)
EXTENDS StaticBash, TLAPS, SequenceTheorems, NaturalsInduction, WellFoundedInduction

-----------------------------------------------------------------------------
(***************************************************************************)
(* The stack of evaluations.                                               *)
(***************************************************************************)

\* The first element is replaced.
LEMMA ReplaceTop ==
    ASSUME NEW S, NEW s \in Seq(S), s # <<>>, NEW e \in S
    PROVE  /\ <<e>> \o Tail(s) \in Seq(S)
           /\ Len(<<e>> \o Tail(s)) = Len(s)
           /\ (<<e>> \o Tail(s))[1] = e
           /\ \A i \in 2..Len(s) : (<<e>> \o Tail(s))[i] = s[i]
<1>1. /\ Tail(s) \in Seq(S)
      /\ Len(Tail(s)) = Len(s) - 1
      /\ \A i \in 1..Len(Tail(s)) : Tail(s)[i] = s[i + 1]
  BY HeadTailProperties
<1>2. <<e>> \in Seq(S) /\ Len(<<e>>) = 1 /\ <<e>>[1] = e
  OBVIOUS
<1>3. Len(s) \in Nat \ {0}
  BY EmptySeq
<1>. DEFINE t == Tail(s)
            h == <<e>>
<1>. HIDE DEF t, h
<1>4. /\ h \o t \in Seq(S)
      /\ Len(h \o t) = Len(h) + Len(t)
      /\ \A i \in 1..Len(h) + Len(t) : (h \o t)[i] = IF i <= Len(h) THEN h[i] ELSE t[i - Len(h)]
  BY <1>1, <1>2, ConcatProperties DEF t, h
<1>5. Len(h) = 1 /\ h[1] = e /\ Len(t) = Len(s) - 1 /\ \A i \in 1..Len(t) : t[i] = s[i + 1]
  BY <1>1, <1>2 DEF t, h
<1>6. ASSUME NEW i \in 2..Len(s) PROVE (h \o t)[i] = s[i]
  <2>1. (h \o t)[i] = t[i - 1]
    BY <1>3, <1>4, <1>5
  <2>2. i - 1 \in 1..Len(t) /\ (i - 1) + 1 = i
    BY <1>3, <1>5
  <2>. QED  BY <1>5, <2>1, <2>2
<1>7. Len(h \o t) = Len(s) /\ (h \o t)[1] = e
  BY <1>3, <1>4, <1>5
<1>. QED  BY <1>4, <1>6, <1>7 DEF t, h

\* An element is pushed.
LEMMA PushTop ==
    ASSUME NEW S, NEW s \in Seq(S), NEW e \in S
    PROVE  /\ <<e>> \o s \in Seq(S)
           /\ Len(<<e>> \o s) = Len(s) + 1
           /\ (<<e>> \o s)[1] = e
           /\ \A i \in 2..Len(s) + 1 : (<<e>> \o s)[i] = s[i - 1]
<1>. DEFINE h == <<e>>
<1>1. h \in Seq(S) /\ Len(h) = 1 /\ h[1] = e
  OBVIOUS
<1>2. Len(s) \in Nat
  OBVIOUS
<1>. HIDE DEF h
<1>3. /\ h \o s \in Seq(S)
      /\ Len(h \o s) = Len(h) + Len(s)
      /\ \A i \in 1..Len(h) + Len(s) : (h \o s)[i] = IF i <= Len(h) THEN h[i] ELSE s[i - Len(h)]
  BY <1>1, ConcatProperties
<1>4. \A i \in 2..Len(s) + 1 : (h \o s)[i] = s[i - 1]
  BY <1>1, <1>2, <1>3
<1>5. Len(h \o s) = Len(s) + 1 /\ (h \o s)[1] = e
  BY <1>1, <1>2, <1>3
<1>. QED  BY <1>3, <1>4, <1>5 DEF h

\* The first element is dropped and the second one replaced.
LEMMA PopTop ==
    ASSUME NEW S, NEW s \in Seq(S), s # <<>>, Len(s) # 1, NEW e \in S
    PROVE  /\ <<e>> \o Tail(Tail(s)) \in Seq(S)
           /\ Len(<<e>> \o Tail(Tail(s))) = Len(s) - 1
           /\ Len(s) \in Nat /\ Len(s) >= 2
           /\ (<<e>> \o Tail(Tail(s)))[1] = e
           /\ \A i \in 2..Len(s) - 1 : (<<e>> \o Tail(Tail(s)))[i] = s[i + 1]
<1>1. /\ Tail(s) \in Seq(S)
      /\ Len(Tail(s)) = Len(s) - 1
      /\ \A i \in 1..Len(Tail(s)) : Tail(s)[i] = s[i + 1]
  BY HeadTailProperties
<1>2. Len(s) \in Nat /\ Len(s) >= 2
  <2>1. Len(s) \in Nat \ {0}
    BY EmptySeq
  <2>. QED  BY <2>1
<1>3. Tail(s) # <<>>
  <2>1. Len(Tail(s)) # 0
    BY <1>1, <1>2
  <2>. QED  BY <2>1, EmptySeq
<1>. DEFINE t == Tail(s)
            u == <<e>> \o Tail(t)
<1>. HIDE DEF t
<1>4. /\ u \in Seq(S)
      /\ Len(u) = Len(t)
      /\ u[1] = e
      /\ \A i \in 2..Len(t) : u[i] = t[i]
  BY <1>1, <1>3, ReplaceTop DEF t
<1>5. Len(t) = Len(s) - 1 /\ \A i \in 1..Len(t) : t[i] = s[i + 1]
  BY <1>1 DEF t
<1>. HIDE DEF u
<1>6. \A i \in 2..Len(s) - 1 : u[i] = s[i + 1]
  BY <1>2, <1>4, <1>5
<1>. QED  BY <1>2, <1>4, <1>5, <1>6 DEF t, u

\* The range of a sequence is that of its head and its tail.
LEMMA RangeHeadTail ==
    ASSUME NEW S, NEW s \in Seq(S), s # <<>>
    PROVE  Range(s) = {s[1]} \cup Range(Tail(s))
<1>1. /\ Tail(s) \in Seq(S)
      /\ Len(Tail(s)) = Len(s) - 1
      /\ \A i \in 1..Len(Tail(s)) : Tail(s)[i] = s[i + 1]
  BY HeadTailProperties
<1>2. Len(s) \in Nat \ {0}
  BY EmptySeq
<1>. DEFINE t == Tail(s)
<1>3. t \in Seq(S) /\ Len(t) = Len(s) - 1 /\ \A i \in 1..Len(t) : t[i] = s[i + 1]
  BY <1>1
<1>. HIDE DEF t
<1>4. Range(s) = {s[i] : i \in 1..Len(s)} /\ Range(t) = {t[i] : i \in 1..Len(t)}
  BY <1>3, RangeEquality
<1>5. Range(s) \subseteq {s[1]} \cup Range(t)
  <2>1. ASSUME NEW i \in 1..Len(s), i # 1 PROVE s[i] \in Range(t)
    <3>1. i - 1 \in 1..Len(t) /\ (i - 1) + 1 = i
      BY <1>2, <1>3, <2>1
    <3>. QED  BY <1>3, <1>4, <3>1
  <2>. QED  BY <1>4, <2>1
<1>6. {s[1]} \cup Range(t) \subseteq Range(s)
  <2>1. ASSUME NEW i \in 1..Len(t) PROVE t[i] \in Range(s)
    <3>1. i + 1 \in 1..Len(s)
      BY <1>2, <1>3
    <3>. QED  BY <1>3, <1>4, <3>1
  <2>2. s[1] \in Range(s)
    BY <1>2, <1>4
  <2>. QED  BY <1>4, <2>1, <2>2
<1>. QED  BY <1>5, <1>6 DEF t

LEMMA RangeAppend ==
    ASSUME NEW S, NEW s \in Seq(S), NEW e \in S
    PROVE  Range(Append(s, e)) = Range(s) \cup {e}
<1>1. Append(s, e) = s \o <<e>>
  BY AppendIsConcat
<1>2. <<e>> \in Seq(S) /\ Range(<<e>>) = {e}
  BY DEF Range
<1>3. Range(s \o <<e>>) = Range(s) \cup Range(<<e>>)
  BY <1>2, RangeConcatenation
<1>. QED  BY <1>1, <1>2, <1>3

\* What is in two sequences is in their concatenation.
LEMMA RangeOfBoth ==
    ASSUME NEW a, a \in Seq(Range(a)), NEW b, b \in Seq(Range(b))
    PROVE  /\ Range(a \o b) = Range(a) \cup Range(b)
           /\ a \o b \in Seq(Range(a \o b))
<1>. DEFINE S == Range(a) \cup Range(b)
<1>1. a \in Seq(S) /\ b \in Seq(S)
  BY SeqMonotonic
<1>. HIDE DEF S
<1>2. Range(a \o b) = S
  BY <1>1, RangeConcatenation DEF S
<1>3. a \o b \in Seq(S)
  BY <1>1
<1>. QED  BY <1>2, <1>3 DEF S

-----------------------------------------------------------------------------
(***************************************************************************)
(* The evaluations.                                                        *)
(***************************************************************************)

\* Sound is about the script, scope, trace and to-do list of a frame, and
\* lasts while evaluations are cleared.
LEMMA SoundStays ==
    ASSUME NEW f, NEW g, Sound(f),
           g.script = f.script, g.scope = f.scope, g.trace = f.trace, g.todo = f.todo,
           UNCHANGED <<config, ruleSet>>, cleared \subseteq cleared'
    PROVE  Sound(g)'
<1>1. Complete(g)
  BY DEF Sound, Complete
<1>2. \A r : Vouched(f, r) => Vouched(g, r)'
  BY DEF Vouched
<1>3. ASSUME NEW n \in Range(g.trace) PROVE Justified(g, n)'
  <2>1. Justified(f, n)
    BY <1>3 DEF Sound
  <2>2. CASE n.k # "dispatch"
    BY <2>1, <2>2 DEF Justified
  <2>3. CASE n.k = "dispatch"
    <3>1. PICK accepted \in SUBSET AskedOf(f, n.call) :
              /\ Allowed(ruleSet, config, f.scope, n.call, accepted)
              /\ \A r \in accepted : Vouched(f, r)
      BY <2>1, <2>3 DEF Justified
    <3>2. AskedOf(g, n.call)' = AskedOf(f, n.call)
      BY DEF AskedOf
    <3>3. Allowed(ruleSet, config, g.scope, n.call, accepted)'
      BY <3>1
    <3>4. \A r \in accepted : Vouched(g, r)'
      BY <1>2, <3>1
    <3>. QED  BY <2>3, <3>1, <3>2, <3>3, <3>4 DEF Justified
  <2>. QED  BY <2>2, <2>3
<1>. QED  BY <1>1, <1>3 DEF Sound, Complete

LEMMA AskingStays ==
    ASSUME NEW f, Asking(f), UNCHANGED <<config, ruleSet>>, cleared \subseteq cleared'
    PROVE  Asking(f)'
<1>1. \A r : Vouched(f, r) => Vouched(f, r)'
  BY DEF Vouched
<1>. QED  BY <1>1 DEF Asking, AskedOf

\* What is asked about a call is a nested command.
LEMMA AskedAreRequests ==
    ASSUME WalkInv, frames # <<>>, NEW f \in Frame, NEW call \in Calls
    PROVE  AskedOf(f, call) \subseteq Request
<1>1. config \in Configs /\ input.root \in Roots /\ f.scope \in Scope
  BY DEF WalkInv, TypeOK, Roots, Frame
<1>2. ruleSet = resolveRules(config, input.root)
  BY DEF WalkInv
<1>. QED  BY <1>1, <1>2, WalkAssumption DEF AskedOf

\* A new evaluation has visited nothing.
LEMMA NewFrameStarts ==
    ASSUME NEW script \in Seq(Node), NEW scope \in Scope, NEW request \in Request \cup {NoRequest}
    PROVE  LET f == NewFrame(script, scope, request)
           IN  /\ f \in Frame
               /\ f.script = script /\ f.scope = scope /\ f.request = request
               /\ Sound(f) /\ Asking(f) /\ Recorded(f)
               /\ Sound(f)' /\ Asking(f)' /\ Recorded(f)'
<1>. DEFINE f == NewFrame(script, scope, request)
<1>1. /\ f.script = script /\ f.scope = scope /\ f.request = request /\ f.todo = script
      /\ f.trace = <<>> /\ f.writtenPaths = {} /\ f.matched = <<>>
      /\ f.asked = {} /\ f.accepted = {}
  BY DEF NewFrame
<1>2. f \in Frame
  BY DEF NewFrame, Frame
<1>. HIDE DEF f
<1>3. Range(f.trace) = {} /\ DOMAIN f.trace = {}
  BY <1>1 DEF Range
<1>4. Sound(f) /\ Sound(f)'
  BY <1>1, <1>3 DEF Sound, Complete
<1>5. Asking(f) /\ Asking(f)'
  BY <1>1 DEF Asking
<1>6. Recorded(f) /\ Recorded(f)'
  BY <1>3 DEF Recorded
<1>. QED  BY <1>1, <1>2, <1>4, <1>5, <1>6 DEF f

\* The invariant holds at first.
LEMMA WalkInit == Init => WalkInv
<1>. SUFFICES ASSUME Init PROVE WalkInv
  OBVIOUS
<1>1. frames = <<>> /\ DOMAIN frames = {} /\ cleared = {} /\ vote = Pending
  BY DEF Init
<1>2. TypeOK
  BY DEF Init, TypeOK, Pending
<1>3. vote.decision # "allow"
  BY <1>1 DEF Pending
<1>. QED  BY <1>1, <1>2, <1>3 DEF WalkInv

\* A step inside the innermost evaluation.
LEMMA TopStep ==
    ASSUME WalkInv, frames # <<>>, NEW g \in Frame,
           frames' = <<g>> \o Tail(frames),
           g.script = Top.script, g.scope = Top.scope, g.request = Top.request,
           Sound(g), Asking(g), Recorded(g),
           UNCHANGED <<config, input, ruleSet, vote, cleared>>
    PROVE  WalkInv'
<1>. DEFINE n == Len(frames)
<1>1. frames \in Seq(Frame) /\ n \in Nat \ {0} /\ DOMAIN frames = 1..n
  <2>1. frames \in Seq(Frame)
    BY DEF WalkInv, TypeOK
  <2>. QED  BY <2>1, EmptySeq, LenProperties
<1>2. /\ frames' \in Seq(Frame) /\ Len(frames') = n /\ DOMAIN frames' = 1..n
      /\ frames'[1] = g
      /\ \A i \in 2..n : frames'[i] = frames[i]
  <2>1. /\ frames' \in Seq(Frame) /\ Len(frames') = n /\ frames'[1] = g
        /\ \A i \in 2..n : frames'[i] = frames[i]
    BY <1>1, ReplaceTop
  <2>. QED  BY <2>1, LenProperties
<1>. HIDE DEF n
<1>3. TypeOK'
  BY <1>2 DEF WalkInv, TypeOK
<1>4. frames' # <<>>
  BY <1>1, <1>2
<1>5. \A i \in 1..n : /\ frames'[i].script = frames[i].script
                      /\ frames'[i].scope = frames[i].scope
                      /\ frames'[i].request = frames[i].request
  <2>1. ASSUME NEW i \in 1..n, i # 1 PROVE frames'[i] = frames[i]
    BY <1>1, <1>2, <2>1
  <2>. QED  BY <1>2, <2>1 DEF Top
<1>6. OfInput(frames[Len(frames)])'
  <2>1. OfInput(frames[n])
    BY DEF WalkInv, n
  <2>2. Len(frames)' = n /\ n \in 1..n
    BY <1>1, <1>2
  <2>. QED  BY <1>5, <2>1, <2>2 DEF OfInput
<1>7. ASSUME NEW i \in 1..n
      PROVE  Sound(frames[i])' /\ Asking(frames[i])' /\ Recorded(frames[i])'
  <2>1. CASE i = 1
    <3>1. Sound(g)' /\ Asking(g)' /\ Recorded(g)'
      BY SoundStays, AskingStays DEF Recorded
    <3>. QED  BY <1>2, <2>1, <3>1
  <2>2. CASE i # 1
    <3>1. Sound(frames[i]) /\ Asking(frames[i]) /\ Recorded(frames[i])
      BY <1>1, <1>7 DEF WalkInv
    <3>2. frames'[i] = frames[i]
      BY <1>1, <1>2, <1>7, <2>2
    <3>3. PICK f : f = frames[i]
      OBVIOUS
    <3>4. Sound(f) /\ Asking(f) /\ Recorded(f)
      BY <3>1, <3>3
    <3>5. Sound(f)' /\ Asking(f)' /\ Recorded(f)'
      BY <3>4, SoundStays, AskingStays DEF Recorded
    <3>. QED  BY <3>2, <3>3, <3>5
  <2>. QED  BY <2>1, <2>2
<1>8. ASSUME NEW i \in 1..n, i + 1 \in 1..n PROVE CalledBy(frames[i], frames[i + 1])'
  <2>1. CalledBy(frames[i], frames[i + 1])
    BY <1>1, <1>8 DEF WalkInv
  <2>2. frames'[i + 1] = frames[i + 1]
    BY <1>1, <1>2, <1>8
  <2>. QED  BY <1>5, <2>1, <2>2 DEF CalledBy, AskedOf
<1>9. ASSUME NEW i \in 1..n PROVE NoRemoteCwd(i)' /\ "cwd" \in DOMAIN frames'[i].scope
  <2>1. NoRemoteCwd(i) /\ "cwd" \in DOMAIN frames[i].scope
    BY <1>1, <1>9 DEF WalkInv
  <2>2. \A j \in i..n : j \in 1..n
    BY <1>1, <1>9
  <2>3. Len(frames) = n /\ Len(frames)' = n
    BY <1>2 DEF n
  <2>. QED  BY <1>5, <1>9, <2>1, <2>2, <2>3 DEF NoRemoteCwd
<1>10. ASSUME NEW f \in cleared PROVE f.todo = <<>> /\ Sound(f)' /\ Recorded(f)'
  <2>1. f.todo = <<>> /\ Sound(f) /\ Recorded(f)
    BY DEF WalkInv
  <2>. QED  BY <2>1, SoundStays DEF Recorded
<1>11. vote = Pending /\ vote.decision # "allow"
  BY DEF WalkInv, Pending
<1>12. ruleSet = resolveRules(config, input.root)
  BY DEF WalkInv
<1>. QED  BY <1>2, <1>3, <1>4, <1>6, <1>7, <1>8, <1>9, <1>10, <1>11, <1>12 DEF WalkInv

\* A node is visited, and its children are next.
LEMMA VisitStep == WalkInv /\ Visit => WalkInv'
<1>. SUFFICES ASSUME WalkInv, Visit PROVE WalkInv'
  OBVIOUS
<1>1. frames # <<>> /\ Top.todo # <<>> /\ frames \in Seq(Frame)
  BY DEF Visit, Walking, WalkInv, TypeOK
<1>2. PICK f \in Frame, n \in Node : f = Top /\ n = Current /\ n = f.todo[1]
  <2>1. Top \in Frame
    BY <1>1, EmptySeq, ElementOfSeq DEF Top
  <2>2. Top.todo \in Seq(Node)
    BY <2>1 DEF Frame
  <2>3. Current \in Node
    BY <1>1, <2>2 DEF Current
  <2>. QED  BY <2>1, <2>3 DEF Current
<1>3. /\ n.k # "dispatch" /\ IsSafe(config, f.scope, n) /\ ~isWrittenPath(f, n)
      /\ f.todo \in Seq(Node) /\ f.todo # <<>> /\ f.trace \in Seq(Node)
      /\ f.scope \in Scope /\ f.writtenPaths \in SUBSET Paths
  BY <1>1, <1>2 DEF Visit, Frame
<1>4. Sound(f) /\ Asking(f) /\ Recorded(f)
  <2>1. 1 \in DOMAIN frames
    BY <1>1
  <2>. QED  BY <1>2, <2>1 DEF WalkInv, Top
<1>5. Kids(n) \in Seq(Node) /\ Tail(f.todo) \in Seq(Node)
  BY <1>3, WalkAssumption
<1>6. PICK g : g = [f EXCEPT !.todo = Kids(n) \o Tail(f.todo),
                             !.trace = Append(f.trace, n),
                             !.writtenPaths = recordWrittenPath(f, n)]
  OBVIOUS
<1>7. /\ g.todo = Kids(n) \o Tail(f.todo)
      /\ g.trace = Append(f.trace, n)
      /\ g.writtenPaths = recordWrittenPath(f, n)
      /\ g.script = f.script /\ g.scope = f.scope /\ g.request = f.request
      /\ g.asked = f.asked /\ g.accepted = f.accepted /\ g.matched = f.matched
  BY <1>6 DEF Frame
<1>8. g \in Frame
  <2>1. g.todo \in Seq(Node) /\ g.trace \in Seq(Node)
    BY <1>3, <1>5, <1>7
  <2>2. g.writtenPaths \in SUBSET Paths
    BY <1>3, <1>7 DEF recordWrittenPath, Paths
  <2>. QED  BY <1>6, <1>7, <2>1, <2>2 DEF Frame
<1>9. Sound(g)
  <2>1. Range(g.trace) = Range(f.trace) \cup {n}
    BY <1>3, <1>7, RangeAppend
  <2>2. Range(f.todo) = {n} \cup Range(Tail(f.todo))
    BY <1>2, <1>3, RangeHeadTail
  <2>3. Range(g.todo) = Range(Kids(n)) \cup Range(Tail(f.todo))
    BY <1>5, <1>7, RangeConcatenation
  <2>4. Complete(g)
    <3>. HIDE <1>6
    <3>. QED  BY <1>4, <1>7, <2>1, <2>2, <2>3 DEF Sound, Complete
  <2>5. ASSUME NEW m \in Range(g.trace) PROVE Justified(g, m)
    <3>1. CASE m = n
      BY <1>3, <1>7, <3>1 DEF Justified
    <3>2. CASE m \in Range(f.trace)
      <4>1. Justified(f, m)
        BY <1>4, <3>2 DEF Sound
      <4>. QED  BY <1>7, <4>1 DEF Justified, AskedOf, Vouched
    <3>. QED  BY <2>1, <2>5, <3>1, <3>2
  <2>. QED  BY <2>4, <2>5 DEF Sound
<1>10. Asking(g)
  <2>1. f.asked = {} /\ f.accepted = {}
    BY <1>2, <1>3, <1>4 DEF Asking
  <2>. QED  BY <1>7, <2>1 DEF Asking
<1>11. Recorded(g)
  <2>. DEFINE t == f.trace
              u == g.trace
              l == Len(t)
  <2>1. l \in Nat /\ DOMAIN t = 1..l
    BY <1>3, LenProperties
  <2>2. /\ u \in Seq(Node) /\ Len(u) = l + 1 /\ u[l + 1] = n
        /\ \A i \in 1..l : u[i] = t[i]
    BY <1>3, <1>7, AppendProperties
  <2>3. DOMAIN u = 1..l + 1
    BY <2>2, LenProperties
  <2>4. /\ \A i \in DOMAIN t : IsOutput(t[i]) => Resolved(f.scope, t[i]) \in f.writtenPaths
        /\ \A i, j \in DOMAIN t :
              i < j /\ IsOutput(t[i]) /\ t[j].k = "call" =>
                  \/ Resolved(f.scope, t[j]) = NoPath
                  \/ Resolved(f.scope, t[j]) # Resolved(f.scope, t[i])
    BY <1>4 DEF Recorded
  <2>. HIDE DEF t, u, l
  <2>5. f.writtenPaths \subseteq g.writtenPaths
    BY <1>7 DEF recordWrittenPath
  <2>6. IsOutput(n) => Resolved(f.scope, n) \in g.writtenPaths
    BY <1>7 DEF recordWrittenPath
  <2>7. ASSUME n.k = "call"
        PROVE  Resolved(f.scope, n) = NoPath \/ Resolved(f.scope, n) \notin f.writtenPaths
    <3>1. n.args # <<>>
      BY <1>3, <2>7 DEF IsSafe, IsCallable
    <3>. QED  BY <1>3, <2>7, <3>1 DEF isWrittenPath
  <2>8. ASSUME NEW i \in 1..l + 1, IsOutput(u[i])
        PROVE  Resolved(f.scope, u[i]) \in g.writtenPaths
    <3>1. CASE i \in 1..l
      BY <2>1, <2>2, <2>4, <2>5, <2>8, <3>1
    <3>2. CASE i = l + 1
      BY <2>2, <2>6, <2>8, <3>2
    <3>. QED  BY <2>1, <3>1, <3>2
  <2>9. ASSUME NEW i \in 1..l + 1, NEW j \in 1..l + 1, i < j, IsOutput(u[i]), u[j].k = "call"
        PROVE  \/ Resolved(f.scope, u[j]) = NoPath
               \/ Resolved(f.scope, u[j]) # Resolved(f.scope, u[i])
    <3>1. i \in 1..l /\ u[i] = t[i]
      BY <2>1, <2>2, <2>9
    <3>2. CASE j \in 1..l
      BY <2>1, <2>2, <2>4, <2>9, <3>1, <3>2
    <3>3. CASE j = l + 1
      BY <2>1, <2>2, <2>4, <2>7, <2>9, <3>1, <3>3
    <3>. QED  BY <2>1, <3>2, <3>3
  <2>. QED  BY <1>7, <2>3, <2>8, <2>9 DEF Recorded, u
<1>12. frames' = <<g>> \o Tail(frames)
  BY <1>2, <1>6 DEF Visit
<1>13. UNCHANGED <<config, input, ruleSet, vote, cleared>>
  BY DEF Visit
<1>. QED  BY <1>1, <1>2, <1>7, <1>8, <1>9, <1>10, <1>11, <1>12, <1>13, TopStep

\* A call is matched by its rules, and by the nested commands they accepted.
LEMMA MatchStep == WalkInv /\ Match => WalkInv'
<1>. SUFFICES ASSUME WalkInv, Match PROVE WalkInv'
  OBVIOUS
<1>1. frames # <<>> /\ Top.todo # <<>> /\ frames \in Seq(Frame)
  BY DEF Match, Dispatched, Walking, WalkInv, TypeOK
<1>2. PICK f \in Frame, n \in Node : f = Top /\ n = Current /\ n = f.todo[1]
  <2>1. Top \in Frame
    BY <1>1, EmptySeq, ElementOfSeq DEF Top
  <2>2. Top.todo \in Seq(Node)
    BY <2>1 DEF Frame
  <2>3. Current \in Node
    BY <1>1, <2>2 DEF Current
  <2>. QED  BY <2>1, <2>3 DEF Current
<1>3. /\ n.k = "dispatch" /\ Allows(f, n.call)
      /\ f.todo \in Seq(Node) /\ f.todo # <<>> /\ f.trace \in Seq(Node)
      /\ f.matched \in Seq(Names)
  BY <1>1, <1>2 DEF Match, Dispatched, Frame
<1>4. Sound(f) /\ Asking(f) /\ Recorded(f)
  <2>1. 1 \in DOMAIN frames
    BY <1>1
  <2>. QED  BY <1>2, <2>1 DEF WalkInv, Top
<1>5. PICK g : g = [f EXCEPT !.todo = Tail(f.todo),
                             !.trace = Append(f.trace, n),
                             !.matched = Append(f.matched, CommandName(n.call.args[1])),
                             !.asked = {},
                             !.accepted = {}]
  OBVIOUS
<1>6. /\ g.todo = Tail(f.todo)
      /\ g.trace = Append(f.trace, n)
      /\ g.matched = Append(f.matched, CommandName(n.call.args[1]))
      /\ g.script = f.script /\ g.scope = f.scope /\ g.request = f.request
      /\ g.asked = {} /\ g.accepted = {} /\ g.writtenPaths = f.writtenPaths
  BY <1>5 DEF Frame
<1>7. g \in Frame
  <2>1. g.todo \in Seq(Node) /\ g.trace \in Seq(Node)
    BY <1>3, <1>6
  <2>2. CommandName(n.call.args[1]) \in Names
    BY <1>3 DEF Names, Calls
  <2>3. g.matched \in Seq(Names)
    BY <1>3, <1>6, <2>2
  <2>. QED  BY <1>5, <1>6, <2>1, <2>3 DEF Frame
<1>8. Kids(n) = <<>>
  BY <1>3 DEF Kids, Containers
<1>9. Sound(g)
  <2>1. Range(g.trace) = Range(f.trace) \cup {n}
    BY <1>3, <1>6, RangeAppend
  <2>2. Range(f.todo) = {n} \cup Range(g.todo)
    BY <1>2, <1>3, <1>6, RangeHeadTail
  <2>3. Range(Kids(n)) = {}
    BY <1>8 DEF Range
  <2>4. Complete(g)
    <3>. HIDE <1>5
    <3>. QED  BY <1>4, <1>6, <2>1, <2>2, <2>3 DEF Sound, Complete
  <2>5. ASSUME NEW m \in Range(g.trace) PROVE Justified(g, m)
    <3>1. CASE m = n
      <4>1. f.accepted \in SUBSET AskedOf(f, n.call) /\ \A r \in f.accepted : Vouched(f, r)
        BY <1>2, <1>4 DEF Asking
      <4>2. Allowed(ruleSet, config, f.scope, n.call, f.accepted)
        BY <1>3 DEF Allows
      <4>3. AskedOf(g, n.call) = AskedOf(f, n.call) /\ \A r : Vouched(f, r) => Vouched(g, r)
        BY <1>6 DEF AskedOf, Vouched
      <4>. QED  BY <1>3, <1>6, <3>1, <4>1, <4>2, <4>3 DEF Justified
    <3>2. CASE m \in Range(f.trace)
      <4>1. Justified(f, m)
        BY <1>4, <3>2 DEF Sound
      <4>. QED  BY <1>6, <4>1 DEF Justified, AskedOf, Vouched
    <3>. QED  BY <2>1, <2>5, <3>1, <3>2
  <2>. QED  BY <2>4, <2>5 DEF Sound
<1>10. Asking(g)
  BY <1>6 DEF Asking
<1>11. Recorded(g)
  <2>. DEFINE t == f.trace
              u == g.trace
              l == Len(t)
  <2>1. l \in Nat /\ DOMAIN t = 1..l
    BY <1>3, LenProperties
  <2>2. /\ u \in Seq(Node) /\ Len(u) = l + 1 /\ u[l + 1] = n
        /\ \A i \in 1..l : u[i] = t[i]
    BY <1>3, <1>6, AppendProperties
  <2>3. DOMAIN u = 1..l + 1
    BY <2>2, LenProperties
  <2>4. /\ \A i \in DOMAIN t : IsOutput(t[i]) => Resolved(f.scope, t[i]) \in f.writtenPaths
        /\ \A i, j \in DOMAIN t :
              i < j /\ IsOutput(t[i]) /\ t[j].k = "call" =>
                  \/ Resolved(f.scope, t[j]) = NoPath
                  \/ Resolved(f.scope, t[j]) # Resolved(f.scope, t[i])
    BY <1>4 DEF Recorded
  <2>. HIDE DEF t, u, l
  <2>5. ~IsOutput(n) /\ n.k # "call"
    BY <1>3 DEF IsOutput
  <2>6. \A i \in 1..l + 1 : IsOutput(u[i]) \/ u[i].k = "call" => i \in 1..l /\ u[i] = t[i]
    BY <2>1, <2>2, <2>5
  <2>. QED  BY <1>6, <2>1, <2>3, <2>4, <2>6 DEF Recorded, u
<1>12. frames' = <<g>> \o Tail(frames)
  BY <1>2, <1>5 DEF Match
<1>13. UNCHANGED <<config, input, ruleSet, vote, cleared>>
  BY DEF Match
<1>. QED  BY <1>1, <1>2, <1>6, <1>7, <1>9, <1>10, <1>11, <1>12, <1>13, TopStep

\* A nested evaluation starts.
LEMMA AskStep == WalkInv /\ Ask => WalkInv'
<1>. SUFFICES ASSUME WalkInv, Ask PROVE WalkInv'
  OBVIOUS
<1>. DEFINE n == Len(frames)
<1>1. frames # <<>> /\ Top.todo # <<>> /\ Current.k = "dispatch" /\ frames \in Seq(Frame)
  BY DEF Ask, Walking, WalkInv, TypeOK
<1>2. n \in Nat \ {0} /\ DOMAIN frames = 1..n /\ Top \in Frame /\ Top = frames[1]
  BY <1>1, EmptySeq, ElementOfSeq, LenProperties DEF Top
<1>3. PICK r \in AskedOf(Top, Current.call) :
          frames' = <<NewFrame(ParseCommand(r.toks), NestedScope(Top.scope, r), r)>> \o frames
  BY DEF Ask
<1>4. r \in Request
  <2>1. Top.todo \in Seq(Node)
    BY <1>2 DEF Frame
  <2>2. Current.call \in Calls
    BY <1>1, <2>1 DEF Current, Calls
  <2>. QED  BY <1>1, <1>2, <1>3, <2>2, AskedAreRequests
<1>5. ParseCommand(r.toks) \in Seq(Node) /\ NestedScope(Top.scope, r) \in Scope
  BY <1>2, <1>4, WalkAssumption DEF Frame
<1>6. PICK e : e = NewFrame(ParseCommand(r.toks), NestedScope(Top.scope, r), r)
  OBVIOUS
<1>7. /\ e \in Frame
      /\ e.script = ParseCommand(r.toks)
      /\ e.scope = NestedScope(Top.scope, r)
      /\ e.request = r
      /\ Sound(e)' /\ Asking(e)' /\ Recorded(e)'
  <2>1. PICK script, scope : script = ParseCommand(r.toks) /\ scope = NestedScope(Top.scope, r)
    OBVIOUS
  <2>. QED  BY <1>4, <1>5, <1>6, <2>1, NewFrameStarts
<1>8. UNCHANGED <<config, input, ruleSet, vote, cleared>>
  BY DEF Ask
<1>9. /\ frames' \in Seq(Frame) /\ Len(frames') = n + 1 /\ DOMAIN frames' = 1..n + 1
      /\ frames'[1] = e
      /\ \A i \in 2..n + 1 : frames'[i] = frames[i - 1]
  <2>1. frames' = <<e>> \o frames
    BY <1>3, <1>6
  <2>2. /\ frames' \in Seq(Frame) /\ Len(frames') = n + 1 /\ frames'[1] = e
        /\ \A i \in 2..n + 1 : frames'[i] = frames[i - 1]
    BY <1>1, <1>7, <2>1, PushTop
  <2>. QED  BY <2>2, LenProperties
<1>. HIDE DEF n
<1>10. TypeOK'
  BY <1>8, <1>9 DEF WalkInv, TypeOK
<1>11. frames' # <<>>
  BY <1>2, <1>9
<1>12. OfInput(frames[Len(frames)])'
  <2>1. OfInput(frames[n])
    BY <1>1 DEF WalkInv, n
  <2>2. n + 1 \in 2..n + 1 /\ (n + 1) - 1 = n
    BY <1>2
  <2>3. frames'[n + 1] = frames[n]
    BY <1>9, <2>2
  <2>. QED  BY <1>8, <1>9, <2>1, <2>3 DEF OfInput
<1>13. ASSUME NEW i \in 1..n + 1
       PROVE  Sound(frames[i])' /\ Asking(frames[i])' /\ Recorded(frames[i])'
  <2>1. CASE i = 1
    BY <1>7, <1>9, <2>1
  <2>2. CASE i # 1
    <3>1. i \in 2..n + 1 /\ i - 1 \in 1..n
      BY <1>2, <1>13, <2>2
    <3>2. PICK f : f = frames[i - 1]
      OBVIOUS
    <3>3. Sound(f) /\ Asking(f) /\ Recorded(f)
      BY <1>2, <3>1, <3>2 DEF WalkInv
    <3>4. Sound(f)' /\ Asking(f)' /\ Recorded(f)'
      BY <1>8, <3>3, SoundStays, AskingStays DEF Recorded
    <3>. QED  BY <1>9, <3>1, <3>2, <3>4
  <2>. QED  BY <2>1, <2>2
<1>14. ASSUME NEW i \in 1..n + 1, i + 1 \in 1..n + 1 PROVE CalledBy(frames[i], frames[i + 1])'
  <2>1. i + 1 \in 2..n + 1 /\ (i + 1) - 1 = i /\ i \in 1..n
    BY <1>2, <1>14
  <2>2. frames'[i + 1] = frames[i]
    BY <1>9, <2>1
  <2>3. CASE i = 1
    <3>1. CalledBy(e, Top)
      BY <1>1, <1>3, <1>7 DEF CalledBy, Current
    <3>. QED  BY <1>2, <1>8, <1>9, <2>2, <2>3, <3>1 DEF CalledBy, AskedOf
  <2>4. CASE i # 1
    <3>1. i \in 2..n + 1 /\ i - 1 \in 1..n /\ (i - 1) + 1 = i
      BY <1>2, <2>1, <2>4
    <3>2. frames'[i] = frames[i - 1]
      BY <1>9, <3>1
    <3>3. CalledBy(frames[i - 1], frames[i])
      BY <1>2, <2>1, <3>1 DEF WalkInv
    <3>. QED  BY <1>8, <2>2, <3>2, <3>3 DEF CalledBy, AskedOf
  <2>. QED  BY <2>3, <2>4
<1>15. ASSUME NEW i \in 1..n + 1 PROVE NoRemoteCwd(i)' /\ "cwd" \in DOMAIN frames'[i].scope
  <2>1. \A j \in 1..n : NoRemoteCwd(j) /\ "cwd" \in DOMAIN frames[j].scope
    BY <1>2 DEF WalkInv
  <2>2. CASE i # 1
    <3>1. i \in 2..n + 1 /\ i - 1 \in 1..n
      BY <1>2, <1>15, <2>2
    <3>2. NoRemoteCwd(i - 1) /\ "cwd" \in DOMAIN frames[i - 1].scope
      BY <2>1, <3>1
    <3>3. ASSUME NEW j \in i..n + 1
          PROVE  j - 1 \in (i - 1)..n /\ frames'[j] = frames[j - 1]
      <4>1. j \in 2..n + 1
        BY <1>2, <3>1
      <4>. QED  BY <1>2, <1>9, <3>1, <4>1
    <3>4. i \in i..n + 1 /\ Len(frames) = n /\ Len(frames)' = n + 1
      BY <1>2, <1>9, <1>15 DEF n
    <3>. QED  BY <3>2, <3>3, <3>4 DEF NoRemoteCwd
  <2>3. CASE i = 1
    <3>1. NoRemoteCwd(1) /\ "cwd" \in DOMAIN Top.scope
      BY <1>2, <2>1
    <3>2. e.scope = NestedScope(Top.scope, r)
      BY <1>7
    <3>3. /\ "cwd" \in DOMAIN e.scope
          /\ r.remote => e.scope.cwd = NoPath
          /\ ~r.remote => e.scope.cwd = Top.scope.cwd
      BY <3>1, <3>2 DEF NestedScope
    <3>4. ASSUME NEW j \in 1..n + 1, frames'[j].request.remote, ~r.remote
          PROVE  Top.scope.cwd = NoPath
      <4>1. j \in 2..n + 1 /\ j - 1 \in 1..n
        BY <1>2, <1>7, <1>9, <3>4
      <4>2. frames[j - 1].request.remote
        BY <1>9, <3>4, <4>1
      <4>. QED  BY <1>2, <3>1, <4>1, <4>2 DEF NoRemoteCwd, n
    <3>. QED  BY <1>9, <2>3, <3>3, <3>4 DEF NoRemoteCwd
  <2>. QED  BY <2>2, <2>3
<1>16. ASSUME NEW f \in cleared PROVE f.todo = <<>> /\ Sound(f)' /\ Recorded(f)'
  <2>1. f.todo = <<>> /\ Sound(f) /\ Recorded(f)
    BY DEF WalkInv
  <2>. QED  BY <1>8, <2>1, SoundStays DEF Recorded
<1>17. vote = Pending /\ vote.decision # "allow" /\ ruleSet = resolveRules(config, input.root)
  BY <1>1 DEF WalkInv, Pending
<1>. QED  BY <1>8, <1>9, <1>10, <1>11, <1>12, <1>13, <1>14, <1>15, <1>16, <1>17 DEF WalkInv

\* An evaluation ends.  Its caller takes a yes only from one that is cleared.
LEMMA ReturnStep ==
    ASSUME WalkInv, frames # <<>>, NEW allowed \in BOOLEAN, Return(allowed),
           allowed => Top.todo = <<>>,
           cleared' = IF allowed THEN cleared \cup {Top} ELSE cleared,
           UNCHANGED <<config, input, ruleSet>>
    PROVE  WalkInv'
<1>. DEFINE n == Len(frames)
<1>1. n \in Nat \ {0} /\ DOMAIN frames = 1..n /\ Top \in Frame /\ Top = frames[1]
      /\ frames \in Seq(Frame)
  <2>1. frames \in Seq(Frame)
    BY DEF WalkInv, TypeOK
  <2>. QED  BY <2>1, EmptySeq, ElementOfSeq, LenProperties DEF Top
<1>2. PICK f \in Frame : f = Top
  BY <1>1
<1>3. Sound(f) /\ Asking(f) /\ Recorded(f) /\ NoRemoteCwd(1)
  BY <1>1, <1>2 DEF WalkInv
<1>4. cleared \subseteq cleared' /\ cleared' \subseteq cleared \cup {f} /\ (allowed => f \in cleared')
  BY <1>2
<1>5. ASSUME NEW c \in cleared' PROVE c.todo = <<>> /\ Sound(c)' /\ Recorded(c)'
  <2>1. c.todo = <<>> /\ Sound(c) /\ Recorded(c)
    <3>1. CASE c \in cleared
      BY <3>1 DEF WalkInv
    <3>2. CASE c \notin cleared
      BY <1>2, <1>3, <1>5, <3>2
    <3>. QED  BY <3>1, <3>2
  <2>. QED  BY <1>4, <2>1, SoundStays DEF Recorded
<1>6. cleared' \in SUBSET Frame
  BY <1>1 DEF WalkInv, TypeOK
<1>7. CASE n = 1
  <2>1. frames' = <<>> /\ vote' = IF allowed THEN [decision |-> "allow", matched |-> f.matched] ELSE Silent
    BY <1>2, <1>7 DEF Return
  <2>2. vote' \in [decision : {"pending", "allow", "silent"}, matched : Seq(Names)]
    BY <2>1 DEF Silent, Frame
  <2>3. TypeOK'
    BY <1>6, <2>1, <2>2 DEF WalkInv, TypeOK
  <2>4. vote' # Pending
    BY <2>1 DEF Silent, Pending
  <2>5. vote'.decision = "allow" => \E c \in cleared' : OfInput(c)'
    <3>1. OfInput(f)'
      BY <1>1, <1>2, <1>7 DEF WalkInv, OfInput
    <3>2. vote'.decision = "allow" => allowed
      BY <2>1 DEF Silent
    <3>. QED  BY <1>4, <3>1, <3>2
  <2>6. DOMAIN frames' = {}
    BY <2>1
  <2>. QED  BY <1>5, <2>1, <2>3, <2>4, <2>5, <2>6, Zenon DEF WalkInv, Pending
<1>8. CASE n # 1
  <2>1. n >= 2 /\ 2 \in DOMAIN frames /\ frames[2] \in Frame
    BY <1>1, <1>8, ElementOfSeq
  <2>2. PICK h \in Frame : h = frames[2]
    BY <2>1
  <2>3. Sound(h) /\ Asking(h) /\ Recorded(h)
    BY <2>1, <2>2 DEF WalkInv
  <2>4. CalledBy(f, h)
    <3>1. 1 \in DOMAIN frames /\ 1 + 1 = 2
      BY <1>1
    <3>2. CalledBy(frames[1], frames[2])
      BY <2>1, <3>1 DEF WalkInv
    <3>. QED  BY <1>1, <1>2, <2>2, <3>2
  <2>5. PICK g : g = Answered(h, f.request, allowed)
    OBVIOUS
  <2>6. /\ g.script = h.script /\ g.scope = h.scope /\ g.request = h.request
        /\ g.trace = h.trace /\ g.todo = h.todo /\ g.writtenPaths = h.writtenPaths
        /\ g.matched = h.matched
        /\ g.asked = h.asked \cup {f.request}
        /\ g.accepted = IF allowed THEN h.accepted \cup {f.request} ELSE h.accepted
    BY <2>5 DEF Answered, Frame
  <2>7. f.request \in Request
    <3>1. h.todo \in Seq(Node) /\ h.todo # <<>> /\ h.todo[1].k = "dispatch"
          /\ f.request \in AskedOf(h, h.todo[1].call)
      BY <2>4 DEF CalledBy, Frame
    <3>2. h.todo[1].call \in Calls
      BY <3>1 DEF Calls
    <3>. QED  BY <3>1, <3>2, AskedAreRequests
  <2>8. g \in Frame
    BY <2>5, <2>6, <2>7 DEF Answered, Frame
  <2>9. Sound(g)' /\ Recorded(g)'
    <3>1. Sound(g)'
      BY <1>4, <2>3, <2>6, SoundStays
    <3>. QED  BY <2>3, <2>6, <3>1 DEF Recorded
  <2>10. Asking(g)'
    <3>1. \A r : Vouched(h, r) => Vouched(g, r)'
      BY <1>4, <2>6 DEF Vouched
    <3>2. allowed => Vouched(g, f.request)'
      BY <1>4, <2>4, <2>6 DEF Vouched, CalledBy
    <3>3. g.accepted \subseteq g.asked /\ \A r \in g.accepted : Vouched(g, r)'
      BY <2>3, <2>6, <3>1, <3>2 DEF Asking
    <3>4. \A call : AskedOf(g, call)' = AskedOf(h, call)
      BY <2>6 DEF AskedOf
    <3>5. g.todo # <<>> /\ g.todo[1].k = "dispatch" /\ g.asked \subseteq AskedOf(h, g.todo[1].call)
      BY <2>3, <2>4, <2>6 DEF Asking, CalledBy
    <3>. QED  BY <3>3, <3>4, <3>5 DEF Asking
  <2>11. frames' = <<g>> \o Tail(Tail(frames)) /\ vote' = vote
    BY <1>2, <1>8, <2>2, <2>5 DEF Return
  <2>12. /\ frames' \in Seq(Frame) /\ Len(frames') = n - 1 /\ DOMAIN frames' = 1..n - 1
         /\ frames'[1] = g
         /\ \A i \in 2..n - 1 : frames'[i] = frames[i + 1]
    <3>1. /\ frames' \in Seq(Frame) /\ Len(frames') = n - 1 /\ frames'[1] = g
          /\ \A i \in 2..n - 1 : frames'[i] = frames[i + 1]
      BY <1>1, <1>8, <2>8, <2>11, PopTop
    <3>. QED  BY <3>1, LenProperties
  <2>. HIDE DEF n
  <2>13. \A i \in 1..n - 1 : /\ frames'[i].script = frames[i + 1].script
                             /\ frames'[i].scope = frames[i + 1].scope
                             /\ frames'[i].request = frames[i + 1].request
                             /\ frames'[i].todo = frames[i + 1].todo
    <3>1. ASSUME NEW i \in 1..n - 1, i # 1 PROVE frames'[i] = frames[i + 1]
      BY <1>1, <2>12, <3>1
    <3>2. frames'[1] = g /\ frames[1 + 1] = h
      BY <2>2, <2>12
    <3>3. ASSUME NEW i \in 1..n - 1
          PROVE  /\ frames'[i].script = frames[i + 1].script
                 /\ frames'[i].scope = frames[i + 1].scope
                 /\ frames'[i].request = frames[i + 1].request
                 /\ frames'[i].todo = frames[i + 1].todo
      <4>1. CASE i = 1
        BY <2>6, <3>2, <4>1
      <4>2. CASE i # 1
        BY <3>1, <4>2
      <4>. QED  BY <4>1, <4>2
    <3>. QED  BY <3>3
  <2>14. OfInput(frames[Len(frames)])'
    <3>1. OfInput(frames[n])
      BY DEF WalkInv, n
    <3>2. n - 1 \in 1..n - 1 /\ (n - 1) + 1 = n
      BY <1>1, <2>1
    <3>3. frames'[n - 1].script = frames[n].script /\ frames'[n - 1].scope = frames[n].scope
      BY <2>13, <3>2
    <3>. QED  BY <2>12, <3>1, <3>3 DEF OfInput
  <2>15. ASSUME NEW i \in 1..n - 1
         PROVE  Sound(frames[i])' /\ Asking(frames[i])' /\ Recorded(frames[i])'
    <3>1. CASE i = 1
      BY <2>9, <2>10, <2>12, <3>1
    <3>2. CASE i # 1
      <4>1. i \in 2..n - 1 /\ i + 1 \in 1..n
        BY <1>1, <2>15, <3>2
      <4>2. PICK e : e = frames[i + 1]
        OBVIOUS
      <4>3. Sound(e) /\ Asking(e) /\ Recorded(e)
        BY <1>1, <4>1, <4>2 DEF WalkInv
      <4>4. Sound(e)' /\ Asking(e)' /\ Recorded(e)'
        BY <1>4, <4>3, SoundStays, AskingStays DEF Recorded
      <4>. QED  BY <2>12, <4>1, <4>2, <4>4
    <3>. QED  BY <3>1, <3>2
  <2>16. ASSUME NEW i \in 1..n - 1, i + 1 \in 1..n - 1
         PROVE  CalledBy(frames[i], frames[i + 1])'
    <3>1. i + 1 \in 1..n /\ (i + 1) + 1 \in 1..n
      BY <1>1, <2>16
    <3>2. CalledBy(frames[i + 1], frames[(i + 1) + 1])
      BY <1>1, <3>1 DEF WalkInv
    <3>. QED  BY <2>13, <2>16, <3>2 DEF CalledBy, AskedOf
  <2>17. ASSUME NEW i \in 1..n - 1
         PROVE  NoRemoteCwd(i)' /\ "cwd" \in DOMAIN frames'[i].scope
    <3>1. i + 1 \in 1..n
      BY <1>1, <2>17
    <3>2. NoRemoteCwd(i + 1) /\ "cwd" \in DOMAIN frames[i + 1].scope
      BY <1>1, <3>1 DEF WalkInv
    <3>3. \A j \in i..n - 1 : j \in 1..n - 1 /\ j + 1 \in i + 1..n
      BY <1>1, <2>17
    <3>4. Len(frames) = n /\ Len(frames)' = n - 1
      BY <2>12 DEF n
    <3>. QED  BY <2>13, <3>2, <3>3, <3>4 DEF NoRemoteCwd
  <2>18. TypeOK'
    BY <1>6, <2>11, <2>12 DEF WalkInv, TypeOK
  <2>19. frames' # <<>>
    BY <1>1, <2>1, <2>12
  <2>20. vote = Pending /\ vote.decision # "allow" /\ ruleSet = resolveRules(config, input.root)
    BY DEF WalkInv, Pending
  <2>. QED  BY <1>5, <2>11, <2>12, <2>14, <2>15, <2>16, <2>17, <2>18, <2>19, <2>20 DEF WalkInv
<1>. QED  BY <1>7, <1>8

\* The outermost evaluation starts.
LEMMA BeginStep == WalkInv /\ Begin => WalkInv'
<1>. SUFFICES ASSUME WalkInv, Begin PROVE WalkInv'
  OBVIOUS
<1>1. /\ frames = <<>> /\ vote = Pending /\ cleared = {}
      /\ ruleSet' = resolveRules(config, input.root)
      /\ UNCHANGED <<config, input, vote, cleared>>
  BY DEF Begin, WalkInv
<1>2. PICK script, scope : script = input.script /\ scope = RootScope(input)
  OBVIOUS
<1>3. PICK e : e = NewFrame(script, scope, NoRequest)
  OBVIOUS
<1>4. script \in Seq(Node) /\ scope \in Scope
  BY <1>2, WalkAssumption DEF WalkInv, TypeOK
<1>5. /\ e \in Frame /\ e.script = script /\ e.scope = scope /\ e.request = NoRequest
      /\ Sound(e)' /\ Asking(e)' /\ Recorded(e)'
  BY <1>3, <1>4, NewFrameStarts
<1>6. frames' = <<e>>
  BY <1>2, <1>3 DEF Begin
<1>7. frames' \in Seq(Frame) /\ Len(frames') = 1 /\ DOMAIN frames' = 1..1 /\ frames'[1] = e
      /\ frames' # <<>>
  BY <1>5, <1>6
<1>8. TypeOK'
  BY <1>1, <1>7 DEF WalkInv, TypeOK
<1>9. OfInput(frames[Len(frames)])'
  BY <1>1, <1>2, <1>5, <1>7 DEF OfInput
<1>10. NoRemoteCwd(1)' /\ "cwd" \in DOMAIN e.scope
  <2>1. ~NoRequest.remote
    BY DEF NoRequest
  <2>2. \A j \in 1..1 : frames'[j].request = NoRequest
    BY <1>5, <1>7
  <2>3. Len(frames)' = 1
    BY <1>7
  <2>. QED  BY <1>2, <1>5, <2>1, <2>2, <2>3 DEF NoRemoteCwd, RootScope
<1>11. vote'.decision # "allow"
  BY <1>1 DEF Pending
<1>12. \A i \in 1..1 : i = 1 /\ i + 1 \notin 1..1
  OBVIOUS
<1>. QED  BY <1>1, <1>5, <1>7, <1>8, <1>9, <1>10, <1>11, <1>12 DEF WalkInv

\* Every step keeps the invariant.
LEMMA WalkStep == WalkInv /\ [Next]_vars => WalkInv'
<1>. SUFFICES ASSUME WalkInv, [Next]_vars PROVE WalkInv'
  OBVIOUS
<1>1. CASE StaySilent
  <2>1. /\ frames = <<>> /\ frames' = <<>> /\ vote' = Silent
        /\ UNCHANGED <<config, input, ruleSet, cleared>>
    BY <1>1 DEF StaySilent
  <2>2. cleared = {} /\ DOMAIN frames' = {}
    BY <1>1, <2>1 DEF StaySilent, WalkInv
  <2>3. TypeOK'
    BY <2>1 DEF WalkInv, TypeOK, Silent
  <2>4. vote'.decision # "allow"
    BY <2>1 DEF Silent
  <2>. QED  BY <2>1, <2>2, <2>3, <2>4 DEF WalkInv
<1>2. CASE Begin
  BY <1>2, BeginStep
<1>3. CASE Visit
  BY <1>3, VisitStep
<1>4. CASE Ask
  BY <1>4, AskStep
<1>5. CASE Match
  BY <1>5, MatchStep
<1>6. CASE Reject
  <2>1. frames # <<>>
    BY <1>6 DEF Reject, Walking, Dispatched
  <2>2. Return(FALSE) /\ UNCHANGED <<config, input, ruleSet, cleared>>
    BY <1>6 DEF Reject
  <2>. QED  BY <2>1, <2>2, ReturnStep
<1>7. CASE Clear
  <2>1. /\ frames # <<>> /\ Top.todo = <<>> /\ Return(TRUE)
        /\ cleared' = cleared \cup {Top} /\ UNCHANGED <<config, input, ruleSet>>
    BY <1>7 DEF Clear
  <2>. QED  BY <2>1, ReturnStep
<1>8. CASE UNCHANGED vars
  <2>1. UNCHANGED <<config, input, ruleSet, frames, vote, cleared>>
    BY <1>8 DEF vars
  <2>2. \A f : (Sound(f) => Sound(f)') /\ (Asking(f) => Asking(f)') /\ (Recorded(f) => Recorded(f)')
    BY <2>1, SoundStays, AskingStays DEF Recorded
  <2>3. TypeOK'
    BY <2>1 DEF WalkInv, TypeOK
  <2>4. \A i \in DOMAIN frames' :
            Sound(frames[i])' /\ Asking(frames[i])' /\ Recorded(frames[i])'
    BY <2>1, <2>2 DEF WalkInv
  <2>5. \A i \in DOMAIN frames' : i + 1 \in DOMAIN frames' => CalledBy(frames[i], frames[i + 1])'
    BY <2>1 DEF WalkInv, CalledBy, AskedOf
  <2>6. \A i \in DOMAIN frames' : NoRemoteCwd(i)' /\ "cwd" \in DOMAIN frames'[i].scope
    BY <2>1 DEF WalkInv, NoRemoteCwd
  <2>7. \A f \in cleared' : f.todo = <<>> /\ Sound(f)' /\ Recorded(f)'
    BY <2>1, <2>2 DEF WalkInv
  <2>8. /\ frames' # <<>> => /\ vote' = Pending
                             /\ ruleSet' = resolveRules(config', input'.root)
                             /\ OfInput(frames[Len(frames)])'
        /\ frames' = <<>> /\ vote' = Pending => cleared' = {}
        /\ vote'.decision = "allow" => \E f \in cleared' : OfInput(f)'
    BY <2>1 DEF WalkInv, OfInput
  <2>. QED  BY <2>3, <2>4, <2>5, <2>6, <2>7, <2>8 DEF WalkInv
<1>. QED  BY <1>1, <1>2, <1>3, <1>4, <1>5, <1>6, <1>7, <1>8 DEF Next

\* Whatever syntax a node holds is visited below it, but for the first word of
\* a call.
LEMMA KidsCover ==
    ASSUME NEW n \in Node, n.k \in Known, n.k = "call" => n.args # <<>>,
           NEW field \in SyntaxOf(n.k), NEW m \in Range(n[field])
    PROVE  m \in Range(Kids(n)) \/ (n.k = "call" /\ m = n.args[1])
<1>1. \A fd \in SyntaxOf(n.k) : n[fd] \in Seq(Range(n[fd]))
  BY SyntaxAssumption
<1>2. CASE n.k \in Containers
  <2>1. SyntaxOf(n.k) = {"kids"} /\ Kids(n) = n.kids
    BY <1>2 DEF SyntaxOf, Kids, Containers
  <2>. QED  BY <2>1
<1>3. CASE n.k = "stmt"
  <2>1. SyntaxOf(n.k) = {"redirs", "cmd"} /\ Kids(n) = n.redirs \o n.cmd
    BY <1>3 DEF SyntaxOf, Kids, Containers
  <2>. QED  BY <1>1, <2>1, RangeOfBoth
<1>4. CASE n.k = "redir"
  BY <1>4 DEF SyntaxOf, Kids, Containers
<1>5. CASE n.k = "call"
  <2>1. SyntaxOf(n.k) = {"args"} /\ Kids(n) = Append(Tail(n.args), Dispatch(n))
    BY <1>5 DEF SyntaxOf, Kids, Containers
  <2>. DEFINE S == Range(n.args) \cup {Dispatch(n)}
  <2>2. n.args \in Seq(Range(n.args)) /\ Dispatch(n) \in S
    BY <1>1, <2>1
  <2>3. n.args \in Seq(S) /\ n.args # <<>>
    BY <1>5, <2>2, SeqMonotonic
  <2>. HIDE DEF S
  <2>4. Tail(n.args) \in Seq(S) /\ Range(n.args) = {n.args[1]} \cup Range(Tail(n.args))
    BY <2>3, HeadTailProperties, RangeHeadTail
  <2>5. Range(Kids(n)) = Range(Tail(n.args)) \cup {Dispatch(n)}
    <3>1. Range(Append(Tail(n.args), Dispatch(n))) = Range(Tail(n.args)) \cup {Dispatch(n)}
      <4>1. \A t \in Seq(S), e \in S : Range(Append(t, e)) = Range(t) \cup {e}
        BY RangeAppend
      <4>. QED  BY <2>2, <2>4, <4>1, Zenon
    <3>. QED  BY <2>1, <3>1
  <2>. QED  BY <1>5, <2>1, <2>4, <2>5
<1>6. CASE n.k = "if"
  <2>1. SyntaxOf(n.k) = {"cond", "then", "els"} /\ Kids(n) = (n.cond \o n.then) \o n.els
    BY <1>6 DEF SyntaxOf, Kids, Containers
  <2>2. /\ n.cond \in Seq(Range(n.cond))
        /\ n.then \in Seq(Range(n.then))
        /\ n.els \in Seq(Range(n.els))
    BY <1>1, <2>1
  <2>3. /\ Range(n.cond \o n.then) = Range(n.cond) \cup Range(n.then)
        /\ n.cond \o n.then \in Seq(Range(n.cond \o n.then))
    BY <2>2, RangeOfBoth
  <2>4. Range(Kids(n)) = Range(n.cond \o n.then) \cup Range(n.els)
    BY <2>1, <2>2, <2>3, RangeOfBoth
  <2>. QED  BY <2>1, <2>3, <2>4
<1>7. CASE n.k = "while"
  <2>1. SyntaxOf(n.k) = {"cond", "do"} /\ Kids(n) = n.cond \o n.do
    BY <1>7 DEF SyntaxOf, Kids, Containers
  <2>. QED  BY <1>1, <2>1, RangeOfBoth
<1>8. CASE n.k = "for"
  <2>1. SyntaxOf(n.k) = {"items", "do"} /\ Kids(n) = n.items \o n.do
    BY <1>8 DEF SyntaxOf, Kids, Containers
  <2>. QED  BY <1>1, <2>1, RangeOfBoth
<1>9. CASE n.k = "case"
  <2>1. SyntaxOf(n.k) = {"subject", "items"} /\ Kids(n) = n.subject \o n.items
    BY <1>9 DEF SyntaxOf, Kids, Containers
  <2>. QED  BY <1>1, <2>1, RangeOfBoth
<1>10. CASE n.k = "param"
  <2>1. /\ SyntaxOf(n.k) = {"exp", "orig", "with", "offset", "length"}
        /\ Kids(n) = (((n.exp \o n.orig) \o n.with) \o n.offset) \o n.length
    BY <1>10 DEF SyntaxOf, Kids, Containers
  <2>. DEFINE a == n.exp \o n.orig
              b == a \o n.with
              c == b \o n.offset
  <2>2. Range(a) = Range(n.exp) \cup Range(n.orig) /\ a \in Seq(Range(a))
    BY <1>1, <2>1, RangeOfBoth
  <2>. HIDE DEF a
  <2>3. Range(b) = Range(a) \cup Range(n.with) /\ b \in Seq(Range(b))
    BY <1>1, <2>1, <2>2, RangeOfBoth
  <2>. HIDE DEF b
  <2>4. Range(c) = Range(b) \cup Range(n.offset) /\ c \in Seq(Range(c))
    BY <1>1, <2>1, <2>3, RangeOfBoth
  <2>. HIDE DEF c
  <2>5. Range(c \o n.length) = Range(c) \cup Range(n.length)
    BY <1>1, <2>1, <2>4, RangeOfBoth
  <2>6. Kids(n) = c \o n.length
    BY <2>1 DEF a, b, c
  <2>. QED  BY <2>1, <2>2, <2>3, <2>4, <2>5, <2>6
<1>11. CASE n.k \in Leaves \cup {"dispatch"}
  BY <1>11 DEF SyntaxOf, Containers, Leaves
<1>. QED  BY <1>2, <1>3, <1>4, <1>5, <1>6, <1>7, <1>8, <1>9, <1>10, <1>11 DEF Known

\* No branch, loop body, pattern or expansion of what an allowed evaluation has
\* visited was skipped.
LEMMA VisitedInFull == WalkInv => NothingSkipped
<1>. SUFFICES ASSUME WalkInv, NEW f \in cleared, NEW n \in Range(f.trace),
                     NEW field \in DOMAIN n \cap Syntax, NEW m \in Range(n[field])
              PROVE  m \in Range(f.trace) \/ (m.k = "word" /\ LiteralString(m) # None)
  BY DEF NothingSkipped
<1>1. f.todo = <<>> /\ Complete(f) /\ Justified(f, n)
  BY DEF WalkInv, Sound
<1>2. n \in Node
  <2>1. f \in Frame
    BY DEF WalkInv, TypeOK
  <2>2. f.trace \in Seq(Node)
    BY <2>1 DEF Frame
  <2>3. Range(f.trace) \subseteq Node
    BY <2>2, RangeEquality, ElementOfSeq
  <2>. QED  BY <2>3
<1>3. Range(Kids(n)) \subseteq Range(f.trace)
  <2>1. Range(<<>>) = {}
    BY DEF Range
  <2>. QED  BY <1>1, <2>1 DEF Complete
<1>4. n.k \in Known /\ (n.k = "call" => IsCallable(n))
  <2>1. n.k = "dispatch" \/ IsSafe(config, f.scope, n)
    BY <1>1 DEF Justified
  <2>. QED  BY <2>1 DEF IsSafe, Known
<1>5. field \in SyntaxOf(n.k)
  BY <1>2, <1>4, SyntaxAssumption
<1>6. CASE m \in Range(Kids(n))
  BY <1>3, <1>6
<1>7. CASE n.k = "call" /\ m = n.args[1]
  <2>1. CommandName(m) # None
    BY <1>4, <1>7 DEF IsCallable
  <2>2. LiteralString(m) # None
    BY <2>1 DEF CommandName
  <2>3. field = "args"
    BY <1>5, <1>7 DEF SyntaxOf, Containers
  <2>4. m.k = "word"
    BY <1>2, <1>4, <1>7, <2>3, SyntaxAssumption
  <2>. QED  BY <2>2, <2>4
<1>8. n.k = "call" => n.args # <<>>
  BY <1>4 DEF IsCallable
<1>. QED  BY <1>2, <1>4, <1>5, <1>6, <1>7, <1>8, KidsCover

-----------------------------------------------------------------------------
(***************************************************************************)
(* The rule set.  What is defined by recursion over positions is shown to  *)
(* exist, and its properties are shown, by induction over a set of         *)
(* numbers.                                                                *)
(***************************************************************************)

\* A set of numbers that has one has a least one.
LEMMA LeastNat ==
    ASSUME NEW S \in SUBSET Nat, NEW m \in S
    PROVE  \E n \in S : \A k \in Nat : k < n => k \notin S
<1>1. PICK n \in S : \A k \in S : ~ (<<k, n>> \in OpToRel(<, Nat))
  BY NatLessThanWellFounded, WFMin
<1>2. \A k \in S : ~ (k < n)
  BY <1>1 DEF OpToRel
<1>. QED  BY <1>2

LEMMA NatSetInduction ==
    ASSUME NEW S \in SUBSET Nat, 0 \in S, \A n \in S : n + 1 \in S
    PROVE  S = Nat
<1>. SUFFICES ASSUME NEW m \in Nat \ S PROVE FALSE
  OBVIOUS
<1>. DEFINE T == Nat \ S
<1>1. PICK n \in T : \A k \in Nat : k < n => k \notin T
  BY LeastNat
<1>2. n # 0 /\ n - 1 \in Nat /\ n - 1 < n
  BY <1>1
<1>3. n - 1 \in S
  BY <1>1, <1>2
<1>4. (n - 1) + 1 \in S /\ (n - 1) + 1 = n
  BY <1>3
<1>. QED  BY <1>1, <1>4

\* f starts with a and goes on to N by the step function h.
Iterates(f, a, h, N) == f[0] = a /\ \A n \in 1..N : f[n] = h[<<n, f[n - 1]>>]

\* A recursion over the positions up to N that stays in a set has a solution.
LEMMA PositionRecursion ==
    ASSUME NEW N \in Nat, NEW S, NEW a \in S, NEW h \in [(1..N) \X S -> S]
    PROVE  \E f \in [0..N -> S] : Iterates(f, a, h, N)
<1>. DEFINE Solves(f, m) == f[0] = a /\ \A n \in 1..m : f[n] = h[<<n, f[n - 1]>>]
            M == {m \in Nat : m <= N => \E f \in [0..m -> S] : Solves(f, m)}
<1>1. 0 \in M
  <2>. DEFINE f == [n \in 0..0 |-> a]
  <2>1. f \in [0..0 -> S] /\ Solves(f, 0)
    OBVIOUS
  <2>. QED  BY <2>1, Zenon
<1>2. ASSUME NEW m \in M PROVE m + 1 \in M
  <2>. SUFFICES ASSUME m + 1 <= N PROVE \E f \in [0..(m + 1) -> S] : Solves(f, m + 1)
    OBVIOUS
  <2>1. PICK f \in [0..m -> S] : Solves(f, m)
    OBVIOUS
  <2>2. f[m] \in S /\ m + 1 \in 1..N
    OBVIOUS
  <2>3. h[<<m + 1, f[m]>>] \in S
    BY <2>2
  <2>. DEFINE g == [n \in 0..(m + 1) |-> IF n = m + 1 THEN h[<<m + 1, f[m]>>] ELSE f[n]]
  <2>4. g \in [0..(m + 1) -> S]
    BY <2>3
  <2>5. g[0] = a
    BY <2>1
  <2>6. ASSUME NEW n \in 1..(m + 1) PROVE g[n] = h[<<n, g[n - 1]>>]
    <3>1. n - 1 \in 0..m /\ n - 1 \in 0..(m + 1) /\ n - 1 # m + 1
      OBVIOUS
    <3>2. g[n - 1] = f[n - 1]
      BY <3>1
    <3>3. CASE n = m + 1
      <4>1. n - 1 = m
        BY <3>3
      <4>2. g[n] = h[<<m + 1, f[m]>>]
        BY <3>3
      <4>3. g[n - 1] = f[m]
        BY <3>2, <4>1
      <4>. QED  BY <3>3, <4>2, <4>3, Zenon
    <3>4. CASE n # m + 1
      <4>1. n \in 1..m
        BY <3>4
      <4>2. g[n] = f[n] /\ f[n] = h[<<n, f[n - 1]>>]
        BY <2>1, <3>4, <4>1
      <4>. QED  BY <3>2, <4>2
    <3>. QED  BY <3>3, <3>4
  <2>. HIDE DEF g
  <2>. QED  BY <2>4, <2>5, <2>6
<1>3. M = Nat
  <2>. HIDE DEF M
  <2>. QED  BY <1>1, <1>2, NatSetInduction DEF M
<1>. QED  BY <1>3 DEF Iterates

\* Flattened sequences start with the first of them.
LEMMA FlattenStarts ==
    ASSUME NEW S, NEW seqs \in Seq(Seq(S)), seqs # <<>>
    PROVE  /\ FlattenSeq(seqs) \in Seq(S)
           /\ Len(seqs[1]) <= Len(FlattenSeq(seqs))
           /\ \A i \in 1..Len(seqs[1]) : FlattenSeq(seqs)[i] = seqs[1][i]
<1>. DEFINE N == Len(seqs)
            IsFlat(f) == f = [i \in 1..N |-> IF i = 1 THEN seqs[i] ELSE f[i - 1] \o seqs[i]]
<1>0. N \in Nat \ {0} /\ \A i \in 1..N : seqs[i] \in Seq(S)
  BY EmptySeq, ElementOfSeq, LenProperties
<1>. HIDE DEF N
<1>1. \E f : IsFlat(f)
  <2>. DEFINE h == [p \in (1..N) \X Seq(S) |->
                       IF p[1] = 1 THEN seqs[1] ELSE p[2] \o seqs[p[1]]]
  <2>1. h \in [(1..N) \X Seq(S) -> Seq(S)]
    <3>1. ASSUME NEW p \in (1..N) \X Seq(S)
          PROVE  (IF p[1] = 1 THEN seqs[1] ELSE p[2] \o seqs[p[1]]) \in Seq(S)
      <4>1. p[1] \in 1..N /\ p[2] \in Seq(S) /\ seqs[p[1]] \in Seq(S)
        BY <1>0
      <4>2. p[2] \o seqs[p[1]] \in Seq(S)
        BY <4>1, ConcatProperties
      <4>. QED  BY <1>0, <4>2
    <3>. QED  BY <3>1
  <2>2. \A n \in 1..N, x \in Seq(S) : h[<<n, x>>] = IF n = 1 THEN seqs[1] ELSE x \o seqs[n]
    OBVIOUS
  <2>3. <<>> \in Seq(S)
    OBVIOUS
  <2>. HIDE DEF h
  <2>4. PICK r \in [0..N -> Seq(S)] : \A n \in 1..N : r[n] = h[<<n, r[n - 1]>>]
    <3>1. N \in Nat
      BY <1>0
    <3>2. PICK r \in [0..N -> Seq(S)] : Iterates(r, <<>>, h, N)
      BY <2>1, <2>3, <3>1, PositionRecursion, Zenon
    <3>. QED  BY <3>2 DEF Iterates
  <2>5. ASSUME NEW n \in 1..N PROVE r[n] = IF n = 1 THEN seqs[n] ELSE r[n - 1] \o seqs[n]
    <3>1. n - 1 \in 0..N
      BY <1>0
    <3>2. r[n - 1] \in Seq(S)
      BY <3>1
    <3>. QED  BY <2>2, <2>4, <3>2
  <2>. DEFINE f == [i \in 1..N |-> r[i]]
  <2>6. ASSUME NEW i \in 1..N PROVE f[i] = IF i = 1 THEN seqs[i] ELSE f[i - 1] \o seqs[i]
    <3>1. CASE i = 1
      BY <2>5, <3>1
    <3>2. CASE i # 1
      <4>1. i - 1 \in 1..N
        BY <1>0, <3>2
      <4>. QED  BY <2>5, <3>2, <4>1
    <3>. QED  BY <3>1, <3>2
  <2>7. IsFlat(f)
    BY <2>6, Zenon
  <2>. QED  BY <2>7
<1>2. PICK f : IsFlat(f) /\ FlattenSeq(seqs) = f[N]
  <2>. DEFINE flat == CHOOSE f : IsFlat(f)
  <2>1. IsFlat(flat)
    BY <1>1, Zenon
  <2>2. FlattenSeq(seqs) = flat[N]
    BY <1>0, Zenon DEF FlattenSeq, N
  <2>. QED  BY <2>1, <2>2
<1>. DEFINE Starts(s) == /\ s \in Seq(S)
                         /\ Len(seqs[1]) <= Len(s)
                         /\ \A i \in 1..Len(seqs[1]) : s[i] = seqs[1][i]
            M == {n \in Nat : n + 1 <= N => Starts(f[n + 1])}
<1>3. 0 \in M
  <2>1. f[1] = seqs[1] /\ seqs[1] \in Seq(S) /\ Len(seqs[1]) \in Nat
    BY <1>0, <1>2
  <2>. QED  BY <2>1
<1>4. ASSUME NEW n \in M PROVE n + 1 \in M
  <2>. SUFFICES ASSUME (n + 1) + 1 <= N PROVE Starts(f[(n + 1) + 1])
    OBVIOUS
  <2>1. n + 1 <= N /\ (n + 1) + 1 \in 1..N /\ (n + 1) + 1 # 1 /\ ((n + 1) + 1) - 1 = n + 1
    BY <1>0
  <2>2. Starts(f[n + 1])
    BY <2>1
  <2>. DEFINE a == f[n + 1]
              b == seqs[(n + 1) + 1]
  <2>3. f[(n + 1) + 1] = a \o b
    BY <1>2, <2>1
  <2>4. a \in Seq(S) /\ b \in Seq(S) /\ Len(seqs[1]) <= Len(a)
        /\ (\A i \in 1..Len(seqs[1]) : a[i] = seqs[1][i])
    BY <1>0, <2>1, <2>2
  <2>5. seqs[1] \in Seq(S)
    BY <1>0
  <2>. HIDE DEF a, b
  <2>6. /\ a \o b \in Seq(S)
        /\ Len(a \o b) = Len(a) + Len(b)
        /\ \A i \in 1..Len(a) + Len(b) : (a \o b)[i] = IF i <= Len(a) THEN a[i] ELSE b[i - Len(a)]
    BY <2>4, ConcatProperties
  <2>7. Len(a) \in Nat /\ Len(b) \in Nat /\ Len(seqs[1]) \in Nat
    BY <2>4, <2>5, LenProperties
  <2>8. ASSUME NEW i \in 1..Len(seqs[1]) PROVE (a \o b)[i] = seqs[1][i]
    <3>1. i \in 1..Len(a) + Len(b) /\ i <= Len(a)
      BY <2>4, <2>7
    <3>. QED  BY <2>4, <2>6, <3>1
  <2>9. Starts(a \o b)
    BY <2>4, <2>6, <2>7, <2>8
  <2>. QED  BY <2>3, <2>9
<1>5. M = Nat
  <2>. HIDE DEF M
  <2>. QED  BY <1>3, <1>4, NatSetInduction DEF M
<1>6. N - 1 \in M /\ (N - 1) + 1 = N
  <2>1. N - 1 \in Nat /\ (N - 1) + 1 = N
    BY <1>0
  <2>. HIDE DEF M
  <2>. QED  BY <1>5, <2>1
<1>7. Starts(f[N])
  BY <1>0, <1>6
<1>. QED  BY <1>2, <1>7

\* The specs merged so far, position by position.
LEMMA MergedDef ==
    ASSUME NEW S, NEW specs \in Seq(S)
    PROVE  \E f \in [0..Len(specs) -> Seq(S)] :
              /\ f[0] = <<>>
              /\ \A n \in 1..Len(specs) : f[n] = MergeSpec(f[n - 1], specs[n])
              /\ MergeSpecs(specs) = f[Len(specs)]
<1>. DEFINE N == Len(specs)
            IsMerged(f) == f = [n \in 0..N |-> IF n = 0 THEN <<>> ELSE MergeSpec(f[n - 1], specs[n])]
            h == [p \in (1..N) \X Seq(S) |-> MergeSpec(p[2], specs[p[1]])]
<1>0. N \in Nat /\ \A n \in 1..N : specs[n] \in S
  BY LenProperties, ElementOfSeq
<1>1. \A x \in Seq(S), e \in S : MergeSpec(x, e) \in Seq(S)
  BY AppendProperties DEF MergeSpec
<1>. HIDE DEF N
<1>2. h \in [(1..N) \X Seq(S) -> Seq(S)]
  <2>1. ASSUME NEW p \in (1..N) \X Seq(S) PROVE MergeSpec(p[2], specs[p[1]]) \in Seq(S)
    <3>1. p[1] \in 1..N /\ p[2] \in Seq(S)
      OBVIOUS
    <3>. QED  BY <1>0, <1>1, <3>1
  <2>. QED  BY <2>1
<1>3. \A n \in 1..N, x \in Seq(S) : h[<<n, x>>] = MergeSpec(x, specs[n])
  OBVIOUS
<1>4. <<>> \in Seq(S) /\ N \in Nat
  BY <1>0
<1>. HIDE DEF h
<1>5. \E r \in [0..N -> Seq(S)] : Iterates(r, <<>>, h, N)
  BY <1>2, <1>4, PositionRecursion, Zenon
<1>6. ASSUME NEW r \in [0..N -> Seq(S)], Iterates(r, <<>>, h, N) PROVE IsMerged(r)
  <2>1. ASSUME NEW n \in 0..N
        PROVE  r[n] = IF n = 0 THEN <<>> ELSE MergeSpec(r[n - 1], specs[n])
    <3>1. CASE n = 0
      BY <1>6, <3>1 DEF Iterates
    <3>2. CASE n # 0
      <4>1. n \in 1..N /\ n - 1 \in 0..N
        BY <1>0, <3>2
      <4>2. r[n - 1] \in Seq(S) /\ r[n] = h[<<n, r[n - 1]>>]
        BY <1>6, <4>1 DEF Iterates
      <4>3. r[n] = MergeSpec(r[n - 1], specs[n])
        BY <1>3, <4>1, <4>2
      <4>. QED  BY <3>2, <4>3
    <3>. QED  BY <3>1, <3>2
  <2>2. r = [n \in 0..N |-> r[n]]
    OBVIOUS
  <2>. QED  BY <2>1, <2>2, Zenon
<1>7. PICK f : IsMerged(f) /\ MergeSpecs(specs) = f[N]
  <2>. DEFINE merged == CHOOSE f : IsMerged(f)
  <2>1. \E f : IsMerged(f)
    BY <1>5, <1>6, Zenon
  <2>2. IsMerged(merged)
    BY <2>1, Zenon
  <2>3. MergeSpecs(specs) = merged[N]
    BY Zenon DEF MergeSpecs, N
  <2>. QED  BY <2>2, <2>3
<1>8. /\ f[0] = <<>>
      /\ \A n \in 1..N : f[n] = MergeSpec(f[n - 1], specs[n])
      /\ f = [n \in 0..N |-> f[n]]
  BY <1>0, <1>7
<1>. HIDE <1>7
<1>. DEFINE M == {n \in Nat : n <= N => f[n] \in Seq(S)}
<1>9. 0 \in M
  <2>1. f[0] \in Seq(S)
    BY <1>4, <1>8
  <2>. HIDE <1>8
  <2>. QED  BY <2>1
<1>10. ASSUME NEW n \in M PROVE n + 1 \in M
  <2>. SUFFICES ASSUME n + 1 <= N PROVE f[n + 1] \in Seq(S)
    OBVIOUS
  <2>1. n + 1 \in 1..N /\ (n + 1) - 1 = n /\ f[n] \in Seq(S)
    BY <1>0
  <2>2. f[n + 1] = MergeSpec(f[n], specs[n + 1])
    BY <1>8, <2>1
  <2>. QED  BY <1>0, <1>1, <2>1, <2>2
<1>11. M = Nat
  <2>. HIDE DEF M
  <2>. QED  BY <1>9, <1>10, NatSetInduction DEF M
<1>12. f \in [0..N -> Seq(S)]
  <2>1. \A n \in 0..N : f[n] \in Seq(S)
    BY <1>11
  <2>. QED  BY <1>8, <2>1
<1>. QED  BY <1>7, <1>8, <1>12 DEF N

\* A set that names no command twice and comes first is merged as it is, and
\* keeps its place.
LEMMA MergeKeepsFirst ==
    ASSUME NEW S, NEW specs \in Seq(S), NEW set \in Seq(S), NamesOnce(set),
           Len(set) <= Len(specs), \A i \in 1..Len(set) : specs[i] = set[i]
    PROVE  /\ MergeSpecs(specs) \in Seq(S)
           /\ Len(set) <= Len(MergeSpecs(specs))
           /\ \A i \in 1..Len(set) : MergeSpecs(specs)[i] = set[i]
<1>. DEFINE N == Len(specs)
            m == Len(set)
<1>0. N \in Nat /\ m \in Nat /\ m <= N
  BY LenProperties
<1>1. PICK f \in [0..N -> Seq(S)] :
          /\ f[0] = <<>>
          /\ \A n \in 1..N : f[n] = MergeSpec(f[n - 1], specs[n])
          /\ MergeSpecs(specs) = f[N]
  BY MergedDef
<1>2. /\ \A n \in 1..N : specs[n] \in S
      /\ \A n \in 1..m : specs[n] = set[n]
      /\ \A i, j \in 1..m : i # j => set[i].names \cap set[j].names = {}
  <2>1. DOMAIN set = 1..Len(set)
    BY LenProperties
  <2>. QED  BY <2>1, ElementOfSeq DEF NamesOnce
<1>. HIDE DEF N, m
<1>. DEFINE least(n) == IF n <= m THEN n ELSE m
            Keeps(n) == /\ least(n) <= Len(f[n])
                        /\ n <= m => Len(f[n]) = n
                        /\ \A i \in 1..least(n) : f[n][i] = set[i]
            M == {n \in Nat : n <= N => Keeps(n)}
<1>3. 0 \in M
  BY <1>0, <1>1
<1>4. ASSUME NEW n \in M PROVE n + 1 \in M
  <2>. SUFFICES ASSUME n + 1 <= N PROVE Keeps(n + 1)
    OBVIOUS
  <2>. DEFINE x == f[n]
              e == specs[n + 1]
              y == f[n + 1]
  <2>1. n \in 0..N /\ n + 1 \in 1..N /\ (n + 1) - 1 = n
    BY <1>0
  <2>2. x \in Seq(S) /\ e \in S /\ y = MergeSpec(x, e)
    BY <1>1, <1>2, <2>1
  <2>3. Keeps(n)
    BY <2>1
  <2>4. /\ least(n) <= Len(x)
        /\ n <= m => Len(x) = n
        /\ \A i \in 1..least(n) : x[i] = set[i]
    BY <2>3
  <2>. HIDE DEF x, e, y
  <2>5. Len(x) \in Nat
    BY <2>2, LenProperties
  <2>6. /\ Append(x, e) \in Seq(S) /\ Len(Append(x, e)) = Len(x) + 1
        /\ \A i \in 1..Len(x) : Append(x, e)[i] = x[i]
        /\ Append(x, e)[Len(x) + 1] = e
    BY <2>2, AppendProperties
  <2>7. y = x \/ y = Append(x, e)
    BY <2>2 DEF MergeSpec
  <2>8. CASE n + 1 <= m
    <3>1. Len(x) = n /\ least(n) = n /\ least(n + 1) = n + 1 /\ n + 1 \in 1..m
      BY <1>0, <2>4, <2>8
    <3>2. e = set[n + 1]
      BY <1>2, <3>1 DEF e
    <3>3. \A s \in Range(x) : s.names \cap e.names = {}
      <4>1. ASSUME NEW i \in 1..Len(x) PROVE x[i].names \cap e.names = {}
        <5>1. x[i] = set[i] /\ i \in 1..m /\ i # n + 1
          BY <1>0, <2>4, <3>1
        <5>. QED  BY <1>2, <3>1, <3>2, <5>1
      <4>2. Range(x) = {x[i] : i \in 1..Len(x)}
        BY <2>2, RangeEquality
      <4>. QED  BY <4>1, <4>2
    <3>4. y = Append(x, e)
      BY <2>2, <3>3 DEF MergeSpec
    <3>5. ASSUME NEW i \in 1..(n + 1) PROVE y[i] = set[i]
      <4>1. CASE i = n + 1
        BY <2>6, <3>1, <3>2, <3>4, <4>1
      <4>2. CASE i # n + 1
        <5>1. i \in 1..n
          BY <4>2
        <5>. QED  BY <2>4, <2>6, <3>1, <3>4, <5>1
      <4>. QED  BY <4>1, <4>2
    <3>6. Len(y) = n + 1
      BY <2>6, <3>1, <3>4
    <3>. QED  BY <3>1, <3>5, <3>6 DEF y
  <2>9. CASE m <= n
    <3>1. least(n) = m /\ least(n + 1) = m /\ ~(n + 1 <= m)
      BY <1>0, <2>9
    <3>2. m <= Len(x) /\ \A i \in 1..m : x[i] = set[i]
      BY <2>4, <3>1
    <3>3. m <= Len(y) /\ \A i \in 1..m : y[i] = set[i]
      <4>1. CASE y = x
        BY <3>2, <4>1
      <4>2. CASE y = Append(x, e)
        <5>1. m <= Len(y)
          BY <1>0, <2>5, <2>6, <3>2, <4>2
        <5>2. \A i \in 1..m : i \in 1..Len(x)
          BY <1>0, <2>5, <3>2
        <5>. QED  BY <2>6, <3>2, <4>2, <5>1, <5>2
      <4>. QED  BY <2>7, <4>1, <4>2
    <3>. QED  BY <3>1, <3>3 DEF y
  <2>. QED  BY <1>0, <2>8, <2>9
<1>5. M = Nat
  <2>. HIDE DEF M
  <2>. QED  BY <1>3, <1>4, NatSetInduction DEF M
<1>6. Keeps(N)
  <2>1. N \in M /\ N <= N
    <3>. HIDE DEF M
    <3>. QED  BY <1>0, <1>5
  <2>. QED  BY <2>1
<1>7. m <= Len(f[N]) /\ \A i \in 1..m : f[N][i] = set[i]
  <2>1. least(N) = m
    BY <1>0
  <2>. QED  BY <1>6, <2>1
<1>8. f[N] \in Seq(S)
  BY <1>0, <1>1
<1>. QED  BY <1>1, <1>7, <1>8 DEF m

\* A command that the first specs name is looked up among them.
LEMMA LookupInFirst ==
    ASSUME NEW S, NEW merged \in Seq(S), NEW set \in Seq(S), Len(set) <= Len(merged),
           \A i \in 1..Len(set) : merged[i] = set[i],
           NEW name \in NamesOf(set)
    PROVE  LookupCommand(merged, name) = LookupCommand(set, name)
<1>. DEFINE Having(s) == {i \in DOMAIN s : name \in s[i].names}
            Least(s) == CHOOSE i \in Having(s) : \A j \in Having(s) : i <= j
<1>0. Len(set) \in Nat /\ Len(merged) \in Nat /\ DOMAIN set = 1..Len(set) /\ DOMAIN merged = 1..Len(merged)
  BY LenProperties
<1>1. PICK k \in 1..Len(set) : name \in set[k].names
  <2>1. PICK spec \in Range(set) : name \in spec.names
    BY DEF NamesOf
  <2>2. Range(set) = {set[i] : i \in 1..Len(set)}
    BY RangeEquality
  <2>. QED  BY <2>1, <2>2
<1>2. PICK n \in Having(set) : \A j \in Having(set) : n <= j
  <2>1. Having(set) \in SUBSET Nat /\ k \in Having(set)
    BY <1>0, <1>1
  <2>2. PICK n \in Having(set) : \A j \in Nat : j < n => j \notin Having(set)
    <3>. HIDE DEF Having
    <3>. QED  BY <2>1, LeastNat
  <2>3. \A j \in Having(set) : n <= j
    BY <1>0, <2>1, <2>2
  <2>. QED  BY <2>3
<1>3. n \in Having(merged) /\ \A j \in Having(merged) : n <= j
  <2>1. n \in Having(merged)
    BY <1>0, <1>2
  <2>2. ASSUME NEW j \in Having(merged), j < n PROVE FALSE
    <3>1. j \in 1..Len(set) /\ merged[j] = set[j]
      BY <1>0, <1>2, <2>2
    <3>2. j \in Having(set)
      BY <1>0, <3>1
    <3>. QED  BY <1>0, <1>2, <2>2, <3>2
  <2>. QED  BY <1>0, <1>2, <2>1, <2>2
<1>4. \A s \in {set, merged} : \A i, j \in Having(s) :
          (\A l \in Having(s) : i <= l) /\ (\A l \in Having(s) : j <= l) => i = j
  BY <1>0
<1>5. Least(set) = n /\ Least(merged) = n
  <2>. HIDE DEF Having
  <2>1. /\ Least(set) \in Having(set) /\ \A l \in Having(set) : Least(set) <= l
        /\ Least(merged) \in Having(merged) /\ \A l \in Having(merged) : Least(merged) <= l
    BY <1>2, <1>3, Zenon
  <2>. HIDE DEF Least
  <2>. QED  BY <1>2, <1>3, <1>4, <2>1
<1>6. /\ LookupCommand(set, name) = <<set[Least(set)]>>
      /\ LookupCommand(merged, name) = <<merged[Least(merged)]>>
  <2>1. Having(set) # {} /\ Having(merged) # {}
    BY <1>2, <1>3
  <2>. QED  BY <2>1, Zenon DEF LookupCommand
<1>7. merged[n] = set[n]
  BY <1>0, <1>2
<1>. HIDE DEF Least
<1>. QED  BY <1>5, <1>6, <1>7

\* The last contributed set decides about the commands it names.
LEMMA LastSetDecidesFor ==
    ASSUME NEW sets, sets \in Seq(Range(sets)), \A set \in Range(sets) : set \in Seq(Range(set)),
           sets # <<>>, NamesOnce(Last(sets)), NEW name \in NamesOf(Last(sets))
    PROVE  LookupCommand(MergeRuleSets(sets), name) = LookupCommand(Last(sets), name)
<1>. DEFINE S == UNION {Range(set) : set \in Range(sets)}
            n == Len(sets)
            back == Reverse(sets)
            specs == FlattenSeq(back)
<1>1. sets \in Seq(Seq(S))
  <2>1. \A set \in Range(sets) : set \in Seq(S)
    <3>. SUFFICES ASSUME NEW set \in Range(sets) PROVE set \in Seq(S)
      OBVIOUS
    <3>1. Range(set) \subseteq S
      OBVIOUS
    <3>. QED  BY <3>1, SeqMonotonic
  <2>2. Range(sets) \subseteq Seq(S)
    BY <2>1
  <2>. QED  BY <2>2, SeqMonotonic
<1>. HIDE DEF S
<1>2. n \in Nat \ {0} /\ sets[n] \in Seq(S) /\ Last(sets) = sets[n]
  <2>1. n \in Nat \ {0}
    BY <1>1, EmptySeq, LenProperties
  <2>2. n \in 1..n
    BY <2>1
  <2>. QED  BY <1>1, <2>1, <2>2, ElementOfSeq DEF Last
<1>3. back \in Seq(Seq(S)) /\ back # <<>> /\ back[1] = sets[n]
  <2>1. \A i \in 1..n : sets[i] \in Seq(S)
    BY <1>1, ElementOfSeq
  <2>. HIDE DEF n
  <2>2. \A i \in 1..n : (n - i) + 1 \in 1..n
    BY <1>2
  <2>3. back = [i \in 1..n |-> sets[(n - i) + 1]]
    BY DEF Reverse, n
  <2>4. back \in [1..n -> Seq(S)]
    BY <2>1, <2>2, <2>3
  <2>5. back \in Seq(Seq(S))
    BY <1>2, <2>4, SeqDef
  <2>6. 1 \in 1..n /\ (n - 1) + 1 = n
    BY <1>2
  <2>7. back[1] = sets[n]
    BY <2>3, <2>6
  <2>8. back # <<>>
    <3>1. DOMAIN back = 1..n /\ DOMAIN back = 1..Len(back) /\ Len(back) \in Nat
      BY <2>4, <2>5, LenProperties
    <3>2. Len(back) # 0
      BY <1>2, <2>6, <3>1
    <3>. QED  BY <3>2
  <2>. QED  BY <2>5, <2>7, <2>8
<1>. HIDE DEF back
<1>4. /\ specs \in Seq(S)
      /\ Len(Last(sets)) <= Len(specs)
      /\ \A i \in 1..Len(Last(sets)) : specs[i] = Last(sets)[i]
  BY <1>2, <1>3, FlattenStarts
<1>. HIDE DEF specs
<1>5. /\ MergeSpecs(specs) \in Seq(S)
      /\ Len(Last(sets)) <= Len(MergeSpecs(specs))
      /\ \A i \in 1..Len(Last(sets)) : MergeSpecs(specs)[i] = Last(sets)[i]
  BY <1>2, <1>4, MergeKeepsFirst
<1>6. MergeRuleSets(sets) = MergeSpecs(specs)
  BY DEF MergeRuleSets, specs, back
<1>7. PICK merged, set : merged = MergeSpecs(specs) /\ set = Last(sets)
  OBVIOUS
<1>8. LookupCommand(merged, name) = LookupCommand(set, name)
  BY <1>2, <1>5, <1>7, LookupInFirst
<1>. QED  BY <1>6, <1>7, <1>8

\* The closest project decides about the commands it names.
LEMMA ClosestDecides == WalkInv => ClosestSetDecides
<1>. SUFFICES ASSUME WalkInv, frames # <<>>,
                     ContributedSets(config, input.root) # <<>>,
                     NamesOnce(Last(ContributedSets(config, input.root))),
                     NEW name \in NamesOf(Last(ContributedSets(config, input.root)))
              PROVE  LookupCommand(ruleSet, name)
                        = LookupCommand(Last(ContributedSets(config, input.root)), name)
  BY DEF ClosestSetDecides
<1>1. PICK sets : sets = ContributedSets(config, input.root)
  OBVIOUS
<1>2. sets \in Seq(Range(sets)) /\ \A set \in Range(sets) : set \in Seq(Range(set))
  <2>1. config \in Configs /\ input.root \in Roots
    BY DEF WalkInv, TypeOK, Roots
  <2>. QED  BY <1>1, <2>1, RuleSetAssumption
<1>3. ruleSet = MergeRuleSets(sets)
  BY <1>1 DEF WalkInv, resolveRules
<1>. QED  BY <1>1, <1>2, <1>3, LastSetDecidesFor

-----------------------------------------------------------------------------
\* The walk keeps its invariant.
THEOREM WalkInvCorrect == Spec => []WalkInv
<1>. QED  BY WalkInit, WalkStep, PTL DEF Spec

\* Frames, votes and cleared evaluations stay of their types.
THEOREM StaticBashTypeCorrect == Spec => []TypeOK
<1>1. WalkInv => TypeOK
  BY DEF WalkInv
<1>. QED  BY <1>1, WalkInvCorrect, PTL

\* "Allowed is true only when every node in the parsed AST cleared the rule
\* set" (ast/evaluate.go:44), whatever the rule engine says of a call and
\* however deep evaluations nest.
THEOREM AllowMeansCleared == Spec => []EveryNodeCleared
<1>1. WalkInv => EveryNodeCleared
  BY DEF WalkInv, EveryNodeCleared, Sound, OfInput
<1>. QED  BY <1>1, WalkInvCorrect, PTL

\* RealPath never yields the empty path.
LEMMA RealPathIsPath == \A p : RealPath(p) # NoPath
<1>1. \A base, seg : Path(base, seg).t = "path"
  BY DEF Path
<1>2. NoPath.t = "none"
  BY DEF NoPath, None
<1>3. \A base, seg : Path(base, seg) # NoPath
  BY <1>1, <1>2
<1>4. \A n, seg : Resolving(n, seg) # NoPath
  BY <1>3, Zenon DEF Resolving
<1>5. \A real, cleaned : Either(real, cleaned) # NoPath
  BY <1>4, Zenon DEF Either
<1>. QED  BY <1>3, <1>5, Zenon DEF RealPath

\* A path without ".." that leads to no file yet, but to a directory.
LEMMA NewFileResolves ==
    ASSUME NEW S, NEW seg \in Seq(S), seg # <<>>,
           EvalSymlinks(seg) = NoPath, EvalSymlinks(Front(seg)) # NoPath
    PROVE  Resolving(Reaches(seg), seg) = Path("abs", EvalSymlinks(Front(seg)).seg \o <<Last(seg)>>)
<1>. DEFINE n == Len(seg) - 1
            there == {m \in 0..Len(seg) : EvalSymlinks(SubSeq(seg, 1, m)) # NoPath}
<1>1. Len(seg) \in Nat /\ Len(seg) # 0
  BY EmptySeq, LenProperties
<1>2. SubSeq(seg, 1, Len(seg)) = seg
  OBVIOUS
<1>3. SubSeq(seg, 1, n) = Front(seg)
  BY DEF Front
<1>4. SubSeq(seg, Len(seg), Len(seg)) = <<Last(seg)>>
  <2>1. PICK l : l = Len(seg) /\ l \in Nat /\ l \in 1..Len(seg)
    BY <1>1
  <2>2. PICK t : t = SubSeq(seg, l, l)
    OBVIOUS
  <2>3. t \in Seq(S) /\ Len(t) = 1 /\ t[1] = seg[l]
    <3>1. \A i \in l..l : seg[i] \in S
      BY <2>1, ElementOfSeq
    <3>2. SubSeq(seg, l, l) \in Seq(S) /\ Len(SubSeq(seg, l, l)) = (IF l <= l THEN l - l + 1 ELSE 0)
          /\ \A i \in 1..(l - l + 1) : SubSeq(seg, l, l)[i] = seg[l + i - 1]
      BY <2>1, <3>1, SubSeqProperties
    <3>3. l <= l /\ l - l + 1 = 1 /\ l + 1 - 1 = l
      BY <2>1
    <3>. QED  BY <2>2, <3>2, <3>3
  <2>4. t = <<t[1]>>
    BY <2>3
  <2>. QED  BY <2>1, <2>2, <2>3, <2>4 DEF Last
<1>5. n \in there
  <2>1. n \in 0..Len(seg)
    BY <1>1
  <2>. QED  BY <1>3, <2>1
<1>6. ASSUME NEW m \in there PROVE m <= n
  <2>1. m # Len(seg)
    BY <1>2
  <2>. QED  BY <1>1, <2>1
<1>7. ASSUME NEW m \in there, \A l \in there : l <= m PROVE m = n
  BY <1>1, <1>5, <1>6, <1>7
<1>8. Reaches(seg) = CHOOSE m \in there : \A l \in there : l <= m
  BY DEF Reaches
<1>. HIDE DEF there
<1>9. Reaches(seg) = n
  BY <1>5, <1>6, <1>7, <1>8
<1>10. n + 1 = Len(seg)
  BY <1>1
<1>. HIDE DEF n
<1>. QED  BY <1>3, <1>4, <1>9, <1>10 DEF Resolving

\* A name that is seen through resolves to the file the kernel opens.
LEMMA SeenThroughIsOpened ==
    ASSUME NEW scope, NEW tok, scope.cwd # NoPath, scope.cwd.base = "abs",
           NEW S, Named(scope, tok) \in Seq(S),
           SeenThrough(scope, tok), Opened(Named(scope, tok)) # NoPath
    PROVE  resolveToAbsolute(scope, tok) = Opened(Named(scope, tok))
<1>. DEFINE p == ExpandTilde(AsPath(tok))
            seg == Named(scope, tok)
<1>1. /\ p.base = "abs" => p.seg = seg
      /\ p.base # "abs" => scope.cwd.seg \o p.seg = seg
  BY DEF Named
<1>2. /\ ".." \in Range(seg) => p = Path("abs", seg) /\ EvalSymlinks(seg) # NoPath
      /\ Opened(seg) # NoPath
  BY DEF SeenThrough
<1>3. seg \in Seq(S)
  OBVIOUS
<1>4. resolveToAbsolute(scope, tok)
        = IF p.base = "abs" THEN RealPath(p) ELSE RealPath(Path("abs", Clean(scope.cwd.seg \o p.seg)))
  BY DEF resolveToAbsolute, Join
<1>5. Path("abs", seg).base = "abs" /\ Path("abs", seg).seg = seg
  BY DEF Path
<1>. SUFFICES resolveToAbsolute(scope, tok) = Opened(seg)
  OBVIOUS
<1>. HIDE DEF p, seg
<1>6. resolveToAbsolute(scope, tok) = Either(EvalSymlinks(seg), Clean(seg))
  <2>1. CASE p.base = "abs"
    BY <1>1, <1>4, <2>1 DEF RealPath
  <2>2. CASE p.base # "abs"
    <3>1. ".." \notin Range(seg)
      BY <1>2, <1>5, <2>2
    <3>2. Clean(seg) = seg
      BY <3>1 DEF Clean
    <3>3. resolveToAbsolute(scope, tok) = RealPath(Path("abs", seg))
      BY <1>1, <1>4, <2>2, <3>2
    <3>. QED  BY <1>5, <3>2, <3>3 DEF RealPath
  <2>. QED  BY <2>1, <2>2
<1>7. CASE EvalSymlinks(seg) # NoPath
  BY <1>6, <1>7 DEF Either, Opened
<1>8. CASE EvalSymlinks(seg) = NoPath
  <2>1. seg # <<>> /\ EvalSymlinks(Front(seg)) # NoPath
    BY <1>2, <1>8 DEF Opened
  <2>2. Clean(seg) = seg
    BY <1>2, <1>8 DEF Clean
  <2>3. Resolving(Reaches(seg), seg) = Opened(seg)
    BY <1>3, <1>8, <2>1, NewFileResolves DEF Opened
  <2>. QED  BY <1>6, <1>8, <2>2, <2>3 DEF Either
<1>. QED  BY <1>7, <1>8

\* No evaluation, finished or not, runs a file that it has opened for output, by
\* names that are seen through (docs/static-bash-rules-design.md:145).
THEOREM WrittenFilesDoNotRun == Spec => []NoRunAfterWrite
<1>1. ASSUME NEW f \in Frame, Recorded(f), Sound(f),
             NEW i \in DOMAIN f.trace, NEW j \in DOMAIN f.trace,
             i < j, f.scope.cwd # NoPath,
             IsOutput(f.trace[i]), SeenThrough(f.scope, FileWord(f.trace[i])),
             f.trace[j].k = "call", SeenThrough(f.scope, FileWord(f.trace[j])),
             Opened(Named(f.scope, FileWord(f.trace[i]))) # NoPath,
             Opened(Named(f.scope, FileWord(f.trace[i]))) = Opened(Named(f.scope, FileWord(f.trace[j])))
      PROVE  FALSE
  <2>1. f.scope \in Scope /\ f.trace[i] \in Node /\ f.trace[j] \in Node
    <3>1. f.trace \in Seq(Node) /\ f.scope \in Scope
      BY DEF Frame
    <3>. QED  BY <3>1, LenProperties, ElementOfSeq
  <2>2. NamesFile(f.trace[i]) /\ FileWord(f.trace[i]) = Target(f.trace[i])
    BY <1>1 DEF IsOutput, NamesFile, FileWord, Target
  <2>3. NamesFile(f.trace[j]) /\ FileWord(f.trace[j]) = LiteralString(f.trace[j].args[1])
    <3>1. f.trace[j] \in Range(f.trace)
      BY DEF Range
    <3>2. IsSafe(config, f.scope, f.trace[j])
      BY <1>1, <3>1 DEF Sound, Justified
    <3>3. f.trace[j].args # <<>>
      BY <1>1, <3>2 DEF IsSafe, IsCallable
    <3>. QED  BY <1>1, <3>3 DEF NamesFile, FileWord
  <2>4. resolveToAbsolute(f.scope, FileWord(f.trace[i])) = Opened(Named(f.scope, FileWord(f.trace[i])))
    BY <1>1, <2>1, <2>2, PathAssumption, SeenThroughIsOpened
  <2>5. resolveToAbsolute(f.scope, FileWord(f.trace[j])) = Opened(Named(f.scope, FileWord(f.trace[j])))
    BY <1>1, <2>1, <2>3, PathAssumption, SeenThroughIsOpened
  <2>6. ~IsOutput(f.trace[j])
    BY <1>1 DEF IsOutput
  <2>7. Resolved(f.scope, f.trace[i]) = Resolved(f.scope, f.trace[j]) /\ Resolved(f.scope, f.trace[j]) # NoPath
    BY <1>1, <2>2, <2>3, <2>4, <2>5, <2>6 DEF Resolved
  <2>. QED  BY <1>1, <2>7 DEF Recorded
<1>2. WalkInv => NoRunAfterWrite
  <2>. SUFFICES ASSUME WalkInv, NEW f \in Range(frames) \cup cleared
                PROVE  f \in Frame /\ Recorded(f) /\ Sound(f)
    BY <1>1 DEF NoRunAfterWrite
  <2>1. CASE f \in cleared
    BY <2>1 DEF WalkInv, TypeOK
  <2>2. CASE f \in Range(frames)
    <3>1. frames \in Seq(Frame)
      BY DEF WalkInv, TypeOK
    <3>2. PICK i \in DOMAIN frames : f = frames[i]
      BY <2>2 DEF Range
    <3>. QED  BY <3>1, <3>2, LenProperties, ElementOfSeq DEF WalkInv
  <2>. QED  BY <2>1, <2>2
<1>. QED  BY <1>2, WalkInvCorrect, PTL

\* "Local allow_project_write does not apply across the host boundary"
\* (docs/static-bash-rules-design.md:157), nor any other grant of this host,
\* through any number of wrappers.
THEOREM LocalGrantsStay == Spec => []NoLocalGrantAbroad
<1>1. WalkInv => NoLocalGrantAbroad
  <2>. SUFFICES ASSUME WalkInv, NEW i \in DOMAIN frames,
                       \E j \in i..Len(frames) : frames[j].request.remote,
                       NEW n \in Range(frames[i].trace), IsOutput(n)
                PROVE  AsPath(Target(n)) = DevNull
    BY DEF NoLocalGrantAbroad
  <2>1. frames[i].scope.cwd = NoPath
    BY DEF WalkInv, NoRemoteCwd
  <2>2. Justified(frames[i], n)
    BY DEF WalkInv, Sound
  <2>3. n.k = "redir" /\ n.op \in Outputs
    BY DEF IsOutput
  <2>4. IsSafe(config, frames[i].scope, n)
    BY <2>2, <2>3 DEF Justified
  <2>5. checkRedirect(config, frames[i].scope, n)
    BY <2>3, <2>4 DEF IsSafe
  <2>6. isPathAllowed(config, frames[i].scope, Target(n))
    BY <2>3, <2>5 DEF checkRedirect, Outputs, Duplicates
  <2>. QED  BY <2>1, <2>6 DEF isPathAllowed, safeRedirectTargets
<1>. QED  BY <1>1, WalkInvCorrect, PTL

\* Whatever syntax a visited node holds, an allowed evaluation has visited too,
\* or it is a literal word: no kind of node hides a part of itself.
THEOREM NoSyntaxIsSkipped == Spec => []NothingSkipped
<1>. QED  BY VisitedInFull, WalkInvCorrect, PTL

\* What the last contributed rule set, if it names a command once, says of its
\* commands is what they are ruled by, whatever broader projects say.
THEOREM ClosestSetRules == Spec => []ClosestSetDecides
<1>. QED  BY ClosestDecides, WalkInvCorrect, PTL

-----------------------------------------------------------------------------
(***************************************************************************)
(* Commands without rules.                                                 *)
(***************************************************************************)

\* No rule set merges to no rule set.
LEMMA NothingMerges == MergeRuleSets(<<>>) = <<>>
<1>1. Reverse(<<>>) = <<>>
  BY DEF Reverse
<1>2. FlattenSeq(<<>>) = <<>>
  BY DEF FlattenSeq
<1>3. PICK S : S = {}
  OBVIOUS
<1>4. <<>> \in Seq(S) /\ Len(<<>>) = 0
  OBVIOUS
<1>5. PICK f : f[0] = <<>> /\ MergeSpecs(<<>>) = f[Len(<<>>)]
  BY <1>4, MergedDef
<1>. QED  BY <1>1, <1>2, <1>4, <1>5 DEF MergeRuleSets

\* A call that its checker has nothing to object to.
LEMMA PassedIsChecked ==
    ASSUME NEW call, runChecker(Checker(CommandName(call.args[1])), Tokens(call))
    PROVE  CheckedCall(call) /\ CommandName(call.args[1]) \in Readers
<1>1. PICK name, toks : name = CommandName(call.args[1]) /\ toks = Tokens(call)
  OBVIOUS
<1>2. SedNames = {Name("sed"), Name("gsed")}
      /\ AwkNames = {Name("awk"), Name("gawk"), Name("mawk"), Name("nawk")}
  BY DEF SedNames, AwkNames
<1>3. /\ name \in SedNames => Checker(name) = "sed"
      /\ name \in AwkNames \ SedNames => Checker(name) = "awk"
      /\ name \notin SedNames \cup AwkNames => Checker(name) = "none"
  <2>1. Checker(name) = CASE name \in SedNames -> "sed"
                          [] name \in AwkNames -> "awk"
                          [] OTHER -> "none"
    BY <1>2, Zenon DEF Checker
  <2>2. SedNames \cap AwkNames = {}
    BY DEF SedNames, AwkNames, Name, Path
  <2>. QED  BY <2>1, <2>2
<1>4. /\ runChecker("sed", toks) => sedCheck(toks)
      /\ runChecker("awk", toks) => awkCheck(toks)
      /\ ~ runChecker("none", toks)
  <2>1. "none" # "sed" /\ "none" # "awk" /\ "awk" # "sed"
    OBVIOUS
  <2>. QED  BY <2>1, Zenon DEF runChecker
<1>. QED  BY <1>1, <1>3, <1>4 DEF CheckedCall, Readers

\* An allowed call for which there are no rules.
LEMMA UnruledIsChecked ==
    ASSUME NEW projects, NEW scope, NEW call, NEW accepted,
           Allowed(<<>>, projects, scope, call, accepted)
    PROVE  CheckedCall(call) /\ CommandName(call.args[1]) \in Readers
<1>1. LookupCommand(<<>>, CommandName(call.args[1])) = <<>>
  BY DEF LookupCommand
<1>2. runChecker(Checker(CommandName(call.args[1])), Tokens(call))
  BY <1>1, Zenon DEF Allowed
<1>. QED  BY <1>2, PassedIsChecked

\* The last evaluation's caller, or the vote, has the names it had.
LEMMA UnruledReturn ==
    ASSUME WalkInv, UnruledInv, frames # <<>>, NEW allowed \in BOOLEAN, Return(allowed),
           UNCHANGED <<config, input, ruleSet>>
    PROVE  UnruledInv'
<1>0. ruleSet' = resolveRules(config', input'.root)
  BY DEF WalkInv
<1>. SUFFICES ASSUME ContributedSets(config, input.root) = <<>> PROVE UnruledInv'
  BY <1>0 DEF UnruledInv
<1>1. frames \in Seq(Frame) /\ DOMAIN frames = 1..Len(frames) /\ Len(frames) \in Nat \ {0}
  <2>1. frames \in Seq(Frame)
    BY DEF WalkInv, TypeOK
  <2>. QED  BY <2>1, EmptySeq, LenProperties
<1>2. /\ \A i \in 1..Len(frames) : Range(frames[i].matched) \subseteq Readers
      /\ Range(vote.matched) \subseteq Readers
  BY <1>1 DEF UnruledInv
<1>3. CASE Len(frames) = 1
  <2>1. frames' = <<>> /\ vote' = IF allowed THEN [decision |-> "allow", matched |-> Top.matched] ELSE Silent
    BY <1>3 DEF Return
  <2>2. Range(Top.matched) \subseteq Readers
    BY <1>1, <1>2 DEF Top
  <2>3. Range(Silent.matched) = {}
    BY DEF Silent, Range
  <2>4. Range(vote'.matched) \subseteq Readers
    BY <2>1, <2>2, <2>3
  <2>. QED  BY <1>0, <2>1, <2>4 DEF UnruledInv
<1>4. CASE Len(frames) # 1
  <2>1. PICK e : e = Answered(frames[2], Top.request, allowed)
    OBVIOUS
  <2>2. frames' = <<e>> \o Tail(Tail(frames)) /\ vote' = vote
    BY <1>4, <2>1 DEF Return
  <2>3. 1 \in 1..Len(frames) /\ 2 \in 1..Len(frames) /\ frames[2] \in Frame /\ Top \in Frame
    <3>1. 1 \in 1..Len(frames) /\ 2 \in 1..Len(frames)
      BY <1>1, <1>4
    <3>. QED  BY <1>1, <3>1, ElementOfSeq DEF Top
  <2>4. e.matched = frames[2].matched
    BY <2>1, <2>3 DEF Answered, Frame
  <2>5. PICK S : Frame \cup {e} \subseteq S
    OBVIOUS
  <2>6. frames \in Seq(S) /\ e \in S
    BY <1>1, <2>5, SeqMonotonic
  <2>7. /\ <<e>> \o Tail(Tail(frames)) \in Seq(S)
        /\ Len(<<e>> \o Tail(Tail(frames))) = Len(frames) - 1
        /\ (<<e>> \o Tail(Tail(frames)))[1] = e
        /\ \A i \in 2..Len(frames) - 1 : (<<e>> \o Tail(Tail(frames)))[i] = frames[i + 1]
    <3>1. frames # <<>> /\ Len(frames) # 1
      BY <1>4
    <3>. QED  BY <2>6, <3>1, PopTop
  <2>8. frames' \in Seq(S) /\ Len(frames') = Len(frames) - 1
    BY <2>2, <2>7
  <2>9. DOMAIN frames' = 1..(Len(frames) - 1)
    BY <2>8, LenProperties
  <2>10. ASSUME NEW i \in 1..(Len(frames) - 1) PROVE Range(frames'[i].matched) \subseteq Readers
    <3>1. CASE i = 1
      <4>1. frames'[i] = e
        BY <2>2, <2>7, <3>1
      <4>. QED  BY <1>2, <2>3, <2>4, <4>1
    <3>2. CASE i # 1
      <4>1. i \in 2..Len(frames) - 1 /\ i + 1 \in 1..Len(frames)
        BY <1>1, <3>2
      <4>2. frames'[i] = frames[i + 1]
        BY <2>2, <2>7, <4>1
      <4>. QED  BY <1>2, <4>1, <4>2
    <3>. QED  BY <3>1, <3>2
  <2>. QED  BY <1>0, <1>2, <2>2, <2>9, <2>10 DEF UnruledInv
<1>. QED  BY <1>3, <1>4

\* The innermost evaluation has the names it had, or one more that is allowed.
LEMMA UnruledTop ==
    ASSUME WalkInv, UnruledInv, frames # <<>>, NEW g,
           frames' = <<g>> \o Tail(frames),
           ContributedSets(config, input.root) = <<>> => Range(g.matched) \subseteq Readers,
           UNCHANGED <<config, input, vote, ruleSet, cleared>>
    PROVE  UnruledInv'
<1>. SUFFICES ASSUME ContributedSets(config, input.root) = <<>> PROVE UnruledInv'
  BY DEF UnruledInv
<1>1. frames \in Seq(Frame) /\ DOMAIN frames = 1..Len(frames) /\ Len(frames) \in Nat
  <2>1. frames \in Seq(Frame)
    BY DEF WalkInv, TypeOK
  <2>. QED  BY <2>1, LenProperties
<1>2. PICK S : Frame \cup {g} \subseteq S
  OBVIOUS
<1>3. frames \in Seq(S) /\ g \in S
  BY <1>1, <1>2, SeqMonotonic
<1>4. /\ <<g>> \o Tail(frames) \in Seq(S)
      /\ Len(<<g>> \o Tail(frames)) = Len(frames)
      /\ (<<g>> \o Tail(frames))[1] = g
      /\ \A i \in 2..Len(frames) : (<<g>> \o Tail(frames))[i] = frames[i]
  BY <1>3, ReplaceTop
<1>5. frames' \in Seq(S) /\ Len(frames') = Len(frames)
  BY <1>4
<1>6. DOMAIN frames' = 1..Len(frames)
  BY <1>5, LenProperties
<1>7. ASSUME NEW i \in 1..Len(frames) PROVE Range(frames'[i].matched) \subseteq Readers
  <2>1. CASE i = 1
    BY <1>4, <2>1
  <2>2. CASE i # 1
    <3>1. i \in 2..Len(frames)
      BY <1>1, <2>2
    <3>2. frames'[i] = frames[i]
      BY <1>4, <3>1
    <3>. QED  BY <1>1, <3>2 DEF UnruledInv
  <2>. QED  BY <2>1, <2>2
<1>. QED  BY <1>6, <1>7 DEF UnruledInv

\* Without rules the walk matches readers only.
LEMMA UnruledStep == WalkInv /\ UnruledInv /\ [Next]_vars => UnruledInv'
<1>. SUFFICES ASSUME WalkInv, UnruledInv, [Next]_vars PROVE UnruledInv'
  OBVIOUS
<1>0. /\ frames \in Seq(Frame) /\ DOMAIN frames = 1..Len(frames) /\ Len(frames) \in Nat
      /\ frames # <<>> => Top \in Frame /\ 1 \in DOMAIN frames
  <2>1. frames \in Seq(Frame)
    BY DEF WalkInv, TypeOK
  <2>. QED  BY <2>1, EmptySeq, ElementOfSeq, LenProperties DEF Top
<1>1. CASE StaySilent
  <2>1. frames' = <<>> /\ vote' = Silent /\ UNCHANGED <<config, input, ruleSet, cleared>>
    BY <1>1 DEF StaySilent
  <2>. QED  BY <2>1 DEF UnruledInv, Silent, Range
<1>2. CASE Begin
  <2>1. /\ frames' = <<NewFrame(input.script, RootScope(input), NoRequest)>>
        /\ UNCHANGED <<config, input, vote, cleared>> /\ cleared = {}
    BY <1>2 DEF Begin, WalkInv
  <2>2. DOMAIN frames' = {1} /\ frames'[1].matched = <<>>
    BY <2>1 DEF NewFrame
  <2>3. Range(<<>>) = {}
    BY DEF Range
  <2>. QED  BY <2>1, <2>2, <2>3 DEF UnruledInv
<1>3. CASE Visit
  <2>1. PICK g : g = [Top EXCEPT !.todo = Kids(Current) \o Tail(Top.todo),
                                 !.trace = Append(Top.trace, Current),
                                 !.writtenPaths = recordWrittenPath(Top, Current)]
    OBVIOUS
  <2>2. /\ frames' = <<g>> \o Tail(frames) /\ frames # <<>>
        /\ UNCHANGED <<config, input, vote, ruleSet, cleared>>
    BY <1>3, <2>1 DEF Visit, Walking
  <2>3. g.matched = Top.matched
    BY <1>0, <2>1, <2>2 DEF Frame
  <2>4. ContributedSets(config, input.root) = <<>> => Range(g.matched) \subseteq Readers
    BY <1>0, <2>2, <2>3 DEF UnruledInv, Top
  <2>. QED  BY <2>2, <2>4, UnruledTop
<1>4. CASE Ask
  <2>1. PICK r \in AskedOf(Top, Current.call) \ Top.asked :
            frames' = <<NewFrame(ParseCommand(r.toks), NestedScope(Top.scope, r), r)>> \o frames
    BY <1>4 DEF Ask
  <2>2. PICK e : e = NewFrame(ParseCommand(r.toks), NestedScope(Top.scope, r), r)
    OBVIOUS
  <2>3. /\ frames' = <<e>> \o frames /\ e.matched = <<>>
        /\ UNCHANGED <<config, input, vote, ruleSet, cleared>>
    BY <1>4, <2>1, <2>2 DEF Ask, NewFrame
  <2>4. PICK S : Frame \cup {e} \subseteq S
    OBVIOUS
  <2>5. frames \in Seq(S) /\ e \in S
    BY <1>0, <2>4, SeqMonotonic
  <2>6. /\ <<e>> \o frames \in Seq(S)
        /\ Len(<<e>> \o frames) = Len(frames) + 1
        /\ (<<e>> \o frames)[1] = e
        /\ \A i \in 2..Len(frames) + 1 : (<<e>> \o frames)[i] = frames[i - 1]
    BY <2>5, PushTop
  <2>7. frames' \in Seq(S) /\ Len(frames') = Len(frames) + 1
    BY <2>3, <2>6
  <2>8. DOMAIN frames' = 1..(Len(frames) + 1)
    BY <2>7, LenProperties
  <2>9. SUFFICES ASSUME ContributedSets(config, input.root) = <<>>, NEW i \in 1..(Len(frames) + 1)
                 PROVE  Range(frames'[i].matched) \subseteq Readers
    BY <2>3, <2>8 DEF UnruledInv
  <2>10. CASE i = 1
    BY <2>3, <2>6, <2>10 DEF Range
  <2>11. CASE i # 1
    <3>1. i \in 2..Len(frames) + 1 /\ i - 1 \in 1..Len(frames)
      BY <1>0, <2>11
    <3>2. frames'[i] = frames[i - 1]
      BY <2>3, <2>6, <3>1
    <3>. QED  BY <1>0, <2>9, <3>1, <3>2 DEF UnruledInv
  <2>. QED  BY <2>10, <2>11
<1>5. CASE Match
  <2>1. PICK name : name = CommandName(Current.call.args[1])
    OBVIOUS
  <2>2. PICK g : g = [Top EXCEPT !.todo = Tail(Top.todo),
                                 !.trace = Append(Top.trace, Current),
                                 !.matched = Append(Top.matched, name),
                                 !.asked = {},
                                 !.accepted = {}]
    OBVIOUS
  <2>3. /\ frames' = <<g>> \o Tail(frames) /\ frames # <<>>
        /\ UNCHANGED <<config, input, vote, ruleSet, cleared>>
        /\ Allows(Top, Current.call)
    BY <1>5, <2>1, <2>2 DEF Match, Dispatched, Walking
  <2>4. g.matched = Append(Top.matched, name) /\ Top.matched \in Seq(Names)
    BY <1>0, <2>2, <2>3 DEF Frame
  <2>5. Range(g.matched) = Range(Top.matched) \cup {name}
    <3>1. PICK S : Names \cup {name} \subseteq S
      OBVIOUS
    <3>2. Top.matched \in Seq(S) /\ name \in S
      BY <2>4, <3>1, SeqMonotonic
    <3>. QED  BY <2>4, <3>2, RangeAppend
  <2>6. ASSUME ContributedSets(config, input.root) = <<>> PROVE Range(g.matched) \subseteq Readers
    <3>1. ruleSet = <<>>
      BY <2>3, <2>6, NothingMerges DEF WalkInv, resolveRules
    <3>2. name \in Readers
      BY <2>1, <2>3, <3>1, UnruledIsChecked DEF Allows
    <3>3. Range(Top.matched) \subseteq Readers
      BY <1>0, <2>3, <2>6 DEF UnruledInv, Top
    <3>. QED  BY <2>5, <3>2, <3>3
  <2>. QED  BY <2>3, <2>6, UnruledTop
<1>6. CASE Reject
  <2>1. frames # <<>>
    BY <1>6 DEF Reject, Walking, Dispatched
  <2>2. Return(FALSE) /\ UNCHANGED <<config, input, ruleSet>>
    BY <1>6 DEF Reject
  <2>. QED  BY <2>1, <2>2, UnruledReturn
<1>7. CASE Clear
  <2>1. frames # <<>> /\ Return(TRUE) /\ UNCHANGED <<config, input, ruleSet>>
    BY <1>7 DEF Clear
  <2>. QED  BY <2>1, UnruledReturn
<1>8. CASE UNCHANGED vars
  BY <1>8 DEF vars, UnruledInv
<1>. QED  BY <1>1, <1>2, <1>3, <1>4, <1>5, <1>6, <1>7, <1>8 DEF Next

\* When no project contributes rules, every call of an evaluation that answered
\* Allowed is one that a checker of its own has passed (staticbash/evaluate.go:53).
THEOREM UnruledMeansChecked == Spec => []UnruledCallsAreChecked
<1>1. Init => UnruledInv
  BY DEF Init, UnruledInv, Pending, Range
<1>2. Spec => [](WalkInv /\ UnruledInv)
  BY <1>1, WalkInit, WalkStep, UnruledStep, PTL DEF Spec
<1>3. WalkInv /\ UnruledInv => UnruledCallsAreChecked
  <2>. SUFFICES ASSUME WalkInv, UnruledInv, ContributedSets(config, input.root) = <<>>
                PROVE  /\ Range(vote.matched) \subseteq Readers
                       /\ \A f \in cleared : \A n \in Range(f.trace) :
                              n.k = "dispatch" => CheckedCall(n.call)
    BY DEF UnruledCallsAreChecked
  <2>1. ASSUME NEW f \in cleared, NEW n \in Range(f.trace), n.k = "dispatch"
        PROVE  CheckedCall(n.call)
    <3>1. ruleSet = <<>>
      BY NothingMerges DEF UnruledInv, resolveRules
    <3>2. PICK accepted : Allowed(ruleSet, config, f.scope, n.call, accepted)
      BY <2>1 DEF WalkInv, Sound, Justified
    <3>. QED  BY <3>1, <3>2, UnruledIsChecked
  <2>. QED  BY <2>1 DEF UnruledInv
<1>. QED  BY <1>2, <1>3, PTL

-----------------------------------------------------------------------------
(***************************************************************************)
(* The words of a call and their flags.                                    *)
(***************************************************************************)

\* A set of positions that has one has a last one.
LEMMA LastPosition ==
    ASSUME NEW n \in Nat, NEW T \in SUBSET (1..n), T # {}
    PROVE  Max(T) \in T
<1>. DEFINE U == {n - x : x \in T}
<1>1. PICK m : m \in T
  OBVIOUS
<1>2. U \in SUBSET Nat /\ n - m \in U
  BY <1>1
<1>. HIDE DEF U
<1>3. PICK u \in U : \A k \in Nat : k < u => k \notin U
  BY <1>2, LeastNat
<1>4. PICK x \in T : u = n - x
  BY <1>3 DEF U
<1>5. ASSUME NEW y \in T PROVE x >= y
  <2>1. n - y \in U /\ n - y \in Nat
    BY <1>2 DEF U
  <2>2. ~ (n - y < u)
    BY <1>3, <2>1
  <2>. QED  BY <1>4, <2>2
<1>6. \E v \in T : \A y \in T : v >= y
  BY <1>5
<1>. QED  BY <1>6, Zenon DEF Max

WellFormed(cr) ==
    /\ cr.rules \in Seq(Range(cr.rules))
    /\ \A rule \in Range(cr.rules) : ConditionOf(rule) \in Seq(Range(ConditionOf(rule)))

\* The definitions the words are parsed with are those of the list.
Agrees(defs, list, combined) ==
    /\ \A flag \in list.with \cup list.without :
          flag \in DOMAIN defs /\ (defs[flag] = (flag \in list.with))
    /\ combined => \A flag \in list.with \cup list.without :
          flag.t = "short" => Len(flag.chars) = 1

LEMMA ListDefs ==
    ASSUME NEW list, list.c = "every_flag_matches"
    PROVE  collectFlagDefsFromCondition(list)
             = [f \in list.with \cup list.without |-> f \in list.with]
<1>1. list.c # "not" /\ list.c # "flag_arg_check" /\ list.c # "subcommands"
  OBVIOUS
<1>. QED  BY <1>1, Zenon DEF collectFlagDefsFromCondition, simpleDefs

\* Rules that agree with a list are collected to definitions that do.
LEMMA CollectedAgree ==
    ASSUME NEW cr, WellFormed(cr), NEW list, ListsFlags(cr, list)
    PROVE  Agrees(collectFlagDefs(cr), list, cr.combined)
<1>. DEFINE D == [i \in DOMAIN cr.rules |->
                     IF ConditionOf(cr.rules[i]) = <<>> THEN <<>>
                     ELSE collectFlagDefsFromCondition(ConditionOf(cr.rules[i])[1])]
            N == Len(cr.rules)
<1>2. N \in Nat /\ DOMAIN cr.rules = 1..N
  BY LenProperties DEF WellFormed
<1>3. \A i \in 1..N : cr.rules[i] \in Range(cr.rules)
  BY <1>2 DEF Range
<1>1. collectFlagDefs(cr) = Overriding(D)
  <2>. DEFINE defsOf == [cond \in Conditions(cr) |-> collectFlagDefsFromCondition(cond)]
              E == [i \in DOMAIN cr.rules |->
                       IF ConditionOf(cr.rules[i]) = <<>> THEN <<>>
                       ELSE defsOf[ConditionOf(cr.rules[i])[1]]]
  <2>1. collectFlagDefs(cr) = Overriding(E)
    BY DEF collectFlagDefs, RuleDefs
  <2>2. ASSUME NEW i \in DOMAIN cr.rules, ConditionOf(cr.rules[i]) # <<>>
        PROVE  defsOf[ConditionOf(cr.rules[i])[1]]
                  = collectFlagDefsFromCondition(ConditionOf(cr.rules[i])[1])
    <3>1. PICK rule \in Range(cr.rules) : rule = cr.rules[i]
      BY <1>2, <1>3
    <3>2. ConditionOf(rule) \in Seq(Range(ConditionOf(rule)))
      BY <3>1 DEF WellFormed
    <3>3. ConditionOf(rule)[1] \in Range(ConditionOf(rule))
      BY <2>2, <3>1, <3>2, RangeHeadTail
    <3>4. ConditionOf(rule)[1] \in Conditions(cr)
      BY <3>1, <3>3 DEF Conditions
    <3>. QED  BY <3>1, <3>4
  <2>. HIDE DEF defsOf
  <2>3. E = D
    BY <2>2
  <2>. HIDE DEF D, E
  <2>. QED  BY <2>1, <2>3
<1>4. DOMAIN D = 1..N
  BY <1>2
<1>5. ASSUME NEW i \in 1..N, NEW flag \in DOMAIN D[i], flag \in list.with \cup list.without
      PROVE  D[i][flag] = (flag \in list.with)
  <2>1. PICK rule : rule = cr.rules[i] /\ rule \in Range(cr.rules)
    BY <1>3
  <2>2. ConditionOf(rule) # <<>>
    <3>1. ConditionOf(rule) = <<>> => D[i] = <<>>
      BY <1>2, <2>1
    <3>. QED  BY <1>5, <3>1
  <2>3. PICK cond : cond = ConditionOf(rule)[1]
    OBVIOUS
  <2>4. D[i] = collectFlagDefsFromCondition(cond)
    BY <1>2, <2>1, <2>2, <2>3
  <2>5. cond \in Range(ConditionOf(rule))
    <3>1. ConditionOf(rule) \in Seq(Range(ConditionOf(rule)))
      BY <2>1 DEF WellFormed
    <3>. QED  BY <2>2, <2>3, <3>1, RangeHeadTail
  <2>. HIDE DEF D
  <2>. QED  BY <1>5, <2>1, <2>4, <2>5 DEF ListsFlags
<1>6. PICK k \in 1..N : D[k] = [f \in list.with \cup list.without |-> f \in list.with]
  <2>1. PICK rule : rule = [action |-> "allow", cond |-> <<list>>]
    OBVIOUS
  <2>2. rule \in Range(cr.rules)
    BY <2>1 DEF ListsFlags
  <2>3. PICK k \in 1..N : cr.rules[k] = rule
    BY <1>2, <2>2 DEF Range
  <2>4. ConditionOf(rule) = <<list>>
    BY <2>1 DEF ConditionOf
  <2>5. <<list>> # <<>> /\ <<list>>[1] = list
    OBVIOUS
  <2>6. D[k] = collectFlagDefsFromCondition(list)
    BY <1>2, <2>3, <2>4, <2>5
  <2>7. list.c = "every_flag_matches"
    BY DEF ListsFlags
  <2>. HIDE DEF D
  <2>. QED  BY <2>6, <2>7, ListDefs
<1>. HIDE DEF D
<1>7. ASSUME NEW flag \in list.with \cup list.without
      PROVE  flag \in DOMAIN Overriding(D) /\ (Overriding(D)[flag] = (flag \in list.with))
  <2>. DEFINE T == {i \in DOMAIN D : flag \in DOMAIN D[i]}
  <2>1. k \in T
    BY <1>4, <1>6
  <2>2. T \in SUBSET (1..N) /\ T # {}
    BY <1>4, <2>1
  <2>. HIDE DEF T
  <2>3. Max(T) \in T
    BY <1>2, <2>2, LastPosition
  <2>4. flag \in UNION {DOMAIN D[i] : i \in DOMAIN D}
    BY <1>4, <1>6
  <2>5. flag \in DOMAIN Overriding(D)
    BY <2>4 DEF Overriding
  <2>6. Overriding(D)[flag] = D[Max(T)][flag]
    BY <2>4 DEF Overriding, T
  <2>7. Max(T) \in 1..N /\ flag \in DOMAIN D[Max(T)]
    BY <1>4, <2>3 DEF T
  <2>. QED  BY <1>5, <2>5, <2>6, <2>7
<1>. QED  BY <1>1, <1>7 DEF Agrees, ListsFlags

\* The turns of the parser's loop.
IsParse(f, words, defs, combined) ==
    /\ f[0] = [parsed |-> EmptyArgs(words), i |-> 0]
    /\ \A n \in 1..Len(words) : f[n] = ParseStep(words, defs, combined, n, f[n - 1])

LEMMA ParseTurns ==
    ASSUME NEW words, Len(words) \in Nat, NEW defs, NEW combined
    PROVE  \E f : /\ IsParse(f, words, defs, combined)
                  /\ parseArgs(words, defs, combined) = f[Len(words)].parsed
<1>. DEFINE N == Len(words)
            a == [parsed |-> EmptyArgs(words), i |-> 0]
            UpTo(f, m) == f = [n \in 0..m |-> IF n = 0 THEN a
                                              ELSE ParseStep(words, defs, combined, n, f[n - 1])]
            M == {m \in Nat : \E f : UpTo(f, m)}
<1>1. 0 \in M
  <2>. DEFINE f == [n \in 0..0 |-> a]
  <2>1. ASSUME NEW n \in 0..0
        PROVE  f[n] = IF n = 0 THEN a ELSE ParseStep(words, defs, combined, n, f[n - 1])
    OBVIOUS
  <2>2. UpTo(f, 0)
    <3>1. f = [n \in 0..0 |-> f[n]]
      OBVIOUS
    <3>. HIDE DEF f, a
    <3>. QED  BY <2>1, <3>1, Zenon
  <2>. QED  BY <2>2, Zenon
<1>2. ASSUME NEW m \in M PROVE m + 1 \in M
  <2>. HIDE DEF a
  <2>1. PICK f : UpTo(f, m)
    OBVIOUS
  <2>. DEFINE g == [n \in 0..(m + 1) |-> IF n = m + 1 THEN ParseStep(words, defs, combined, m + 1, f[m])
                                          ELSE f[n]]
  <2>2. ASSUME NEW n \in 0..(m + 1)
        PROVE  g[n] = IF n = 0 THEN a ELSE ParseStep(words, defs, combined, n, g[n - 1])
    <3>1. CASE n = m + 1
      <4>1. n # 0 /\ n - 1 = m /\ m \in 0..(m + 1) /\ m # m + 1
        BY <3>1
      <4>2. g[n] = ParseStep(words, defs, combined, m + 1, f[m]) /\ g[m] = f[m]
        BY <3>1, <4>1
      <4>. QED  BY <3>1, <4>1, <4>2
    <3>2. CASE n # m + 1
      <4>1. n \in 0..m /\ g[n] = f[n]
        BY <3>2
      <4>2. f[n] = IF n = 0 THEN a ELSE ParseStep(words, defs, combined, n, f[n - 1])
        BY <2>1, <4>1
      <4>3. n # 0 => n - 1 \in 0..(m + 1) /\ n - 1 # m + 1
        BY <4>1
      <4>4. n # 0 => g[n - 1] = f[n - 1]
        BY <4>3
      <4>. HIDE DEF g
      <4>. QED  BY <4>1, <4>2, <4>4
    <3>. QED  BY <3>1, <3>2
  <2>3. g = [n \in 0..(m + 1) |-> g[n]]
    OBVIOUS
  <2>. HIDE DEF g
  <2>4. UpTo(g, m + 1)
    BY <2>2, <2>3, Zenon
  <2>5. m + 1 \in Nat
    OBVIOUS
  <2>. QED  BY <2>4, <2>5, Zenon
<1>3. M = Nat
  <2>. HIDE DEF M
  <2>. QED  BY <1>1, <1>2, NatSetInduction DEF M
<1>. DEFINE upTo == CHOOSE f : UpTo(f, N)
<1>4. UpTo(upTo, N)
  <2>1. \E f : UpTo(f, N)
    BY <1>3
  <2>. QED  BY <2>1, Zenon
<1>5. parseArgs(words, defs, combined) = upTo[N].parsed
  BY Zenon DEF parseArgs
<1>6. upTo[0] = a /\ \A n \in 1..N : upTo[n] = ParseStep(words, defs, combined, n, upTo[n - 1])
  <2>. HIDE DEF upTo, a
  <2>1. 0 \in 0..N /\ \A n \in 1..N : n \in 0..N /\ n # 0
    OBVIOUS
  <2>. QED  BY <1>4, <2>1
<1>. QED  BY <1>5, <1>6 DEF IsParse

\* Arguments parsed so far.
Shaped(p) ==
    /\ DOMAIN p = {"ok", "flags", "positionals", "rawWords", "hasDoubleDash", "positionalWordIndices"}
    /\ p.ok = TRUE /\ p.hasDoubleDash \in BOOLEAN
    /\ p.flags \in Seq(Range(p.flags)) /\ p.positionals \in Seq(Range(p.positionals))

Grows(p, q) ==
    /\ Range(p.flags) \subseteq Range(q.flags)
    /\ Range(p.positionals) \subseteq Range(q.positionals)

\* The words of a call, clusters among them.
Worded(words) ==
    /\ words \in Seq(Range(words))
    /\ \A w \in Range(words) : w.t = "short" => w.chars \in Seq(Range(w.chars))

LEMMA WordedAt ==
    ASSUME NEW words, Worded(words), NEW i \in 1..Len(words)
    PROVE  words[i] \in Range(words) /\ Len(words) \in Nat /\ DOMAIN words = 1..Len(words)
<1>1. Range(words) = {words[j] : j \in 1..Len(words)}
  BY RangeEquality DEF Worded
<1>. QED  BY <1>1, LenProperties DEF Worded

\* A cluster is decomposed to as many flags.
LEMMA DecomposedFlags ==
    ASSUME NEW words, Worded(words), NEW i \in 1..Len(words), words[i].t = "short", NEW defs
    PROVE  LET found == decomposeCombinedFlags(defs, words, i)
           IN  /\ found.flags \in Seq(Range(found.flags))
               /\ Len(found.flags) = Len(words[i].chars)
               /\ DOMAIN found.flags = 1..Len(words[i].chars)
               /\ Len(words[i].chars) \in Nat
<1>1. PICK chars : chars = words[i].chars /\ chars \in Seq(Range(chars))
  BY WordedAt DEF Worded
<1>2. Len(chars) \in Nat /\ DOMAIN chars = 1..Len(chars)
  BY <1>1, LenProperties
<1>3. PICK found : found = decomposeCombinedFlags(defs, words, i)
  OBVIOUS
<1>4. DOMAIN found.flags = 1..Len(chars)
  BY <1>1, <1>2, <1>3 DEF decomposeCombinedFlags
<1>5. found.flags \in [1..Len(chars) -> Range(found.flags)]
  <2>1. found.flags = [j \in DOMAIN found.flags |-> found.flags[j]]
    BY <1>3 DEF decomposeCombinedFlags
  <2>2. \A j \in DOMAIN found.flags : found.flags[j] \in Range(found.flags)
    BY DEF Range
  <2>. QED  BY <1>4, <2>1, <2>2
<1>6. found.flags \in Seq(Range(found.flags)) /\ Len(found.flags) = Len(chars)
  <2>1. found.flags \in Seq(Range(found.flags))
    BY <1>2, <1>5, SeqDef
  <2>2. DOMAIN found.flags = 1..Len(found.flags) /\ Len(found.flags) \in Nat
    BY <2>1, LenProperties
  <2>. QED  BY <1>2, <1>4, <2>1, <2>2
<1>. QED  BY <1>1, <1>2, <1>3, <1>4, <1>6

\* The flags of a word are a sequence.
LEMMA FoundFlags ==
    ASSUME NEW words, Worded(words), NEW i \in 1..Len(words), NEW defs, NEW combined
    PROVE  LET found == FlagsAt(words, defs, combined, i)
           IN  found.flags \in Seq(Range(found.flags))
<1>1. PICK found, s, split : /\ found = FlagsAt(words, defs, combined, i)
                             /\ s = words[i]
                             /\ split = decomposeCombinedFlags(defs, words, i)
  OBVIOUS
<1>2. \/ \E flag : found.flags = <<flag>>
      \/ s.t = "short" /\ found = split
  <2>1. CASE s.t = "short" /\ combined /\ Len(s.chars) > 1 /\ split.ok
    BY <1>1, <2>1 DEF FlagsAt
  <2>2. CASE ~ (s.t = "short" /\ combined /\ Len(s.chars) > 1 /\ split.ok)
    BY <1>1, <2>2 DEF FlagsAt, WithNextWord
  <2>. QED  BY <2>1, <2>2
<1>3. CASE \E flag : found.flags = <<flag>>
  <2>1. PICK flag : found.flags = <<flag>>
    BY <1>3
  <2>2. Range(<<flag>>) = {flag}
    BY DEF Range
  <2>. QED  BY <1>1, <2>1, <2>2
<1>4. CASE s.t = "short" /\ found = split
  BY <1>1, <1>4, DecomposedFlags
<1>. QED  BY <1>1, <1>2, <1>3, <1>4

\* What one turn adds.
LEMMA TurnGrows ==
    ASSUME NEW words, Worded(words), NEW n \in 1..Len(words), NEW defs, NEW combined,
           NEW p, Shaped(p), NEW t, t = ParseWord(words, defs, combined, n, p)
    PROVE  t.parsed = NoParse \/ (Shaped(t.parsed) /\ Grows(p, t.parsed))
<1>1. PICK found, s : found = FlagsAt(words, defs, combined, n) /\ s = words[n]
  OBVIOUS
<1>2. \/ t.parsed = NoParse
      \/ t.parsed = [p EXCEPT !.hasDoubleDash = TRUE]
      \/ t.parsed = [p EXCEPT !.flags = @ \o found.flags]
      \/ t.parsed = [p EXCEPT !.positionals = Append(@, s),
                              !.positionalWordIndices = Append(@, n)]
  BY <1>1 DEF ParseWord, WithFlags
<1>3. CASE t.parsed = [p EXCEPT !.hasDoubleDash = TRUE]
  BY <1>3 DEF Shaped, Grows
<1>4. CASE t.parsed = [p EXCEPT !.flags = @ \o found.flags]
  <2>1. found.flags \in Seq(Range(found.flags))
    BY <1>1, FoundFlags
  <2>2. PICK old, new : old = p.flags /\ new = found.flags
    OBVIOUS
  <2>3. Range(old \o new) = Range(old) \cup Range(new) /\ old \o new \in Seq(Range(old \o new))
    BY <2>1, <2>2, RangeOfBoth DEF Shaped
  <2>4. t.parsed = [p EXCEPT !.flags = old \o new]
    BY <1>4, <2>2
  <2>5. /\ t.parsed.flags = old \o new /\ t.parsed.positionals = p.positionals
        /\ t.parsed.ok = TRUE /\ t.parsed.hasDoubleDash = p.hasDoubleDash
        /\ DOMAIN t.parsed = DOMAIN p
    BY <2>4 DEF Shaped
  <2>. QED  BY <2>2, <2>3, <2>5 DEF Shaped, Grows
<1>5. CASE t.parsed = [p EXCEPT !.positionals = Append(@, s),
                                !.positionalWordIndices = Append(@, n)]
  <2>1. PICK old : old = p.positionals /\ old \in Seq(Range(old))
    BY DEF Shaped
  <2>2. PICK S : S = Range(old) \cup {s}
    OBVIOUS
  <2>3. old \in Seq(S) /\ s \in S
    BY <2>1, <2>2, SeqMonotonic
  <2>4. Append(old, s) \in Seq(S) /\ Range(Append(old, s)) = S
    BY <2>2, <2>3, RangeAppend
  <2>5. /\ t.parsed.positionals = Append(old, s) /\ t.parsed.flags = p.flags
        /\ t.parsed.ok = TRUE /\ t.parsed.hasDoubleDash = p.hasDoubleDash
        /\ DOMAIN t.parsed = DOMAIN p
    BY <1>5, <2>1 DEF Shaped
  <2>. QED  BY <2>1, <2>2, <2>4, <2>5 DEF Shaped, Grows
<1>. QED  BY <1>2, <1>3, <1>4, <1>5

\* What is parsed in the end was parsed without failing, and has grown.
LEMMA ParseGrows ==
    ASSUME NEW words, Worded(words), NEW defs, NEW combined, NEW f,
           IsParse(f, words, defs, combined), f[Len(words)].parsed.ok
    PROVE  \A n \in 0..Len(words) : /\ Shaped(f[n].parsed)
                                    /\ Grows(f[n].parsed, f[Len(words)].parsed)
<1>. DEFINE N == Len(words)
            Good(n) == f[n].parsed = NoParse \/ Shaped(f[n].parsed)
            M == {n \in Nat : n <= N => Good(n)}
<1>0. N \in Nat
  BY LenProperties DEF Worded
<1>1. 0 \in M
  <2>1. f[0].parsed = EmptyArgs(words)
    BY DEF IsParse
  <2>2. Range(<<>>) = {}
    BY DEF Range
  <2>3. Shaped(EmptyArgs(words))
    BY <2>2 DEF Shaped, EmptyArgs
  <2>. QED  BY <2>1, <2>3
<1>2. ASSUME NEW n \in 1..N, Good(n - 1)
      PROVE  /\ Good(n)
             /\ Shaped(f[n].parsed) => Shaped(f[n - 1].parsed) /\ Grows(f[n - 1].parsed, f[n].parsed)
  <2>1. PICK x, y : x = f[n - 1] /\ y = f[n]
    OBVIOUS
  <2>2. y = ParseStep(words, defs, combined, n, x)
    BY <2>1 DEF IsParse
  <2>3. \A p : Grows(p, p)
    BY DEF Grows
  <2>4. ~NoParse.ok /\ (\A p : Shaped(p) => p.ok)
    BY DEF NoParse, Shaped
  <2>5. x.parsed = NoParse \/ Shaped(x.parsed)
    BY <1>2, <2>1
  <2>6. CASE y = x
    <3>. HIDE DEF Good, M
    <3>1. Good(n)
      BY <1>2, <2>1, <2>6 DEF Good
    <3>. QED  BY <2>1, <2>3, <2>6, <3>1
  <2>7. CASE y # x
    <3>1. x.parsed.ok /\ y = ParseWord(words, defs, combined, n, x.parsed)
      BY <2>2, <2>7 DEF ParseStep
    <3>2. Shaped(x.parsed)
      BY <2>4, <2>5, <3>1
    <3>3. y.parsed = NoParse \/ (Shaped(y.parsed) /\ Grows(x.parsed, y.parsed))
      BY <3>1, <3>2, TurnGrows
    <3>4. ~Shaped(NoParse)
      BY <2>4
    <3>. QED  BY <2>1, <3>2, <3>3, <3>4
  <2>. QED  BY <2>6, <2>7
<1>3. ASSUME NEW n \in M PROVE n + 1 \in M
  <2>. SUFFICES ASSUME n + 1 <= N PROVE Good(n + 1)
    OBVIOUS
  <2>. HIDE DEF Good
  <2>1. n + 1 \in 1..N /\ (n + 1) - 1 = n /\ Good(n)
    BY <1>0
  <2>. QED  BY <1>2, <2>1
<1>4. M = Nat
  <2>. HIDE DEF M
  <2>. QED  BY <1>1, <1>3, NatSetInduction DEF M
<1>5. \A n \in 0..N : Good(n)
  BY <1>0, <1>4
<1>. DEFINE Back(k) == Shaped(f[N - k].parsed) /\ Grows(f[N - k].parsed, f[N].parsed)
            K == {k \in Nat : k <= N => Back(k)}
<1>6. 0 \in K
  <2>1. N - 0 = N /\ N \in 0..N
    BY <1>0
  <2>2. f[N].parsed # NoParse
    BY DEF NoParse
  <2>3. Shaped(f[N].parsed)
    BY <1>5, <2>1, <2>2
  <2>. QED  BY <2>1, <2>3 DEF Grows
<1>7. ASSUME NEW k \in K PROVE k + 1 \in K
  <2>. SUFFICES ASSUME k + 1 <= N PROVE Back(k + 1)
    OBVIOUS
  <2>1. PICK n \in 1..N : n = N - k /\ n - 1 = N - (k + 1) /\ n - 1 \in 0..N
    BY <1>0
  <2>2. Back(k)
    BY <1>0
  <2>3. Shaped(f[n].parsed) /\ Grows(f[n].parsed, f[N].parsed)
    BY <2>1, <2>2
  <2>4. Good(n - 1)
    BY <1>5, <2>1
  <2>. HIDE DEF Good
  <2>5. Shaped(f[n - 1].parsed) /\ Grows(f[n - 1].parsed, f[n].parsed)
    BY <1>2, <2>1, <2>3, <2>4
  <2>6. Grows(f[n - 1].parsed, f[N].parsed)
    BY <2>3, <2>5 DEF Grows
  <2>. QED  BY <2>1, <2>5, <2>6
<1>8. K = Nat
  <2>. HIDE DEF K
  <2>. QED  BY <1>6, <1>7, NatSetInduction DEF K
<1>9. ASSUME NEW n \in 0..N PROVE Shaped(f[n].parsed) /\ Grows(f[n].parsed, f[N].parsed)
  <2>. HIDE DEF Back, K
  <2>1. PICK k \in Nat : k <= N /\ N - k = n
    <3>1. N - n \in Nat /\ N - n <= N /\ N - (N - n) = n
      BY <1>0
    <3>. QED  BY <3>1
  <2>2. k \in K
    BY <1>8
  <2>3. Back(k)
    BY <2>1, <2>2 DEF K
  <2>. QED  BY <2>1, <2>3 DEF Back
<1>. QED  BY <1>9

\* What the parser found at a word is what the list says of it.
Matches(found, words, i, list, combined) ==
    LET s == words[i]
        F == FlagsIn(s, list, combined)
        waits == ~HasValue(s) /\ Last(F) \in list.with
    IN  /\ found.i = IF waits /\ i < Len(words) THEN i + 1 ELSE i
        /\ found.i = i + 1 => /\ words[i + 1] # None
                              /\ Flag(Last(F), words[i + 1]) \in Range(found.flags)
        /\ Range(F) \subseteq list.with \cup list.without
        /\ \A j \in DOMAIN F : F[j] \in list.with => j = Len(F)
        /\ HasValue(s) /\ Long(s.name) \in list.with =>
              Flag(Long(s.name), s.val[1]) \in Range(found.flags)

\* A word that is one flag.
LEMMA OneFlag ==
    ASSUME NEW flag
    PROVE  /\ Last(<<flag>>) = flag /\ Range(<<flag>>) = {flag}
           /\ \A j \in DOMAIN <<flag>> : j = Len(<<flag>>)
  BY DEF Last, Range

\* A cluster whose letters are all known.
LEMMA ListedCluster ==
    ASSUME NEW words, Worded(words), NEW i \in 1..Len(words), NEW list, NEW combined, NEW defs,
           Agrees(defs, list, combined),
           words[i].t = "short", combined, Len(words[i].chars) > 1,
           NEW found, found = decomposeCombinedFlags(defs, words, i), found.ok,
           \A g \in Range(found.flags) : g.name \in list.with \cup list.without
    PROVE  Matches(found, words, i, list, combined)
<1>1. PICK s, chars, m : s = words[i] /\ chars = s.chars /\ m = Len(chars)
  OBVIOUS
<1>2. /\ chars \in Seq(Range(chars)) /\ m \in Nat /\ m > 1 /\ DOMAIN chars = 1..m
  <2>1. chars \in Seq(Range(chars))
    BY <1>1, WordedAt DEF Worded
  <2>. QED  BY <1>1, <2>1, LenProperties
<1>3. PICK F : F = FlagsIn(s, list, combined)
  OBVIOUS
<1>4. F = [j \in DOMAIN chars |-> Short(<<chars[j]>>)]
  <2>1. s.t = "short" /\ combined /\ Len(s.chars) > 1
    BY <1>1
  <2>. QED  BY <1>1, <1>3, <2>1, Zenon DEF FlagsIn
<1>5. DOMAIN F = 1..m /\ (\A j \in 1..m : F[j] = Short(<<chars[j]>>))
  BY <1>2, <1>4
<1>6. Len(F) = m /\ Last(F) = F[m]
  <2>1. F \in [1..m -> Range(F)]
    BY <1>4, <1>5 DEF Range
  <2>2. F \in Seq(Range(F))
    BY <1>2, <2>1, SeqDef
  <2>3. DOMAIN F = 1..Len(F) /\ Len(F) \in Nat
    BY <2>2, LenProperties
  <2>4. Len(F) = m
    BY <1>2, <1>5, <2>3
  <2>. QED  BY <2>4 DEF Last
<1>7. PICK takes \in BOOLEAN : takes = (HasArg(defs, F[m]) /\ i < Len(words))
  OBVIOUS
<1>8. PICK arg : arg = IF takes THEN words[i + 1] ELSE None
  OBVIOUS
<1>. DEFINE known == \A j \in 1..m : F[j] \in DOMAIN defs /\ (j < m => ~defs[F[j]])
<1>10. /\ known /\ (takes => arg # None)
       /\ found.i = (IF takes THEN i + 1 ELSE i)
       /\ found.flags = [j \in 1..m |-> [name |-> F[j], value |-> IF j = m THEN arg ELSE None]]
  <2>. DEFINE known1 == \A j \in DOMAIN chars :
                           Short(<<chars[j]>>) \in DOMAIN defs /\ (j < Len(chars) => ~defs[Short(<<chars[j]>>)])
              takes1 == known1 /\ HasArg(defs, Short(<<chars[Len(chars)]>>)) /\ i < Len(words)
              arg1 == IF takes1 THEN words[i + 1] ELSE None
              next1 == IF takes1 THEN i + 1 ELSE i
              flags1 == [j \in DOMAIN chars |->
                            [name |-> Short(<<chars[j]>>), value |-> IF j = Len(chars) THEN arg1 ELSE None]]
              ok1 == known1 /\ (takes1 => arg1 # None)
  <2>1. found = [ok |-> ok1, i |-> next1, flags |-> flags1]
    BY <1>1, Zenon DEF decomposeCombinedFlags
  <2>2. found.ok = ok1 /\ found.i = next1 /\ found.flags = flags1
    <3>. HIDE DEF ok1, next1, flags1
    <3>. QED  BY <2>1
  <2>3. ok1
    <3>. HIDE DEF ok1
    <3>. QED  BY <2>2, Zenon
  <2>4. known1 /\ (takes1 => arg1 # None)
    BY <2>3, Zenon
  <2>5. known
    <3>. HIDE DEF known
    <3>1. ASSUME NEW j \in 1..m PROVE F[j] \in DOMAIN defs /\ (j < m => ~defs[F[j]])
      <4>1. j \in DOMAIN chars /\ Len(chars) = m /\ F[j] = Short(<<chars[j]>>)
        BY <1>1, <1>2, <1>5
      <4>2. F[j] \in DOMAIN defs /\ (j < Len(chars) => ~defs[F[j]])
        BY <2>4, <4>1, Zenon
      <4>. QED  BY <4>1, <4>2
    <3>. QED  BY <3>1, Zenon DEF known
  <2>6. (takes1 <=> takes)
    <3>1. F[m] = Short(<<chars[Len(chars)]>>)
      BY <1>1, <1>2, <1>5
    <3>. HIDE DEF known1
    <3>. QED  BY <1>7, <2>4, <3>1, Zenon
  <2>. HIDE DEF known1, takes1, known
  <2>7. arg1 = arg /\ next1 = IF takes THEN i + 1 ELSE i
    BY <1>8, <2>6
  <2>. HIDE DEF arg1, next1
  <2>8. flags1 = [j \in 1..m |-> [name |-> F[j], value |-> IF j = m THEN arg ELSE None]]
    BY <1>1, <1>2, <1>5, <2>7
  <2>. HIDE DEF flags1
  <2>. QED  BY <2>2, <2>4, <2>5, <2>6, <2>7, <2>8
<1>11. known /\ (takes => arg # None)
  BY <1>10
<1>12. \A j \in 1..m : Flag(F[j], IF j = m THEN arg ELSE None) \in Range(found.flags)
  BY <1>10, <1>11 DEF Range, Flag
<1>13. \A j \in 1..m : F[j] \in list.with \cup list.without
  BY <1>12 DEF Flag
<1>14. \A j \in 1..m : F[j] \in list.with => j = m
  <2>. SUFFICES ASSUME NEW j \in 1..m, F[j] \in list.with, j # m PROVE FALSE
    OBVIOUS
  <2>1. defs[F[j]] = TRUE
    BY DEF Agrees
  <2>2. ~defs[F[j]]
    <3>1. j < m
      BY <1>2
    <3>. QED  BY <1>11, <3>1, Zenon
  <2>. QED  BY <2>1, <2>2
<1>15. m \in 1..m /\ (HasArg(defs, F[m]) <=> F[m] \in list.with)
  <2>1. m \in 1..m
    BY <1>2
  <2>2. F[m] \in DOMAIN defs /\ (defs[F[m]] = (F[m] \in list.with))
    BY <1>13, <2>1 DEF Agrees
  <2>. QED  BY <2>1, <2>2 DEF HasArg
<1>16. ~HasValue(s)
  BY <1>1 DEF HasValue
<1>17. Range(F) \subseteq list.with \cup list.without
  BY <1>5, <1>13 DEF Range
<1>18. found.i = IF ~HasValue(s) /\ Last(F) \in list.with /\ i < Len(words) THEN i + 1 ELSE i
  BY <1>6, <1>7, <1>10, <1>11, <1>15, <1>16
<1>19. found.i = i + 1 => words[i + 1] # None /\ Flag(Last(F), words[i + 1]) \in Range(found.flags)
  BY <1>6, <1>8, <1>10, <1>11, <1>12, <1>15
<1>. QED  BY <1>1, <1>3, <1>5, <1>6, <1>14, <1>16, <1>17, <1>18, <1>19, Zenon DEF Matches

LEMMA ListedFlagsAt ==
    ASSUME NEW words, Worded(words), NEW i \in 1..Len(words), isFlag(words[i]),
           NEW list, NEW combined, NEW defs, Agrees(defs, list, combined),
           NEW found, found = FlagsAt(words, defs, combined, i), found.ok,
           \A g \in Range(found.flags) : g.name \in list.with \cup list.without
    PROVE  Matches(found, words, i, list, combined)
<1>1. PICK s, split : s = words[i] /\ split = decomposeCombinedFlags(defs, words, i)
  OBVIOUS
<1>2. PICK tried \in BOOLEAN : tried = (s.t = "short" /\ combined /\ Len(s.chars) > 1)
  OBVIOUS
<1>3. PICK at : at = IF tried THEN split.i ELSE i
  OBVIOUS
<1>4. PICK F : F = FlagsIn(s, list, combined)
  OBVIOUS
<1>5. i \in Nat /\ Len(words) \in Nat /\ i <= Len(words)
  BY WordedAt
<1>6. CASE HasValue(s)
  <2>1. PICK name : name = Long(s.name)
    OBVIOUS
  <2>2. s.t = "long" /\ s.val # <<>> /\ s.t # "short"
    BY <1>6 DEF HasValue
  <2>3. /\ found.i = i
        /\ found.flags = IF HasArg(defs, name) THEN <<Flag(name, s.val[1])>> ELSE <<Flag(s, None)>>
    BY <1>1, <2>1, <2>2 DEF FlagsAt
  <2>4. F = IF name \in list.with THEN <<name>> ELSE <<s>>
    <3>1. CASE name \in list.with
      BY <1>4, <2>1, <2>2, <3>1, Zenon DEF FlagsIn
    <3>2. CASE name \notin list.with
      BY <1>4, <2>1, <2>2, <3>2, Zenon DEF FlagsIn
    <3>. QED  BY <3>1, <3>2
  <2>5. CASE HasArg(defs, name)
    <3>1. found.flags = <<Flag(name, s.val[1])>>
      BY <2>3, <2>5
    <3>2. Flag(name, s.val[1]) \in Range(found.flags)
      BY <3>1, OneFlag
    <3>3. name \in list.with \cup list.without
      BY <3>2 DEF Flag
    <3>4. name \in list.with
      BY <2>5, <3>3 DEF HasArg, Agrees
    <3>5. F = <<name>>
      BY <2>4, <3>4
    <3>. QED  BY <1>1, <1>4, <1>5, <1>6, <2>1, <2>3, <3>2, <3>3, <3>5, OneFlag DEF Matches
  <2>6. CASE ~HasArg(defs, name)
    <3>1. found.flags = <<Flag(s, None)>>
      BY <2>3, <2>6
    <3>2. Flag(s, None) \in Range(found.flags)
      BY <3>1, OneFlag
    <3>3. s \in list.with \cup list.without
      BY <3>2 DEF Flag
    <3>4. name \notin list.with
      BY <2>6 DEF HasArg, Agrees
    <3>5. F = <<s>>
      BY <2>4, <3>4
    <3>. QED  BY <1>1, <1>4, <1>5, <1>6, <2>1, <2>3, <3>3, <3>4, <3>5, OneFlag DEF Matches
  <2>. QED  BY <2>5, <2>6
<1>7. CASE ~HasValue(s) /\ tried /\ split.ok
  <2>1. found = split
    BY <1>1, <1>2, <1>7 DEF FlagsAt, HasValue
  <2>. QED  BY <1>1, <1>2, <1>7, <2>1, ListedCluster
<1>8. CASE ~HasValue(s) /\ ~(tried /\ split.ok)
  <2>1. IF HasArg(defs, s) /\ at < Len(words)
        THEN /\ found.ok = (words[at + 1] # None) /\ found.i = at + 1
             /\ found.flags = <<Flag(s, words[at + 1])>>
        ELSE found.i = at /\ found.flags = <<Flag(s, None)>>
    BY <1>1, <1>2, <1>3, <1>8 DEF FlagsAt, WithNextWord, HasValue
  <2>2. s \in list.with \cup list.without
    <3>1. PICK value : found.flags = <<Flag(s, value)>>
      BY <2>1
    <3>2. Flag(s, value) \in Range(found.flags)
      BY <3>1, OneFlag
    <3>. QED  BY <3>2 DEF Flag
  <2>3. ~tried /\ at = i
    <3>1. ASSUME tried PROVE FALSE
      <4>1. s.t = "short" /\ combined /\ Len(s.chars) > 1
        BY <1>2, <3>1
      <4>2. Len(s.chars) = 1
        BY <2>2, <4>1 DEF Agrees
      <4>. QED  BY <4>1, <4>2
    <3>. QED  BY <1>3, <3>1
  <2>4. F = <<s>>
    <3>1. ~(s.t = "short" /\ combined /\ Len(s.chars) > 1)
      BY <1>2, <2>3
    <3>2. ~(s.t = "long" /\ s.val # <<>>)
      BY <1>8 DEF HasValue
    <3>. QED  BY <1>4, <3>1, <3>2, Zenon DEF FlagsIn
  <2>5. HasArg(defs, s) <=> s \in list.with
    BY <2>2 DEF HasArg, Agrees
  <2>6. Last(F) = s /\ Range(F) = {s} /\ \A j \in DOMAIN F : j = Len(F)
    BY <2>4, OneFlag
  <2>7. CASE s \in list.with /\ i < Len(words)
    <3>1. /\ found.i = i + 1 /\ words[i + 1] # None
          /\ found.flags = <<Flag(s, words[i + 1])>>
      BY <2>1, <2>3, <2>5, <2>7
    <3>2. Flag(s, words[i + 1]) \in Range(found.flags)
      BY <3>1, OneFlag
    <3>. QED  BY <1>1, <1>4, <1>8, <2>2, <2>6, <2>7, <3>1, <3>2 DEF Matches
  <2>8. CASE ~(s \in list.with /\ i < Len(words))
    <3>1. ~(HasArg(defs, s) /\ at < Len(words))
      BY <2>3, <2>5, <2>8
    <3>2. found.i = at
      BY <2>1, <3>1
    <3>3. found.i = i /\ found.i # i + 1
      BY <1>5, <2>3, <3>2
    <3>. QED  BY <1>1, <1>4, <1>8, <2>2, <2>6, <2>8, <3>3 DEF Matches
  <2>. QED  BY <2>7, <2>8
<1>. QED  BY <1>6, <1>7, <1>8

\* What a turn at a word does, the word being read as the list says.
TurnOf(words, list, combined, n, before, t, q) ==
    LET s == words[n]
        F == FlagsIn(s, list, combined)
        flag == isFlag(s) /\ ~before.hasDoubleDash
        waits == flag /\ ~HasValue(s) /\ Last(F) \in list.with /\ n < Len(words)
    IN  /\ s # None
        /\ t.i = IF waits THEN n + 1 ELSE n
        /\ t.parsed.hasDoubleDash <=> before.hasDoubleDash \/ s = DashDash
        /\ waits => words[n + 1] # None /\ Flag(Last(F), words[n + 1]) \in Range(q.flags)
        /\ flag => /\ Range(F) \subseteq list.with \cup list.without
                   /\ \A j \in DOMAIN F : F[j] \in list.with => j = Len(F)
                   /\ HasValue(s) /\ Long(s.name) \in list.with =>
                         Flag(Long(s.name), s.val[1]) \in Range(q.flags)
        /\ ~flag /\ (s = DashDash => before.hasDoubleDash) => s \in Range(q.positionals)

LEMMA TurnAt ==
    ASSUME NEW words, Worded(words), NEW n \in 1..Len(words), NEW list, NEW combined, NEW defs,
           Agrees(defs, list, combined), NEW p, Shaped(p),
           NEW t, t = ParseWord(words, defs, combined, n, p), Shaped(t.parsed),
           NEW q, Grows(t.parsed, q), \A g \in Range(q.flags) : g.name \in list.with \cup list.without
    PROVE  TurnOf(words, list, combined, n, p, t, q)
<1>1. PICK found, s, F : /\ found = FlagsAt(words, defs, combined, n)
                         /\ s = words[n] /\ F = FlagsIn(s, list, combined)
  OBVIOUS
<1>2. ~Shaped(NoParse)
  BY DEF Shaped, NoParse
<1>3. s # None
  BY <1>1, <1>2 DEF ParseWord
<1>4. CASE s = DashDash /\ ~p.hasDoubleDash
  <2>1. t.i = n /\ t.parsed = [p EXCEPT !.hasDoubleDash = TRUE]
    BY <1>1, <1>3, <1>4 DEF ParseWord
  <2>2. t.parsed.hasDoubleDash = TRUE /\ ~isFlag(s)
    BY <1>4, <2>1 DEF Shaped, isFlag, DashDash
  <2>. QED  BY <1>1, <1>3, <1>4, <2>1, <2>2 DEF TurnOf
<1>5. CASE isFlag(s) /\ ~p.hasDoubleDash
  <2>1. s # DashDash
    BY <1>5 DEF isFlag, DashDash
  <2>2. /\ t.i = found.i
        /\ t.parsed = IF found.ok THEN [p EXCEPT !.flags = @ \o found.flags] ELSE NoParse
    BY <1>1, <1>3, <1>5, <2>1 DEF ParseWord, WithFlags
  <2>3. found.ok /\ t.parsed = [p EXCEPT !.flags = @ \o found.flags]
    BY <1>2, <2>2
  <2>4. found.flags \in Seq(Range(found.flags))
    BY <1>1, FoundFlags
  <2>5. PICK old, new : old = p.flags /\ new = found.flags
    OBVIOUS
  <2>6. Range(old \o new) = Range(old) \cup Range(new)
    BY <2>4, <2>5, RangeOfBoth DEF Shaped
  <2>7. t.parsed.flags = old \o new /\ t.parsed.hasDoubleDash = p.hasDoubleDash
    BY <2>3, <2>5 DEF Shaped
  <2>8. Range(found.flags) \subseteq Range(q.flags)
    BY <2>5, <2>6, <2>7 DEF Grows
  <2>9. Matches(found, words, n, list, combined)
    BY <1>1, <1>5, <2>3, <2>8, ListedFlagsAt
  <2>10. found.i = IF ~HasValue(s) /\ Last(F) \in list.with /\ n < Len(words) THEN n + 1 ELSE n
    BY <1>1, <2>9 DEF Matches
  <2>11. n # n + 1
    OBVIOUS
  <2>12. /\ Range(F) \subseteq list.with \cup list.without
         /\ \A j \in DOMAIN F : F[j] \in list.with => j = Len(F)
         /\ HasValue(s) /\ Long(s.name) \in list.with =>
               Flag(Long(s.name), s.val[1]) \in Range(q.flags)
         /\ found.i = n + 1 => words[n + 1] # None /\ Flag(Last(F), words[n + 1]) \in Range(q.flags)
    BY <1>1, <2>8, <2>9 DEF Matches
  <2>. QED  BY <1>1, <1>3, <1>5, <2>1, <2>2, <2>7, <2>10, <2>11, <2>12 DEF TurnOf
<1>6. CASE ~(s = DashDash /\ ~p.hasDoubleDash) /\ ~(isFlag(s) /\ ~p.hasDoubleDash)
  <2>1. t.i = n /\ t.parsed = [p EXCEPT !.positionals = Append(@, s),
                                        !.positionalWordIndices = Append(@, n)]
    BY <1>1, <1>3, <1>6 DEF ParseWord
  <2>2. t.parsed.positionals = Append(p.positionals, s) /\ t.parsed.hasDoubleDash = p.hasDoubleDash
    BY <2>1 DEF Shaped
  <2>3. PICK old : old = p.positionals /\ old \in Seq(Range(old))
    BY DEF Shaped
  <2>4. PICK S : S = Range(old) \cup {s}
    OBVIOUS
  <2>5. old \in Seq(S) /\ s \in S
    BY <2>3, <2>4, SeqMonotonic
  <2>6. s \in Range(Append(old, s))
    BY <2>5, RangeAppend
  <2>7. s \in Range(q.positionals)
    BY <2>2, <2>3, <2>6 DEF Grows
  <2>8. s = DashDash => p.hasDoubleDash
    BY <1>6
  <2>. QED  BY <1>1, <1>3, <1>6, <2>1, <2>2, <2>7, <2>8 DEF TurnOf
<1>. QED  BY <1>4, <1>5, <1>6

\* The words with the arguments of flags at args are what the parser made of
\* them.
ReadInto(parsed, words, list, combined, args) ==
    \A i \in DOMAIN words :
        /\ words[i] # None
        /\ i \in args <=> Awaits(list, combined, words, args, i - 1)
        /\ i \in args => Flag(Last(FlagsIn(words[i - 1], list, combined)), words[i]) \in Range(parsed.flags)
        /\ FlagAt(words, args, i) =>
              LET F == FlagsIn(words[i], list, combined)
              IN  /\ Range(F) \subseteq list.with \cup list.without
                  /\ \A j \in DOMAIN F : F[j] \in list.with => j = Len(F)
                  /\ HasValue(words[i]) /\ Long(words[i].name) \in list.with =>
                        Flag(Long(words[i].name), words[i].val[1]) \in Range(parsed.flags)
        /\ OperandAt(words, args, i) => words[i] \in Range(parsed.positionals)

\* Words whose flags are all in the list are parsed as the list says.
LEMMA ListedParse ==
    ASSUME NEW words, Worded(words), NEW list, NEW combined, NEW defs,
           Agrees(defs, list, combined),
           NEW q, q = parseArgs(words, defs, combined), q.ok,
           \A g \in Range(q.flags) : g.name \in list.with \cup list.without
    PROVE  \E args \in SUBSET DOMAIN words : ReadInto(q, words, list, combined, args)
<1>. DEFINE N == Len(words)
<1>0. N \in Nat /\ DOMAIN words = 1..N
  BY LenProperties DEF Worded
<1>1. PICK f : IsParse(f, words, defs, combined) /\ q = f[N].parsed
  BY <1>0, ParseTurns
<1>2. \A n \in 0..N : Shaped(f[n].parsed) /\ Grows(f[n].parsed, q)
  BY <1>1, ParseGrows
<1>. DEFINE args == {n \in 1..N : f[n - 1].i = n}
            T(n) == TurnOf(words, list, combined, n, f[n - 1].parsed, f[n], q)
            ended(n) == f[n].parsed.hasDoubleDash
            waits(n) == /\ isFlag(words[n]) /\ ~ended(n - 1)
                        /\ ~HasValue(words[n]) /\ Last(FlagsIn(words[n], list, combined)) \in list.with
                        /\ n < N
\* A word is used up by the turn before or has a turn of its own.
<1>3. ASSUME NEW n \in 1..N
      PROVE  /\ n \in args => f[n] = f[n - 1]
             /\ n \notin args /\ f[n - 1].i \in {n - 1, n} => T(n)
  <2>1. PICK x, y : x = f[n - 1] /\ y = f[n]
    OBVIOUS
  <2>2. y = ParseStep(words, defs, combined, n, x)
    BY <1>1, <2>1 DEF IsParse
  <2>3. n - 1 \in 0..N /\ n \in 0..N
    BY <1>0
  <2>4. Shaped(x.parsed) /\ Shaped(y.parsed) /\ Grows(y.parsed, q)
    BY <1>2, <2>1, <2>3
  <2>5. x.parsed.ok = TRUE
    BY <2>4 DEF Shaped
  <2>6. CASE n \in args
    <3>1. x.i = n
      BY <2>1, <2>6
    <3>2. y = x
      BY <2>2, <3>1 DEF ParseStep
    <3>. QED  BY <2>1, <2>6, <3>2
  <2>7. CASE n \notin args /\ x.i \in {n - 1, n}
    <3>1. x.i = n - 1
      BY <2>1, <2>7
    <3>2. y = ParseWord(words, defs, combined, n, x.parsed)
      BY <2>2, <2>5, <3>1 DEF ParseStep
    <3>3. TurnOf(words, list, combined, n, x.parsed, y, q)
      BY <2>4, <3>2, TurnAt
    <3>. QED  BY <2>1, <2>7, <3>3
  <2>. HIDE DEF args, T
  <2>. QED  BY <2>1, <2>6, <2>7
<1>4. ASSUME NEW n \in 1..N, T(n)
      PROVE  /\ words[n] # None
             /\ f[n].i = IF waits(n) THEN n + 1 ELSE n
             /\ ended(n) <=> ended(n - 1) \/ words[n] = DashDash
             /\ waits(n) => /\ words[n + 1] # None
                            /\ Flag(Last(FlagsIn(words[n], list, combined)), words[n + 1]) \in Range(q.flags)
  BY <1>4, Zenon DEF TurnOf
<1>5. f[0].i = 0 /\ ended(0) = FALSE
  BY <1>1 DEF IsParse, EmptyArgs
<1>. DEFINE at(n) == f[n].i = n \/ (f[n].i = n + 1 /\ n + 1 <= N)
            A(n) == at(n) /\ (ended(n) <=> Ended(words, args, n))
            M == {n \in Nat : n <= N => A(n)}
<1>6. 0 \in M
  <2>1. ~Ended(words, args, 0)
    BY DEF Ended
  <2>. HIDE DEF args
  <2>. QED  BY <1>5, <2>1
<1>7. ASSUME NEW n \in 1..N, A(n - 1) PROVE A(n)
  <2>. HIDE DEF T
  <2>1. Ended(words, args, n) <=> Ended(words, args, n - 1) \/ (n \notin args /\ words[n] = DashDash)
    <3>1. 1..n = 1..(n - 1) \cup {n}
      OBVIOUS
    <3>. HIDE DEF args
    <3>. QED  BY <3>1 DEF Ended
  <2>2. CASE n \in args
    <3>1. f[n] = f[n - 1] /\ f[n - 1].i = n
      BY <1>3, <2>2
    <3>. HIDE DEF args
    <3>. QED  BY <1>7, <2>1, <2>2, <3>1
  <2>3. CASE n \notin args
    <3>1. f[n - 1].i \in {n - 1, n}
      BY <1>7
    <3>2. T(n)
      BY <1>3, <2>3, <3>1
    <3>3. waits(n) => n + 1 <= N
      BY <1>0
    <3>4. f[n].i = (IF waits(n) THEN n + 1 ELSE n) /\ (ended(n) <=> ended(n - 1) \/ words[n] = DashDash)
      BY <1>4, <3>2
    <3>. HIDE DEF args, waits
    <3>5. at(n)
      BY <3>3, <3>4
    <3>6. ended(n - 1) <=> Ended(words, args, n - 1)
      BY <1>7
    <3>. HIDE DEF at, ended
    <3>. QED  BY <2>1, <2>3, <3>4, <3>5, <3>6
  <2>. QED  BY <2>2, <2>3
<1>8. ASSUME NEW n \in M PROVE n + 1 \in M
  <2>. SUFFICES ASSUME n + 1 <= N PROVE A(n + 1)
    OBVIOUS
  <2>. HIDE DEF A
  <2>1. n + 1 \in 1..N /\ (n + 1) - 1 = n /\ A(n)
    BY <1>0
  <2>. QED  BY <1>7, <2>1
<1>9. M = Nat
  <2>. HIDE DEF M
  <2>. QED  BY <1>6, <1>8, NatSetInduction DEF M
<1>10. \A n \in 0..N : A(n)
  <2>. HIDE DEF A
  <2>. QED  BY <1>0, <1>9
<1>. HIDE DEF M
<1>11. ASSUME NEW n \in 1..N, n \notin args
       PROVE  /\ T(n)
              /\ FlagAt(words, args, n) <=> isFlag(words[n]) /\ ~ended(n - 1)
              /\ ~FlagAt(words, args, n) /\ (words[n] = DashDash => Ended(words, args, n - 1)) =>
                    ~(isFlag(words[n]) /\ ~ended(n - 1)) /\ (words[n] = DashDash => ended(n - 1))
  <2>. HIDE DEF T
  <2>1. n - 1 \in 0..N /\ n \in 0..N
    BY <1>0
  <2>2. A(n - 1) /\ A(n)
    BY <1>10, <2>1
  <2>3. f[n - 1].i \in {n - 1, n}
    BY <2>2
  <2>4. T(n)
    BY <1>3, <1>11, <2>3
  <2>5. ended(n) <=> ended(n - 1) \/ words[n] = DashDash
    BY <1>4, <2>4
  <2>6. isFlag(words[n]) => words[n] # DashDash
    BY DEF isFlag, DashDash
  <2>7. (ended(n) <=> Ended(words, args, n)) /\ (ended(n - 1) <=> Ended(words, args, n - 1))
    BY <2>2
  <2>. HIDE DEF args, ended
  <2>8. FlagAt(words, args, n) <=> isFlag(words[n]) /\ ~Ended(words, args, n)
    BY <1>0, <1>11 DEF FlagAt
  <2>. QED  BY <2>4, <2>5, <2>6, <2>7, <2>8
\* A word is the argument of a flag when the flag before it waits for one.
<1>12. ASSUME NEW n \in 1..N
       PROVE  (n \in args <=> Awaits(list, combined, words, args, n - 1))
              /\ (n \in args => n - 1 \in 1..N /\ n - 1 \notin args /\ waits(n - 1))
  <2>. HIDE DEF T
  <2>0. n \in args <=> f[n - 1].i = n
    OBVIOUS
  <2>1. CASE n = 1
    <3>1. n \notin args
      BY <1>5, <2>1
    <3>2. n - 1 \notin DOMAIN words
      BY <1>0, <2>1
    <3>. HIDE DEF args
    <3>. QED  BY <3>1, <3>2 DEF Awaits, FlagAt
  <2>2. CASE n # 1
    <3>1. PICK m \in 1..N : m = n - 1 /\ m < N /\ m + 1 = n /\ m - 1 \in 0..N
      BY <1>0, <2>2
    <3>2. CASE m \in args
      <4>1. f[m] = f[m - 1] /\ f[m - 1].i = m
        BY <1>3, <3>2
      <4>2. n \notin args
        BY <2>0, <3>1, <4>1
      <4>. HIDE DEF args
      <4>3. ~Awaits(list, combined, words, args, m)
        BY <3>2 DEF Awaits, FlagAt
      <4>. QED  BY <3>1, <4>2, <4>3
    <3>3. CASE m \notin args
      <4>1. T(m) /\ (FlagAt(words, args, m) <=> isFlag(words[m]) /\ ~ended(m - 1))
        BY <1>11, <3>3
      <4>2. f[m].i = IF waits(m) THEN m + 1 ELSE m
        BY <1>4, <4>1
      <4>3. n \in args <=> waits(m)
        <5>. HIDE DEF args, waits
        <5>. QED  BY <2>0, <3>1, <4>2
      <4>. HIDE DEF args
      <4>4. waits(m) <=> Awaits(list, combined, words, args, m)
        BY <3>1, <4>1 DEF Awaits
      <4>. QED  BY <3>1, <3>3, <4>3, <4>4
    <3>. QED  BY <3>2, <3>3
  <2>. QED  BY <2>1, <2>2
<1>13. args \in SUBSET DOMAIN words
  BY <1>0
<1>. HIDE DEF args
<1>14. ASSUME NEW i \in DOMAIN words
       PROVE  /\ words[i] # None
              /\ i \in args <=> Awaits(list, combined, words, args, i - 1)
              /\ i \in args => Flag(Last(FlagsIn(words[i - 1], list, combined)), words[i]) \in Range(q.flags)
              /\ FlagAt(words, args, i) =>
                    LET F == FlagsIn(words[i], list, combined)
                    IN  /\ Range(F) \subseteq list.with \cup list.without
                        /\ \A j \in DOMAIN F : F[j] \in list.with => j = Len(F)
                        /\ HasValue(words[i]) /\ Long(words[i].name) \in list.with =>
                              Flag(Long(words[i].name), words[i].val[1]) \in Range(q.flags)
              /\ OperandAt(words, args, i) => words[i] \in Range(q.positionals)
  <2>1. i \in 1..N
    BY <1>0
  <2>2. i \in args <=> Awaits(list, combined, words, args, i - 1)
    BY <1>12, <2>1
  <2>3. CASE i \in args
    <3>1. PICK m \in 1..N : m = i - 1 /\ m + 1 = i /\ m \notin args /\ waits(m)
      <4>1. i - 1 \in 1..N /\ (i - 1) + 1 = i
        BY <1>12, <2>1, <2>3
      <4>2. i - 1 \notin args /\ waits(i - 1)
        BY <1>12, <2>1, <2>3
      <4>. QED  BY <4>1, <4>2
    <3>. HIDE DEF T, waits
    <3>2. T(m)
      BY <1>11, <3>1
    <3>3. words[m + 1] # None /\ Flag(Last(FlagsIn(words[m], list, combined)), words[m + 1]) \in Range(q.flags)
      BY <1>4, <3>1, <3>2
    <3>4. ~FlagAt(words, args, i) /\ ~OperandAt(words, args, i)
      BY <2>3 DEF FlagAt, OperandAt
    <3>. QED  BY <2>2, <2>3, <3>1, <3>3, <3>4
  <2>4. CASE i \notin args
    <3>. DEFINE F == FlagsIn(words[i], list, combined)
                flag == isFlag(words[i]) /\ ~ended(i - 1)
    <3>1. T(i) /\ (FlagAt(words, args, i) <=> flag)
      BY <1>11, <2>1, <2>4
    <3>2. OperandAt(words, args, i) => ~flag /\ (words[i] = DashDash => ended(i - 1))
      <4>. HIDE DEF T, ended
      <4>. QED  BY <1>11, <2>1, <2>4 DEF OperandAt
    <3>3. /\ words[i] # None
          /\ flag => /\ Range(F) \subseteq list.with \cup list.without
                     /\ \A j \in DOMAIN F : F[j] \in list.with => j = Len(F)
                     /\ HasValue(words[i]) /\ Long(words[i].name) \in list.with =>
                           Flag(Long(words[i].name), words[i].val[1]) \in Range(q.flags)
          /\ ~flag /\ (words[i] = DashDash => ended(i - 1)) => words[i] \in Range(q.positionals)
      BY <3>1, Zenon DEF TurnOf
    <3>. HIDE DEF F, flag, T, ended
    <3>. QED  BY <2>2, <2>4, <3>1, <3>2, <3>3 DEF F
  <2>. QED  BY <2>3, <2>4
<1>15. ReadInto(q, words, list, combined, args)
  BY <1>14, Zenon DEF ReadInto
<1>. QED  BY <1>13, <1>15

-----------------------------------------------------------------------------
(***************************************************************************)
(* Rules that list flags.                                                  *)
(***************************************************************************)

\* What a condition that holds says of the parsed arguments.
LEMMA ListCondition ==
    ASSUME NEW list, list.c = "every_flag_matches", NEW parsed, NEW ctx,
           evalCondition(list, parsed, ctx)
    PROVE  \A g \in Range(parsed.flags) : g.name \in list.with \cup list.without
<1>1. evalCondition(list, parsed, ctx) <=> evalEveryFlagMatches(list, parsed)
  <2>1. /\ list.c # "always" /\ list.c # "not" /\ list.c # "no_args" /\ list.c # "has_double_dash"
        /\ list.c # "has_exact" /\ list.c # "has_pattern" /\ list.c # "flag_arg_check"
        /\ list.c # "every_positional_passes" /\ list.c # "subcommands" /\ list.c # "max_positionals"
    OBVIOUS
  <2>. QED  BY <2>1, Zenon DEF evalCondition, simpleCondition
<1>. QED  BY <1>1 DEF evalEveryFlagMatches

LEMMA WriteCheck ==
    ASSUME NEW target, NEW parsed, NEW ctx, evalCheck("write_check", target, parsed, ctx)
    PROVE  isPathAllowed(ctx.projects, ctx.scope, target)
<1>1. "write_check" # "none" /\ "write_check" \notin {"ssh_remote_eval", "recurse_eval"}
  OBVIOUS
<1>. QED  BY <1>1, Zenon DEF evalCheck

LEMMA ArgumentCondition ==
    ASSUME NEW cond, cond.c = "flag_arg_check", cond.check = "write_check", NEW parsed, NEW ctx,
           evalCondition(cond, parsed, ctx), NEW flag \in cond.names, NEW value,
           Flag(flag, value) \in Range(parsed.flags)
    PROVE  isPathAllowed(ctx.projects, ctx.scope, value)
<1>1. evalCondition(cond, parsed, ctx)
         <=> \A t \in FlagTargets(cond, parsed) : evalCheck(cond.check, t, parsed, ctx)
  <2>1. /\ cond.c # "always" /\ cond.c # "not" /\ cond.c # "no_args" /\ cond.c # "has_double_dash"
        /\ cond.c # "has_exact" /\ cond.c # "has_pattern" /\ cond.c # "every_flag_matches"
        /\ cond.c # "every_positional_passes" /\ cond.c # "subcommands" /\ cond.c # "max_positionals"
    OBVIOUS
  <2>. QED  BY <2>1, Zenon DEF evalCondition, simpleCondition
<1>2. PICK g : g = Flag(flag, value)
  OBVIOUS
<1>3. g.name = flag /\ g.value = value
  BY <1>2 DEF Flag
<1>4. value \in FlagTargets(cond, parsed)
  BY <1>2, <1>3 DEF FlagTargets
<1>. QED  BY <1>1, <1>4, WriteCheck

LEMMA OperandCondition ==
    ASSUME NEW cond, cond.c = "every_positional_passes", cond.check = "write_check",
           NEW parsed, NEW ctx, evalCondition(cond, parsed, ctx),
           NEW t \in Range(parsed.positionals)
    PROVE  isPathAllowed(ctx.projects, ctx.scope, t)
<1>1. evalCondition(cond, parsed, ctx) <=> evalEveryPositionalPasses(cond, parsed, ctx)
  <2>1. /\ cond.c # "always" /\ cond.c # "not" /\ cond.c # "no_args" /\ cond.c # "has_double_dash"
        /\ cond.c # "has_exact" /\ cond.c # "has_pattern" /\ cond.c # "every_flag_matches"
        /\ cond.c # "flag_arg_check" /\ cond.c # "subcommands" /\ cond.c # "max_positionals"
    OBVIOUS
  <2>. QED  BY <2>1, Zenon DEF evalCondition, simpleCondition
<1>2. PositionalTargets(cond, parsed) = Range(parsed.positionals)
  BY DEF PositionalTargets
<1>3. evalCheck(cond.check, t, parsed, ctx)
  BY <1>1, <1>2 DEF evalEveryPositionalPasses
<1>. QED  BY <1>3, WriteCheck

\* Rules that allow a call have all they require.
LEMMA RequiredHold ==
    ASSUME NEW cr, NEW parsed, NEW ctx, evaluateCustomRules(cr, parsed, ctx),
           NEW cond \in Required(cr)
    PROVE  evalCondition(cond, parsed, ctx)
<1>1. PICK rule \in Range(cr.rules) : rule.action = "allow" /\ cond \in Range(rule.cond)
  BY DEF Required
<1>2. ConditionOf(rule) = rule.cond
  BY <1>1 DEF ConditionOf
<1>. DEFINE holding == {c \in Conditions(cr) : evalCondition(c, parsed, ctx)}
            holds == Range(ConditionOf(rule)) \subseteq holding
<1>3. (CASE rule.action = "allow" -> holds
         [] rule.action = "deny" -> ~holds
         [] OTHER -> rule.action # "always_deny")
  BY Zenon DEF evaluateCustomRules, RulesAllow
<1>4. holds
  <2>1. rule.action # "deny"
    BY <1>1
  <2>. HIDE DEF holds
  <2>. QED  BY <1>1, <1>3, <2>1, Zenon
<1>. QED  BY <1>1, <1>2, <1>4

\* Rules that list flags look at the arguments.
LEMMA ListingLooks ==
    ASSUME NEW cr, NEW list, ListsFlags(cr, list)
    PROVE  ~isAlwaysAllow(cr)
<1>. SUFFICES ASSUME isAlwaysAllow(cr) PROVE FALSE
  OBVIOUS
<1>1. PICK rule : rule = [action |-> "allow", cond |-> <<list>>]
  OBVIOUS
<1>2. rule \in Range(cr.rules) /\ list.c = "every_flag_matches"
  BY <1>1 DEF ListsFlags
<1>3. DOMAIN cr.rules = {1}
  BY DEF isAlwaysAllow
<1>4. cr.rules[1] = rule
  BY <1>2, <1>3 DEF Range
<1>5. rule.action = "allow" /\ rule.cond = <<list>> /\ <<list>>[1] = list
  BY <1>1
<1>6. rule.cond[1].c = "every_flag_matches"
  BY <1>2, <1>5
<1>. QED  BY <1>4, <1>5, <1>6 DEF isAlwaysAllow

\* A call that rules with a list of flags allow is read as the list says.
LEMMA AllowedReadAs ==
    ASSUME NEW spec, spec.checker = "custom", WellFormed(spec.custom),
           NEW list \in Required(spec.custom), ListsFlags(spec.custom, list),
           NEW args, NEW words, words = Tail(args), Worded(words), NEW ctx, Evaluate(spec, ctx, args),
           NEW writable,
           \A i \in DOMAIN words : isPathAllowed(ctx.projects, ctx.scope, words[i]) => words[i] \in writable,
           \A i \in DOMAIN words : HasValue(words[i]) =>
              (isPathAllowed(ctx.projects, ctx.scope, words[i].val[1]) => words[i].val[1] \in writable)
    PROVE  \E at \in SUBSET DOMAIN words : ReadAs(spec.custom, list, words, at, writable)
<1>1. PICK cr, q, defs : /\ cr = spec.custom /\ defs = collectFlagDefs(cr)
                         /\ q = parseArgs(words, defs, cr.combined)
  OBVIOUS
<1>2. q.ok /\ evaluateCustomRules(cr, q, ctx)
  <2>1. ~isAlwaysAllow(cr)
    BY <1>1, ListingLooks
  <2>2. parseCommand(cr, args) = q
    BY <1>1 DEF parseCommand
  <2>3. spec.checker \notin {"sed", "awk"}
    OBVIOUS
  <2>4. evaluateCustomRules(cr, q, ctx)
    BY <1>1, <2>1, <2>2, <2>3, Zenon DEF Evaluate
  <2>. QED  BY <2>4, Zenon DEF evaluateCustomRules
<1>3. Agrees(defs, list, cr.combined)
  BY <1>1, CollectedAgree
<1>4. \A g \in Range(q.flags) : g.name \in list.with \cup list.without
  <2>1. evalCondition(list, q, ctx)
    BY <1>1, <1>2, RequiredHold
  <2>2. list.c = "every_flag_matches"
    BY DEF ListsFlags
  <2>. QED  BY <2>1, <2>2, ListCondition
<1>5. PICK at \in SUBSET DOMAIN words : ReadInto(q, words, list, cr.combined, at)
  BY <1>1, <1>2, <1>3, <1>4, ListedParse
<1>. DEFINE flags(i) == FlagsIn(words[i], list, cr.combined)
            checked(flag) == \E cond \in Checks(cr, "flag_arg_check") : flag \in cond.names
<1>6. ASSUME NEW flag, checked(flag), NEW value, Flag(flag, value) \in Range(q.flags)
      PROVE  isPathAllowed(ctx.projects, ctx.scope, value)
  <2>1. PICK cond \in Checks(cr, "flag_arg_check") : flag \in cond.names
    BY <1>6
  <2>2. cond \in Required(cr) /\ cond.c = "flag_arg_check" /\ cond.check = "write_check"
    BY <2>1 DEF Checks
  <2>3. evalCondition(cond, q, ctx)
    BY <1>2, <2>2, RequiredHold
  <2>. QED  BY <1>6, <2>1, <2>2, <2>3, ArgumentCondition
<1>7. ASSUME Checks(cr, "every_positional_passes") # {}, NEW t \in Range(q.positionals)
      PROVE  isPathAllowed(ctx.projects, ctx.scope, t)
  <2>1. PICK cond : cond \in Checks(cr, "every_positional_passes")
    BY <1>7
  <2>2. cond \in Required(cr) /\ cond.c = "every_positional_passes" /\ cond.check = "write_check"
    BY <2>1 DEF Checks
  <2>3. evalCondition(cond, q, ctx)
    BY <1>2, <2>2, RequiredHold
  <2>. QED  BY <2>2, <2>3, OperandCondition
<1>. HIDE DEF checked, flags
<1>8. ASSUME NEW i \in DOMAIN words
      PROVE  /\ words[i] # None
             /\ i \in at <=> Awaits(list, cr.combined, words, at, i - 1)
             /\ i \in at /\ checked(Last(flags(i - 1))) => words[i] \in writable
             /\ FlagAt(words, at, i) =>
                   /\ Range(flags(i)) \subseteq list.with \cup list.without
                   /\ \A j \in DOMAIN flags(i) : flags(i)[j] \in list.with => j = Len(flags(i))
                   /\ (/\ HasValue(words[i])
                       /\ Long(words[i].name) \in list.with
                       /\ checked(Long(words[i].name))) => words[i].val[1] \in writable
             /\ OperandAt(words, at, i) /\ Checks(cr, "every_positional_passes") # {} =>
                   words[i] \in writable
  <2>1. /\ words[i] # None
        /\ i \in at <=> Awaits(list, cr.combined, words, at, i - 1)
        /\ i \in at => Flag(Last(flags(i - 1)), words[i]) \in Range(q.flags)
        /\ FlagAt(words, at, i) =>
              /\ Range(flags(i)) \subseteq list.with \cup list.without
              /\ \A j \in DOMAIN flags(i) : flags(i)[j] \in list.with => j = Len(flags(i))
              /\ HasValue(words[i]) /\ Long(words[i].name) \in list.with =>
                    Flag(Long(words[i].name), words[i].val[1]) \in Range(q.flags)
        /\ OperandAt(words, at, i) => words[i] \in Range(q.positionals)
    BY <1>5, Zenon DEF ReadInto, flags
  <2>2. i \in at /\ checked(Last(flags(i - 1))) => words[i] \in writable
    BY <1>6, <2>1
  <2>3. FlagAt(words, at, i) /\ HasValue(words[i]) /\ Long(words[i].name) \in list.with
           /\ checked(Long(words[i].name)) => words[i].val[1] \in writable
    BY <1>6, <2>1
  <2>4. OperandAt(words, at, i) /\ Checks(cr, "every_positional_passes") # {} => words[i] \in writable
    BY <1>7, <2>1
  <2>. QED  BY <2>1, <2>2, <2>3, <2>4
<1>9. ReadAs(cr, list, words, at, writable)
  BY <1>8, Zenon DEF ReadAs, flags, checked
<1>. QED  BY <1>1, <1>5, <1>9

\* What is merged are specs of the sets.
LEMMA MergedFromSets ==
    ASSUME NEW sets, sets \in Seq(Range(sets)), \A set \in Range(sets) : set \in Seq(Range(set))
    PROVE  MergeRuleSets(sets) \in Seq(UNION {Range(set) : set \in Range(sets)})
<1>. DEFINE S == UNION {Range(set) : set \in Range(sets)}
            n == Len(sets)
            back == Reverse(sets)
<1>1. CASE sets = <<>>
  <2>. HIDE DEF S
  <2>1. MergeRuleSets(sets) = <<>>
    BY <1>1, NothingMerges
  <2>. QED  BY <2>1 DEF S
<1>2. CASE sets # <<>>
  <2>1. sets \in Seq(Seq(S))
    <3>1. \A set \in Range(sets) : set \in Seq(S)
      <4>. SUFFICES ASSUME NEW set \in Range(sets) PROVE set \in Seq(S)
        OBVIOUS
      <4>1. Range(set) \subseteq S
        OBVIOUS
      <4>. QED  BY <4>1, SeqMonotonic
    <3>2. Range(sets) \subseteq Seq(S)
      BY <3>1
    <3>. QED  BY <3>2, SeqMonotonic
  <2>. HIDE DEF S
  <2>2. n \in Nat \ {0}
    BY <1>2, <2>1, EmptySeq, LenProperties
  <2>3. \A i \in 1..n : sets[i] \in Seq(S)
    BY <2>1, ElementOfSeq
  <2>. HIDE DEF n
  <2>4. \A i \in 1..n : (n - i) + 1 \in 1..n
    BY <2>2
  <2>5. back = [i \in 1..n |-> sets[(n - i) + 1]]
    BY DEF Reverse, n
  <2>6. back \in [1..n -> Seq(S)]
    BY <2>3, <2>4, <2>5
  <2>7. back \in Seq(Seq(S))
    BY <2>2, <2>6, SeqDef
  <2>8. back # <<>>
    <3>1. DOMAIN back = 1..n /\ DOMAIN back = 1..Len(back) /\ Len(back) \in Nat
      BY <2>6, <2>7, LenProperties
    <3>2. Len(back) # 0
      BY <2>2, <3>1
    <3>. QED  BY <3>2
  <2>. HIDE DEF back
  <2>9. PICK specs : specs = FlattenSeq(back) /\ specs \in Seq(S)
    BY <2>7, <2>8, FlattenStarts
  <2>10. PICK f \in [0..Len(specs) -> Seq(S)] : MergeSpecs(specs) = f[Len(specs)]
    BY <2>9, MergedDef
  <2>11. Len(specs) \in 0..Len(specs)
    BY <2>9, LenProperties
  <2>12. MergeSpecs(specs) \in Seq(S)
    BY <2>10, <2>11
  <2>13. MergeRuleSets(sets) = MergeSpecs(specs)
    BY <2>9 DEF MergeRuleSets, back
  <2>. QED  BY <2>12, <2>13 DEF S
<1>. QED  BY <1>1, <1>2

\* A command is looked up among the specs there are.
LEMMA LookupIn ==
    ASSUME NEW S, NEW set \in Seq(S), NEW name, LookupCommand(set, name) # <<>>
    PROVE  \E spec \in S : LookupCommand(set, name) = <<spec>>
<1>. DEFINE Having == {i \in DOMAIN set : name \in set[i].names}
            least == CHOOSE i \in Having : \A j \in Having : i <= j
<1>0. Len(set) \in Nat /\ DOMAIN set = 1..Len(set)
  BY LenProperties
<1>1. LookupCommand(set, name) = IF Having = {} THEN <<>> ELSE <<set[least]>>
  BY Zenon DEF LookupCommand
<1>2. PICK k : k \in Having
  <2>. HIDE DEF Having, least
  <2>. QED  BY <1>1
<1>3. PICK n \in Having : \A j \in Having : n <= j
  <2>1. Having \in SUBSET Nat
    BY <1>0
  <2>2. PICK n \in Having : \A j \in Nat : j < n => j \notin Having
    <3>. HIDE DEF Having
    <3>. QED  BY <1>2, <2>1, LeastNat
  <2>3. \A j \in Having : n <= j
    BY <1>0, <2>1, <2>2
  <2>. QED  BY <2>3
<1>4. least \in Having
  <2>. HIDE DEF Having
  <2>. QED  BY <1>3, Zenon
<1>5. set[least] \in S
  <2>1. least \in 1..Len(set)
    BY <1>0, <1>4
  <2>. HIDE DEF least
  <2>. QED  BY <2>1, ElementOfSeq
<1>6. LookupCommand(set, name) = <<set[least]>>
  <2>. HIDE DEF Having, least
  <2>. QED  BY <1>1, <1>2
<1>. QED  BY <1>5, <1>6

\* The words of a call are the literals of its arguments.
LEMMA TokensOf ==
    ASSUME NEW call, call.args \in Seq(Range(call.args)), call.args # <<>>,
           \A arg \in Range(call.args) :
              LiteralString(arg).t = "short" => LiteralString(arg).chars \in Seq(Range(LiteralString(arg).chars))
    PROVE  Worded(Tail(Tokens(call)))
<1>1. PICK args : args = call.args
  OBVIOUS
<1>. DEFINE toks == [i \in DOMAIN args |-> LiteralString(args[i])]
            S == {LiteralString(arg) : arg \in Range(args)}
<1>2. Len(args) \in Nat \ {0} /\ DOMAIN args = 1..Len(args)
  BY <1>1, LenProperties, EmptySeq
<1>3. \A i \in 1..Len(args) : args[i] \in Range(args)
  BY <1>2 DEF Range
<1>4. toks \in [1..Len(args) -> S]
  BY <1>2, <1>3
<1>5. toks \in Seq(S)
  BY <1>2, <1>4, SeqDef
<1>. HIDE DEF S
<1>6. toks # <<>>
  <2>1. DOMAIN toks = 1..Len(args) /\ 1 \in 1..Len(args)
    BY <1>2
  <2>. HIDE DEF toks
  <2>. QED  BY <2>1
<1>7. Tokens(call) = toks
  <2>1. Tokens(call) = <<>> \o toks
    BY <1>1 DEF Tokens
  <2>. HIDE DEF toks
  <2>. QED  BY <1>5, <2>1, ConcatEmptySeq
<1>. HIDE DEF toks
<1>8. PICK words : words = Tail(Tokens(call)) /\ words \in Seq(S)
  BY <1>5, <1>6, <1>7, HeadTailProperties
<1>9. Range(words) \subseteq S
  <2>1. words \in Seq(S)
    BY <1>8
  <2>2. Range(words) = {words[i] : i \in 1..Len(words)} /\ \A i \in 1..Len(words) : words[i] \in S
    BY <2>1, RangeEquality, ElementOfSeq
  <2>. QED  BY <2>2
<1>10. words \in Seq(Range(words))
  <2>1. Len(words) \in Nat /\ DOMAIN words = 1..Len(words)
    BY <1>8, LenProperties
  <2>2. words = [i \in 1..Len(words) |-> words[i]]
    <3>1. words \in Seq(S)
      BY <1>8
    <3>. QED  BY <2>1, <3>1
  <2>3. \A i \in 1..Len(words) : words[i] \in Range(words)
    BY <2>1 DEF Range
  <2>4. words \in [1..Len(words) -> Range(words)]
    BY <2>2, <2>3
  <2>. QED  BY <2>1, <2>4, SeqDef
<1>11. ASSUME NEW w \in Range(words), w.t = "short" PROVE w.chars \in Seq(Range(w.chars))
  <2>1. PICK arg \in Range(args) : w = LiteralString(arg)
    BY <1>9 DEF S
  <2>. QED  BY <1>1, <1>11, <2>1
<1>. QED  BY <1>8, <1>10, <1>11 DEF Worded

\* A command whose rules list flags and check operands is only allowed when what
\* it will make of its own words is listed and checked (rules/engine.go), in any
\* combination of clusters, `--`, `--name=value` and arguments of flags.
LEMMA ListedOnly == WalkInv => OnlyListedFlags
<1>. SUFFICES ASSUME WalkInv, NEW f \in cleared, NEW n \in {m \in Range(f.trace) : m.k = "dispatch"},
                     NEW spec \in Range(LookupCommand(ruleSet, CommandName(n.call.args[1]))),
                     spec.checker = "custom",
                     NEW list \in Required(spec.custom), ListsFlags(spec.custom, list)
              PROVE  LET words == Tail(Tokens(n.call))
                         values == {w.val[1] : w \in {u \in Range(words) : HasValue(u)}}
                         writable == {w \in Range(words) \cup values : isPathAllowed(config, f.scope, w)}
                     IN  \E args \in SUBSET DOMAIN words :
                            ReadAs(spec.custom, list, words, args, writable)
  BY Zenon DEF OnlyListedFlags
<1>1. PICK call, name : call = n.call /\ name = CommandName(call.args[1])
  OBVIOUS
<1>2. PICK toks, words : toks = Tokens(call) /\ words = Tail(toks)
  OBVIOUS
<1>3. Sound(f) /\ f \in Frame
  BY DEF WalkInv, TypeOK
<1>4. n \in Node
  <2>1. f.trace \in Seq(Node)
    BY <1>3 DEF Frame
  <2>2. Range(f.trace) \subseteq Node
    BY <2>1, RangeEquality, ElementOfSeq
  <2>. QED  BY <2>2
<1>5. Worded(words)
  <2>1. n.k \in Known
    BY DEF Known
  <2>2. call \in Node /\ call.k = "call" /\ call.args # <<>>
    BY <1>1, <1>4, <2>1, SyntaxAssumption
  <2>3. call.k \in Known
    BY <2>2 DEF Known
  <2>4. SyntaxOf("call") = {"args"}
    <3>1. "call" \notin Containers
      BY DEF Containers
    <3>2. "call" # "stmt" /\ "call" # "redir" /\ "call" # "if" /\ "call" # "while" /\ "call" # "for"
          /\ "call" # "case" /\ "call" # "param"
      OBVIOUS
    <3>. QED  BY <3>1, <3>2, Zenon DEF SyntaxOf
  <2>5. call["args"] \in Seq(Range(call["args"]))
    BY <2>2, <2>3, <2>4, SyntaxAssumption
  <2>6. \A arg \in Range(call.args) : LiteralString(arg).t = "short" =>
            LiteralString(arg).chars \in Seq(Range(LiteralString(arg).chars))
    BY <2>2, <2>3, SyntaxAssumption
  <2>. QED  BY <1>2, <2>2, <2>5, <2>6, TokensOf
<1>6. PICK accepted : Allowed(ruleSet, config, f.scope, call, accepted)
  BY <1>1, <1>3 DEF Sound, Justified
<1>7. LookupCommand(ruleSet, name) = <<spec>> /\ WellFormed(spec.custom)
  <2>0. LookupCommand(ruleSet, name) # <<>>
    BY <1>1 DEF Range
  <2>1. ruleSet = resolveRules(config, input.root)
    <3>1. ruleSet # <<>>
      <4>. SUFFICES ASSUME ruleSet = <<>> PROVE FALSE
        OBVIOUS
      <4>1. LookupCommand(<<>>, name) = <<>>
        BY DEF LookupCommand
      <4>. QED  BY <2>0, <4>1
    <3>. QED  BY <3>1 DEF WalkInv, TypeOK
  <2>2. PICK sets : sets = ContributedSets(config, input.root)
    OBVIOUS
  <2>3. config \in Configs /\ input.root \in Roots
    BY DEF WalkInv, TypeOK, Roots
  <2>4. sets \in Seq(Range(sets)) /\ \A set \in Range(sets) : set \in Seq(Range(set))
    BY <2>2, <2>3, RuleSetAssumption
  <2>5. ruleSet \in Seq(UNION {Range(set) : set \in Range(sets)})
    BY <2>1, <2>2, <2>4, MergedFromSets DEF resolveRules
  <2>6. PICK found \in UNION {Range(set) : set \in Range(sets)} : LookupCommand(ruleSet, name) = <<found>>
    BY <2>0, <2>5, LookupIn
  <2>7. spec = found
    BY <1>1, <2>6 DEF Range
  <2>8. PICK set \in Range(sets) : spec \in Range(set)
    BY <2>6, <2>7
  <2>9. WellFormed(spec.custom)
    BY <2>2, <2>3, <2>8, RuleSetAssumption DEF WellFormed
  <2>. QED  BY <2>6, <2>7, <2>9
<1>8. PICK ctx : ctx = EvalCtx(ruleSet, config, f.scope, accepted)
  OBVIOUS
<1>9. Evaluate(spec, ctx, toks)
  <2>1. LookupCommand(ruleSet, CommandName(call.args[1])) = <<spec>>
    BY <1>1, <1>7
  <2>2. <<spec>> # <<>> /\ <<spec>>[1] = spec
    OBVIOUS
  <2>. QED  BY <1>2, <1>6, <1>8, <2>1, <2>2 DEF Allowed
<1>10. ctx.projects = config /\ ctx.scope = f.scope
  BY <1>8 DEF EvalCtx
<1>. DEFINE values == {w.val[1] : w \in {u \in Range(words) : HasValue(u)}}
            writable == {w \in Range(words) \cup values : isPathAllowed(config, f.scope, w)}
<1>11. \A i \in DOMAIN words :
          /\ isPathAllowed(ctx.projects, ctx.scope, words[i]) => words[i] \in writable
          /\ HasValue(words[i]) =>
                (isPathAllowed(ctx.projects, ctx.scope, words[i].val[1]) => words[i].val[1] \in writable)
  <2>. SUFFICES ASSUME NEW i \in DOMAIN words
                PROVE  /\ isPathAllowed(config, f.scope, words[i]) => words[i] \in writable
                       /\ HasValue(words[i]) =>
                            (isPathAllowed(config, f.scope, words[i].val[1]) => words[i].val[1] \in writable)
    BY <1>10
  <2>1. words[i] \in Range(words)
    BY DEF Range
  <2>. QED  BY <2>1
<1>. HIDE DEF values, writable
<1>12. \E args \in SUBSET DOMAIN words : ReadAs(spec.custom, list, words, args, writable)
  BY <1>2, <1>5, <1>7, <1>9, <1>11, AllowedReadAs
<1>. QED  BY <1>1, <1>2, <1>12, Zenon DEF values, writable

\* A command whose rules list flags and check operands is only allowed when what
\* it will make of its own words is listed and checked (rules/engine.go), in any
\* combination of clusters, `--`, `--name=value` and arguments of flags.
THEOREM OnlyFlagsListed == Spec => []OnlyListedFlags
  BY WalkInvCorrect, ListedOnly, PTL
=============================================================================
