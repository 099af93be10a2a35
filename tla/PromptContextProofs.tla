------------------------- MODULE PromptContextProofs -------------------------
(***************************************************************************)
(* For every call, layout of links and set of candidates, whoever edits    *)
(* whatever settings files while the hook reads them: the repository's own *)
(* file grants no directory, and no deny rule that stayed in place is      *)
(* lost.  For every session and tool, whatever Claude Code appends while   *)
(* the sessions are read: the judge hears the user and nobody else.  For   *)
(* every tree of instruction files, imports and links: no text twice.      *)
(***************************************************************************)
EXTENDS PromptContext, TLAPS, SequenceTheorems, FiniteSetTheorems, NaturalsInduction

-----------------------------------------------------------------------------
(***************************************************************************)
(* Induction and recursion.                                                *)
(***************************************************************************)

\* A set of numbers that has one has a least one.
LEMMA LeastNat ==
    ASSUME NEW S \in SUBSET Nat, NEW m \in S
    PROVE  \E n \in S : \A k \in Nat : k < n => k \notin S
<1>1. PICK n \in S : \A k \in S : ~ (<<k, n>> \in OpToRel(<, Nat))
  BY NatLessThanWellFounded, WFMin
<1>2. \A k \in S : ~ (k < n)
  BY <1>1 DEF OpToRel
<1>. QED  BY <1>2

LEMMA NatSetInduction ==
    ASSUME NEW S \in SUBSET Nat, 0 \in S, \A n \in S : n + 1 \in S
    PROVE  S = Nat
<1>. SUFFICES ASSUME NEW m \in Nat \ S PROVE FALSE
  OBVIOUS
<1>. DEFINE T == Nat \ S
<1>1. PICK n \in T : \A k \in Nat : k < n => k \notin T
  BY LeastNat
<1>2. n # 0 /\ n - 1 \in Nat /\ n - 1 < n
  BY <1>1
<1>3. n - 1 \in S
  BY <1>1, <1>2
<1>4. (n - 1) + 1 \in S /\ (n - 1) + 1 = n
  BY <1>3
<1>. QED  BY <1>1, <1>4

\* f starts with a and goes on to N by the step function h.
Iterates(f, a, h, N) == f[0] = a /\ \A n \in 1..N : f[n] = h[<<n, f[n - 1]>>]

\* A recursion over the positions up to N that stays in a set has a solution.
LEMMA PositionRecursion ==
    ASSUME NEW N \in Nat, NEW S, NEW a \in S, NEW h \in [(1..N) \X S -> S]
    PROVE  \E f \in [0..N -> S] : Iterates(f, a, h, N)
<1>. DEFINE Solves(f, m) == f[0] = a /\ \A n \in 1..m : f[n] = h[<<n, f[n - 1]>>]
            M == {m \in Nat : m <= N => \E f \in [0..m -> S] : Solves(f, m)}
<1>1. 0 \in M
  <2>. DEFINE f == [n \in 0..0 |-> a]
  <2>1. f \in [0..0 -> S] /\ Solves(f, 0)
    OBVIOUS
  <2>. QED  BY <2>1, Zenon
<1>2. ASSUME NEW m \in M PROVE m + 1 \in M
  <2>. SUFFICES ASSUME m + 1 <= N PROVE \E f \in [0..(m + 1) -> S] : Solves(f, m + 1)
    OBVIOUS
  <2>1. PICK f \in [0..m -> S] : Solves(f, m)
    OBVIOUS
  <2>2. f[m] \in S /\ m + 1 \in 1..N
    OBVIOUS
  <2>3. h[<<m + 1, f[m]>>] \in S
    BY <2>2
  <2>. DEFINE g == [n \in 0..(m + 1) |-> IF n = m + 1 THEN h[<<m + 1, f[m]>>] ELSE f[n]]
  <2>4. g \in [0..(m + 1) -> S]
    BY <2>3
  <2>5. g[0] = a
    BY <2>1
  <2>6. ASSUME NEW n \in 1..(m + 1) PROVE g[n] = h[<<n, g[n - 1]>>]
    <3>1. n - 1 \in 0..m /\ n - 1 \in 0..(m + 1) /\ n - 1 # m + 1
      OBVIOUS
    <3>2. g[n - 1] = f[n - 1]
      BY <3>1
    <3>3. CASE n = m + 1
      <4>1. n - 1 = m
        BY <3>3
      <4>2. g[n] = h[<<m + 1, f[m]>>]
        BY <3>3
      <4>3. g[n - 1] = f[m]
        BY <3>2, <4>1
      <4>. QED  BY <3>3, <4>2, <4>3, Zenon
    <3>4. CASE n # m + 1
      <4>1. n \in 1..m
        BY <3>4
      <4>2. g[n] = f[n] /\ f[n] = h[<<n, f[n - 1]>>]
        BY <2>1, <3>4, <4>1
      <4>. QED  BY <3>2, <4>2
    <3>. QED  BY <3>3, <3>4
  <2>. HIDE DEF g
  <2>. QED  BY <2>4, <2>5, <2>6
<1>3. M = Nat
  <2>. HIDE DEF M
  <2>. QED  BY <1>1, <1>2, NatSetInduction DEF M
<1>. QED  BY <1>3 DEF Iterates

\* A set of sequences over S that has the empty one, and with each one every
\* one that is longer by an element, has all.
LEMMA SeqSetInduction ==
    ASSUME NEW S, NEW T \in SUBSET Seq(S), <<>> \in T, \A t \in T, e \in S : Append(t, e) \in T
    PROVE  T = Seq(S)
<1>. DEFINE M == {n \in Nat : \A s \in Seq(S) : Len(s) = n => s \in T}
<1>1. 0 \in M
  OBVIOUS
<1>2. ASSUME NEW n \in M PROVE n + 1 \in M
  <2>. SUFFICES ASSUME NEW s \in Seq(S), Len(s) = n + 1 PROVE s \in T
    OBVIOUS
  <2>1. s # <<>>
    BY EmptySeq
  <2>2. PICK t \in Seq(S), e \in S : s = Append(t, e)
    BY <2>1, SequenceEmptyOrAppend
  <2>3. Len(t) = n
    BY <2>2, AppendProperties, LenProperties
  <2>. QED  BY <2>2, <2>3
<1>3. M = Nat
  <2>. HIDE DEF M
  <2>. QED  BY <1>1, <1>2, NatSetInduction DEF M
<1>4. ASSUME NEW s \in Seq(S) PROVE s \in T
  <2>1. Len(s) \in M
    <3>. HIDE DEF M
    <3>. QED  BY <1>3, LenProperties
  <2>. QED  BY <2>1
<1>. QED  BY <1>4

-----------------------------------------------------------------------------
(***************************************************************************)
(* Sequences put one after the other.                                      *)
(***************************************************************************)

\* What is put together, sequence by sequence.
FlatBy(f, ss) ==
    /\ f[0] = <<>>
    /\ \A n \in 1..Len(ss) : f[n] = f[n - 1] \o ss[n]
    /\ FlattenSeq(ss) = f[Len(ss)]

LEMMA FlattenDef ==
    ASSUME NEW S, NEW ss \in Seq(Seq(S))
    PROVE  \E f \in [0..Len(ss) -> Seq(S)] : FlatBy(f, ss)
<1>. DEFINE N == Len(ss)
            IsFlat(g) == g = [i \in 1..N |-> IF i = 1 THEN ss[i] ELSE g[i - 1] \o ss[i]]
            h == [p \in (1..N) \X Seq(S) |-> p[2] \o ss[p[1]]]
<1>0. N \in Nat /\ \A n \in 1..N : ss[n] \in Seq(S)
  BY LenProperties, ElementOfSeq
<1>1. <<>> \in Seq(S) /\ \A x \in Seq(S) : <<>> \o x = x
  OBVIOUS
<1>. HIDE DEF N
<1>2. h \in [(1..N) \X Seq(S) -> Seq(S)]
  BY <1>0
<1>3. \A n \in 1..N, x \in Seq(S) : h[<<n, x>>] = x \o ss[n]
  OBVIOUS
<1>. HIDE DEF h
<1>4. PICK r \in [0..N -> Seq(S)] : Iterates(r, <<>>, h, N)
  BY <1>0, <1>1, <1>2, PositionRecursion, Zenon
<1>5. r[0] = <<>> /\ \A n \in 1..N : r[n] = r[n - 1] \o ss[n]
  <2>1. ASSUME NEW n \in 1..N PROVE r[n] = r[n - 1] \o ss[n]
    <3>1. n - 1 \in 0..N
      BY <1>0
    <3>. QED  BY <1>3, <1>4, <3>1 DEF Iterates
  <2>. QED  BY <1>4, <2>1 DEF Iterates
<1>6. CASE N = 0
  <2>1. ss = <<>>
    BY <1>6 DEF N
  <2>2. FlattenSeq(ss) = <<>>
    BY <1>6, <2>1 DEF FlattenSeq, N
  <2>. QED  BY <1>5, <1>6, <2>2 DEF FlatBy, N
<1>7. CASE N # 0
  <2>. DEFINE g0 == [i \in 1..N |-> r[i]]
  <2>1. IsFlat(g0)
    <3>1. ASSUME NEW i \in 1..N
          PROVE  r[i] = IF i = 1 THEN ss[i] ELSE g0[i - 1] \o ss[i]
      <4>1. CASE i = 1
        <5>1. r[1] = r[0] \o ss[1]
          <6>1. 1 \in 1..N /\ 1 - 1 = 0
            BY <1>0, <1>7
          <6>. QED  BY <1>5, <6>1
        <5>2. r[1] = ss[1]
          BY <1>0, <1>1, <1>5, <4>1, <5>1
        <5>. QED  BY <4>1, <5>2
      <4>2. CASE i # 1
        <5>1. i - 1 \in 1..N
          BY <1>0, <4>2
        <5>. QED  BY <1>5, <4>2, <5>1
      <4>. QED  BY <4>1, <4>2
    <3>2. g0 = [i \in 1..N |-> IF i = 1 THEN ss[i] ELSE g0[i - 1] \o ss[i]]
      BY <3>1
    <3>. QED  BY <3>2, Zenon
  <2>2. PICK g : IsFlat(g) /\ FlattenSeq(ss) = g[N]
    <3>. DEFINE flat == CHOOSE f : IsFlat(f)
    <3>1. \E f : IsFlat(f)
      BY <2>1, Zenon
    <3>2. IsFlat(flat)
      BY <3>1, Zenon
    <3>3. FlattenSeq(ss) = flat[N]
      BY <1>7, Zenon DEF FlattenSeq, N
    <3>. QED  BY <3>2, <3>3
  <2>3. \A i \in 1..N : g[i] = IF i = 1 THEN ss[i] ELSE g[i - 1] \o ss[i]
    BY <2>2
  <2>. DEFINE M == {n \in Nat : n \in 1..N => g[n] = r[n]}
  <2>4. 0 \in M
    OBVIOUS
  <2>5. ASSUME NEW n \in M PROVE n + 1 \in M
    <3>. SUFFICES ASSUME n + 1 \in 1..N PROVE g[n + 1] = r[n + 1]
      OBVIOUS
    <3>1. (n + 1) - 1 = n
      OBVIOUS
    <3>2. CASE n = 0
      <4>1. 1 \in 1..N /\ n + 1 = 1 /\ 1 - 1 = 0
        BY <3>2
      <4>2. g[1] = ss[1]
        BY <2>3, <4>1
      <4>3. r[1] = r[0] \o ss[1]
        BY <1>5, <4>1
      <4>. QED  BY <1>0, <1>1, <1>5, <4>1, <4>2, <4>3
    <3>3. CASE n # 0
      <4>1. n \in 1..N /\ n + 1 # 1
        BY <1>0, <3>3
      <4>2. g[n + 1] = g[n] \o ss[n + 1]
        BY <2>3, <3>1, <4>1
      <4>3. r[n + 1] = r[n] \o ss[n + 1]
        BY <1>5, <3>1
      <4>. QED  BY <4>1, <4>2, <4>3
    <3>. QED  BY <3>2, <3>3
  <2>6. M = Nat
    <3>. HIDE DEF M
    <3>. QED  BY <2>4, <2>5, NatSetInduction DEF M
  <2>7. g[N] = r[N]
    <3>1. N \in M
      <4>. HIDE DEF M
      <4>. QED  BY <1>0, <2>6
    <3>2. N \in 1..N
      BY <1>0, <1>7
    <3>. HIDE <2>2, <2>3
    <3>. QED  BY <3>1, <3>2
  <2>8. FlattenSeq(ss) = r[N]
    BY <2>2, <2>7
  <2>. HIDE <2>2
  <2>. QED  BY <1>5, <2>8 DEF FlatBy, N
<1>. QED  BY <1>6, <1>7

LEMMA FlattenEmpty == FlattenSeq(<<>>) = <<>>
BY DEF FlattenSeq

\* What is put together is a sequence, and a last sequence comes last.
LEMMA FlattenAppend ==
    ASSUME NEW S, NEW ss \in Seq(Seq(S)), NEW x \in Seq(S)
    PROVE  /\ FlattenSeq(ss) \in Seq(S)
           /\ FlattenSeq(Append(ss, x)) = FlattenSeq(ss) \o x
<1>. DEFINE N == Len(ss)
            tt == Append(ss, x)
<1>0. N \in Nat
  BY LenProperties
<1>1. tt \in Seq(Seq(S)) /\ Len(tt) = N + 1 /\ tt[N + 1] = x /\ \A n \in 1..N : tt[n] = ss[n]
  BY AppendProperties
<1>2. PICK f \in [0..N -> Seq(S)] : FlatBy(f, ss)
  BY FlattenDef, Zenon
<1>. HIDE DEF tt
<1>3. PICK g \in [0..Len(tt) -> Seq(S)] : FlatBy(g, tt)
  BY <1>1, FlattenDef, Zenon
<1>. DEFINE M == {n \in Nat : n <= N => g[n] = f[n]}
<1>4. 0 \in M
  BY <1>2, <1>3 DEF FlatBy
<1>5. ASSUME NEW n \in M PROVE n + 1 \in M
  <2>. SUFFICES ASSUME n + 1 <= N PROVE g[n + 1] = f[n + 1]
    OBVIOUS
  <2>1. n + 1 \in 1..N /\ n + 1 \in 1..Len(tt) /\ (n + 1) - 1 = n /\ n <= N
    BY <1>0, <1>1
  <2>2. g[n + 1] = g[n] \o tt[n + 1] /\ f[n + 1] = f[n] \o ss[n + 1]
    BY <1>2, <1>3, <2>1 DEF FlatBy
  <2>. QED  BY <1>1, <2>1, <2>2
<1>6. M = Nat
  <2>. HIDE DEF M
  <2>. QED  BY <1>4, <1>5, NatSetInduction DEF M
<1>7. g[N] = f[N]
  <2>1. N \in M
    <3>. HIDE DEF M
    <3>. QED  BY <1>0, <1>6
  <2>. QED  BY <1>0, <2>1
<1>8. g[N + 1] = g[N] \o x
  <2>1. N + 1 \in 1..Len(tt) /\ (N + 1) - 1 = N
    BY <1>0, <1>1
  <2>. QED  BY <1>1, <1>3, <2>1 DEF FlatBy
<1>9. FlattenSeq(tt) = g[N + 1]
  BY <1>1, <1>3, Zenon DEF FlatBy
<1>10. FlattenSeq(ss) = f[N]
  BY <1>2, Zenon DEF FlatBy
<1>11. f[N] \in Seq(S)
  BY <1>0, <1>2
<1>. QED  BY <1>7, <1>8, <1>9, <1>10, <1>11 DEF tt

\* Putting together two sequences of sequences, or one.
LEMMA FlattenConcat ==
    ASSUME NEW S, NEW a \in Seq(Seq(S)), NEW b \in Seq(Seq(S))
    PROVE  FlattenSeq(a \o b) = FlattenSeq(a) \o FlattenSeq(b)
<1>. DEFINE T == {t \in Seq(Seq(S)) : FlattenSeq(a \o t) = FlattenSeq(a) \o FlattenSeq(t)}
<1>1. <<>> \in T
  <2>1. FlattenSeq(a) \in Seq(S)
    BY FlattenAppend, EmptySeq, Zenon
  <2>2. <<>> \in Seq(Seq(S)) /\ a \o <<>> = a /\ FlattenSeq(a) \o <<>> = FlattenSeq(a)
    BY <2>1
  <2>. QED  BY <2>2, FlattenEmpty
<1>2. ASSUME NEW t \in T, NEW x \in Seq(S) PROVE Append(t, x) \in T
  <2>1. t \in Seq(Seq(S)) /\ a \o t \in Seq(Seq(S)) /\ Append(t, x) \in Seq(Seq(S))
    OBVIOUS
  <2>2. a \o Append(t, x) = Append(a \o t, x)
    <3>1. PICK U, at, one : U = Seq(S) /\ at = a \o t /\ one = <<x>>
      OBVIOUS
    <3>2. a \in Seq(U) /\ t \in Seq(U) /\ at \in Seq(U) /\ x \in U /\ one \in Seq(U)
      BY <2>1, <3>1
    <3>3. Append(t, x) = t \o one
      BY <3>1, <3>2, AppendIsConcat
    <3>4. Append(at, x) = at \o one
      BY <3>1, <3>2, AppendIsConcat
    <3>5. (a \o t) \o one = a \o (t \o one)
      BY <3>2, ConcatAssociative, SMTT(30)
    <3>. QED  BY <3>1, <3>3, <3>4, <3>5
  <2>3. FlattenSeq(Append(a \o t, x)) = FlattenSeq(a \o t) \o x
    BY <2>1, FlattenAppend
  <2>4. FlattenSeq(Append(t, x)) = FlattenSeq(t) \o x
    BY <2>1, FlattenAppend
  <2>5. FlattenSeq(a) \in Seq(S) /\ FlattenSeq(t) \in Seq(S)
    BY <2>1, FlattenAppend
  <2>6. (FlattenSeq(a) \o FlattenSeq(t)) \o x = FlattenSeq(a) \o (FlattenSeq(t) \o x)
    <3>1. PICK fa \in Seq(S), ft \in Seq(S) : fa = FlattenSeq(a) /\ ft = FlattenSeq(t)
      BY <2>5
    <3>2. (fa \o ft) \o x = fa \o (ft \o x)
      BY ConcatAssociative, SMTT(30)
    <3>. QED  BY <3>1, <3>2
  <2>. QED  BY <2>1, <2>2, <2>3, <2>4, <2>6
<1>3. T = Seq(Seq(S))
  <2>. HIDE DEF T
  <2>1. T \in SUBSET Seq(Seq(S))
    BY DEF T
  <2>. QED  BY <1>1, <1>2, <2>1, SeqSetInduction
<1>4. b \in T
  <2>. HIDE DEF T
  <2>. QED  BY <1>3
<1>. QED  BY <1>4

LEMMA FlattenOne ==
    ASSUME NEW S, NEW x \in Seq(S)
    PROVE  FlattenSeq(<<x>>) = x
<1>1. <<>> \in Seq(Seq(S)) /\ Append(<<>>, x) = <<x>> /\ <<>> \o x = x
  OBVIOUS
<1>2. FlattenSeq(Append(<<>>, x)) = FlattenSeq(<<>>) \o x
  BY <1>1, FlattenAppend
<1>. QED  BY <1>1, <1>2, FlattenEmpty

\* Nothing else is in it.
LEMMA FlattenRange ==
    ASSUME NEW S, NEW ss \in Seq(Seq(S))
    PROVE  Range(FlattenSeq(ss)) = UNION {Range(ss[i]) : i \in 1..Len(ss)}
<1>. DEFINE Parts(t) == UNION {Range(t[i]) : i \in 1..Len(t)}
            T == {t \in Seq(Seq(S)) : Range(FlattenSeq(t)) = Parts(t)}
<1>1. <<>> \in T
  <2>1. Range(<<>>) = {}
    BY DEF Range
  <2>2. Parts(<<>>) = {}
    OBVIOUS
  <2>3. <<>> \in Seq(Seq(S))
    OBVIOUS
  <2>. HIDE DEF Parts
  <2>. QED  BY <2>1, <2>2, <2>3, FlattenEmpty
<1>2. ASSUME NEW t \in T, NEW x \in Seq(S) PROVE Append(t, x) \in T
  <2>1. t \in Seq(Seq(S)) /\ Append(t, x) \in Seq(Seq(S)) /\ Range(FlattenSeq(t)) = Parts(t)
    OBVIOUS
  <2>. HIDE DEF T, Parts
  <2>2. Range(FlattenSeq(Append(t, x))) = Range(FlattenSeq(t)) \cup Range(x)
    <3>1. FlattenSeq(t) \in Seq(S) /\ FlattenSeq(Append(t, x)) = FlattenSeq(t) \o x
      BY <2>1, FlattenAppend
    <3>. QED  BY <3>1, RangeConcatenation
  <2>3. Parts(Append(t, x)) = Parts(t) \cup Range(x)
    <3>1. PICK n \in Nat : n = Len(t)
      BY <2>1, LenProperties
    <3>2. PICK u : u = Append(t, x)
      OBVIOUS
    <3>3. Len(u) = n + 1 /\ u[n + 1] = x /\ \A i \in 1..n : u[i] = t[i]
      BY <2>1, <3>1, <3>2, AppendProperties
    <3>4. 1..(n + 1) = (1..n) \cup {n + 1}
      OBVIOUS
    <3>5. {Range(u[i]) : i \in 1..(n + 1)} = {Range(t[i]) : i \in 1..n} \cup {Range(x)}
      BY <3>3, <3>4
    <3>6. Parts(u) = UNION {Range(u[i]) : i \in 1..(n + 1)}
      BY <3>3 DEF Parts
    <3>7. Parts(t) = UNION {Range(t[i]) : i \in 1..n}
      BY <3>1 DEF Parts
    <3>. QED  BY <3>2, <3>5, <3>6, <3>7
  <2>. QED  BY <2>1, <2>2, <2>3 DEF T
<1>3. T = Seq(Seq(S))
  <2>. HIDE DEF T
  <2>1. T \in SUBSET Seq(Seq(S))
    BY DEF T
  <2>. QED  BY <1>1, <1>2, <2>1, SeqSetInduction
<1>4. ss \in T
  <2>. HIDE DEF T
  <2>. QED  BY <1>3
<1>. QED  BY <1>4

-----------------------------------------------------------------------------
(***************************************************************************)
(* The elements of a sequence that are in a set.                           *)
(***************************************************************************)

LEMMA OnlyInAppend ==
    ASSUME NEW S, NEW s \in Seq(S), NEW e \in S, NEW set
    PROVE  /\ OnlyIn(s, set) \in Seq(S)
           /\ OnlyIn(Append(s, e), set) =
                IF e \in set THEN Append(OnlyIn(s, set), e) ELSE OnlyIn(s, set)
<1>. DEFINE One(x) == IF x \in set THEN <<x>> ELSE <<>>
            Ones(t) == [i \in DOMAIN t |-> One(t[i])]
            t == Append(s, e)
<1>1. \A x \in S : One(x) \in Seq(S)
  OBVIOUS
<1>2. PICK n \in Nat : n = Len(s) /\ DOMAIN s = 1..n
  BY LenProperties
<1>3. /\ Len(t) = n + 1 /\ DOMAIN t = 1..(n + 1) /\ t[n + 1] = e
      /\ \A i \in 1..n : s[i] \in S /\ t[i] = s[i]
  BY <1>2, AppendProperties, LenProperties, ElementOfSeq
<1>. HIDE DEF One, t
<1>4. Ones(s) \in Seq(Seq(S))
  BY <1>1, <1>2, <1>3
<1>5. Ones(t) = Append(Ones(s), One(e))
  <2>1. PICK a : a = Ones(s)
    OBVIOUS
  <2>2. Append(a, One(e)) \in Seq(Seq(S)) /\ Len(a) = n
    BY <1>1, <1>2, <1>4, <2>1
  <2>3. /\ Len(Append(a, One(e))) = n + 1 /\ Append(a, One(e))[n + 1] = One(e)
        /\ \A i \in 1..n : Append(a, One(e))[i] = a[i]
    BY <1>1, <1>4, <2>1, <2>2, AppendProperties
  <2>4. \A i \in 1..n : a[i] = One(t[i])
    BY <1>2, <1>3, <2>1
  <2>5. Ones(t) \in Seq(Seq(S)) /\ Len(Ones(t)) = n + 1
    <3>1. \A i \in 1..(n + 1) : t[i] \in S
      <4>1. 1..(n + 1) = (1..n) \cup {n + 1}
        OBVIOUS
      <4>. QED  BY <1>3, <4>1
    <3>. QED  BY <1>1, <1>3, <3>1
  <2>6. ASSUME NEW i \in 1..(n + 1) PROVE Ones(t)[i] = Append(a, One(e))[i]
    <3>1. Ones(t)[i] = One(t[i])
      BY <1>3
    <3>2. CASE i = n + 1
      BY <1>3, <2>3, <3>1, <3>2
    <3>3. CASE i # n + 1
      <4>1. i \in 1..n
        BY <3>3
      <4>. QED  BY <2>3, <2>4, <3>1, <4>1
    <3>. QED  BY <3>2, <3>3
  <2>7. Ones(t) = Append(a, One(e))
    <3>. HIDE DEF Ones
    <3>. QED  BY <2>2, <2>3, <2>5, <2>6, SeqEqual
  <2>. QED  BY <2>1, <2>7
<1>6. OnlyIn(s, set) = FlattenSeq(Ones(s)) /\ OnlyIn(t, set) = FlattenSeq(Ones(t))
  BY DEF OnlyIn, One
<1>7. One(e) \in Seq(S)
  BY <1>1
<1>. HIDE DEF Ones
<1>8. FlattenSeq(Ones(s)) \in Seq(S) /\ FlattenSeq(Append(Ones(s), One(e))) = FlattenSeq(Ones(s)) \o One(e)
  BY <1>4, <1>7, FlattenAppend
<1>9. PICK kept \in Seq(S) : kept = OnlyIn(s, set)
  BY <1>6, <1>8
<1>10. OnlyIn(t, set) = kept \o One(e)
  BY <1>5, <1>6, <1>8, <1>9
<1>11. kept \o One(e) = IF e \in set THEN Append(kept, e) ELSE kept
  <2>1. kept \o <<>> = kept /\ kept \o <<e>> = Append(kept, e)
    BY AppendIsConcat, ConcatEmptySeq
  <2>. QED  BY <2>1 DEF One
<1>. QED  BY <1>9, <1>10, <1>11 DEF t

LEMMA OnlyInEmpty ==
    ASSUME NEW set
    PROVE  OnlyIn(<<>>, set) = <<>>
BY FlattenEmpty DEF OnlyIn

LEMMA RangeAppend ==
    ASSUME NEW S, NEW t \in Seq(S), NEW e \in S
    PROVE  Range(Append(t, e)) = Range(t) \cup {e}
<1>1. PICK one : one = <<e>>
  OBVIOUS
<1>2. one \in Seq(S) /\ Range(one) = {e}
  BY <1>1 DEF Range
<1>3. Append(t, e) = t \o one
  BY <1>1, AppendIsConcat
<1>. QED  BY <1>2, <1>3, RangeConcatenation

\* Nothing but what is in both is kept, and all of that.
LEMMA OnlyInKeeps ==
    ASSUME NEW S, NEW s \in Seq(S), NEW set
    PROVE  /\ OnlyIn(s, set) \in Seq(S)
           /\ Range(OnlyIn(s, set)) = Range(s) \cap set
           /\ Range(s) \subseteq set => OnlyIn(s, set) = s
<1>. DEFINE T == {t \in Seq(S) : /\ OnlyIn(t, set) \in Seq(S)
                                 /\ Range(OnlyIn(t, set)) = Range(t) \cap set
                                 /\ Range(t) \subseteq set => OnlyIn(t, set) = t}
<1>1. <<>> \in T
  <2>1. OnlyIn(<<>>, set) = <<>> /\ <<>> \in Seq(S) /\ Range(<<>>) = {}
    BY OnlyInEmpty DEF Range
  <2>. QED  BY <2>1
<1>2. ASSUME NEW t \in T, NEW e \in S PROVE Append(t, e) \in T
  <2>0. /\ t \in Seq(S) /\ OnlyIn(t, set) \in Seq(S)
        /\ Range(OnlyIn(t, set)) = Range(t) \cap set
        /\ Range(t) \subseteq set => OnlyIn(t, set) = t
    OBVIOUS
  <2>. HIDE DEF T
  <2>1. t \in Seq(S) /\ Append(t, e) \in Seq(S)
    BY <2>0
  <2>3. Range(Append(t, e)) = Range(t) \cup {e}
    BY <2>1, RangeAppend
  <2>2. OnlyIn(Append(t, e), set) =
            IF e \in set THEN Append(OnlyIn(t, set), e) ELSE OnlyIn(t, set)
    <3>. HIDE DEF T
    <3>1. t \in Seq(S) /\ e \in S
      BY <2>1
    <3>. QED  BY <3>1, OnlyInAppend
  <2>4. PICK kept \in Seq(S) : kept = OnlyIn(t, set)
    BY <2>0
  <2>5. Range(kept) = Range(t) \cap set /\ (Range(t) \subseteq set => kept = t)
    BY <2>0, <2>4
  <2>6. OnlyIn(Append(t, e), set) = IF e \in set THEN Append(kept, e) ELSE kept
    BY <2>2, <2>4, Zenon
  <2>7. CASE e \in set
    <3>1. OnlyIn(Append(t, e), set) = Append(kept, e)
      BY <2>6, <2>7
    <3>2. Range(Append(kept, e)) = Range(kept) \cup {e}
      BY RangeAppend
    <3>3. Append(kept, e) \in Seq(S)
      OBVIOUS
    <3>. QED  BY <2>1, <2>3, <2>5, <2>7, <3>1, <3>2, <3>3 DEF T
  <2>8. CASE e \notin set
    <3>1. OnlyIn(Append(t, e), set) = kept
      BY <2>6, <2>8
    <3>. QED  BY <2>1, <2>3, <2>5, <2>8, <3>1 DEF T
  <2>. QED  BY <2>7, <2>8
<1>3. T = Seq(S)
  <2>. HIDE DEF T
  <2>1. T \in SUBSET Seq(S)
    BY DEF T
  <2>. QED  BY <1>1, <1>2, <2>1, SeqSetInduction
<1>4. s \in T
  <2>. HIDE DEF T
  <2>. QED  BY <1>3
<1>. QED  BY <1>4

-----------------------------------------------------------------------------
(***************************************************************************)
(* Whose words a tool call is shown with.                                  *)
(***************************************************************************)

LEMMA SequenceOver ==
    ASSUME NEW S, NEW s \in Seq(S)
    PROVE  IsSequence(s) /\ Range(s) \subseteq S
BY SeqOfRange, RangeOfSeq DEF IsSequence

LEMMA ShortSequences ==
    /\ IsSequence(<<>>)
    /\ \A x : IsSequence(<<x>>) /\ Range(<<x>>) = {x}
    /\ \A x, y : IsSequence(<<x, y>>)
    /\ \A x, y, z : IsSequence(<<x, y, z>>)
    /\ \A x, y, z, u : IsSequence(<<x, y, z, u>>)
BY DEF IsSequence, Range

LEMMA KeysAreSequences ==
    /\ \A name \in DOMAIN SafeProjection : IsSequence(SafeProjection[name])
    /\ \A name \in DOMAIN Projection : IsSequence(Projection[name])
    /\ {"Bash", "NotebookEdit"} \subseteq DOMAIN Projection
    /\ Projection["Bash"] = <<"command">>
<1>1. \A name \in DOMAIN FileProjection : IsSequence(FileProjection[name])
  BY ShortSequences DEF FileProjection
<1>2. \A name \in DOMAIN ExternalProjection : IsSequence(ExternalProjection[name])
  BY ShortSequences DEF ExternalProjection
<1>3. DOMAIN BashProjection = {"Bash"} /\ BashProjection["Bash"] = <<"command">>
  BY DEF BashProjection
<1>4. /\ "Bash" \notin DOMAIN FileProjection /\ "Bash" \notin DOMAIN ExternalProjection
      /\ "NotebookEdit" \in DOMAIN FileProjection
  BY DEF FileProjection, ExternalProjection
<1>5. \A name \in DOMAIN SafeProjection : IsSequence(SafeProjection[name])
  BY ShortSequences DEF SafeProjection
<1>6. IsSequence(<<"command">>)
  BY ShortSequences
<1>. QED  BY <1>1, <1>2, <1>3, <1>4, <1>5, <1>6 DEF Projection

LEMMA TextsAre ==
    ASSUME NEW vals, IsSequence(vals)
    PROVE  /\ IsSequence(Texts(vals))
           /\ Range(Texts(vals)) = {val \in Range(vals) : val.k = "text"}
<1>. DEFINE texts == {val \in Range(vals) : val.k = "text"}
<1>1. vals \in Seq(Range(vals))
  BY DEF IsSequence
<1>. HIDE DEF texts
<1>2. OnlyIn(vals, texts) \in Seq(Range(vals)) /\ Range(OnlyIn(vals, texts)) = Range(vals) \cap texts
  BY <1>1, OnlyInKeeps
<1>3. IsSequence(OnlyIn(vals, texts))
  BY <1>2, SequenceOver
<1>4. Range(vals) \cap texts = texts
  BY DEF texts
<1>. QED  BY <1>2, <1>3, <1>4 DEF Texts, texts

\* What is found under a key is the value of a field of that name.
ValuesUnder(in, keys) == {f.val : f \in {g \in Range(in.fields) : g.key \in keys}}

LEMMA FieldIsUnderKey ==
    ASSUME NEW in, NEW key, IsSequence(in.fields)
    PROVE  /\ IsSequence(FieldOf(in, key)) /\ Range(FieldOf(in, key)) \subseteq ValuesUnder(in, {key})
           /\ IsSequence(stringField(in, key)) /\ Range(stringField(in, key)) \subseteq ValuesUnder(in, {key})
<1>. DEFINE named == {f \in Range(in.fields) : f.key = key}
            found == IF in.object THEN OnlyIn(in.fields, named) ELSE <<>>
<1>1. in.fields \in Seq(Range(in.fields))
  BY DEF IsSequence
<1>2. named \subseteq Range(in.fields)
  OBVIOUS
<1>. HIDE DEF named
<1>3. OnlyIn(in.fields, named) \in Seq(Range(in.fields))
      /\ Range(OnlyIn(in.fields, named)) = Range(in.fields) \cap named
  BY <1>1, OnlyInKeeps
<1>4. found \in Seq(Range(in.fields)) /\ Range(found) \subseteq named
  BY <1>3 DEF Range
<1>5. FieldOf(in, key) = IF found = <<>> THEN <<>> ELSE <<found[Len(found)].val>>
  BY DEF FieldOf, named
<1>. HIDE DEF found
<1>6. IsSequence(FieldOf(in, key)) /\ Range(FieldOf(in, key)) \subseteq ValuesUnder(in, {key})
  <2>1. CASE found = <<>>
    BY <1>5, <2>1, ShortSequences DEF Range
  <2>2. CASE found # <<>>
    <3>1. Len(found) \in 1..Len(found)
      BY <1>4, <2>2, EmptySeq
    <3>2. PICK f : f = found[Len(found)]
      OBVIOUS
    <3>3. f \in Range(found)
      BY <1>4, <3>1, <3>2, RangeEquality
    <3>4. f \in Range(in.fields) /\ f.key \in {key}
      BY <1>2, <1>4, <3>3 DEF named
    <3>5. f.val \in ValuesUnder(in, {key})
      BY <3>4 DEF ValuesUnder
    <3>6. FieldOf(in, key) = <<f.val>>
      BY <1>5, <2>2, <3>2
    <3>. QED  BY <3>5, <3>6, ShortSequences
  <2>. QED  BY <2>1, <2>2
<1>7. IsSequence(Texts(FieldOf(in, key))) /\ Range(Texts(FieldOf(in, key))) \subseteq Range(FieldOf(in, key))
  BY <1>6, TextsAre
<1>. QED  BY <1>6, <1>7 DEF stringField

LEMMA KeptIsUnderKeys ==
    ASSUME NEW in, NEW keys, IsSequence(in.fields), IsSequence(keys)
    PROVE  Range(Kept(in, keys)) \subseteq ValuesUnder(in, Range(keys))
<1>. DEFINE S == ValuesUnder(in, Range(keys))
            ss == [i \in DOMAIN keys |-> stringField(in, keys[i])]
<1>1. PICK n \in Nat : n = Len(keys) /\ DOMAIN keys = 1..n
  BY LenProperties DEF IsSequence
<1>2. ASSUME NEW i \in 1..n PROVE ss[i] \in Seq(S)
  <2>1. keys[i] \in Range(keys)
    BY <1>1 DEF Range
  <2>2. ValuesUnder(in, {keys[i]}) \subseteq S
    BY <2>1 DEF ValuesUnder
  <2>3. PICK t : t = stringField(in, keys[i])
    OBVIOUS
  <2>4. t \in Seq(Range(t)) /\ Range(t) \subseteq ValuesUnder(in, {keys[i]})
    BY <2>3, FieldIsUnderKey DEF IsSequence
  <2>5. t \in Seq(S)
    <3>. HIDE DEF S
    <3>. QED  BY <2>2, <2>4, SeqMonotonic
  <2>. QED  BY <1>1, <2>3, <2>5
<1>3. ss \in Seq(Seq(S))
  <2>1. DOMAIN ss = 1..n
    BY <1>1
  <2>2. ss = [i \in 1..n |-> ss[i]]
    BY <1>1
  <2>. HIDE DEF ss
  <2>. QED  BY <1>2, <2>2
<1>. HIDE DEF S, ss
<1>4. FlattenSeq(ss) \in Seq(S)
  <2>1. <<>> \in Seq(S)
    OBVIOUS
  <2>. QED  BY <1>3, <2>1, FlattenAppend
<1>. QED  BY <1>4, SequenceOver DEF Kept, ss, S

\* A cut value says no more than the value.
LEMMA CutSaysNoMore ==
    ASSUME NEW val
    PROVE  SpeakersIn(truncateRaw(val)) \subseteq SpeakersIn(val)
<1>1. \A x : SpeakersIn(Says(x)) = {}
  BY DEF SpeakersIn, Says, VoiceOf
<1>2. CASE val.long /\ val.k = "text"
  <2>1. truncateRaw(val) = [k |-> "text", v |-> [t |-> "head", of |-> val.v], long |-> FALSE]
    BY <1>2 DEF truncateRaw
  <2>2. SpeakersIn(truncateRaw(val)) = VoiceOf([t |-> "head", of |-> val.v])
    BY <2>1 DEF SpeakersIn
  <2>3. VoiceOf([t |-> "head", of |-> val.v]) = IF val.v.t = "word" THEN {val.v.by} ELSE {}
    BY DEF VoiceOf
  <2>4. SpeakersIn(val) = VoiceOf(val.v)
    BY <1>2 DEF SpeakersIn
  <2>5. val.v.t = "word" => VoiceOf(val.v) = {val.v.by}
    BY DEF VoiceOf
  <2>. QED  BY <2>2, <2>3, <2>4, <2>5
<1>3. CASE ~(val.long /\ val.k = "text")
  BY <1>1, <1>3 DEF truncateRaw
<1>. QED  BY <1>2, <1>3

\* The judge is shown the words of the call and no others: of a Bash command,
\* not what the model says it is for.
LEMMA ShownInputIsTheCall ==
    ASSUME NEW name, NEW in, InputMarked(name, in)
    PROVE  \A val \in Range(Sanitize(name, in)) : SpeakersIn(val) \subseteq {"call"}
<1>. DEFINE Fair(val) == SpeakersIn(val) \subseteq {"call"}
            Harmless(vals) == \A val \in Range(vals) : Fair(val)
            All == {f.val : f \in Range(in.fields)}
<1>1. IsSequence(in.fields)
  BY DEF InputMarked
<1>2. \A keys : \A val \in ValuesUnder(in, keys) :
        (name # "Bash" \/ "description" \notin keys) => Fair(val)
  BY DEF ValuesUnder, InputMarked
<1>3. ASSUME name # "Bash" PROVE \A val \in All : Fair(val)
  BY <1>3 DEF InputMarked
<1>4. \A x : Harmless(<<Says(x)>>)
  <2>1. \A x : Fair(Says(x))
    BY DEF SpeakersIn, Says, VoiceOf
  <2>. QED  BY <2>1, ShortSequences
<1>5. ASSUME name # "Bash" PROVE Harmless(Whole(in))
  <2>1. DOMAIN Whole(in) = DOMAIN in.fields /\ \A i \in DOMAIN in.fields : Whole(in)[i] \in All
    BY DEF Whole, Range
  <2>. HIDE DEF Fair, All
  <2>. QED  BY <1>3, <1>5, <2>1 DEF Range
<1>6. ASSUME NEW keys, IsSequence(keys), name # "Bash" \/ "description" \notin Range(keys)
      PROVE  Harmless(Kept(in, keys))
  <2>. HIDE DEF Fair
  <2>. QED  BY <1>1, <1>2, <1>6, KeptIsUnderKeys
<1>7. ASSUME NEW key, name # "Bash" PROVE Harmless(stringField(in, key))
  <2>. HIDE DEF Fair
  <2>. QED  BY <1>1, <1>2, <1>7, FieldIsUnderKey
<1>8. Harmless(<<>>)
  BY DEF Range
<1>. DEFINE Joined(a, b) == IsSequence(a) /\ IsSequence(b) /\ Harmless(a) /\ Harmless(b)
<1>9. ASSUME NEW a, NEW b, Joined(a, b) PROVE IsSequence(a \o b) /\ Harmless(a \o b)
  <2>. DEFINE S == Range(a) \cup Range(b)
  <2>1. a \in Seq(S) /\ b \in Seq(S)
    BY <1>9, SeqMonotonic DEF IsSequence
  <2>. HIDE DEF S
  <2>2. a \o b \in Seq(S) /\ Range(a \o b) = S
    BY <2>1, RangeConcatenation, ConcatProperties DEF S
  <2>3. \A val \in S : Fair(val)
    BY <1>9 DEF S
  <2>. HIDE DEF Fair
  <2>. QED  BY <2>2, <2>3, SequenceOver
<1>10. CASE name = "Bash"
  <2>1. Tool(name) = "registered" /\ name # "NotebookEdit"
    BY <1>10, KeysAreSequences DEF Tool
  <2>2. Sanitize(name, in) = Kept(in, <<"command">>)
    BY <1>10, <2>1, KeysAreSequences DEF Sanitize
  <2>3. IsSequence(<<"command">>) /\ Range(<<"command">>) = {"command"}
    BY ShortSequences
  <2>. QED  BY <1>6, <2>2, <2>3
<1>11. CASE name = "NotebookEdit"
  <2>. DEFINE mode == IF stringField(in, "edit_mode") = <<>> THEN <<Says("replace")>>
                      ELSE stringField(in, "edit_mode")
  <2>1. Sanitize(name, in) = NotebookKept(in)
    <3>1. Tool(name) = "registered"
      BY <1>11, KeysAreSequences DEF Tool
    <3>. QED  BY <1>11, <3>1 DEF Sanitize
  <2>2. name # "Bash"
    BY <1>11
  <2>3. \A key : IsSequence(stringField(in, key)) /\ Harmless(stringField(in, key))
    <3>. HIDE DEF Harmless
    <3>. QED  BY <1>1, <1>7, <2>2, FieldIsUnderKey
  <2>. HIDE DEF Harmless
  <2>4. IsSequence(mode) /\ Harmless(mode)
    BY <1>4, <2>3, ShortSequences
  <2>5. NotebookKept(in) = (stringField(in, "notebook_path") \o mode) \o stringField(in, "new_source")
    BY DEF NotebookKept
  <2>. HIDE DEF mode
  <2>6. Joined(stringField(in, "notebook_path"), mode)
    BY <2>3, <2>4
  <2>7. Joined(stringField(in, "notebook_path") \o mode, stringField(in, "new_source"))
    BY <1>9, <2>3, <2>6
  <2>8. Harmless(NotebookKept(in))
    BY <1>9, <2>5, <2>7
  <2>. QED  BY <2>1, <2>8 DEF Harmless
<1>12. ASSUME name # "Bash" PROVE Harmless(Bounded(in))
  <2>1. Harmless([i \in DOMAIN in.fields |-> truncateRaw(in.fields[i].val)])
    <3>1. \A i \in DOMAIN in.fields : in.fields[i].val \in All
      BY DEF Range
    <3>2. \A i \in DOMAIN in.fields : Fair(truncateRaw(in.fields[i].val))
      <4>. HIDE DEF All
      <4>. QED  BY <1>3, <1>12, <3>1, CutSaysNoMore
    <3>. HIDE DEF Fair
    <3>. QED  BY <3>2 DEF Range
  <2>. HIDE DEF Harmless
  <2>. QED  BY <1>5, <1>8, <1>12, <2>1 DEF Bounded
<1>13. ASSUME name # "Bash" PROVE Harmless(Questions(in))
  <2>1. PICK asked : asked = FieldOf(in, "questions")
    OBVIOUS
  <2>2. CASE asked # <<>> /\ asked[1].k = "list"
    <3>1. asked \in Seq(Range(asked)) /\ Range(asked) \subseteq ValuesUnder(in, {"questions"})
      BY <1>1, <2>1, FieldIsUnderKey DEF IsSequence
    <3>2. asked[1] \in Range(asked)
      BY <2>2, <3>1, EmptySeq, RangeEquality
    <3>3. PICK f \in Range(in.fields) : asked[1] = f.val
      BY <3>1, <3>2 DEF ValuesUnder
    <3>4. IsSequence(f.val.v) /\ Fair(f.val)
      BY <1>13, <2>2, <3>3 DEF InputMarked
    <3>5. SpeakersIn(f.val) = UNION {VoiceOf(item.v) : item \in {x \in Range(f.val.v) : x.k = "text"}}
      BY <2>2, <3>3 DEF SpeakersIn
    <3>6. Range(Texts(f.val.v)) = {x \in Range(f.val.v) : x.k = "text"}
      BY <3>4, TextsAre
    <3>7. ASSUME NEW item \in Range(Texts(f.val.v)) PROVE Fair(item)
      <4>1. item.k = "text" /\ VoiceOf(item.v) \subseteq SpeakersIn(f.val)
        BY <3>5, <3>6
      <4>2. SpeakersIn(item) = VoiceOf(item.v)
        BY <4>1 DEF SpeakersIn
      <4>. QED  BY <3>4, <4>1, <4>2
    <3>8. Questions(in) = Texts(f.val.v)
      BY <2>1, <2>2, <3>3 DEF Questions
    <3>. QED  BY <3>7, <3>8
  <2>3. CASE ~(asked # <<>> /\ asked[1].k = "list")
    <3>1. Questions(in) = <<>>
      BY <2>1, <2>3 DEF Questions
    <3>. HIDE DEF Harmless
    <3>. QED  BY <1>8, <3>1
  <2>. QED  BY <2>2, <2>3
<1>14. ASSUME name # "Bash" PROVE Harmless(SafeKept(name, in))
  <2>1. \A key : Harmless(stringField(in, key))
    <3>. HIDE DEF Harmless
    <3>. QED  BY <1>7, <1>14
  <2>2. ASSUME name \in DOMAIN SafeProjection PROVE Harmless(Kept(in, SafeProjection[name]))
    <3>. HIDE DEF Harmless
    <3>. QED  BY <1>6, <1>14, <2>2, KeysAreSequences
  <2>. HIDE DEF Harmless
  <2>. QED  BY <1>4, <1>12, <1>13, <1>14, <2>1, <2>2 DEF SafeKept
<1>15. CASE name # "Bash" /\ name # "NotebookEdit"
  <2>1. ASSUME Tool(name) = "registered" PROVE Harmless(Kept(in, Projection[name]))
    <3>1. name \in DOMAIN Projection
      BY <2>1 DEF Tool
    <3>. HIDE DEF Harmless
    <3>. QED  BY <1>6, <1>15, <3>1, KeysAreSequences
  <2>. HIDE DEF Harmless
  <2>2. Harmless(Sanitize(name, in))
    BY <1>4, <1>5, <1>14, <1>15, <2>1 DEF Sanitize
  <2>. QED  BY <2>2 DEF Harmless
<1>. QED  BY <1>10, <1>11, <1>15

-----------------------------------------------------------------------------
(***************************************************************************)
(* What each element of a sequence gives, put together.                    *)
(***************************************************************************)

\* h takes the elements of S to elements of Q.
Maps(h, S, Q) == h \in [S -> Q]

Given(h, s) == [i \in DOMAIN s |-> h[s[i]]]

GivenAll(h, s) == FlattenSeq(Given(h, s))

LEMMA GivenIs ==
    ASSUME NEW S, NEW Q, NEW h, Maps(h, S, Q), NEW s \in Seq(S)
    PROVE  Given(h, s) \in Seq(Q) /\ Len(Given(h, s)) = Len(s)
<1>1. PICK n \in Nat : n = Len(s) /\ DOMAIN s = 1..n
  BY LenProperties
<1>2. \A i \in 1..n : h[s[i]] \in Q
  BY <1>1, ElementOfSeq DEF Maps
<1>. QED  BY <1>1, <1>2 DEF Given

LEMMA GivenConcat ==
    ASSUME NEW S, NEW Q, NEW h, Maps(h, S, Q), NEW a \in Seq(S), NEW b \in Seq(S)
    PROVE  Given(h, a \o b) = Given(h, a) \o Given(h, b)
<1>0. ASSUME NEW s \in Seq(S)
      PROVE  \E g \in Seq(Q) : g = Given(h, s) /\ Len(g) = Len(s) /\ \A i \in 1..Len(s) : g[i] = h[s[i]]
  <2>1. Given(h, s) \in Seq(Q) /\ Len(Given(h, s)) = Len(s)
    BY GivenIs
  <2>2. \A i \in 1..Len(s) : Given(h, s)[i] = h[s[i]]
    BY LenProperties DEF Given
  <2>. QED  BY <2>1, <2>2
<1>1. PICK ga \in Seq(Q) : ga = Given(h, a) /\ Len(ga) = Len(a) /\ \A i \in 1..Len(a) : ga[i] = h[a[i]]
  BY <1>0
<1>2. PICK gb \in Seq(Q) : gb = Given(h, b) /\ Len(gb) = Len(b) /\ \A i \in 1..Len(b) : gb[i] = h[b[i]]
  BY <1>0
<1>3. PICK c \in Seq(S) : c = a \o b
  BY ConcatProperties
<1>4. PICK m \in Nat, n \in Nat : m = Len(a) /\ n = Len(b)
  BY LenProperties
<1>5. Len(c) = m + n /\ \A i \in 1..(m + n) : c[i] = IF i <= m THEN a[i] ELSE b[i - m]
  <2>1. /\ Len(a \o b) = Len(a) + Len(b)
        /\ \A i \in 1..(Len(a) + Len(b)) : (a \o b)[i] = IF i <= Len(a) THEN a[i] ELSE b[i - Len(a)]
    BY ConcatProperties
  <2>. QED  BY <1>3, <1>4, <2>1
<1>6. PICK gc \in Seq(Q) : gc = Given(h, c) /\ Len(gc) = m + n /\ \A i \in 1..(m + n) : gc[i] = h[c[i]]
  <2>1. PICK gs \in Seq(Q) : gs = Given(h, c) /\ Len(gs) = Len(c) /\ \A i \in 1..Len(c) : gs[i] = h[c[i]]
    BY <1>0
  <2>. QED  BY <1>5, <2>1
<1>7. PICK gab \in Seq(Q) : /\ gab = ga \o gb /\ Len(gab) = m + n
                            /\ \A i \in 1..(m + n) : gab[i] = IF i <= m THEN ga[i] ELSE gb[i - m]
  <2>1. Len(ga) = m /\ Len(gb) = n
    BY <1>1, <1>2, <1>4
  <2>2. /\ ga \o gb \in Seq(Q) /\ Len(ga \o gb) = Len(ga) + Len(gb)
        /\ \A i \in 1 .. Len(ga) + Len(gb) : (ga \o gb)[i] = IF i <= Len(ga) THEN ga[i] ELSE gb[i - Len(ga)]
    BY ConcatProperties
  <2>. QED  BY <2>1, <2>2
<1>8. ASSUME NEW i \in 1..(m + n) PROVE gc[i] = gab[i]
  <2>1. CASE i <= m
    <3>1. gc[i] = h[a[i]] /\ gab[i] = ga[i]
      BY <1>5, <1>6, <1>7, <2>1
    <3>2. i \in 1..Len(a)
      BY <1>4, <2>1
    <3>. QED  BY <1>1, <3>1, <3>2
  <2>2. CASE ~(i <= m)
    <3>1. i - m \in 1..n
      BY <2>2
    <3>2. gc[i] = h[b[i - m]] /\ gab[i] = gb[i - m]
      BY <1>5, <1>6, <1>7, <2>2
    <3>3. gb[i - m] = h[b[i - m]]
      BY <1>2, <1>4, <3>1
    <3>. QED  BY <3>2, <3>3
  <2>. QED  BY <2>1, <2>2
<1>9. gc = gab
  BY <1>6, <1>7, <1>8, SeqEqual
<1>. QED  BY <1>1, <1>2, <1>3, <1>6, <1>7, <1>9

LEMMA GivenAllConcat ==
    ASSUME NEW S, NEW W, NEW h, Maps(h, S, Seq(W)), NEW a \in Seq(S), NEW b \in Seq(S)
    PROVE  GivenAll(h, a) \in Seq(W) /\ GivenAll(h, a \o b) = GivenAll(h, a) \o GivenAll(h, b)
<1>1. Given(h, a) \in Seq(Seq(W)) /\ Given(h, b) \in Seq(Seq(W))
  BY GivenIs
<1>2. Given(h, a \o b) = Given(h, a) \o Given(h, b)
  BY GivenConcat
<1>3. FlattenSeq(Given(h, a)) \in Seq(W)
  <2>1. <<>> \in Seq(W)
    OBVIOUS
  <2>. QED  BY <1>1, <2>1, FlattenAppend
<1>4. FlattenSeq(Given(h, a) \o Given(h, b)) = FlattenSeq(Given(h, a)) \o FlattenSeq(Given(h, b))
  BY <1>1, FlattenConcat
<1>. QED  BY <1>2, <1>3, <1>4 DEF GivenAll

LEMMA GivenAllOne ==
    ASSUME NEW S, NEW W, NEW h, Maps(h, S, Seq(W)), NEW e \in S
    PROVE  GivenAll(h, <<e>>) = h[e]
<1>1. Given(h, <<e>>) = <<h[e]>>
  BY DEF Given
<1>2. FlattenSeq(<<h[e]>>) = h[e]
  BY FlattenOne DEF Maps
<1>. QED  BY <1>1, <1>2 DEF GivenAll

\* From what is put together comes what its parts give, put together.
LEMMA GivenAllFlatten ==
    ASSUME NEW S, NEW W, NEW h, Maps(h, S, Seq(W)), NEW ss \in Seq(Seq(S))
    PROVE  GivenAll(h, FlattenSeq(ss)) = FlattenSeq([i \in DOMAIN ss |-> GivenAll(h, ss[i])])
<1>. DEFINE g == [s \in Seq(S) |-> GivenAll(h, s)]
            T == {t \in Seq(Seq(S)) : GivenAll(h, FlattenSeq(t)) = GivenAll(g, t)}
<1>0. <<>> \in Seq(S) /\ <<>> \in Seq(Seq(S)) /\ \A f : GivenAll(f, <<>>) = <<>>
  BY FlattenEmpty DEF GivenAll, Given
<1>1. Maps(g, Seq(S), Seq(W))
  BY <1>0, GivenAllConcat DEF Maps
<1>2. \A s \in Seq(S) : g[s] = GivenAll(h, s)
  OBVIOUS
<1>. HIDE DEF g
<1>3. <<>> \in T
  BY <1>0, FlattenEmpty
<1>4. ASSUME NEW t \in T, NEW x \in Seq(S) PROVE Append(t, x) \in T
  <2>1. /\ t \in Seq(Seq(S)) /\ Append(t, x) \in Seq(Seq(S))
        /\ GivenAll(h, FlattenSeq(t)) = GivenAll(g, t)
    OBVIOUS
  <2>. HIDE DEF T
  <2>2. FlattenSeq(t) \in Seq(S) /\ FlattenSeq(Append(t, x)) = FlattenSeq(t) \o x
    BY <2>1, FlattenAppend
  <2>3. GivenAll(h, FlattenSeq(t) \o x) = GivenAll(h, FlattenSeq(t)) \o GivenAll(h, x)
    BY <2>2, GivenAllConcat
  <2>4. PICK one : one = <<x>>
    OBVIOUS
  <2>5. one \in Seq(Seq(S)) /\ Append(t, x) = t \o one
    BY <2>1, <2>4, AppendIsConcat
  <2>6. GivenAll(g, t \o one) = GivenAll(g, t) \o GivenAll(g, one)
    <3>1. PICK U : U = Seq(S)
      OBVIOUS
    <3>2. Maps(g, U, Seq(W)) /\ t \in Seq(U) /\ one \in Seq(U)
      BY <1>1, <2>1, <2>5, <3>1
    <3>. QED  BY <3>2, GivenAllConcat
  <2>7. GivenAll(g, one) = GivenAll(h, x)
    BY <1>1, <1>2, <2>4, GivenAllOne
  <2>. QED  BY <2>1, <2>2, <2>3, <2>5, <2>6, <2>7 DEF T
<1>5. T = Seq(Seq(S))
  <2>. HIDE DEF T
  <2>1. T \in SUBSET Seq(Seq(S))
    BY DEF T
  <2>. QED  BY <1>0, <1>3, <1>4, <2>1, SeqSetInduction
<1>6. GivenAll(h, FlattenSeq(ss)) = GivenAll(g, ss)
  <2>1. ss \in T
    <3>. HIDE DEF T
    <3>. QED  BY <1>5
  <2>. QED  BY <2>1
<1>7. Given(g, ss) = [i \in DOMAIN ss |-> GivenAll(h, ss[i])]
  <2>1. \A i \in DOMAIN ss : ss[i] \in Seq(S)
    BY LenProperties, ElementOfSeq
  <2>. QED  BY <1>2, <2>1 DEF Given
<1>. QED  BY <1>6, <1>7 DEF GivenAll

\* Where nothing is given, nothing comes together.
LEMMA FlattenNothing ==
    ASSUME NEW n \in Nat, NEW ss, ss = [i \in 1..n |-> <<>>]
    PROVE  FlattenSeq(ss) = <<>>
<1>1. ss \in Seq(Seq({})) /\ Len(ss) = n
  <2>1. <<>> \in Seq({})
    OBVIOUS
  <2>. QED  BY <2>1
<1>2. FlattenSeq(ss) \in Seq({})
  <2>1. <<>> \in Seq({})
    OBVIOUS
  <2>. QED  BY <1>1, <2>1, FlattenAppend
<1>3. PICK t \in Seq({}) : t = FlattenSeq(ss)
  BY <1>2
<1>4. Len(t) = 0
  <2>1. ASSUME Len(t) # 0 PROVE FALSE
    <3>1. 1 \in 1..Len(t)
      BY <2>1, LenProperties
    <3>. QED  BY <3>1, ElementOfSeq
  <2>. QED  BY <2>1
<1>. QED  BY <1>3, <1>4, EmptySeq

LEMMA FlattenIsSequence ==
    ASSUME NEW n \in Nat, NEW ss, ss = [i \in 1..n |-> ss[i]], \A i \in 1..n : IsSequence(ss[i])
    PROVE  /\ IsSequence(FlattenSeq(ss))
           /\ \A x \in Range(FlattenSeq(ss)) : \E i \in 1..n : x \in Range(ss[i])
<1>. DEFINE S == UNION {Range(ss[i]) : i \in 1..n}
<1>1. ASSUME NEW i \in 1..n PROVE ss[i] \in Seq(S)
  <2>1. PICK s : s = ss[i]
    OBVIOUS
  <2>2. s \in Seq(Range(s)) /\ Range(s) \subseteq S
    BY <2>1 DEF IsSequence
  <2>. HIDE DEF S
  <2>. QED  BY <2>1, <2>2, SeqMonotonic
<1>. HIDE DEF S
<1>2. ss \in Seq(Seq(S)) /\ Len(ss) = n
  BY <1>1
<1>3. FlattenSeq(ss) \in Seq(S)
  <2>1. <<>> \in Seq(S)
    OBVIOUS
  <2>. QED  BY <1>2, <2>1, FlattenAppend
<1>4. IsSequence(FlattenSeq(ss)) /\ Range(FlattenSeq(ss)) \subseteq S
  BY <1>3, SequenceOver
<1>5. \A x \in S : \E i \in 1..n : x \in Range(ss[i])
  BY DEF S
<1>. QED  BY <1>4, <1>5

-----------------------------------------------------------------------------
(***************************************************************************)
(* Whose words the records of one entry have.                              *)
(***************************************************************************)

LEMMA ByUserIs ==
    ASSUME NEW words, IsSequence(words)
    PROVE  /\ (\A w \in Range(words) : w.by = "user") => ByUser(words) = words
           /\ (\A w \in Range(words) : w.by # "user") => ByUser(words) = <<>>
<1>. DEFINE set == {w \in Range(words) : w.by = "user"}
<1>1. words \in Seq(Range(words))
  BY DEF IsSequence
<1>2. ByUser(words) = OnlyIn(words, set)
  BY DEF ByUser
<1>3. (\A w \in Range(words) : w.by = "user") => Range(words) \subseteq set
  OBVIOUS
<1>4. (\A w \in Range(words) : w.by # "user") => set = {}
  OBVIOUS
<1>. HIDE DEF set
<1>5. PICK kept \in Seq(Range(words)) : /\ kept = OnlyIn(words, set)
                                        /\ Range(kept) = Range(words) \cap set
                                        /\ Range(words) \subseteq set => kept = words
  BY <1>1, OnlyInKeeps
<1>6. Range(kept) = {} => kept = <<>>
  <2>. SUFFICES ASSUME Range(kept) = {}, kept # <<>> PROVE FALSE
    OBVIOUS
  <2>1. Len(kept) # 0 /\ Len(kept) \in Nat
    BY EmptySeq, LenProperties
  <2>2. 1 \in 1..Len(kept)
    BY <2>1
  <2>3. kept[1] \in Range(kept)
    <3>1. DOMAIN kept = 1..Len(kept)
      BY LenProperties
    <3>. QED  BY <2>2, <3>1 DEF Range
  <2>. QED  BY <2>3
<1>. QED  BY <1>2, <1>3, <1>4, <1>5, <1>6

\* What a prompt says: a string, or the texts among its blocks.
Spoken(content) ==
    IF content.k = "string" THEN content.says
    ELSE IF content.k = "blocks" THEN textBlockParts(content.blocks) ELSE <<>>

LEMMA TextsOfBlocks ==
    ASSUME NEW content, EntryMarked(content), content.k = "blocks"
    PROVE  /\ IsSequence(textBlockParts(content.blocks))
           /\ \A w \in Range(textBlockParts(content.blocks)) :
                \E b \in Range(content.blocks) : b.k = "text" /\ w \in Range(b.says)
<1>. DEFINE blocks == content.blocks
            ss == [i \in DOMAIN blocks |-> IF blocks[i].k = "text" THEN blocks[i].says ELSE <<>>]
<1>1. PICK n \in Nat : DOMAIN blocks = 1..n
  <2>1. blocks \in Seq(Range(blocks))
    BY DEF EntryMarked, IsSequence
  <2>. HIDE DEF blocks
  <2>. QED  BY <2>1, LenProperties
<1>2. \A i \in 1..n : blocks[i] \in Range(blocks)
  BY <1>1 DEF Range
<1>3. \A i \in 1..n : IsSequence(blocks[i].says)
  BY <1>2 DEF EntryMarked
<1>4. \A i \in 1..n : /\ IsSequence(ss[i])
                      /\ \A w \in Range(ss[i]) : blocks[i].k = "text" /\ w \in Range(blocks[i].says)
  BY <1>1, <1>3, ShortSequences DEF Range
<1>5. ss = [i \in 1..n |-> ss[i]]
  BY <1>1
<1>. HIDE DEF ss
<1>6. /\ IsSequence(FlattenSeq(ss))
      /\ \A x \in Range(FlattenSeq(ss)) : \E i \in 1..n : x \in Range(ss[i])
  BY <1>4, <1>5, FlattenIsSequence
<1>7. textBlockParts(blocks) = FlattenSeq(ss)
  BY DEF textBlockParts, ss
<1>. HIDE DEF blocks
<1>8. ASSUME NEW w \in Range(textBlockParts(blocks))
      PROVE  \E b \in Range(blocks) : b.k = "text" /\ w \in Range(b.says)
  <2>1. PICK i \in 1..n : w \in Range(ss[i])
    BY <1>6, <1>7
  <2>. QED  BY <1>2, <1>4, <2>1
<1>. QED  BY <1>6, <1>7, <1>8 DEF blocks

UserRecord(says, tag) == [kind |-> "user", user |-> says, subagent |-> tag]

\* A turn of the user is one record of what it says, or none of nothing.
LEMMA TurnIs ==
    ASSUME NEW content, NEW tag, EntryMarked(content)
    PROVE  /\ IsSequence(Spoken(content))
           /\ \/ UserTurn(content, tag) = <<>> /\ Spoken(content) = <<>>
              \/ UserTurn(content, tag) = <<UserRecord(Spoken(content), tag)>>
<1>1. PICK said : said = decodeUserPromptText(content)
  OBVIOUS
<1>2. UserTurn(content, tag) = IF said = <<>> THEN <<>> ELSE <<UserRecord(said[1], tag)>>
  BY <1>1 DEF UserTurn, UserRecord
<1>3. CASE content.k = "string"
  <2>1. said = <<content.says>> /\ Spoken(content) = content.says
    BY <1>1, <1>3 DEF decodeUserPromptText, Spoken
  <2>2. IsSequence(content.says)
    BY <1>3 DEF EntryMarked
  <2>3. said # <<>> /\ said[1] = content.says
    BY <2>1
  <2>. QED  BY <1>2, <2>1, <2>2, <2>3
<1>4. CASE content.k = "blocks"
  <2>1. PICK parts : parts = textBlockParts(content.blocks)
    OBVIOUS
  <2>2. said = (IF parts # <<>> THEN <<parts>> ELSE <<>>) /\ Spoken(content) = parts
    BY <1>1, <1>4, <2>1 DEF decodeUserPromptText, Spoken
  <2>3. IsSequence(parts)
    BY <1>4, <2>1, TextsOfBlocks
  <2>4. CASE parts # <<>>
    <3>1. said = <<parts>>
      BY <2>2, <2>4
    <3>2. said # <<>> /\ said[1] = parts
      BY <3>1
    <3>. QED  BY <1>2, <2>2, <2>3, <3>2
  <2>5. CASE parts = <<>>
    BY <1>2, <2>2, <2>3, <2>5
  <2>. QED  BY <2>4, <2>5
<1>5. CASE content.k # "string" /\ content.k # "blocks"
  <2>1. said = <<>> /\ Spoken(content) = <<>>
    BY <1>1, <1>5 DEF decodeUserPromptText, Spoken
  <2>. QED  BY <1>2, <2>1, ShortSequences
<1>. QED  BY <1>3, <1>4, <1>5

\* What the user says in an entry is what it says, if the user speaks there.
LEMMA SpokenIsTheUsers ==
    ASSUME NEW e, EntryMarked(e.content), UsersMarked(e)
    PROVE  /\ UserSpeaks(e) => /\ UserWordsIn(e.content) = Spoken(e.content)
                               /\ \A w \in Range(Spoken(e.content)) : w.by = "user"
           /\ ~UserSpeaks(e) => UserWordsIn(e.content) = <<>>
<1>. DEFINE content == e.content
            blocks == content.blocks
<1>1. CASE content.k = "string"
  <2>1. UserWordsIn(content) = ByUser(content.says) /\ Spoken(content) = content.says
    BY <1>1 DEF UserWordsIn, Spoken
  <2>2. IsSequence(content.says) /\ \A w \in Range(content.says) : (w.by = "user") <=> UserSpeaks(e)
    BY <1>1 DEF EntryMarked, UsersMarked
  <2>. QED  BY <2>1, <2>2, ByUserIs
<1>2. CASE content.k = "blocks"
  <2>. DEFINE us == [i \in DOMAIN blocks |-> ByUser(blocks[i].says)]
              ss == [i \in DOMAIN blocks |-> IF blocks[i].k = "text" THEN blocks[i].says ELSE <<>>]
  <2>1. PICK n \in Nat : DOMAIN blocks = 1..n
    <3>1. blocks \in Seq(Range(blocks))
      BY <1>2 DEF EntryMarked, IsSequence
    <3>. HIDE DEF blocks
    <3>. QED  BY <3>1, LenProperties
  <2>2. \A i \in 1..n : blocks[i] \in Range(blocks)
    BY <2>1 DEF Range
  <2>3. \A i \in 1..n : /\ IsSequence(blocks[i].says)
                        /\ \A w \in Range(blocks[i].says) :
                            (w.by = "user") <=> UserSpeaks(e) /\ blocks[i].k = "text"
    BY <1>2, <2>2 DEF EntryMarked, UsersMarked
  <2>4. ASSUME NEW i \in 1..n
        PROVE  ByUser(blocks[i].says) = IF UserSpeaks(e) /\ blocks[i].k = "text" THEN blocks[i].says ELSE <<>>
    BY <2>3, ByUserIs
  <2>5. UserWordsIn(content) = FlattenSeq(us) /\ Spoken(content) = FlattenSeq(ss)
    BY <1>2 DEF UserWordsIn, Spoken, textBlockParts
  <2>6. CASE UserSpeaks(e)
    <3>1. us = ss
      BY <2>1, <2>4, <2>6
    <3>2. ASSUME NEW w \in Range(Spoken(content)) PROVE w.by = "user"
      <4>1. PICK b \in Range(blocks) : b.k = "text" /\ w \in Range(b.says)
        BY <1>2, TextsOfBlocks DEF Spoken
      <4>. QED  BY <1>2, <2>6, <4>1 DEF UsersMarked
    <3>. QED  BY <2>5, <2>6, <3>1, <3>2
  <2>7. CASE ~UserSpeaks(e)
    <3>1. us = [i \in 1..n |-> <<>>]
      BY <2>1, <2>4, <2>7
    <3>. HIDE DEF us
    <3>2. FlattenSeq(us) = <<>>
      BY <3>1, FlattenNothing
    <3>. QED  BY <2>5, <2>7, <3>2
  <2>. QED  BY <2>6, <2>7
<1>3. CASE content.k # "string" /\ content.k # "blocks"
  <2>1. UserWordsIn(content) = <<>> /\ Spoken(content) = <<>>
    BY <1>3 DEF UserWordsIn, Spoken
  <2>. QED  BY <2>1 DEF Range
<1>. QED  BY <1>1, <1>2, <1>3

LEMMA CallRecordIs ==
    ASSUME NEW name, NEW in, NEW tag, InputMarked(name, in), NEW r, r = CallRecord(name, in, tag)
    PROVE  r.kind = "call" /\ r.subagent = tag /\ HeardOf(r) = <<>> /\ SpeakersOf(r) \subseteq {"call"}
<1>1. r.kind = "call" /\ r.subagent = tag /\ r.input = Sanitize(name, in)
  BY DEF CallRecord
<1>2. HeardOf(r) = <<>>
  BY <1>1 DEF HeardOf
<1>3. SpeakersOf(r) = UNION {SpeakersIn(val) : val \in Range(Sanitize(name, in))}
  BY <1>1 DEF SpeakersOf
<1>4. SpeakersOf(r) \subseteq {"call"}
  <2>1. \A val \in Range(Sanitize(name, in)) : SpeakersIn(val) \subseteq {"call"}
    BY ShownInputIsTheCall
  <2>. QED  BY <1>3, <2>1
<1>. QED  BY <1>1, <1>2, <1>4

\* A record of a session read with a tag.
Tagged(r, tag) ==
    /\ r.subagent = tag /\ IsSequence(HeardOf(r))
    /\ r.kind = "user" \/ (HeardOf(r) = <<>> /\ SpeakersOf(r) \subseteq {"call"})

LEMMA AssistantRecords ==
    ASSUME NEW e, NEW tag, EntryMarked(e.content)
    PROVE  /\ IsSequence(sanitizeAssistantEntry(e, tag))
           /\ \A r \in Range(sanitizeAssistantEntry(e, tag)) :
                /\ r.subagent = tag /\ r.kind = "call"
                /\ HeardOf(r) = <<>> /\ SpeakersOf(r) \subseteq {"call"}
<1>. DEFINE blocks == IF e.content.k = "blocks" THEN e.content.blocks ELSE <<>>
            Turn(i) == IF blocks[i].k = "tool_use" THEN <<CallRecord(blocks[i].name, blocks[i].in, tag)>> ELSE <<>>
            ss == [i \in DOMAIN blocks |-> Turn(i)]
<1>1. PICK n \in Nat : DOMAIN blocks = 1..n
  <2>1. CASE e.content.k = "blocks"
    <3>1. blocks \in Seq(Range(blocks))
      BY <2>1 DEF EntryMarked, IsSequence
    <3>. HIDE DEF blocks
    <3>. QED  BY <3>1, LenProperties
  <2>2. CASE e.content.k # "blocks"
    BY <2>2
  <2>. QED  BY <2>1, <2>2
<1>2. ASSUME NEW i \in 1..n, blocks[i].k = "tool_use" PROVE InputMarked(blocks[i].name, blocks[i].in)
  <2>1. CASE e.content.k = "blocks"
    <3>1. blocks[i] \in Range(e.content.blocks)
      BY <1>1, <2>1 DEF Range
    <3>. QED  BY <1>2, <2>1, <3>1 DEF EntryMarked
  <2>2. CASE e.content.k # "blocks"
    BY <1>1, <2>2
  <2>. QED  BY <2>1, <2>2
<1>. HIDE DEF blocks
<1>3. ASSUME NEW i \in 1..n
      PROVE  /\ IsSequence(Turn(i))
             /\ \A r \in Range(Turn(i)) :
                  /\ r.subagent = tag /\ r.kind = "call"
                  /\ HeardOf(r) = <<>> /\ SpeakersOf(r) \subseteq {"call"}
  <2>1. CASE blocks[i].k = "tool_use"
    <3>1. PICK r : r = CallRecord(blocks[i].name, blocks[i].in, tag)
      OBVIOUS
    <3>2. /\ r.subagent = tag /\ r.kind = "call"
          /\ HeardOf(r) = <<>> /\ SpeakersOf(r) \subseteq {"call"}
      BY <1>2, <2>1, <3>1, CallRecordIs
    <3>3. Turn(i) = <<r>>
      BY <2>1, <3>1
    <3>. HIDE DEF Turn
    <3>. QED  BY <3>2, <3>3, ShortSequences
  <2>2. CASE blocks[i].k # "tool_use"
    BY <2>2, ShortSequences DEF Range
  <2>. QED  BY <2>1, <2>2
<1>4. ss = [i \in 1..n |-> ss[i]] /\ \A i \in 1..n : ss[i] = Turn(i)
  BY <1>1
<1>5. sanitizeAssistantEntry(e, tag) = FlattenSeq(ss)
  BY DEF sanitizeAssistantEntry, blocks
<1>. HIDE DEF ss, Turn
<1>6. /\ IsSequence(FlattenSeq(ss))
      /\ \A x \in Range(FlattenSeq(ss)) : \E i \in 1..n : x \in Range(ss[i])
  BY <1>3, <1>4, FlattenIsSequence
<1>. QED  BY <1>3, <1>4, <1>5, <1>6

LEMMA EntryIs ==
    ASSUME NEW e, NEW tag
    PROVE  \/ UserSpeaks(e) /\ sanitizeEntry(e, tag) = UserTurn(e.content, tag)
           \/ ~UserSpeaks(e) /\ sanitizeEntry(e, tag) = sanitizeAssistantEntry(e, tag)
           \/ ~UserSpeaks(e) /\ sanitizeEntry(e, tag) = <<>>
<1>1. CASE e.type = "user"
  BY <1>1 DEF UserSpeaks, sanitizeEntry, sanitizeUserEntry
<1>2. CASE e.type = "assistant"
  BY <1>2 DEF UserSpeaks, sanitizeEntry
<1>3. CASE e.type = "attachment"
  BY <1>3 DEF UserSpeaks, sanitizeEntry, sanitizeAttachmentEntry
<1>4. CASE e.type \notin {"user", "assistant", "attachment"}
  BY <1>4 DEF UserSpeaks, sanitizeEntry
<1>. QED  BY <1>1, <1>2, <1>3, <1>4

\* The records of an entry carry its tag, and show the words of the call or
\* what is said in the user's name.
LEMMA EntryRecords ==
    ASSUME NEW e, NEW tag, EntryMarked(e.content)
    PROVE  IsSequence(sanitizeEntry(e, tag)) /\ \A r \in Range(sanitizeEntry(e, tag)) : Tagged(r, tag)
<1>1. CASE sanitizeEntry(e, tag) = UserTurn(e.content, tag)
  <2>1. CASE UserTurn(e.content, tag) = <<>>
    BY <1>1, <2>1, ShortSequences DEF Range
  <2>2. CASE UserTurn(e.content, tag) # <<>>
    <3>1. PICK r : r = UserRecord(Spoken(e.content), tag)
      OBVIOUS
    <3>2. IsSequence(Spoken(e.content)) /\ sanitizeEntry(e, tag) = <<r>>
      BY <1>1, <2>2, <3>1, TurnIs
    <3>3. r.kind = "user" /\ r.subagent = tag /\ r.user = Spoken(e.content)
      BY <3>1 DEF UserRecord
    <3>4. IsSequence(HeardOf(r))
      BY <3>2, <3>3, ShortSequences DEF HeardOf
    <3>. QED  BY <3>2, <3>3, <3>4, ShortSequences DEF Tagged
  <2>. QED  BY <2>1, <2>2
<1>2. CASE sanitizeEntry(e, tag) = sanitizeAssistantEntry(e, tag)
  BY <1>2, AssistantRecords, ShortSequences DEF Tagged
<1>3. CASE sanitizeEntry(e, tag) = <<>>
  BY <1>3, ShortSequences DEF Range
<1>. QED  BY <1>1, <1>2, <1>3, EntryIs

LEMMA HeardNothing ==
    ASSUME NEW body, IsSequence(body), \A r \in Range(body) : HeardOf(r) = <<>>
    PROVE  Heard(body) = <<>>
<1>. DEFINE hs == [i \in DOMAIN body |-> HeardOf(body[i])]
<1>1. PICK n \in Nat : DOMAIN body = 1..n
  BY LenProperties DEF IsSequence
<1>2. \A i \in 1..n : body[i] \in Range(body)
  BY <1>1 DEF Range
<1>3. hs = [i \in 1..n |-> <<>>]
  BY <1>1, <1>2
<1>4. Heard(body) = FlattenSeq(hs)
  BY DEF Heard
<1>. HIDE DEF hs
<1>. QED  BY <1>3, <1>4, FlattenNothing

\* Of the session the hook is told about, the user's words are heard as such,
\* and no others but those of calls are shown.
LEMMA MainEntry ==
    ASSUME NEW e, EntryMarked(e.content), UsersMarked(e)
    PROVE  /\ Heard(sanitizeEntry(e, "")) = UserWordsIn(e.content)
           /\ \A r \in Range(sanitizeEntry(e, "")) : SpeakersOf(r) \subseteq {"user", "call"}
<1>0. Heard(<<>>) = <<>> /\ Range(<<>>) = {}
  BY FlattenEmpty DEF Heard, Range
<1>1. CASE UserSpeaks(e) /\ sanitizeEntry(e, "") = UserTurn(e.content, "")
  <2>1. UserWordsIn(e.content) = Spoken(e.content) /\ \A w \in Range(Spoken(e.content)) : w.by = "user"
    BY <1>1, SpokenIsTheUsers
  <2>2. CASE UserTurn(e.content, "") = <<>> /\ Spoken(e.content) = <<>>
    BY <1>0, <1>1, <2>1, <2>2
  <2>3. CASE UserTurn(e.content, "") = <<UserRecord(Spoken(e.content), "")>>
    <3>1. PICK r, said : said = Spoken(e.content) /\ r = UserRecord(said, "")
      OBVIOUS
    <3>2. r.kind = "user" /\ r.subagent = "" /\ r.user = said
      BY <3>1 DEF UserRecord
    <3>3. HeardOf(r) = said /\ SpeakersOf(r) \subseteq {"user"}
      BY <2>1, <3>1, <3>2 DEF HeardOf, SpeakersOf
    <3>4. Heard(<<r>>) = said
      <4>1. Heard(<<r>>) = FlattenSeq(<<said>>)
        <5>1. [i \in DOMAIN <<r>> |-> HeardOf(<<r>>[i])] = <<HeardOf(r)>>
          OBVIOUS
        <5>. QED  BY <3>3, <5>1 DEF Heard
      <4>2. said \in Seq(Range(said))
        BY <3>1, TurnIs DEF IsSequence
      <4>. QED  BY <4>1, <4>2, FlattenOne
    <3>5. sanitizeEntry(e, "") = <<r>>
      BY <1>1, <2>3, <3>1
    <3>. QED  BY <2>1, <3>1, <3>3, <3>4, <3>5, ShortSequences
  <2>. QED  BY <2>2, <2>3, TurnIs
<1>2. CASE ~UserSpeaks(e) /\ sanitizeEntry(e, "") = sanitizeAssistantEntry(e, "")
  <2>1. PICK body : body = sanitizeAssistantEntry(e, "")
    OBVIOUS
  <2>2. IsSequence(body) /\ \A r \in Range(body) : HeardOf(r) = <<>> /\ SpeakersOf(r) \subseteq {"call"}
    BY <2>1, AssistantRecords
  <2>3. Heard(body) = <<>>
    BY <2>2, HeardNothing
  <2>. QED  BY <1>2, <2>1, <2>2, <2>3, SpokenIsTheUsers
<1>3. CASE ~UserSpeaks(e) /\ sanitizeEntry(e, "") = <<>>
  BY <1>0, <1>3, SpokenIsTheUsers
<1>. QED  BY <1>1, <1>2, <1>3, EntryIs

-----------------------------------------------------------------------------
(***************************************************************************)
(* Whose words the records of a session file have.                         *)
(***************************************************************************)

LEMMA HeardIsGiven ==
    ASSUME NEW S, NEW h, h = [r \in S |-> HeardOf(r)], NEW body \in Seq(S)
    PROVE  Heard(body) = GivenAll(h, body)
<1>1. \A i \in DOMAIN body : body[i] \in S
  BY LenProperties, ElementOfSeq
<1>2. [i \in DOMAIN body |-> HeardOf(body[i])] = Given(h, body)
  BY <1>1 DEF Given
<1>. QED  BY <1>2 DEF Heard, GivenAll

\* Sequences whose elements say sequences of words.
LEMMA HeardConcat ==
    ASSUME NEW S, NEW a \in Seq(S), NEW b \in Seq(S), \A r \in S : IsSequence(HeardOf(r))
    PROVE  /\ IsSequence(Heard(a)) /\ IsSequence(Heard(b))
           /\ Heard(a \o b) = Heard(a) \o Heard(b)
<1>. DEFINE h == [r \in S |-> HeardOf(r)]
            W == UNION {Range(HeardOf(r)) : r \in S}
<1>1. \A r \in S : HeardOf(r) \in Seq(W)
  <2>. SUFFICES ASSUME NEW r \in S PROVE HeardOf(r) \in Seq(W)
    OBVIOUS
  <2>1. PICK s : s = HeardOf(r)
    OBVIOUS
  <2>2. s \in Seq(Range(s)) /\ Range(s) \subseteq W
    BY <2>1 DEF IsSequence
  <2>. HIDE DEF W
  <2>. QED  BY <2>1, <2>2, SeqMonotonic
<1>. HIDE DEF W
<1>2. Maps(h, S, Seq(W))
  BY <1>1 DEF Maps
<1>3. h = [r \in S |-> HeardOf(r)]
  OBVIOUS
<1>. HIDE DEF h
<1>4. a \o b \in Seq(S)
  BY ConcatProperties
<1>5. Heard(a) = GivenAll(h, a) /\ Heard(b) = GivenAll(h, b) /\ Heard(a \o b) = GivenAll(h, a \o b)
  BY <1>3, <1>4, HeardIsGiven
<1>6. GivenAll(h, a) \in Seq(W) /\ GivenAll(h, a \o b) = GivenAll(h, a) \o GivenAll(h, b)
  BY <1>2, GivenAllConcat
<1>7. GivenAll(h, b) \in Seq(W)
  BY <1>2, GivenAllConcat
<1>. QED  BY <1>5, <1>6, <1>7, SequenceOver

\* From what is put together, what is heard of its parts is heard.
LEMMA HeardFlatten ==
    ASSUME NEW S, NEW ss \in Seq(Seq(S)), \A r \in S : IsSequence(HeardOf(r))
    PROVE  Heard(FlattenSeq(ss)) = FlattenSeq([i \in DOMAIN ss |-> Heard(ss[i])])
<1>. DEFINE h == [r \in S |-> HeardOf(r)]
            W == UNION {Range(HeardOf(r)) : r \in S}
<1>1. \A r \in S : HeardOf(r) \in Seq(W)
  <2>. SUFFICES ASSUME NEW r \in S PROVE HeardOf(r) \in Seq(W)
    OBVIOUS
  <2>1. PICK s : s = HeardOf(r)
    OBVIOUS
  <2>2. s \in Seq(Range(s)) /\ Range(s) \subseteq W
    BY <2>1 DEF IsSequence
  <2>. HIDE DEF W
  <2>. QED  BY <2>1, <2>2, SeqMonotonic
<1>. HIDE DEF W
<1>2. Maps(h, S, Seq(W))
  BY <1>1 DEF Maps
<1>3. h = [r \in S |-> HeardOf(r)]
  OBVIOUS
<1>. HIDE DEF h
<1>4. FlattenSeq(ss) \in Seq(S)
  <2>1. <<>> \in Seq(S)
    OBVIOUS
  <2>. QED  BY <2>1, FlattenAppend
<1>5. \A i \in DOMAIN ss : ss[i] \in Seq(S)
  BY LenProperties, ElementOfSeq
<1>6. [i \in DOMAIN ss |-> Heard(ss[i])] = [i \in DOMAIN ss |-> GivenAll(h, ss[i])]
  <2>1. \A i \in DOMAIN ss : Heard(ss[i]) = GivenAll(h, ss[i])
    BY <1>3, <1>5, HeardIsGiven
  <2>. QED  BY <2>1
<1>7. Heard(FlattenSeq(ss)) = GivenAll(h, FlattenSeq(ss))
  BY <1>3, <1>4, HeardIsGiven
<1>8. GivenAll(h, FlattenSeq(ss)) = FlattenSeq([i \in DOMAIN ss |-> GivenAll(h, ss[i])])
  BY <1>2, GivenAllFlatten
<1>. QED  BY <1>6, <1>7, <1>8

LEMMA LineRecords ==
    ASSUME NEW lines, NEW tag, IsSequence(lines), \A line \in Range(lines) : EntryMarked(line.entry.content)
    PROVE  IsSequence(Records(lines, tag)) /\ \A r \in Range(Records(lines, tag)) : Tagged(r, tag)
<1>. DEFINE ss == [i \in DOMAIN lines |-> RecordsOf(lines[i], tag)]
<1>1. PICK n \in Nat : DOMAIN lines = 1..n
  BY LenProperties DEF IsSequence
<1>2. ASSUME NEW i \in 1..n
      PROVE  /\ IsSequence(RecordsOf(lines[i], tag))
             /\ \A r \in Range(RecordsOf(lines[i], tag)) : Tagged(r, tag)
  <2>1. EntryMarked(lines[i].entry.content)
    BY <1>1 DEF Range
  <2>2. CASE lines[i].state = "whole"
    BY <2>1, <2>2, EntryRecords DEF RecordsOf
  <2>3. CASE lines[i].state # "whole"
    <3>1. RecordsOf(lines[i], tag) = <<>>
      BY <2>3 DEF RecordsOf
    <3>. QED  BY <3>1, ShortSequences DEF Range
  <2>. QED  BY <2>2, <2>3
<1>3. ss = [i \in 1..n |-> ss[i]] /\ \A i \in 1..n : ss[i] = RecordsOf(lines[i], tag)
  BY <1>1
<1>4. Records(lines, tag) = FlattenSeq(ss)
  BY DEF Records
<1>. HIDE DEF ss
<1>5. /\ IsSequence(FlattenSeq(ss))
      /\ \A x \in Range(FlattenSeq(ss)) : \E i \in 1..n : x \in Range(ss[i])
  BY <1>2, <1>3, FlattenIsSequence
<1>. QED  BY <1>2, <1>3, <1>4, <1>5

\* A line of the session the hook is told about that does not end the reading.
MainLine(line) ==
    /\ EntryMarked(line.entry.content) /\ UsersMarked(line.entry)
    /\ line.state = "whole" \/ line.entry.content.k = "other"

LEMMA MainLineIs ==
    ASSUME NEW line, MainLine(line)
    PROVE  /\ IsSequence(RecordsOf(line, "")) /\ Heard(RecordsOf(line, "")) = UserWordsIn(line.entry.content)
           /\ \A r \in Range(RecordsOf(line, "")) : Tagged(r, "") /\ SpeakersOf(r) \subseteq {"user", "call"}
<1>1. CASE line.state = "whole"
  <2>1. RecordsOf(line, "") = sanitizeEntry(line.entry, "")
    BY <1>1 DEF RecordsOf
  <2>. QED  BY <2>1, MainEntry, EntryRecords DEF MainLine
<1>2. CASE line.state # "whole"
  <2>1. RecordsOf(line, "") = <<>>
    BY <1>2 DEF RecordsOf
  <2>2. UserWordsIn(line.entry.content) = <<>>
    BY <1>2 DEF MainLine, UserWordsIn
  <2>3. Heard(<<>>) = <<>> /\ Range(<<>>) = {}
    BY FlattenEmpty DEF Heard, Range
  <2>. QED  BY <2>1, <2>2, <2>3, ShortSequences
<1>. QED  BY <1>1, <1>2

LEMMA MainLinesHeard ==
    ASSUME NEW lines, IsSequence(lines), \A line \in Range(lines) : MainLine(line)
    PROVE  /\ Heard(Records(lines, "")) = UserWords(lines)
           /\ \A r \in Range(Records(lines, "")) : SpeakersOf(r) \subseteq {"user", "call"}
<1>. DEFINE ss == [i \in DOMAIN lines |-> RecordsOf(lines[i], "")]
            S == UNION {Range(ss[i]) : i \in DOMAIN lines}
<1>1. PICK n \in Nat : DOMAIN lines = 1..n
  BY LenProperties DEF IsSequence
<1>2. \A i \in 1..n : MainLine(lines[i])
  BY <1>1 DEF Range
<1>3. ASSUME NEW i \in 1..n
      PROVE  /\ ss[i] \in Seq(S) /\ Heard(ss[i]) = UserWordsIn(lines[i].entry.content)
             /\ \A r \in Range(ss[i]) : Tagged(r, "") /\ SpeakersOf(r) \subseteq {"user", "call"}
  <2>1. PICK s : s = ss[i]
    OBVIOUS
  <2>2. s = RecordsOf(lines[i], "") /\ Range(s) \subseteq S
    BY <1>1, <2>1
  <2>3. /\ IsSequence(s) /\ Heard(s) = UserWordsIn(lines[i].entry.content)
        /\ \A r \in Range(s) : Tagged(r, "") /\ SpeakersOf(r) \subseteq {"user", "call"}
    BY <1>2, <2>2, MainLineIs
  <2>. HIDE DEF S, ss
  <2>4. s \in Seq(S)
    BY <2>2, <2>3, SeqMonotonic DEF IsSequence
  <2>. QED  BY <2>1, <2>3, <2>4
<1>4. ss = [i \in 1..n |-> ss[i]] /\ DOMAIN ss = 1..n
  BY <1>1
<1>5. Records(lines, "") = FlattenSeq(ss)
  BY DEF Records
<1>6. \A r \in S : IsSequence(HeardOf(r)) /\ SpeakersOf(r) \subseteq {"user", "call"}
  <2>1. \A r \in S : \E i \in 1..n : r \in Range(ss[i])
    BY <1>1
  <2>. HIDE DEF S, ss
  <2>. QED  BY <1>3, <2>1 DEF Tagged
<1>. HIDE DEF S, ss
<1>7. ss \in Seq(Seq(S))
  <2>1. PICK Q : Q = Seq(S)
    OBVIOUS
  <2>2. \A i \in 1..n : ss[i] \in Q
    BY <1>3, <2>1
  <2>3. ss \in Seq(Q)
    BY <1>4, <2>2
  <2>. QED  BY <2>1, <2>3
<1>8. Heard(FlattenSeq(ss)) = FlattenSeq([i \in DOMAIN ss |-> Heard(ss[i])])
  BY <1>6, <1>7, HeardFlatten
<1>9. [i \in DOMAIN ss |-> Heard(ss[i])] = [i \in DOMAIN lines |-> UserWordsIn(lines[i].entry.content)]
  BY <1>1, <1>3, <1>4
<1>10. FlattenSeq(ss) \in Seq(S)
  <2>1. <<>> \in Seq(S)
    OBVIOUS
  <2>. QED  BY <1>7, <2>1, FlattenAppend
<1>11. Range(FlattenSeq(ss)) \subseteq S
  BY <1>10, SequenceOver
<1>. QED  BY <1>5, <1>6, <1>8, <1>9, <1>11 DEF UserWords

\* A line that is being written adds nothing.
LEMMA TornAddsNothing ==
    ASSUME NEW lines, NEW tag, IsSequence(lines), \A line \in Range(lines) : EntryMarked(line.entry.content),
           NEW line, line.state = "torn"
    PROVE  Records(lines \o <<line>>, tag) = Records(lines, tag)
<1>. DEFINE X == Range(lines) \cup {line}
            h == [l \in X |-> RecordsOf(l, tag)]
            W == UNION {Range(RecordsOf(l, tag)) : l \in X}
<1>0. RecordsOf(line, tag) = <<>>
  BY DEF RecordsOf
<1>1. \A l \in X : IsSequence(RecordsOf(l, tag))
  <2>1. \A l : EntryMarked(l.entry.content) => IsSequence(RecordsOf(l, tag))
    BY EntryRecords, ShortSequences DEF RecordsOf
  <2>. QED  BY <1>0, <2>1, ShortSequences
<1>2. \A l \in X : RecordsOf(l, tag) \in Seq(W)
  <2>. SUFFICES ASSUME NEW l \in X PROVE RecordsOf(l, tag) \in Seq(W)
    OBVIOUS
  <2>1. PICK s : s = RecordsOf(l, tag)
    OBVIOUS
  <2>2. s \in Seq(Range(s)) /\ Range(s) \subseteq W
    BY <1>1, <2>1 DEF IsSequence
  <2>. HIDE DEF W
  <2>. QED  BY <2>1, <2>2, SeqMonotonic
<1>. HIDE DEF W
<1>3. Maps(h, X, Seq(W))
  BY <1>2 DEF Maps
<1>4. lines \in Seq(X)
  <2>1. lines \in Seq(Range(lines)) /\ Range(lines) \subseteq X
    BY DEF IsSequence
  <2>. HIDE DEF X
  <2>. QED  BY <2>1, SeqMonotonic
<1>5. line \in X /\ h[line] = <<>> /\ \A l \in X : h[l] = RecordsOf(l, tag)
  BY <1>0
<1>. HIDE DEF X, h
<1>6. ASSUME NEW ls \in Seq(X) PROVE Records(ls, tag) = GivenAll(h, ls)
  <2>1. \A i \in DOMAIN ls : ls[i] \in X
    BY LenProperties, ElementOfSeq
  <2>2. [i \in DOMAIN ls |-> RecordsOf(ls[i], tag)] = Given(h, ls)
    BY <1>5, <2>1 DEF Given
  <2>. QED  BY <2>2 DEF Records, GivenAll
<1>7. PICK one : one = <<line>>
  OBVIOUS
<1>8. one \in Seq(X) /\ lines \o one \in Seq(X)
  BY <1>4, <1>5, <1>7
<1>9. GivenAll(h, lines) \in Seq(W) /\ GivenAll(h, lines \o one) = GivenAll(h, lines) \o GivenAll(h, one)
  BY <1>3, <1>4, <1>8, GivenAllConcat
<1>10. GivenAll(h, one) = <<>>
  BY <1>3, <1>5, <1>7, GivenAllOne
<1>11. GivenAll(h, lines) \o <<>> = GivenAll(h, lines)
  BY <1>9
<1>12. Records(lines, tag) = GivenAll(h, lines) /\ Records(lines \o one, tag) = GivenAll(h, lines \o one)
  BY <1>4, <1>6, <1>8
<1>. QED  BY <1>7, <1>9, <1>10, <1>11, <1>12

LEMMA WordsAreSequence ==
    ASSUME NEW content, EntryMarked(content)
    PROVE  IsSequence(UserWordsIn(content))
<1>1. ASSUME NEW words, IsSequence(words) PROVE IsSequence(ByUser(words))
  <2>1. words \in Seq(Range(words))
    BY <1>1 DEF IsSequence
  <2>2. PICK set : set = {w \in Range(words) : w.by = "user"}
    OBVIOUS
  <2>3. OnlyIn(words, set) \in Seq(Range(words))
    BY <2>1, OnlyInKeeps
  <2>. QED  BY <2>2, <2>3, SequenceOver DEF ByUser
<1>2. CASE content.k = "string"
  BY <1>1, <1>2 DEF EntryMarked, UserWordsIn
<1>3. CASE content.k = "blocks"
  <2>. DEFINE blocks == content.blocks
              us == [i \in DOMAIN blocks |-> ByUser(blocks[i].says)]
  <2>1. PICK n \in Nat : DOMAIN blocks = 1..n
    <3>1. blocks \in Seq(Range(blocks))
      BY <1>3 DEF EntryMarked, IsSequence
    <3>. HIDE DEF blocks
    <3>. QED  BY <3>1, LenProperties
  <2>2. \A i \in 1..n : IsSequence(blocks[i].says)
    BY <1>3, <2>1 DEF EntryMarked, Range
  <2>3. us = [i \in 1..n |-> us[i]] /\ \A i \in 1..n : IsSequence(us[i])
    BY <1>1, <2>1, <2>2
  <2>4. UserWordsIn(content) = FlattenSeq(us)
    BY <1>3 DEF UserWordsIn
  <2>. HIDE DEF us
  <2>. QED  BY <2>3, <2>4, FlattenIsSequence
<1>4. CASE content.k # "string" /\ content.k # "blocks"
  BY <1>4, ShortSequences DEF UserWordsIn
<1>. QED  BY <1>2, <1>3, <1>4

LEMMA PrefixOfConcat ==
    ASSUME NEW S, NEW s \in Seq(S), NEW t \in Seq(S)
    PROVE  IsPrefix(s, s \o t)
<1>1. PICK u \in Seq(S) : u = s \o t
  BY ConcatProperties
<1>2. PICK m \in Nat, n \in Nat : m = Len(s) /\ n = Len(t)
  BY LenProperties
<1>3. Len(u) = m + n /\ \A i \in 1..m : u[i] = s[i]
  BY <1>1, <1>2, ConcatProperties
<1>4. \A i \in 1..m : s[i] \in S /\ u[i] \in S
  BY <1>2, <1>3, ElementOfSeq
<1>5. /\ SubSeq(u, 1, m) \in Seq(S) /\ Len(SubSeq(u, 1, m)) = m
      /\ \A i \in 1..m : SubSeq(u, 1, m)[i] = u[i]
  BY <1>4, SubSeqProperties
<1>6. SubSeq(u, 1, m) = s
  BY <1>2, <1>3, <1>5, SeqEqual
<1>7. SubSeq(s, 1, m) = s
  BY <1>2, SubSeqFull
<1>. QED  BY <1>1, <1>2, <1>3, <1>6, <1>7 DEF IsPrefix

\* What the user said first comes first.
LEMMA SaidFirst ==
    ASSUME NEW lines, IsSequence(lines), \A line \in Range(lines) : EntryMarked(line.entry.content),
           NEW m \in 0..Len(lines), NEW n \in m..Len(lines)
    PROVE  IsPrefix(UserWords(SubSeq(lines, 1, m)), UserWords(SubSeq(lines, 1, n)))
<1>. DEFINE X == Range(lines)
            h == [l \in X |-> UserWordsIn(l.entry.content)]
            W == UNION {Range(UserWordsIn(l.entry.content)) : l \in X}
<1>1. \A l \in X : UserWordsIn(l.entry.content) \in Seq(W)
  <2>. SUFFICES ASSUME NEW l \in X PROVE UserWordsIn(l.entry.content) \in Seq(W)
    OBVIOUS
  <2>1. PICK s : s = UserWordsIn(l.entry.content)
    OBVIOUS
  <2>2. s \in Seq(Range(s)) /\ Range(s) \subseteq W
    BY <2>1, WordsAreSequence DEF IsSequence
  <2>. HIDE DEF W
  <2>. QED  BY <2>1, <2>2, SeqMonotonic
<1>. HIDE DEF W
<1>2. Maps(h, X, Seq(W))
  BY <1>1 DEF Maps
<1>3. lines \in Seq(X)
  BY DEF IsSequence
<1>4. \A l \in X : h[l] = UserWordsIn(l.entry.content)
  OBVIOUS
<1>. HIDE DEF X, h
<1>5. ASSUME NEW ls \in Seq(X) PROVE UserWords(ls) = GivenAll(h, ls)
  <2>1. \A i \in DOMAIN ls : ls[i] \in X
    BY LenProperties, ElementOfSeq
  <2>2. [i \in DOMAIN ls |-> UserWordsIn(ls[i].entry.content)] = Given(h, ls)
    BY <1>4, <2>1 DEF Given
  <2>. QED  BY <2>2 DEF UserWords, GivenAll
<1>6. PICK a, b, c : a = SubSeq(lines, 1, m) /\ b = SubSeq(lines, m + 1, n) /\ c = SubSeq(lines, 1, n)
  OBVIOUS
<1>7. Len(lines) \in Nat /\ m \in Nat /\ n \in Nat
  BY <1>3, LenProperties
<1>8. a \in Seq(X) /\ b \in Seq(X) /\ c \in Seq(X)
  <2>1. \A i \in 1..Len(lines) : lines[i] \in X
    BY <1>3, ElementOfSeq
  <2>2. a \in Seq(X)
    BY <1>6, <1>7, <2>1, SubSeqProperties
  <2>3. b \in Seq(X)
    BY <1>6, <1>7, <2>1, SubSeqProperties
  <2>4. c \in Seq(X)
    BY <1>6, <1>7, <2>1, SubSeqProperties
  <2>. QED  BY <2>2, <2>3, <2>4
<1>9. c = a \o b
  <2>1. 1 \in 1 .. Len(lines)+1 /\ m \in 1-1 .. Len(lines)
    BY <1>7
  <2>. QED  BY <1>3, <1>6, <2>1, ConcatAdjacentSubSeq
<1>10. /\ GivenAll(h, a) \in Seq(W) /\ GivenAll(h, b) \in Seq(W)
       /\ GivenAll(h, c) = GivenAll(h, a) \o GivenAll(h, b)
  BY <1>2, <1>8, <1>9, GivenAllConcat
<1>11. IsPrefix(GivenAll(h, a), GivenAll(h, c))
  BY <1>10, PrefixOfConcat
<1>. QED  BY <1>5, <1>6, <1>8, <1>11

-----------------------------------------------------------------------------
(***************************************************************************)
(* The settings files.                                                     *)
(***************************************************************************)

LEMMA BothAreSequences ==
    ASSUME NEW a, a \in Seq(Range(a)), NEW b, b \in Seq(Range(b))
    PROVE  a \o b \in Seq(Range(a \o b))
<1>. DEFINE S == Range(a) \cup Range(b)
<1>1. a \in Seq(S) /\ b \in Seq(S)
  BY SeqMonotonic
<1>. HIDE DEF S
<1>2. Range(a \o b) = S
  BY <1>1, RangeConcatenation DEF S
<1>3. a \o b \in Seq(S)
  BY <1>1
<1>. QED  BY <1>2, <1>3

LEMMA CandidatesAreSequence ==
    ASSUME NEW p
    PROVE  Candidates(p) \in Seq(Range(Candidates(p)))
<1>. DEFINE u == UserSettingsFile(p)
            r == ProjectSettingsFiles(SettingsRoot(p))
<1>1. \A x : <<x>> \in Seq(Range(<<x>>))
  BY DEF Range
<1>2. \A x, y : <<x, y>> \in Seq(Range(<<x, y>>))
  BY DEF Range
<1>3. <<>> \in Seq(Range(<<>>))
  OBVIOUS
<1>4. u \in Seq(Range(u))
  BY <1>1, <1>3 DEF UserSettingsFile
<1>5. r \in Seq(Range(r))
  BY <1>2, <1>3 DEF ProjectSettingsFiles
<1>. HIDE DEF u, r
<1>6. ManagedSettings \o u \in Seq(Range(ManagedSettings \o u))
  BY <1>4, ManagedAssumption, BothAreSequences
<1>7. (ManagedSettings \o u) \o r \in Seq(Range((ManagedSettings \o u) \o r))
  BY <1>5, <1>6, BothAreSequences
<1>8. Candidates(p) = (ManagedSettings \o u) \o r
  BY DEF Candidates, AllSettingsFiles, u, r
<1>. QED  BY <1>7, <1>8

\* The present contents of a file are among those it has had.
LEMMA PresentIsHeld ==
    ASSUME SettingsHeld, NEW f
    PROVE  /\ SettingsOf(f) \in HeldBy(f)
           /\ IsFiniteSet(HeldBy(f))
           /\ HeldBy(f) \subseteq Contents \cup {Absent}
<1>1. DOMAIN settings = DOMAIN Settings /\ DOMAIN held = DOMAIN Settings
  BY DEF SettingsHeld
<1>2. CASE f \in DOMAIN Settings
  <2>1. SettingsOf(f) = settings[f] /\ HeldBy(f) = held[f]
    BY <1>1, <1>2 DEF SettingsOf, HeldBy
  <2>2. settings[f] \in held[f] /\ IsFiniteSet(held[f]) /\ held[f] \subseteq Contents
    BY <1>2 DEF SettingsHeld
  <2>. QED  BY <2>1, <2>2
<1>3. CASE f \notin DOMAIN Settings
  <2>1. SettingsOf(f) = Absent /\ HeldBy(f) = {Absent}
    BY <1>1, <1>3 DEF SettingsOf, HeldBy
  <2>. QED  BY <2>1, FS_Singleton
<1>. QED  BY <1>2, <1>3

\* The deny rules that count are those the file has at present.
LEMMA DenyKeptIsPresent ==
    ASSUME SettingsHeld, NEW f
    PROVE  /\ SettingsOf(f) = Absent => DenyKept(f) = {}
           /\ SettingsOf(f) # Absent => DenyKept(f) \subseteq SettingsOf(f).deny
<1>1. PICK now, had : now = SettingsOf(f) /\ had = HeldBy(f)
  OBVIOUS
<1>2. now \in had /\ IsFiniteSet(had)
  BY <1>1, PresentIsHeld
<1>3. CASE Cardinality(had) # 1
  BY <1>1, <1>3 DEF DenyKept
<1>4. CASE Cardinality(had) = 1
  <2>1. had = {now}
    BY <1>2, <1>4, FS_Singleton
  <2>2. DenyKept(f) = UNION {content.deny : content \in had \ {Absent}}
    BY <1>1, <1>4 DEF DenyKept
  <2>3. now = Absent => DenyKept(f) = {}
    BY <2>1, <2>2
  <2>4. now # Absent => DenyKept(f) = now.deny
    BY <2>1, <2>2
  <2>. QED  BY <1>1, <2>3, <2>4
<1>. QED  BY <1>3, <1>4

\* What is vouched for, kept and parsed is about the call and what was held.
LEMMA SameVouched ==
    ASSUME UNCHANGED <<call, held>>
    PROVE  /\ Vouched' = Vouched /\ AllParse' = AllParse
           /\ \A f : DenyKept(f)' = DenyKept(f)
           /\ Paths' = Paths /\ Asked' = Asked
BY DEF Vouched, HeldBy, Paths, AllParse, DenyKept, Asked

\* Of what may be vouched for, the real directory is its own.
LEMMA VouchedAreReal ==
    ASSUME call \in Calls, SettingsHeld, NEW dir \in Vouched
    PROVE  RealPath(dir) = dir
<1>1. CASE dir \in ScopeOf(call.cwd).dirs
  <2>1. call.cwd # NoPath /\ dir = RealDir(call.cwd)
    BY <1>1 DEF ScopeOf
  <2>2. call.cwd \in {c.cwd : c \in {d \in Calls : d.cwd # NoPath}}
    BY <2>1
  <2>3. PICK cwd : cwd = call.cwd
    OBVIOUS
  <2>4. cwd \in (UNION {content.dirs : content \in Contents \ {Absent}})
                 \cup {c.cwd : c \in {d \in Calls : d.cwd # NoPath}}
    BY <2>2, <2>3
  <2>5. RealPath(RealDir(cwd)) = RealDir(cwd)
    BY <2>4, SettingsAssumption
  <2>. QED  BY <2>1, <2>3, <2>5
<1>2. ASSUME NEW f, NEW content \in HeldBy(f) \ {Absent}, NEW d \in content.dirs, dir = RealDir(d)
      PROVE  RealPath(dir) = dir
  <2>1. content \in Contents \ {Absent}
    BY <1>2, PresentIsHeld
  <2>2. d \in UNION {c.dirs : c \in Contents \ {Absent}}
    BY <1>2, <2>1
  <2>3. RealPath(RealDir(d)) = RealDir(d)
    BY <2>2, SettingsAssumption
  <2>. QED  BY <1>2, <2>3
<1>3. CASE dir \notin ScopeOf(call.cwd).dirs
  <2>1. PICK d \in UNION {content.dirs : content \in
                (UNION {HeldBy(f) : f \in Range(Candidates(Paths)) \ RepoProjectFile(Paths)}) \ {Absent}} :
           dir = RealDir(d)
    BY <1>3 DEF Vouched
  <2>2. PICK content \in (UNION {HeldBy(f) : f \in Range(Candidates(Paths)) \ RepoProjectFile(Paths)}) \ {Absent} :
           d \in content.dirs
    BY <2>1
  <2>3. PICK f \in Range(Candidates(Paths)) \ RepoProjectFile(Paths) : content \in HeldBy(f)
    BY <2>2
  <2>. QED  BY <1>2, <2>1, <2>2, <2>3
<1>. QED  BY <1>1, <1>3

-----------------------------------------------------------------------------
(***************************************************************************)
(* The steps.                                                              *)
(***************************************************************************)

LEMMA ScopeInit == Init => ScopeInv
<1>. SUFFICES ASSUME Init PROVE ScopeInv
  OBVIOUS
<1>1. SettingsHeld
  <2>1. settings \in [DOMAIN Settings -> Contents]
    BY DEF Init
  <2>2. held = [f \in DOMAIN Settings |-> {settings[f]}]
    BY DEF Init
  <2>3. \A x : IsFiniteSet({x})
    BY FS_Singleton
  <2>. QED  BY <2>1, <2>2, <2>3 DEF SettingsHeld
<1>2. call \in Calls /\ pending = <<>> /\ scope = NoScope /\ stage = "start"
  BY DEF Init
<1>. QED  BY <1>1, <1>2 DEF ScopeInv, NoScope, DenyCollected, PassedInside

\* Neither the scope nor what it is made of is touched.
LEMMA ElsewhereStep ==
    ASSUME ScopeInv, UNCHANGED <<call, settings, held, pending, scope>>,
           \/ stage' = stage
           \/ /\ stage # "start" /\ stage' \notin {"start", "silent"}
              /\ stage = "settings" => pending = <<>>
    PROVE  ScopeInv'
<1>1. /\ Vouched' = Vouched /\ AllParse' = AllParse
      /\ \A f : DenyKept(f)' = DenyKept(f)
      /\ Paths' = Paths /\ Asked' = Asked
  BY SameVouched
<1>2. SettingsHeld' /\ call' \in Calls
  BY DEF ScopeInv, SettingsHeld
<1>3. pending' \in Seq(Range(Candidates(Paths')))
  BY <1>1 DEF ScopeInv
<1>4. scope'.dirs \subseteq Vouched'
  BY <1>1 DEF ScopeInv
<1>5. DenyCollected'
  <2>. SUFFICES ASSUME Asked', stage' # "start", AllParse', NEW f \in Range(Candidates(Paths'))
                PROVE  Unread(f)' \/ DenyKept(f)' \subseteq scope'.deny
    BY DEF DenyCollected
  <2>1. stage # "start"
    OBVIOUS
  <2>2. Unread(f) \/ DenyKept(f) \subseteq scope.deny
    BY <1>1, <2>1 DEF ScopeInv, DenyCollected
  <2>3. CASE stage' = stage
    BY <1>1, <2>2, <2>3 DEF Unread
  <2>4. CASE stage = "settings" => pending = <<>>
    <3>1. Range(<<>>) = {}
      BY DEF Range
    <3>2. ~Unread(f)
      BY <2>4, <3>1 DEF Unread
    <3>. QED  BY <1>1, <2>2, <3>2
  <2>. QED  BY <2>3, <2>4
<1>6. PassedInside'
  BY <1>1 DEF ScopeInv, PassedInside
<1>. QED  BY <1>2, <1>3, <1>4, <1>5, <1>6 DEF ScopeInv

LEMMA StartStep == ScopeInv /\ Start => ScopeInv'
<1>. SUFFICES ASSUME ScopeInv, Start PROVE ScopeInv'
  OBVIOUS
<1>1. UNCHANGED <<call, settings, held>> /\ stage = "start"
  BY DEF Start, environment
<1>2. /\ Vouched' = Vouched /\ AllParse' = AllParse
      /\ \A f : DenyKept(f)' = DenyKept(f)
      /\ Paths' = Paths /\ Asked' = Asked
  BY <1>1, SameVouched
<1>3. SettingsHeld' /\ call' \in Calls
  BY <1>1 DEF ScopeInv, SettingsHeld
<1>4. CASE ~Asked
  <2>1. UNCHANGED <<pending, scope>>
    BY <1>4 DEF Start, Asked
  <2>. QED  BY <1>2, <1>3, <1>4, <2>1 DEF ScopeInv, DenyCollected, PassedInside
<1>5. CASE Asked
  <2>1. /\ pending' = OnlyIn(Candidates(Paths), Existing)
        /\ scope' = ScopeOf(call.cwd) /\ stage' = "settings"
    BY <1>5 DEF Start, Asked, Goto
  <2>2. /\ pending' \in Seq(Range(Candidates(Paths)))
        /\ Range(pending') = Range(Candidates(Paths)) \cap Existing
    <3>1. PICK cs, set : cs = Candidates(Paths) /\ set = Existing
      OBVIOUS
    <3>2. cs \in Seq(Range(cs))
      BY <3>1, CandidatesAreSequence
    <3>3. OnlyIn(cs, set) \in Seq(Range(cs)) /\ Range(OnlyIn(cs, set)) = Range(cs) \cap set
      BY <3>2, OnlyInKeeps
    <3>. QED  BY <2>1, <3>1, <3>3
  <2>3. scope'.dirs \subseteq Vouched'
    BY <1>2, <2>1 DEF Vouched
  <2>4. DenyCollected'
    <3>. SUFFICES ASSUME NEW f \in Range(Candidates(Paths))
                  PROVE  Unread(f)' \/ DenyKept(f)' \subseteq scope'.deny
      BY <1>2 DEF DenyCollected
    <3>1. CASE f \in Existing
      BY <2>1, <2>2, <3>1 DEF Unread
    <3>2. CASE f \notin Existing
      <4>1. SettingsOf(f) = Absent
        BY <3>2 DEF Existing, SettingsOf
      <4>2. DenyKept(f) = {}
        BY <4>1, DenyKeptIsPresent DEF ScopeInv
      <4>. QED  BY <1>2, <4>2
    <3>. QED  BY <3>1, <3>2
  <2>5. PassedInside'
    BY <2>1 DEF PassedInside
  <2>. QED  BY <1>2, <1>3, <2>2, <2>3, <2>4, <2>5 DEF ScopeInv
<1>. QED  BY <1>4, <1>5

\* The scope after a file is read is the scope before, with what the file
\* grants and denies.
LEMMA ReadSettingsStep == ScopeInv /\ ReadSettings => ScopeInv'
<1>. SUFFICES ASSUME ScopeInv, ReadSettings PROVE ScopeInv'
  OBVIOUS
<1>1. UNCHANGED <<call, settings, held>> /\ stage = "settings" /\ pending # <<>>
  BY DEF ReadSettings, environment
<1>2. /\ Vouched' = Vouched /\ AllParse' = AllParse
      /\ \A f : DenyKept(f)' = DenyKept(f)
      /\ Paths' = Paths /\ Asked' = Asked
  BY <1>1, SameVouched
<1>3. SettingsHeld /\ SettingsHeld' /\ call' \in Calls
  BY <1>1 DEF ScopeInv, SettingsHeld
<1>4. PICK f, content : f = pending[1] /\ content = SettingsOf(f)
  OBVIOUS
<1>5. /\ f \in Range(Candidates(Paths))
      /\ Tail(pending) \in Seq(Range(Candidates(Paths)))
      /\ Range(pending) \subseteq {f} \cup Range(Tail(pending))
  <2>. DEFINE S == Range(Candidates(Paths))
              t == Tail(pending)
  <2>1. pending \in Seq(S)
    BY DEF ScopeInv
  <2>. HIDE DEF S
  <2>2. Len(pending) \in Nat \ {0}
    BY <1>1, <2>1, EmptySeq, LenProperties
  <2>3. /\ t \in Seq(S) /\ Len(t) = Len(pending) - 1
        /\ \A i \in 1..Len(t) : t[i] = pending[i + 1]
    BY <1>1, <2>1, HeadTailProperties
  <2>4. pending[1] \in S
    BY <2>1, <2>2, ElementOfSeq
  <2>. HIDE DEF t
  <2>5. Range(pending) = {pending[i] : i \in 1..Len(pending)} /\ Range(t) = {t[i] : i \in 1..Len(t)}
    BY <2>1, <2>3, RangeEquality
  <2>6. ASSUME NEW i \in 1..Len(pending), i # 1 PROVE pending[i] \in Range(t)
    <3>1. i - 1 \in 1..Len(t) /\ (i - 1) + 1 = i
      BY <2>2, <2>3, <2>6
    <3>. QED  BY <2>3, <2>5, <3>1
  <2>7. Range(pending) \subseteq {pending[1]} \cup Range(t)
    BY <2>5, <2>6
  <2>. QED  BY <1>4, <2>3, <2>4, <2>7 DEF S, t
<1>6. content \in HeldBy(f) /\ HeldBy(f) \subseteq Contents \cup {Absent}
  BY <1>3, <1>4, PresentIsHeld
<1>7. /\ content = Absent => DenyKept(f) = {}
      /\ content # Absent => DenyKept(f) \subseteq content.deny
  BY <1>3, <1>4, DenyKeptIsPresent
<1>8. ASSUME NEW granted, granted.dirs \subseteq Vouched, scope.deny \subseteq granted.deny,
             DenyKept(f) \subseteq granted.deny,
             scope' = granted, pending' = Tail(pending), stage' = stage
      PROVE  ScopeInv'
  <2>1. DenyCollected'
    <3>. SUFFICES ASSUME Asked', AllParse', NEW g \in Range(Candidates(Paths'))
                  PROVE  Unread(g)' \/ DenyKept(g)' \subseteq scope'.deny
      BY DEF DenyCollected
    <3>1. Unread(g) \/ DenyKept(g) \subseteq scope.deny
      BY <1>1, <1>2 DEF ScopeInv, DenyCollected
    <3>2. CASE g = f
      BY <1>2, <1>8, <3>2
    <3>3. CASE g # f /\ Unread(g)
      <4>1. g \in Range(Tail(pending))
        BY <1>5, <3>3 DEF Unread
      <4>. QED  BY <1>1, <1>8, <4>1 DEF Unread
    <3>4. CASE DenyKept(g) \subseteq scope.deny
      BY <1>2, <1>8, <3>4
    <3>. QED  BY <3>1, <3>2, <3>3, <3>4
  <2>2. PassedInside'
    BY <1>1, <1>8 DEF PassedInside
  <2>. QED  BY <1>2, <1>3, <1>5, <1>8, <2>1, <2>2 DEF ScopeInv
<1>9. CASE content = Absent \/ (content.state = "text" /\ ~content.has)
  <2>1. pending' = Tail(pending) /\ UNCHANGED <<scope, stage>>
    BY <1>4, <1>9 DEF ReadSettings
  <2>2. DenyKept(f) = {}
    <3>1. content # Absent => content.deny = {}
      BY <1>6, <1>9, SettingsAssumption
    <3>. QED  BY <1>7, <3>1
  <2>3. scope.dirs \subseteq Vouched
    BY DEF ScopeInv
  <2>4. PICK granted : granted = scope
    OBVIOUS
  <2>. QED  BY <1>8, <2>1, <2>2, <2>3, <2>4
<1>10. CASE content # Absent /\ content.state = "text" /\ content.has
  <2>1. /\ scope' = Widened(scope, Paths, f, content)
        /\ pending' = Tail(pending) /\ stage' = stage
    BY <1>4, <1>10 DEF ReadSettings
  <2>2. PICK granted : granted = Widened(scope, Paths, f, content)
    OBVIOUS
  <2>3. granted.deny = scope.deny \cup content.deny
    BY <2>2 DEF Widened
  <2>4. granted.dirs \subseteq Vouched
    <3>1. scope.dirs \subseteq Vouched
      BY DEF ScopeInv
    <3>2. CASE f \in RepoProjectFile(Paths)
      BY <2>2, <3>1, <3>2 DEF Widened
    <3>3. CASE f \notin RepoProjectFile(Paths)
      <4>1. f \in Range(Candidates(Paths)) \ RepoProjectFile(Paths)
        BY <1>5, <3>3
      <4>4. HeldBy(f) \in {HeldBy(g) : g \in Range(Candidates(Paths)) \ RepoProjectFile(Paths)}
        BY <4>1
      <4>2. content \in (UNION {HeldBy(g) : g \in Range(Candidates(Paths)) \ RepoProjectFile(Paths)})
                        \ {Absent}
        BY <1>6, <1>10, <4>4
      <4>3. {RealDir(dir) : dir \in content.dirs} \subseteq Vouched
        BY <4>2 DEF Vouched
      <4>. QED  BY <2>2, <3>1, <3>3, <4>3 DEF Widened
    <3>. QED  BY <3>2, <3>3
  <2>. QED  BY <1>7, <1>8, <1>10, <2>1, <2>2, <2>3, <2>4
<1>11. CASE content # Absent /\ content.state # "text"
  <2>1. scope' = NoScope /\ pending' = <<>> /\ stage' = "instructions"
    BY <1>4, <1>11 DEF ReadSettings, Goto
  <2>2. ~AllParse
    BY <1>5, <1>6, <1>11 DEF AllParse
  <2>. QED  BY <1>2, <1>3, <2>1, <2>2 DEF ScopeInv, NoScope, DenyCollected, PassedInside
<1>. QED  BY <1>9, <1>10, <1>11

\* A call passes only for a target inside a directory vouched for.
LEMMA CheckSkippableStep == ScopeInv /\ CheckSkippable => ScopeInv'
<1>. SUFFICES ASSUME ScopeInv, CheckSkippable PROVE ScopeInv'
  OBVIOUS
<1>1. UNCHANGED <<call, settings, held, pending, scope>> /\ stage = "skip"
  BY DEF CheckSkippable, environment
<1>2. CASE stage' = "transcript"
  BY <1>1, <1>2, ElsewhereStep
<1>3. CASE stage' = "silent"
  <2>1. Skippable(call.tool, call.in, scope.dirs, call.cwd)
    BY <1>3 DEF CheckSkippable, Goto
  <2>2. /\ Vouched' = Vouched /\ AllParse' = AllParse
        /\ \A f : DenyKept(f)' = DenyKept(f)
        /\ Paths' = Paths /\ Asked' = Asked
    BY <1>1, SameVouched
  <2>3. ASSUME Tool(call.tool) # "safe"
        PROVE  \E val \in Range(stringField(call.in, PathField(call.tool))) :
                  \E dir \in Vouched : IsPrefix(dir.seg, RealPath(val.v).seg)
    <3>1. inWorkingDirs(call.in, PathField(call.tool), scope.dirs, call.cwd)
      BY <2>1, <2>3 DEF Skippable
    <3>2. PICK val \in Range(stringField(call.in, PathField(call.tool))),
               dir \in workingDirs(scope.dirs, call.cwd) : IsPathUnder(val.v, dir)
      BY <3>1 DEF inWorkingDirs, isUnderAny
    <3>3. IsPrefix(RealPath(dir).seg, RealPath(val.v).seg)
      BY <3>2 DEF IsPathUnder
    <3>4. CASE scope.dirs # {}
      <4>1. dir \in Vouched
        BY <3>2, <3>4 DEF workingDirs, ScopeInv
      <4>2. RealPath(dir) = dir
        BY <4>1, VouchedAreReal DEF ScopeInv
      <4>. QED  BY <3>3, <4>1, <4>2
    <3>5. CASE scope.dirs = {}
      <4>1. call.cwd # NoPath /\ dir = call.cwd
        BY <3>2, <3>5 DEF workingDirs
      <4>2. RealDir(call.cwd) = RealPath(dir)
        BY <4>1, SettingsAssumption DEF ScopeInv, RealDir
      <4>3. RealPath(dir) \in Vouched
        BY <4>1, <4>2 DEF Vouched, ScopeOf
      <4>. QED  BY <3>3, <4>3
    <3>. QED  BY <3>4, <3>5
  <2>4. PassedInside'
    BY <1>1, <2>2, <2>3 DEF PassedInside
  <2>5. SettingsHeld'
    BY <1>1 DEF ScopeInv, SettingsHeld
  <2>6. DenyCollected'
    BY <1>1, <1>3, <2>2 DEF ScopeInv, DenyCollected, Unread
  <2>. QED  BY <1>1, <2>2, <2>4, <2>5, <2>6 DEF ScopeInv
<1>. QED  BY <1>2, <1>3 DEF CheckSkippable, Goto

\* An edit adds to what a file has had: more is vouched for, and the deny rules
\* of the file count no longer.
LEMMA EditStep ==
    ASSUME ScopeInv, NEW f \in DOMAIN settings, EditSettings(f)
    PROVE  ScopeInv'
<1>1. PICK content \in Settings[f] \ {settings[f]} :
          /\ settings' = [settings EXCEPT ![f] = content]
          /\ held' = [held EXCEPT ![f] = @ \cup {content}]
  BY DEF EditSettings
<1>2. UNCHANGED <<call, pending, scope, stage>> /\ stage \in {"start", "settings"}
  BY DEF EditSettings
<1>3. SettingsHeld /\ f \in DOMAIN Settings /\ content \in Contents
  BY <1>1 DEF ScopeInv, SettingsHeld, Contents
<1>4. /\ DOMAIN held' = DOMAIN held
      /\ held'[f] = held[f] \cup {content}
      /\ \A g \in DOMAIN held : g # f => held'[g] = held[g]
  BY <1>1, <1>3 DEF SettingsHeld
<1>5. SettingsHeld'
  <2>1. settings' \in [DOMAIN Settings -> Contents] /\ held' \in [DOMAIN Settings -> SUBSET Contents]
    BY <1>1, <1>3 DEF SettingsHeld
  <2>2. ASSUME NEW g \in DOMAIN Settings PROVE IsFiniteSet(held'[g]) /\ settings'[g] \in held'[g]
    <3>1. IsFiniteSet(held[g]) /\ settings[g] \in held[g]
      BY <1>3 DEF SettingsHeld
    <3>2. CASE g = f
      <4>1. IsFiniteSet(held[f] \cup {content})
        BY <3>1, <3>2, FS_AddElement
      <4>2. settings'[f] = content
        BY <1>1, <1>3 DEF SettingsHeld
      <4>. QED  BY <1>4, <3>2, <4>1, <4>2
    <3>3. CASE g # f
      <4>1. settings'[g] = settings[g]
        BY <1>1, <1>3, <3>3 DEF SettingsHeld
      <4>2. held'[g] = held[g]
        BY <1>3, <1>4, <3>3 DEF SettingsHeld
      <4>. QED  BY <3>1, <4>1, <4>2
    <3>. QED  BY <3>2, <3>3
  <2>. QED  BY <2>1, <2>2 DEF SettingsHeld
<1>6. \A g : HeldBy(g) \subseteq HeldBy(g)'
  BY <1>4 DEF HeldBy
<1>7. Paths' = Paths /\ Asked' = Asked
  BY <1>2 DEF Paths, Asked
<1>8. Vouched \subseteq Vouched'
  <2>1. PICK files : files = Range(Candidates(Paths)) \ RepoProjectFile(Paths)
    OBVIOUS
  <2>2. files = Range(Candidates(Paths')) \ RepoProjectFile(Paths')
    BY <1>7, <2>1
  <2>3. PICK before : before = (UNION {HeldBy(g) : g \in files}) \ {Absent}
    OBVIOUS
  <2>4. PICK after : after = (UNION {HeldBy(g)' : g \in files}) \ {Absent}
    OBVIOUS
  <2>5. before \subseteq after
    <3>. SUFFICES ASSUME NEW c \in before PROVE c \in after
      OBVIOUS
    <3>1. PICK g \in files : c \in HeldBy(g)
      BY <2>3
    <3>2. HeldBy(g)' \in {HeldBy(h)' : h \in files}
      OBVIOUS
    <3>. QED  BY <1>6, <2>3, <2>4, <3>1, <3>2
  <2>6. Vouched = ScopeOf(call.cwd).dirs \cup {RealDir(dir) : dir \in UNION {c.dirs : c \in before}}
    BY <2>1, <2>3 DEF Vouched
  <2>7. Vouched' = ScopeOf(call.cwd).dirs \cup {RealDir(dir) : dir \in UNION {c.dirs : c \in after}}
    BY <1>2, <2>2, <2>4 DEF Vouched
  <2>8. UNION {c.dirs : c \in before} \subseteq UNION {c.dirs : c \in after}
    BY <2>5
  <2>. QED  BY <2>6, <2>7, <2>8
<1>9. AllParse' => AllParse
  BY <1>6, <1>7 DEF AllParse
<1>10. \A g : DenyKept(g)' \subseteq DenyKept(g)
  <2>. SUFFICES ASSUME NEW g PROVE DenyKept(g)' \subseteq DenyKept(g)
    OBVIOUS
  <2>1. CASE g = f
    <3>1. HeldBy(f)' = held[f] \cup {content}
      BY <1>3, <1>4 DEF HeldBy, SettingsHeld
    <3>2. settings[f] \in held[f] /\ settings[f] # content
      BY <1>1, <1>3 DEF SettingsHeld
    <3>3. Cardinality(held[f] \cup {content}) # 1
      <4>1. IsFiniteSet(held[f] \cup {content})
        BY <1>3, FS_AddElement DEF SettingsHeld
      <4>2. ~\E x : held[f] \cup {content} = {x}
        BY <3>2
      <4>. QED  BY <4>1, <4>2, FS_Singleton
    <3>. QED  BY <2>1, <3>1, <3>3 DEF DenyKept
  <2>2. CASE g # f
    <3>1. HeldBy(g)' = HeldBy(g)
      BY <1>4, <2>2 DEF HeldBy
    <3>. QED  BY <3>1 DEF DenyKept
  <2>. QED  BY <2>1, <2>2
<1>11. DenyCollected'
  <2>. SUFFICES ASSUME Asked', stage' # "start", AllParse', NEW g \in Range(Candidates(Paths'))
                PROVE  Unread(g)' \/ DenyKept(g)' \subseteq scope'.deny
    BY DEF DenyCollected
  <2>1. Unread(g) \/ DenyKept(g) \subseteq scope.deny
    BY <1>2, <1>7, <1>9 DEF ScopeInv, DenyCollected
  <2>. QED  BY <1>2, <1>10, <2>1 DEF Unread
<1>12. PassedInside'
  BY <1>2 DEF PassedInside
<1>. QED  BY <1>2, <1>5, <1>7, <1>8, <1>11, <1>12 DEF ScopeInv

LEMMA ScopeStep == ScopeInv /\ [Next]_vars => ScopeInv'
<1>. SUFFICES ASSUME ScopeInv, [Next]_vars PROVE ScopeInv'
  OBVIOUS
<1>1. CASE Start
  BY <1>1, StartStep
<1>2. CASE ReadSettings
  BY <1>2, ReadSettingsStep
<1>3. CASE SettingsRead
  BY <1>3, ElsewhereStep DEF SettingsRead, environment, Goto
<1>4. CASE LoadInstructions
  BY <1>4, ElsewhereStep DEF LoadInstructions, environment, Goto
<1>5. CASE CheckSkippable
  BY <1>5, CheckSkippableStep
<1>6. CASE FindTranscripts
  BY <1>6, ElsewhereStep DEF FindTranscripts, environment, Goto
<1>7. CASE ReadTranscript
  BY <1>7, ElsewhereStep DEF ReadTranscript, environment, Goto
<1>8. CASE BuildPrompt
  BY <1>8, ElsewhereStep DEF BuildPrompt, environment, Goto
<1>9. CASE Ended \/ UNCHANGED vars
  BY <1>9, ElsewhereStep DEF Ended, vars, environment
<1>10. ASSUME NEW f \in DOMAIN settings, EditSettings(f) PROVE ScopeInv'
  BY <1>10, EditStep
<1>11. ASSUME NEW f \in DOMAIN written, AppendLine(f) PROVE ScopeInv'
  BY <1>11, ElsewhereStep DEF AppendLine
<1>. QED  BY <1>1, <1>2, <1>3, <1>4, <1>5, <1>6, <1>7, <1>8, <1>9, <1>10, <1>11 DEF Next

-----------------------------------------------------------------------------
\* Reading the settings keeps its invariant.
THEOREM ScopeInvCorrect == Spec => []ScopeInv
<1>. QED  BY ScopeInit, ScopeStep, PTL DEF Spec

\* additionalDirectories come "only from tiers a hostile repo can't control",
\* while deny patterns of the repository "can only ever block more"
\* (permscope.go), whatever is edited, made or removed while the files are
\* read.
THEOREM RepositoryCannotWiden == Spec => []RepoCannotWiden
<1>1. ScopeInv => RepoCannotWiden
  <2>. SUFFICES ASSUME ScopeInv, Looking PROVE RepoCannotWiden
    BY DEF RepoCannotWiden
  <2>1. Asked /\ stage # "start" /\ \A f : ~Unread(f)
    BY DEF Looking, Asked, Unread
  <2>. QED  BY <2>1 DEF ScopeInv, DenyCollected, PassedInside, RepoCannotWiden
<1>. QED  BY <1>1, ScopeInvCorrect, PTL

-----------------------------------------------------------------------------
(***************************************************************************)
(* What the judge hears, step by step.                                     *)
(***************************************************************************)

\* How the sessions of a call are marked.
LEMMA SessionsAre ==
    ASSUME call \in Calls, SessionsGrow
    PROVE  /\ \A f \in DOMAIN call.sessions :
                /\ IsSequence(call.sessions[f])
                /\ \A line \in Range(call.sessions[f]) : EntryMarked(line.entry.content)
           /\ IsSequence(MainLines)
           /\ \A line \in Range(MainLines) :
                /\ EntryMarked(line.entry.content) /\ UsersMarked(line.entry)
                /\ line.state \in {"whole", "too_long"} \/ line.entry.content.k = "other"
           /\ MainCount(atStart) \in Nat /\ MainCount(written) \in Nat
           /\ MainCount(atStart) <= MainCount(written) /\ MainCount(written) <= Len(MainLines)
<1>1. PICK t, sessions : t = call.transcript /\ sessions = call.sessions
  OBVIOUS
<1>2. \A f \in DOMAIN sessions :
        /\ IsSequence(sessions[f])
        /\ \A line \in Range(sessions[f]) :
            /\ EntryMarked(line.entry.content)
            /\ line.state \in {"whole", "too_long"} \/ line.entry.content.k = "other"
  BY <1>1, SessionsAssumption
<1>3. t \in DOMAIN sessions => \A line \in Range(sessions[t]) : UsersMarked(line.entry)
  BY <1>1, SessionsAssumption
<1>4. CASE fileExists(t)
  <2>1. t \in DOMAIN sessions
    BY <1>1, <1>4 DEF fileExists, SessionsGrow
  <2>2. MainLines = sessions[t] /\ MainCount(atStart) = atStart[t] /\ MainCount(written) = written[t]
    BY <1>1, <1>4 DEF MainLines, MainCount
  <2>3. /\ atStart[t] \in Nat /\ written[t] \in Nat
        /\ atStart[t] <= written[t] /\ written[t] <= Len(sessions[t])
    BY <1>1, <2>1 DEF SessionsGrow
  <2>. QED  BY <1>1, <1>2, <1>3, <2>1, <2>2, <2>3
<1>5. CASE ~fileExists(t)
  <2>1. MainLines = <<>> /\ MainCount(atStart) = 0 /\ MainCount(written) = 0
    BY <1>1, <1>5 DEF MainLines, MainCount
  <2>2. Range(<<>>) = {} /\ Len(<<>>) = 0
    BY DEF Range
  <2>. QED  BY <1>1, <1>2, <2>1, <2>2, ShortSequences
<1>. QED  BY <1>4, <1>5

\* Before anything is read of a session that does not exist.
LEMMA NothingListened ==
    ASSUME ~fileExists(call.transcript)
    PROVE  Listened(<<>>)
<1>1. MainLines = <<>> /\ MainCount(atStart) = 0 /\ MainCount(written) = 0
  BY DEF MainLines, MainCount
<1>2. SubSeq(<<>>, 1, 0) = <<>>
  OBVIOUS
<1>3. SaidBy(0) = <<>> /\ Heard(<<>>) = <<>>
  BY <1>1, <1>2, FlattenEmpty DEF SaidBy, UserWords, Heard
<1>4. 0 \in 0 .. 0 /\ Range(<<>>) = {}
  BY DEF Range
<1>. QED  BY <1>1, <1>3, <1>4, ShortSequences DEF Listened

\* Records in which the user is not heard may follow.
LEMMA ListenedMore ==
    ASSUME NEW body, Listened(body), NEW more, IsSequence(more),
           \A r \in Range(more) : Marked(r) /\ HeardOf(r) = <<>>
    PROVE  Listened(body \o more)
<1>. DEFINE S == Range(body) \cup Range(more)
<1>1. IsSequence(body) /\ \A r \in Range(body) : Marked(r)
  BY DEF Listened
<1>2. body \in Seq(S) /\ more \in Seq(S)
  <2>1. body \in Seq(Range(body)) /\ Range(body) \subseteq S
    BY <1>1 DEF IsSequence
  <2>2. more \in Seq(Range(more)) /\ Range(more) \subseteq S
    BY DEF IsSequence
  <2>. HIDE DEF S
  <2>. QED  BY <2>1, <2>2, SeqMonotonic
<1>3. \A r \in S : Marked(r)
  BY <1>1
<1>. HIDE DEF S
<1>4. IsSequence(Heard(body)) /\ Heard(body \o more) = Heard(body) \o Heard(more)
  BY <1>2, <1>3, HeardConcat DEF Marked
<1>5. Heard(more) = <<>>
  BY HeardNothing
<1>6. Heard(body) \o <<>> = Heard(body)
  BY <1>4, ConcatEmptySeq DEF IsSequence
<1>7. body \o more \in Seq(S)
  BY <1>2, ConcatProperties
<1>8. IsSequence(body \o more) /\ \A r \in Range(body \o more) : Marked(r)
  BY <1>3, <1>7, SequenceOver
<1>. QED  BY <1>4, <1>5, <1>6, <1>8 DEF Listened

\* Reading the session hears what the user has said by then.
LEMMA MainRead ==
    ASSUME call \in Calls, SessionsGrow, fileExists(call.transcript), Readable(LinesOf(call.transcript))
    PROVE  Listened(Records(LinesOf(call.transcript), ""))
<1>1. PICK t, n : t = call.transcript /\ n = written[t]
  OBVIOUS
<1>2. MainLines = call.sessions[t] /\ MainCount(written) = n
  BY <1>1 DEF MainLines, MainCount
<1>3. PICK all, done, lines : all = MainLines /\ done = SubSeq(all, 1, n) /\ lines = LinesOf(t)
  OBVIOUS
<1>4. n \in Nat /\ n <= Len(all)
  BY <1>2, <1>3, SessionsAre
<1>5. all \in Seq(Range(all))
  BY <1>3, SessionsAre DEF IsSequence
<1>6. \A line \in Range(all) : /\ EntryMarked(line.entry.content) /\ UsersMarked(line.entry)
                               /\ line.state \in {"whole", "too_long"} \/ line.entry.content.k = "other"
  BY <1>3, SessionsAre
<1>7. /\ done \in Seq(Range(all)) /\ Len(done) = n
      /\ \A i \in 1..n : done[i] = all[i]
  <2>1. \A i \in 1..n : all[i] \in Range(all)
    BY <1>4, <1>5, ElementOfSeq
  <2>. QED  BY <1>3, <1>4, <2>1, SubSeqProperties
<1>8. Records(lines, "") = Records(done, "") /\ \A i \in 1..n : done[i].state # "too_long"
  <2>1. CASE t \in torn
    <3>1. PICK line : line = [state |-> "torn", entry |-> all[n + 1].entry]
      OBVIOUS
    <3>2. lines = done \o <<line>>
      BY <1>1, <1>2, <1>3, <2>1, <3>1 DEF LinesOf
    <3>3. line.state = "torn"
      BY <3>1
    <3>4. IsSequence(done) /\ \A l \in Range(done) : EntryMarked(l.entry.content)
      BY <1>6, <1>7, SequenceOver
    <3>5. Records(lines, "") = Records(done, "")
      BY <3>2, <3>3, <3>4, TornAddsNothing
    <3>6. ASSUME NEW i \in 1..n PROVE done[i].state # "too_long"
      <4>. DEFINE X == Range(all) \cup {line}
      <4>1. PICK one : one = <<line>>
        OBVIOUS
      <4>2. done \in Seq(X)
        <5>1. Range(all) \subseteq X
          OBVIOUS
        <5>. HIDE DEF X
        <5>. QED  BY <1>7, <5>1, SeqMonotonic
      <4>3. one \in Seq(X) /\ Len(one) = 1
        BY <4>1
      <4>. HIDE DEF X
      <4>4. (done \o one) \in Seq(X) /\ Len(done \o one) = n + 1 /\ (done \o one)[i] = done[i]
        <5>1. /\ done \o one \in Seq(X) /\ Len(done \o one) = Len(done) + Len(one)
              /\ \A j \in 1 .. Len(done) + Len(one) :
                    (done \o one)[j] = IF j <= Len(done) THEN done[j] ELSE one[j - Len(done)]
          BY <4>2, <4>3, ConcatProperties
        <5>2. i \in 1 .. Len(done) + Len(one) /\ i <= Len(done)
          BY <1>4, <1>7, <4>3
        <5>. QED  BY <1>7, <4>3, <5>1, <5>2
      <4>5. i \in DOMAIN (done \o one)
        BY <1>4, <4>4, LenProperties
      <4>6. lines = done \o one
        BY <3>2, <4>1
      <4>. QED  BY <1>1, <1>3, <4>4, <4>5, <4>6 DEF Readable
    <3>. QED  BY <3>5, <3>6
  <2>2. CASE t \notin torn
    <3>1. lines = done \o <<>>
      BY <1>1, <1>2, <1>3, <2>2 DEF LinesOf
    <3>2. lines = done
      BY <1>7, <3>1, ConcatEmptySeq
    <3>3. DOMAIN done = 1..n
      BY <1>4, <1>7, LenProperties
    <3>. QED  BY <1>1, <1>3, <3>2, <3>3 DEF Readable
  <2>. QED  BY <2>1, <2>2
<1>9. \A line \in Range(done) : MainLine(line)
  <2>1. DOMAIN done = 1..n
    BY <1>4, <1>7, LenProperties
  <2>2. ASSUME NEW i \in 1..n PROVE MainLine(done[i])
    <3>1. done[i] \in Range(all)
      <4>1. done[i] \in Range(done)
        BY <2>1 DEF Range
      <4>. QED  BY <1>7, <4>1, SequenceOver
    <3>. QED  BY <1>6, <1>8, <3>1 DEF MainLine
  <2>. QED  BY <2>1, <2>2 DEF Range
<1>10. IsSequence(done)
  BY <1>7, SequenceOver
<1>11. /\ Heard(Records(done, "")) = UserWords(done)
       /\ \A r \in Range(Records(done, "")) : SpeakersOf(r) \subseteq {"user", "call"}
  BY <1>9, <1>10, MainLinesHeard
<1>12. IsSequence(Records(done, "")) /\ \A r \in Range(Records(done, "")) : Tagged(r, "")
  BY <1>9, <1>10, LineRecords DEF MainLine
<1>13. Heard(Records(done, "")) = SaidBy(n)
  BY <1>3, <1>11 DEF SaidBy
<1>14. n \in MainCount(atStart) .. MainCount(written)
  BY <1>2, SessionsAre
<1>15. Listened(Records(done, ""))
  BY <1>11, <1>12, <1>13, <1>14 DEF Listened, Marked, Tagged
<1>. QED  BY <1>1, <1>3, <1>8, <1>15

\* A subagent's session, which is marked, adds no words of the user.
LEMMA SubRead ==
    ASSUME call \in Calls, SessionsGrow, fileExists(SubPath), NEW body, Listened(body)
    PROVE  Listened(body \o Records(LinesOf(SubPath), call.agent_type))
<1>1. PICK tag, path : tag = call.agent_type /\ path = SubPath
  OBVIOUS
<1>2. tag # ""
  <2>1. call.agent # ""
    BY DEF fileExists, SubPath, SubagentTranscriptPath
  <2>. QED  BY <1>1, <2>1, SessionsAssumption
<1>3. path \in DOMAIN call.sessions
  BY <1>1 DEF fileExists, SessionsGrow
<1>4. PICK all, n, lines : all = call.sessions[path] /\ n = written[path] /\ lines = LinesOf(path)
  OBVIOUS
<1>5. n \in Nat /\ n <= Len(all) /\ (path \in torn => n < Len(all))
  BY <1>3, <1>4 DEF SessionsGrow
<1>6. all \in Seq(Range(all)) /\ \A line \in Range(all) : EntryMarked(line.entry.content)
  BY <1>3, <1>4, SessionsAre DEF IsSequence
<1>7. PICK done : done = SubSeq(all, 1, n)
  OBVIOUS
<1>8. done \in Seq(Range(all))
  <2>1. \A i \in 1..n : all[i] \in Range(all)
    BY <1>5, <1>6, ElementOfSeq
  <2>. QED  BY <1>5, <1>7, <2>1, SubSeqProperties
<1>9. IsSequence(done) /\ \A l \in Range(done) : EntryMarked(l.entry.content)
  BY <1>6, <1>8, SequenceOver
<1>10. Records(lines, tag) = Records(done, tag)
  <2>1. CASE path \in torn
    <3>1. PICK line : line = [state |-> "torn", entry |-> all[n + 1].entry]
      OBVIOUS
    <3>2. lines = done \o <<line>> /\ line.state = "torn"
      BY <1>4, <1>7, <2>1, <3>1 DEF LinesOf
    <3>. QED  BY <1>9, <3>2, TornAddsNothing
  <2>2. CASE path \notin torn
    <3>1. lines = done \o <<>>
      BY <1>4, <1>7, <2>2 DEF LinesOf
    <3>. QED  BY <1>8, <3>1, ConcatEmptySeq
  <2>. QED  BY <2>1, <2>2
<1>11. IsSequence(Records(done, tag)) /\ \A r \in Range(Records(done, tag)) : Tagged(r, tag)
  BY <1>9, LineRecords
<1>12. ASSUME NEW r, Tagged(r, tag) PROVE Marked(r) /\ HeardOf(r) = <<>>
  <2>1. CASE r.kind = "user"
    BY <1>2, <1>12, <2>1 DEF Tagged, Marked, HeardOf
  <2>2. CASE r.kind # "user"
    BY <1>12, <2>2 DEF Tagged, Marked
  <2>. QED  BY <2>1, <2>2
<1>13. Listened(body \o Records(done, tag))
  BY <1>11, <1>12, ListenedMore
<1>. QED  BY <1>1, <1>4, <1>10, <1>13

LEMMA HeardInit == Init => HeardInv
<1>. SUFFICES ASSUME Init PROVE HeardInv
  OBVIOUS
<1>1. call \in Calls /\ stage = "start" /\ records = <<>>
  BY DEF Init
<1>2. SessionsGrow
  <2>1. /\ written \in [DOMAIN call.sessions -> {0, 1}] /\ atStart = written /\ torn = {}
        /\ \A f \in DOMAIN written : written[f] <= Len(call.sessions[f])
    BY DEF Init
  <2>. QED  BY <2>1 DEF SessionsGrow
<1>. QED  BY <1>1, <1>2 DEF HeardInv

Early == {"start", "settings", "instructions", "skip", "transcript"}

\* The same call and the same sessions say the same.
LEMMA SameSessions ==
    ASSUME UNCHANGED <<call, written, torn, atStart>>
    PROVE  /\ SessionsGrow' = SessionsGrow
           /\ MainSource' = MainSource /\ SubSource' = SubSource
           /\ \A body : Listened(body)' = Listened(body)
           /\ Listened(records)' = Listened(records')
<1>1. MainLines' = MainLines /\ \A n : SaidBy(n)' = SaidBy(n)
  BY DEF MainLines, SaidBy, fileExists
<1>2. MainCount(written)' = MainCount(written) /\ MainCount(atStart)' = MainCount(atStart)
  BY DEF MainCount, fileExists
<1>3. MainSource' = MainSource /\ SubSource' = SubSource
  BY DEF MainSource, SubSource, SourceOf, SubPath, fileExists
<1>4. (\A body : Listened(body)' = Listened(body)) /\ Listened(records)' = Listened(records')
  BY <1>1, <1>2 DEF Listened
<1>5. SessionsGrow' = SessionsGrow
  BY DEF SessionsGrow
<1>. QED  BY <1>3, <1>4, <1>5

\* Neither the sessions nor what is read of them is touched.
LEMMA UnheardStep ==
    ASSUME HeardInv, UNCHANGED <<call, written, torn, atStart, sources, records, prompt>>,
           stage' = stage \/ (stage \in Early /\ stage' \in Early \cup {"silent"})
    PROVE  HeardInv'
<1>1. /\ SessionsGrow' = SessionsGrow
      /\ MainSource' = MainSource /\ SubSource' = SubSource
      /\ \A body : Listened(body)' = Listened(body)
      /\ Listened(records)' = Listened(records')
  BY SameSessions
<1>2. call' \in Calls /\ SessionsGrow'
  BY <1>1 DEF HeardInv
<1>3. stage' \in Early => records' = <<>>
  BY DEF HeardInv, Early
<1>4. stage' \notin Early => stage' = stage \/ stage' = "silent"
  OBVIOUS
<1>5. ASSUME stage' = "read"
      PROVE  \/ records' = <<>> /\ sources' = MainSource' \o SubSource'
             \/ sources' \in {SubSource', <<>>} /\ Listened(records)'
  <2>1. stage = "read"
    BY <1>4, <1>5 DEF Early
  <2>. QED  BY <1>1, <2>1 DEF HeardInv
<1>6. ASSUME stage' = "done" PROVE Listened(prompt[1].body)'
  <2>1. stage = "done"
    BY <1>4, <1>6 DEF Early
  <2>2. Listened(prompt[1].body)
    BY <2>1 DEF HeardInv
  <2>3. PICK body : body = prompt[1].body
    OBVIOUS
  <2>4. prompt'[1].body = body /\ Listened(body)'
    BY <1>1, <2>2, <2>3
  <2>. QED  BY <2>4 DEF Listened
<1>. QED  BY <1>2, <1>3, <1>5, <1>6 DEF HeardInv, Early

\* A session that grows has said no less.
LEMMA AppendStep ==
    ASSUME HeardInv, NEW f \in DOMAIN written, AppendLine(f)
    PROVE  HeardInv'
<1>1. /\ UNCHANGED <<call, atStart, stage, sources, records, prompt>>
      /\ written[f] < Len(call.sessions[f]) /\ Running
  BY DEF AppendLine
<1>2. SessionsGrow /\ call \in Calls
  BY DEF HeardInv
<1>3. /\ DOMAIN written' = DOMAIN written
      /\ \A g \in DOMAIN written : written[g] <= written'[g] /\ written'[g] \in Nat
      /\ SessionsGrow'
  <2>1. PICK sessions : sessions = call.sessions
    OBVIOUS
  <2>2. \A g \in DOMAIN sessions : Len(sessions[g]) \in Nat
    BY <1>2, <2>1, SessionsAre, LenProperties DEF IsSequence
  <2>3. /\ DOMAIN written = DOMAIN sessions /\ DOMAIN atStart = DOMAIN sessions
        /\ \A g \in DOMAIN sessions :
            /\ atStart[g] \in Nat /\ written[g] \in Nat
            /\ atStart[g] <= written[g] /\ written[g] <= Len(sessions[g])
            /\ g \in torn => written[g] < Len(sessions[g])
    BY <1>2, <2>1 DEF SessionsGrow
  <2>4. CASE f \notin torn /\ torn' = torn \cup {f} /\ written' = written
    BY <1>1, <2>1, <2>3, <2>4 DEF SessionsGrow
  <2>5. CASE f \in torn /\ torn' = torn \ {f} /\ written' = [written EXCEPT ![f] = @ + 1]
    <3>1. /\ DOMAIN written' = DOMAIN written /\ written'[f] = written[f] + 1
          /\ \A g \in DOMAIN written : g # f => written'[g] = written[g]
      BY <2>5
    <3>2. \A g \in DOMAIN sessions :
            /\ written[g] <= written'[g] /\ written'[g] \in Nat
            /\ atStart[g] <= written'[g] /\ written'[g] <= Len(sessions[g])
            /\ g \in torn' => written'[g] < Len(sessions[g])
      BY <1>1, <2>1, <2>2, <2>3, <2>5, <3>1
    <3>. QED  BY <1>1, <2>1, <2>3, <3>1, <3>2 DEF SessionsGrow
  <2>. QED  BY <2>4, <2>5 DEF AppendLine
<1>4. MainLines' = MainLines /\ \A n : SaidBy(n)' = SaidBy(n)
  BY <1>1, <1>3 DEF MainLines, SaidBy, fileExists
<1>5. MainSource' = MainSource /\ SubSource' = SubSource
  BY <1>1, <1>3 DEF MainSource, SubSource, SourceOf, SubPath, fileExists
<1>6. /\ MainCount(atStart)' = MainCount(atStart)
      /\ MainCount(written) <= MainCount(written)' /\ MainCount(written)' \in Nat
  <2>1. PICK t : t = call.transcript
    OBVIOUS
  <2>2. CASE fileExists(t)
    <3>1. t \in DOMAIN written /\ fileExists(t)'
      BY <1>3, <2>2 DEF fileExists
    <3>. QED  BY <1>1, <1>3, <2>1, <2>2, <3>1 DEF MainCount
  <2>3. CASE ~fileExists(t)
    <3>1. ~fileExists(t)'
      BY <1>3, <2>3 DEF fileExists
    <3>. QED  BY <1>1, <2>1, <2>3, <3>1 DEF MainCount
  <2>. QED  BY <2>2, <2>3
<1>7. ASSUME Listened(records) PROVE Listened(records)'
  <2>1. PICK k \in MainCount(atStart) .. MainCount(written) : Heard(records) = SaidBy(k)
    BY <1>7 DEF Listened
  <2>2. k \in MainCount(atStart)' .. MainCount(written)'
    BY <1>2, <1>6, <2>1, SessionsAre
  <2>3. Heard(records') = SaidBy(k)'
    BY <1>1, <1>4, <2>1
  <2>. QED  BY <1>1, <1>7, <2>2, <2>3 DEF Listened
<1>8. stage' # "done"
  BY <1>1 DEF Running
<1>. QED  BY <1>1, <1>2, <1>3, <1>5, <1>7, <1>8 DEF HeardInv

LEMMA FindTranscriptsStep == HeardInv /\ FindTranscripts => HeardInv'
<1>. SUFFICES ASSUME HeardInv, FindTranscripts PROVE HeardInv'
  OBVIOUS
<1>1. /\ UNCHANGED <<call, written, torn, atStart, records>> /\ stage' = "read"
      /\ sources' = MainSource \o SubSource
  BY DEF FindTranscripts, environment, Goto
<1>2. records = <<>>
  BY DEF HeardInv, FindTranscripts
<1>3. SessionsGrow' = SessionsGrow /\ MainSource' = MainSource /\ SubSource' = SubSource
  BY <1>1, SameSessions
<1>. QED  BY <1>1, <1>2, <1>3 DEF HeardInv

\* Before the session is read there are only its source and the subagent's.
LEMMA SubagentOnly ==
    ASSUME ~fileExists(call.transcript)
    PROVE  MainSource \o SubSource = SubSource
<1>1. MainSource = <<>>
  BY DEF MainSource, SourceOf
<1>2. SubSource = <<>> \/ \E x : SubSource = <<x>>
  BY DEF SubSource, SourceOf
<1>3. \A x : <<>> \o <<x>> = <<x>>
  OBVIOUS
<1>. QED  BY <1>1, <1>2, <1>3

LEMMA ReadTranscriptStep == HeardInv /\ ReadTranscript => HeardInv'
<1>. SUFFICES ASSUME HeardInv, ReadTranscript PROVE HeardInv'
  OBVIOUS
<1>1. UNCHANGED <<call, written, torn, atStart, prompt>> /\ stage = "read" /\ sources # <<>>
  BY DEF ReadTranscript, environment
<1>2. /\ SessionsGrow' = SessionsGrow
      /\ MainSource' = MainSource /\ SubSource' = SubSource
      /\ Listened(records)' = Listened(records')
  BY <1>1, SameSessions
<1>3. SessionsGrow /\ call \in Calls
  BY DEF HeardInv
<1>4. CASE stage' = "error"
  BY <1>1, <1>2, <1>3, <1>4 DEF HeardInv
<1>5. CASE stage' # "error"
  <2>1. PICK path, tag, lines : path = sources[1].path /\ tag = sources[1].tag /\ lines = LinesOf(path)
    OBVIOUS
  <2>2. Readable(lines) /\ records' = records \o Records(lines, tag) /\ sources' = Tail(sources) /\ stage' = stage
    BY <1>5, <2>1 DEF ReadTranscript, Goto
  <2>3. SUFFICES sources' \in {SubSource, <<>>} /\ Listened(records')
    BY <1>1, <1>2, <1>3, <2>2 DEF HeardInv
  <2>4. CASE sources = SubSource /\ Listened(records)
    <3>1. fileExists(SubPath)
      BY <1>1, <2>4 DEF SubSource, SourceOf
    <3>2. SubSource = <<[path |-> SubPath, tag |-> call.agent_type]>>
      BY <3>1 DEF SubSource, SourceOf
    <3>3. path = SubPath /\ tag = call.agent_type /\ Tail(sources) = <<>>
      BY <2>1, <2>4, <3>2
    <3>4. Listened(records \o Records(LinesOf(SubPath), call.agent_type))
      BY <1>3, <2>4, <3>1, SubRead
    <3>. QED  BY <2>1, <2>2, <3>3, <3>4
  <2>5. CASE records = <<>> /\ sources = MainSource \o SubSource
    <3>1. CASE ~fileExists(call.transcript)
      <4>1. sources = SubSource
        BY <2>5, <3>1, SubagentOnly
      <4>2. Listened(records)
        BY <2>5, <3>1, NothingListened
      <4>. QED  BY <2>4, <4>1, <4>2
    <3>2. CASE fileExists(call.transcript)
      <4>1. PICK main : main = [path |-> call.transcript, tag |-> ""]
        OBVIOUS
      <4>2. MainSource = <<main>>
        BY <3>2, <4>1 DEF MainSource, SourceOf
      <4>3. SubSource = <<>> \/ \E x : SubSource = <<x>>
        BY DEF SubSource, SourceOf
      <4>4. sources[1] = main /\ Tail(sources) = SubSource
        <5>1. CASE SubSource = <<>>
          <6>1. <<main>> \o <<>> = <<main>>
            OBVIOUS
          <6>. QED  BY <2>5, <4>2, <5>1, <6>1
        <5>2. ASSUME NEW x, SubSource = <<x>> PROVE sources[1] = main /\ Tail(sources) = SubSource
          <6>0. <<main>> \o <<x>> = <<main, x>>
            <7>. DEFINE X == {main, x}
            <7>1. PICK one, two : one = <<main>> /\ two = <<x>>
              OBVIOUS
            <7>2. one \in Seq(X) /\ two \in Seq(X) /\ Len(one) = 1 /\ Len(two) = 1 /\ one[1] = main /\ two[1] = x
              BY <7>1
            <7>3. PICK both : both = <<main, x>>
              OBVIOUS
            <7>4. both \in Seq(X) /\ Len(both) = 2 /\ both[1] = main /\ both[2] = x
              BY <7>3
            <7>. HIDE DEF X
            <7>5. /\ one \o two \in Seq(X) /\ Len(one \o two) = Len(one) + Len(two)
                  /\ \A i \in 1 .. Len(one) + Len(two) :
                        (one \o two)[i] = IF i <= Len(one) THEN one[i] ELSE two[i - Len(one)]
              BY <7>2, ConcatProperties
            <7>6. Len(one \o two) = 2 /\ (one \o two)[1] = main /\ (one \o two)[2] = x
              BY <7>2, <7>5
            <7>7. \A i \in 1 .. 2 : i = 1 \/ i = 2
              OBVIOUS
            <7>8. one \o two = both
              BY <7>4, <7>5, <7>6, <7>7, SeqEqual
            <7>. QED  BY <7>1, <7>3, <7>8
          <6>1. sources = <<main, x>>
            BY <2>5, <4>2, <5>2, <6>0, Zenon
          <6>. QED  BY <5>2, <6>1
        <5>. QED  BY <4>3, <5>1, <5>2
      <4>5. path = call.transcript /\ tag = ""
        <5>1. main.path = call.transcript /\ main.tag = ""
          BY <4>1
        <5>. QED  BY <2>1, <4>4, <5>1, Zenon
      <4>6. Listened(Records(LinesOf(call.transcript), ""))
        BY <1>3, <2>1, <2>2, <3>2, <4>5, MainRead
      <4>7. PICK body : body = Records(LinesOf(call.transcript), "")
        OBVIOUS
      <4>8. body \in Seq(Range(body))
        BY <4>6, <4>7 DEF Listened, IsSequence
      <4>9. <<>> \o body = body
        BY <4>8, ConcatEmptySeq
      <4>. QED  BY <2>1, <2>2, <2>5, <4>4, <4>5, <4>6, <4>7, <4>9
    <3>. QED  BY <3>1, <3>2
  <2>. QED  BY <1>1, <2>4, <2>5 DEF HeardInv
<1>. QED  BY <1>4, <1>5

LEMMA BuildPromptStep == HeardInv /\ BuildPrompt => HeardInv'
<1>. SUFFICES ASSUME HeardInv, BuildPrompt PROVE HeardInv'
  OBVIOUS
<1>1. UNCHANGED <<call, written, torn, atStart, records>> /\ stage = "read" /\ sources = <<>> /\ stage' = "done"
  BY DEF BuildPrompt, environment, Goto
<1>2. SessionsGrow' = SessionsGrow /\ \A body : Listened(body)' = Listened(body)
  BY <1>1, SameSessions
<1>3. SessionsGrow /\ call \in Calls
  BY DEF HeardInv
<1>4. Listened(records)
  <2>1. CASE records = <<>> /\ sources = MainSource \o SubSource
    <3>1. ~fileExists(call.transcript)
      <4>. SUFFICES ASSUME fileExists(call.transcript) PROVE FALSE
        OBVIOUS
      <4>1. \E x : MainSource = <<x>>
        BY DEF MainSource, SourceOf
      <4>2. SubSource = <<>> \/ \E x : SubSource = <<x>>
        BY DEF SubSource, SourceOf
      <4>3. \A x, y : <<x>> \o <<>> # <<>> /\ <<x>> \o <<y>> # <<>>
        OBVIOUS
      <4>. QED  BY <1>1, <2>1, <4>1, <4>2, <4>3, Zenon
    <3>. QED  BY <2>1, <3>1, NothingListened
  <2>. QED  BY <1>1, <2>1 DEF HeardInv
<1>5. PICK r : r = CallRecord(call.tool, call.in, "")
  OBVIOUS
<1>6. r.kind = "call" /\ HeardOf(r) = <<>> /\ SpeakersOf(r) \subseteq {"call"}
  <2>1. InputMarked(call.tool, call.in)
    BY <1>3, SessionsAssumption
  <2>2. PICK name, in, tag : name = call.tool /\ in = call.in /\ tag = ""
    OBVIOUS
  <2>3. InputMarked(name, in) /\ r = CallRecord(name, in, tag)
    BY <1>5, <2>1, <2>2
  <2>4. r.kind = "call" /\ r.subagent = tag /\ HeardOf(r) = <<>> /\ SpeakersOf(r) \subseteq {"call"}
    BY <2>3, CallRecordIs
  <2>. QED  BY <2>4
<1>7. Marked(r)
  BY <1>6, ShortSequences DEF Marked
<1>8. PICK one : one = <<r>>
  OBVIOUS
<1>9. Listened(records \o one)
  <2>1. IsSequence(one) /\ Range(one) = {r}
    BY <1>8, ShortSequences
  <2>. QED  BY <1>4, <1>6, <1>7, <2>1, ListenedMore
<1>10. prompt'[1].body = records \o one
  <2>1. prompt'[1].body = Append(records, r)
    BY <1>5 DEF BuildPrompt, Build, buildUserBody
  <2>2. records \in Seq(Range(records) \cup {r})
    <3>. DEFINE X == Range(records) \cup {r}
    <3>1. records \in Seq(Range(records)) /\ Range(records) \subseteq X
      BY <1>4 DEF Listened, IsSequence
    <3>. HIDE DEF X
    <3>2. records \in Seq(X)
      BY <3>1, SeqMonotonic
    <3>. QED  BY <3>2 DEF X
  <2>3. r \in Range(records) \cup {r}
    OBVIOUS
  <2>4. Append(records, r) = records \o <<r>>
    BY <2>2, <2>3, AppendIsConcat
  <2>. QED  BY <1>8, <2>1, <2>4
<1>11. Listened(prompt[1].body)'
  <2>1. PICK body : body = records \o one
    OBVIOUS
  <2>2. Listened(body)' /\ prompt'[1].body = body
    BY <1>2, <1>9, <1>10, <2>1
  <2>. QED  BY <2>2 DEF Listened
<1>. QED  BY <1>1, <1>2, <1>3, <1>11 DEF HeardInv

LEMMA HeardStep == HeardInv /\ [Next]_vars => HeardInv'
<1>. SUFFICES ASSUME HeardInv, [Next]_vars PROVE HeardInv'
  OBVIOUS
<1>1. CASE Start
  BY <1>1, UnheardStep DEF Start, environment, Goto, Early
<1>2. CASE ReadSettings
  BY <1>2, UnheardStep DEF ReadSettings, environment, Goto, Early
<1>3. CASE SettingsRead
  BY <1>3, UnheardStep DEF SettingsRead, environment, Goto, Early
<1>4. CASE LoadInstructions
  BY <1>4, UnheardStep DEF LoadInstructions, environment, Goto, Early
<1>5. CASE CheckSkippable
  BY <1>5, UnheardStep DEF CheckSkippable, environment, Goto, Early
<1>6. CASE FindTranscripts
  BY <1>6, FindTranscriptsStep
<1>7. CASE ReadTranscript
  BY <1>7, ReadTranscriptStep
<1>8. CASE BuildPrompt
  BY <1>8, BuildPromptStep
<1>9. CASE Ended \/ UNCHANGED vars
  BY <1>9, UnheardStep DEF Ended, vars, environment
<1>10. ASSUME NEW f \in DOMAIN settings, EditSettings(f) PROVE HeardInv'
  BY <1>10, UnheardStep DEF EditSettings
<1>11. ASSUME NEW f \in DOMAIN written, AppendLine(f) PROVE HeardInv'
  BY <1>11, AppendStep
<1>. QED  BY <1>1, <1>2, <1>3, <1>4, <1>5, <1>6, <1>7, <1>8, <1>9, <1>10, <1>11 DEF Next

-----------------------------------------------------------------------------
\* Reading the sessions while Claude Code appends to them keeps its invariant.
THEOREM HeardInvCorrect == Spec => []HeardInv
<1>. QED  BY HeardInit, HeardStep, PTL DEF Spec

\* "The classifier sees ONLY the user's stated intent (real user prompts) and
\* the agent's tool calls (sanitized inputs)" (prompt.go): what is shown as the
\* user's is what the user has said at some moment of the call, all of it and
\* in its order, and besides it only tool calls, for every call, session,
\* subagent and tool, whatever is appended while the sessions are read.
THEOREM OnlyUserArgues == Spec => []OnlyTheUserArgues
<1>1. HeardInv => OnlyTheUserArgues
  <2>. SUFFICES ASSUME HeardInv, stage = "done", NEW body, body = prompt[1].body
                PROVE  /\ IsPrefix(SaidBy(MainCount(atStart)), Heard(body))
                       /\ IsPrefix(Heard(body), SaidBy(MainCount(written)))
                       /\ \A i \in DOMAIN body :
                            \/ SpeakersOf(body[i]) \subseteq {"user", "call"}
                            \/ body[i].kind = "user" /\ body[i].subagent # ""
    BY DEF OnlyTheUserArgues
  <2>1. Listened(body) /\ call \in Calls /\ SessionsGrow
    BY DEF HeardInv
  <2>2. PICK k \in MainCount(atStart) .. MainCount(written) : Heard(body) = SaidBy(k)
    BY <2>1 DEF Listened
  <2>3. PICK lines, m, n : lines = MainLines /\ m = MainCount(atStart) /\ n = MainCount(written)
    OBVIOUS
  <2>4. /\ IsSequence(lines) /\ \A line \in Range(lines) : EntryMarked(line.entry.content)
        /\ m \in Nat /\ n \in Nat /\ n <= Len(lines)
    BY <2>1, <2>3, SessionsAre
  <2>5. Len(lines) \in Nat
    BY <2>4, LenProperties DEF IsSequence
  <2>6. /\ m \in 0 .. Len(lines) /\ k \in m .. Len(lines)
        /\ k \in 0 .. Len(lines) /\ n \in k .. Len(lines)
    BY <2>2, <2>3, <2>4, <2>5
  <2>7. IsPrefix(SaidBy(m), SaidBy(k)) /\ IsPrefix(SaidBy(k), SaidBy(n))
    BY <2>3, <2>4, <2>6, SaidFirst DEF SaidBy
  <2>8. \A i \in DOMAIN body : Marked(body[i])
    BY <2>1 DEF Listened, Range
  <2>. QED  BY <2>2, <2>3, <2>7, <2>8 DEF Marked
<1>. QED  BY <1>1, HeardInvCorrect, PTL

-----------------------------------------------------------------------------
(***************************************************************************)
(* The instructions.                                                       *)
(***************************************************************************)

\* The texts a file has of its own, and those of all files among some paths.
OwnOf(files, f) == {piece.says : piece \in {p \in Range(files[f].body) : ~IsImport(p)}}
TextsOf(files, F) == UNION {OwnOf(files, f) : f \in DOMAIN files \cap F}

OnceEach(s) == \A i, j \in 1..Len(s) : s[i] = s[j] => i = j

FilesApart(files) ==
    /\ \A f \in DOMAIN files :
        /\ f \in Names /\ RealPath(f) = f
        /\ IsSequence(files[f].body)
        /\ \A piece \in Range(files[f].body) :
                IsImport(piece) => resolveImportPath(piece.ref, f) \in Names
    /\ TextsApart(files)

Readings(files) ==
    [ok : BOOLEAN, text : Seq(TextsOf(files, Names)), sources : Seq(Names), visited : SUBSET Names]

\* What is read is, once each, the texts of the files newly visited.
Reads(files, visited, r) ==
    r.ok => /\ visited \subseteq r.visited
            /\ OnceEach(r.text) /\ Range(r.text) = TextsOf(files, r.visited \ visited)

Readers(files) ==
    {g \in [Names \X SUBSET Names -> Readings(files)] :
        \A path \in Names, visited \in SUBSET Names : Reads(files, visited, g[<<path, visited>>])}

\* Two sequences without repetitions and without a common element.
LEMMA ConcatOnce ==
    ASSUME NEW S, NEW a \in Seq(S), NEW b \in Seq(S), OnceEach(a), OnceEach(b),
           Range(a) \cap Range(b) = {}
    PROVE  OnceEach(a \o b)
<1>1. /\ Len(a) \in Nat /\ Len(b) \in Nat /\ Len(a \o b) = Len(a) + Len(b)
      /\ \A i \in 1 .. Len(a) + Len(b) : (a \o b)[i] = IF i <= Len(a) THEN a[i] ELSE b[i - Len(a)]
  BY ConcatProperties, LenProperties
<1>2. (\A i \in 1..Len(a) : a[i] \in Range(a)) /\ (\A i \in 1..Len(b) : b[i] \in Range(b))
  BY LenProperties DEF Range
<1>3. ASSUME NEW i \in 1 .. Len(a) + Len(b), NEW j \in 1 .. Len(a) + Len(b),
             (a \o b)[i] = (a \o b)[j]
      PROVE  i = j
  <2>1. i <= Len(a) => i \in 1..Len(a) /\ (a \o b)[i] = a[i] /\ (a \o b)[i] \in Range(a)
    BY <1>1, <1>2
  <2>2. j <= Len(a) => j \in 1..Len(a) /\ (a \o b)[j] = a[j] /\ (a \o b)[j] \in Range(a)
    BY <1>1, <1>2
  <2>3. ~(i <= Len(a)) => i - Len(a) \in 1..Len(b) /\ (a \o b)[i] = b[i - Len(a)] /\ (a \o b)[i] \in Range(b)
    BY <1>1, <1>2
  <2>4. ~(j <= Len(a)) => j - Len(a) \in 1..Len(b) /\ (a \o b)[j] = b[j - Len(a)] /\ (a \o b)[j] \in Range(b)
    BY <1>1, <1>2
  <2>5. CASE i <= Len(a) /\ j <= Len(a)
    BY <1>3, <2>1, <2>2, <2>5 DEF OnceEach
  <2>6. CASE ~(i <= Len(a)) /\ ~(j <= Len(a))
    <3>1. i - Len(a) = j - Len(a)
      BY <1>3, <2>3, <2>4, <2>6 DEF OnceEach
    <3>. QED  BY <1>1, <3>1
  <2>7. (i <= Len(a)) = (j <= Len(a))
    BY <1>3, <2>1, <2>2, <2>3, <2>4
  <2>. QED  BY <2>5, <2>6, <2>7
<1>. QED  BY <1>1, <1>3 DEF OnceEach

\* Concatenation stays within the elements, and keeps them all.
LEMMA RangeOfConcat ==
    ASSUME NEW S, NEW a \in Seq(S), NEW b \in Seq(S)
    PROVE  a \o b \in Seq(S) /\ Range(a \o b) = Range(a) \cup Range(b)
BY ConcatProperties, RangeConcatenation

\* Different files have different texts.
LEMMA TextsAreApart ==
    ASSUME NEW files, FilesApart(files)
    PROVE  /\ \A F, G : F \cap G = {} => TextsOf(files, F) \cap TextsOf(files, G) = {}
           /\ \A F, G : TextsOf(files, F \cup G) = TextsOf(files, F) \cup TextsOf(files, G)
           /\ TextsOf(files, {}) = {}
           /\ \A F : \A f \in DOMAIN files \cap F : OwnOf(files, f) \subseteq TextsOf(files, F)
<1>1. ASSUME NEW F, NEW G, F \cap G = {}, NEW f \in DOMAIN files \cap F, NEW g \in DOMAIN files \cap G,
             NEW x \in OwnOf(files, f), x \in OwnOf(files, g)
      PROVE  FALSE
  <2>1. PICK p \in Range(files[f].body) : ~IsImport(p) /\ x = p.says
    BY DEF OwnOf
  <2>2. PICK q \in Range(files[g].body) : ~IsImport(q) /\ x = q.says
    BY <1>1 DEF OwnOf
  <2>3. PICK i \in DOMAIN files[f].body : p = files[f].body[i]
    BY DEF Range
  <2>4. PICK j \in DOMAIN files[g].body : q = files[g].body[j]
    BY DEF Range
  <2>5. f = g
    BY <2>1, <2>2, <2>3, <2>4 DEF FilesApart, TextsApart
  <2>. QED  BY <1>1, <2>5
<1>2. \A F, G : F \cap G = {} => TextsOf(files, F) \cap TextsOf(files, G) = {}
  BY <1>1 DEF TextsOf
<1>. QED  BY <1>2 DEF TextsOf

\* The readings a piece, a file and the loader put together are readings.
LEMMA ContinuedReading ==
    ASSUME NEW files, NEW acc \in Readings(files), NEW r \in Readings(files)
    PROVE  /\ Continued(acc, r) \in Readings(files)
           /\ Continued(acc, r).ok = r.ok /\ Continued(acc, r).visited = r.visited
           /\ Continued(acc, r).text = acc.text \o r.text
<1>1. acc.text \o r.text \in Seq(TextsOf(files, Names)) /\ acc.sources \o r.sources \in Seq(Names)
  BY ConcatProperties DEF Readings
<1>. QED  BY <1>1 DEF Continued, Readings

\* A reading that went well is one.
LEMMA ReadingIs ==
    ASSUME NEW files, NEW text \in Seq(TextsOf(files, Names)), NEW from \in Seq(Names),
           NEW visited \in SUBSET Names
    PROVE  /\ Reading(text, from, visited) \in Readings(files)
           /\ Reading(text, from, visited).ok = TRUE
           /\ Reading(text, from, visited).text = text
           /\ Reading(text, from, visited).visited = visited
BY DEF Reading, Readings

\* The texts of the file itself in its first n pieces.
OwnUpTo(body, n) == {body[i].says : i \in {j \in 1..n : ~IsImport(body[j])}}

\* What the body has yielded after n pieces.
ReadUpTo(files, f, visited, n, r) ==
    r.ok => /\ visited \subseteq r.visited /\ OnceEach(r.text)
            /\ Range(r.text) = TextsOf(files, r.visited \ visited) \cup OwnUpTo(files[f].body, n)

\* The texts of a file, piece by piece: each is new.
LEMMA OwnTexts ==
    ASSUME NEW files, FilesApart(files), NEW f \in DOMAIN files
    PROVE  /\ \A n \in 0 .. Len(files[f].body) : OwnUpTo(files[f].body, n) \subseteq OwnOf(files, f)
           /\ OwnUpTo(files[f].body, Len(files[f].body)) = OwnOf(files, f)
           /\ OwnUpTo(files[f].body, 0) = {}
           /\ \A n \in 1 .. Len(files[f].body) :
                /\ IsImport(files[f].body[n]) =>
                     OwnUpTo(files[f].body, n) = OwnUpTo(files[f].body, n - 1)
                /\ ~IsImport(files[f].body[n]) =>
                     OwnUpTo(files[f].body, n) = OwnUpTo(files[f].body, n - 1) \cup {files[f].body[n].says}
           /\ \A n \in 1 .. Len(files[f].body) :
                ~IsImport(files[f].body[n]) =>
                    files[f].body[n].says \in OwnOf(files, f) \ OwnUpTo(files[f].body, n - 1)
<1>. DEFINE body == files[f].body
<1>1. body \in Seq(Range(body)) /\ Len(body) \in Nat /\ DOMAIN body = 1..Len(body)
  BY LenProperties DEF FilesApart, IsSequence
<1>2. \A i, j \in 1..Len(body) :
        ~IsImport(body[i]) /\ ~IsImport(body[j]) /\ body[i].says = body[j].says => i = j
  BY <1>1 DEF FilesApart, TextsApart
<1>3. OwnOf(files, f) = {body[i].says : i \in {j \in 1..Len(body) : ~IsImport(body[j])}}
  BY <1>1 DEF OwnOf, Range
<1>. HIDE DEF body
<1>4. \A n \in 0..Len(body) : OwnUpTo(body, n) \subseteq OwnOf(files, f)
  BY <1>1, <1>3 DEF OwnUpTo
<1>5. OwnUpTo(body, Len(body)) = OwnOf(files, f) /\ OwnUpTo(body, 0) = {}
  BY <1>1, <1>3 DEF OwnUpTo
<1>6. ASSUME NEW n \in 1..Len(body)
      PROVE  /\ IsImport(body[n]) => OwnUpTo(body, n) = OwnUpTo(body, n - 1)
             /\ ~IsImport(body[n]) => OwnUpTo(body, n) = OwnUpTo(body, n - 1) \cup {body[n].says}
  <2>1. \A i : i \in 1..n <=> i \in 1..(n - 1) \/ i = n
    BY <1>1
  <2>. QED  BY <2>1 DEF OwnUpTo
<1>7. ASSUME NEW n \in 1..Len(body), ~IsImport(body[n])
      PROVE  body[n].says \in OwnOf(files, f) /\ body[n].says \notin OwnUpTo(body, n - 1)
  <2>1. \A i \in 1..(n - 1) : i \in 1..Len(body) /\ i # n
    BY <1>1
  <2>. QED  BY <1>2, <1>3, <1>7, <2>1 DEF OwnUpTo
<1>. QED  BY <1>4, <1>5, <1>6, <1>7 DEF body

\* One more piece of the body.
LEMMA PieceStep ==
    ASSUME NEW files, FilesApart(files), NEW f \in DOMAIN files, NEW visited \in SUBSET Names,
           f \in visited, NEW deeper \in Readers(files),
           NEW n \in 1 .. Len(files[f].body), NEW acc \in Readings(files)
    PROVE  LET r == PieceRead(files[f].body[n], f, acc.visited, deeper)
           IN  /\ Continued(acc, r) \in Readings(files)
               /\ acc.ok /\ ReadUpTo(files, f, visited, n - 1, acc) =>
                        ReadUpTo(files, f, visited, n, Continued(acc, r))
<1>. DEFINE body == files[f].body
            piece == body[n]
            r == PieceRead(piece, f, acc.visited, deeper)
<1>1. piece \in Range(body) /\ Len(body) \in Nat
  BY LenProperties, ElementOfSeq DEF FilesApart, IsSequence
<1>2. acc.visited \in SUBSET Names /\ acc.text \in Seq(TextsOf(files, Names)) /\ f \in Names
  BY DEF Readings, FilesApart
<1>3. /\ IsImport(piece) => OwnUpTo(body, n) = OwnUpTo(body, n - 1)
      /\ ~IsImport(piece) => OwnUpTo(body, n) = OwnUpTo(body, n - 1) \cup {piece.says}
      /\ OwnUpTo(body, n - 1) \subseteq OwnOf(files, f)
      /\ ~IsImport(piece) => piece.says \in OwnOf(files, f) \ OwnUpTo(body, n - 1)
  <2>. HIDE DEF piece
  <2>1. n - 1 \in 0..Len(body) /\ n \in 1..Len(files[f].body) /\ piece = files[f].body[n]
    BY <1>1 DEF piece
  <2>2. OwnUpTo(body, n - 1) \subseteq OwnOf(files, f)
    BY <2>1, OwnTexts
  <2>3. IsImport(body[n]) => OwnUpTo(body, n) = OwnUpTo(body, n - 1)
    BY <2>1, OwnTexts
  <2>5. ~IsImport(body[n]) => OwnUpTo(body, n) = OwnUpTo(body, n - 1) \cup {body[n].says}
    <3>. HIDE DEF body
    <3>1. \A i : i \in 1..n <=> i \in 1..(n - 1) \/ i = n
      BY <1>1, <2>1 DEF body
    <3>. QED  BY <3>1 DEF OwnUpTo
  <2>4. ~IsImport(body[n]) => body[n].says \in OwnOf(files, f) \ OwnUpTo(body, n - 1)
    BY <2>1, OwnTexts
  <2>. QED  BY <2>2, <2>3, <2>4, <2>5 DEF piece
<1>4. /\ \A F, G : F \cap G = {} => TextsOf(files, F) \cap TextsOf(files, G) = {}
      /\ \A F, G : TextsOf(files, F \cup G) = TextsOf(files, F) \cup TextsOf(files, G)
      /\ TextsOf(files, {}) = {}
      /\ OwnOf(files, f) \subseteq TextsOf(files, visited)
      /\ OwnOf(files, f) \subseteq TextsOf(files, Names)
  BY <1>2, TextsAreApart
<1>5. CASE IsImport(piece)
  <2>1. PICK path \in Names : path = resolveImportPath(piece.ref, f)
    BY <1>1, <1>5 DEF FilesApart
  <2>2. r = deeper[<<path, acc.visited>>]
    BY <1>5, <2>1 DEF PieceRead
  <2>3. r \in Readings(files) /\ Reads(files, acc.visited, r)
    BY <1>2, <2>2 DEF Readers
  <2>. HIDE DEF r, piece, body
  <2>4. /\ Continued(acc, r) \in Readings(files)
        /\ Continued(acc, r).ok = r.ok /\ Continued(acc, r).visited = r.visited
        /\ Continued(acc, r).text = acc.text \o r.text
    BY <2>3, ContinuedReading
  <2>5. ASSUME acc.ok, ReadUpTo(files, f, visited, n - 1, acc), r.ok
        PROVE  /\ visited \subseteq r.visited /\ OnceEach(acc.text \o r.text)
               /\ Range(acc.text \o r.text) = TextsOf(files, r.visited \ visited) \cup OwnUpTo(body, n)
    <3>1. /\ visited \subseteq acc.visited /\ OnceEach(acc.text)
          /\ Range(acc.text) = TextsOf(files, acc.visited \ visited) \cup OwnUpTo(body, n - 1)
      BY <2>5 DEF ReadUpTo, body
    <3>2. /\ acc.visited \subseteq r.visited /\ OnceEach(r.text)
          /\ Range(r.text) = TextsOf(files, r.visited \ acc.visited)
      BY <2>3, <2>5 DEF Reads
    <3>3. r.text \in Seq(TextsOf(files, Names))
      BY <2>3 DEF Readings
    <3>4. Range(acc.text) \cap Range(r.text) = {}
      <4>1. TextsOf(files, acc.visited \ visited) \cap TextsOf(files, r.visited \ acc.visited) = {}
        BY <1>4
      <4>2. TextsOf(files, visited) \cap TextsOf(files, r.visited \ acc.visited) = {}
        <5>1. visited \cap (r.visited \ acc.visited) = {}
          BY <3>1
        <5>. QED  BY <1>4, <5>1
      <4>. QED  BY <1>3, <1>4, <3>1, <3>2, <4>1, <4>2
    <3>5. OnceEach(acc.text \o r.text) /\ Range(acc.text \o r.text) = Range(acc.text) \cup Range(r.text)
      <4>1. PICK T, one, two : T = TextsOf(files, Names) /\ one = acc.text /\ two = r.text
        OBVIOUS
      <4>2. one \in Seq(T) /\ two \in Seq(T)
        BY <1>2, <3>3, <4>1
      <4>3. OnceEach(one \o two) /\ Range(one \o two) = Range(one) \cup Range(two)
        <5>1. OnceEach(one) /\ OnceEach(two) /\ Range(one) \cap Range(two) = {}
          BY <3>1, <3>2, <3>4, <4>1
        <5>. QED  BY <4>2, <5>1, ConcatOnce, RangeOfConcat
      <4>. QED  BY <4>1, <4>3
    <3>6. TextsOf(files, r.visited \ visited)
            = TextsOf(files, acc.visited \ visited) \cup TextsOf(files, r.visited \ acc.visited)
      <4>1. r.visited \ visited = (acc.visited \ visited) \cup (r.visited \ acc.visited)
        BY <3>1, <3>2
      <4>. QED  BY <1>4, <4>1
    <3>. QED  BY <1>3, <1>5, <3>1, <3>2, <3>5, <3>6
  <2>. QED  BY <2>4, <2>5 DEF ReadUpTo, r, piece, body
<1>6. CASE ~IsImport(piece)
  <2>1. PICK says \in OwnOf(files, f) : says = piece.says /\ says \notin OwnUpTo(body, n - 1)
    BY <1>3, <1>6
  <2>2. <<says>> \in Seq(TextsOf(files, Names)) /\ <<>> \in Seq(Names)
        /\ Range(<<says>>) = {says} /\ OnceEach(<<says>>)
    BY <1>4, <2>1 DEF Range, OnceEach
  <2>3. r = Reading(<<says>>, <<>>, acc.visited)
    BY <1>6, <2>1 DEF PieceRead
  <2>4. r \in Readings(files) /\ r.ok = TRUE /\ r.text = <<says>> /\ r.visited = acc.visited
    <3>1. PICK text, from : text = <<says>> /\ from = <<>>
      OBVIOUS
    <3>2. text \in Seq(TextsOf(files, Names)) /\ from \in Seq(Names)
      BY <2>2, <3>1
    <3>3. r = Reading(text, from, acc.visited)
      BY <2>3, <3>1
    <3>4. PICK seen : seen = acc.visited
      OBVIOUS
    <3>5. seen \in SUBSET Names
      BY <1>2, <3>4
    <3>6. /\ Reading(text, from, seen) \in Readings(files)
          /\ Reading(text, from, seen).ok = TRUE
          /\ Reading(text, from, seen).text = text
          /\ Reading(text, from, seen).visited = seen
      BY <3>2, <3>5, Zenon DEF Reading, Readings
    <3>. QED  BY <3>1, <3>3, <3>4, <3>6, Zenon
  <2>. HIDE DEF r, piece, body
  <2>5. /\ Continued(acc, r) \in Readings(files)
        /\ Continued(acc, r).ok = r.ok /\ Continued(acc, r).visited = acc.visited
        /\ Continued(acc, r).text = acc.text \o <<says>>
    <3>0. r \in Readings(files)
      BY <2>4
    <3>1. /\ Continued(acc, r) \in Readings(files)
          /\ Continued(acc, r).ok = r.ok /\ Continued(acc, r).visited = r.visited
          /\ Continued(acc, r).text = acc.text \o r.text
      BY <3>0, ContinuedReading
    <3>. QED  BY <2>4, <3>1, Zenon
  <2>6. ASSUME acc.ok, ReadUpTo(files, f, visited, n - 1, acc)
        PROVE  /\ visited \subseteq acc.visited /\ OnceEach(acc.text \o <<says>>)
               /\ Range(acc.text \o <<says>>) = TextsOf(files, acc.visited \ visited) \cup OwnUpTo(body, n)
    <3>1. /\ visited \subseteq acc.visited /\ OnceEach(acc.text)
          /\ Range(acc.text) = TextsOf(files, acc.visited \ visited) \cup OwnUpTo(body, n - 1)
      BY <2>6 DEF ReadUpTo, body
    <3>2. TextsOf(files, visited) \cap TextsOf(files, acc.visited \ visited) = {}
      BY <1>4
    <3>3. Range(acc.text) \cap Range(<<says>>) = {}
      BY <1>4, <2>1, <2>2, <3>1, <3>2
    <3>4. OnceEach(acc.text \o <<says>>) /\ Range(acc.text \o <<says>>) = Range(acc.text) \cup {says}
      <4>1. PICK T, one, two : T = TextsOf(files, Names) /\ one = acc.text /\ two = <<says>>
        OBVIOUS
      <4>2. one \in Seq(T) /\ two \in Seq(T)
        BY <1>2, <2>2, <4>1
      <4>3. OnceEach(one \o two) /\ Range(one \o two) = Range(one) \cup Range(two)
        <5>1. OnceEach(one) /\ OnceEach(two) /\ Range(one) \cap Range(two) = {}
          BY <2>2, <3>1, <3>3, <4>1
        <5>. QED  BY <4>2, <5>1, ConcatOnce, RangeOfConcat
      <4>. QED  BY <2>2, <4>1, <4>3
    <3>. QED  BY <1>3, <1>6, <2>1, <3>1, <3>4
  <2>. QED  BY <2>4, <2>5, <2>6 DEF ReadUpTo, r, piece, body
<1>. QED  BY <1>5, <1>6

\* The body of a file: what its imports newly visit, and its own texts.
LEMMA BodyReadIs ==
    ASSUME NEW files, FilesApart(files), NEW f \in DOMAIN files, NEW visited \in SUBSET Names,
           f \in visited, NEW deeper \in Readers(files)
    PROVE  LET r == BodyRead(files[f].body, f, visited, deeper)
           IN  r \in Readings(files) /\ ReadUpTo(files, f, visited, Len(files[f].body), r)
<1>. DEFINE body == files[f].body
            N == Len(body)
            S == Readings(files)
            start == Reading(<<>>, <<f>>, visited)
            Step(n, acc) == IF acc.ok THEN Continued(acc, PieceRead(body[n], f, acc.visited, deeper)) ELSE acc
            IsRead(g) == g = [n \in 0..N |-> IF n = 0 THEN start ELSE Step(n, g[n - 1])]
            h == [p \in (1..N) \X S |-> Step(p[1], p[2])]
<1>1. N \in Nat
  BY LenProperties DEF FilesApart, IsSequence
<1>2. start \in S /\ ReadUpTo(files, f, visited, 0, start)
  <2>1. PICK text, from : text = <<>> /\ from = <<f>>
    OBVIOUS
  <2>2. text \in Seq(TextsOf(files, Names)) /\ from \in Seq(Names)
    BY <2>1 DEF FilesApart
  <2>3. start = Reading(text, from, visited)
    BY <2>1
  <2>4. start \in S /\ start.text = text /\ start.visited = visited
    BY <2>2, <2>3, Zenon DEF Reading, Readings
  <2>5. Range(<<>>) = {} /\ OnceEach(<<>>) /\ visited \ visited = {}
    BY DEF Range, OnceEach
  <2>6. TextsOf(files, {}) = {} /\ OwnUpTo(body, 0) = {}
    BY TextsAreApart, OwnTexts
  <2>. HIDE DEF start, S
  <2>. QED  BY <2>1, <2>4, <2>5, <2>6 DEF ReadUpTo
<1>3. ASSUME NEW n \in 1..N, NEW acc \in S
      PROVE  /\ Step(n, acc) \in S
             /\ ReadUpTo(files, f, visited, n - 1, acc) => ReadUpTo(files, f, visited, n, Step(n, acc))
  <2>1. CASE acc.ok
    <3>1. /\ Continued(acc, PieceRead(body[n], f, acc.visited, deeper)) \in S
          /\ acc.ok /\ ReadUpTo(files, f, visited, n - 1, acc) =>
                ReadUpTo(files, f, visited, n, Continued(acc, PieceRead(body[n], f, acc.visited, deeper)))
      BY PieceStep, Zenon
    <3>. QED  BY <2>1, <3>1, Zenon
  <2>2. CASE ~acc.ok
    BY <2>2, Zenon DEF ReadUpTo
  <2>. QED  BY <2>1, <2>2, Zenon
<1>. HIDE DEF S, N, start, Step
<1>4. h \in [(1..N) \X S -> S] /\ \A n \in 1..N, x \in S : h[<<n, x>>] = Step(n, x)
  <2>1. ASSUME NEW p \in (1..N) \X S PROVE Step(p[1], p[2]) \in S
    <3>1. p[1] \in 1..N /\ p[2] \in S
      OBVIOUS
    <3>. QED  BY <1>3, <3>1
  <2>2. h \in [(1..N) \X S -> S]
    BY <2>1
  <2>. QED  BY <2>2
<1>. HIDE DEF h
<1>5. \E g \in [0..N -> S] : Iterates(g, start, h, N)
  BY <1>1, <1>2, <1>4, PositionRecursion, Zenon
<1>6. ASSUME NEW g \in [0..N -> S], Iterates(g, start, h, N) PROVE IsRead(g)
  <2>1. ASSUME NEW n \in 0..N PROVE g[n] = IF n = 0 THEN start ELSE Step(n, g[n - 1])
    <3>1. CASE n = 0
      BY <1>6, <3>1 DEF Iterates
    <3>2. CASE n # 0
      <4>1. n \in 1..N /\ n - 1 \in 0..N
        BY <1>1, <3>2
      <4>2. g[n - 1] \in S /\ g[n] = h[<<n, g[n - 1]>>]
        BY <1>6, <4>1 DEF Iterates
      <4>. QED  BY <1>4, <3>2, <4>1, <4>2
    <3>. QED  BY <3>1, <3>2
  <2>2. g = [n \in 0..N |-> g[n]]
    OBVIOUS
  <2>. QED  BY <2>1, <2>2, Zenon
<1>7. PICK g : IsRead(g) /\ BodyRead(body, f, visited, deeper) = g[N]
  <2>. DEFINE upTo == CHOOSE g : IsRead(g)
  <2>1. IsRead(upTo)
    BY <1>5, <1>6, Zenon
  <2>2. BodyRead(body, f, visited, deeper) = upTo[N]
    BY Zenon DEF BodyRead, N, start, Step
  <2>. HIDE DEF upTo
  <2>. QED  BY <2>1, <2>2, Zenon
<1>. DEFINE M == {n \in Nat : n <= N => g[n] \in S /\ ReadUpTo(files, f, visited, n, g[n])}
<1>8. 0 \in M
  <2>1. 0 \in 0..N
    BY <1>1
  <2>2. g[0] = start
    BY <1>7, <2>1
  <2>. QED  BY <1>2, <2>2
<1>9. ASSUME NEW n \in M PROVE n + 1 \in M
  <2>. SUFFICES ASSUME n + 1 <= N
                PROVE  g[n + 1] \in S /\ ReadUpTo(files, f, visited, n + 1, g[n + 1])
    BY DEF M
  <2>1. n + 1 \in 1..N /\ n + 1 \in 0..N /\ n + 1 # 0 /\ (n + 1) - 1 = n /\ n <= N
    BY <1>1
  <2>2. g[n + 1] = Step(n + 1, g[n])
    BY <1>7, <2>1
  <2>3. g[n] \in S /\ ReadUpTo(files, f, visited, n, g[n])
    BY <2>1 DEF M
  <2>4. PICK m, acc : m = n + 1 /\ acc = g[n]
    OBVIOUS
  <2>5. m \in 1..N /\ m - 1 = n /\ acc \in S
    BY <2>1, <2>3, <2>4
  <2>6. Step(m, acc) \in S /\ ReadUpTo(files, f, visited, m, Step(m, acc))
    BY <1>3, <2>3, <2>4, <2>5
  <2>. QED  BY <2>2, <2>4, <2>6
<1>10. N \in M
  <2>. HIDE DEF M
  <2>1. M = Nat
    BY <1>8, <1>9, NatSetInduction DEF M
  <2>. QED  BY <1>1, <2>1
<1>. QED  BY <1>7, <1>10, <1>1 DEF S, N

\* One file: its texts, if it has not been visited before.
LEMMA FileReadIs ==
    ASSUME NEW files, FilesApart(files), NEW path \in Names, NEW visited \in SUBSET Names,
           NEW deeper \in Readers(files)
    PROVE  LET r == FileRead(files, path, visited, deeper)
           IN  /\ r \in Readings(files) /\ Reads(files, visited, r)
               /\ r.ok /\ RealPath(path) \in DOMAIN files => RealPath(path) \in r.visited
<1>. DEFINE r == FileRead(files, path, visited, deeper)
<1>1. PICK file : file = RealPath(path)
  OBVIOUS
<1>2. PICK none : none = <<>>
  OBVIOUS
<1>3. /\ none \in Seq(TextsOf(files, Names)) /\ none \in Seq(Names)
      /\ Range(none) = {} /\ OnceEach(none) /\ TextsOf(files, {}) = {} /\ visited \ visited = {}
  BY <1>2, TextsAreApart DEF Range, OnceEach
<1>4. CASE file \notin DOMAIN files \/ file \in visited
  <2>1. r = Reading(none, none, visited)
    BY <1>1, <1>2, <1>4 DEF FileRead
  <2>2. r \in Readings(files) /\ r.text = none /\ r.visited = visited
    <3>. HIDE DEF r
    <3>. QED  BY <1>3, <2>1 DEF Reading, Readings
  <2>. HIDE DEF r
  <2>3. Reads(files, visited, r)
    BY <1>3, <2>2 DEF Reads
  <2>. QED  BY <1>1, <1>4, <2>2, <2>3 DEF r
<1>5. CASE ~(file \notin DOMAIN files \/ file \in visited) /\ files[file].state = "unreadable"
  <2>1. r = [ok |-> FALSE, text |-> none, sources |-> none, visited |-> visited]
    BY <1>1, <1>2, <1>5 DEF FileRead
  <2>2. r \in Readings(files) /\ r.ok = FALSE
    <3>. HIDE DEF r
    <3>. QED  BY <1>3, <2>1 DEF Readings
  <2>. QED  BY <2>2 DEF Reads
<1>6. CASE ~(file \notin DOMAIN files \/ file \in visited) /\ files[file].state # "unreadable"
  <2>1. PICK seen : seen = Visited(visited, file, path)
    OBVIOUS
  <2>2. r = BodyRead(files[file].body, file, seen, deeper)
    BY <1>1, <1>6, <2>1 DEF FileRead
  <2>3. seen = visited \cup {file, path} /\ seen \in SUBSET Names /\ file \in seen
    BY <1>6, <2>1 DEF Visited, FilesApart
  <2>4. r \in Readings(files) /\ ReadUpTo(files, file, seen, Len(files[file].body), r)
    BY <1>6, <2>2, <2>3, BodyReadIs
  <2>. HIDE DEF r
  <2>5. OwnUpTo(files[file].body, Len(files[file].body)) = OwnOf(files, file)
    BY <1>6, OwnTexts
  <2>6. TextsOf(files, {file, path} \ visited) = OwnOf(files, file)
    <3>1. path \in DOMAIN files => path = file
      BY <1>1 DEF FilesApart
    <3>2. DOMAIN files \cap ({file, path} \ visited) = {file}
      BY <1>6, <3>1
    <3>. QED  BY <3>2 DEF TextsOf
  <2>7. ASSUME r.ok
        PROVE  /\ visited \subseteq r.visited /\ OnceEach(r.text) /\ file \in r.visited
               /\ Range(r.text) = TextsOf(files, r.visited \ visited)
    <3>1. /\ seen \subseteq r.visited /\ OnceEach(r.text)
          /\ Range(r.text) = TextsOf(files, r.visited \ seen) \cup OwnOf(files, file)
      BY <2>4, <2>5, <2>7 DEF ReadUpTo
    <3>2. r.visited \ visited = (r.visited \ seen) \cup ({file, path} \ visited)
      BY <2>3, <3>1
    <3>3. TextsOf(files, r.visited \ visited)
            = TextsOf(files, r.visited \ seen) \cup TextsOf(files, {file, path} \ visited)
      BY <3>2, TextsAreApart
    <3>. QED  BY <2>3, <2>6, <3>1, <3>3
  <2>. QED  BY <1>1, <2>4, <2>7 DEF Reads, r
<1>. QED  BY <1>4, <1>5, <1>6 DEF r

\* The reader, with imports nested to the limit.
LEMMA ReaderIs ==
    ASSUME NEW files, FilesApart(files), MaxIncludeDepth \in Nat
    PROVE  /\ readWithImports(files) \in Readers(files)
           /\ \A path \in Names, visited \in SUBSET Names :
                LET r == readWithImports(files)[<<path, visited>>]
                IN  r.ok /\ RealPath(path) \in DOMAIN files => RealPath(path) \in r.visited
<1>. DEFINE N == MaxIncludeDepth + 1
            P == Names \X SUBSET Names
            S == Readers(files)
            IsLevel(g) ==
                g = [n \in 0..N |->
                        [at \in P |-> IF n = 0 THEN Reading(<<>>, <<>>, at[2])
                                      ELSE FileRead(files, at[1], at[2], g[n - 1])]]
            start == [at \in P |-> Reading(<<>>, <<>>, at[2])]
            Further(deeper) == [at \in P |-> FileRead(files, at[1], at[2], deeper)]
            h == [p \in (1..N) \X S |-> Further(p[2])]
<1>1. N \in Nat /\ N \in 1..N /\ N - 1 \in 0..N
  OBVIOUS
<1>2. start \in S
  <2>1. PICK none : none = <<>>
    OBVIOUS
  <2>2. /\ none \in Seq(TextsOf(files, Names)) /\ none \in Seq(Names)
        /\ Range(none) = {} /\ OnceEach(none) /\ TextsOf(files, {}) = {}
    BY <2>1, TextsAreApart DEF Range, OnceEach
  <2>3. ASSUME NEW path \in Names, NEW visited \in SUBSET Names
        PROVE  start[<<path, visited>>] \in Readings(files) /\ Reads(files, visited, start[<<path, visited>>])
    <3>1. PICK r : r = Reading(none, none, visited)
      OBVIOUS
    <3>2. start[<<path, visited>>] = r
      BY <2>1, <3>1
    <3>3. r \in Readings(files) /\ r.text = none /\ r.visited = visited /\ visited \ visited = {}
      BY <2>2, <3>1 DEF Reading, Readings
    <3>4. Reads(files, visited, r)
      BY <2>2, <3>3 DEF Reads
    <3>. QED  BY <3>2, <3>3, <3>4
  <2>4. \A at \in P : at[1] \in Names /\ at[2] \in SUBSET Names /\ at = <<at[1], at[2]>>
    OBVIOUS
  <2>5. start = [at \in P |-> start[at]]
    OBVIOUS
  <2>. HIDE DEF start
  <2>6. start \in [P -> Readings(files)]
    <3>1. \A at \in P : start[at] \in Readings(files)
      BY <2>3, <2>4
    <3>. QED  BY <2>5, <3>1
  <2>. QED  BY <2>3, <2>6 DEF Readers
<1>3. ASSUME NEW deeper \in S
      PROVE  /\ Further(deeper) \in S
             /\ \A path \in Names, visited \in SUBSET Names :
                    LET r == Further(deeper)[<<path, visited>>]
                    IN  r.ok /\ RealPath(path) \in DOMAIN files => RealPath(path) \in r.visited
  <2>1. ASSUME NEW path \in Names, NEW visited \in SUBSET Names
        PROVE  LET r == Further(deeper)[<<path, visited>>]
               IN  /\ r \in Readings(files) /\ Reads(files, visited, r)
                   /\ r.ok /\ RealPath(path) \in DOMAIN files => RealPath(path) \in r.visited
    <3>1. Further(deeper)[<<path, visited>>] = FileRead(files, path, visited, deeper)
      OBVIOUS
    <3>2. PICK r : r = FileRead(files, path, visited, deeper)
      OBVIOUS
    <3>3. /\ r \in Readings(files) /\ Reads(files, visited, r)
          /\ r.ok /\ RealPath(path) \in DOMAIN files => RealPath(path) \in r.visited
      BY <3>2, FileReadIs
    <3>. QED  BY <3>1, <3>2, <3>3
  <2>4. \A at \in P : at[1] \in Names /\ at[2] \in SUBSET Names /\ at = <<at[1], at[2]>>
    OBVIOUS
  <2>5. Further(deeper) = [at \in P |-> Further(deeper)[at]]
    OBVIOUS
  <2>. HIDE DEF Further
  <2>6. Further(deeper) \in [P -> Readings(files)]
    <3>1. \A at \in P : Further(deeper)[at] \in Readings(files)
      BY <2>1, <2>4
    <3>. QED  BY <2>5, <3>1
  <2>. QED  BY <2>1, <2>6 DEF Readers
<1>. HIDE DEF S, N, start, Further
<1>4. h \in [(1..N) \X S -> S] /\ \A n \in 1..N, x \in S : h[<<n, x>>] = Further(x)
  <2>1. \A p \in (1..N) \X S : p[2] \in S
    OBVIOUS
  <2>2. h \in [(1..N) \X S -> S]
    BY <1>3, <2>1
  <2>. QED  BY <2>2
<1>. HIDE DEF h
<1>5. \E g \in [0..N -> S] : Iterates(g, start, h, N)
  BY <1>1, <1>2, <1>4, PositionRecursion, Zenon
<1>6. ASSUME NEW g \in [0..N -> S], Iterates(g, start, h, N) PROVE IsLevel(g)
  <2>1. ASSUME NEW n \in 0..N
        PROVE  g[n] = [at \in P |-> IF n = 0 THEN Reading(<<>>, <<>>, at[2])
                                    ELSE FileRead(files, at[1], at[2], g[n - 1])]
    <3>1. CASE n = 0
      BY <1>6, <3>1 DEF Iterates, start
    <3>2. CASE n # 0
      <4>1. n \in 1..N /\ n - 1 \in 0..N
        BY <1>1, <3>2
      <4>2. g[n - 1] \in S /\ g[n] = h[<<n, g[n - 1]>>]
        BY <1>6, <4>1 DEF Iterates
      <4>3. g[n] = Further(g[n - 1])
        BY <1>4, <4>1, <4>2
      <4>. QED  BY <3>2, <4>3 DEF Further
    <3>. QED  BY <3>1, <3>2
  <2>2. g = [n \in 0..N |-> g[n]]
    OBVIOUS
  <2>. QED  BY <2>1, <2>2, Zenon
<1>7. PICK g : IsLevel(g) /\ readWithImports(files) = g[N]
  <2>. DEFINE level == CHOOSE g : IsLevel(g)
  <2>1. IsLevel(level)
    BY <1>5, <1>6, Zenon
  <2>2. readWithImports(files) = level[N]
    BY Zenon DEF readWithImports, N
  <2>. HIDE DEF level
  <2>. QED  BY <2>1, <2>2, Zenon
<1>. DEFINE M == {n \in Nat : n <= N => g[n] \in S}
<1>8. g[0] = start /\ \A n \in 1..N : g[n] = Further(g[n - 1])
  <2>1. 0 \in 0..N /\ \A n \in 1..N : n \in 0..N /\ n # 0
    BY <1>1
  <2>2. g[0] = start
    BY <1>7, <2>1 DEF start
  <2>3. ASSUME NEW n \in 1..N PROVE g[n] = Further(g[n - 1])
    <3>1. n \in 0..N /\ n # 0
      BY <2>1
    <3>2. g[n] = [at \in P |-> IF n = 0 THEN Reading(<<>>, <<>>, at[2])
                               ELSE FileRead(files, at[1], at[2], g[n - 1])]
      BY <1>7, <3>1
    <3>. QED  BY <3>1, <3>2 DEF Further
  <2>. QED  BY <2>2, <2>3
<1>9. 0 \in M
  BY <1>2, <1>8
<1>10. ASSUME NEW n \in M PROVE n + 1 \in M
  <2>. SUFFICES ASSUME n + 1 <= N PROVE g[n + 1] \in S
    BY DEF M
  <2>1. n + 1 \in 1..N /\ (n + 1) - 1 = n /\ g[n] \in S
    BY <1>1
  <2>. QED  BY <1>3, <1>8, <2>1
<1>11. g[N - 1] \in S /\ g[N] = Further(g[N - 1])
  <2>. HIDE DEF M
  <2>1. M = Nat
    BY <1>9, <1>10, NatSetInduction DEF M
  <2>2. N - 1 \in M /\ N - 1 <= N
    BY <1>1, <2>1
  <2>. QED  BY <1>1, <1>8, <2>2 DEF M
<1>12. PICK deeper \in S : deeper = g[N - 1]
  BY <1>11
<1>13. readWithImports(files) = Further(deeper)
  BY <1>7, <1>11, <1>12
<1>. QED  BY <1>3, <1>13 DEF S

\* The text of all sections.
ShownIn(sections) == FlattenSeq([i \in DOMAIN sections |-> sections[i].text])

SectionsOf(X, T) == [path : X, text : Seq(T)]

Sections(files) == SectionsOf({r.sources[1] : r \in Readings(files)}, TextsOf(files, Names))

Walks(files) ==
    [ok : BOOLEAN, visited : SUBSET Names, sections : Seq(Sections(files)), sources : Seq(Names)]

\* The sections show, once each, the texts of all files visited.
Shows(files, w) ==
    w.ok => OnceEach(ShownIn(w.sections)) /\ Range(ShownIn(w.sections)) = TextsOf(files, w.visited)

HaveTexts(S, T) == \A y \in S : y.text \in Seq(T)

AndSection(secs, x) == secs \o <<x>>

\* What is shown is texts; one more section adds its own at the end.
LEMMA ShownIsSequence ==
    ASSUME NEW X, NEW T, NEW secs \in Seq(SectionsOf(X, T))
    PROVE  ShownIn(secs) \in Seq(T)
<1>. DEFINE S == SectionsOf(X, T)
            tt == [i \in DOMAIN secs |-> secs[i].text]
<1>1. Len(secs) \in Nat /\ DOMAIN secs = 1 .. Len(secs) /\ \A i \in 1 .. Len(secs) : secs[i] \in S
  BY LenProperties, ElementOfSeq
<1>2. \A y \in S : y.text \in Seq(T)
  BY DEF SectionsOf
<1>. HIDE DEF S
<1>3. tt \in [1 .. Len(secs) -> Seq(T)]
  BY <1>1, <1>2
<1>4. tt \in Seq(Seq(T)) /\ <<>> \in Seq(T)
  BY <1>1, <1>3
<1>5. FlattenSeq(tt) \in Seq(T)
  <2>. HIDE DEF tt
  <2>. QED  BY <1>4, FlattenAppend
<1>. QED  BY <1>5 DEF ShownIn

LEMMA OneMoreSection ==
    ASSUME NEW T, NEW S, HaveTexts(S, T), NEW secs \in Seq(S), NEW x \in S
    PROVE  /\ AndSection(secs, x) \in Seq(S) /\ ShownIn(secs) \in Seq(T)
           /\ ShownIn(AndSection(secs, x)) = ShownIn(secs) \o x.text
<1>. DEFINE tt == [i \in DOMAIN secs |-> secs[i].text]
            uu == [i \in DOMAIN (secs \o <<x>>) |-> (secs \o <<x>>)[i].text]
            n == Len(secs)
<1>1. n \in Nat /\ DOMAIN secs = 1..n /\ (\A i \in 1..n : secs[i] \in S) /\ secs \in Seq(S)
  BY LenProperties, ElementOfSeq
<1>2. x \in S /\ x.text \in Seq(T)
  BY DEF HaveTexts
<1>3. \A y \in S : y.text \in Seq(T)
  BY DEF HaveTexts
<1>4. /\ Append(secs, x) = secs \o <<x>> /\ Append(secs, x) \in Seq(S)
      /\ Len(Append(secs, x)) = n + 1 /\ Append(secs, x)[n + 1] = x
      /\ \A i \in 1..n : Append(secs, x)[i] = secs[i]
  BY <1>1, <1>2, AppendProperties, AppendIsConcat
<1>5. DOMAIN (secs \o <<x>>) = 1 .. n + 1
  BY <1>4, LenProperties
<1>6. tt \in Seq(Seq(T)) /\ Len(tt) = n /\ \A i \in 1..n : tt[i] = secs[i].text
  <2>1. tt \in [1..n -> Seq(T)]
    BY <1>1, <1>3
  <2>. QED  BY <1>1, <2>1
<1>7. uu \in [1 .. n + 1 -> Seq(T)] /\ (\A i \in 1..n : uu[i] = tt[i]) /\ uu[n + 1] = x.text
  <2>1. \A i \in 1..(n + 1) : i \in 1..n \/ i = n + 1
    BY <1>1
  <2>2. \A i \in 1..n : i \in 1 .. n + 1 /\ uu[i] = tt[i]
    BY <1>1, <1>4, <1>5
  <2>3. n + 1 \in 1 .. n + 1 /\ uu[n + 1] = x.text
    BY <1>1, <1>4, <1>5
  <2>4. \A i \in 1 .. n + 1 : uu[i] \in Seq(T)
    BY <1>1, <1>2, <1>3, <1>6, <2>1, <2>2, <2>3
  <2>. QED  BY <1>5, <2>2, <2>3, <2>4
<1>. HIDE DEF tt, uu, n
<1>8. uu = Append(tt, x.text)
  <2>1. uu \in Seq(Seq(T)) /\ Len(uu) = n + 1
    BY <1>1, <1>7
  <2>2. PICK text : text = x.text
    OBVIOUS
  <2>3. /\ Append(tt, text) \in Seq(Seq(T)) /\ Len(Append(tt, text)) = n + 1
        /\ Append(tt, text)[n + 1] = text /\ \A i \in 1..n : Append(tt, text)[i] = tt[i]
    BY <1>2, <1>6, <2>2, AppendProperties
  <2>4. \A i \in 1 .. n + 1 : uu[i] = Append(tt, text)[i]
    <3>1. \A i \in 1..(n + 1) : i \in 1..n \/ i = n + 1
      BY <1>1
    <3>. QED  BY <1>7, <2>2, <2>3, <3>1
  <2>5. uu = Append(tt, text)
    BY <2>1, <2>3, <2>4, SeqEqual
  <2>. QED  BY <2>2, <2>5
<1>9. FlattenSeq(tt) \in Seq(T) /\ FlattenSeq(uu) = FlattenSeq(tt) \o x.text
  BY <1>2, <1>6, <1>8, FlattenAppend
<1>. QED  BY <1>4, <1>9 DEF AndSection, ShownIn, tt, uu

\* One more file the loader looks for.
LEMMA WalkStep ==
    ASSUME NEW files, FilesApart(files), NEW acc \in Walks(files), acc.ok = TRUE, NEW r \in Readings(files),
           Shows(files, acc), Reads(files, acc.visited, r)
    PROVE  /\ WithSection(acc, r) \in Walks(files) /\ Shows(files, WithSection(acc, r))
           /\ WithSection(acc, r).ok = r.ok /\ WithSection(acc, r).visited = r.visited
<1>. DEFINE w == WithSection(acc, r)
<1>1. /\ acc.sections \in Seq(Sections(files)) /\ acc.sources \in Seq(Names) /\ acc.visited \in SUBSET Names
      /\ r.ok \in BOOLEAN /\ r.visited \in SUBSET Names
      /\ r.text \in Seq(TextsOf(files, Names)) /\ r.sources \in Seq(Names)
  BY DEF Walks, Readings
<1>2. w.ok = r.ok /\ w.visited = r.visited
  BY DEF WithSection
<1>3. CASE r.text = <<>>
  <2>1. acc.sections \o <<>> = acc.sections /\ acc.sources \o <<>> = acc.sources
    BY <1>1, ConcatEmptySeq
  <2>2. w = [ok |-> r.ok, visited |-> r.visited, sections |-> acc.sections, sources |-> acc.sources]
    BY <1>3, <2>1 DEF WithSection
  <2>3. w \in Walks(files) /\ w.sections = acc.sections
    BY <1>1, <2>2 DEF Walks
  <2>4. ASSUME r.ok PROVE TextsOf(files, acc.visited) = TextsOf(files, r.visited)
    <3>1. TextsOf(files, r.visited \ acc.visited) = {} /\ acc.visited \subseteq r.visited
      <4>1. Range(<<>>) = {}
        BY DEF Range
      <4>2. Range(r.text) = TextsOf(files, r.visited \ acc.visited) /\ acc.visited \subseteq r.visited
        BY <2>4 DEF Reads
      <4>. QED  BY <1>3, <4>1, <4>2
    <3>2. r.visited = acc.visited \cup (r.visited \ acc.visited)
      BY <3>1
    <3>3. TextsOf(files, r.visited) = TextsOf(files, acc.visited) \cup TextsOf(files, r.visited \ acc.visited)
      BY <3>2, TextsAreApart
    <3>. QED  BY <3>1, <3>3
  <2>. HIDE DEF w
  <2>. QED  BY <1>2, <2>3, <2>4 DEF Shows, w
<1>4. CASE r.text # <<>>
  <2>1. PICK x : x = [path |-> r.sources[1], text |-> r.text]
    OBVIOUS
  <2>2. x \in Sections(files) /\ x.text = r.text
    BY <1>1, <2>1 DEF Sections, SectionsOf
  <2>3. w = [ok |-> r.ok, visited |-> r.visited, sections |-> acc.sections \o <<x>>,
             sources |-> acc.sources \o r.sources]
    BY <1>4, <2>1 DEF WithSection
  <2>4. /\ acc.sections \o <<x>> \in Seq(Sections(files))
        /\ ShownIn(acc.sections) \in Seq(TextsOf(files, Names))
        /\ ShownIn(acc.sections \o <<x>>) = ShownIn(acc.sections) \o r.text
    <3>1. PICK T, S, secs : T = TextsOf(files, Names) /\ S = Sections(files) /\ secs = acc.sections
      OBVIOUS
    <3>2. HaveTexts(S, T)
      BY <3>1 DEF HaveTexts, Sections, SectionsOf
    <3>3. secs \in Seq(S) /\ x \in S
      BY <1>1, <2>2, <3>1
    <3>4. /\ AndSection(secs, x) \in Seq(S) /\ ShownIn(secs) \in Seq(T)
          /\ ShownIn(AndSection(secs, x)) = ShownIn(secs) \o x.text
      BY <3>2, <3>3, OneMoreSection
    <3>. QED  BY <2>2, <3>1, <3>4 DEF AndSection
  <2>5. acc.sources \o r.sources \in Seq(Names)
    BY <1>1, ConcatProperties
  <2>6. w \in Walks(files) /\ w.sections = acc.sections \o <<x>>
    BY <1>1, <2>3, <2>4, <2>5 DEF Walks
  <2>7. ASSUME r.ok
        PROVE  /\ OnceEach(ShownIn(acc.sections) \o r.text)
               /\ Range(ShownIn(acc.sections) \o r.text) = TextsOf(files, r.visited)
    <3>1. PICK T, one, two : T = TextsOf(files, Names) /\ one = ShownIn(acc.sections) /\ two = r.text
      OBVIOUS
    <3>2. one \in Seq(T) /\ two \in Seq(T)
      BY <1>1, <2>4, <3>1
    <3>3. /\ acc.visited \subseteq r.visited /\ OnceEach(two)
          /\ Range(two) = TextsOf(files, r.visited \ acc.visited)
      BY <2>7, <3>1 DEF Reads
    <3>4. OnceEach(one) /\ Range(one) = TextsOf(files, acc.visited)
      BY <3>1 DEF Shows
    <3>5. r.visited = acc.visited \cup (r.visited \ acc.visited)
          /\ acc.visited \cap (r.visited \ acc.visited) = {}
      BY <3>3
    <3>6. Range(one) \cap Range(two) = {} /\ TextsOf(files, r.visited) = Range(one) \cup Range(two)
      BY <3>3, <3>4, <3>5, TextsAreApart
    <3>7. OnceEach(one \o two)
      BY <3>2, <3>3, <3>4, <3>6, ConcatOnce
    <3>8. Range(one \o two) = Range(one) \cup Range(two)
      BY <3>2, RangeOfConcat
    <3>. QED  BY <3>1, <3>6, <3>7, <3>8
  <2>. HIDE DEF w
  <2>. QED  BY <1>2, <2>4, <2>6, <2>7 DEF Shows, w
<1>. QED  BY <1>2, <1>3, <1>4

\* The loader reads every file it looks for, and shows what it has visited.
LEMMA WalkedIs ==
    ASSUME NEW files, FilesApart(files), MaxIncludeDepth \in Nat, NEW order \in Seq(Names)
    PROVE  LET w == Walked(files, order)
           IN  /\ w \in Walks(files) /\ Shows(files, w)
               /\ w.ok => \A i \in 1..Len(order) :
                            RealPath(order[i]) \in DOMAIN files => RealPath(order[i]) \in w.visited
<1>. DEFINE N == Len(order)
            S == Walks(files)
            start == [ok |-> TRUE, visited |-> {}, sections |-> <<>>, sources |-> <<>>]
            Step(n, acc) ==
                IF acc.ok THEN WithSection(acc, readWithImports(files)[<<order[n], acc.visited>>]) ELSE acc
            IsWalk(g) == g = [n \in 0..N |-> IF n = 0 THEN start ELSE Step(n, g[n - 1])]
            h == [p \in (1..N) \X S |-> Step(p[1], p[2])]
            Found(n, w) ==
                w.ok => \A i \in 1..n : RealPath(order[i]) \in DOMAIN files => RealPath(order[i]) \in w.visited
<1>1. N \in Nat /\ \A n \in 1..N : order[n] \in Names
  BY LenProperties, ElementOfSeq
<1>2. start \in S /\ Shows(files, start) /\ Found(0, start)
  <2>1. start \in S
    BY DEF Walks
  <2>2. ShownIn(<<>>) = <<>>
    <3>1. [i \in DOMAIN <<>> |-> <<>>[i].text] = <<>>
      OBVIOUS
    <3>. QED  BY <3>1, FlattenEmpty DEF ShownIn
  <2>3. Range(<<>>) = {} /\ OnceEach(<<>>) /\ TextsOf(files, {}) = {}
    BY TextsAreApart DEF Range, OnceEach
  <2>4. start.sections = <<>> /\ start.visited = {}
    OBVIOUS
  <2>5. Shows(files, start)
    <3>. HIDE DEF start
    <3>. QED  BY <2>2, <2>3, <2>4 DEF Shows
  <2>6. Found(0, start)
    OBVIOUS
  <2>. QED  BY <2>1, <2>5, <2>6
<1>3. ASSUME NEW n \in 1..N, NEW acc \in S, Shows(files, acc)
      PROVE  /\ Step(n, acc) \in S /\ Shows(files, Step(n, acc))
             /\ Found(n - 1, acc) => Found(n, Step(n, acc))
  <2>1. CASE acc.ok
    <3>1. PICK r : r = readWithImports(files)[<<order[n], acc.visited>>]
      OBVIOUS
    <3>2. order[n] \in Names /\ acc.visited \in SUBSET Names /\ acc.ok = TRUE
      BY <1>1, <2>1 DEF Walks
    <3>3. /\ r \in Readings(files) /\ Reads(files, acc.visited, r)
          /\ r.ok /\ RealPath(order[n]) \in DOMAIN files => RealPath(order[n]) \in r.visited
      BY <3>1, <3>2, ReaderIs DEF Readers
    <3>4. PICK w : w = WithSection(acc, r)
      OBVIOUS
    <3>5. w \in S /\ Shows(files, w) /\ w.ok = r.ok /\ w.visited = r.visited
      BY <1>3, <3>2, <3>3, <3>4, WalkStep
    <3>6. Step(n, acc) = w
      BY <2>1, <3>1, <3>4
    <3>7. Found(n - 1, acc) => Found(n, w)
      <4>1. r.ok => acc.visited \subseteq r.visited
        BY <3>3 DEF Reads
      <4>2. \A i \in 1..n : i \in 1..(n - 1) \/ i = n
        BY <1>1
      <4>. QED  BY <2>1, <3>3, <3>5, <4>1, <4>2
    <3>. QED  BY <3>5, <3>6, <3>7
  <2>2. CASE ~acc.ok
    BY <1>3, <2>2
  <2>. QED  BY <2>1, <2>2
<1>. HIDE DEF S, N, start, Step, Found
<1>. DEFINE G == {w \in S : Shows(files, w)}
            k == [p \in (1..N) \X G |-> Step(p[1], p[2])]
<1>4. k \in [(1..N) \X G -> G] /\ \A n \in 1..N, x \in G : k[<<n, x>>] = Step(n, x)
  <2>1. ASSUME NEW p \in (1..N) \X G PROVE Step(p[1], p[2]) \in G
    <3>1. p[1] \in 1..N /\ p[2] \in S /\ Shows(files, p[2])
      OBVIOUS
    <3>. QED  BY <1>3, <3>1
  <2>. HIDE DEF G
  <2>2. k \in [(1..N) \X G -> G]
    BY <2>1
  <2>. QED  BY <2>2
<1>5. start \in G
  BY <1>2
<1>. HIDE DEF G, k
<1>6. \E g \in [0..N -> G] : Iterates(g, start, k, N)
  BY <1>1, <1>4, <1>5, PositionRecursion, Zenon
<1>7. ASSUME NEW g \in [0..N -> G], Iterates(g, start, k, N) PROVE IsWalk(g)
  <2>1. ASSUME NEW n \in 0..N PROVE g[n] = IF n = 0 THEN start ELSE Step(n, g[n - 1])
    <3>1. CASE n = 0
      BY <1>7, <3>1 DEF Iterates
    <3>2. CASE n # 0
      <4>1. n \in 1..N /\ n - 1 \in 0..N
        BY <1>1, <3>2
      <4>2. g[n - 1] \in G /\ g[n] = k[<<n, g[n - 1]>>]
        BY <1>7, <4>1 DEF Iterates
      <4>. QED  BY <1>4, <3>2, <4>1, <4>2
    <3>. QED  BY <3>1, <3>2
  <2>2. g = [n \in 0..N |-> g[n]]
    OBVIOUS
  <2>. QED  BY <2>1, <2>2, Zenon
<1>8. PICK g : IsWalk(g) /\ Walked(files, order) = g[N]
  <2>. DEFINE upTo == CHOOSE g : IsWalk(g)
  <2>1. IsWalk(upTo)
    BY <1>6, <1>7, Zenon
  <2>2. Walked(files, order) = upTo[N]
    BY Zenon DEF Walked, N, start, Step
  <2>. HIDE DEF upTo
  <2>. QED  BY <2>1, <2>2, Zenon
<1>. DEFINE M == {n \in Nat : n <= N => g[n] \in S /\ Shows(files, g[n]) /\ Found(n, g[n])}
<1>9. 0 \in M
  <2>1. 0 \in 0..N
    BY <1>1
  <2>2. g[0] = start
    BY <1>8, <2>1
  <2>. QED  BY <1>2, <2>2
<1>10. ASSUME NEW n \in M PROVE n + 1 \in M
  <2>. SUFFICES ASSUME n + 1 <= N
                PROVE  g[n + 1] \in S /\ Shows(files, g[n + 1]) /\ Found(n + 1, g[n + 1])
    BY DEF M
  <2>1. n + 1 \in 1..N /\ n + 1 \in 0..N /\ n + 1 # 0 /\ (n + 1) - 1 = n /\ n <= N
    BY <1>1
  <2>2. g[n + 1] = Step(n + 1, g[n])
    BY <1>8, <2>1
  <2>3. g[n] \in S /\ Shows(files, g[n]) /\ Found(n, g[n])
    BY <2>1 DEF M
  <2>4. PICK m, acc : m = n + 1 /\ acc = g[n]
    OBVIOUS
  <2>5. m \in 1..N /\ m - 1 = n /\ acc \in S /\ Shows(files, acc) /\ Found(m - 1, acc)
    BY <2>1, <2>3, <2>4
  <2>6. Step(m, acc) \in S /\ Shows(files, Step(m, acc)) /\ Found(m, Step(m, acc))
    BY <1>3, <2>5
  <2>. QED  BY <2>2, <2>4, <2>6
<1>11. g[N] \in S /\ Shows(files, g[N]) /\ Found(N, g[N])
  <2>. HIDE DEF M
  <2>1. M = Nat
    BY <1>9, <1>10, NatSetInduction DEF M
  <2>2. N \in M
    BY <1>1, <2>1
  <2>. QED  BY <1>1, <2>2 DEF M
<1>. QED  BY <1>8, <1>11 DEF S, N, Found

-----------------------------------------------------------------------------
LEMMA InstructionsInit == Init => InstructionsInv
BY DEF Init, InstructionsInv

\* The instructions are written once, from files that do not change.
LEMMA InstructionsStep == InstructionsInv /\ [Next]_vars => InstructionsInv'
<1>. SUFFICES ASSUME InstructionsInv, [Next]_vars PROVE InstructionsInv'
  OBVIOUS
<1>. DEFINE Before == {"start", "settings", "instructions"}
<1>1. ASSUME UNCHANGED <<call, bundle>>, stage' \in Before \/ stage \notin Before \/ (~Asked)
      PROVE  InstructionsInv'
  BY <1>1 DEF InstructionsInv, Asked, Paths
<1>2. CASE Start
  BY <1>1, <1>2 DEF Start, environment, Goto, Asked
<1>3. CASE ReadSettings
  BY <1>1, <1>3 DEF ReadSettings, environment, Goto
<1>4. CASE SettingsRead
  BY <1>1, <1>4 DEF SettingsRead, environment, Goto
<1>5. CASE LoadInstructions
  BY <1>5 DEF LoadInstructions, environment, Goto, InstructionsInv, Paths
<1>6. CASE CheckSkippable
  BY <1>1, <1>6 DEF CheckSkippable, environment
<1>7. CASE FindTranscripts
  BY <1>1, <1>7 DEF FindTranscripts, environment
<1>8. CASE ReadTranscript
  BY <1>1, <1>8 DEF ReadTranscript, environment
<1>9. CASE BuildPrompt
  BY <1>1, <1>9 DEF BuildPrompt, environment
<1>10. CASE Ended \/ UNCHANGED vars
  BY <1>1, <1>10 DEF Ended, vars, environment
<1>11. ASSUME NEW f \in DOMAIN settings, EditSettings(f) PROVE InstructionsInv'
  BY <1>1, <1>11 DEF EditSettings
<1>12. ASSUME NEW f \in DOMAIN written, AppendLine(f) PROVE InstructionsInv'
  BY <1>1, <1>12 DEF AppendLine
<1>. QED  BY <1>2, <1>3, <1>4, <1>5, <1>6, <1>7, <1>8, <1>9, <1>10, <1>11, <1>12 DEF Next

\* What LoadInstructions made of the files is what the call goes on with.
THEOREM InstructionsInvCorrect == Spec => []InstructionsInv
<1>. QED  BY InstructionsInit, InstructionsStep, PTL DEF Spec

\* "Both the resolved physical path and the original alias are recorded so the
\* same file can't be visited twice via different symlinks" (claudemd.go): for
\* every tree of files, import graph, layout of links and depth limit, no text
\* is shown twice, and what a root says is shown once.
THEOREM InstructionsAppearOnce == Spec => []InstructionsOnce
<1>1. InstructionsInv => InstructionsOnce
  <2>. SUFFICES ASSUME InstructionsInv, Looking, stage # "instructions", bundle.ok,
                       NEW f \in DOMAIN call.md, NEW text \in OwnText(f)
                PROVE  IF f \in Roots THEN Times(text) = 1 ELSE Times(text) <= 1
    BY DEF InstructionsOnce
  <2>1. PICK files, order : files = call.md /\ order = WalkOrder(Paths.ConfigDir, call.cwd)
    OBVIOUS
  <2>2. FilesApart(files) /\ MaxIncludeDepth \in Nat /\ order \in Seq(Names)
    BY <2>1, InstructionsAssumption DEF InstructionsInv, FilesApart, Paths
  <2>3. PICK w : w = Walked(files, order)
    OBVIOUS
  <2>4. bundle = IF w.ok THEN [ok |-> TRUE, sections |-> w.sections, sources |-> w.sources]
                 ELSE [NoBundle EXCEPT !.ok = FALSE]
    BY <2>1, <2>3 DEF InstructionsInv, Looking, Asked, Load
  <2>5. w.ok /\ bundle.sections = w.sections
    BY <2>4 DEF NoBundle
  <2>6. /\ w \in Walks(files) /\ Shows(files, w)
        /\ \A i \in 1..Len(order) : RealPath(order[i]) \in DOMAIN files => RealPath(order[i]) \in w.visited
    BY <2>2, <2>3, <2>5, WalkedIs
  <2>7. PICK shown : shown = ShownIn(w.sections)
    OBVIOUS
  <2>8. OnceEach(shown) /\ Range(shown) = TextsOf(files, w.visited)
    BY <2>5, <2>6, <2>7 DEF Shows
  <2>9. DOMAIN shown = 1..Len(shown)
    <3>1. \E T : shown \in Seq(T)
      <4>1. PICK X, T, secs : X = {y.sources[1] : y \in Readings(files)} /\ T = TextsOf(files, Names)
                              /\ secs = w.sections
        OBVIOUS
      <4>2. secs \in Seq(SectionsOf(X, T))
        BY <2>6, <4>1 DEF Walks, Sections
      <4>3. ShownIn(secs) \in Seq(T)
        BY <4>2, ShownIsSequence, Zenon
      <4>. QED  BY <2>7, <4>1, <4>3
    <3>. QED  BY <3>1, LenProperties
  <2>10. PICK I : I = {i \in DOMAIN shown : shown[i] = text}
    OBVIOUS
  <2>11. Times(text) = Cardinality(I)
    BY <2>5, <2>7, <2>10 DEF Times, ShownIn
  <2>12. \A i, j \in I : i = j
    BY <2>8, <2>9, <2>10 DEF OnceEach
  <2>13. text \in Range(shown) => \E i \in I : TRUE
    BY <2>10 DEF Range
  <2>14. I = {} => Cardinality(I) = 0
    BY FS_EmptySet
  <2>15. ASSUME NEW i \in I PROVE Cardinality(I) = 1
    <3>1. I = {i}
      BY <2>12
    <3>. QED  BY <3>1, FS_Singleton
  <2>16. f \in Roots => text \in Range(shown)
    <3>. SUFFICES ASSUME f \in Roots PROVE text \in Range(shown)
      OBVIOUS
    <3>1. PICK path \in Range(order) : f = RealPath(path)
      BY <2>1 DEF Roots
    <3>2. PICK i \in 1..Len(order) : path = order[i]
      BY <2>2, LenProperties DEF Range
    <3>3. f \in w.visited /\ f \in DOMAIN files
      BY <2>1, <2>6, <3>1, <3>2
    <3>4. text \in OwnOf(files, f)
      BY <2>1 DEF OwnText, OwnOf
    <3>. QED  BY <2>8, <3>3, <3>4 DEF TextsOf
  <2>. QED  BY <2>11, <2>13, <2>14, <2>15, <2>16
<1>. QED  BY <1>1, InstructionsInvCorrect, PTL
=============================================================================
