-------------------------- MODULE DecisionLogProofs --------------------------
(***************************************************************************)
(* For any finite set of processes, any cap and any line lengths: as long  *)
(* as no replacement of the log has overlapped another Append or rested on *)
(* a failed read, the log is the end of the bytes that were appended and   *)
(* misses only what the cap pushes out.                                    *)
(***************************************************************************)
EXTENDS DecisionLog, SequenceTheorems, FiniteSetTheorems, TLAPS

-----------------------------------------------------------------------------
\* Natural numbers: induction over a set, and a least element.

LEMMA LeastNat ==
    ASSUME NEW S \in SUBSET Nat, NEW m \in S
    PROVE  \E n \in S : \A k \in Nat : k < n => k \notin S
<1>1. PICK n \in S : \A k \in S : ~ (<<k, n>> \in OpToRel(<, Nat))
  BY NatLessThanWellFounded, WFMin
<1>2. \A k \in S : ~ (k < n)
  BY <1>1 DEF OpToRel
<1>. QED  BY <1>2

LEMMA NatSetInduction ==
    ASSUME NEW S \in SUBSET Nat, 0 \in S, \A n \in S : n + 1 \in S
    PROVE  S = Nat
<1>. SUFFICES ASSUME NEW m \in Nat \ S PROVE FALSE
  OBVIOUS
<1>. DEFINE T == Nat \ S
<1>1. PICK n \in T : \A k \in Nat : k < n => k \notin T
  BY LeastNat
<1>2. n # 0 /\ n - 1 \in Nat /\ n - 1 < n
  BY <1>1
<1>3. n - 1 \in S
  BY <1>1, <1>2
<1>4. (n - 1) + 1 \in S /\ (n - 1) + 1 = n
  BY <1>3
<1>. QED  BY <1>1, <1>4

-----------------------------------------------------------------------------
\* Where the lines of a file end.

\* The recursion that defines Ends has a solution.
LEMMA EndsDef ==
    ASSUME NEW s \in Seq(Line)
    PROVE  Ends(s) = [n \in 0..Len(s) |-> IF n = 0 THEN 0 ELSE Ends(s)[n - 1] + s[n].len]
<1>. DEFINE IsEnds(f, m) == f = [n \in 0..m |-> IF n = 0 THEN 0 ELSE f[n - 1] + s[n].len]
            S == {m \in Nat : m <= Len(s) => \E f : IsEnds(f, m)}
<1>0. Len(s) \in Nat
  BY LenProperties
<1>1. 0 \in S
  <2>1. IsEnds([n \in 0..0 |-> 0], 0)
    OBVIOUS
  <2>. QED  BY <2>1
<1>2. ASSUME NEW m \in S PROVE m + 1 \in S
  <2>. SUFFICES ASSUME m + 1 <= Len(s) PROVE \E f : IsEnds(f, m + 1)
    OBVIOUS
  <2>1. PICK f : IsEnds(f, m)
    BY <1>0
  <2>. DEFINE g == [n \in 0..(m + 1) |-> IF n = m + 1 THEN f[m] + s[m + 1].len ELSE f[n]]
  <2>2. ASSUME NEW n \in 0..(m + 1)
        PROVE  g[n] = IF n = 0 THEN 0 ELSE g[n - 1] + s[n].len
    <3>1. CASE n = m + 1
      <4>1. n # 0 /\ n - 1 = m /\ m \in 0..(m + 1) /\ m # m + 1
        BY <3>1
      <4>2. g[n] = f[m] + s[m + 1].len /\ g[m] = f[m]
        BY <3>1, <4>1
      <4>. QED  BY <3>1, <4>1, <4>2
    <3>2. CASE n = 0
      BY <2>1, <3>2
    <3>3. CASE n # 0 /\ n # m + 1
      <4>1. n \in 0..m /\ n - 1 \in 0..m /\ n - 1 \in 0..(m + 1) /\ n - 1 # m + 1
        BY <3>3
      <4>2. f[n] = f[n - 1] + s[n].len
        BY <2>1, <3>3, <4>1
      <4>. QED  BY <3>3, <4>1, <4>2
    <3>. QED  BY <3>1, <3>2, <3>3
  <2>3. IsEnds(g, m + 1)
    BY <2>2, Zenon
  <2>. QED  BY <2>3
<1>3. S = Nat
  <2>. HIDE DEF S
  <2>. QED  BY <1>1, <1>2, NatSetInduction DEF S
<1>4. \E f : IsEnds(f, Len(s))
  BY <1>0, <1>3
<1>. QED  BY <1>4, Zenon DEF Ends

LEMMA EndsProperties ==
    ASSUME NEW s \in Seq(Line)
    PROVE  /\ \A n \in 0..Len(s) : Ends(s)[n] \in Nat
           /\ Ends(s)[0] = 0
           /\ \A n \in 1..Len(s) : Ends(s)[n] = Ends(s)[n - 1] + s[n].len
           /\ \A n \in 1..Len(s) : s[n].len \in Nat \ {0}
<1>. DEFINE end == Ends(s)
            S == {n \in Nat : n <= Len(s) => end[n] \in Nat}
<1>0. Len(s) \in Nat
  BY LenProperties
<1>1. \A n \in 0..Len(s) : end[n] = IF n = 0 THEN 0 ELSE end[n - 1] + s[n].len
  BY EndsDef
<1>2. \A n \in 1..Len(s) : s[n].len \in Nat \ {0}
  <2>1. \A e \in Line : e.len \in Nat \ {0}
    BY DEF Line
  <2>. QED  BY <2>1, ElementOfSeq
<1>. HIDE DEF end
<1>3. end[0] = 0
  BY <1>0, <1>1
<1>4. \A n \in 1..Len(s) : end[n] = end[n - 1] + s[n].len
  BY <1>0, <1>1
<1>5. 0 \in S
  BY <1>3
<1>6. ASSUME NEW n \in S PROVE n + 1 \in S
  <2>1. CASE n + 1 <= Len(s)
    <3>1. n + 1 \in 1..Len(s) /\ (n + 1) - 1 = n /\ n <= Len(s)
      BY <1>0, <2>1
    <3>2. end[n + 1] = end[n] + s[n + 1].len
      BY <1>4, <3>1
    <3>. QED  BY <1>2, <3>1, <3>2
  <2>. QED  BY <2>1
<1>7. S = Nat
  <2>. HIDE DEF S
  <2>. QED  BY <1>5, <1>6, NatSetInduction DEF S
<1>8. \A n \in 0..Len(s) : end[n] \in Nat
  BY <1>0, <1>7
<1>. QED  BY <1>2, <1>3, <1>4, <1>8 DEF end

\* A later line ends later.
LEMMA EndsGrow ==
    ASSUME NEW s \in Seq(Line), NEW i \in 0..Len(s), NEW j \in 0..Len(s), i < j
    PROVE  Ends(s)[i] < Ends(s)[j]
<1>. DEFINE end == Ends(s)
            S == {d \in Nat : i + d + 1 <= Len(s) => end[i] < end[i + d + 1]}
<1>0. Len(s) \in Nat
  BY LenProperties
<1>1. /\ \A n \in 0..Len(s) : end[n] \in Nat
      /\ \A n \in 1..Len(s) : end[n] = end[n - 1] + s[n].len
      /\ \A n \in 1..Len(s) : s[n].len \in Nat \ {0}
  BY EndsProperties
<1>. HIDE DEF end
<1>2. ASSUME NEW n \in 0..Len(s), n + 1 <= Len(s) PROVE end[n] < end[n + 1]
  <2>1. n + 1 \in 1..Len(s) /\ (n + 1) - 1 = n
    BY <1>0, <1>2
  <2>. QED  BY <1>1, <2>1, SMTT(30)
<1>3. 0 \in S
  BY <1>0, <1>2
<1>4. ASSUME NEW d \in S PROVE d + 1 \in S
  <2>1. CASE i + (d + 1) + 1 <= Len(s)
    <3>1. /\ i + d + 1 \in 0..Len(s) /\ i + (d + 1) + 1 \in 0..Len(s)
          /\ (i + d + 1) + 1 = i + (d + 1) + 1
      BY <1>0, <2>1
    <3>2. end[i + d + 1] < end[i + (d + 1) + 1]
      BY <1>2, <2>1, <3>1
    <3>. QED  BY <1>1, <3>1, <3>2
  <2>. QED  BY <2>1
<1>5. S = Nat
  <2>. HIDE DEF S
  <2>. QED  BY <1>3, <1>4, NatSetInduction DEF S
<1>6. \A d \in Nat : i + d + 1 <= Len(s) => end[i] < end[i + d + 1]
  BY <1>5, Zenon
<1>7. PICK d \in Nat : i + d + 1 = j
  <2>1. j - i - 1 \in Nat /\ i + (j - i - 1) + 1 = j
    OBVIOUS
  <2>. QED  BY <2>1
<1>8. j <= Len(s)
  BY <1>0
<1>. QED  BY <1>6, <1>7, <1>8 DEF end

\* The lines of t, a part of s behind its k-th line, end where they did in s.
LEMMA EndsOfPart ==
    ASSUME NEW s \in Seq(Line), NEW t \in Seq(Line), NEW k \in 0..Len(s),
           k + Len(t) <= Len(s), \A i \in 1..Len(t) : t[i] = s[k + i],
           NEW n \in 0..Len(t)
    PROVE  Ends(t)[n] = Ends(s)[k + n] - Ends(s)[k]
<1>. DEFINE es == Ends(s)
            et == Ends(t)
            S == {i \in Nat : i <= Len(t) => et[i] = es[k + i] - es[k]}
<1>0. Len(s) \in Nat /\ Len(t) \in Nat
  BY LenProperties
<1>1. /\ \A i \in 0..Len(s) : es[i] \in Nat
      /\ \A i \in 1..Len(s) : es[i] = es[i - 1] + s[i].len /\ s[i].len \in Nat
      /\ et[0] = 0
      /\ \A i \in 1..Len(t) : et[i] = et[i - 1] + t[i].len
  BY EndsProperties
<1>. HIDE DEF es, et
<1>2. 0 \in S
  BY <1>0, <1>1
<1>3. ASSUME NEW i \in S PROVE i + 1 \in S
  <2>1. CASE i + 1 <= Len(t)
    <3>1. /\ i + 1 \in 1..Len(t) /\ k + (i + 1) \in 1..Len(s) /\ k + i \in 0..Len(s)
          /\ (i + 1) - 1 = i /\ (k + (i + 1)) - 1 = k + i /\ i <= Len(t)
      BY <1>0, <2>1
    <3>2. et[i + 1] = et[i] + t[i + 1].len /\ es[k + (i + 1)] = es[k + i] + s[k + (i + 1)].len
      BY <1>1, <3>1
    <3>3. t[i + 1] = s[k + (i + 1)] /\ et[i] = es[k + i] - es[k]
      BY <3>1
    <3>4. es[k] \in Nat /\ es[k + i] \in Nat /\ s[k + (i + 1)].len \in Nat
      BY <1>1, <3>1
    <3>5. et[i + 1] = es[k + (i + 1)] - es[k]
      BY <3>2, <3>3, <3>4, SMTT(30)
    <3>. QED  BY <3>5
  <2>. QED  BY <2>1
<1>4. S = Nat
  <2>. HIDE DEF S
  <2>. QED  BY <1>2, <1>3, NatSetInduction DEF S
<1>5. \A i \in Nat : i <= Len(t) => et[i] = es[k + i] - es[k]
  BY <1>4, Zenon
<1>6. n \in Nat /\ n <= Len(t)
  BY <1>0
<1>. QED  BY <1>5, <1>6 DEF es, et

LEMMA BytesProperties ==
    ASSUME NEW s \in Seq(Line)
    PROVE  /\ Bytes(s) \in Nat
           /\ \A e \in Line : Bytes(Append(s, e)) = Bytes(s) + e.len
           /\ Bytes(s) > 0 => s # <<>>
<1>0. Len(s) \in Nat
  BY LenProperties
<1>1. Bytes(s) \in Nat
  BY <1>0, EndsProperties DEF Bytes
<1>2. ASSUME NEW e \in Line PROVE Bytes(Append(s, e)) = Bytes(s) + e.len
  <2>. DEFINE t == Append(s, e)
              n == Len(s)
  <2>1. /\ t \in Seq(Line) /\ Len(t) = n + 1 /\ t[n + 1] = e
        /\ \A i \in 1..n : s[i] = t[i]
    BY AppendProperties
  <2>. HIDE DEF t
  <2>2. Ends(t)[n + 1] = Ends(t)[n] + e.len
    <3>1. n + 1 \in 1..Len(t) /\ (n + 1) - 1 = n
      BY <1>0, <2>1
    <3>. QED  BY <2>1, <3>1, EndsProperties
  <2>3. Ends(s)[n] = Ends(t)[n]
    <3>1. /\ 0 \in 0..Len(t) /\ 0 + n <= Len(t) /\ n \in 0..n /\ 0 + n = n
          /\ \A i \in 1..n : s[i] = t[0 + i]
      BY <1>0, <2>1
    <3>2. Ends(s)[n] = Ends(t)[0 + n] - Ends(t)[0]
      BY <2>1, <3>1, EndsOfPart
    <3>3. Ends(t)[0] = 0 /\ Ends(t)[n] \in Nat
      <4>1. n \in 0..Len(t)
        BY <1>0, <2>1
      <4>. QED  BY <2>1, <4>1, EndsProperties
    <3>. QED  BY <3>1, <3>2, <3>3
  <2>. QED  BY <2>1, <2>2, <2>3 DEF Bytes, t
<1>3. ASSUME s = <<>> PROVE Bytes(s) = 0
  BY <1>3, EndsProperties, EmptySeq DEF Bytes
<1>. QED  BY <1>1, <1>2, <1>3

-----------------------------------------------------------------------------
\* The ends of a file.

\* SubSeq from the front, from behind, and Reverse, in the form used below.
LEMMA FirstLines ==
    ASSUME NEW s \in Seq(Line), NEW n \in 0..Len(s)
    PROVE  /\ SubSeq(s, 1, n) \in Seq(Line) /\ Len(SubSeq(s, 1, n)) = n
           /\ \A i \in 1..n : SubSeq(s, 1, n)[i] = s[i]
<1>1. Len(s) \in Nat /\ 1 \in Int /\ n \in Int
  BY LenProperties
<1>2. \A i \in 1..n : s[i] \in Line
  BY <1>1, ElementOfSeq
<1>. QED  BY <1>1, <1>2, SubSeqProperties

LEMMA LastLines ==
    ASSUME NEW s \in Seq(Line), NEW k \in 0..Len(s)
    PROVE  /\ SubSeq(s, k + 1, Len(s)) \in Seq(Line)
           /\ Len(SubSeq(s, k + 1, Len(s))) = Len(s) - k
           /\ \A i \in 1..Len(s) - k : SubSeq(s, k + 1, Len(s))[i] = s[k + i]
<1>1. Len(s) \in Nat /\ k + 1 \in Int /\ Len(s) \in Int
  BY LenProperties
<1>2. \A i \in k + 1..Len(s) : s[i] \in Line
  BY <1>1, ElementOfSeq
<1>. DEFINE t == SubSeq(s, k + 1, Len(s))
<1>3. /\ t \in Seq(Line)
      /\ Len(t) = IF k + 1 <= Len(s) THEN Len(s) - (k + 1) + 1 ELSE 0
      /\ \A i \in 1..Len(s) - (k + 1) + 1 : t[i] = s[k + 1 + i - 1]
  BY <1>1, <1>2, SubSeqProperties
<1>. HIDE DEF t
<1>4. Len(t) = Len(s) - k
  BY <1>1, <1>3
<1>5. ASSUME NEW i \in 1..Len(s) - k PROVE t[i] = s[k + i]
  <2>1. i \in 1..Len(s) - (k + 1) + 1 /\ k + 1 + i - 1 = k + i
    BY <1>1
  <2>. QED  BY <1>3, <2>1
<1>. QED  BY <1>3, <1>4, <1>5 DEF t

LEMMA ReverseIsSeq ==
    ASSUME NEW s \in Seq(Line)
    PROVE  /\ Reverse(s) \in Seq(Line) /\ Len(Reverse(s)) = Len(s)
           /\ \A i \in 1..Len(s) : Reverse(s)[i] = s[(Len(s) - i) + 1]
<1>0. Len(s) \in Nat
  BY LenProperties
<1>1. \A i \in 1..Len(s) : (Len(s) - i) + 1 \in 1..Len(s)
  BY <1>0
<1>2. Reverse(s) \in [1..Len(s) -> Line]
  BY <1>1, ElementOfSeq DEF Reverse
<1>3. Reverse(s) \in Seq(Line) /\ Len(Reverse(s)) = Len(s)
  BY <1>0, <1>2, SeqDef, LenProperties
<1>. QED  BY <1>3 DEF Reverse

\* s is the last lines of t.
LEMMA SuffixIsEnd ==
    ASSUME NEW s \in Seq(Line), NEW t \in Seq(Line)
    PROVE  IsSuffix(s, t) <=> /\ Len(s) <= Len(t)
                              /\ \A i \in 1..Len(s) : s[i] = t[(Len(t) - Len(s)) + i]
<1>. DEFINE rs == Reverse(s)
            rt == Reverse(t)
            m == Len(s)
            n == Len(t)
<1>0. m \in Nat /\ n \in Nat
  BY LenProperties
<1>1. /\ rs \in Seq(Line) /\ Len(rs) = m /\ \A i \in 1..m : rs[i] = s[(m - i) + 1]
      /\ rt \in Seq(Line) /\ Len(rt) = n /\ \A i \in 1..n : rt[i] = t[(n - i) + 1]
  BY ReverseIsSeq
<1>. HIDE DEF rs, rt
<1>2. CASE m <= n
  <2>1. /\ SubSeq(rs, 1, m) \in Seq(Line) /\ Len(SubSeq(rs, 1, m)) = m
        /\ \A i \in 1..m : SubSeq(rs, 1, m)[i] = rs[i]
    BY <1>0, <1>1, FirstLines
  <2>2. /\ SubSeq(rt, 1, m) \in Seq(Line) /\ Len(SubSeq(rt, 1, m)) = m
        /\ \A i \in 1..m : SubSeq(rt, 1, m)[i] = rt[i]
    BY <1>0, <1>1, <1>2, FirstLines
  <2>3. SubSeq(rs, 1, m) = SubSeq(rt, 1, m) <=> \A i \in 1..m : rs[i] = rt[i]
    <3>1. ASSUME \A i \in 1..m : rs[i] = rt[i] PROVE SubSeq(rs, 1, m) = SubSeq(rt, 1, m)
      BY <2>1, <2>2, <3>1, SeqEqual
    <3>2. ASSUME SubSeq(rs, 1, m) = SubSeq(rt, 1, m) PROVE \A i \in 1..m : rs[i] = rt[i]
      BY <2>1, <2>2, <3>2
    <3>. QED  BY <3>1, <3>2
  <2>4. ASSUME \A i \in 1..m : rs[i] = rt[i], NEW i \in 1..m PROVE s[i] = t[(n - m) + i]
    <3>1. PICK j \in 1..m : j \in 1..n /\ (m - j) + 1 = i /\ (n - j) + 1 = (n - m) + i
      <4>1. /\ (m - i) + 1 \in 1..m /\ (m - i) + 1 \in 1..n
            /\ (m - ((m - i) + 1)) + 1 = i /\ (n - ((m - i) + 1)) + 1 = (n - m) + i
        BY <1>0, <1>2
      <4>. QED  BY <4>1
    <3>2. rs[j] = rt[j]
      BY <2>4
    <3>3. rs[j] = s[i]
      BY <1>1, <3>1
    <3>4. rt[j] = t[(n - m) + i]
      BY <1>1, <3>1
    <3>. QED  BY <3>2, <3>3, <3>4
  <2>5. ASSUME \A i \in 1..m : s[i] = t[(n - m) + i], NEW i \in 1..m PROVE rs[i] = rt[i]
    <3>1. /\ (m - i) + 1 \in 1..m /\ i \in 1..n
          /\ (n - m) + ((m - i) + 1) = (n - i) + 1
      BY <1>0, <1>2
    <3>. QED  BY <1>1, <2>5, <3>1
  <2>. QED  BY <1>1, <1>2, <2>3, <2>4, <2>5 DEF IsSuffix, IsPrefix, rs, rt
<1>3. CASE ~ (m <= n)
  BY <1>1, <1>3 DEF IsSuffix, IsPrefix, rs, rt
<1>. QED  BY <1>2, <1>3

LEMMA SuffixOfSelf ==
    ASSUME NEW s \in Seq(Line)
    PROVE  IsSuffix(s, s)
<1>1. Len(s) <= Len(s) /\ \A i \in 1..Len(s) : s[i] = s[(Len(s) - Len(s)) + i]
  BY LenProperties
<1>. QED  BY <1>1, SuffixIsEnd

\* What is kept is an end of the file shorter than the cap, and of a file
\* beyond the cap not one line more would have been shorter.
LEMMA KeptTailProperties ==
    ASSUME NEW s \in Seq(Line), NEW cap \in Nat \ {0}
    PROVE  \E k \in 0..Len(s) :
             /\ KeptTail(s, cap) = SubSeq(s, k + 1, Len(s))
             /\ Bytes(KeptTail(s, cap)) < cap
             /\ Bytes(s) > cap => k \in 1..Len(s)
             /\ k \in 1..Len(s) => Bytes(KeptTail(s, cap)) + s[k].len >= cap
<1>. DEFINE end == Ends(s)
            n == Len(s)
            IsCut(k) == /\ end[k] > Bytes(s) - cap
                        /\ \A j \in 0..k - 1 : end[j] <= Bytes(s) - cap
            S == {k \in Nat : k <= n /\ end[k] > Bytes(s) - cap}
<1>1. /\ n \in Nat /\ Bytes(s) = end[n] /\ end[0] = 0
      /\ \A k \in 0..n : end[k] \in Nat
      /\ \A k \in 1..n : end[k] = end[k - 1] + s[k].len /\ s[k].len \in Nat
  BY LenProperties, EndsProperties DEF Bytes
<1>2. \E k \in 0..n : IsCut(k)
  <2>. HIDE DEF end
  <2>1. n \in S
    BY <1>1
  <2>2. PICK k \in S : \A j \in Nat : j < k => j \notin S
    <3>1. S \in SUBSET Nat
      OBVIOUS
    <3>. HIDE DEF S
    <3>. QED  BY <2>1, <3>1, LeastNat
  <2>3. k \in 0..n
    BY <1>1
  <2>4. ASSUME NEW j \in 0..k - 1 PROVE end[j] <= Bytes(s) - cap
    <3>1. j \in Nat /\ j < k /\ j <= n /\ j \in 0..n
      BY <1>1, <2>3
    <3>2. ~ (end[j] > Bytes(s) - cap)
      BY <2>2, <3>1
    <3>. QED  BY <1>1, <3>1, <3>2
  <2>. QED  BY <2>2, <2>3, <2>4
<1>3. PICK k \in 0..n : IsCut(k) /\ KeptTail(s, cap) = SubSeq(s, k + 1, n)
  <2>. DEFINE c == CHOOSE k \in 0..n : IsCut(k)
  <2>1. c \in 0..n /\ IsCut(c)
    BY <1>2, Zenon
  <2>2. KeptTail(s, cap) = SubSeq(s, c + 1, n)
    BY Zenon DEF KeptTail
  <2>. QED  BY <2>1, <2>2
<1>4. Bytes(KeptTail(s, cap)) = Bytes(s) - end[k]
  <2>. DEFINE t == SubSeq(s, k + 1, n)
  <2>1. /\ t \in Seq(Line) /\ Len(t) = n - k /\ \A i \in 1..Len(t) : t[i] = s[k + i]
    BY LastLines
  <2>. HIDE DEF t
  <2>2. Len(t) \in 0..Len(t) /\ k + Len(t) <= Len(s) /\ k + Len(t) = n
    BY <1>1, <2>1
  <2>3. Ends(t)[Len(t)] = Ends(s)[k + Len(t)] - Ends(s)[k]
    BY <2>1, <2>2, EndsOfPart
  <2>. QED  BY <1>1, <1>3, <2>2, <2>3 DEF Bytes, t
<1>. HIDE DEF end
<1>5. Bytes(KeptTail(s, cap)) < cap
  BY <1>1, <1>3, <1>4
<1>6. ASSUME Bytes(s) > cap PROVE k \in 1..n
  BY <1>1, <1>3, <1>6
<1>7. ASSUME k \in 1..n PROVE Bytes(KeptTail(s, cap)) + s[k].len >= cap
  <2>1. k - 1 \in 0..k - 1 /\ k - 1 \in 0..n
    BY <1>1, <1>7
  <2>2. end[k - 1] <= Bytes(s) - cap
    BY <1>3, <2>1
  <2>3. /\ end[k] = end[k - 1] + s[k].len /\ end[k - 1] \in Nat /\ s[k].len \in Nat
        /\ Bytes(s) \in Nat
    BY <1>1, <1>7, <2>1
  <2>. QED  BY <1>4, <2>2, <2>3
<1>. QED  BY <1>3, <1>5, <1>6, <1>7

\* Bytes that land behind s make at most one line more of it.
LEMMA GlueProperties ==
    ASSUME NEW s \in Seq(Line), NEW l \in Line
    PROVE  /\ Glue(s, l) \in Seq(Line) /\ Glue(s, l) # <<>>
           /\ Len(Glue(s, l)) \in Nat /\ Len(Glue(s, l)) <= Len(s) + 1
           /\ s = <<>> \/ s[Len(s)].nl => Glue(s, l) = Append(s, l)
           /\ s # <<>> /\ ~ s[Len(s)].nl =>
                Glue(s, l) = Append(SubSeq(s, 1, Len(s) - 1),
                                    [s[Len(s)] EXCEPT !.len = @ + l.len, !.nl = l.nl])
<1>0. Len(s) \in Nat /\ (s # <<>> => Len(s) \in 1..Len(s)) /\ (s = <<>> => Len(s) = 0)
  BY LenProperties, EmptySeq
<1>1. Last(s) = s[Len(s)] /\ Front(s) = SubSeq(s, 1, Len(s) - 1)
  BY Zenon DEF Last, Front
<1>2. CASE s = <<>> \/ s[Len(s)].nl
  <2>1. Glue(s, l) = Append(s, l)
    BY <1>1, <1>2, Zenon DEF Glue
  <2>. QED  BY <1>0, <1>2, <2>1, AppendProperties
<1>3. CASE s # <<>> /\ ~ s[Len(s)].nl
  <2>. DEFINE front == SubSeq(s, 1, Len(s) - 1)
              joined == [s[Len(s)] EXCEPT !.len = @ + l.len, !.nl = l.nl]
  <2>1. Glue(s, l) = Append(front, joined)
    BY <1>1, <1>3, Zenon DEF Glue
  <2>2. Len(s) - 1 \in 0..Len(s) /\ s[Len(s)] \in Line
    BY <1>0, <1>3, ElementOfSeq
  <2>3. front \in Seq(Line) /\ Len(front) = Len(s) - 1
    BY <2>2, FirstLines
  <2>4. joined \in Line
    <3>1. PICK e \in Line : e = s[Len(s)]
      BY <2>2
    <3>2. PICK len \in Nat \ {0} : len = e.len + l.len
      BY DEF Line
    <3>3. l.nl \in BOOLEAN
      BY DEF Line
    <3>4. [e EXCEPT !.len = len, !.nl = l.nl] \in Line
      BY <3>3 DEF Line
    <3>. QED  BY <3>1, <3>2, <3>4
  <2>. HIDE DEF front, joined
  <2>5. Append(front, joined) \in Seq(Line) /\ Len(Append(front, joined)) = Len(s)
    BY <1>0, <2>3, <2>4, AppendProperties
  <2>6. Append(front, joined) # <<>>
    BY <1>0, <1>3, <2>5, EmptySeq
  <2>7. ~ (s = <<>> \/ s[Len(s)].nl)
    BY <1>3
  <2>. QED  BY <1>0, <2>1, <2>5, <2>6, <2>7 DEF front, joined
<1>. QED  BY <1>2, <1>3

\* The line that holds the first byte beyond the n-th is the one behind them.
LEMMA WholeLinesProperties ==
    ASSUME NEW s \in Seq(Line), NEW n \in 0..Bytes(s)
    PROVE  /\ WholeLines(s, n) \in 0..Len(s)
           /\ Ends(s)[WholeLines(s, n)] <= n
           /\ \A j \in WholeLines(s, n) + 1..Len(s) : Ends(s)[j] > n
<1>. DEFINE end == Ends(s)
            IsWhole(k) == end[k] <= n /\ \A j \in k + 1..Len(s) : end[j] > n
            S == {k \in Nat : k <= Len(s) /\ end[k] > n}
<1>1. /\ Len(s) \in Nat /\ Bytes(s) = end[Len(s)] /\ end[0] = 0 /\ n \in Nat
      /\ \A k \in 0..Len(s) : end[k] \in Nat
  BY LenProperties, EndsProperties DEF Bytes
<1>2. \A i, j \in 0..Len(s) : i < j => end[i] < end[j]
  BY EndsGrow
<1>. HIDE DEF end
<1>3. CASE n = Bytes(s)
  <2>1. IsWhole(Len(s)) /\ Len(s) \in 0..Len(s)
    BY <1>1, <1>3
  <2>2. \E k \in 0..Len(s) : IsWhole(k)
    BY <2>1
  <2>. QED  BY <2>2, Zenon DEF WholeLines, end
<1>4. CASE n # Bytes(s)
  <2>1. Len(s) \in S
    BY <1>1, <1>4
  <2>2. PICK k \in S : \A j \in Nat : j < k => j \notin S
    <3>1. S \in SUBSET Nat
      OBVIOUS
    <3>. HIDE DEF S
    <3>. QED  BY <2>1, <3>1, LeastNat
  <2>3. k # 0 /\ k \in 0..Len(s) /\ end[k] > n
    BY <1>1
  <2>4. k - 1 \in 0..Len(s) /\ k - 1 \in Nat /\ k - 1 < k /\ (k - 1) + 1 = k /\ k - 1 <= Len(s)
    BY <1>1, <2>3
  <2>5. end[k - 1] <= n
    BY <1>1, <2>2, <2>4
  <2>6. ASSUME NEW j \in k..Len(s) PROVE end[j] > n
    <3>1. j \in 0..Len(s) /\ (j = k \/ k < j)
      BY <1>1, <2>3
    <3>2. end[k] <= end[j]
      BY <1>1, <1>2, <2>3, <3>1
    <3>. QED  BY <1>1, <2>3, <3>1, <3>2
  <2>7. IsWhole(k - 1)
    BY <2>4, <2>5, <2>6
  <2>8. \E i \in 0..Len(s) : IsWhole(i)
    BY <2>4, <2>7, Zenon
  <2>. QED  BY <2>8, Zenon DEF WholeLines, end
<1>. QED  BY <1>3, <1>4

\* The first n bytes of a file are n bytes.
LEMMA FirstBytesProperties ==
    ASSUME NEW s \in Seq(Line), NEW n \in 1..Bytes(s)
    PROVE  /\ FirstBytes(s, n) \in Seq(Line) /\ FirstBytes(s, n) # <<>>
           /\ Bytes(FirstBytes(s, n)) = n
<1>. DEFINE end == Ends(s)
            k == WholeLines(s, n)
            whole == SubSeq(s, 1, k)
            rest == n - end[k]
            part == [s[k + 1] EXCEPT !.len = rest, !.nl = FALSE]
<1>1. /\ Len(s) \in Nat /\ Bytes(s) = end[Len(s)] /\ end[0] = 0 /\ Bytes(s) \in Nat
      /\ \A i \in 0..Len(s) : end[i] \in Nat
  BY LenProperties, EndsProperties DEF Bytes
<1>2. k \in 0..Len(s) /\ end[k] <= n /\ \A j \in k + 1..Len(s) : end[j] > n
  <2>1. n \in 0..Bytes(s)
    BY <1>1
  <2>. QED  BY <2>1, WholeLinesProperties
<1>3. FirstBytes(s, n) = IF rest = 0 THEN whole ELSE Append(whole, part)
  BY Zenon DEF FirstBytes
<1>. HIDE DEF k
<1>4. whole \in Seq(Line) /\ Len(whole) = k /\ \A i \in 1..k : whole[i] = s[i]
  BY <1>2, FirstLines
<1>5. Bytes(whole) = end[k]
  <2>1. /\ 0 \in 0..Len(s) /\ 0 + Len(whole) <= Len(s) /\ k \in 0..Len(whole) /\ 0 + k = k
        /\ \A i \in 1..Len(whole) : whole[i] = s[0 + i]
    BY <1>1, <1>2, <1>4
  <2>. HIDE DEF whole
  <2>2. Ends(whole)[k] = Ends(s)[0 + k] - Ends(s)[0]
    BY <1>4, <2>1, EndsOfPart
  <2>. QED  BY <1>1, <1>2, <1>4, <2>1, <2>2 DEF Bytes
<1>. HIDE DEF whole, end
<1>6. rest \in Nat /\ n \in Nat \ {0}
  BY <1>1, <1>2
<1>7. CASE rest = 0
  <2>1. Bytes(whole) = n
    BY <1>1, <1>2, <1>5, <1>7
  <2>2. whole # <<>>
    BY <1>4, <1>6, <2>1, BytesProperties
  <2>. QED  BY <1>3, <1>4, <1>7, <2>1, <2>2
<1>8. CASE rest # 0
  <2>1. k + 1 \in 1..Len(s)
    BY <1>1, <1>2, <1>8
  <2>2. s[k + 1] \in Line
    BY <2>1, ElementOfSeq
  <2>3. part \in Line /\ part.len = rest
    BY <1>6, <1>8, <2>2 DEF Line
  <2>. HIDE DEF part
  <2>4. /\ Append(whole, part) \in Seq(Line) /\ Append(whole, part) # <<>>
        /\ Bytes(Append(whole, part)) = Bytes(whole) + rest
    BY <1>4, <2>3, AppendProperties, BytesProperties
  <2>5. Bytes(whole) + rest = n
    BY <1>1, <1>2, <1>5
  <2>. QED  BY <1>3, <1>8, <2>4, <2>5
<1>. QED  BY <1>7, <1>8

LEMMA OverwrittenProperties ==
    ASSUME NEW f \in Seq(Line), NEW s \in Seq(Line)
    PROVE  /\ Overwritten(f, s) \in Seq(Line)
           /\ f = <<>> => Overwritten(f, s) = s
<1>. DEFINE end == Ends(f)
            n == Len(f)
<1>1. /\ n \in Nat /\ Bytes(f) = end[n] /\ end[0] = 0 /\ Bytes(s) \in Nat
      /\ \A k \in 0..n : end[k] \in Nat
  BY LenProperties, EndsProperties, BytesProperties DEF Bytes
<1>2. CASE Bytes(f) <= Bytes(s)
  BY <1>2 DEF Overwritten
<1>3. CASE ~ (Bytes(f) <= Bytes(s))
  <2>. HIDE DEF end
  <2>. DEFINE k == WholeLines(f, Bytes(s))
              cut == end[k + 1] - Bytes(s)
              first == IF cut = f[k + 1].len THEN f[k + 1]
                       ELSE [f[k + 1] EXCEPT !.id = 0, !.len = cut]
              rest == SubSeq(f, k + 2, n)
  <2>1. k \in 0..n /\ end[k] <= Bytes(s) /\ \A j \in k + 1..n : end[j] > Bytes(s)
    <3>1. Bytes(s) \in 0..Bytes(f)
      BY <1>1, <1>3
    <3>. QED  BY <3>1, WholeLinesProperties DEF end
  <2>2. Overwritten(f, s) = Glue(s, first) \o rest
    BY <1>3, Zenon DEF Overwritten, end
  <2>. HIDE DEF k
  <2>3. k + 1 \in 1..n /\ k + 1 \in 0..n /\ (k + 1) + 1 = k + 2
    BY <1>1, <1>3, <2>1
  <2>4. cut \in Nat \ {0} /\ f[k + 1] \in Line
    <3>1. end[k + 1] > Bytes(s)
      BY <2>1, <2>3
    <3>2. f[k + 1] \in Line
      BY <2>3, ElementOfSeq
    <3>. QED  BY <1>1, <2>3, <3>1, <3>2
  <2>. HIDE DEF cut
  <2>5. first \in Line
    <3>1. PICK e \in Line : e = f[k + 1]
      BY <2>4
    <3>2. 0 \in 0..MaxLines
      BY BoundsAreNat
    <3>3. [e EXCEPT !.id = 0, !.len = cut] \in Line
      BY <2>4, <3>2 DEF Line
    <3>. QED  BY <3>1, <3>3
  <2>6. rest \in Seq(Line)
    BY <2>3, LastLines
  <2>. HIDE DEF first, rest
  <2>7. Overwritten(f, s) \in Seq(Line)
    <3>1. PICK g \in Seq(Line) : g = Glue(s, first)
      BY <2>5, GlueProperties
    <3>2. g \o rest \in Seq(Line)
      BY <2>6, ConcatProperties
    <3>. QED  BY <2>2, <3>1, <3>2
  <2>8. f # <<>>
    <3>1. ASSUME f = <<>> PROVE Bytes(f) = 0
      BY <1>1, <3>1, EmptySeq
    <3>. QED  BY <1>1, <1>3, <3>1
  <2>. QED  BY <2>7, <2>8
<1>4. f = <<>> => Bytes(f) <= Bytes(s)
  BY <1>1, EmptySeq
<1>. QED  BY <1>2, <1>3, <1>4

-----------------------------------------------------------------------------
\* There is always an inode to create a file in.
LEMMA FreshExists ==
    ASSUME TypeOK, path = NoInode \/ tmp = NoInode
    PROVE  /\ Fresh \in Inodes /\ Fresh \notin {path, tmp, NoInode}
           /\ \A p \in Procs : Fresh \notin {rfd[p], wfd[p]}
<1>. DEFINE R == {rfd[p] : p \in Procs}
            W == {wfd[p] : p \in Procs}
            U == ({path, tmp} \ {NoInode}) \cup R \cup W
            n == 2 + 2 * Cardinality(Procs)
            Free == Inodes \ U
            IsFresh(i) == /\ i \notin {path, tmp}
                          /\ \A p \in Procs : i \notin {rfd[p], wfd[p]}
                          /\ \A j \in 1..i - 1 : \/ j \in {path, tmp}
                                                 \/ \E p \in Procs : j \in {rfd[p], wfd[p]}
<1>1. Cardinality(Procs) \in Nat /\ n \in Nat
  BY ProcsAreFinite, FS_CardinalityType
<1>2. IsFiniteSet(R) /\ Cardinality(R) <= Cardinality(Procs)
  <2>1. rfd \in Surjection(Procs, R)
    BY DEF Surjection, TypeOK
  <2>. QED  BY <2>1, ProcsAreFinite, FS_Surjection
<1>3. IsFiniteSet(W) /\ Cardinality(W) <= Cardinality(Procs)
  <2>1. wfd \in Surjection(Procs, W)
    BY DEF Surjection, TypeOK
  <2>. QED  BY <2>1, ProcsAreFinite, FS_Surjection
<1>4. PICK x : {path, tmp} \ {NoInode} \subseteq {x}
  OBVIOUS
<1>. HIDE DEF R, W
<1>5. /\ IsFiniteSet({path, tmp} \ {NoInode})
      /\ Cardinality({path, tmp} \ {NoInode}) <= 1
  <2>1. IsFiniteSet({x}) /\ Cardinality({x}) = 1
    BY FS_Singleton
  <2>2. ({path, tmp} \ {NoInode}) \in SUBSET {x}
    BY <1>4
  <2>. QED  BY <2>1, <2>2, FS_Subset
<1>6. IsFiniteSet(U) /\ Cardinality(U) < n
  <2>. DEFINE N == {path, tmp} \ {NoInode}
  <2>. HIDE DEF N
  <2>1. /\ IsFiniteSet(N \cup R)
        /\ Cardinality(N \cup R) = Cardinality(N) + Cardinality(R) - Cardinality(N \cap R)
        /\ IsFiniteSet(N) /\ Cardinality(N) <= 1 /\ Cardinality(N) \in Nat
        /\ Cardinality(R) \in Nat /\ Cardinality(N \cap R) \in Nat
    BY <1>2, <1>5, FS_Union, FS_CardinalityType, FS_Intersection DEF N
  <2>2. /\ IsFiniteSet((N \cup R) \cup W)
        /\ Cardinality((N \cup R) \cup W)
             = Cardinality(N \cup R) + Cardinality(W) - Cardinality((N \cup R) \cap W)
        /\ Cardinality(W) \in Nat /\ Cardinality((N \cup R) \cap W) \in Nat
    BY <1>3, <2>1, FS_Union, FS_CardinalityType, FS_Intersection
  <2>. QED  BY <1>1, <1>2, <1>3, <2>1, <2>2 DEF N
<1>. HIDE DEF U
<1>7. Free # {}
  <2>. SUFFICES ASSUME Inodes \subseteq U PROVE FALSE
    OBVIOUS
  <2>1. Inodes = 1..n /\ n > 0
    BY <1>1 DEF Inodes
  <2>. HIDE DEF n
  <2>2. IsFiniteSet(Inodes) /\ Cardinality(Inodes) = n
    BY <1>1, <2>1, FS_Interval
  <2>3. Cardinality(Inodes) <= Cardinality(U) /\ Cardinality(U) \in Nat
    BY <1>6, FS_Subset, FS_CardinalityType
  <2>. QED  BY <1>1, <1>6, <2>2, <2>3
<1>8. \E i \in Inodes : IsFresh(i)
  <2>1. Free \in SUBSET Nat /\ Inodes = 1..n
    BY <1>1 DEF Inodes
  <2>. HIDE DEF Free
  <2>2. PICK i \in Free : \A j \in Nat : j < i => j \notin Free
    BY <1>7, <2>1, LeastNat
  <2>3. i \in Inodes /\ i # NoInode /\ i \notin U /\ i \in 1..n
    BY <1>1, <2>1 DEF Free, NoInode
  <2>4. ASSUME NEW j \in 1..i - 1 PROVE j \in U
    <3>1. j \in Nat /\ j < i /\ j \in 1..n
      BY <1>1, <2>3
    <3>. QED  BY <2>1, <2>2, <3>1 DEF Free
  <2>. QED  BY <2>3, <2>4 DEF U, R, W
<1>9. Fresh \in Inodes /\ IsFresh(Fresh)
  BY <1>8, Zenon DEF Fresh
<1>10. Fresh # NoInode
  BY <1>1, <1>9 DEF Inodes, NoInode
<1>. QED  BY <1>9, <1>10

-----------------------------------------------------------------------------
\* Types and descriptors.

LEMMA LogTypeInit == Init => TypeOK /\ DescriptorsOpen
<1>. SUFFICES ASSUME Init PROVE TypeOK /\ DescriptorsOpen
  OBVIOUS
<1>1. TypeOK
  <2>1. <<>> \in Seq(Line) /\ "idle" \in PCs
    BY EmptySeq DEF PCs
  <2>2. faults \in 0..MaxFaults /\ started \in 0..MaxLines
    BY BoundsAreNat DEF Init
  <2>3. data \in [Inodes -> Seq(Line)] /\ lock \in [Inodes -> Procs \union {Nobody}]
    BY <2>1 DEF Init
  <2>. QED  BY <2>1, <2>2, <2>3 DEF Init, TypeOK
<1>2. Busy = {}
  BY DEF Init, Busy
<1>3. Len(written) = 0 /\ started = 0 /\ Cardinality(Busy) = 0
  BY <1>2, EmptySeq, FS_EmptySet DEF Init
<1>. QED  BY <1>1, <1>3 DEF Init, DescriptorsOpen, Truncating

\* What a change of p's program counter does to the number of calls under way.
LEMMA BusyCount ==
    ASSUME TypeOK, NEW p \in Procs, NEW label \in PCs, Goto(p, label)
    PROVE  /\ pc' \in [Procs -> PCs] /\ pc'[p] = label
           /\ \A q \in Procs \ {p} : pc'[q] = pc[q]
           /\ Cardinality(Busy) \in Nat /\ Cardinality(Busy') \in Nat
           /\ label # "idle" /\ pc[p] # "idle" => Cardinality(Busy') = Cardinality(Busy)
           /\ label # "idle" /\ pc[p] = "idle" => Cardinality(Busy') = Cardinality(Busy) + 1
           /\ label = "idle" /\ pc[p] # "idle" => Cardinality(Busy') = Cardinality(Busy) - 1
<1>1. /\ pc' \in [Procs -> PCs] /\ pc'[p] = label
      /\ \A q \in Procs \ {p} : pc'[q] = pc[q]
  BY DEF TypeOK, Goto
<1>2. /\ IsFiniteSet(Busy) /\ Cardinality(Busy) \in Nat
      /\ IsFiniteSet(Busy') /\ Cardinality(Busy') \in Nat
  <2>1. Busy \in SUBSET Procs /\ Busy' \in SUBSET Procs
    BY DEF Busy
  <2>. QED  BY <2>1, ProcsAreFinite, FS_Subset, FS_CardinalityType
<1>3. ASSUME label # "idle", pc[p] # "idle" PROVE Busy' = Busy
  BY <1>1, <1>3 DEF Busy
<1>4. ASSUME label # "idle", pc[p] = "idle" PROVE Busy' = Busy \cup {p} /\ p \notin Busy
  BY <1>1, <1>4 DEF Busy
<1>5. ASSUME label = "idle", pc[p] # "idle" PROVE Busy' = Busy \ {p} /\ p \in Busy
  BY <1>1, <1>5 DEF Busy
<1>6. ASSUME label # "idle", pc[p] = "idle" PROVE Cardinality(Busy') = Cardinality(Busy) + 1
  BY <1>2, <1>4, <1>6, FS_AddElement
<1>7. ASSUME label = "idle", pc[p] # "idle" PROVE Cardinality(Busy') = Cardinality(Busy) - 1
  BY <1>2, <1>5, <1>7, FS_RemoveElement
<1>. QED  BY <1>1, <1>2, <1>3, <1>6, <1>7

\* A truncation that is given up closes what p had open.
LEMMA SkipIsTyped ==
    ASSUME TypeOK, NEW p \in Procs, SkipTruncate(p)
    PROVE  /\ lock' \in [Inodes -> Procs \union {Nobody}]
           /\ rfd' \in [Procs -> Inodes \union {NoInode}]
           /\ wfd' \in [Procs -> Inodes \union {NoInode}]
           /\ tail' \in [Procs -> Seq(Line)]
           /\ Goto(p, "open")
           /\ \A q \in Procs \ {p} : rfd'[q] = rfd[q] /\ wfd'[q] = wfd[q] /\ tail'[q] = tail[q]
<1>1. <<>> \in Seq(Line)
  BY EmptySeq
<1>. QED  BY <1>1 DEF SkipTruncate, CloseRead, CloseWrite, TypeOK

\* What lands in the log is a line of it, or makes one longer.
LEMMA LandsIsTyped ==
    ASSUME TypeOK, DescriptorsOpen, NEW p \in Procs, pc[p] = "append",
           NEW len \in Nat \ {0}, NEW nl \in BOOLEAN, Lands(p, len, nl)
    PROVE  /\ \E l \in Line : /\ data' = [data EXCEPT ![wfd[p]] = Glue(data[wfd[p]], l)]
                            /\ written' = Glue(written, l)
           /\ data' \in [Inodes -> Seq(Line)] /\ written' \in Seq(Line)
           /\ Len(written') \in Nat /\ Len(written') <= Len(written) + 1
<1>1. PICK l : l = [id |-> Len(written) + 1, len |-> len, nl |-> nl]
  OBVIOUS
<1>2. /\ data' = [data EXCEPT ![wfd[p]] = Glue(data[wfd[p]], l)]
      /\ written' = Glue(written, l)
  BY <1>1, Zenon DEF Lands
<1>3. l \in Line
  <2>1. /\ "idle" \in PCs /\ Len(written) \in Nat /\ started \in 0..MaxLines /\ MaxLines \in Nat
        /\ Len(written) + Cardinality(Busy) <= started
    BY BoundsAreNat, LenProperties DEF TypeOK, DescriptorsOpen, PCs
  <2>2. IsFiniteSet(Busy) /\ Cardinality(Busy) \in Nat /\ p \in Busy
    <3>1. Busy \in SUBSET Procs /\ p \in Busy
      BY DEF Busy
    <3>. QED  BY <3>1, ProcsAreFinite, FS_Subset, FS_CardinalityType
  <2>3. Cardinality(Busy) # 0
    BY <2>2, FS_EmptySet
  <2>4. Len(written) + 1 \in 0..MaxLines
    BY <2>1, <2>2, <2>3
  <2>. QED  BY <1>1, <2>4 DEF Line
<1>4. wfd[p] \in Inodes /\ data[wfd[p]] \in Seq(Line) /\ written \in Seq(Line)
  BY DEF TypeOK, DescriptorsOpen
<1>5. PICK f \in Seq(Line), s \in Seq(Line) : f = data[wfd[p]] /\ s = written
  BY <1>4
<1>6. /\ Glue(f, l) \in Seq(Line) /\ Glue(s, l) \in Seq(Line)
      /\ Len(Glue(s, l)) \in Nat /\ Len(Glue(s, l)) <= Len(s) + 1
  BY <1>3, GlueProperties
<1>7. data' \in [Inodes -> Seq(Line)]
  BY <1>2, <1>4, <1>5, <1>6 DEF TypeOK
<1>. QED  BY <1>2, <1>3, <1>5, <1>6, <1>7

LEMMA FillsIsTyped ==
    ASSUME TypeOK, DescriptorsOpen, NEW p \in Procs, pc[p] = "writetmp",
           NEW s \in Seq(Line), Fills(p, s)
    PROVE  data' \in [Inodes -> Seq(Line)]
<1>1. wfd[p] \in Inodes
  BY DEF DescriptorsOpen
<1>2. PICK f \in Seq(Line) : f = data[wfd[p]]
  BY <1>1 DEF TypeOK
<1>3. Overwritten(f, s) \in Seq(Line)
  BY OverwrittenProperties
<1>. QED  BY <1>1, <1>2, <1>3 DEF Fills, TypeOK

LEMMA PartIsTyped ==
    ASSUME TypeOK, DescriptorsOpen, NEW p \in Procs, Part(p)
    PROVE  /\ data' \in [Inodes -> Seq(Line)] /\ written' \in Seq(Line)
           /\ Len(written') \in Nat /\ Len(written') <= Len(written) + 1
           /\ pc[p] # "append" => written' = written
<1>0. Len(written) \in Nat
  BY LenProperties DEF TypeOK
<1>1. CASE UNCHANGED <<data, written>>
  BY <1>0, <1>1 DEF TypeOK
<1>2. CASE /\ pc[p] = "writetmp"
           /\ \E n \in 1..Bytes(tail[p]) : Fills(p, FirstBytes(tail[p], n))
           /\ UNCHANGED written
  <2>1. PICK s \in Seq(Line) : s = tail[p]
    BY DEF TypeOK
  <2>2. PICK n \in 1..Bytes(s) : Fills(p, FirstBytes(s, n))
    BY <1>2, <2>1
  <2>3. PICK part \in Seq(Line) : part = FirstBytes(s, n)
    BY FirstBytesProperties
  <2>4. data' \in [Inodes -> Seq(Line)]
    BY <1>2, <2>2, <2>3, FillsIsTyped
  <2>. QED  BY <1>0, <1>2, <2>4 DEF TypeOK
<1>3. CASE /\ pc[p] = "append"
           /\ \E n \in Lens : \E m \in 1..n - 1 : Lands(p, m, FALSE)
  <2>1. PICK n \in Lens : \E m \in 1..n - 1 : Lands(p, m, FALSE)
    BY <1>3
  <2>2. PICK m \in 1..n - 1 : Lands(p, m, FALSE)
    BY <2>1
  <2>3. m \in Nat \ {0}
    BY BoundsAreNat
  <2>. QED  BY <1>3, <2>2, <2>3, LandsIsTyped
<1>. QED  BY <1>1, <1>2, <1>3 DEF Part

LEMMA LogTypeStep ==
    ASSUME TypeOK, DescriptorsOpen, [Next]_vars
    PROVE  TypeOK' /\ DescriptorsOpen'
<1>. USE DEF PCs, Truncating
<1>0. /\ Len(written) \in Nat /\ started \in Nat /\ MaxBytes \in Nat
      /\ Len(written) + Cardinality(Busy) <= started
  BY BoundsAreNat, LenProperties DEF TypeOK, DescriptorsOpen
<1>. DEFINE Rest == /\ data' \in [Inodes -> Seq(Line)]
                    /\ {path', tmp'} \subseteq Inodes \union {NoInode}
                    /\ lock' \in [Inodes -> Procs \union {Nobody}]
                    /\ rfd' \in [Procs -> Inodes \union {NoInode}]
                    /\ wfd' \in [Procs -> Inodes \union {NoInode}]
                    /\ tail' \in [Procs -> Seq(Line)]
                    /\ faults' \in 0..MaxFaults
                    /\ started' \in 0..MaxLines
                    /\ written' \in Seq(Line)
            Moved(p, label) ==
               /\ Goto(p, label)
               /\ label \in {"flock", "read", "opentmp", "writetmp", "rename"} => rfd'[p] \in Inodes
               /\ label \in {"stat", "flock", "read", "opentmp", "writetmp", "rename"} => MaxBytes > 0
               /\ label \in {"writetmp", "append"} => wfd'[p] \in Inodes
               /\ \A q \in Procs \ {p} : rfd'[q] = rfd[q] /\ wfd'[q] = wfd[q]
\* A step of p that is not the first or the last of its call.
<1>1. ASSUME NEW p \in Procs, NEW label \in PCs \ {"idle"}, Moved(p, label),
             pc[p] # "idle", Rest, UNCHANGED <<started, written>>
      PROVE  TypeOK' /\ DescriptorsOpen'
  <2>1. /\ pc' \in [Procs -> PCs] /\ Cardinality(Busy') = Cardinality(Busy)
        /\ pc'[p] = label /\ \A q \in Procs \ {p} : pc'[q] = pc[q]
    BY <1>1, BusyCount
  <2>2. {raced', short'} \subseteq BOOLEAN
    BY DEF Next, vars, TypeOK
  <2>3. TypeOK'
    BY <1>1, <2>1, <2>2 DEF TypeOK
  <2>4. Len(written') + Cardinality(Busy') <= started'
    BY <1>0, <1>1, <2>1
  <2>. QED  BY <1>1, <2>1, <2>3, <2>4 DEF DescriptorsOpen
\* The last step of a call, or its end by a fault.
<1>2. ASSUME NEW p \in Procs, Moved(p, "idle"), pc[p] # "idle", Rest,
             started' = started, Len(written') \in Nat, Len(written') <= Len(written) + 1
      PROVE  TypeOK' /\ DescriptorsOpen'
  <2>1. /\ pc' \in [Procs -> PCs] /\ Cardinality(Busy') = Cardinality(Busy) - 1
        /\ pc'[p] = "idle" /\ \A q \in Procs \ {p} : pc'[q] = pc[q]
        /\ Cardinality(Busy) \in Nat
    BY <1>2, BusyCount
  <2>2. {raced', short'} \subseteq BOOLEAN
    BY DEF Next, vars, TypeOK
  <2>3. TypeOK'
    BY <1>2, <2>1, <2>2 DEF TypeOK
  <2>4. Len(written') + Cardinality(Busy') <= started'
    <3>1. started' = started /\ Len(written') \in Nat /\ Len(written') <= Len(written) + 1
      BY <1>2
    <3>2. Cardinality(Busy') = Cardinality(Busy) - 1 /\ Cardinality(Busy) \in Nat
      BY <2>1
    <3>. QED  BY <1>0, <3>1, <3>2
  <2>. QED  BY <1>2, <2>1, <2>3, <2>4 DEF DescriptorsOpen
<1>3. ASSUME NEW p \in Procs, Start(p) PROVE TypeOK' /\ DescriptorsOpen'
  <2>1. PICK label \in {"stat", "open"} : /\ Goto(p, label)
                                          /\ label = "stat" => MaxBytes > 0
    BY <1>3 DEF Start
  <2>2. /\ pc' \in [Procs -> PCs] /\ Cardinality(Busy') = Cardinality(Busy) + 1
        /\ Cardinality(Busy) \in Nat
        /\ pc'[p] = label /\ \A q \in Procs \ {p} : pc'[q] = pc[q]
    BY <1>3, <2>1, BusyCount DEF Start
  <2>3. started' = started + 1 /\ started' \in 0..MaxLines
        /\ UNCHANGED <<fsVars, rfd, wfd, tail, faults, written>>
    BY <1>0, <1>3, BoundsAreNat DEF Start, TypeOK
  <2>4. {raced', short'} \subseteq BOOLEAN
    BY DEF Next, vars, TypeOK
  <2>5. TypeOK'
    BY <2>2, <2>3, <2>4 DEF TypeOK, fsVars
  <2>6. Len(written') + Cardinality(Busy') <= started'
    BY <1>0, <2>2, <2>3
  <2>. QED  BY <2>1, <2>2, <2>3, <2>5, <2>6 DEF DescriptorsOpen
<1>4. ASSUME NEW p \in Procs, OpenRead(p) PROVE TypeOK' /\ DescriptorsOpen'
  <2>1. MaxBytes > 0 /\ pc[p] # "idle"
    BY <1>4 DEF OpenRead, DescriptorsOpen
  <2>2. PICK label \in {"open", "flock"} : Goto(p, label) /\ (label = "flock" => path # NoInode)
    BY <1>4 DEF OpenRead
  <2>3. Rest /\ UNCHANGED <<started, written>>
    BY <1>4 DEF OpenRead, TypeOK, fsVars
  <2>4. Moved(p, label)
    BY <1>4, <2>1, <2>2 DEF OpenRead, TypeOK
  <2>. QED  BY <1>1, <2>1, <2>2, <2>3, <2>4
\* maybeTruncate gives up.
<1>5. ASSUME NEW p \in Procs, SkipTruncate(p), pc[p] # "idle",
             data' \in [Inodes -> Seq(Line)], {path', tmp'} \subseteq Inodes \union {NoInode},
             faults' \in 0..MaxFaults, UNCHANGED <<started, written>>
      PROVE  TypeOK' /\ DescriptorsOpen'
  <2>1. Moved(p, "open") /\ Rest
    BY <1>5, SkipIsTyped DEF TypeOK
  <2>. QED  BY <1>1, <1>5, <2>1
<1>6. ASSUME NEW p \in Procs, TryLock(p) PROVE TypeOK' /\ DescriptorsOpen'
  <2>1. CASE CanLock(p)
    <3>1. /\ pc[p] = "flock" /\ lock' = [lock EXCEPT ![rfd[p]] = p] /\ Goto(p, "read")
          /\ UNCHANGED <<rfd, wfd, tail, data, path, tmp, faults, started, written>>
      BY <1>6, <2>1 DEF TryLock
    <3>2. Rest
      BY <3>1 DEF TypeOK
    <3>3. Moved(p, "read")
      BY <3>1 DEF DescriptorsOpen
    <3>. QED  BY <1>1, <3>1, <3>2, <3>3
  <2>2. CASE ~ CanLock(p)
    <3>1. /\ pc[p] = "flock" /\ SkipTruncate(p)
          /\ UNCHANGED <<data, path, tmp, faults, started, written>>
      BY <1>6, <2>2 DEF TryLock
    <3>. QED  BY <1>5, <3>1 DEF TypeOK
  <2>. QED  BY <2>1, <2>2
<1>7. ASSUME NEW p \in Procs, ReadTail(p) PROVE TypeOK' /\ DescriptorsOpen'
  <2>. DEFINE keep == KeptTail(data[rfd[p]], MaxBytes)
  <2>1. /\ pc[p] = "read" /\ rfd[p] \in Inodes /\ MaxBytes \in Nat \ {0}
        /\ UNCHANGED <<data, path, tmp, faults, started, written>>
    BY <1>0, <1>7 DEF ReadTail, DescriptorsOpen
  <2>2. keep \in Seq(Line)
    <3>1. data[rfd[p]] \in Seq(Line)
      BY <2>1 DEF TypeOK
    <3>2. PICK s \in Seq(Line) : s = data[rfd[p]]
      BY <3>1
    <3>3. KeptTail(s, MaxBytes) \in Seq(Line)
      BY <2>1, KeptTailProperties, LastLines
    <3>. QED  BY <3>2, <3>3
  <2>. HIDE DEF keep
  <2>3. CASE SkipTruncate(p)
    BY <1>5, <2>1, <2>3 DEF TypeOK
  <2>4. CASE /\ tail' = [tail EXCEPT ![p] = keep]
             /\ Goto(p, "opentmp")
             /\ UNCHANGED <<lock, rfd, wfd>>
    <3>1. Rest
      BY <2>1, <2>2, <2>4 DEF TypeOK
    <3>2. Moved(p, "opentmp")
      BY <2>1, <2>4
    <3>. QED  BY <1>1, <2>1, <3>1, <3>2
  <2>. QED  BY <1>7, <2>3, <2>4, Zenon DEF ReadTail, keep
<1>8. ASSUME NEW p \in Procs, OpenTmp(p) PROVE TypeOK' /\ DescriptorsOpen'
  <2>1. PICK i : i = IF tmp = NoInode THEN Fresh ELSE tmp
    OBVIOUS
  <2>2. i \in Inodes
    BY <2>1, FreshExists DEF TypeOK
  <2>3. /\ pc[p] = "opentmp"
        /\ data' = [data EXCEPT ![i] = <<>>]
        /\ tmp' = i
        /\ wfd' = [wfd EXCEPT ![p] = i]
        /\ Goto(p, "writetmp")
        /\ UNCHANGED <<path, lock, rfd, tail, faults, started, written>>
    BY <1>8, <2>1, Zenon DEF OpenTmp
  <2>4. Rest
    BY <2>2, <2>3, EmptySeq DEF TypeOK
  <2>5. Moved(p, "writetmp")
    BY <2>2, <2>3 DEF TypeOK, DescriptorsOpen
  <2>. QED  BY <1>1, <2>3, <2>4, <2>5
<1>9. ASSUME NEW p \in Procs, WriteTmp(p) PROVE TypeOK' /\ DescriptorsOpen'
  <2>1. /\ pc[p] = "writetmp" /\ rfd[p] \in Inodes /\ MaxBytes > 0
        /\ Fills(p, tail[p]) /\ CloseWrite(p) /\ Goto(p, "rename")
        /\ UNCHANGED <<path, tmp, lock, rfd, tail, faults, started, written>>
    BY <1>9 DEF WriteTmp, DescriptorsOpen
  <2>2. PICK s \in Seq(Line) : s = tail[p]
    BY DEF TypeOK
  <2>3. data' \in [Inodes -> Seq(Line)]
    BY <2>1, <2>2, FillsIsTyped
  <2>4. Rest
    BY <2>1, <2>3 DEF TypeOK, CloseWrite
  <2>5. Moved(p, "rename")
    BY <2>1 DEF TypeOK, CloseWrite
  <2>. QED  BY <1>1, <2>1, <2>4, <2>5
<1>10. ASSUME NEW p \in Procs, Rename(p) PROVE TypeOK' /\ DescriptorsOpen'
  BY <1>5, <1>10 DEF Rename, TypeOK
<1>11. ASSUME NEW p \in Procs, OpenAppend(p) PROVE TypeOK' /\ DescriptorsOpen'
  <2>1. PICK i : i = IF path = NoInode THEN Fresh ELSE path
    OBVIOUS
  <2>2. i \in Inodes
    BY <2>1, FreshExists DEF TypeOK
  <2>3. /\ pc[p] = "open" /\ path' = i
        /\ data' = IF path = NoInode THEN [data EXCEPT ![i] = <<>>] ELSE data
        /\ wfd' = [wfd EXCEPT ![p] = i]
        /\ Goto(p, "append")
        /\ UNCHANGED <<tmp, lock, rfd, tail, faults, started, written>>
    BY <1>11, <2>1, Zenon DEF OpenAppend
  <2>4. Rest
    BY <2>2, <2>3, EmptySeq DEF TypeOK
  <2>5. Moved(p, "append")
    BY <2>2, <2>3 DEF TypeOK
  <2>. QED  BY <1>1, <2>3, <2>4, <2>5
<1>12. ASSUME NEW p \in Procs, AppendLine(p) PROVE TypeOK' /\ DescriptorsOpen'
  <2>1. PICK n \in Lens : Lands(p, n, TRUE)
    BY <1>12, Zenon DEF AppendLine
  <2>2. /\ pc[p] = "append" /\ CloseWrite(p) /\ Goto(p, "idle")
        /\ UNCHANGED <<path, tmp, lock, rfd, tail, faults, started>>
    BY <1>12 DEF AppendLine
  <2>3. n \in Nat \ {0}
    BY BoundsAreNat
  <2>4. /\ data' \in [Inodes -> Seq(Line)] /\ written' \in Seq(Line)
        /\ Len(written') \in Nat /\ Len(written') <= Len(written) + 1
    BY <2>1, <2>2, <2>3, LandsIsTyped
  <2>5. Rest
    BY <2>2, <2>4 DEF TypeOK, CloseWrite
  <2>6. Moved(p, "idle")
    BY <2>2 DEF TypeOK, CloseWrite
  <2>. QED  BY <1>2, <2>2, <2>4, <2>5, <2>6
<1>13. ASSUME NEW p \in Procs, IOError(p) PROVE TypeOK' /\ DescriptorsOpen'
  <2>1. faults' \in 0..MaxFaults /\ UNCHANGED <<path, tmp, started>>
    BY <1>13, BoundsAreNat DEF IOError, Fault, TypeOK
  <2>2. /\ data' \in [Inodes -> Seq(Line)] /\ written' \in Seq(Line)
        /\ Len(written') \in Nat /\ Len(written') <= Len(written) + 1
        /\ pc[p] # "append" => written' = written
    BY <1>13, PartIsTyped DEF IOError
  <2>3. CASE pc[p] \in {"stat", "flock", "read", "opentmp", "writetmp", "rename"} /\ SkipTruncate(p)
    BY <1>5, <2>1, <2>2, <2>3 DEF TypeOK
  <2>4. CASE /\ pc[p] \in {"open", "append"} /\ CloseWrite(p) /\ Goto(p, "idle")
             /\ UNCHANGED <<lock, rfd, tail>>
    <3>1. Rest
      BY <2>1, <2>2, <2>4 DEF TypeOK, CloseWrite
    <3>2. Moved(p, "idle")
      BY <2>4 DEF TypeOK, CloseWrite
    <3>. QED  BY <1>2, <2>1, <2>2, <2>4, <3>1, <3>2
  <2>. QED  BY <1>13, <2>3, <2>4 DEF IOError
<1>14. ASSUME NEW p \in Procs, Killed(p) PROVE TypeOK' /\ DescriptorsOpen'
  <2>1. /\ faults' \in 0..MaxFaults /\ UNCHANGED <<path, tmp, started>>
        /\ pc[p] # "idle" /\ Goto(p, "idle")
    BY <1>14, BoundsAreNat DEF Killed, Fault, TypeOK
  <2>2. /\ data' \in [Inodes -> Seq(Line)] /\ written' \in Seq(Line)
        /\ Len(written') \in Nat /\ Len(written') <= Len(written) + 1
    BY <1>14, PartIsTyped DEF Killed
  <2>3. Rest
    BY <1>14, <2>1, <2>2, EmptySeq DEF Killed, CloseRead, CloseWrite, TypeOK
  <2>4. Moved(p, "idle")
    BY <1>14, <2>1 DEF Killed, CloseRead, CloseWrite, TypeOK
  <2>. QED  BY <1>2, <2>1, <2>2, <2>3, <2>4
<1>16. ASSUME NEW p \in Procs, ReadShort(p) PROVE TypeOK' /\ DescriptorsOpen'
  <2>1. /\ pc[p] = "read" /\ rfd[p] \in Inodes /\ MaxBytes \in Nat \ {0}
        /\ faults' \in 0..MaxFaults /\ Goto(p, "opentmp")
        /\ UNCHANGED <<fsVars, rfd, wfd, started, written>>
    BY <1>0, <1>16, BoundsAreNat DEF ReadShort, Fault, DescriptorsOpen, TypeOK
  <2>2. PICK s \in Seq(Line) : s = KeptTail(data[rfd[p]], MaxBytes)
    <3>1. PICK f \in Seq(Line) : f = data[rfd[p]]
      BY <2>1 DEF TypeOK
    <3>2. KeptTail(f, MaxBytes) \in Seq(Line)
      BY <2>1, KeptTailProperties, LastLines
    <3>. QED  BY <3>1, <3>2
  <2>3. PICK n \in 1..Bytes(s) - 1 : tail' = [tail EXCEPT ![p] = FirstBytes(s, n)]
    BY <1>16, <2>2 DEF ReadShort
  <2>4. PICK t \in Seq(Line) : t = FirstBytes(s, n)
    <3>1. n \in 1..Bytes(s)
      BY BytesProperties
    <3>. QED  BY <3>1, FirstBytesProperties
  <2>5. Rest
    BY <2>1, <2>3, <2>4 DEF TypeOK, fsVars
  <2>6. Moved(p, "opentmp")
    BY <2>1
  <2>. QED  BY <1>1, <2>1, <2>5, <2>6
<1>15. CASE UNCHANGED vars
  BY <1>15 DEF vars, fsVars, TypeOK, DescriptorsOpen, Busy
<1>. QED  BY <1>3, <1>4, <1>6, <1>7, <1>8, <1>9, <1>10, <1>11, <1>12, <1>13, <1>14, <1>15, <1>16
          DEF Next, Step

-----------------------------------------------------------------------------
\* What the log misses.

\* A line appended to both stays at the end of both.
LEMMA EndOfAppend ==
    ASSUME NEW s \in Seq(Line), NEW t \in Seq(Line), NEW l \in Line, EndOf(s, t)
    PROVE  EndOf(Append(s, l), Append(t, l))
<1>. DEFINE s1 == Append(s, l)
            t1 == Append(t, l)
            m == Len(s)
            n == Len(t)
<1>1. /\ m \in Nat /\ n \in Nat /\ m <= n /\ \A i \in 1..m : s[i] = t[(n - m) + i]
  BY LenProperties, SuffixIsEnd DEF EndOf
<1>2. /\ s1 \in Seq(Line) /\ Len(s1) = m + 1 /\ \A i \in 1..m : s1[i] = s[i]
      /\ s1[m + 1] = l
      /\ t1 \in Seq(Line) /\ Len(t1) = n + 1 /\ \A i \in 1..n : t1[i] = t[i]
      /\ t1[n + 1] = l
      /\ Bytes(s1) = Bytes(s) + l.len /\ Bytes(s) \in Nat /\ l.len \in Nat
  <2>1. l.len \in Nat
    BY DEF Line
  <2>. QED  BY <2>1, AppendProperties, BytesProperties
<1>. HIDE DEF s1, t1
<1>3. IsSuffix(s1, t1)
  <2>1. ASSUME NEW i \in 1..m + 1 PROVE s1[i] = t1[((n + 1) - (m + 1)) + i]
    <3>1. CASE i = m + 1
      <4>1. ((n + 1) - (m + 1)) + i = n + 1
        BY <1>1, <3>1
      <4>. QED  BY <1>2, <3>1, <4>1
    <3>2. CASE i # m + 1
      <4>1. /\ i \in 1..m /\ (n - m) + i \in 1..n /\ ((n + 1) - (m + 1)) + i = (n - m) + i
        BY <1>1, <3>2
      <4>. QED  BY <1>1, <1>2, <4>1
    <3>. QED  BY <3>1, <3>2
  <2>2. m + 1 <= n + 1
    BY <1>1
  <2>. QED  BY <1>2, <2>1, <2>2, SuffixIsEnd
<1>4. CASE s = t
  BY <1>3, <1>4 DEF EndOf, s1, t1
<1>5. CASE s # t /\ MaxBytes > 0 /\ Bytes(s) + t[n - m].len >= MaxBytes
  <2>1. n # m
    BY <1>1, <1>5, SeqEqual
  <2>2. n - m \in 1..n /\ (n + 1) - (m + 1) = n - m
    BY <1>1, <2>1
  <2>3. t1[(n + 1) - (m + 1)] = t[n - m] /\ t[n - m].len \in Nat
    BY <1>2, <2>2, EndsProperties
  <2>. HIDE DEF m, n
  <2>4. Bytes(s1) + t1[(n + 1) - (m + 1)].len >= MaxBytes
    BY <1>2, <1>5, <2>3, BoundsAreNat, SMTT(30)
  <2>5. Bytes(s1) + t1[Len(t1) - Len(s1)].len >= MaxBytes
    BY <1>2, <2>4
  <2>6. EndOf(s1, t1)
    BY <1>3, <1>5, <2>5 DEF EndOf
  <2>. QED  BY <2>6 DEF s1, t1
<1>. QED  BY <1>4, <1>5 DEF EndOf

\* Bytes glued to the last line of both stay at the end of both.
LEMMA EndOfGlue ==
    ASSUME NEW s \in Seq(Line), NEW t \in Seq(Line), NEW l \in Line, EndOf(s, t),
           s = <<>> => t = <<>>
    PROVE  EndOf(Glue(s, l), Glue(t, l))
<1>. DEFINE m == Len(s)
            n == Len(t)
<1>1. /\ m \in Nat /\ n \in Nat /\ m <= n /\ \A i \in 1..m : s[i] = t[(n - m) + i]
  BY LenProperties, SuffixIsEnd DEF EndOf
<1>2. CASE s = <<>>
  <2>1. t = <<>>
    BY <1>2
  <2>2. Glue(s, l) = Append(s, l) /\ Glue(t, l) = Append(t, l)
    BY <1>2, <2>1, GlueProperties
  <2>. QED  BY <2>2, EndOfAppend
<1>3. CASE s # <<>>
  <2>1. m \in 1..m /\ n \in 1..n /\ (n - m) + m = n
    BY <1>1, <1>3, EmptySeq
  <2>2. s[m] = t[n] /\ t # <<>>
    BY <1>1, <2>1, EmptySeq
  <2>3. CASE s[m].nl
    <3>1. Glue(s, l) = Append(s, l) /\ Glue(t, l) = Append(t, l)
      BY <2>2, <2>3, GlueProperties
    <3>. QED  BY <3>1, EndOfAppend
  <2>4. CASE ~ s[m].nl
    <3>. DEFINE joined == [s[m] EXCEPT !.len = @ + l.len, !.nl = l.nl]
                s0 == SubSeq(s, 1, m - 1)
                t0 == SubSeq(t, 1, n - 1)
                s1 == Append(s0, joined)
                t1 == Append(t0, joined)
    <3>1. Glue(s, l) = s1 /\ Glue(t, l) = t1
      BY <1>3, <2>2, <2>4, GlueProperties
    <3>2. m - 1 \in 0..m /\ n - 1 \in 0..n /\ s[m] \in Line
      BY <1>1, <2>1, ElementOfSeq
    <3>3. /\ s0 \in Seq(Line) /\ Len(s0) = m - 1 /\ \A i \in 1..m - 1 : s0[i] = s[i]
          /\ t0 \in Seq(Line) /\ Len(t0) = n - 1 /\ \A i \in 1..n - 1 : t0[i] = t[i]
      BY <3>2, FirstLines
    <3>4. joined \in Line /\ joined.len = s[m].len + l.len
      <4>1. PICK e \in Line : e = s[m]
        BY <3>2
      <4>2. PICK len \in Nat \ {0} : len = e.len + l.len
        BY DEF Line
      <4>3. l.nl \in BOOLEAN
        BY DEF Line
      <4>4. [e EXCEPT !.len = len, !.nl = l.nl] \in Line /\ [e EXCEPT !.len = len, !.nl = l.nl].len = len
        BY <4>3 DEF Line
      <4>. QED  BY <4>1, <4>2, <4>4
    <3>5. Bytes(s) = Bytes(s0) + s[m].len
      <4>1. s = Append(s0, s[m])
        <5>1. /\ Append(s0, s[m]) \in Seq(Line) /\ Len(Append(s0, s[m])) = m
              /\ \A i \in 1..m : Append(s0, s[m])[i] = s[i]
          BY <2>1, <3>2, <3>3, AppendProperties
        <5>. QED  BY <5>1, SeqEqual
      <4>. QED  BY <3>2, <3>3, <4>1, BytesProperties
    <3>6. EndOf(s0, t0) \/ (s # t /\ MaxBytes > 0 /\ Bytes(s) + t[n - m].len >= MaxBytes)
      <4>1. CASE s = t
        <5>1. s0 = t0
          BY <4>1
        <5>2. IsSuffix(s0, t0)
          BY <3>3, <5>1, SuffixOfSelf
        <5>. QED  BY <5>1, <5>2 DEF EndOf
      <4>2. CASE s # t
        BY <4>2 DEF EndOf
      <4>. QED  BY <4>1, <4>2
    <3>. HIDE DEF s0, t0, joined
    <3>7. CASE EndOf(s0, t0)
      BY <3>1, <3>3, <3>4, <3>7, EndOfAppend
    <3>8. CASE s # t /\ MaxBytes > 0 /\ Bytes(s) + t[n - m].len >= MaxBytes
      <4>1. n # m
        BY <1>1, <3>8, SeqEqual
      <4>2. n - m \in 1..n - 1 /\ n - m \in 1..n
        BY <1>1, <2>1, <4>1
      <4>3. /\ s1 \in Seq(Line) /\ Len(s1) = m /\ s1[m] = joined
            /\ \A i \in 1..m - 1 : s1[i] = s[i]
            /\ t1 \in Seq(Line) /\ Len(t1) = n /\ t1[n] = joined
            /\ \A i \in 1..n - 1 : t1[i] = t[i]
            /\ Bytes(s1) = Bytes(s0) + joined.len
        <5>1. m - 1 + 1 = m /\ n - 1 + 1 = n
          BY <1>1
        <5>. QED  BY <3>3, <3>4, <5>1, AppendProperties, BytesProperties
      <4>. HIDE DEF s1, t1
      <4>4. IsSuffix(s1, t1)
        <5>1. ASSUME NEW i \in 1..m PROVE s1[i] = t1[(n - m) + i]
          <6>1. CASE i = m
            BY <2>1, <4>3, <6>1
          <6>2. CASE i # m
            <7>1. i \in 1..m - 1 /\ (n - m) + i \in 1..n - 1
              BY <1>1, <6>2
            <7>. QED  BY <1>1, <4>3, <7>1
          <6>. QED  BY <6>1, <6>2
        <5>. QED  BY <1>1, <4>3, <5>1, SuffixIsEnd
      <4>5. t1[n - m] = t[n - m]
        BY <4>2, <4>3
      <4>6. Bytes(s1) + t1[n - m].len >= MaxBytes
        <5>1. /\ t[n - m].len \in Nat /\ s[m].len \in Nat /\ l.len \in Nat
              /\ Bytes(s0) \in Nat /\ MaxBytes \in Nat
          BY <2>1, <3>3, <4>2, EndsProperties, BytesProperties, BoundsAreNat DEF Line
        <5>2. PICK a \in Nat, b \in Nat, c \in Nat, d \in Nat :
                a = Bytes(s0) /\ b = s[m].len /\ c = l.len /\ d = t[n - m].len
          BY <5>1
        <5>3. (a + b) + d >= MaxBytes
          BY <3>5, <3>8, <5>2
        <5>4. (a + (b + c)) + d >= MaxBytes
          BY <5>1, <5>3
        <5>. QED  BY <3>4, <4>3, <4>5, <5>2, <5>4
      <4>7. EndOf(s1, t1)
        BY <3>8, <4>3, <4>4, <4>6 DEF EndOf
      <4>. QED  BY <3>1, <4>7
    <3>. QED  BY <3>6, <3>7, <3>8
  <2>. QED  BY <2>3, <2>4
<1>. QED  BY <1>2, <1>3

\* The tail kept of an end beyond the cap is such an end.
LEMMA EndOfKeptTail ==
    ASSUME NEW s \in Seq(Line), NEW t \in Seq(Line), EndOf(s, t), MaxBytes > 0, TooBig(s)
    PROVE  EndOf(KeptTail(s, MaxBytes), t)
<1>. DEFINE kept == KeptTail(s, MaxBytes)
            m == Len(s)
            n == Len(t)
<1>1. /\ m \in Nat /\ n \in Nat /\ m <= n /\ \A i \in 1..m : s[i] = t[(n - m) + i]
      /\ MaxBytes \in Nat \ {0} /\ Bytes(s) > MaxBytes
  BY LenProperties, SuffixIsEnd, BoundsAreNat DEF EndOf, TooBig
<1>2. PICK k \in 1..m : kept = SubSeq(s, k + 1, m) /\ Bytes(kept) + s[k].len >= MaxBytes
  BY <1>1, KeptTailProperties
<1>3. /\ kept \in Seq(Line) /\ Len(kept) = m - k
      /\ \A i \in 1..m - k : kept[i] = s[k + i]
  <2>1. k \in 0..m
    BY <1>1
  <2>. QED  BY <1>2, <2>1, LastLines
<1>. HIDE DEF kept
<1>4. IsSuffix(kept, t)
  <2>1. ASSUME NEW i \in 1..m - k PROVE kept[i] = t[(n - (m - k)) + i]
    <3>1. k + i \in 1..m /\ (n - m) + (k + i) = (n - (m - k)) + i
      BY <1>1
    <3>. QED  BY <1>1, <1>3, <3>1
  <2>2. m - k <= n
    BY <1>1
  <2>. QED  BY <1>3, <2>1, <2>2, SuffixIsEnd
<1>5. n - Len(kept) = (n - m) + k
  BY <1>1, <1>3
<1>. HIDE DEF m, n
<1>6. t[n - Len(kept)] = s[k]
  BY <1>1, <1>5
<1>. QED  BY <1>1, <1>2, <1>4, <1>6 DEF EndOf, kept, n

-----------------------------------------------------------------------------
\* The invariant.

LEMMA LogInvInit == Init => LogInv
<1>. SUFFICES ASSUME Init PROVE LogInv
  OBVIOUS
<1>1. TypeOK /\ DescriptorsOpen
  BY LogTypeInit
<1>2. Log = written /\ written = <<>> /\ <<>> \in Seq(Line) /\ Len(<<>>) = 0
  BY EmptySeq DEF Init, Log
<1>3. IsSuffix(Log, written)
  BY <1>2, SuffixOfSelf
<1>4. LogIsRecent
  BY <1>2, <1>3 DEF LogIsRecent, EndOf
<1>5. \A p \in Procs : pc[p] = "idle"
  BY DEF Init
<1>6. AloneWhileReplacing
  BY <1>2, <1>5 DEF AloneWhileReplacing, Undisturbed, Racing, Truncating, Replacing, Init
<1>. QED  BY <1>1, <1>4, <1>6 DEF LogInv

\* Who replaces the log does so alone.
LEMMA ReplacerIsAlone ==
    ASSUME TypeOK, ~Racing, NEW p \in Procs, pc[p] \in Replacing, NEW q \in Procs \ {p}
    PROVE  pc[q] \notin Truncating \union {"append"}
BY DEF Racing, Replacing, Truncating

LEMMA NoInodeIsNone == NoInode \notin Inodes
<1>1. Cardinality(Procs) \in Nat
  BY ProcsAreFinite, FS_CardinalityType
<1>. QED  BY <1>1 DEF NoInode, Inodes

LEMMA LogInvStep ==
    ASSUME LogInv, TypeOK', DescriptorsOpen', [Next]_vars, ~raced'
    PROVE  /\ path' # tmp' \/ path' = NoInode
           /\ Log' = <<>> => written' = <<>>
           /\ \A p \in Procs : Undisturbed(p)'
           /\ ~short' => EndOf(Log', written')
<1>. DEFINE Quiet == /\ path' # tmp' \/ path' = NoInode
                     /\ Log' = <<>> => written' = <<>>
                     /\ \A p \in Procs : Undisturbed(p)'
                     /\ ~short' => EndOf(Log', written')
            Same(q) == pc'[q] = pc[q] /\ rfd'[q] = rfd[q] /\ wfd'[q] = wfd[q] /\ tail'[q] = tail[q]
<1>1. /\ TypeOK /\ DescriptorsOpen /\ ~raced /\ ~Racing
      /\ path # tmp \/ path = NoInode
      /\ Log = <<>> => written = <<>>
      /\ path = NoInode => written = <<>>
      /\ \A p \in Procs : Undisturbed(p)
      /\ ~short => EndOf(Log, written)
      /\ short => short'
  <2>1. ~raced
    BY DEF Next, vars
  <2>2. short => short'
    <3>1. UNCHANGED short \/ short' = TRUE
      BY DEF Next, vars
    <3>. QED  BY <3>1
  <2>. QED  BY <2>1, <2>2 DEF LogInv, AloneWhileReplacing, LogIsRecent, Log
<1>2. /\ Log \in Seq(Line) /\ written \in Seq(Line)
      /\ \A p \in Procs : /\ pc[p] \in Truncating => rfd[p] \in Inodes /\ MaxBytes \in Nat \ {0}
                          /\ pc[p] \in {"writetmp", "append"} => wfd[p] \in Inodes
      /\ NoInode \notin Inodes
  <2>1. Log \in Seq(Line) /\ written \in Seq(Line)
    BY <1>1, EmptySeq DEF Log, TypeOK
  <2>. QED  BY <1>1, <2>1, NoInodeIsNone, BoundsAreNat DEF DescriptorsOpen
\* A step that leaves the files alone.
<1>3. ASSUME NEW p \in Procs, UNCHANGED <<data, path, tmp, written>>,
             \A q \in Procs \ {p} : Same(q), Undisturbed(p)'
      PROVE  Quiet
  <2>1. Log' = Log
    BY <1>3 DEF Log
  <2>2. ASSUME NEW q \in Procs \ {p} PROVE Undisturbed(q)'
    BY <1>1, <1>3, <2>1 DEF Undisturbed, TooBig
  <2>3. ~short' => EndOf(Log', written')
    BY <1>1, <1>3, <2>1
  <2>. QED  BY <1>1, <1>3, <2>1, <2>2, <2>3
\* p closes what it has and is at the open, or at the end.
<1>4. ASSUME NEW p \in Procs, UNCHANGED <<data, path, tmp, written>>,
             \A q \in Procs \ {p} : Same(q), pc'[p] \in {"idle", "stat", "open"}
      PROVE  Quiet
  BY <1>3, <1>4 DEF Undisturbed, Truncating, Replacing
<1>5. ASSUME NEW p \in Procs, SkipTruncate(p)
      PROVE  pc'[p] = "open" /\ \A q \in Procs \ {p} : Same(q)
  <2>1. Goto(p, "open") /\ "open" \in PCs
    BY <1>5 DEF SkipTruncate, PCs
  <2>. QED  BY <1>1, <1>5, <2>1, SkipIsTyped, BusyCount
<1>6. ASSUME NEW p \in Procs, Start(p) PROVE Quiet
  <2>1. pc'[p] \in {"stat", "open"} /\ \A q \in Procs \ {p} : Same(q)
    BY <1>1, <1>6 DEF Start, Goto, TypeOK
  <2>. QED  BY <1>4, <1>6, <2>1 DEF Start, fsVars
<1>7. ASSUME NEW p \in Procs, OpenRead(p) PROVE Quiet
  <2>1. /\ UNCHANGED <<data, path, tmp, written>> /\ rfd'[p] = path
        /\ \A q \in Procs \ {p} : Same(q)
        /\ pc'[p] \in {"open", "flock"}
    BY <1>1, <1>7 DEF OpenRead, Goto, TypeOK, fsVars
  <2>2. Undisturbed(p)'
    BY <2>1 DEF Undisturbed, Truncating, Replacing
  <2>. QED  BY <1>3, <2>1, <2>2
<1>8. ASSUME NEW p \in Procs, TryLock(p) PROVE Quiet
  <2>1. UNCHANGED <<data, path, tmp, written>> /\ pc[p] = "flock"
    BY <1>8 DEF TryLock
  <2>2. CASE CanLock(p)
    <3>1. /\ rfd'[p] = rfd[p] /\ pc'[p] = "read" /\ \A q \in Procs \ {p} : Same(q)
      BY <1>1, <1>8, <2>2 DEF TryLock, Goto, TypeOK
    <3>2. rfd[p] = path
      BY <1>1, <2>1 DEF Undisturbed, Truncating
    <3>3. Undisturbed(p)'
      BY <2>1, <3>1, <3>2 DEF Undisturbed, Truncating, Replacing
    <3>. QED  BY <1>3, <2>1, <3>1, <3>3
  <2>3. CASE ~ CanLock(p)
    <3>1. SkipTruncate(p)
      BY <1>8, <2>3 DEF TryLock
    <3>. QED  BY <1>4, <1>5, <2>1, <3>1
  <2>. QED  BY <2>2, <2>3
\* What is taken for the tail of a log beyond the cap fits.
<1>19. /\ MaxBytes > 0 => Bytes(KeptTail(Log, MaxBytes)) < MaxBytes
       /\ MaxBytes > 0 => KeptTail(Log, MaxBytes) \in Seq(Line)
  <2>. SUFFICES ASSUME MaxBytes > 0
                PROVE  /\ Bytes(KeptTail(Log, MaxBytes)) < MaxBytes
                       /\ KeptTail(Log, MaxBytes) \in Seq(Line)
    OBVIOUS
  <2>1. PICK s \in Seq(Line) : s = Log
    BY <1>2
  <2>2. /\ Bytes(KeptTail(s, MaxBytes)) < MaxBytes
        /\ KeptTail(s, MaxBytes) \in Seq(Line)
    <3>1. MaxBytes \in Nat \ {0}
      BY BoundsAreNat
    <3>2. PICK k \in 0..Len(s) : /\ KeptTail(s, MaxBytes) = SubSeq(s, k + 1, Len(s))
                                /\ Bytes(KeptTail(s, MaxBytes)) < MaxBytes
      BY <3>1, KeptTailProperties
    <3>. QED  BY <3>2, LastLines
  <2>. QED  BY <2>1, <2>2
<1>9. ASSUME NEW p \in Procs, NEW x \in Seq(Line), pc[p] = "read", TooBig(data[rfd[p]]), x # <<>>,
             Bytes(x) < MaxBytes, short' \/ x = KeptTail(data[rfd[p]], MaxBytes),
             tail' = [tail EXCEPT ![p] = x], Goto(p, "opentmp"),
             UNCHANGED <<rfd, wfd, data, path, tmp, written>>
      PROVE  Quiet
  <2>1. rfd[p] = path /\ data[rfd[p]] = Log
    BY <1>1, <1>2, <1>9 DEF Undisturbed, Truncating, Log
  <2>2. /\ tail'[p] = x /\ pc'[p] = "opentmp" /\ rfd'[p] = path
        /\ \A q \in Procs \ {p} : Same(q)
    BY <1>1, <1>9, <2>1 DEF Goto, TypeOK
  <2>3. Log' = Log
    BY <1>9 DEF Log
  <2>4. /\ x # <<>> /\ TooBig(Log') /\ Bytes(x) < MaxBytes
        /\ short' \/ x = KeptTail(Log', MaxBytes)
    BY <1>9, <2>1, <2>3
  <2>5. Undisturbed(p)'
    BY <1>9, <2>2, <2>4 DEF Undisturbed, Truncating, Replacing, TooBig
  <2>. QED  BY <1>3, <1>9, <2>2, <2>5
<1>20. ASSUME NEW p \in Procs, ReadTail(p) PROVE Quiet
  <2>. DEFINE keep == KeptTail(data[rfd[p]], MaxBytes)
  <2>1. UNCHANGED <<data, path, tmp, written>> /\ pc[p] = "read" /\ MaxBytes > 0
    BY <1>2, <1>20 DEF ReadTail, Truncating
  <2>2. rfd[p] = path /\ data[rfd[p]] = Log
    BY <1>1, <1>2, <2>1 DEF Undisturbed, Truncating, Log
  <2>3. CASE TooBig(data[rfd[p]]) /\ keep # <<>>
    <3>1. /\ tail' = [tail EXCEPT ![p] = keep]
          /\ Goto(p, "opentmp")
          /\ UNCHANGED <<lock, rfd, wfd>>
      BY <1>20, <2>3, Zenon DEF ReadTail
    <3>2. PICK x : x = keep
      OBVIOUS
    <3>3. x \in Seq(Line) /\ Bytes(x) < MaxBytes
      BY <1>19, <2>1, <2>2, <3>2
    <3>. QED  BY <1>9, <2>1, <2>3, <3>1, <3>2, <3>3
  <2>4. CASE ~ (TooBig(data[rfd[p]]) /\ keep # <<>>)
    <3>1. SkipTruncate(p)
      BY <1>20, <2>4, Zenon DEF ReadTail
    <3>. QED  BY <1>4, <1>5, <2>1, <3>1
  <2>. QED  BY <2>3, <2>4
<1>21. ASSUME NEW p \in Procs, ReadShort(p), short' = TRUE PROVE Quiet
  <2>1. /\ UNCHANGED <<data, path, tmp, written, rfd, wfd>> /\ pc[p] = "read" /\ MaxBytes > 0
        /\ TooBig(data[rfd[p]]) /\ Goto(p, "opentmp")
    BY <1>2, <1>21 DEF ReadShort, Truncating, fsVars
  <2>2. data[rfd[p]] = Log
    BY <1>1, <1>2, <2>1 DEF Undisturbed, Truncating, Log
  <2>3. PICK keep \in Seq(Line) : keep = KeptTail(Log, MaxBytes) /\ Bytes(keep) < MaxBytes
    BY <1>19, <2>1
  <2>4. PICK n \in 1..Bytes(keep) - 1 : tail' = [tail EXCEPT ![p] = FirstBytes(keep, n)]
    BY <1>21, <2>2, <2>3 DEF ReadShort
  <2>5. PICK x \in Seq(Line) : x = FirstBytes(keep, n) /\ x # <<>> /\ Bytes(x) < MaxBytes
    <3>1. n \in 1..Bytes(keep) /\ n < MaxBytes
      <4>1. Bytes(keep) \in Nat /\ MaxBytes \in Nat
        BY BytesProperties, BoundsAreNat
      <4>. QED  BY <2>3, <4>1
    <3>. QED  BY <3>1, FirstBytesProperties
  <2>. QED  BY <1>9, <1>21, <2>1, <2>4, <2>5
\* A step of the replacement that leaves the log alone.
<1>10. ASSUME NEW p \in Procs, pc[p] \in Replacing, UNCHANGED <<path, written>>,
              path' # tmp', Log' = Log, \A q \in Procs \ {p} : pc'[q] = pc[q], Undisturbed(p)'
       PROVE  Quiet
  <2>1. ASSUME NEW q \in Procs \ {p} PROVE Undisturbed(q)'
    <3>1. pc'[q] \notin Truncating \union {"append"}
      BY <1>1, <1>10, ReplacerIsAlone
    <3>. QED  BY <3>1 DEF Undisturbed, Truncating, Replacing
  <2>. QED  BY <1>1, <1>10, <2>1
<1>11. ASSUME NEW p \in Procs, OpenTmp(p) PROVE Quiet
  <2>1. PICK i : i = IF tmp = NoInode THEN Fresh ELSE tmp
    OBVIOUS
  <2>2. /\ pc[p] = "opentmp"
        /\ data' = [data EXCEPT ![i] = <<>>]
        /\ tmp' = i
        /\ wfd' = [wfd EXCEPT ![p] = i]
        /\ Goto(p, "writetmp")
        /\ UNCHANGED <<path, rfd, tail, written>>
    BY <1>11, <2>1, Zenon DEF OpenTmp
  <2>3. /\ rfd[p] = path /\ path \in Inodes /\ TooBig(Log) /\ tail[p] # <<>>
        /\ Bytes(tail[p]) < MaxBytes /\ (short \/ tail[p] = KeptTail(Log, MaxBytes))
    BY <1>1, <1>2, <2>2 DEF Undisturbed, Truncating, Replacing
  <2>4. i \in Inodes /\ i # path
    <3>1. CASE tmp = NoInode
      BY <1>1, <2>1, <3>1, FreshExists
    <3>2. CASE tmp # NoInode
      BY <1>1, <1>2, <2>1, <2>3, <3>2 DEF TypeOK
    <3>. QED  BY <3>1, <3>2
  <2>5. Log' = Log
    BY <1>1, <2>2, <2>4 DEF Log, TypeOK
  <2>6. /\ pc'[p] = "writetmp" /\ wfd'[p] = i /\ data'[i] = <<>> /\ rfd'[p] = path' /\ tail'[p] = tail[p]
        /\ \A q \in Procs \ {p} : pc'[q] = pc[q]
    BY <1>1, <2>2, <2>3, <2>4 DEF Goto, TypeOK
  <2>7. Undisturbed(p)'
    <3>1. /\ TooBig(Log)' /\ tail'[p] # <<>> /\ Bytes(tail'[p]) < MaxBytes
          /\ short' \/ tail'[p] = KeptTail(Log', MaxBytes)
      BY <1>1, <2>3, <2>5, <2>6 DEF TooBig
    <3>. QED  BY <2>2, <2>6, <3>1 DEF Undisturbed
  <2>8. pc[p] \in Replacing
    BY <2>2 DEF Replacing
  <2>. QED  BY <1>10, <2>2, <2>4, <2>5, <2>6, <2>7, <2>8
<1>12. ASSUME NEW p \in Procs, WriteTmp(p) PROVE Quiet
  <2>1. PICK content : content = Overwritten(data[wfd[p]], tail[p])
    OBVIOUS
  <2>2. /\ pc[p] = "writetmp"
        /\ data' = [data EXCEPT ![wfd[p]] = content]
        /\ CloseWrite(p) /\ Goto(p, "rename")
        /\ UNCHANGED <<path, tmp, rfd, tail, written>>
    BY <1>12, <2>1 DEF WriteTmp, Fills
  <2>3. /\ rfd[p] = path /\ path \in Inodes /\ TooBig(Log) /\ tail[p] # <<>>
        /\ Bytes(tail[p]) < MaxBytes /\ (short \/ tail[p] = KeptTail(Log, MaxBytes))
        /\ wfd[p] = tmp /\ tmp \in Inodes /\ data[tmp] = <<>>
    BY <1>1, <1>2, <2>2 DEF Undisturbed, Truncating, Replacing
  <2>4. tmp # path /\ tmp # NoInode
    BY <1>1, <1>2, <2>3
  <2>5. content = tail[p]
    <3>1. tail[p] \in Seq(Line) /\ data[wfd[p]] = <<>>
      BY <1>1, <2>3 DEF TypeOK
    <3>2. PICK f \in Seq(Line), s \in Seq(Line) : f = <<>> /\ s = tail[p]
      BY <3>1, EmptySeq
    <3>3. Overwritten(f, s) = s
      BY <3>2, OverwrittenProperties
    <3>. QED  BY <2>1, <3>1, <3>2, <3>3
  <2>6. Log' = Log
    BY <1>1, <2>2, <2>3, <2>4 DEF Log, TypeOK
  <2>7. /\ pc'[p] = "rename" /\ data'[tmp] = content /\ rfd'[p] = path' /\ tail'[p] = tail[p]
        /\ \A q \in Procs \ {p} : pc'[q] = pc[q]
    BY <1>1, <2>2, <2>3, <2>4 DEF Goto, TypeOK
  <2>8. Undisturbed(p)'
    <3>1. /\ TooBig(Log)' /\ tail'[p] # <<>> /\ Bytes(tail'[p]) < MaxBytes
          /\ short' \/ tail'[p] = KeptTail(Log', MaxBytes)
      BY <1>1, <2>3, <2>6, <2>7 DEF TooBig
    <3>. QED  BY <2>2, <2>4, <2>5, <2>7, <3>1 DEF Undisturbed
  <2>9. pc[p] \in Replacing
    BY <2>2 DEF Replacing
  <2>. QED  BY <1>10, <2>2, <2>4, <2>6, <2>7, <2>8, <2>9
<1>13. ASSUME NEW p \in Procs, Rename(p) PROVE Quiet
  <2>1. /\ pc[p] = "rename" /\ SkipTruncate(p) /\ tmp' = NoInode
        /\ path' = IF tmp = NoInode THEN path ELSE tmp
        /\ UNCHANGED <<data, written>>
    BY <1>13 DEF Rename
  <2>2. /\ TooBig(Log) /\ tail[p] # <<>> /\ (short \/ tail[p] = KeptTail(Log, MaxBytes))
        /\ tmp # NoInode /\ data[tmp] = tail[p] /\ MaxBytes > 0
    BY <1>1, <1>2, <2>1 DEF Undisturbed, Truncating, Replacing
  <2>3. Log' = tail[p] /\ Log' # <<>>
    BY <2>1, <2>2 DEF Log
  <2>4. ASSUME ~short' PROVE EndOf(Log', written')
    <3>0. Log' = KeptTail(Log, MaxBytes) /\ ~short
      BY <1>1, <2>2, <2>3, <2>4
    <3>1. PICK s \in Seq(Line), t \in Seq(Line) : s = Log /\ t = written
      BY <1>2
    <3>2. EndOf(s, t) /\ TooBig(s) /\ MaxBytes > 0
      BY <1>1, <2>2, <3>0, <3>1 DEF TooBig
    <3>3. EndOf(KeptTail(s, MaxBytes), t)
      BY <3>2, EndOfKeptTail
    <3>. QED  BY <2>1, <3>0, <3>1, <3>3
  <2>5. ASSUME NEW q \in Procs PROVE Undisturbed(q)'
    <3>1. pc'[q] \notin Truncating \union {"append"}
      <4>1. CASE q = p
        BY <1>5, <2>1, <4>1 DEF Truncating
      <4>2. CASE q # p
        <5>1. pc[p] \in Replacing /\ pc'[q] = pc[q]
          BY <1>5, <2>1, <4>2 DEF Replacing
        <5>. QED  BY <1>1, <4>2, <5>1, ReplacerIsAlone
      <4>. QED  BY <4>1, <4>2
    <3>. QED  BY <3>1 DEF Undisturbed, Truncating, Replacing
  <2>. QED  BY <2>1, <2>2, <2>3, <2>4, <2>5
<1>14. ASSUME NEW p \in Procs, OpenAppend(p) PROVE Quiet
  <2>1. PICK i : i = IF path = NoInode THEN Fresh ELSE path
    OBVIOUS
  <2>2. /\ pc[p] = "open" /\ path' = i
        /\ data' = IF path = NoInode THEN [data EXCEPT ![i] = <<>>] ELSE data
        /\ wfd' = [wfd EXCEPT ![p] = i]
        /\ Goto(p, "append")
        /\ UNCHANGED <<tmp, rfd, tail, written>>
    BY <1>14, <2>1, Zenon DEF OpenAppend
  <2>3. /\ pc'[p] = "append" /\ wfd'[p] = i /\ \A q \in Procs \ {p} : Same(q)
    BY <1>1, <2>2 DEF Goto, TypeOK
  <2>4. Undisturbed(p)'
    BY <2>2, <2>3 DEF Undisturbed, Truncating, Replacing
  <2>5. CASE path # NoInode
    <3>1. UNCHANGED <<data, path, tmp, written>>
      BY <2>1, <2>2, <2>5
    <3>. QED  BY <1>3, <2>3, <2>4, <3>1
  <2>6. CASE path = NoInode
    <3>1. i \in Inodes /\ i # tmp /\ i # NoInode
      BY <1>1, <2>1, <2>6, FreshExists
    <3>2. Log' = <<>> /\ Log = <<>>
      BY <1>1, <2>2, <2>6, <3>1 DEF Log, TypeOK
    <3>3. ASSUME NEW q \in Procs \ {p} PROVE Undisturbed(q)'
      <4>1. pc'[q] \notin Truncating \union {"append"}
        BY <1>1, <1>2, <2>3, <2>6 DEF Undisturbed
      <4>. QED  BY <4>1 DEF Undisturbed, Truncating, Replacing
    <3>4. ~short' => EndOf(Log', written')
      BY <1>1, <2>2, <3>2
    <3>. QED  BY <1>1, <2>2, <2>4, <2>6, <3>1, <3>3, <3>4
  <2>. QED  BY <2>5, <2>6
\* A line, or a part of one, lands in the log, and the call ends.
<1>15. ASSUME NEW p \in Procs, NEW len \in Nat \ {0}, NEW nl \in BOOLEAN,
              pc[p] = "append", Lands(p, len, nl), pc'[p] = "idle",
              UNCHANGED <<path, tmp>>, \A q \in Procs \ {p} : Same(q)
       PROVE  Quiet
  <2>1. PICK l \in Line : /\ data' = [data EXCEPT ![wfd[p]] = Glue(data[wfd[p]], l)]
                          /\ written' = Glue(written, l)
    BY <1>1, <1>15, LandsIsTyped
  <2>2. wfd[p] = path /\ path \in Inodes /\ data[path] = Log
    BY <1>1, <1>2, <1>15 DEF Undisturbed, Log
  <2>3. PICK g : g = Glue(Log, l)
    OBVIOUS
  <2>4. Log' = g
    BY <1>1, <1>2, <1>15, <2>1, <2>2, <2>3 DEF Log, TypeOK
  <2>5. Log' # <<>> /\ (~short' => EndOf(Log', written'))
    <3>1. PICK s \in Seq(Line), t \in Seq(Line) : s = Log /\ t = written
      BY <1>2
    <3>2. Glue(s, l) # <<>>
      BY GlueProperties
    <3>3. ASSUME ~short' PROVE EndOf(Glue(s, l), Glue(t, l))
      <4>1. EndOf(s, t) /\ (s = <<>> => t = <<>>)
        BY <1>1, <3>1, <3>3
      <4>. QED  BY <4>1, EndOfGlue
    <3>. QED  BY <2>1, <2>3, <2>4, <3>1, <3>2, <3>3
  <2>6. ASSUME NEW q \in Procs PROVE Undisturbed(q)'
    <3>1. CASE q = p
      BY <1>15, <3>1 DEF Undisturbed, Truncating, Replacing
    <3>2. CASE q # p
      <4>1. pc'[q] \notin Replacing
        BY <1>1, <1>15, <3>2 DEF Racing, Replacing
      <4>. QED  BY <1>1, <1>15, <3>2, <4>1 DEF Undisturbed, Replacing
    <3>. QED  BY <3>1, <3>2
  <2>. QED  BY <1>1, <1>2, <1>15, <2>2, <2>5, <2>6
<1>22. ASSUME NEW p \in Procs, AppendLine(p) PROVE Quiet
  <2>1. PICK n \in Lens : Lands(p, n, TRUE)
    BY <1>22, Zenon DEF AppendLine
  <2>2. /\ pc[p] = "append" /\ CloseWrite(p) /\ Goto(p, "idle")
        /\ UNCHANGED <<path, tmp, rfd, tail>>
    BY <1>22 DEF AppendLine
  <2>3. pc'[p] = "idle" /\ \A q \in Procs \ {p} : Same(q)
    BY <1>1, <2>2 DEF Goto, CloseWrite, TypeOK
  <2>. QED  BY <1>15, <2>1, <2>2, <2>3, BoundsAreNat
\* A call that fails or is killed, with what its write has left.
<1>23. ASSUME NEW p \in Procs, Part(p), UNCHANGED <<path, tmp>>,
              \A q \in Procs \ {p} : Same(q),
              pc'[p] = "idle" \/ (pc'[p] = "open" /\ pc[p] # "append")
       PROVE  Quiet
  <2>1. CASE UNCHANGED <<data, written>>
    BY <1>4, <1>23, <2>1
  <2>2. CASE /\ pc[p] = "writetmp"
             /\ \E n \in 1..Bytes(tail[p]) : Fills(p, FirstBytes(tail[p], n))
             /\ UNCHANGED written
    <3>1. PICK content : data' = [data EXCEPT ![wfd[p]] = content]
      BY <2>2 DEF Fills
    <3>2. /\ wfd[p] = tmp /\ tmp \in Inodes /\ rfd[p] = path /\ path \in Inodes
      BY <1>1, <1>2, <2>2 DEF Undisturbed, Truncating
    <3>3. tmp # path /\ tmp # NoInode
      BY <1>1, <1>2, <3>2
    <3>4. Log' = Log
      BY <1>1, <1>23, <3>1, <3>2, <3>3 DEF Log, TypeOK
    <3>5. Undisturbed(p)'
      BY <1>23 DEF Undisturbed, Truncating, Replacing
    <3>6. pc[p] \in Replacing
      BY <2>2 DEF Replacing
    <3>. QED  BY <1>10, <1>23, <2>2, <3>3, <3>4, <3>5, <3>6
  <2>3. CASE /\ pc[p] = "append"
             /\ \E n \in Lens : \E m \in 1..n - 1 : Lands(p, m, FALSE)
    <3>1. PICK n \in Lens : \E m \in 1..n - 1 : Lands(p, m, FALSE)
      BY <2>3
    <3>2. PICK m \in 1..n - 1 : Lands(p, m, FALSE)
      BY <3>1
    <3>3. m \in Nat \ {0} /\ FALSE \in BOOLEAN
      BY BoundsAreNat
    <3>. QED  BY <1>15, <1>23, <2>3, <3>2, <3>3
  <2>. QED  BY <1>23, <2>1, <2>2, <2>3 DEF Part
<1>16. ASSUME NEW p \in Procs, IOError(p) PROVE Quiet
  <2>1. UNCHANGED <<path, tmp>> /\ Part(p)
    BY <1>16 DEF IOError
  <2>2. CASE pc[p] # "append" /\ SkipTruncate(p)
    BY <1>5, <1>23, <2>1, <2>2
  <2>3. CASE CloseWrite(p) /\ Goto(p, "idle") /\ UNCHANGED <<lock, rfd, tail>>
    <3>1. pc'[p] = "idle" /\ \A q \in Procs \ {p} : Same(q)
      BY <1>1, <2>3 DEF Goto, CloseWrite, TypeOK
    <3>. QED  BY <1>23, <2>1, <3>1
  <2>. QED  BY <1>16, <2>2, <2>3 DEF IOError
<1>17. ASSUME NEW p \in Procs, Killed(p) PROVE Quiet
  <2>1. /\ UNCHANGED <<path, tmp>> /\ Part(p)
        /\ pc'[p] = "idle" /\ \A q \in Procs \ {p} : Same(q)
    BY <1>1, <1>17 DEF Killed, Goto, CloseRead, CloseWrite, TypeOK
  <2>. QED  BY <1>23, <2>1
<1>18. CASE UNCHANGED vars
  <2>1. Log' = Log /\ UNCHANGED <<data, path, tmp, pc, rfd, wfd, tail, written, short>>
    BY <1>18 DEF vars, fsVars, Log
  <2>. QED  BY <1>1, <2>1 DEF Undisturbed, TooBig
<1>. QED  BY <1>6, <1>7, <1>8, <1>11, <1>12, <1>13, <1>14, <1>16, <1>17, <1>18, <1>20, <1>21,
             <1>22
          DEF Next, Step

\* The inductive invariant, for any processes, cap and lines.
THEOREM LogInvCorrect == Spec => []LogInv
<1>1. LogInv /\ [Next]_vars => LogInv'
  <2>. SUFFICES ASSUME LogInv, [Next]_vars PROVE LogInv'
    OBVIOUS
  <2>1. TypeOK' /\ DescriptorsOpen'
    BY LogTypeStep DEF LogInv
  <2>2. ASSUME ~raced' PROVE ~Racing'
    BY <2>2 DEF Next, vars, fsVars, LogInv, AloneWhileReplacing, Racing
  <2>3. AloneWhileReplacing' /\ LogIsRecent'
    BY <2>1, <2>2, LogInvStep DEF AloneWhileReplacing, LogIsRecent
  <2>. QED  BY <2>1, <2>3 DEF LogInv
<1>. QED  BY LogInvInit, <1>1, PTL DEF Spec

\* Every variable keeps its type: a process never uses a descriptor it has not
\* opened, and finds an inode whenever it creates a file.
THEOREM LogTypeCorrect == Spec => []TypeOK
<1>1. LogInv => TypeOK
  BY DEF LogInv
<1>. QED  BY LogInvCorrect, <1>1, PTL

\* As long as no replacement has overlapped another Append or rested on a read
\* that failed half way, the log is the end of the bytes appended and misses
\* only what the cap pushes out, whoever was killed, whichever other call
\* failed and however little of a write has landed.
THEOREM LogStaysRecent == Spec => []LogIsRecent
<1>1. LogInv => LogIsRecent
  BY DEF LogInv
<1>. QED  BY LogInvCorrect, <1>1, PTL

\* A replacement that overlaps nothing leaves something and less than the cap,
\* even if the read of the tail failed half way.
THEOREM TruncationsFit == Spec => TruncationFits
<1>. DEFINE Fits == \A p \in Procs : Rename(p) /\ tmp # NoInode /\ ~raced =>
                      Log' # <<>> /\ Bytes(Log') < MaxBytes
<1>1. LogInv => Fits
  <2>. SUFFICES ASSUME LogInv, NEW p \in Procs, Rename(p), tmp # NoInode, ~raced
                PROVE  Log' # <<>> /\ Bytes(Log') < MaxBytes
    OBVIOUS
  <2>1. pc[p] = "rename" /\ path' = tmp /\ data' = data
    BY DEF Rename
  <2>2. tail[p] # <<>> /\ Bytes(tail[p]) < MaxBytes /\ data[tmp] = tail[p]
    <3>1. Undisturbed(p)
      BY DEF LogInv, AloneWhileReplacing
    <3>. QED  BY <2>1, <3>1 DEF Undisturbed, Replacing
  <2>3. Log' = tail[p]
    BY <2>1, <2>2 DEF Log
  <2>. QED  BY <2>2, <2>3
<1>. QED  BY LogInvCorrect, <1>1, PTL DEF TruncationFits
=============================================================================
