------------------------ MODULE ConfigurationProofs ------------------------
(***************************************************************************)
(* For every schema, command line, environment and set of files: main and  *)
(* loader.Resolve agree, a field ends with what the highest layer says of  *)
(* it, and the nearest block judges, with the settings it means.           *)
(***************************************************************************)
EXTENDS Configuration, TLAPS, SequenceTheorems, FiniteSetTheorems, NaturalsInduction

-----------------------------------------------------------------------------
(***************************************************************************)
(* Recursion over positions.                                               *)
(***************************************************************************)

\* A set of numbers that has one has a least one.
LEMMA LeastNat ==
    ASSUME NEW S \in SUBSET Nat, NEW m \in S
    PROVE  \E n \in S : \A k \in Nat : k < n => k \notin S
<1>1. PICK n \in S : \A k \in S : ~ (<<k, n>> \in OpToRel(<, Nat))
  BY NatLessThanWellFounded, WFMin
<1>2. \A k \in S : ~ (k < n)
  BY <1>1 DEF OpToRel
<1>. QED  BY <1>2

LEMMA NatSetInduction ==
    ASSUME NEW S \in SUBSET Nat, 0 \in S, \A n \in S : n + 1 \in S
    PROVE  S = Nat
<1>. SUFFICES ASSUME NEW m \in Nat \ S PROVE FALSE
  OBVIOUS
<1>. DEFINE T == Nat \ S
<1>1. PICK n \in T : \A k \in Nat : k < n => k \notin T
  BY LeastNat
<1>2. n # 0 /\ n - 1 \in Nat /\ n - 1 < n
  BY <1>1
<1>3. n - 1 \in S
  BY <1>1, <1>2
<1>4. (n - 1) + 1 \in S /\ (n - 1) + 1 = n
  BY <1>3
<1>. QED  BY <1>1, <1>4

\* f starts with a and goes on to N by the step function h.
Iterates(f, a, h, N) == f[0] = a /\ \A n \in 1..N : f[n] = h[<<n, f[n - 1]>>]

\* A recursion over the positions up to N that stays in a set has a solution.
LEMMA PositionRecursion ==
    ASSUME NEW N \in Nat, NEW S, NEW a \in S, NEW h \in [(1..N) \X S -> S]
    PROVE  \E f \in [0..N -> S] : Iterates(f, a, h, N)
<1>. DEFINE Solves(f, m) == f[0] = a /\ \A n \in 1..m : f[n] = h[<<n, f[n - 1]>>]
            M == {m \in Nat : m <= N => \E f \in [0..m -> S] : Solves(f, m)}
<1>1. 0 \in M
  <2>. DEFINE f == [n \in 0..0 |-> a]
  <2>1. f \in [0..0 -> S] /\ Solves(f, 0)
    OBVIOUS
  <2>. QED  BY <2>1, Zenon
<1>2. ASSUME NEW m \in M PROVE m + 1 \in M
  <2>. SUFFICES ASSUME m + 1 <= N PROVE \E f \in [0..(m + 1) -> S] : Solves(f, m + 1)
    OBVIOUS
  <2>1. PICK f \in [0..m -> S] : Solves(f, m)
    OBVIOUS
  <2>2. f[m] \in S /\ m + 1 \in 1..N
    OBVIOUS
  <2>3. h[<<m + 1, f[m]>>] \in S
    BY <2>2
  <2>. DEFINE g == [n \in 0..(m + 1) |-> IF n = m + 1 THEN h[<<m + 1, f[m]>>] ELSE f[n]]
  <2>4. g \in [0..(m + 1) -> S]
    BY <2>3
  <2>5. g[0] = a
    BY <2>1
  <2>6. ASSUME NEW n \in 1..(m + 1) PROVE g[n] = h[<<n, g[n - 1]>>]
    <3>1. n - 1 \in 0..m /\ n - 1 \in 0..(m + 1) /\ n - 1 # m + 1
      OBVIOUS
    <3>2. g[n - 1] = f[n - 1]
      BY <3>1
    <3>3. CASE n = m + 1
      <4>1. n - 1 = m
        BY <3>3
      <4>2. g[n] = h[<<m + 1, f[m]>>]
        BY <3>3
      <4>3. g[n - 1] = f[m]
        BY <3>2, <4>1
      <4>. QED  BY <3>3, <4>2, <4>3, Zenon
    <3>4. CASE n # m + 1
      <4>1. n \in 1..m
        BY <3>4
      <4>2. g[n] = f[n] /\ f[n] = h[<<n, f[n - 1]>>]
        BY <2>1, <3>4, <4>1
      <4>. QED  BY <3>2, <4>2
    <3>. QED  BY <3>3, <3>4
  <2>. HIDE DEF g
  <2>. QED  BY <2>4, <2>5, <2>6
<1>3. M = Nat
  <2>. HIDE DEF M
  <2>. QED  BY <1>1, <1>2, NatSetInduction DEF M
<1>. QED  BY <1>3 DEF Iterates


-----------------------------------------------------------------------------
(***************************************************************************)
(* Maps that are written one entry after the other.                        *)
(***************************************************************************)

Maps(K, V) == UNION {[D -> V] : D \in SUBSET K}

LEMMA MapIn ==
    ASSUME NEW K, NEW V, NEW D \in SUBSET K, NEW f \in [D -> V]
    PROVE  f \in Maps(K, V)
<1>1. [D -> V] \in {[E -> V] : E \in SUBSET K}
  OBVIOUS
<1>. QED  BY <1>1 DEF Maps

LEMMA MergedMap ==
    ASSUME NEW K, NEW V, NEW m \in Maps(K, V), NEW other \in Maps(K, V)
    PROVE  Merge(m, other) \in Maps(K, V)
<1>1. PICK D \in SUBSET K : m \in [D -> V]
  BY DEF Maps
<1>2. PICK E \in SUBSET K : other \in [E -> V]
  BY DEF Maps
<1>3. Merge(m, other) \in [D \cup E -> V]
  BY <1>1, <1>2 DEF Merge
<1>4. D \cup E \in SUBSET K
  OBVIOUS
<1>. QED  BY <1>3, <1>4, MapIn

\* The map so far, position by position.
WrittenBy(f, writes) ==
    /\ f[0] = NoFields
    /\ \A n \in 1..Len(writes) : f[n] = Merge(f[n - 1], writes[n])
    /\ Written(writes) = f[Len(writes)]

LEMMA WrittenDef ==
    ASSUME NEW K, NEW V, NEW writes \in Seq(Maps(K, V))
    PROVE  \E f : WrittenBy(f, writes)
<1>. DEFINE N == Len(writes)
            S == Maps(K, V)
            IsWritten(f) == f = [n \in 0..N |-> IF n = 0 THEN NoFields ELSE Merge(f[n - 1], writes[n])]
            h == [p \in (1..N) \X S |-> Merge(p[2], writes[p[1]])]
<1>0. N \in Nat /\ \A n \in 1..N : writes[n] \in S
  BY LenProperties, ElementOfSeq
<1>1. NoFields \in S
  <2>1. NoFields \in [{} -> V] /\ {} \in SUBSET K
    BY DEF NoFields
  <2>. QED  BY <2>1, MapIn
<1>. HIDE DEF N
<1>2. h \in [(1..N) \X S -> S]
  <2>1. ASSUME NEW p \in (1..N) \X S PROVE Merge(p[2], writes[p[1]]) \in S
    <3>1. p[1] \in 1..N /\ p[2] \in S
      OBVIOUS
    <3>. QED  BY <1>0, <3>1, MergedMap
  <2>. HIDE DEF S
  <2>. QED  BY <2>1
<1>3. \A n \in 1..N, x \in S : h[<<n, x>>] = Merge(x, writes[n])
  <2>. HIDE DEF S
  <2>. QED  OBVIOUS
<1>. HIDE DEF h, S
<1>4. \E r \in [0..N -> S] : Iterates(r, NoFields, h, N)
  BY <1>0, <1>1, <1>2, PositionRecursion, Zenon
<1>5. ASSUME NEW r \in [0..N -> S], Iterates(r, NoFields, h, N) PROVE IsWritten(r)
  <2>1. ASSUME NEW n \in 0..N
        PROVE  r[n] = IF n = 0 THEN NoFields ELSE Merge(r[n - 1], writes[n])
    <3>1. CASE n = 0
      BY <1>5, <3>1 DEF Iterates
    <3>2. CASE n # 0
      <4>1. n \in 1..N /\ n - 1 \in 0..N
        BY <1>0, <3>2
      <4>2. r[n - 1] \in S /\ r[n] = h[<<n, r[n - 1]>>]
        BY <1>5, <4>1 DEF Iterates
      <4>. QED  BY <1>3, <3>2, <4>1, <4>2
    <3>. QED  BY <3>1, <3>2
  <2>2. r = [n \in 0..N |-> r[n]]
    OBVIOUS
  <2>. QED  BY <2>1, <2>2, Zenon
<1>6. PICK f : IsWritten(f) /\ Written(writes) = f[N]
  <2>. DEFINE map == CHOOSE f : IsWritten(f)
  <2>1. IsWritten(map)
    BY <1>4, <1>5, Zenon
  <2>2. Written(writes) = map[N]
    BY Zenon DEF Written, N
  <2>. QED  BY <2>1, <2>2
<1>7. f[0] = NoFields /\ \A n \in 1..N : f[n] = Merge(f[n - 1], writes[n])
  BY <1>0, <1>6
<1>. QED  BY <1>6, <1>7 DEF WrittenBy, N

\* What the first n of the writes leave behind.
WrittenUpTo(map, writes, n) ==
    /\ \A k : k \in DOMAIN map <=> \E i \in 1..n : k \in DOMAIN writes[i]
    /\ \A k : \A i \in 1..n :
            k \in DOMAIN writes[i] /\ (\A j \in 1..n : i < j => k \notin DOMAIN writes[j]) =>
                map[k] = writes[i][k]

LEMMA LastWriteCounts ==
    ASSUME NEW K, NEW V, NEW writes \in Seq(Maps(K, V))
    PROVE  WrittenUpTo(Written(writes), writes, Len(writes))
<1>1. PICK f : WrittenBy(f, writes)
  BY WrittenDef, Zenon
<1>2. Len(writes) \in Nat
  BY LenProperties
<1>. DEFINE N == Len(writes)
            M == {n \in Nat : n <= N => WrittenUpTo(f[n], writes, n)}
<1>3. 0 \in M
  BY <1>1 DEF WrittenBy, WrittenUpTo, NoFields
<1>4. ASSUME NEW n \in M PROVE n + 1 \in M
  <2>. SUFFICES ASSUME n + 1 <= N PROVE WrittenUpTo(f[n + 1], writes, n + 1)
    OBVIOUS
  <2>1. n + 1 \in 1..N /\ (n + 1) - 1 = n /\ n \in Nat /\ WrittenUpTo(f[n], writes, n)
    BY <1>2
  <2>2. f[n + 1] = Merge(f[n], writes[n + 1])
    BY <1>1, <2>1 DEF WrittenBy
  <2>3. 1..(n + 1) = 1..n \cup {n + 1}
    BY <2>1
  <2>4. /\ DOMAIN f[n + 1] = DOMAIN f[n] \cup DOMAIN writes[n + 1]
        /\ \A k \in DOMAIN writes[n + 1] : f[n + 1][k] = writes[n + 1][k]
        /\ \A k \in DOMAIN f[n] : k \notin DOMAIN writes[n + 1] => f[n + 1][k] = f[n][k]
    BY <2>2 DEF Merge
  <2>5. ASSUME NEW k
        PROVE  k \in DOMAIN f[n + 1] <=> \E i \in 1..(n + 1) : k \in DOMAIN writes[i]
    BY <2>1, <2>3, <2>4 DEF WrittenUpTo
  <2>6. ASSUME NEW k, NEW i \in 1..(n + 1), k \in DOMAIN writes[i],
               \A j \in 1..(n + 1) : i < j => k \notin DOMAIN writes[j]
        PROVE  f[n + 1][k] = writes[i][k]
    <3>1. CASE i = n + 1
      BY <2>4, <2>6, <3>1
    <3>2. CASE i # n + 1
      <4>1. i \in 1..n /\ i < n + 1 /\ n + 1 \in 1..(n + 1)
        BY <2>1, <3>2
      <4>2. k \notin DOMAIN writes[n + 1] /\ \A j \in 1..n : i < j => k \notin DOMAIN writes[j]
        BY <2>3, <2>6, <4>1
      <4>3. k \in DOMAIN f[n] /\ f[n][k] = writes[i][k]
        BY <2>1, <2>6, <4>1, <4>2 DEF WrittenUpTo
      <4>. QED  BY <2>4, <4>2, <4>3
    <3>. QED  BY <3>1, <3>2
  <2>. QED  BY <2>5, <2>6 DEF WrittenUpTo
<1>5. M = Nat
  <2>. HIDE DEF M
  <2>. QED  BY <1>3, <1>4, NatSetInduction DEF M
<1>. QED  BY <1>1, <1>2, <1>5 DEF WrittenBy

\* A set of numbers with a bound that has one has a greatest one.
LEMMA GreatestNat ==
    ASSUME NEW N \in Nat, NEW numbers \in SUBSET (0..N), NEW m \in numbers
    PROVE  \E n \in numbers : \A j \in numbers : j <= n
<1>. DEFINE S == {k \in Nat : N - k \in numbers}
<1>1. N - m \in S /\ S \in SUBSET Nat
  OBVIOUS
<1>2. PICK k \in S : \A j \in Nat : j < k => j \notin S
  BY <1>1, LeastNat
<1>3. N - k \in numbers
  BY <1>2
<1>4. ASSUME NEW j \in numbers PROVE j <= N - k
  <2>1. N - j \in Nat /\ N - (N - j) = j
    OBVIOUS
  <2>2. N - j \in S
    BY <2>1
  <2>3. ~(N - j < k)
    BY <1>2, <2>1, <2>2
  <2>. QED  BY <1>2, <2>3
<1>. QED  BY <1>3, <1>4

\* The last of some positions.
LEMMA LastInIs ==
    ASSUME NEW N \in Nat, NEW positions \in SUBSET (1..N), positions # {}
    PROVE  LastIn(positions) \in positions /\ \A j \in positions : j <= LastIn(positions)
<1>1. positions \in SUBSET (0..N)
  OBVIOUS
<1>2. \E i \in positions : \A j \in positions : j <= i
  BY <1>1, GreatestNat
<1>. QED  BY <1>2 DEF LastIn

\* The entries that give a variable a value.
Giving(environ, key) == {i \in DOMAIN environ : environ[i].key = key /\ environ[i].value # <<>>}

\* A variable has the value its last entry with one gives it.
LEMMA EnvSays ==
    ASSUME NEW environ, IsList(environ), NEW key
    PROVE  /\ key \in DOMAIN EnvSlice(environ) <=> Giving(environ, key) # {}
           /\ Giving(environ, key) # {} =>
                    EnvSlice(environ)[key] = environ[LastIn(Giving(environ, key))].value[1]
<1>. DEFINE N == Len(environ)
            naming == {i \in DOMAIN environ : environ[i].key = key /\ environ[i].value # <<>>}
            K == {environ[i].key : i \in DOMAIN environ}
            V == {environ[i].value[1] : i \in DOMAIN environ}
            writes == [i \in DOMAIN environ |-> IF environ[i].value = <<>> THEN NoFields
                                      ELSE [k \in {environ[i].key} |-> environ[i].value[1]]]
<1>1. N \in Nat /\ DOMAIN environ = 1..N
  BY LenProperties DEF IsList
<1>2. writes \in Seq(Maps(K, V)) /\ Len(writes) = N
  <2>1. ASSUME NEW i \in 1..N PROVE writes[i] \in Maps(K, V)
    <3>1. CASE environ[i].value = <<>>
      <4>1. writes[i] \in [{} -> V] /\ {} \in SUBSET K
        BY <1>1, <3>1 DEF NoFields
      <4>. QED  BY <4>1, MapIn
    <3>2. CASE environ[i].value # <<>>
      <4>1. writes[i] \in [{environ[i].key} -> V] /\ {environ[i].key} \in SUBSET K
        BY <1>1, <3>2
      <4>. QED  BY <4>1, MapIn
    <3>. QED  BY <3>1, <3>2
  <2>2. writes \in [1..N -> Maps(K, V)]
    <3>. HIDE DEF K, V
    <3>. QED  BY <1>1, <2>1
  <2>. HIDE DEF writes
  <2>. QED  BY <1>1, <2>2
<1>3. WrittenUpTo(EnvSlice(environ), writes, N)
  <2>1. EnvSlice(environ) = Written(writes)
    BY DEF EnvSlice
  <2>. QED  BY <1>2, <2>1, LastWriteCounts
<1>4. \A i \in 1..N : key \in DOMAIN writes[i] <=> i \in naming
  BY <1>1 DEF NoFields
<1>5. \A i \in naming : writes[i][key] = environ[i].value[1]
  BY <1>1
<1>6. key \in DOMAIN EnvSlice(environ) <=> naming # {}
  <2>1. naming \subseteq 1..N
    BY <1>1
  <2>. HIDE DEF naming, writes
  <2>. QED  BY <1>3, <1>4, <2>1 DEF WrittenUpTo
<1>7. ASSUME naming # {} PROVE EnvSlice(environ)[key] = environ[LastIn(naming)].value[1]
  <2>1. naming \in SUBSET (1..N)
    BY <1>1
  <2>. HIDE DEF naming, writes
  <2>2. LastIn(naming) \in naming /\ \A j \in naming : j <= LastIn(naming)
    BY <1>1, <1>7, <2>1, LastInIs
  <2>3. ASSUME NEW j \in 1..N, LastIn(naming) < j PROVE key \notin DOMAIN writes[j]
    <3>1. LastIn(naming) \in Nat
      <4>1. LastIn(naming) \in 1..N
        BY <2>1, <2>2, Zenon
      <4>. QED  BY <1>1, <4>1
    <3>2. j \in Nat
      BY <1>1
    <3>3. j \notin naming
      BY <2>2, <2>3, <3>1, <3>2
    <3>. QED  BY <1>4, <3>3
  <2>4. EnvSlice(environ)[key] = writes[LastIn(naming)][key]
    BY <1>3, <1>4, <2>1, <2>2, <2>3 DEF WrittenUpTo
  <2>. QED  BY <1>5, <2>2, <2>4
<1>. QED  BY <1>6, <1>7, Zenon DEF Giving

\* A flag has the text its last argument gives it.
LEMMA FlagSays ==
    ASSUME NEW bs, NEW args, IsList(args), NEW name
    PROVE  LET naming == {i \in DOMAIN args : args[i].name = name}
           IN  /\ name \in DOMAIN GivenFlags(bs, args) <=> naming # {}
               /\ naming # {} => GivenFlags(bs, args)[name] =
                    TextOf(CHOOSE f \in Registered(bs, name) : TRUE, args[LastIn(naming)])[1]
<1>. DEFINE N == Len(args)
            naming == {i \in DOMAIN args : args[i].name = name}
            Text(n, i) == TextOf(CHOOSE f \in Registered(bs, n) : TRUE, args[i])[1]
            K == {args[i].name : i \in DOMAIN args}
            V == {Text(args[i].name, i) : i \in DOMAIN args}
            writes == [i \in DOMAIN args |-> [n \in {args[i].name} |-> Text(n, i)]]
<1>1. N \in Nat /\ DOMAIN args = 1..N
  BY LenProperties DEF IsList
<1>2. GivenFlags(bs, args) = Written(writes)
  BY DEF GivenFlags
<1>. HIDE DEF Text
<1>3. writes \in Seq(Maps(K, V)) /\ Len(writes) = N
  <2>1. ASSUME NEW i \in 1..N PROVE writes[i] \in Maps(K, V)
    <3>1. writes[i] \in [{args[i].name} -> V] /\ {args[i].name} \in SUBSET K
      BY <1>1
    <3>. QED  BY <3>1, MapIn
  <2>2. writes \in [1..N -> Maps(K, V)]
    <3>. HIDE DEF K, V
    <3>. QED  BY <1>1, <2>1
  <2>. HIDE DEF writes
  <2>. QED  BY <1>1, <2>2
<1>4. WrittenUpTo(GivenFlags(bs, args), writes, N)
  BY <1>2, <1>3, LastWriteCounts
<1>5. \A i \in 1..N : name \in DOMAIN writes[i] <=> i \in naming
  BY <1>1
<1>6. \A i \in naming : writes[i][name] = Text(name, i)
  BY <1>1
<1>7. name \in DOMAIN GivenFlags(bs, args) <=> naming # {}
  <2>1. naming \subseteq 1..N
    BY <1>1
  <2>. HIDE DEF naming, writes
  <2>. QED  BY <1>4, <1>5, <2>1 DEF WrittenUpTo
<1>8. ASSUME naming # {} PROVE GivenFlags(bs, args)[name] = Text(name, LastIn(naming))
  <2>1. naming \in SUBSET (1..N)
    BY <1>1
  <2>. HIDE DEF naming, writes
  <2>2. LastIn(naming) \in naming /\ \A j \in naming : j <= LastIn(naming)
    BY <1>1, <1>8, <2>1, LastInIs
  <2>3. ASSUME NEW j \in 1..N, LastIn(naming) < j PROVE name \notin DOMAIN writes[j]
    <3>1. LastIn(naming) \in Nat
      <4>1. LastIn(naming) \in 1..N
        BY <2>1, <2>2, Zenon
      <4>. QED  BY <1>1, <4>1
    <3>2. j \in Nat
      BY <1>1
    <3>3. j \notin naming
      BY <2>2, <2>3, <3>1, <3>2
    <3>. QED  BY <1>5, <3>3
  <2>4. GivenFlags(bs, args)[name] = writes[LastIn(naming)][name]
    BY <1>4, <1>5, <2>1, <2>2, <2>3 DEF WrittenUpTo
  <2>. QED  BY <1>6, <2>2, <2>4
<1>. QED  BY <1>7, <1>8 DEF Text


-----------------------------------------------------------------------------
(***************************************************************************)
(* The chains of a schema, and the paths they go by.                       *)
(***************************************************************************)

\* A text has one value or none.
LEMMA ParseScalarOne ==
    ASSUME NEW field, NEW raw, parseScalar(field, raw) # <<>>
    PROVE  parseScalar(field, raw) = <<parseScalar(field, raw)[1]>>
<1>1. \E x : parseScalar(field, raw) = <<x>>
  <2>1. CASE field.kind = "string"
    BY <2>1 DEF parseScalar
  <2>2. CASE field.kind = "bool"
    BY <2>2 DEF parseScalar, Integral, Signed
  <2>3. CASE field.kind = "enum"
    BY <2>3 DEF parseScalar, Integral, Signed
  <2>4. CASE field.kind \in Integral
    BY <2>4 DEF parseScalar, Integral, Signed
  <2>5. CASE field.kind \notin Integral \cup {"string", "bool", "enum"}
    BY <2>5 DEF parseScalar
  <2>. QED  BY <2>1, <2>2, <2>3, <2>4, <2>5
<1>. QED  BY <1>1

LEMMA DefaultOne ==
    ASSUME NEW field, parseDefault(field) # <<>>
    PROVE  parseDefault(field) = <<parseDefault(field)[1]>>
<1>1. CASE field.opts[1].default = <<>>
  BY <1>1 DEF parseDefault
<1>2. CASE field.opts[1].default # <<>> /\ field.opts[1].default[1] = ""
  BY <1>2 DEF parseDefault
<1>3. CASE field.opts[1].default # <<>> /\ field.opts[1].default[1] # ""
  <2>1. parseDefault(field) = parseScalar(field, field.opts[1].default[1])
    BY <1>3 DEF parseDefault
  <2>. QED  BY <2>1, ParseScalarOne
<1>. QED  BY <1>1, <1>2, <1>3

\* A chain that starts in a message and goes from a submessage to one of its fields.
Leads(schema, md, c) ==
    /\ c # <<>> /\ c[1] \in schema[md]
    /\ \A i \in 1 .. Len(c) - 1 : /\ c[i].opts = <<>> /\ c[i].of \in DOMAIN schema
                                  /\ c[i + 1] \in schema[c[i].of]

AllFields(schema) == UNION {schema[md] : md \in DOMAIN schema}

Leading(schema, md) == {c \in Seq(AllFields(schema)) : Leads(schema, md, c)}

Starts(schema, md) == {<<field>> : field \in schema[md]}

LEMMA StartsLead ==
    ASSUME NEW schema, NEW md \in DOMAIN schema
    PROVE  Starts(schema, md) \subseteq Leading(schema, md)
<1>. SUFFICES ASSUME NEW field \in schema[md] PROVE <<field>> \in Leading(schema, md)
  BY DEF Starts
<1>1. field \in AllFields(schema)
  BY DEF AllFields
<1>2. <<field>> \in Seq(AllFields(schema)) /\ Len(<<field>>) = 1 /\ <<field>>[1] = field
  BY <1>1
<1>3. 1 .. Len(<<field>>) - 1 = {}
  BY <1>2
<1>. QED  BY <1>2, <1>3 DEF Leading, Leads

LEMMA StepLeads ==
    ASSUME NEW schema, NamesApart(schema), NEW md \in DOMAIN schema,
           NEW c \in Leading(schema, md), Descends(md, c), NEW field \in schema[Last(c).of]
    PROVE  Append(c, field) \in Leading(schema, md)
<1>. DEFINE A == AllFields(schema)
            N == Len(c)
            d == Append(c, field)
<1>1. c \in Seq(A) /\ Leads(schema, md, c)
  BY DEF Leading
<1>2. N \in Nat \ {0} /\ Last(c) = c[N]
  BY <1>1, LenProperties, EmptySeq DEF Leads, Last
<1>3. c[N].kind = "message" /\ c[N].opts = <<>>
  BY <1>2 DEF Descends
<1>4. c[N].of \in DOMAIN schema
  <2>1. c[N] \in A
    BY <1>1, <1>2, ElementOfSeq
  <2>2. PICK m \in DOMAIN schema : c[N] \in schema[m]
    BY <2>1 DEF AllFields
  <2>. QED  BY <1>3, <2>2 DEF NamesApart
<1>5. field \in A
  BY <1>2, <1>4 DEF AllFields
<1>6. d \in Seq(A) /\ Len(d) = N + 1 /\ d[N + 1] = field /\ \A i \in 1..N : d[i] = c[i]
  BY <1>1, <1>5, AppendProperties
<1>7. d # <<>> /\ d[1] \in schema[md]
  BY <1>1, <1>2, <1>6 DEF Leads
<1>8. ASSUME NEW i \in 1 .. Len(d) - 1
      PROVE  /\ d[i].opts = <<>> /\ d[i].of \in DOMAIN schema
             /\ d[i + 1] \in schema[d[i].of]
  <2>1. i \in 1..N
    BY <1>2, <1>6
  <2>2. CASE i = N
    BY <1>2, <1>3, <1>4, <1>6, <2>1, <2>2
  <2>3. CASE i # N
    <3>1. i \in 1 .. N - 1 /\ i + 1 \in 1..N
      BY <1>2, <2>1, <2>3
    <3>. QED  BY <1>1, <1>6, <2>1, <3>1 DEF Leads
  <2>. QED  BY <2>2, <2>3
<1>. HIDE DEF d
<1>9. Leads(schema, md, d)
  BY <1>7, <1>8 DEF Leads
<1>. QED  BY <1>6, <1>9 DEF Leading, d

\* Every chain of the walk leads somewhere, and every field starts one.
LEMMA ChainsLead ==
    ASSUME NEW schema, NamesApart(schema), NEW md \in DOMAIN schema
    PROVE  /\ Chains(schema, md) \subseteq Leading(schema, md)
           /\ Starts(schema, md) \subseteq Chains(schema, md)
<1>. DEFINE N == Cardinality(DOMAIN schema)
            Grown(X) == X \cup UNION {{Append(c, field) : field \in schema[Last(c).of]} :
                                          c \in {d \in X : Descends(md, d)}}
            S == {X \in SUBSET Leading(schema, md) : Starts(schema, md) \subseteq X}
            h == [p \in (1..N) \X S |-> Grown(p[2])]
            IsReach(f) == f = [n \in 0..N |->
                IF n = 0 THEN {<<field>> : field \in schema[md]}
                ELSE f[n - 1] \cup
                     UNION {{Append(c, field) : field \in schema[Last(c).of]} :
                            c \in {d \in f[n - 1] : Descends(md, d)}}]
<1>1. N \in Nat
  BY FS_CardinalityType DEF NamesApart
<1>2. Starts(schema, md) \in S
  BY StartsLead
<1>3. ASSUME NEW X \in S PROVE Grown(X) \in S
  <2>1. ASSUME NEW c \in {d \in X : Descends(md, d)}, NEW field \in schema[Last(c).of]
        PROVE  Append(c, field) \in Leading(schema, md)
    BY <2>1, StepLeads
  <2>. DEFINE New(c) == {Append(c, field) : field \in schema[Last(c).of]}
              D == {d \in X : Descends(md, d)}
  <2>2. \A c \in D : New(c) \subseteq Leading(schema, md)
    BY <2>1
  <2>. HIDE DEF New, D
  <2>3. UNION {New(c) : c \in D} \subseteq Leading(schema, md)
    BY <2>2
  <2>. QED  BY <2>3 DEF New, D
<1>. HIDE DEF N, Grown, S
<1>4. h \in [(1..N) \X S -> S]
  <2>1. ASSUME NEW p \in (1..N) \X S PROVE Grown(p[2]) \in S
    <3>1. p[2] \in S
      OBVIOUS
    <3>. QED  BY <1>3, <3>1
  <2>. QED  BY <2>1
<1>5. \A n \in 1..N, X \in S : h[<<n, X>>] = Grown(X)
  OBVIOUS
<1>. HIDE DEF h
<1>6. \E r \in [0..N -> S] : Iterates(r, Starts(schema, md), h, N)
  BY <1>1, <1>2, <1>4, PositionRecursion, Zenon
<1>7. ASSUME NEW r \in [0..N -> S], Iterates(r, Starts(schema, md), h, N) PROVE IsReach(r)
  <2>1. ASSUME NEW n \in 0..N
        PROVE  r[n] = IF n = 0 THEN {<<field>> : field \in schema[md]} ELSE Grown(r[n - 1])
    <3>1. CASE n = 0
      BY <1>7, <3>1 DEF Iterates, Starts
    <3>2. CASE n # 0
      <4>1. n \in 1..N /\ n - 1 \in 0..N
        BY <1>1, <3>2
      <4>2. r[n - 1] \in S /\ r[n] = h[<<n, r[n - 1]>>]
        BY <1>7, <4>1 DEF Iterates
      <4>. QED  BY <1>5, <3>2, <4>1, <4>2
    <3>. QED  BY <3>1, <3>2
  <2>2. r = [n \in 0..N |-> r[n]]
    OBVIOUS
  <2>3. r = [n \in 0..N |-> IF n = 0 THEN {<<field>> : field \in schema[md]} ELSE Grown(r[n - 1])]
    BY <2>1, <2>2, Zenon
  <2>. QED  BY <2>3 DEF Grown
<1>8. PICK f : IsReach(f) /\ Chains(schema, md) = f[N]
  <2>. DEFINE reach == CHOOSE f : IsReach(f)
  <2>1. IsReach(reach)
    BY <1>6, <1>7, Zenon
  <2>2. Chains(schema, md) = reach[N]
    BY Zenon DEF Chains, N
  <2>. QED  BY <2>1, <2>2
<1>9. f = [n \in 0..N |-> IF n = 0 THEN Starts(schema, md) ELSE Grown(f[n - 1])]
  BY <1>8 DEF Starts, Grown
<1>10. f[0] = Starts(schema, md)
  BY <1>1, <1>9
<1>11. \A n \in 1..N : f[n] = Grown(f[n - 1])
  BY <1>1, <1>9
<1>12. f[N] \in S
  <2>. DEFINE M == {n \in Nat : n <= N => f[n] \in S}
  <2>1. 0 \in M
    BY <1>2, <1>10
  <2>2. ASSUME NEW n \in M PROVE n + 1 \in M
    <3>. SUFFICES ASSUME n + 1 <= N PROVE f[n + 1] \in S
      OBVIOUS
    <3>1. n + 1 \in 1..N /\ (n + 1) - 1 = n /\ f[n] \in S
      BY <1>1
    <3>. QED  BY <1>3, <1>11, <3>1
  <2>3. M = Nat
    <3>. HIDE DEF M
    <3>. QED  BY <2>1, <2>2, NatSetInduction DEF M
  <2>. QED  BY <1>1, <2>3
<1>. QED  BY <1>8, <1>12 DEF S

LEMMA ChainLength ==
    ASSUME NEW schema, NEW md, NEW c \in Leading(schema, md)
    PROVE  /\ Len(c) \in Nat \ {0} /\ DOMAIN c = 1..Len(c) /\ Last(c) = c[Len(c)]
           /\ PathOf(c) \in Seq({f.name : f \in AllFields(schema)}) /\ Len(PathOf(c)) = Len(c)
<1>1. c \in Seq(AllFields(schema)) /\ c # <<>>
  BY DEF Leading, Leads
<1>2. Len(c) \in Nat \ {0} /\ DOMAIN c = 1..Len(c) /\ Last(c) = c[Len(c)]
  BY <1>1, LenProperties, EmptySeq DEF Last
<1>3. \A i \in 1..Len(c) : c[i] \in AllFields(schema)
  BY <1>1, ElementOfSeq
<1>4. PathOf(c) = [i \in 1..Len(c) |-> c[i].name]
  BY <1>2 DEF PathOf
<1>5. PathOf(c) \in [1..Len(c) -> {f.name : f \in AllFields(schema)}]
  BY <1>3, <1>4
<1>. QED  BY <1>2, <1>5

\* Two chains of one message that go by the same names are the same.
LEMMA PathsApart ==
    ASSUME NEW schema, NamesApart(schema), NEW md \in DOMAIN schema,
           NEW c \in Leading(schema, md), NEW d \in Leading(schema, md), PathOf(c) = PathOf(d)
    PROVE  c = d
<1>. DEFINE N == Len(c)
<1>1. /\ N \in Nat \ {0} /\ Len(d) = N /\ DOMAIN c = 1..N /\ DOMAIN d = 1..N
      /\ c \in Seq(AllFields(schema)) /\ d \in Seq(AllFields(schema))
  BY ChainLength DEF Leading
<1>2. \A i \in 1..N : c[i].name = d[i].name
  <2>1. ASSUME NEW i \in 1..N PROVE c[i].name = d[i].name
    <3>1. PathOf(c)[i] = c[i].name /\ PathOf(d)[i] = d[i].name
      BY <1>1 DEF PathOf
    <3>. QED  BY <3>1
  <2>. QED  BY <2>1
<1>3. Leads(schema, md, c) /\ Leads(schema, md, d)
  BY DEF Leading
<1>. DEFINE M == {n \in Nat : n + 1 \in 1..N => c[n + 1] = d[n + 1]}
<1>4. 0 \in M
  <2>1. c[1] \in schema[md] /\ d[1] \in schema[md] /\ 1 \in 1..N
    BY <1>1, <1>3 DEF Leads
  <2>. QED  BY <1>2, <2>1 DEF NamesApart
<1>5. ASSUME NEW n \in M PROVE n + 1 \in M
  <2>. SUFFICES ASSUME (n + 1) + 1 \in 1..N PROVE c[(n + 1) + 1] = d[(n + 1) + 1]
    OBVIOUS
  <2>1. n + 1 \in 1..N /\ n + 1 \in 1 .. N - 1
    BY <1>1
  <2>2. c[n + 1] = d[n + 1]
    BY <2>1
  <2>3. /\ c[n + 1].of \in DOMAIN schema /\ c[(n + 1) + 1] \in schema[c[n + 1].of]
        /\ d[(n + 1) + 1] \in schema[d[n + 1].of]
    BY <1>1, <1>3, <2>1 DEF Leads
  <2>. QED  BY <1>2, <2>2, <2>3 DEF NamesApart
<1>6. M = Nat
  <2>. HIDE DEF M
  <2>. QED  BY <1>4, <1>5, NatSetInduction DEF M
<1>7. ASSUME NEW i \in 1..N PROVE c[i] = d[i]
  <2>1. i - 1 \in Nat /\ (i - 1) + 1 = i
    BY <1>1
  <2>2. i - 1 \in M
    BY <1>6, <2>1
  <2>. QED  BY <2>1, <2>2
<1>. QED  BY <1>1, <1>7, SeqEqual

\* An annotated field has no message below it.
LEMMA AnnotatedAboveNone ==
    ASSUME NEW schema, NamesApart(schema), NEW md \in DOMAIN schema,
           NEW b \in Leading(schema, md), Last(b).opts # <<>>, NEW c \in Leading(schema, md)
    PROVE  PathOf(b) \notin Above(PathOf(c))
<1>. SUFFICES ASSUME PathOf(b) \in Above(PathOf(c)) PROVE FALSE
  OBVIOUS
<1>. DEFINE N == Len(c)
<1>1. N \in Nat \ {0} /\ DOMAIN c = 1..N /\ Len(PathOf(c)) = N
  BY ChainLength
<1>2. PICK i \in 1 .. N - 1 : PathOf(b) = SubSeq(PathOf(c), 1, i)
  BY <1>1 DEF Above
<1>3. i \in 1..N /\ i \in Nat /\ c \in Seq(AllFields(schema)) /\ Leads(schema, md, c)
  BY <1>1, <1>2 DEF Leading
<1>. DEFINE d == SubSeq(c, 1, i)
<1>4. d \in Seq(AllFields(schema)) /\ Len(d) = i /\ \A j \in 1..i : d[j] = c[j]
  <2>1. \A j \in 1..i : c[j] \in AllFields(schema)
    BY <1>1, <1>2, <1>3, ElementOfSeq
  <2>2. d = [j \in 1..i |-> c[j]]
    BY <1>1, <1>2, <1>3
  <2>3. d \in [1..i -> AllFields(schema)]
    BY <2>1, <2>2
  <2>. HIDE DEF d
  <2>. QED  BY <1>3, <2>2, <2>3
<1>. HIDE DEF d
<1>5. d \in Leading(schema, md)
  <2>1. d # <<>> /\ d[1] = c[1]
    BY <1>1, <1>2, <1>4, EmptySeq
  <2>2. \A j \in 1 .. i - 1 : j \in 1..i /\ j + 1 \in 1..i /\ j \in 1 .. N - 1
    BY <1>1, <1>2
  <2>3. Leads(schema, md, d)
    BY <1>3, <1>4, <2>1, <2>2 DEF Leads
  <2>. QED  BY <1>4, <2>3 DEF Leading
<1>6. PathOf(d) = PathOf(b)
  <2>1. DOMAIN d = 1..i
    BY <1>5, <1>4, ChainLength
  <2>2. PathOf(d) = [j \in 1..i |-> c[j].name]
    BY <1>4, <2>1 DEF PathOf
  <2>3. SubSeq(PathOf(c), 1, i) = [j \in 1..i |-> PathOf(c)[j]]
    <3>1. PathOf(c) \in Seq({f.name : f \in AllFields(schema)})
      BY ChainLength
    <3>2. \A j \in 1..i : (1 + j) - 1 = j
      BY <1>1, <1>2
    <3>. QED  BY <1>1, <1>2, <3>1, <3>2
  <2>4. \A j \in 1..i : PathOf(c)[j] = c[j].name
    BY <1>1, <1>2 DEF PathOf
  <2>. QED  BY <1>2, <2>2, <2>3, <2>4
<1>7. d = b
  BY <1>5, <1>6, PathsApart
<1>8. Last(b) = c[i]
  <2>1. Last(d) = d[Len(d)]
    BY <1>5, ChainLength
  <2>2. i \in 1..i
    BY <1>1, <1>2
  <2>. QED  BY <1>4, <1>7, <2>1, <2>2
<1>. QED  BY <1>2, <1>3, <1>8 DEF Leads

-----------------------------------------------------------------------------
(***************************************************************************)
(* Bindings, and what setting some of them does to the others.             *)
(***************************************************************************)

LEMMA BindingChain ==
    ASSUME NEW schema, NamesApart(schema), NEW md \in DOMAIN schema, NEW b \in Walk(schema, md)
    PROVE  \E c \in Chains(schema, md) :
                /\ c \in Leading(schema, md) /\ Last(c).opts # <<>> /\ b = BindingOf(c)
                /\ b.path = PathOf(c) /\ b.field = Last(c) /\ b.default = parseDefault(Last(c))
<1>1. PICK c \in Annotated(schema, md) : b = BindingOf(c)
  BY DEF Walk
<1>2. c \in Chains(schema, md) /\ Last(c).opts # <<>>
  BY DEF Annotated
<1>3. c \in Leading(schema, md)
  BY <1>2, ChainsLead
<1>4. b.path = PathOf(c) /\ b.field = Last(c) /\ b.default = parseDefault(Last(c))
  BY <1>1 DEF BindingOf
<1>. QED  BY <1>1, <1>2, <1>3, <1>4

\* No two bindings have one path.
LEMMA BindingsApart ==
    ASSUME NEW schema, NamesApart(schema), NEW md \in DOMAIN schema,
           NEW b \in Walk(schema, md), NEW d \in Walk(schema, md), b.path = d.path
    PROVE  b = d
<1>1. PICK c \in Chains(schema, md) :
          c \in Leading(schema, md) /\ b = BindingOf(c) /\ b.path = PathOf(c)
  BY BindingChain
<1>2. PICK e \in Chains(schema, md) :
          e \in Leading(schema, md) /\ d = BindingOf(e) /\ d.path = PathOf(e)
  BY BindingChain
<1>3. c = e
  BY <1>1, <1>2, PathsApart
<1>. QED  BY <1>1, <1>2, <1>3

LEMMA ChosenBinding ==
    ASSUME NEW schema, NamesApart(schema), NEW md \in DOMAIN schema,
           NEW S \in SUBSET Walk(schema, md), NEW b \in S
    PROVE  (CHOOSE x \in S : x.path = b.path) = b
<1>. DEFINE x == CHOOSE x \in S : x.path = b.path
<1>1. x \in S /\ x.path = b.path
  OBVIOUS
<1>. HIDE DEF x
<1>2. x = b
  BY <1>1, BindingsApart
<1>. QED  BY <1>2 DEF x

\* No field lies below a binding.
LEMMA BindingAboveNone ==
    ASSUME NEW schema, NamesApart(schema), NEW md \in DOMAIN schema,
           NEW b \in Walk(schema, md), NEW c \in Leading(schema, md)
    PROVE  b.path \notin Above(PathOf(c))
<1>1. PICK e \in Chains(schema, md) :
          e \in Leading(schema, md) /\ Last(e).opts # <<>> /\ b.path = PathOf(e)
  BY BindingChain
<1>. QED  BY <1>1, AnnotatedAboveNone

LEMMA BindingAboveNoBinding ==
    ASSUME NEW schema, NamesApart(schema), NEW md \in DOMAIN schema,
           NEW b \in Walk(schema, md), NEW d \in Walk(schema, md)
    PROVE  b.path \notin Above(d.path)
<1>1. PICK e \in Chains(schema, md) : e \in Leading(schema, md) /\ d.path = PathOf(e)
  BY BindingChain
<1>. QED  BY <1>1, BindingAboveNone

\* Field path of m, in a sequence; empty: unset.
At(m, path) == IF path \in DOMAIN m THEN <<m[path]>> ELSE <<>>

\* Setting leaves changes those, and the messages above them.
LEMMA SetAt ==
    ASSUME NEW m, NEW leaves, NEW path, \A q \in DOMAIN leaves : path \notin Above(q)
    PROVE  At(setByPath(m, leaves), path) =
                IF path \in DOMAIN leaves THEN At(leaves, path) ELSE At(m, path)
<1>. DEFINE above == [p \in UNION {Above(q) : q \in DOMAIN leaves} |-> Here]
<1>1. setByPath(m, leaves) = Merge(Merge(m, above), leaves)
  BY DEF setByPath
<1>2. path \notin DOMAIN above
  OBVIOUS
<1>. HIDE DEF above
<1>3. CASE path \in DOMAIN leaves
  BY <1>1, <1>3 DEF Merge, At
<1>4. CASE path \notin DOMAIN leaves
  <2>1. path \in DOMAIN setByPath(m, leaves) <=> path \in DOMAIN m
    BY <1>1, <1>2, <1>4 DEF Merge
  <2>2. path \in DOMAIN m => setByPath(m, leaves)[path] = m[path]
    BY <1>1, <1>2, <1>4 DEF Merge
  <2>. QED  BY <1>4, <2>1, <2>2 DEF At
<1>. QED  BY <1>3, <1>4

LEMMA MergeAt ==
    ASSUME NEW m, NEW other, NEW path
    PROVE  At(Merge(m, other), path) = IF path \in DOMAIN other THEN At(other, path) ELSE At(m, path)
BY DEF Merge, At

\* The fields of some bindings, set to values, leave the other bindings alone.
LEMMA BoundAt ==
    ASSUME NEW schema, NamesApart(schema), NEW md \in DOMAIN schema,
           NEW S \in SUBSET Walk(schema, md), NEW leaves, DOMAIN leaves = {x.path : x \in S},
           NEW m, NEW b \in Walk(schema, md)
    PROVE  /\ b \in S => At(setByPath(m, leaves), b.path) = <<leaves[b.path]>>
           /\ b \notin S => At(setByPath(m, leaves), b.path) = At(m, b.path)
<1>1. \A q \in DOMAIN leaves : b.path \notin Above(q)
  BY BindingAboveNoBinding
<1>2. b.path \in DOMAIN leaves <=> b \in S
  BY BindingsApart
<1>. QED  BY <1>1, <1>2, SetAt DEF At

LEMMA DefaultsAt ==
    ASSUME NEW schema, NamesApart(schema), NEW md \in DOMAIN schema, NEW b \in Walk(schema, md)
    PROVE  At(ApplyDefaults(NoFields, Walk(schema, md)), b.path) = b.default
<1>. DEFINE bs == Walk(schema, md)
            due == {x \in bs : x.default # <<>>}
            leaves == [path \in {x.path : x \in due} |-> (CHOOSE x \in due : x.path = path).default[1]]
<1>1. ApplyDefaults(NoFields, bs) = setByPath(NoFields, leaves)
  BY DEF ApplyDefaults, AtPaths
<1>2. due \in SUBSET bs /\ DOMAIN leaves = {x.path : x \in due}
  OBVIOUS
<1>3. ASSUME b \in due PROVE leaves[b.path] = b.default[1]
  <2>1. (CHOOSE x \in due : x.path = b.path) = b
    BY <1>2, <1>3, ChosenBinding
  <2>2. b.path \in {x.path : x \in due}
    BY <1>3
  <2>. HIDE DEF due
  <2>. QED  BY <2>1, <2>2
<1>4. b.default # <<>> => b.default = <<b.default[1]>>
  <2>1. PICK c : b.default = parseDefault(Last(c))
    BY BindingChain
  <2>. QED  BY <2>1, DefaultOne
<1>5. b \in due <=> b.default # <<>>
  OBVIOUS
<1>. HIDE DEF leaves, due
<1>6. /\ b \in due => At(setByPath(NoFields, leaves), b.path) = <<leaves[b.path]>>
      /\ b \notin due => At(setByPath(NoFields, leaves), b.path) = At(NoFields, b.path)
  BY <1>2, BoundAt
<1>7. At(NoFields, b.path) = <<>>
  BY DEF At, NoFields
<1>. QED  BY <1>1, <1>3, <1>4, <1>5, <1>6, <1>7

\* A layer of texts: the bindings it speaks for, and those it does not.
LEMMA TextsAt ==
    ASSUME NEW schema, NamesApart(schema), NEW md \in DOMAIN schema, NEW m, NEW raw,
           DOMAIN raw \subseteq Walk(schema, md), ApplyTexts(m, raw) # <<>>,
           NEW b \in Walk(schema, md)
    PROVE  /\ b \in DOMAIN raw => At(ApplyTexts(m, raw)[1], b.path) = parseScalar(b.field, raw[b])
           /\ b \notin DOMAIN raw => At(ApplyTexts(m, raw)[1], b.path) = At(m, b.path)
<1>. DEFINE S == DOMAIN raw
            leaves == [path \in {x.path : x \in S} |->
                          LET x == CHOOSE x \in S : x.path = path IN parseScalar(x.field, raw[x])[1]]
<1>1. /\ ApplyTexts(m, raw) = <<setByPath(m, leaves)>>
      /\ \A x \in S : parseScalar(x.field, raw[x]) # <<>>
  BY DEF ApplyTexts, AtPaths
<1>2. S \in SUBSET Walk(schema, md) /\ DOMAIN leaves = {x.path : x \in S}
  OBVIOUS
<1>3. ASSUME b \in S PROVE <<leaves[b.path]>> = parseScalar(b.field, raw[b])
  <2>1. (CHOOSE x \in S : x.path = b.path) = b
    BY <1>2, <1>3, ChosenBinding
  <2>2. b.path \in {x.path : x \in S}
    BY <1>3
  <2>. HIDE DEF S
  <2>3. leaves[b.path] = parseScalar(b.field, raw[b])[1]
    BY <2>1, <2>2
  <2>4. parseScalar(b.field, raw[b]) # <<>>
    BY <1>1, <1>3
  <2>. HIDE DEF leaves
  <2>. QED  BY <2>3, <2>4, ParseScalarOne
<1>. HIDE DEF leaves, S
<1>4. /\ b \in S => At(setByPath(m, leaves), b.path) = <<leaves[b.path]>>
      /\ b \notin S => At(setByPath(m, leaves), b.path) = At(m, b.path)
  BY <1>2, BoundAt
<1>5. ApplyTexts(m, raw)[1] = setByPath(m, leaves)
  BY <1>1
<1>. QED  BY <1>3, <1>4, <1>5 DEF S

-----------------------------------------------------------------------------
(***************************************************************************)
(* Filling the defaults of a message.                                      *)
(***************************************************************************)

\* The bindings of a message that still need their default.
DueIn(schema, md, m) ==
    {b \in Walk(schema, md) : b.default # <<>> /\ InPlace(m, b.path) /\ needsDefault(m, b)}

LEMMA FilledPath ==
    ASSUME NEW schema, NamesApart(schema), NEW md \in DOMAIN schema, ~WalkFails(schema, md),
           NEW m, NEW path
    PROVE  /\ \A b \in DueIn(schema, md, m) :
                    b.path = path => At(FillDefaults(schema, md, m), path) = b.default
           /\ (\A b \in DueIn(schema, md, m) : b.path # path) =>
                    At(FillDefaults(schema, md, m), path) = At(m, path)
<1>. DEFINE due == DueIn(schema, md, m)
            leaves == [p \in {x.path : x \in due} |-> (CHOOSE x \in due : x.path = p).default[1]]
<1>1. FillDefaults(schema, md, m) = Merge(m, leaves)
  BY DEF FillDefaults, AtPaths, DueIn
<1>2. due \in SUBSET Walk(schema, md)
  BY DEF DueIn
<1>3. ASSUME NEW b \in due, b.path = path PROVE At(Merge(m, leaves), path) = b.default
  <2>1. (CHOOSE x \in due : x.path = path) = b
    BY <1>2, <1>3, ChosenBinding
  <2>2. path \in {x.path : x \in due}
    BY <1>3
  <2>3. b.default = <<b.default[1]>>
    <3>1. b \in Walk(schema, md) /\ b.default # <<>>
      BY <1>3 DEF DueIn
    <3>2. PICK c : b.default = parseDefault(Last(c))
      BY <3>1, BindingChain
    <3>. QED  BY <3>1, <3>2, DefaultOne
  <2>. HIDE DEF due
  <2>4. path \in DOMAIN leaves /\ leaves[path] = b.default[1]
    BY <2>1, <2>2
  <2>. HIDE DEF leaves
  <2>. QED  BY <2>3, <2>4, MergeAt DEF At
<1>4. ASSUME \A b \in due : b.path # path PROVE At(Merge(m, leaves), path) = At(m, path)
  <2>1. path \notin DOMAIN leaves
    BY <1>4
  <2>. HIDE DEF leaves
  <2>. QED  BY <2>1, MergeAt
<1>. QED  BY <1>1, <1>3, <1>4

LEMMA FilledInPlace ==
    ASSUME NEW schema, NamesApart(schema), NEW md \in DOMAIN schema, ~WalkFails(schema, md),
           NEW m, NEW c \in Leading(schema, md)
    PROVE  InPlace(FillDefaults(schema, md, m), PathOf(c)) <=> InPlace(m, PathOf(c))
<1>1. ASSUME NEW p \in Above(PathOf(c)) PROVE Has(FillDefaults(schema, md, m), p) <=> Has(m, p)
  <2>1. \A b \in DueIn(schema, md, m) : b.path # p
    BY <1>1, BindingAboveNone DEF DueIn
  <2>2. At(FillDefaults(schema, md, m), p) = At(m, p)
    BY <2>1, FilledPath
  <2>. QED  BY <2>2 DEF At, Has
<1>. QED  BY <1>1 DEF InPlace

\* A chain whose field is due has the default, and one whose field is not
\* keeps what it had.
LEMMA FilledAt ==
    ASSUME NEW schema, NamesApart(schema), NEW md \in DOMAIN schema, ~WalkFails(schema, md),
           NEW m, NEW c \in Chains(schema, md)
    PROVE  LET due == /\ Last(c).opts # <<>> /\ parseDefault(Last(c)) # <<>>
                      /\ InPlace(m, PathOf(c))
                      /\ \/ ~Has(m, PathOf(c))
                         \/ Last(c).kind = "enum" /\ m[PathOf(c)] = Num(0)
           IN  At(FillDefaults(schema, md, m), PathOf(c)) =
                    IF due THEN parseDefault(Last(c)) ELSE At(m, PathOf(c))
<1>. DEFINE b == BindingOf(c)
            due == /\ Last(c).opts # <<>> /\ parseDefault(Last(c)) # <<>>
                   /\ InPlace(m, PathOf(c))
                   /\ \/ ~Has(m, PathOf(c))
                      \/ Last(c).kind = "enum" /\ m[PathOf(c)] = Num(0)
<1>1. c \in Leading(schema, md)
  BY ChainsLead
<1>2. b.path = PathOf(c) /\ b.field = Last(c) /\ b.default = parseDefault(Last(c))
  BY DEF BindingOf
<1>. HIDE DEF b
<1>3. CASE due
  <2>1. b \in Walk(schema, md)
    BY <1>3 DEF Walk, Annotated, b
  <2>2. b \in DueIn(schema, md, m)
    BY <1>2, <1>3, <2>1 DEF DueIn, needsDefault
  <2>. QED  BY <1>2, <1>3, <2>2, FilledPath
<1>4. CASE ~due
  <2>1. ASSUME NEW x \in DueIn(schema, md, m), x.path = PathOf(c) PROVE FALSE
    <3>1. x \in Walk(schema, md) /\ x.default # <<>> /\ InPlace(m, x.path) /\ needsDefault(m, x)
      BY <2>1 DEF DueIn
    <3>2. PICK e \in Chains(schema, md) :
              /\ e \in Leading(schema, md) /\ Last(e).opts # <<>> /\ x = BindingOf(e)
              /\ x.path = PathOf(e) /\ x.field = Last(e) /\ x.default = parseDefault(Last(e))
      BY <3>1, BindingChain
    <3>3. e = c
      BY <1>1, <2>1, <3>2, PathsApart
    <3>. QED  BY <1>4, <3>1, <3>2, <3>3 DEF needsDefault
  <2>2. At(FillDefaults(schema, md, m), PathOf(c)) = At(m, PathOf(c))
    BY <2>1, FilledPath
  <2>. QED  BY <1>4, <2>2
<1>. QED  BY <1>3, <1>4

\* A second round of filling changes nothing.
LEMMA FilledAgain ==
    ASSUME NEW schema, NamesApart(schema), NEW md \in DOMAIN schema, ~WalkFails(schema, md), NEW m
    PROVE  FillDefaults(schema, md, FillDefaults(schema, md, m)) = FillDefaults(schema, md, m)
<1>. DEFINE F == FillDefaults(schema, md, m)
            due == DueIn(schema, md, F)
            leaves == [p \in {x.path : x \in due} |-> (CHOOSE x \in due : x.path = p).default[1]]
<1>1. FillDefaults(schema, md, F) = Merge(F, leaves)
  BY DEF FillDefaults, AtPaths, DueIn
<1>2. F = [p \in DOMAIN F |-> F[p]]
  <2>1. \E other : F = Merge(m, other)
    BY DEF FillDefaults
  <2>. HIDE DEF F
  <2>. QED  BY <2>1 DEF Merge
<1>3. ASSUME NEW b \in due PROVE b.path \in DOMAIN F /\ F[b.path] = b.default[1]
  <2>1. b \in Walk(schema, md) /\ b.default # <<>> /\ InPlace(F, b.path) /\ needsDefault(F, b)
    BY <1>3 DEF DueIn
  <2>2. PICK c \in Chains(schema, md) :
            /\ c \in Leading(schema, md) /\ Last(c).opts # <<>> /\ b.path = PathOf(c)
            /\ b.field = Last(c) /\ b.default = parseDefault(Last(c))
    BY <2>1, BindingChain
  <2>3. InPlace(m, PathOf(c))
    BY <2>1, <2>2, FilledInPlace
  <2>4. CASE ~Has(m, PathOf(c)) \/ (Last(c).kind = "enum" /\ m[PathOf(c)] = Num(0))
    <3>1. At(F, b.path) = b.default
      BY <2>1, <2>2, <2>3, <2>4, FilledAt
    <3>. HIDE DEF F
    <3>. QED  BY <2>1, <3>1 DEF At
  <2>5. CASE Has(m, PathOf(c)) /\ ~(Last(c).kind = "enum" /\ m[PathOf(c)] = Num(0))
    <3>1. At(F, b.path) = At(m, b.path)
      BY <2>2, <2>5, FilledAt
    <3>. HIDE DEF F
    <3>2. Has(F, b.path) /\ F[b.path] = m[b.path]
      BY <2>2, <2>5, <3>1 DEF At, Has
    <3>. QED  BY <2>1, <2>2, <2>5, <3>2 DEF needsDefault
  <2>. QED  BY <2>4, <2>5, Zenon
<1>4. due \in SUBSET Walk(schema, md)
  BY DEF DueIn
<1>5. ASSUME NEW p \in DOMAIN leaves PROVE p \in DOMAIN F /\ F[p] = leaves[p]
  <2>1. PICK b \in due : b.path = p
    BY <1>5
  <2>2. (CHOOSE x \in due : x.path = b.path) = b
    BY <1>4, <2>1, ChosenBinding
  <2>3. p \in {x.path : x \in due}
    BY <2>1
  <2>. HIDE DEF due
  <2>4. leaves[p] = b.default[1]
    BY <2>1, <2>2, <2>3
  <2>. HIDE DEF F
  <2>. QED  BY <1>3, <2>1, <2>4
<1>. HIDE DEF leaves, F
<1>6. DOMAIN F \cup DOMAIN leaves = DOMAIN F
  BY <1>5
<1>7. Merge(F, leaves) = [p \in DOMAIN F |-> F[p]]
  BY <1>5, <1>6 DEF Merge
<1>. QED  BY <1>1, <1>2, <1>7 DEF F

\* A message that keeps the rules keeps them when its defaults are filled.
LEMMA FilledValid ==
    ASSUME NEW schema, NamesApart(schema), NEW md \in DOMAIN schema, ~WalkFails(schema, md),
           \A b \in Walk(schema, md) :
                b.default # <<>> => \A rule \in b.field.rules : Meets(rule, b.default[1]),
           NEW m, Valid(schema, md, m)
    PROVE  Valid(schema, md, FillDefaults(schema, md, m))
<1>. DEFINE F == FillDefaults(schema, md, m)
<1>. SUFFICES ASSUME NEW c \in Chains(schema, md)
              PROVE  /\ "required" \in Last(c).rules /\ InPlace(F, PathOf(c)) => Has(F, PathOf(c))
                     /\ Has(F, PathOf(c)) => \A rule \in Last(c).rules : Meets(rule, F[PathOf(c)])
  BY DEF Valid
<1>1. /\ "required" \in Last(c).rules /\ InPlace(m, PathOf(c)) => Has(m, PathOf(c))
      /\ Has(m, PathOf(c)) => \A rule \in Last(c).rules : Meets(rule, m[PathOf(c)])
  BY DEF Valid
<1>2. c \in Leading(schema, md)
  BY ChainsLead
<1>3. InPlace(F, PathOf(c)) <=> InPlace(m, PathOf(c))
  BY <1>2, FilledInPlace
<1>. DEFINE due == /\ Last(c).opts # <<>> /\ parseDefault(Last(c)) # <<>>
                   /\ InPlace(m, PathOf(c))
                   /\ \/ ~Has(m, PathOf(c))
                      \/ Last(c).kind = "enum" /\ m[PathOf(c)] = Num(0)
<1>4. At(F, PathOf(c)) = IF due THEN parseDefault(Last(c)) ELSE At(m, PathOf(c))
  BY FilledAt
<1>5. CASE due
  <2>1. BindingOf(c) \in Walk(schema, md)
    BY <1>5 DEF Walk, Annotated
  <2>2. BindingOf(c).default = parseDefault(Last(c)) /\ BindingOf(c).field = Last(c)
    BY DEF BindingOf
  <2>3. \A rule \in Last(c).rules : Meets(rule, parseDefault(Last(c))[1])
    BY <1>5, <2>1, <2>2
  <2>. HIDE DEF F
  <2>4. Has(F, PathOf(c)) /\ F[PathOf(c)] = parseDefault(Last(c))[1]
    BY <1>4, <1>5 DEF At, Has
  <2>. QED  BY <2>3, <2>4
<1>6. CASE ~due
  <2>1. At(F, PathOf(c)) = At(m, PathOf(c))
    BY <1>4, <1>6, Zenon
  <2>. HIDE DEF F, due
  <2>2. Has(F, PathOf(c)) <=> Has(m, PathOf(c))
    BY <2>1 DEF At, Has
  <2>3. Has(m, PathOf(c)) => F[PathOf(c)] = m[PathOf(c)]
    BY <2>1 DEF At, Has
  <2>. QED  BY <1>1, <1>3, <2>2, <2>3
<1>. QED  BY <1>5, <1>6

-----------------------------------------------------------------------------
(***************************************************************************)
(* The most specific project.                                              *)
(***************************************************************************)

\* The longest pattern has a length.
LEMMA SpecificityIsNat ==
    ASSUME NEW project, NEW root, IsFiniteSet(project.path_patterns),
           \A p \in project.path_patterns : Bytes(ExpandTilde(p)) \in Nat
    PROVE  projectSpecificity(project, root) \in Nat
<1>. DEFINE P == project.path_patterns
            size(p) == Bytes(ExpandTilde(p))
            lengths == {Bytes(ExpandTilde(p)) : p \in {q \in P : Covers(q, root)}}
            L == lengths \cup {0}
<1>1. \A p \in P : size(p) \in Nat
  OBVIOUS
<1>2. PICK seq \in Seq(P) : \A p \in P : \E n \in 1..Len(seq) : seq[n] = p
  BY DEF IsFiniteSet
<1>3. Len(seq) \in Nat /\ \A n \in 1..Len(seq) : seq[n] \in P
  BY <1>2, LenProperties, ElementOfSeq
<1>. HIDE DEF P, size
<1>4. \E b \in Nat : \A n \in 1..Len(seq) : size(seq[n]) <= b
  <2>. DEFINE M == {m \in Nat : m <= Len(seq) => \E b \in Nat : \A n \in 1..m : size(seq[n]) <= b}
  <2>1. 0 \in M
    OBVIOUS
  <2>2. ASSUME NEW m \in M PROVE m + 1 \in M
    <3>. SUFFICES ASSUME m + 1 <= Len(seq)
                  PROVE  \E b \in Nat : \A n \in 1..(m + 1) : size(seq[n]) <= b
      OBVIOUS
    <3>1. PICK b \in Nat : \A n \in 1..m : size(seq[n]) <= b
      BY <1>3
    <3>2. size(seq[m + 1]) \in Nat
      BY <1>1, <1>3
    <3>. DEFINE c == IF b <= size(seq[m + 1]) THEN size(seq[m + 1]) ELSE b
    <3>3. c \in Nat /\ b <= c /\ size(seq[m + 1]) <= c
      BY <3>2
    <3>4. ASSUME NEW n \in 1..(m + 1) PROVE size(seq[n]) <= c
      <4>1. CASE n = m + 1
        BY <3>3, <4>1
      <4>2. CASE n # m + 1
        <5>1. n \in 1..m /\ n \in 1..Len(seq)
          BY <1>3, <4>2
        <5>2. size(seq[n]) \in Nat /\ size(seq[n]) <= b
          BY <1>1, <1>3, <3>1, <5>1
        <5>. QED  BY <3>3, <5>2
      <4>. QED  BY <4>1, <4>2
    <3>. HIDE DEF c
    <3>. QED  BY <3>3, <3>4
  <2>3. M = Nat
    <3>. HIDE DEF M
    <3>. QED  BY <2>1, <2>2, NatSetInduction DEF M
  <2>4. Len(seq) \in M
    <3>. HIDE DEF M
    <3>. QED  BY <1>3, <2>3
  <2>5. Len(seq) <= Len(seq)
    BY <1>3
  <2>. QED  BY <2>4, <2>5, Zenon
<1>5. PICK b \in Nat : \A n \in 1..Len(seq) : size(seq[n]) <= b
  BY <1>4
<1>6. L \in SUBSET (0..b)
  <2>1. ASSUME NEW p \in P PROVE size(p) \in 0..b
    <3>1. PICK n \in 1..Len(seq) : seq[n] = p
      BY <1>2
    <3>2. size(p) \in Nat /\ size(p) <= b
      BY <1>1, <1>5, <3>1
    <3>. QED  BY <3>2
  <2>2. \A p \in P : Bytes(ExpandTilde(p)) \in 0..b
    BY <2>1 DEF size
  <2>. QED  BY <2>2
<1>7. 0 \in L
  OBVIOUS
<1>8. projectSpecificity(project, root) = CHOOSE n \in L : \A m \in L : m <= n
  BY DEF projectSpecificity, P
<1>. HIDE DEF L
<1>9. \E n \in L : \A m \in L : m <= n
  BY <1>6, <1>7, GreatestNat
<1>10. projectSpecificity(project, root) \in L
  BY <1>8, <1>9
<1>11. projectSpecificity(project, root) \in 0..b
  BY <1>6, <1>10, Zenon
<1>. QED  BY <1>11

\* The block that is matched is the one no other block outranks.
LEMMA MatchedIsNearest ==
    ASSUME NEW ps, NEW root, IsList(ps),
           \A i \in DOMAIN ps : projectSpecificity(ps[i], root) \in Nat
    PROVE  \/ Judging(ps, root) = {} /\ MatchingLlmClassifier(ps, root) = <<>>
           \/ \E k \in Judging(ps, root) :
                /\ MatchingLlmClassifier(ps, root) = ps[k].classifier
                /\ \A j \in Judging(ps, root) \ {k} :
                        \/ projectSpecificity(ps[k], root) > projectSpecificity(ps[j], root)
                        \/ projectSpecificity(ps[k], root) = projectSpecificity(ps[j], root) /\ k > j
<1>. DEFINE N == Len(ps)
            J == Judging(ps, root)
            sp(i) == projectSpecificity(ps[i], root)
            Better(n, x) == IF n \in J /\ (x = 0 \/ sp(n) >= sp(x)) THEN n ELSE x
            S == 0..N
            h == [p \in (1..N) \X S |-> Better(p[1], p[2])]
            IsBest(f) == f = [n \in 0..Len(ps) |-> IF n = 0 THEN 0 ELSE
                IF n \in Judging(ps, root) /\ (f[n - 1] = 0 \/ projectSpecificity(ps[n], root) >= projectSpecificity(ps[f[n - 1]], root))
                THEN n ELSE f[n - 1]]
<1>1. N \in Nat /\ DOMAIN ps = 1..N
  BY LenProperties DEF IsList
<1>2. J \subseteq 1..N /\ \A i \in J : sp(i) \in Nat
  BY <1>1 DEF Judging
<1>. HIDE DEF J, sp
<1>3. h \in [(1..N) \X S -> S] /\ 0 \in S
  <2>1. ASSUME NEW p \in (1..N) \X S PROVE Better(p[1], p[2]) \in S
    <3>1. p[1] \in 1..N /\ p[2] \in S
      OBVIOUS
    <3>. HIDE DEF N
    <3>. QED  BY <1>1, <3>1
  <2>. HIDE DEF Better
  <2>. QED  BY <1>1, <2>1
<1>4. \A n \in 1..N, x \in S : h[<<n, x>>] = Better(n, x)
  BY <1>1
<1>. HIDE DEF h, S, Better
<1>5. \E r \in [0..N -> S] : Iterates(r, 0, h, N)
  BY <1>1, <1>3, PositionRecursion, Zenon
<1>6. ASSUME NEW r \in [0..N -> S], Iterates(r, 0, h, N) PROVE IsBest(r)
  <2>1. ASSUME NEW n \in 0..N PROVE r[n] = IF n = 0 THEN 0 ELSE Better(n, r[n - 1])
    <3>1. CASE n = 0
      BY <1>6, <3>1 DEF Iterates
    <3>2. CASE n # 0
      <4>1. n \in 1..N /\ n - 1 \in 0..N
        BY <1>1, <3>2
      <4>2. r[n - 1] \in S /\ r[n] = h[<<n, r[n - 1]>>]
        BY <1>6, <4>1 DEF Iterates
      <4>. QED  BY <1>4, <3>2, <4>1, <4>2
    <3>. QED  BY <3>1, <3>2
  <2>2. r = [n \in 0..N |-> r[n]]
    OBVIOUS
  <2>3. r = [n \in 0..N |-> IF n = 0 THEN 0 ELSE Better(n, r[n - 1])]
    BY <2>1, <2>2, Zenon
  <2>. QED  BY <2>3, Zenon DEF Better, J, sp, N
<1>7. PICK f : IsBest(f) /\ MatchingLlmClassifier(ps, root) =
                                IF f[N] = 0 THEN <<>> ELSE ps[f[N]].classifier
  <2>. DEFINE best == CHOOSE f : IsBest(f)
  <2>1. IsBest(best)
    BY <1>5, <1>6, Zenon
  <2>2. MatchingLlmClassifier(ps, root) = IF best[N] = 0 THEN <<>> ELSE ps[best[N]].classifier
    BY Zenon DEF MatchingLlmClassifier, N
  <2>. QED  BY <2>1, <2>2
<1>8. f = [n \in 0..N |-> IF n = 0 THEN 0 ELSE Better(n, f[n - 1])]
  BY <1>7, Zenon DEF Better, J, sp, N
<1>9. f[0] = 0 /\ \A n \in 1..N : f[n] = Better(n, f[n - 1])
  BY <1>1, <1>8
<1>. DEFINE Nearest(n) ==
                /\ f[n] \in 0..n
                /\ f[n] = 0 => \A j \in 1..n : j \notin J
                /\ f[n] # 0 => /\ f[n] \in J
                               /\ \A j \in 1..n : j \in J /\ j # f[n] =>
                                    sp(f[n]) > sp(j) \/ (sp(f[n]) = sp(j) /\ f[n] > j)
            M == {n \in Nat : n <= N => Nearest(n)}
<1>. HIDE DEF N
<1>10. 0 \in M
  BY <1>9
<1>11. ASSUME NEW n \in M PROVE n + 1 \in M
  <2>. SUFFICES ASSUME n + 1 <= N PROVE Nearest(n + 1)
    OBVIOUS
  <2>1. n \in Nat /\ n + 1 \in 1..N /\ (n + 1) - 1 = n /\ Nearest(n)
    BY <1>1
  <2>2. f[n + 1] = Better(n + 1, f[n])
    BY <1>9, <2>1
  <2>3. f[n] # 0 => sp(f[n]) \in Nat
    BY <1>2, <2>1
  <2>4. CASE f[n + 1] = n + 1 /\ n + 1 \in J /\ (f[n] = 0 \/ sp(n + 1) >= sp(f[n]))
    <3>1. ASSUME NEW j \in 1..(n + 1), j \in J, j # n + 1
          PROVE  sp(n + 1) > sp(j) \/ (sp(n + 1) = sp(j) /\ n + 1 > j)
      <4>1. j \in 1..n /\ sp(j) \in Nat /\ sp(n + 1) \in Nat
        BY <1>2, <2>1, <2>4, <3>1
      <4>2. f[n] # 0
        BY <2>1, <3>1, <4>1
      <4>3. CASE j = f[n]
        BY <2>1, <2>4, <4>1, <4>2, <4>3
      <4>4. CASE j # f[n]
        <5>1. sp(f[n]) > sp(j) \/ sp(f[n]) = sp(j)
          BY <2>1, <3>1, <4>1, <4>2, <4>4
        <5>. QED  BY <2>1, <2>3, <2>4, <4>1, <4>2, <5>1
      <4>. QED  BY <4>3, <4>4
    <3>. QED  BY <2>1, <2>4, <3>1
  <2>5. CASE f[n + 1] = f[n] /\ ~(n + 1 \in J /\ (f[n] = 0 \/ sp(n + 1) >= sp(f[n])))
    <3>1. CASE n + 1 \notin J
      <4>1. \A j \in 1..(n + 1) : j \in J => j \in 1..n
        BY <2>1, <3>1
      <4>. QED  BY <2>1, <2>5, <4>1
    <3>2. CASE n + 1 \in J
      <4>1. f[n] # 0 /\ sp(n + 1) \in Nat /\ sp(f[n]) > sp(n + 1)
        BY <1>2, <2>3, <2>5, <3>2
      <4>2. ASSUME NEW j \in 1..(n + 1), j \in J, j # f[n]
            PROVE  sp(f[n]) > sp(j) \/ (sp(f[n]) = sp(j) /\ f[n] > j)
        <5>1. CASE j = n + 1
          BY <4>1, <5>1
        <5>2. CASE j # n + 1
          <6>1. j \in 1..n
            BY <2>1, <5>2
          <6>. QED  BY <2>1, <4>1, <4>2, <6>1
        <5>. QED  BY <5>1, <5>2
      <4>. QED  BY <2>1, <2>5, <4>1, <4>2
    <3>. QED  BY <3>1, <3>2
  <2>. QED  BY <2>2, <2>4, <2>5 DEF Better
<1>12. Nearest(N)
  <2>1. M = Nat
    <3>. HIDE DEF M
    <3>. QED  BY <1>10, <1>11, NatSetInduction DEF M
  <2>. QED  BY <1>1, <2>1
<1>13. CASE f[N] = 0
  <2>1. J = {}
    BY <1>2, <1>12, <1>13
  <2>. QED  BY <1>7, <1>13, <2>1 DEF J
<1>14. CASE f[N] # 0
  <2>1. f[N] \in J /\ \A j \in J \ {f[N]} : sp(f[N]) > sp(j) \/ (sp(f[N]) = sp(j) /\ f[N] > j)
    BY <1>2, <1>12, <1>14
  <2>2. MatchingLlmClassifier(ps, root) = ps[f[N]].classifier
    BY <1>7, <1>14
  <2>. QED  BY <2>1, <2>2 DEF J, sp
<1>. QED  BY <1>13, <1>14

-----------------------------------------------------------------------------
(***************************************************************************)
(* What the layers leave in a field, and what Resolve makes of them.       *)
(***************************************************************************)

\* What each layer says of a binding, as the text of the flag or the variable
\* the process was given.
EnvSets(b) == b.env # <<>> /\ b.env \in DOMAIN Env /\ Env[b.env] # ""
FlagSets(b) == b.flag # <<>> /\ b.flag \in DOMAIN flags

LEMMA SaidByEnvIs ==
    ASSUME input \in Inputs, NEW b
    PROVE  SaidByEnv(b) = IF EnvSets(b) THEN <<parseScalar(b.field, Env[b.env])>> ELSE <<>>
<1>. DEFINE naming == {i \in DOMAIN input.environ : input.environ[i].key = b.env
                                                  /\ input.environ[i].value # <<>>}
            text == input.environ[LastIn(naming)].value[1]
<1>1. IsList(input.environ)
  BY InputsAssumption
<1>2. /\ b.env \in DOMAIN Env <=> naming # {}
      /\ naming # {} => Env[b.env] = text
  <2>1. naming = Giving(input.environ, b.env)
    BY DEF Giving
  <2>. HIDE DEF naming
  <2>. QED  BY <1>1, <2>1, EnvSays DEF Env
<1>3. SaidByEnv(b) = IF b.env = <<>> \/ naming = {} THEN <<>>
                     ELSE IF text = "" THEN <<>> ELSE <<parseScalar(b.field, text)>>
  BY DEF SaidByEnv
<1>. HIDE DEF naming, text
<1>. QED  BY <1>2, <1>3 DEF EnvSets

LEMMA SaidByFlagIs ==
    ASSUME input \in Inputs, flags = GivenFlags(bindings, input.args),
           bindings = Walk(input.schema, "Config"),
           \A i \in DOMAIN input.args : ~ArgFails(bindings, input.args[i]), NEW b \in bindings
    PROVE  SaidByFlag(b) = IF FlagSets(b) THEN <<parseScalar(b.field, flags[b.flag])>> ELSE <<>>
<1>. DEFINE naming == {i \in DOMAIN input.args : input.args[i].name = b.flag}
            last == input.args[LastIn(naming)]
            text == IF last.value = <<>> THEN "true" ELSE last.value[1]
<1>1. IsList(input.args) /\ FlagsApart(bindings)
  BY InputsAssumption
<1>2. /\ b.flag \in DOMAIN flags <=> naming # {}
      /\ naming # {} => flags[b.flag] =
                TextOf(CHOOSE f \in Registered(bindings, b.flag) : TRUE, last)[1]
  BY <1>1, FlagSays
<1>3. SaidByFlag(b) = IF b.flag = <<>> \/ naming = {} THEN <<>> ELSE <<parseScalar(b.field, text)>>
  BY DEF SaidByFlag
<1>4. ASSUME b.flag # <<>>, naming # {} PROVE flags[b.flag] = text
  <2>1. Registered(bindings, b.flag) = {b.field}
    BY <1>1, <1>4 DEF Registered, FlagsApart
  <2>2. (CHOOSE f \in Registered(bindings, b.flag) : TRUE) = b.field
    BY <2>1
  <2>3. LastIn(naming) \in naming
    <3>1. Len(input.args) \in Nat /\ DOMAIN input.args = 1..Len(input.args)
      BY <1>1, LenProperties DEF IsList
    <3>2. naming \in SUBSET (1..Len(input.args))
      BY <3>1
    <3>. HIDE DEF naming
    <3>. QED  BY <1>4, <3>1, <3>2, LastInIs
  <2>4. last.name = b.flag /\ ~ArgFails(bindings, last)
    BY <2>3
  <2>. HIDE DEF last, naming
  <2>5. TextOf(b.field, last) # <<>>
    BY <2>1, <2>4 DEF ArgFails
  <2>6. TextOf(b.field, last)[1] = text
    BY <2>5 DEF TextOf
  <2>. HIDE DEF text
  <2>. QED  BY <1>2, <1>4, <2>2, <2>6
<1>. HIDE DEF naming, text, last
<1>. QED  BY <1>2, <1>3, <1>4 DEF FlagSets

\* The first of four that speak.
LEMMA FirstSpeaks ==
    ASSUME NEW s1, NEW s2, NEW s3, NEW s4, NEW v,
           s1 = <<>> \/ s1 = <<v>>,
           s1 = <<>> => s2 = <<>> \/ s2 = <<v>>,
           s1 = <<>> /\ s2 = <<>> => s3 = <<>> \/ s3 = <<v>>,
           s1 = <<>> /\ s2 = <<>> /\ s3 = <<>> => s4 = <<>> \/ s4 = <<v>>
    PROVE  LET said == <<s1, s2, s3, s4>>
               speaking == {i \in 1 .. 4 : said[i] # <<>>}
           IN  /\ speaking = {} <=> s1 = <<>> /\ s2 = <<>> /\ s3 = <<>> /\ s4 = <<>>
               /\ \A i \in speaking : (\A j \in speaking : i <= j) => said[i] = <<v>>
<1>. DEFINE said == <<s1, s2, s3, s4>>
            speaking == {i \in 1 .. 4 : said[i] # <<>>}
<1>1. said[1] = s1 /\ said[2] = s2 /\ said[3] = s3 /\ said[4] = s4
  OBVIOUS
<1>2. 1 .. 4 = {1, 2, 3, 4}
  OBVIOUS
<1>. HIDE DEF said
<1>3. speaking = {} <=> s1 = <<>> /\ s2 = <<>> /\ s3 = <<>> /\ s4 = <<>>
  BY <1>1, <1>2
<1>4. ASSUME NEW i \in speaking, \A j \in speaking : i <= j PROVE said[i] = <<v>>
  <2>1. \A j \in 1 .. 4 : j < i => said[j] = <<>>
    BY <1>4
  <2>2. said[i] # <<>> /\ i \in {1, 2, 3, 4}
    BY <1>2
  <2>. QED  BY <1>1, <2>1, <2>2
<1>. QED  BY <1>3, <1>4 DEF said

LEMMA LayersSpeak ==
    ASSUME input \in Inputs, LayersInv, LayersDone
    PROVE  HighestLayerWins
<1>. DEFINE schema == input.schema
<1>1. /\ bindings = Walk(schema, "Config") /\ flags = GivenFlags(bindings, input.args)
      /\ ~Refused /\ Environed # <<>> /\ Flagged = <<cfg>>
  BY DEF LayersInv, LayersDone
<1>2. NamesApart(schema) /\ "Config" \in DOMAIN schema
  BY InputsAssumption DEF NamesApart
<1>3. \A i \in DOMAIN input.args : ~ArgFails(bindings, input.args[i])
  BY <1>1 DEF Refused
<1>. SUFFICES ASSUME NEW b \in bindings
              PROVE  LET speaking == {i \in 1 .. 4 : Said(b)[i] # <<>>}
                     IN  /\ Has(cfg, b.path) <=> speaking # {}
                         /\ \A i \in speaking :
                                (\A j \in speaking : i <= j) => Said(b)[i] = <<<<cfg[b.path]>>>>
  BY DEF HighestLayerWins
<1>4. At(Filed, b.path) = IF b.path \in DOMAIN TheFile.root THEN At(TheFile.root, b.path) ELSE b.default
  <2>1. At(ApplyDefaults(NoFields, bindings), b.path) = b.default
    BY <1>1, <1>2, DefaultsAt
  <2>. QED  BY <2>1, MergeAt DEF Filed
<1>5. /\ EnvSets(b) => /\ At(Environed[1], b.path) = parseScalar(b.field, Env[b.env])
                       /\ parseScalar(b.field, Env[b.env]) # <<>>
      /\ ~EnvSets(b) => At(Environed[1], b.path) = At(Filed, b.path)
  <2>. DEFINE set == {x \in bindings : x.env # <<>> /\ x.env \in DOMAIN Env /\ Env[x.env] # ""}
              raw == [x \in set |-> Env[x.env]]
  <2>1. Environed = ApplyTexts(Filed, raw)
    BY DEF Environed, ApplyEnv
  <2>2. DOMAIN raw \subseteq Walk(schema, "Config") /\ (b \in DOMAIN raw <=> EnvSets(b))
    BY <1>1 DEF EnvSets
  <2>3. b \in DOMAIN raw => raw[b] = Env[b.env]
    OBVIOUS
  <2>. HIDE DEF raw
  <2>4. /\ b \in DOMAIN raw => At(Environed[1], b.path) = parseScalar(b.field, raw[b])
        /\ b \notin DOMAIN raw => At(Environed[1], b.path) = At(Filed, b.path)
    BY <1>1, <1>2, <2>1, <2>2, TextsAt
  <2>5. \A x \in DOMAIN raw : parseScalar(x.field, raw[x]) # <<>>
    BY <1>1, <2>1 DEF ApplyTexts
  <2>. QED  BY <2>2, <2>3, <2>4, <2>5
<1>6. /\ FlagSets(b) => /\ At(cfg, b.path) = parseScalar(b.field, flags[b.flag])
                        /\ parseScalar(b.field, flags[b.flag]) # <<>>
      /\ ~FlagSets(b) => At(cfg, b.path) = At(Environed[1], b.path)
  <2>. DEFINE given == {x \in bindings : x.flag # <<>> /\ x.flag \in DOMAIN flags}
              raw == [x \in given |-> flags[x.flag]]
  <2>1. Flagged = ApplyTexts(Environed[1], raw)
    BY DEF Flagged, ApplyFlags
  <2>2. DOMAIN raw \subseteq Walk(schema, "Config") /\ (b \in DOMAIN raw <=> FlagSets(b))
    BY <1>1 DEF FlagSets
  <2>3. b \in DOMAIN raw => raw[b] = flags[b.flag]
    OBVIOUS
  <2>. HIDE DEF raw
  <2>4. /\ b \in DOMAIN raw => At(Flagged[1], b.path) = parseScalar(b.field, raw[b])
        /\ b \notin DOMAIN raw => At(Flagged[1], b.path) = At(Environed[1], b.path)
    BY <1>1, <1>2, <2>1, <2>2, TextsAt
  <2>5. Flagged[1] = cfg /\ Flagged # <<>>
    BY <1>1
  <2>6. \A x \in DOMAIN raw : parseScalar(x.field, raw[x]) # <<>>
    BY <2>1, <2>5 DEF ApplyTexts
  <2>. QED  BY <2>2, <2>3, <2>4, <2>5, <2>6
<1>7. SaidByFlag(b) = IF FlagSets(b) THEN <<parseScalar(b.field, flags[b.flag])>> ELSE <<>>
  BY <1>1, <1>3, SaidByFlagIs
<1>8. SaidByEnv(b) = IF EnvSets(b) THEN <<parseScalar(b.field, Env[b.env])>> ELSE <<>>
  BY SaidByEnvIs
<1>. DEFINE v == At(cfg, b.path)
<1>9. SaidByFlag(b) = IF FlagSets(b) THEN <<v>> ELSE <<>>
  BY <1>6, <1>7
<1>10. ~FlagSets(b) => SaidByEnv(b) = IF EnvSets(b) THEN <<v>> ELSE <<>>
  BY <1>5, <1>6, <1>8
<1>11. ~FlagSets(b) /\ ~EnvSets(b) =>
          SaidByFile(b) = IF b.path \in DOMAIN TheFile.root THEN <<v>> ELSE <<>>
  BY <1>4, <1>5, <1>6 DEF SaidByFile, Has, At
<1>12. ~FlagSets(b) /\ ~EnvSets(b) /\ b.path \notin DOMAIN TheFile.root =>
          v = b.default /\ SaidByDefault(b) = IF b.default = <<>> THEN <<>> ELSE <<v>>
  BY <1>4, <1>5, <1>6 DEF SaidByDefault
<1>13. \/ FlagSets(b) \/ EnvSets(b) \/ b.path \in DOMAIN TheFile.root => v # <<>>
  BY <1>4, <1>5, <1>6 DEF At
<1>14. v = <<>> <=> b.path \notin DOMAIN cfg
  BY DEF At
<1>15. b.path \in DOMAIN cfg => v = <<cfg[b.path]>>
  BY DEF At
<1>. HIDE DEF v
<1>16. <<v>> # <<>>
  OBVIOUS
<1>. DEFINE speaking == {i \in 1 .. 4 : Said(b)[i] # <<>>}
<1>17. /\ speaking = {} <=> /\ SaidByFlag(b) = <<>> /\ SaidByEnv(b) = <<>>
                            /\ SaidByFile(b) = <<>> /\ SaidByDefault(b) = <<>>
       /\ \A i \in speaking : (\A j \in speaking : i <= j) => Said(b)[i] = <<v>>
  <2>1. /\ SaidByFlag(b) = <<>> \/ SaidByFlag(b) = <<v>>
        /\ SaidByFlag(b) = <<>> => SaidByEnv(b) = <<>> \/ SaidByEnv(b) = <<v>>
        /\ SaidByFlag(b) = <<>> /\ SaidByEnv(b) = <<>> =>
                SaidByFile(b) = <<>> \/ SaidByFile(b) = <<v>>
        /\ SaidByFlag(b) = <<>> /\ SaidByEnv(b) = <<>> /\ SaidByFile(b) = <<>> =>
                SaidByDefault(b) = <<>> \/ SaidByDefault(b) = <<v>>
    BY <1>9, <1>10, <1>11, <1>12, <1>16
  <2>. QED  BY <2>1, FirstSpeaks DEF Said
<1>18. v = <<>> <=> /\ SaidByFlag(b) = <<>> /\ SaidByEnv(b) = <<>>
                    /\ SaidByFile(b) = <<>> /\ SaidByDefault(b) = <<>>
  BY <1>9, <1>10, <1>11, <1>12, <1>13, <1>16
<1>19. Has(cfg, b.path) <=> speaking # {}
  <2>. HIDE DEF speaking
  <2>. QED  BY <1>14, <1>17, <1>18 DEF Has
<1>20. ASSUME NEW i \in speaking, \A j \in speaking : i <= j
       PROVE  Said(b)[i] = <<<<cfg[b.path]>>>>
  <2>1. Said(b)[i] = <<v>> /\ speaking # {}
    BY <1>17, <1>20
  <2>. HIDE DEF speaking
  <2>. QED  BY <1>15, <1>19, <2>1 DEF Has
<1>. QED  BY <1>19, <1>20

LEMMA ResolveRefused ==
    ASSUME Refused
    PROVE  Resolve(input.schema, input.args, input.environ, input.files, defaultConfigPath) = <<>>
BY Zenon DEF Resolve, Refused

LEMMA ResolveIs ==
    ASSUME bindings = Walk(input.schema, "Config"), flags = GivenFlags(bindings, input.args)
    PROVE  Resolve(input.schema, input.args, input.environ, input.files, defaultConfigPath) =
                IF Refused \/ TheFile.state # "text" \/ Environed = <<>> \/ Flagged = <<>> THEN <<>>
                ELSE <<[root |-> Flagged[1], projects |-> TheFile.projects]>>
<1>. DEFINE flagPath == IF ConfigPathFlag \in DOMAIN flags THEN flags[ConfigPathFlag] ELSE ""
            envPath == IF ConfigPathEnv \in DOMAIN Env THEN Env[ConfigPathEnv] ELSE ""
            path == IF flagPath # "" THEN flagPath ELSE IF envPath # "" THEN envPath ELSE defaultConfigPath
            file == IF path # "" /\ path \in DOMAIN input.files THEN input.files[path] ELSE NoFile
<1>1. path = ConfigPath(flags, Env)
  BY DEF ConfigPath
<1>2. file = TheFile
  BY <1>1, Zenon DEF TheFile, Exists
<1>3. Resolve(input.schema, input.args, input.environ, input.files, defaultConfigPath) =
        LET filed == Merge(ApplyDefaults(NoFields, bindings), file.root)
            environed == ApplyEnv(filed, bindings, Env)
            flagged == ApplyFlags(environed[1], bindings, flags)
        IN  IF \/ WalkFails(input.schema, "Config")
               \/ \E i \in DOMAIN input.args : ArgFails(bindings, input.args[i])
               \/ file.state # "text" \/ environed = <<>> \/ flagged = <<>>
            THEN <<>> ELSE <<[root |-> flagged[1], projects |-> file.projects]>>
  BY Zenon DEF Resolve, Env
<1>. HIDE DEF file, path, flagPath, envPath
<1>. QED  BY <1>2, <1>3, Zenon DEF Filed, Environed, Flagged, Refused

-----------------------------------------------------------------------------
(***************************************************************************)
(* The block a call is judged by.                                          *)
(***************************************************************************)

\* The properties of the judge, as they depend on the state.
NearestJudge(schema, ps, root, j) ==
    LET outranks(i, k) ==
            LET sp(n) == projectSpecificity(ps[n], root)
            IN  sp(i) > sp(k) \/ (sp(i) = sp(k) /\ i > k)
        nearest == {i \in Judging(ps, root) : /\ \A k \in Judging(ps, root) \ {i} : outranks(i, k)
                                              /\ Enabled(ps[i].classifier[1])}
    IN  j = IF nearest = {} THEN <<>>
            ELSE <<FillDefaults(schema, "LlmClassifierConfig",
                                ps[CHOOSE i \in nearest : TRUE].classifier[1])>>

MeantBy(schema, m, used) ==
    \A c \in Chains(schema, "LlmClassifierConfig") :
        LET path == PathOf(c)
            unsaid == ~Has(m, path) \/ (Last(c).kind = "enum" /\ m[path] = Num(0))
            default == IF Last(c).opts = <<>> THEN <<>> ELSE parseDefault(Last(c))
        IN  IF unsaid /\ default # <<>> /\ InPlace(m, path)
            THEN Has(used, path) /\ used[path] = default[1]
            ELSE Has(used, path) = Has(m, path) /\ (Has(m, path) => used[path] = m[path])

RulesKept(schema, m, ps) ==
    /\ Valid(schema, "Config", m)
    /\ \A i \in DOMAIN ps : /\ ps[i].path_patterns # {}
                            /\ \A block \in Range(ps[i].classifier) :
                                    Valid(schema, "LlmClassifierConfig", block)

LEMMA JudgeIs ==
    /\ NearestBlockJudges <=> (stage \in {"judging", "done"} =>
                                NearestJudge(input.schema, projects, input.project_root, judge))
    /\ SettingsAsMeant <=> (stage = "done" /\ judge # <<>> =>
            /\ \E i \in Judging(projects, input.project_root) :
                    MeantBy(input.schema, projects[i].classifier[1], judge[1])
            /\ built = <<ConfigFromProto(judge[1]) @@ ProviderConfig(judge[1])>>)
    /\ ConfigValid(cfg, projects) <=> RulesKept(input.schema, cfg, projects)
<1>1. NearestBlockJudges <=> (stage \in {"judging", "done"} =>
                                NearestJudge(input.schema, projects, input.project_root, judge))
  BY Zenon DEF NearestBlockJudges, NearestJudge, Outranks, Candidates, Filled
<1>2. SettingsAsMeant <=> (stage = "done" /\ judge # <<>> =>
            /\ \E i \in Judging(projects, input.project_root) :
                    MeantBy(input.schema, projects[i].classifier[1], judge[1])
            /\ built = <<ConfigFromProto(judge[1]) @@ ProviderConfig(judge[1])>>)
  BY Zenon DEF SettingsAsMeant, MeantBy, Meant, Candidates
<1>3. ConfigValid(cfg, projects) <=> RulesKept(input.schema, cfg, projects)
  BY Zenon DEF ConfigValid, RulesKept
<1>. QED  BY <1>1, <1>2, <1>3

LEMMA JudgeIsNext ==
    /\ NearestBlockJudges' <=> (stage' \in {"judging", "done"} =>
                                NearestJudge(input'.schema, projects', input'.project_root, judge'))
    /\ SettingsAsMeant' <=> (stage' = "done" /\ judge' # <<>> =>
            /\ \E i \in Judging(projects', input'.project_root) :
                    MeantBy(input'.schema, projects'[i].classifier[1], judge'[1])
            /\ built' = <<ConfigFromProto(judge'[1]) @@ ProviderConfig(judge'[1])>>)
    /\ ConfigValid(cfg, projects)' <=> RulesKept(input'.schema, cfg', projects')
<1>1. NearestBlockJudges' <=> (stage' \in {"judging", "done"} =>
                                NearestJudge(input'.schema, projects', input'.project_root, judge'))
  BY Zenon DEF NearestBlockJudges, NearestJudge, Outranks, Candidates, Filled
<1>2. SettingsAsMeant' <=> (stage' = "done" /\ judge' # <<>> =>
            /\ \E i \in Judging(projects', input'.project_root) :
                    MeantBy(input'.schema, projects'[i].classifier[1], judge'[1])
            /\ built' = <<ConfigFromProto(judge'[1]) @@ ProviderConfig(judge'[1])>>)
  BY Zenon DEF SettingsAsMeant, MeantBy, Meant, Candidates
<1>3. ConfigValid(cfg, projects)' <=> RulesKept(input'.schema, cfg', projects')
  BY Zenon DEF ConfigValid, RulesKept
<1>. QED  BY <1>1, <1>2, <1>3

\* The projects of a file are lists of projects whose patterns have a length.
LEMMA FileProjects ==
    ASSUME input \in Inputs, projects = TheFile.projects
    PROVE  /\ IsList(projects)
           /\ \A i \in DOMAIN projects :
                /\ IsList(projects[i].classifier)
                /\ projectSpecificity(projects[i], input.project_root) \in Nat
<1>1. CASE TheFile = NoFile
  <2>1. projects = <<>>
    BY <1>1 DEF NoFile
  <2>2. IsList(<<>>) /\ DOMAIN <<>> = {}
    BY DEF IsList
  <2>. QED  BY <2>1, <2>2
<1>2. CASE TheFile # NoFile
  <2>1. PICK path \in DOMAIN input.files : TheFile = input.files[path]
    BY <1>2 DEF TheFile, Exists
  <2>2. /\ IsList(projects)
        /\ \A project \in Range(projects) :
            /\ IsFiniteSet(project.path_patterns) /\ IsList(project.classifier)
            /\ \A p \in project.path_patterns : Bytes(ExpandTilde(p)) \in Nat
    BY <2>1, InputsAssumption
  <2>3. ASSUME NEW i \in DOMAIN projects
        PROVE  /\ IsList(projects[i].classifier)
               /\ projectSpecificity(projects[i], input.project_root) \in Nat
    <3>1. projects[i] \in Range(projects)
      BY DEF Range
    <3>2. /\ IsFiniteSet(projects[i].path_patterns) /\ IsList(projects[i].classifier)
          /\ \A p \in projects[i].path_patterns : Bytes(ExpandTilde(p)) \in Nat
      BY <2>2, <3>1
    <3>. QED  BY <3>2, SpecificityIsNat
  <2>. QED  BY <2>2, <2>3
<1>. QED  BY <1>1, <1>2

\* The block that is matched judges when it is enabled, and nobody otherwise.
LEMMA MatchedJudges ==
    ASSUME NEW schema, NEW ps, NEW root, IsList(ps),
           \A i \in DOMAIN ps : projectSpecificity(ps[i], root) \in Nat
    PROVE  LET matched == MatchingLlmClassifier(ps, root)
           IN  NearestJudge(schema, ps, root,
                    IF matched # <<>> /\ Enabled(matched[1])
                    THEN <<FillDefaults(schema, "LlmClassifierConfig", matched[1])>> ELSE <<>>)
<1>. DEFINE J == Judging(ps, root)
            sp(n) == projectSpecificity(ps[n], root)
            matched == MatchingLlmClassifier(ps, root)
            outranks(i, k) == sp(i) > sp(k) \/ (sp(i) = sp(k) /\ i > k)
            On(i) == Enabled(ps[i].classifier[1])
            nearest == {i \in J : (\A k \in J \ {i} : outranks(i, k)) /\ On(i)}
            j == IF matched # <<>> /\ Enabled(matched[1])
                 THEN <<FillDefaults(schema, "LlmClassifierConfig", matched[1])>> ELSE <<>>
            chosen == CHOOSE i \in nearest : TRUE
            Judged == j = IF nearest = {} THEN <<>>
                          ELSE <<FillDefaults(schema, "LlmClassifierConfig", ps[chosen].classifier[1])>>
<1>. SUFFICES Judged
  BY Zenon DEF NearestJudge
<1>1. /\ \A i \in J : i \in DOMAIN ps /\ ps[i].classifier # <<>> /\ sp(i) \in Nat
      /\ Len(ps) \in Nat /\ DOMAIN ps = 1..Len(ps)
  BY LenProperties DEF Judging, IsList
<1>2. \/ J = {} /\ matched = <<>>
      \/ \E k \in J : matched = ps[k].classifier /\ \A i \in J \ {k} : outranks(k, i)
  BY MatchedIsNearest
<1>3. CASE J = {} /\ matched = <<>>
  <2>. HIDE DEF J, matched
  <2>. QED  BY <1>3
<1>4. CASE \E k \in J : matched = ps[k].classifier /\ \A i \in J \ {k} : outranks(k, i)
  <2>1. PICK k \in J : matched = ps[k].classifier /\ \A i \in J \ {k} : outranks(k, i)
    BY <1>4
  <2>2. matched # <<>> /\ (Enabled(matched[1]) <=> On(k))
    BY <1>1, <2>1
  <2>3. ASSUME NEW i \in nearest PROVE i = k
    <3>. SUFFICES ASSUME i # k PROVE FALSE
      OBVIOUS
    <3>. HIDE DEF J, sp, On
    <3>1. outranks(k, i) /\ outranks(i, k)
      BY <2>1
    <3>2. i \in Int /\ k \in Int /\ sp(i) \in Nat /\ sp(k) \in Nat
      BY <1>1, <2>1
    <3>. QED  BY <3>1, <3>2
  <2>4. CASE On(k)
    <3>1. nearest = {k}
      <4>. HIDE DEF J, outranks, On
      <4>. QED  BY <2>1, <2>3, <2>4
    <3>2. nearest # {} /\ chosen = k
      BY <3>1
    <3>. HIDE DEF nearest, chosen
    <3>3. j = <<FillDefaults(schema, "LlmClassifierConfig", ps[k].classifier[1])>>
      BY <2>1, <2>2, <2>4
    <3>. HIDE DEF j
    <3>. QED  BY <3>2, <3>3
  <2>5. CASE ~On(k)
    <3>1. nearest = {}
      BY <2>3, <2>5
    <3>2. j = <<>>
      BY <2>2, <2>5
    <3>. HIDE DEF nearest, j
    <3>. QED  BY <3>1, <3>2
  <2>. QED  BY <2>4, <2>5
<1>. QED  BY <1>2, <1>3, <1>4, Zenon

\* A filled message means what it was filled from.
LEMMA FilledMeans ==
    ASSUME NEW schema, NamesApart(schema), ~WalkFails(schema, "LlmClassifierConfig"), NEW m
    PROVE  MeantBy(schema, m, FillDefaults(schema, "LlmClassifierConfig", m))
<1>. DEFINE md == "LlmClassifierConfig"
            F == FillDefaults(schema, md, m)
<1>0. md \in DOMAIN schema
  BY DEF NamesApart
<1>. SUFFICES ASSUME NEW c \in Chains(schema, md)
              PROVE  LET path == PathOf(c)
                         unsaid == ~Has(m, path) \/ (Last(c).kind = "enum" /\ m[path] = Num(0))
                         default == IF Last(c).opts = <<>> THEN <<>> ELSE parseDefault(Last(c))
                     IN  IF unsaid /\ default # <<>> /\ InPlace(m, path)
                         THEN Has(F, path) /\ F[path] = default[1]
                         ELSE Has(F, path) = Has(m, path) /\ (Has(m, path) => F[path] = m[path])
  BY Zenon DEF MeantBy
<1>. DEFINE path == PathOf(c)
            due == /\ Last(c).opts # <<>> /\ parseDefault(Last(c)) # <<>>
                   /\ InPlace(m, path)
                   /\ \/ ~Has(m, path)
                      \/ Last(c).kind = "enum" /\ m[path] = Num(0)
<1>1. At(F, path) = IF due THEN parseDefault(Last(c)) ELSE At(m, path)
  BY <1>0, FilledAt
<1>2. CASE due
  <2>1. At(F, path) = parseDefault(Last(c)) /\ parseDefault(Last(c)) # <<>>
    BY <1>1, <1>2
  <2>. HIDE DEF F
  <2>2. Has(F, path) /\ F[path] = parseDefault(Last(c))[1]
    BY <2>1 DEF At, Has
  <2>. QED  BY <1>2, <2>2
<1>3. CASE ~due
  <2>1. At(F, path) = At(m, path)
    BY <1>1, <1>3, Zenon
  <2>. HIDE DEF F
  <2>2. (Has(F, path) <=> Has(m, path)) /\ (Has(m, path) => F[path] = m[path])
    BY <2>1 DEF At, Has
  <2>3. Has(F, path) = Has(m, path)
    BY <2>2 DEF Has
  <2>. QED  BY <1>3, <2>2, <2>3
<1>. QED  BY <1>2, <1>3

-----------------------------------------------------------------------------
(***************************************************************************)
(* The invariant, one action after the other.                              *)
(***************************************************************************)

\* Where main stands before a tool call is judged.
Starting == {"start", "walked", "parsed", "seeded", "filed", "environed", "flagged"}

\* The rules of the judge say nothing before there is one.
LEMMA NoJudgeYet ==
    ASSUME stage' \in Starting \cup {"failed"}, judge' = <<>>, built' = <<>>
    PROVE  JudgeInv'
BY JudgeIsNext DEF JudgeInv, Starting

LEMMA SameRefused == ASSUME input' = input PROVE Refused' <=> Refused
BY DEF Refused

\* What is read and what the layers make of it changes with what they read.
LEMMA SameFile ==
    ASSUME input' = input, flags' = flags
    PROVE  TheFile' = TheFile /\ Env' = Env
<1>1. Env' = Env
  BY DEF Env
<1>2. ConfigPath(flags', Env') = ConfigPath(flags, Env)
  BY <1>1
<1>. QED  BY <1>1, <1>2 DEF TheFile, Exists

LEMMA SameLayers ==
    ASSUME input' = input, flags' = flags, bindings' = bindings
    PROVE  TheFile' = TheFile /\ Filed' = Filed /\ Environed' = Environed /\ Flagged' = Flagged
<1>1. TheFile' = TheFile /\ Env' = Env
  BY SameFile
<1>2. Filed' = Filed
  BY <1>1 DEF Filed
<1>3. Environed' = Environed
  BY <1>1, <1>2 DEF Environed
<1>4. Flagged' = Flagged
  BY <1>3 DEF Flagged
<1>. QED  BY <1>1, <1>2, <1>3, <1>4

LEMMA InitInv == Init => ConfigInv
<1>. SUFFICES ASSUME Init PROVE ConfigInv
  OBVIOUS
<1>1. LayersInv
  BY DEF Init, LayersInv, LayersDone
<1>2. FailedInv
  BY DEF Init, FailedInv
<1>3. JudgeInv
  BY JudgeIs DEF Init, JudgeInv
<1>. QED  BY <1>1, <1>2, <1>3 DEF Init, ConfigInv

LEMMA WalkSchemaKeeps == ASSUME ConfigInv, WalkSchema PROVE ConfigInv'
<1>1. input' = input /\ input' \in Inputs /\ stage = "start" /\ stage' \in {"walked", "failed"}
  BY DEF ConfigInv, WalkSchema
<1>2. LayersInv'
  BY <1>1 DEF ConfigInv, WalkSchema, LayersInv, LayersDone
<1>3. FailedInv'
  BY <1>1, SameRefused DEF WalkSchema, FailedInv, Refused
<1>4. judge' = <<>> /\ built' = <<>>
  BY <1>1 DEF ConfigInv, WalkSchema, JudgeInv
<1>5. JudgeInv'
  BY <1>1, <1>4, NoJudgeYet DEF Starting
<1>. QED  BY <1>1, <1>2, <1>3, <1>5 DEF ConfigInv

LEMMA ParseArgsKeeps == ASSUME ConfigInv, ParseArgs PROVE ConfigInv'
<1>1. /\ input' = input /\ input' \in Inputs /\ stage = "walked" /\ stage' \in {"parsed", "failed"}
      /\ bindings' = bindings /\ cfg' = cfg /\ projects' = projects
      /\ bindings = Walk(input.schema, "Config") /\ ~WalkFails(input.schema, "Config")
      /\ cfg = NoFields /\ projects = <<>>
  BY DEF ConfigInv, ParseArgs, LayersInv
<1>2. CASE stage' = "parsed"
  <2>1. flags' = GivenFlags(bindings, input.args) /\ ~Refused
    BY <1>1, <1>2 DEF ParseArgs, Refused
  <2>2. LayersInv'
    BY <1>1, <1>2, <2>1, SameRefused DEF LayersInv, LayersDone
  <2>3. FailedInv'
    BY <1>2 DEF FailedInv
  <2>. QED  BY <1>1, <1>2, <2>2, <2>3, NoJudgeYet DEF ConfigInv, JudgeInv, ParseArgs, Starting
<1>3. CASE stage' = "failed"
  <2>1. Refused
    BY <1>1, <1>3 DEF ParseArgs, Refused
  <2>2. LayersInv'
    BY <1>1, <1>3 DEF LayersInv, LayersDone
  <2>3. FailedInv'
    BY <1>1, <2>1, SameRefused DEF FailedInv
  <2>. QED  BY <1>1, <1>3, <2>2, <2>3, NoJudgeYet DEF ConfigInv, JudgeInv, ParseArgs, Starting
<1>. QED  BY <1>1, <1>2, <1>3

\* Once the arguments are parsed, the later stages start from these.
Parsed ==
    /\ bindings = Walk(input.schema, "Config") /\ ~WalkFails(input.schema, "Config")
    /\ flags = GivenFlags(bindings, input.args) /\ ~Refused

LEMMA ParsedStays ==
    ASSUME Parsed, input' = input, bindings' = bindings, flags' = flags
    PROVE  /\ bindings' = Walk(input.schema, "Config")' /\ ~WalkFails(input.schema, "Config")'
           /\ flags' = GivenFlags(bindings, input.args)' /\ ~Refused'
BY SameRefused DEF Parsed

LEMMA SeedDefaultsKeeps == ASSUME ConfigInv, SeedDefaults PROVE ConfigInv'
<1>1. /\ input' = input /\ input' \in Inputs /\ stage = "parsed" /\ stage' = "seeded"
      /\ bindings' = bindings /\ flags' = flags /\ projects' = projects
      /\ cfg = NoFields /\ cfg' = ApplyDefaults(NoFields, bindings) /\ projects = <<>> /\ Parsed
  BY DEF ConfigInv, SeedDefaults, LayersInv, Parsed
<1>2. LayersInv'
  BY <1>1, ParsedStays DEF LayersInv, LayersDone
<1>3. FailedInv'
  BY <1>1 DEF FailedInv
<1>. QED  BY <1>1, <1>2, <1>3, NoJudgeYet DEF ConfigInv, JudgeInv, SeedDefaults, Starting

LEMMA ReadConfigKeeps == ASSUME ConfigInv, ReadConfig PROVE ConfigInv'
<1>1. /\ input' = input /\ input' \in Inputs /\ stage = "seeded" /\ stage' \in {"filed", "failed"}
      /\ bindings' = bindings /\ flags' = flags
      /\ cfg = ApplyDefaults(NoFields, bindings) /\ projects = <<>> /\ Parsed
  BY DEF ConfigInv, ReadConfig, LayersInv, Parsed
<1>. DEFINE path == ConfigPath(flags, Env)
<1>2. CASE stage' = "filed"
  <2>1. /\ TheFile.state = "text" /\ projects' = TheFile.projects
        /\ cfg' = Merge(cfg, TheFile.root)
    <3>1. CASE ~Exists(path)
      <4>1. TheFile = NoFile /\ cfg' = cfg /\ projects' = <<>>
        BY <1>1, <1>2, <3>1 DEF TheFile, ReadConfig
      <4>2. cfg = [p \in DOMAIN cfg |-> cfg[p]]
        <5>1. PICK m, other : cfg = Merge(m, other)
          BY <1>1 DEF ApplyDefaults, setByPath
        <5>. QED  BY <5>1 DEF Merge
      <4>3. Merge(cfg, NoFields) = [p \in DOMAIN cfg |-> cfg[p]]
        BY DEF Merge, NoFields
      <4>. QED  BY <4>1, <4>2, <4>3 DEF NoFile
    <3>2. CASE Exists(path)
      <4>1. /\ TheFile = input.files[path] /\ TheFile.state = "text"
            /\ cfg' = Merge(cfg, TheFile.root) /\ projects' = <<>> \o TheFile.projects
        BY <1>1, <1>2, <3>2 DEF TheFile, ReadConfig
      <4>2. IsList(TheFile.projects)
        BY <1>1, <3>2, <4>1, InputsAssumption DEF Exists
      <4>3. <<>> \o TheFile.projects = TheFile.projects
        BY <4>2, ConcatEmptySeq DEF IsList
      <4>. QED  BY <4>1, <4>3
    <3>. QED  BY <3>1, <3>2
  <2>2. cfg' = Filed
    BY <1>1, <2>1 DEF Filed
  <2>3. LayersInv'
    BY <1>1, <1>2, <2>1, <2>2, ParsedStays, SameLayers DEF LayersInv, LayersDone
  <2>4. FailedInv'
    BY <1>2 DEF FailedInv
  <2>. QED  BY <1>1, <1>2, <2>3, <2>4, NoJudgeYet DEF ConfigInv, JudgeInv, ReadConfig, Starting
<1>3. CASE stage' = "failed"
  <2>1. TheFile.state # "text"
    BY <1>3 DEF ReadConfig, TheFile
  <2>2. LayersInv'
    BY <1>3 DEF LayersInv, LayersDone
  <2>3. FailedInv'
    BY <1>1, <2>1, ParsedStays, SameLayers DEF FailedInv
  <2>. QED  BY <1>1, <1>3, <2>2, <2>3, NoJudgeYet DEF ConfigInv, JudgeInv, ReadConfig, Starting
<1>. QED  BY <1>1, <1>2, <1>3

LEMMA ReadEnvKeeps == ASSUME ConfigInv, ReadEnv PROVE ConfigInv'
<1>1. /\ input' = input /\ input' \in Inputs /\ stage = "filed"
      /\ bindings' = bindings /\ flags' = flags /\ projects' = projects
      /\ cfg = Filed /\ TheFile.state = "text" /\ projects = TheFile.projects /\ Parsed
  BY DEF ConfigInv, ReadEnv, LayersInv, Parsed
<1>2. ApplyEnv(cfg, bindings, Env) = Environed
  BY <1>1 DEF Environed
<1>3. CASE Environed = <<>>
  <2>1. stage' = "failed"
    BY <1>2, <1>3 DEF ReadEnv, Layered
  <2>2. LayersInv'
    BY <2>1 DEF LayersInv, LayersDone
  <2>3. FailedInv'
    BY <1>1, <1>3, ParsedStays, SameLayers DEF FailedInv
  <2>. QED  BY <1>1, <2>1, <2>2, <2>3, NoJudgeYet DEF ConfigInv, JudgeInv, ReadEnv, Starting
<1>4. CASE Environed # <<>>
  <2>1. stage' = "environed" /\ Environed = <<cfg'>>
    BY <1>2, <1>4 DEF ReadEnv, Layered, Environed, ApplyEnv, ApplyTexts
  <2>2. LayersInv'
    BY <1>1, <2>1, ParsedStays, SameLayers DEF LayersInv, LayersDone
  <2>3. FailedInv'
    BY <2>1 DEF FailedInv
  <2>. QED  BY <1>1, <2>1, <2>2, <2>3, NoJudgeYet DEF ConfigInv, JudgeInv, ReadEnv, Starting
<1>. QED  BY <1>3, <1>4

LEMMA ReadFlagsKeeps == ASSUME ConfigInv, ReadFlags PROVE ConfigInv'
<1>1. /\ input' = input /\ input' \in Inputs /\ stage = "environed"
      /\ bindings' = bindings /\ flags' = flags /\ projects' = projects
      /\ Environed = <<cfg>> /\ TheFile.state = "text" /\ projects = TheFile.projects /\ Parsed
  BY DEF ConfigInv, ReadFlags, LayersInv, Parsed
<1>2. ApplyFlags(cfg, bindings, flags) = Flagged /\ Environed # <<>>
  BY <1>1 DEF Flagged
<1>3. CASE Flagged = <<>>
  <2>1. stage' = "failed"
    BY <1>2, <1>3 DEF ReadFlags, Layered
  <2>2. LayersInv'
    BY <2>1 DEF LayersInv, LayersDone
  <2>3. FailedInv'
    BY <1>1, <1>3, ParsedStays, SameLayers DEF FailedInv
  <2>. QED  BY <1>1, <2>1, <2>2, <2>3, NoJudgeYet DEF ConfigInv, JudgeInv, ReadFlags, Starting
<1>4. CASE Flagged # <<>>
  <2>1. stage' = "flagged" /\ Flagged = <<cfg'>>
    BY <1>2, <1>4 DEF ReadFlags, Layered, Flagged, ApplyFlags, ApplyTexts
  <2>2. LayersInv'
    BY <1>1, <1>2, <2>1, ParsedStays, SameLayers DEF LayersInv, LayersDone
  <2>3. FailedInv'
    BY <2>1 DEF FailedInv
  <2>. QED  BY <1>1, <2>1, <2>2, <2>3, NoJudgeYet DEF ConfigInv, JudgeInv, ReadFlags, Starting
<1>. QED  BY <1>3, <1>4

\* From the last layer on, the message and the projects stay.
Settled ==
    /\ Parsed /\ TheFile.state = "text" /\ projects = TheFile.projects
    /\ Environed # <<>> /\ Flagged = <<cfg>>

LEMMA SettledStays ==
    ASSUME Settled, input' = input, bindings' = bindings, flags' = flags, cfg' = cfg,
           projects' = projects, stage' \in {"ready", "judging", "done"}
    PROVE  LayersInv' /\ FailedInv'
<1>1. LayersInv'
  BY ParsedStays, SameLayers DEF Settled, LayersInv, LayersDone
<1>2. FailedInv'
  BY DEF FailedInv
<1>. QED  BY <1>1, <1>2

LEMMA ValidateKeeps == ASSUME ConfigInv, Validate PROVE ConfigInv'
<1>1. /\ input' = input /\ input' \in Inputs /\ stage = "flagged" /\ stage' \in {"ready", "failed"}
      /\ bindings' = bindings /\ flags' = flags /\ projects' = projects /\ cfg' = cfg
      /\ judge' = <<>> /\ built' = <<>> /\ Settled
  BY DEF ConfigInv, Validate, LayersInv, LayersDone, JudgeInv, Settled, Parsed
<1>2. ConfigValid(cfg, projects)' <=> ConfigValid(cfg, projects)
  BY <1>1, JudgeIs, JudgeIsNext
<1>3. CASE stage' = "ready"
  <2>1. ConfigValid(cfg, projects)
    BY <1>3 DEF Validate
  <2>2. JudgeInv'
    BY <1>1, <1>2, <1>3, <2>1, JudgeIsNext DEF JudgeInv
  <2>. QED  BY <1>1, <1>3, <2>2, SettledStays DEF ConfigInv
<1>4. CASE stage' = "failed"
  <2>1. ~ConfigValid(cfg, projects)
    BY <1>4 DEF Validate
  <2>2. LayersInv'
    BY <1>4 DEF LayersInv, LayersDone
  <2>3. FailedInv'
    BY <1>1, <1>2, <2>1, ParsedStays, SameLayers DEF FailedInv, Settled
  <2>. QED  BY <1>1, <1>4, <2>2, <2>3, NoJudgeYet DEF ConfigInv, Starting
<1>. QED  BY <1>1, <1>3, <1>4

LEMMA MatchProjectKeeps == ASSUME ConfigInv, MatchProject PROVE ConfigInv'
<1>. DEFINE matched == MatchingLlmClassifier(projects, input.project_root)
            On == matched # <<>> /\ Enabled(matched[1])
<1>1. /\ input' = input /\ input' \in Inputs /\ stage = "ready" /\ stage' \in {"judging", "done"}
      /\ bindings' = bindings /\ flags' = flags /\ projects' = projects /\ cfg' = cfg
      /\ judge = <<>> /\ built' = <<>> /\ ConfigValid(cfg, projects) /\ Settled
  BY DEF ConfigInv, MatchProject, LayersInv, LayersDone, JudgeInv, Settled, Parsed
<1>2. \/ On /\ stage' = "judging"
         /\ judge' = <<FillDefaults(input.schema, "LlmClassifierConfig", matched[1])>>
      \/ ~On /\ stage' = "done" /\ judge' = <<>>
  BY <1>1 DEF MatchProject, Filled
<1>3. /\ IsList(projects)
      /\ \A i \in DOMAIN projects : projectSpecificity(projects[i], input.project_root) \in Nat
  BY <1>1, FileProjects DEF ConfigInv, Settled
<1>4. NearestJudge(input.schema, projects, input.project_root,
          IF On THEN <<FillDefaults(input.schema, "LlmClassifierConfig", matched[1])>> ELSE <<>>)
  BY <1>3, MatchedJudges
<1>. HIDE DEF matched, On
<1>5. NearestJudge(input.schema, projects, input.project_root, judge')
  BY <1>2, <1>4
<1>6. ConfigValid(cfg, projects)'
  BY <1>1, JudgeIs, JudgeIsNext
<1>7. JudgeInv'
  <2>1. NearestBlockJudges'
    BY <1>1, <1>5, JudgeIsNext
  <2>2. SettingsAsMeant'
    BY <1>2, JudgeIsNext
  <2>3. stage' = "judging" => judge' # <<>>
    BY <1>2
  <2>. QED  BY <1>1, <1>2, <1>6, <2>1, <2>2, <2>3 DEF JudgeInv
<1>. QED  BY <1>1, <1>7, SettledStays DEF ConfigInv

\* The defaults of a block are bindings that keep to the rules of their
\* fields, and every block has a provider.
LEMMA BlockSchema ==
    ASSUME input \in Inputs
    PROVE  LET md == "LlmClassifierConfig"
           IN  /\ NamesApart(input.schema) /\ md \in DOMAIN input.schema
               /\ ~WalkFails(input.schema, md)
               /\ \A b \in Walk(input.schema, md) :
                    b.default # <<>> => \A rule \in b.field.rules : Meets(rule, b.default[1])
               /\ \E f \in input.schema[md] : f.name = "bedrock" /\ "required" \in f.rules
BY InputsAssumption DEF NamesApart, DefaultsKeepRules

LEMMA ValidHasProvider ==
    ASSUME NEW schema, NamesApart(schema), NEW md \in DOMAIN schema,
           \E f \in schema[md] : f.name = "bedrock" /\ "required" \in f.rules,
           NEW m, Valid(schema, md, m)
    PROVE  Has(m, <<"bedrock">>)
<1>1. PICK f \in schema[md] : f.name = "bedrock" /\ "required" \in f.rules
  OBVIOUS
<1>2. <<f>> \in Chains(schema, md)
  BY ChainsLead DEF Starts
<1>3. Last(<<f>>) = f /\ PathOf(<<f>>) = <<"bedrock">>
  BY <1>1 DEF Last, PathOf
<1>4. InPlace(m, <<"bedrock">>)
  <2>1. Above(<<"bedrock">>) = {}
    BY DEF Above
  <2>. QED  BY <2>1 DEF InPlace
<1>. QED  BY <1>1, <1>2, <1>3, <1>4 DEF Valid

LEMMA BuildProviderKeeps == ASSUME ConfigInv, BuildProvider PROVE ConfigInv'
<1>. DEFINE md == "LlmClassifierConfig"
            root == input.project_root
<1>1. /\ input' = input /\ input \in Inputs /\ stage = "judging" /\ stage' = "done"
      /\ bindings' = bindings /\ flags' = flags /\ projects' = projects /\ cfg' = cfg
      /\ judge # <<>> /\ ConfigValid(cfg, projects) /\ Settled
      /\ NearestJudge(input.schema, projects, root, judge)
  BY JudgeIs DEF ConfigInv, BuildProvider, LayersInv, LayersDone, JudgeInv, Settled, Parsed
<1>2. PICK i \in Judging(projects, root) :
          judge = <<FillDefaults(input.schema, md, projects[i].classifier[1])>>
  <2>. DEFINE nearest == {i \in Judging(projects, root) :
                  /\ \A k \in Judging(projects, root) \ {i} :
                        LET sp(n) == projectSpecificity(projects[n], root)
                        IN  sp(i) > sp(k) \/ (sp(i) = sp(k) /\ i > k)
                  /\ Enabled(projects[i].classifier[1])}
  <2>1. judge = IF nearest = {} THEN <<>>
                ELSE <<FillDefaults(input.schema, md,
                                    projects[CHOOSE i \in nearest : TRUE].classifier[1])>>
    BY <1>1, Zenon DEF NearestJudge
  <2>2. nearest \subseteq Judging(projects, root)
    OBVIOUS
  <2>. HIDE DEF nearest
  <2>3. nearest # {}
    BY <1>1, <2>1
  <2>. DEFINE k == CHOOSE i \in nearest : TRUE
  <2>4. k \in nearest
    BY <2>3
  <2>5. judge = <<FillDefaults(input.schema, md, projects[k].classifier[1])>>
    BY <2>1, <2>3
  <2>. HIDE DEF k
  <2>. QED  BY <2>2, <2>4, <2>5
<1>. DEFINE written == projects[i].classifier[1]
            filled == FillDefaults(input.schema, md, written)
<1>3. Valid(input.schema, md, written)
  <2>1. i \in DOMAIN projects /\ projects[i].classifier # <<>>
    BY DEF Judging
  <2>2. IsList(projects[i].classifier)
    BY <1>1, <2>1, FileProjects DEF Settled
  <2>3. written \in Range(projects[i].classifier)
    <3>1. 1 \in DOMAIN projects[i].classifier
      BY <2>1, <2>2, LenProperties, EmptySeq DEF IsList
    <3>. QED  BY <3>1 DEF Range
  <2>. QED  BY <1>1, <2>1, <2>3 DEF ConfigValid
<1>4. /\ NamesApart(input.schema) /\ md \in DOMAIN input.schema
      /\ ~WalkFails(input.schema, md)
      /\ \A b \in Walk(input.schema, md) :
            b.default # <<>> => \A rule \in b.field.rules : Meets(rule, b.default[1])
      /\ \E f \in input.schema[md] : f.name = "bedrock" /\ "required" \in f.rules
  BY <1>1, BlockSchema
<1>. HIDE DEF written
<1>5. Valid(input.schema, md, filled)
  BY <1>3, <1>4, FilledValid
<1>6. Has(filled, <<"bedrock">>)
  BY <1>4, <1>5, ValidHasProvider
<1>7. FillDefaults(input.schema, md, filled) = filled
  BY <1>4, FilledAgain
<1>8. judge = <<filled>> /\ judge[1] = filled
  BY <1>2 DEF written
<1>9. MeantBy(input.schema, written, filled)
  BY <1>4, FilledMeans
<1>. HIDE DEF filled
<1>10. Filled(judge[1]) = filled
  BY <1>7, <1>8 DEF Filled
<1>11. /\ judge' = <<filled>>
       /\ built' = <<ConfigFromProto(filled) @@ ProviderConfig(filled)>>
  BY <1>5, <1>6, <1>8, <1>10 DEF BuildProvider
<1>12. JudgeInv'
  <2>1. ConfigValid(cfg, projects)'
    BY <1>1, JudgeIs, JudgeIsNext
  <2>2. NearestBlockJudges'
    BY <1>1, <1>8, <1>11, JudgeIsNext
  <2>3. SettingsAsMeant'
    <3>1. judge'[1] = filled
      BY <1>11
    <3>2. MeantBy(input'.schema, projects'[i].classifier[1], judge'[1])
      BY <1>1, <1>9, <3>1 DEF written
    <3>. QED  BY <1>1, <1>11, <3>1, <3>2, JudgeIsNext
  <2>. QED  BY <1>1, <2>1, <2>2, <2>3 DEF JudgeInv
<1>. QED  BY <1>1, <1>12, SettledStays DEF ConfigInv

LEMMA EndedKeeps == ASSUME ConfigInv, UNCHANGED vars PROVE ConfigInv'
<1>1. /\ input' = input /\ bindings' = bindings /\ flags' = flags /\ projects' = projects
      /\ cfg' = cfg /\ stage' = stage /\ judge' = judge /\ built' = built
  BY DEF vars
<1>2. /\ TheFile' = TheFile /\ Filed' = Filed /\ Environed' = Environed /\ Flagged' = Flagged
      /\ (Refused' <=> Refused)
  BY <1>1, SameLayers, SameRefused
<1>3. /\ ConfigValid(cfg, projects)' <=> ConfigValid(cfg, projects)
      /\ NearestBlockJudges' <=> NearestBlockJudges
      /\ SettingsAsMeant' <=> SettingsAsMeant
  BY <1>1, JudgeIs, JudgeIsNext
<1>4. LayersInv'
  BY <1>1, <1>2 DEF ConfigInv, LayersInv, LayersDone
<1>5. FailedInv'
  BY <1>1, <1>2, <1>3 DEF ConfigInv, FailedInv
<1>6. JudgeInv'
  BY <1>1, <1>3 DEF ConfigInv, JudgeInv
<1>. QED  BY <1>1, <1>4, <1>5, <1>6 DEF ConfigInv

\* The bindings, the flags, the message and the judge of a process are what
\* its input makes of them, at every stage of main.go, loader.Resolve's hand
\* copy, and the two rounds of defaults a classifier block goes through.
THEOREM ConfigInvCorrect == Spec => []ConfigInv
<1>1. ConfigInv /\ [Next]_vars => ConfigInv'
  <2>. SUFFICES ASSUME ConfigInv, [Next]_vars PROVE ConfigInv'
    OBVIOUS
  <2>1. CASE WalkSchema
    BY <2>1, WalkSchemaKeeps
  <2>2. CASE ParseArgs
    BY <2>2, ParseArgsKeeps
  <2>3. CASE SeedDefaults
    BY <2>3, SeedDefaultsKeeps
  <2>4. CASE ReadConfig
    BY <2>4, ReadConfigKeeps
  <2>5. CASE ReadEnv
    BY <2>5, ReadEnvKeeps
  <2>6. CASE ReadFlags
    BY <2>6, ReadFlagsKeeps
  <2>7. CASE Validate
    BY <2>7, ValidateKeeps
  <2>8. CASE MatchProject
    BY <2>8, MatchProjectKeeps
  <2>9. CASE BuildProvider
    BY <2>9, BuildProviderKeeps
  <2>10. CASE Ended \/ UNCHANGED vars
    BY <2>10, EndedKeeps DEF Ended
  <2>. QED  BY <2>1, <2>2, <2>3, <2>4, <2>5, <2>6, <2>7, <2>8, <2>9, <2>10 DEF Next
<1>. QED  BY InitInv, <1>1, PTL DEF Spec

\* loader.go's promise: a bound field ends with what the highest of schema
\* default, file, environment and flags said of it.
THEOREM LayersPrecede == Spec => []HighestLayerWins
<1>1. ConfigInv => HighestLayerWins
  <2>. SUFFICES ASSUME ConfigInv PROVE HighestLayerWins
    OBVIOUS
  <2>1. CASE LayersDone
    BY <2>1, LayersSpeak DEF ConfigInv
  <2>2. CASE ~LayersDone
    BY <2>2 DEF HighestLayerWins
  <2>. QED  BY <2>1, <2>2
<1>. QED  BY <1>1, ConfigInvCorrect, PTL

\* main.go's copy of the pipeline and loader.Resolve end with the same message
\* and stop on the same inputs.
THEOREM MainIsResolve == Spec => []MainAgreesWithResolve
<1>1. ConfigInv => MainAgreesWithResolve
  <2>. SUFFICES ASSUME ConfigInv PROVE MainAgreesWithResolve
    OBVIOUS
  <2>. DEFINE resolved == Resolve(input.schema, input.args, input.environ, input.files, defaultConfigPath)
  <2>1. ASSUME LayersDone PROVE resolved = <<[root |-> cfg, projects |-> projects]>>
    <3>1. /\ bindings = Walk(input.schema, "Config") /\ flags = GivenFlags(bindings, input.args)
          /\ ~Refused /\ TheFile.state = "text" /\ projects = TheFile.projects
          /\ Environed # <<>> /\ Flagged = <<cfg>>
      BY <2>1 DEF ConfigInv, LayersInv, LayersDone
    <3>2. Flagged # <<>> /\ Flagged[1] = cfg
      BY <3>1
    <3>. QED  BY <3>1, <3>2, ResolveIs
  <2>2. ASSUME stage = "failed", resolved # <<>>
        PROVE  ~ConfigValid(resolved[1].root, resolved[1].projects)
    <3>1. ~Refused
      BY <2>2, ResolveRefused
    <3>2. /\ bindings = Walk(input.schema, "Config") /\ flags = GivenFlags(bindings, input.args)
          /\ \/ TheFile.state # "text" \/ Environed = <<>> \/ Flagged = <<>>
             \/ /\ Flagged = <<cfg>> /\ projects = TheFile.projects
                /\ ~ConfigValid(cfg, projects)
      BY <2>2, <3>1 DEF ConfigInv, FailedInv
    <3>3. resolved = IF Refused \/ TheFile.state # "text" \/ Environed = <<>> \/ Flagged = <<>> THEN <<>>
                     ELSE <<[root |-> Flagged[1], projects |-> TheFile.projects]>>
      BY <3>2, ResolveIs
    <3>. HIDE DEF resolved
    <3>4. /\ resolved = <<[root |-> Flagged[1], projects |-> TheFile.projects]>>
          /\ Flagged = <<cfg>> /\ projects = TheFile.projects /\ ~ConfigValid(cfg, projects)
      BY <2>2, <3>2, <3>3
    <3>5. resolved[1].root = cfg /\ resolved[1].projects = projects
      BY <3>4
    <3>. QED  BY <3>4, <3>5
  <2>. QED  BY <2>1, <2>2 DEF MainAgreesWithResolve
<1>. QED  BY <1>1, ConfigInvCorrect, PTL

\* config.go's promise: a call is judged by the block of the most specific
\* matching project, whatever the number of projects and patterns.
THEOREM NearestJudges == Spec => []NearestBlockJudges
<1>1. ConfigInv => NearestBlockJudges
  BY DEF ConfigInv, JudgeInv
<1>. QED  BY <1>1, ConfigInvCorrect, PTL

\* After both rounds of FillDefaults the judge works with what its block
\* means, and its provider is built from that block.
THEOREM MeantIsUsed == Spec => []SettingsAsMeant
<1>1. ConfigInv => SettingsAsMeant
  BY DEF ConfigInv, JudgeInv
<1>. QED  BY <1>1, ConfigInvCorrect, PTL
=============================================================================
