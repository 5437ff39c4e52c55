-------------------------- MODULE DeviceQueriesProofs --------------------------
(***************************************************************************)
(* The properties of DeviceQueries hold for any controls, tables, numbers  *)
(* and ranges.                                                             *)
(***************************************************************************)
EXTENDS DeviceQueries, TLAPS, FiniteSetTheorems, SequenceTheorems,
        WellFoundedInduction

-------------------------------------------------------------------------------
(* Induction, over the members of a set of naturals.                       *)

\* Every nonempty set of naturals has a least element: the sets 0 .. x, ordered
\* by inclusion, are well-founded.
LEMMA LeastElement ==
  ASSUME NEW T \in SUBSET Nat, T # {}
  PROVE  \E x \in T : \A y \in T : x <= y
<1> DEFINE U == {0 .. x : x \in T}
<1>1. U \subseteq FiniteSubsetsOf(Nat)
  <2>1. \A x \in T : IsFiniteSet(0 .. x) /\ 0 .. x \subseteq Nat
    BY FS_Interval
  <2> QED BY <2>1 DEF FiniteSubsetsOf
<1>2. U # {}
  OBVIOUS
<1> HIDE DEF U
<1>3. PICK u \in U : \A v \in U : <<v, u>> \notin StrictSubsetOrdering(Nat)
  BY <1>1, <1>2, WFMin, FS_StrictSubsetOrderingWellFounded
<1> USE DEF U
<1>4. PICK x \in T : u = 0 .. x
  OBVIOUS
<1>5. ASSUME NEW y \in T, y < x PROVE FALSE
  <2>1. 0 .. y \subseteq Nat /\ 0 .. x \subseteq Nat /\ 0 .. y \subseteq 0 .. x
    BY <1>5
  <2>2. x \in 0 .. x /\ x \notin 0 .. y
    BY <1>5
  <2>3. <<0 .. y, 0 .. x>> \in StrictSubsetOrdering(Nat)
    BY <2>1, <2>2 DEF StrictSubsetOrdering
  <2> QED BY <2>3, <1>3, <1>4
<1> QED BY <1>5, <1>4

LEMMA Induction ==
  ASSUME NEW P \in SUBSET Nat, 0 \in P, \A n \in P : n + 1 \in P
  PROVE  P = Nat
<1> SUFFICES ASSUME Nat \ P # {} PROVE FALSE
  OBVIOUS
<1>1. PICK x \in Nat \ P : \A y \in Nat \ P : x <= y
  BY LeastElement
<1>2. x - 1 \in P
  BY <1>1
<1> QED BY <1>1, <1>2

-------------------------------------------------------------------------------
(* Lists of lists, one behind the other.                                   *)

\* f[i] is the first i lists of ss, one behind the other.
Joins(ss, n, f) ==
  \A i \in 1 .. n : f[i] = IF i = 1 THEN ss[i] ELSE f[i - 1] \o ss[i]

Joinable(U, ss, n) == \E f \in [1 .. n -> Seq(U)] : Joins(ss, n, f)

LEMMA JoinOne ==
  ASSUME NEW U, NEW ss \in Seq(Seq(U)), NEW n \in Nat, n + 1 <= Len(ss), Joinable(U, ss, n)
  PROVE  Joinable(U, ss, n + 1)
<1>1. Len(ss) \in Nat /\ \A i \in 1 .. Len(ss) : ss[i] \in Seq(U)
  BY LenProperties, ElementOfSeq
<1>2. PICK f \in [1 .. n -> Seq(U)] : Joins(ss, n, f)
  BY DEF Joinable
<1> DEFINE s == IF n = 0 THEN ss[1] ELSE f[n] \o ss[n + 1]
           g == [i \in 1 .. n + 1 |-> IF i = n + 1 THEN s ELSE f[i]]
<1>3. s \in Seq(U)
  BY <1>1, ConcatProperties
<1> HIDE DEF s
<1>4. g \in [1 .. n + 1 -> Seq(U)] /\ g[n + 1] = s /\ \A i \in 1 .. n : g[i] = f[i]
  BY <1>3
<1> HIDE DEF g
<1>5. ASSUME NEW i \in 1 .. n + 1
      PROVE  g[i] = IF i = 1 THEN ss[i] ELSE g[i - 1] \o ss[i]
  <2>1. CASE i = n + 1
    BY <1>4, <2>1 DEF s
  <2>2. CASE i \in 1 .. n
    <3>1. g[i] = f[i] /\ (i # 1 => i - 1 \in 1 .. n /\ g[i - 1] = f[i - 1])
      BY <1>4, <2>2
    <3> QED BY <1>2, <2>2, <3>1 DEF Joins
  <2> QED BY <2>1, <2>2
<1> QED BY <1>4, <1>5 DEF Joinable, Joins

LEMMA JoinAll ==
  ASSUME NEW U, NEW ss \in Seq(Seq(U))
  PROVE  Joinable(U, ss, Len(ss))
<1> DEFINE P == {n \in Nat : n <= Len(ss) => Joinable(U, ss, n)}
<1>1. Len(ss) \in Nat
  BY LenProperties
<1>2. 0 \in P
  <2>1. [i \in 1 .. 0 |-> ss] \in [1 .. 0 -> Seq(U)]
    OBVIOUS
  <2>2. Joins(ss, 0, [i \in 1 .. 0 |-> ss])
    BY DEF Joins
  <2>3. Joinable(U, ss, 0)
    BY <2>1, <2>2 DEF Joinable
  <2> QED BY <2>3
<1>3. ASSUME NEW n \in P PROVE n + 1 \in P
  BY <1>1, JoinOne
<1>4. P = Nat
  <2> HIDE DEF P
  <2>1. P \in SUBSET Nat
    BY DEF P
  <2> QED BY <1>2, <1>3, <2>1, Induction
<1>5. Len(ss) \in P
  BY <1>1, <1>4
<1> QED BY <1>1, <1>5

\* Two functions that join the same lists are the same, as far as they do.
LEMMA JoinsUnique ==
  ASSUME NEW ss, NEW tt, NEW f, NEW g, NEW m \in Nat, Joins(ss, m, f), Joins(tt, m, g),
         \A i \in 1 .. m : ss[i] = tt[i]
  PROVE  \A i \in 1 .. m : f[i] = g[i]
<1> DEFINE P == {n \in Nat : n + 1 <= m => f[n + 1] = g[n + 1]}
<1>1. 0 \in P
  <2>1. 1 <= m => f[1] = ss[1] /\ g[1] = tt[1] /\ ss[1] = tt[1]
    BY DEF Joins
  <2> QED BY <2>1
<1>2. ASSUME NEW n \in P PROVE n + 1 \in P
  <2> SUFFICES ASSUME n + 1 + 1 <= m PROVE f[n + 1 + 1] = g[n + 1 + 1]
    OBVIOUS
  <2>1. f[n + 1] = g[n + 1]
    OBVIOUS
  <2>2. n + 2 \in 1 .. m /\ n + 2 # 1 /\ (n + 2) - 1 = n + 1 /\ n + 1 + 1 = n + 2
    OBVIOUS
  <2>3. f[n + 2] = f[n + 1] \o ss[n + 2] /\ g[n + 2] = g[n + 1] \o tt[n + 2]
    BY <2>2 DEF Joins
  <2> QED BY <2>1, <2>2, <2>3
<1>3. P = Nat
  <2> HIDE DEF P
  <2>1. P \in SUBSET Nat
    BY DEF P
  <2> QED BY <1>1, <1>2, <2>1, Induction
<1>4. ASSUME NEW i \in 1 .. m PROVE f[i] = g[i]
  <2>1. i - 1 \in P
    <3> HIDE DEF P
    <3> QED BY <1>3
  <2>2. (i - 1) + 1 = i /\ i <= m
    OBVIOUS
  <2> QED BY <2>1, <2>2
<1> QED BY <1>4

\* FlattenSeq is the last of the joined lists.
LEMMA FlattenJoins ==
  ASSUME NEW U, NEW ss \in Seq(Seq(U)), ss # << >>
  PROVE  \E f \in [1 .. Len(ss) -> Seq(U)] :
           Joins(ss, Len(ss), f) /\ FlattenSeq(ss) = f[Len(ss)]
<1> DEFINE Equation(f) ==
             f = [i \in 1 .. Len(ss) |-> IF i = 1 THEN ss[i] ELSE f[i - 1] \o ss[i]]
           g == CHOOSE f : Equation(f)
<1>1. Len(ss) \in Nat \ {0}
  BY EmptySeq
<1>2. FlattenSeq(ss) = g[Len(ss)]
  BY <1>1 DEF FlattenSeq
<1>3. PICK f \in [1 .. Len(ss) -> Seq(U)] : Joins(ss, Len(ss), f)
  BY JoinAll DEF Joinable
<1>4. Equation(f)
  BY <1>3 DEF Joins
<1>5. Equation(g)
  BY <1>4
<1> HIDE DEF g
<1>6. Joins(ss, Len(ss), g)
  BY <1>5 DEF Joins
<1>7. \A i \in 1 .. Len(ss) : f[i] = g[i]
  BY <1>1, <1>3, <1>6, JoinsUnique
<1>8. f[Len(ss)] = g[Len(ss)]
  BY <1>1, <1>7
<1> QED BY <1>2, <1>3, <1>8

\* A list of lists that grows by one grows by its entries.
LEMMA FlattenAppend ==
  ASSUME NEW U, NEW ss \in Seq(Seq(U)), NEW s \in Seq(U)
  PROVE  /\ FlattenSeq(ss) \in Seq(U)
         /\ FlattenSeq(Append(ss, s)) = FlattenSeq(ss) \o s
<1> DEFINE tt == Append(ss, s)
<1>1. /\ tt \in Seq(Seq(U)) /\ tt # << >> /\ Len(tt) = Len(ss) + 1 /\ Len(ss) \in Nat
      /\ \A i \in 1 .. Len(ss) : tt[i] = ss[i]
      /\ tt[Len(ss) + 1] = s
  BY AppendProperties, LenProperties
<1> HIDE DEF tt
<1>2. PICK g \in [1 .. Len(tt) -> Seq(U)] :
        Joins(tt, Len(tt), g) /\ FlattenSeq(tt) = g[Len(tt)]
  BY <1>1, FlattenJoins
<1>3. CASE ss = << >>
  <2>1. Len(ss) = 0
    BY <1>3, EmptySeq
  <2>2. FlattenSeq(ss) = << >>
    BY <1>3, <2>1 DEF FlattenSeq
  <2>3. FlattenSeq(tt) = s
    BY <1>1, <1>2, <2>1 DEF Joins
  <2>4. << >> \in Seq(U) /\ << >> \o s = s
    BY EmptySeq, ConcatEmptySeq
  <2> QED BY <2>2, <2>3, <2>4 DEF tt
<1>4. CASE ss # << >>
  <2>1. PICK f \in [1 .. Len(ss) -> Seq(U)] :
          Joins(ss, Len(ss), f) /\ FlattenSeq(ss) = f[Len(ss)]
    BY <1>4, FlattenJoins
  <2>2. Len(ss) \in Nat \ {0}
    BY <1>4, EmptySeq
  <2>3. Joins(tt, Len(ss), g)
    <3>1. \A i \in 1 .. Len(ss) : i \in 1 .. Len(tt)
      BY <1>1
    <3> QED BY <1>2, <3>1 DEF Joins
  <2>4. f[Len(ss)] = g[Len(ss)]
    <3> DEFINE m == Len(ss)
    <3>2. m \in Nat /\ Joins(ss, m, f) /\ Joins(tt, m, g) /\ \A i \in 1 .. m : ss[i] = tt[i]
      BY <1>1, <2>1, <2>3
    <3> HIDE DEF m
    <3>1. \A i \in 1 .. m : f[i] = g[i]
      BY <3>2, JoinsUnique
    <3> USE DEF m
    <3> QED BY <2>2, <3>1
  <2>5. Len(tt) \in 1 .. Len(tt) /\ Len(tt) # 1 /\ Len(tt) - 1 = Len(ss)
    BY <1>1, <2>2
  <2>6. g[Len(tt)] = g[Len(ss)] \o tt[Len(tt)]
    BY <1>2, <2>5 DEF Joins
  <2>7. FlattenSeq(ss) \in Seq(U)
    <3>1. Len(ss) \in 1 .. Len(ss)
      BY <2>2
    <3>2. f[Len(ss)] \in Seq(U)
      BY <3>1
    <3> QED BY <2>1, <3>2
  <2>8. FlattenSeq(tt) = FlattenSeq(ss) \o s
    BY <1>1, <1>2, <2>1, <2>4, <2>6
  <2> QED BY <2>7, <2>8 DEF tt
<1> QED BY <1>3, <1>4

LEMMA Listing ==
  ASSUME NEW U, NEW n \in Nat, NEW f \in [1 .. n -> U]
  PROVE  f \in Seq(U) /\ Len(f) = n /\ DOMAIN f = 1 .. n
<1>1. f \in Seq(U)
  BY SeqDef
<1>2. DOMAIN f = 1 .. n /\ DOMAIN f = 1 .. Len(f) /\ Len(f) \in Nat
  BY <1>1, LenProperties
<1>3. Len(f) = n
  <2>1. \A k \in Nat : k \in 1 .. n <=> k \in 1 .. Len(f)
    BY <1>2
  <2> QED BY <1>2, <2>1
<1> QED BY <1>1, <1>2, <1>3

-------------------------------------------------------------------------------
(* What an enumeration finds.                                              *)

LEMMA ConvertedType ==
  ASSUME NEW entry \in Kinds
  PROVE  Converted(entry) \in Seq(Kinds)
<1>1. << "discrete" >> \in Seq(Kinds) /\ << "stepwise" >> \in Seq(Kinds)
      /\ << >> \in Seq(Kinds) /\ << entry >> \in Seq(Kinds)
  BY DEF Kinds
<1> QED BY <1>1 DEF Converted

\* Nothing in no entries; one entry more adds what it is converted to.
LEMMA FoundGrows ==
  ASSUME table \in Seq(Kinds)
  PROVE  /\ Found(0) = << >>
         /\ \A n \in Nat : n < Len(table) =>
              Found(n + 1) = Found(n) \o Converted(table[n + 1])
<1> DEFINE Prefix(n) == [k \in 1 .. n |-> Converted(table[k])]
<1>1. Len(table) \in Nat /\ \A k \in 1 .. Len(table) : table[k] \in Kinds
  BY LenProperties, ElementOfSeq
<1>2. ASSUME NEW n \in Nat, n <= Len(table)
      PROVE  Prefix(n) \in Seq(Seq(Kinds)) /\ Len(Prefix(n)) = n
             /\ \A k \in 1 .. n : Prefix(n)[k] = Converted(table[k])
  <2>1. Prefix(n) \in [1 .. n -> Seq(Kinds)]
    BY <1>1, <1>2, ConvertedType
  <2> QED BY <2>1, Listing
<1>3. Found(0) = << >>
  <2>1. Prefix(0) = << >>
    OBVIOUS
  <2>2. FlattenSeq(<< >>) = << >>
    BY Len(<< >>) = 0 DEF FlattenSeq
  <2> QED BY <2>1, <2>2 DEF Found
<1>4. ASSUME NEW n \in Nat, n < Len(table)
      PROVE  Found(n + 1) = Found(n) \o Converted(table[n + 1])
  <2> DEFINE s == Converted(table[n + 1])
  <2>1. s \in Seq(Kinds)
    BY <1>1, <1>4, ConvertedType
  <2>2. /\ Append(Prefix(n), s) \in Seq(Seq(Kinds))
        /\ Len(Append(Prefix(n), s)) = n + 1
        /\ \A k \in 1 .. n : Append(Prefix(n), s)[k] = Prefix(n)[k]
        /\ Append(Prefix(n), s)[n + 1] = s
    <3>1. Prefix(n) \in Seq(Seq(Kinds)) /\ Len(Prefix(n)) = n
      BY <1>2, <1>4
    <3> HIDE DEF Prefix, s
    <3> QED BY <2>1, <3>1, AppendProperties
  <2>3. Prefix(n + 1) = Append(Prefix(n), s)
    <3>1. \A k \in 1 .. n + 1 : Prefix(n + 1)[k] = Append(Prefix(n), s)[k]
      BY <2>2
    <3>2. Prefix(n + 1) \in Seq(Seq(Kinds)) /\ Len(Prefix(n + 1)) = n + 1
      BY <1>1, <1>2, <1>4
    <3> HIDE DEF Prefix, s
    <3> QED BY <2>2, <3>1, <3>2, SeqEqual
  <2>4. FlattenSeq(Append(Prefix(n), s)) = FlattenSeq(Prefix(n)) \o s
    <3>1. Prefix(n) \in Seq(Seq(Kinds))
      BY <1>2, <1>4
    <3> HIDE DEF Prefix, s
    <3> QED BY <2>1, <3>1, FlattenAppend
  <2> QED BY <2>3, <2>4 DEF Found
<1> QED BY <1>3, <1>4

-------------------------------------------------------------------------------
(* The frame sizes of a stepwise entry.                                    *)

LEMMA Quotient ==
  ASSUME NEW d \in Int, NEW s \in Nat \ {0}
  PROVE  d \div s \in Int /\ (d \div s) * s <= d /\ d < (d \div s) * s + s
BY Z3

LEMMA Multiples ==
  ASSUME NEW s \in Nat \ {0}, NEW a \in Int, NEW b \in Int
  PROVE  /\ a * s \in Int /\ (a + 1) * s = a * s + s
         /\ a < b => a * s + s <= b * s
         /\ a >= 0 => a <= a * s
BY Z3

\* The values that to_discrete walks through are those that it should, in order.
LEMMA StepByWalks ==
  ASSUME NEW r \in [min : Nat, max : Nat, step : Nat], r.step # 0
  PROVE  /\ StepBy(r) \in Seq(Nat)
         /\ Range(StepBy(r)) = Wanted(r)
         /\ Ascending(StepBy(r))
<1> DEFINE q == (r.max - r.min) \div r.step
           v(k) == r.min + (k - 1) * r.step
<1>1. r.min \in Nat /\ r.max \in Nat /\ r.step \in Nat \ {0}
  OBVIOUS
<1>2. q \in Int /\ q * r.step <= r.max - r.min /\ r.max - r.min < q * r.step + r.step
  BY <1>1, Quotient
<1>3. StepBy(r) = [k \in 1 .. q + 1 |-> v(k)]
  BY DEF StepBy
<1> HIDE DEF q
<1>4. ASSUME NEW k \in 1 .. q + 1
      PROVE  v(k) \in r.min .. r.max /\ k - 1 \in 0 .. v(k) - r.min
  <2>1. k - 1 \in Int /\ k - 1 >= 0 /\ (k - 1 < q \/ k - 1 = q)
    BY <1>2
  <2>2. (k - 1) * r.step \in Int /\ k - 1 <= (k - 1) * r.step
    BY <1>1, <2>1, Multiples
  <2>3. (k - 1) * r.step <= q * r.step
    <3>1. q * r.step \in Int /\ (k - 1 < q => (k - 1) * r.step + r.step <= q * r.step)
      BY <1>1, <1>2, <2>1, Multiples
    <3>2. CASE k - 1 < q
      BY <1>1, <2>2, <3>1, <3>2
    <3>3. CASE k - 1 = q
      BY <2>2, <3>1, <3>3
    <3> QED BY <2>1, <3>2, <3>3
  <2>4. q * r.step \in Int
    BY <1>1, <1>2, Multiples
  <2> QED BY <1>1, <1>2, <2>1, <2>2, <2>3, <2>4
<1>5. StepBy(r) \in Seq(Nat) /\ DOMAIN StepBy(r) = 1 .. q + 1
  <2>1. CASE q + 1 >= 0
    <3>1. StepBy(r) \in [1 .. q + 1 -> Nat]
      BY <1>1, <1>3, <1>4
    <3> QED BY <1>2, <1>3, <2>1, <3>1, SeqDef
  <2>2. CASE q + 1 < 0
    <3>1. 1 .. q + 1 = {}
      BY <1>2, <2>2
    <3> HIDE DEF v
    <3>2. StepBy(r) = << >>
      BY <1>3, <3>1
    <3>3. DOMAIN StepBy(r) = 1 .. q + 1
      BY <1>3
    <3>4. << >> \in Seq(Nat)
      BY EmptySeq
    <3> QED BY <3>2, <3>3, <3>4
  <2> QED BY <1>2, <2>1, <2>2
<1>6. \A k \in 1 .. q + 1 : StepBy(r)[k] = v(k)
  BY <1>3
<1>7. ASSUME NEW j \in 1 .. q + 1, NEW k \in 1 .. q + 1, j < k
      PROVE  v(j) < v(k)
  <2>1. j - 1 \in Int /\ k - 1 \in Int /\ j - 1 < k - 1
    BY <1>2, <1>7
  <2>2. /\ (j - 1) * r.step \in Int /\ (k - 1) * r.step \in Int
        /\ (j - 1) * r.step + r.step <= (k - 1) * r.step
    BY <1>1, <2>1, Multiples
  <2> QED BY <1>1, <2>2
<1>8. ASSUME NEW n \in Wanted(r)
      PROVE  \E k \in 1 .. q + 1 : n = v(k)
  <2>1. PICK k \in 0 .. n - r.min : n = r.min + k * r.step
    BY DEF Wanted
  <2>2. n \in r.min .. r.max
    BY DEF Wanted
  <2>3. k \in Nat /\ k * r.step \in Int /\ q * r.step \in Int
        /\ (q < k => q * r.step + r.step <= k * r.step)
    BY <1>1, <1>2, <2>1, <2>2, Multiples
  <2>4. k <= q
    BY <1>1, <1>2, <2>1, <2>2, <2>3
  <2>5. k + 1 \in 1 .. q + 1 /\ (k + 1) - 1 = k
    BY <1>2, <2>3, <2>4
  <2>6. v(k + 1) = n
    BY <2>1, <2>5
  <2> QED BY <2>5, <2>6
<1>9. ASSUME NEW k \in 1 .. q + 1
      PROVE  v(k) \in Wanted(r)
  <2>1. v(k) \in r.min .. r.max /\ k - 1 \in 0 .. v(k) - r.min /\ v(k) = r.min + (k - 1) * r.step
    BY <1>4, <1>9
  <2> HIDE DEF v
  <2> QED BY <2>1 DEF Wanted
<1>10. Range(StepBy(r)) = Wanted(r)
  <2> HIDE DEF v
  <2> QED BY <1>5, <1>6, <1>8, <1>9 DEF Range
<1>11. Ascending(StepBy(r))
  <2> HIDE DEF v
  <2> QED BY <1>5, <1>6, <1>7 DEF Ascending
<1> QED BY <1>5, <1>10, <1>11

\* The rows of the first n widths, and what they make up.
Row(w, hs) == [j \in DOMAIN hs |-> << w, hs[j] >>]

Rows(ws, hs, n) == [i \in 1 .. n |-> Row(ws[i], hs)]

Grid(ws, hs, n) == FlattenSeq(Rows(ws, hs, n))

Upto(s, n) == {s[i] : i \in 1 .. n}

Sizes == Nat \X Nat

Ordered(sizes) == \A i, j \in DOMAIN sizes : i < j => Before(sizes[i], sizes[j])

LEMMA RowProperties ==
  ASSUME NEW w \in Nat, NEW hs \in Seq(Nat), Ascending(hs)
  PROVE  /\ Row(w, hs) \in Seq(Sizes) /\ Len(Row(w, hs)) = Len(hs)
         /\ Range(Row(w, hs)) = {w} \X Range(hs)
         /\ Ordered(Row(w, hs))
<1>1. Len(hs) \in Nat /\ DOMAIN hs = 1 .. Len(hs) /\ \A j \in 1 .. Len(hs) : hs[j] \in Nat
  BY LenProperties, ElementOfSeq
<1>2. Row(w, hs) \in [1 .. Len(hs) -> Sizes]
  BY <1>1 DEF Row, Sizes
<1>3. Row(w, hs) \in Seq(Sizes) /\ Len(Row(w, hs)) = Len(hs)
      /\ DOMAIN Row(w, hs) = 1 .. Len(hs)
  BY <1>1, <1>2, Listing
<1>4. \A j \in 1 .. Len(hs) : Row(w, hs)[j] = << w, hs[j] >>
  BY <1>1 DEF Row
<1>5. Range(Row(w, hs)) = {w} \X Range(hs)
  <2>1. ASSUME NEW p \in Range(Row(w, hs)) PROVE p \in {w} \X Range(hs)
    <3>1. PICK j \in 1 .. Len(hs) : p = Row(w, hs)[j]
      BY <1>3 DEF Range
    <3>2. hs[j] \in Range(hs)
      BY <1>1 DEF Range
    <3>3. p = << w, hs[j] >>
      BY <1>4, <3>1
    <3> HIDE DEF Range
    <3> QED BY <3>2, <3>3
  <2>2. ASSUME NEW p \in {w} \X Range(hs) PROVE p \in Range(Row(w, hs))
    <3>1. PICK j \in 1 .. Len(hs) : p = << w, hs[j] >>
      BY <1>1 DEF Range
    <3> QED BY <1>3, <1>4, <3>1 DEF Range
  <2> QED BY <2>1, <2>2
<1>6. Ordered(Row(w, hs))
  BY <1>1, <1>3, <1>4 DEF Ordered, Before, Ascending
<1> QED BY <1>3, <1>5, <1>6

\* One row more.
LEMMA GridGrows ==
  ASSUME NEW ws \in Seq(Nat), NEW hs \in Seq(Nat), NEW n \in Nat, n < Len(ws),
         Ascending(ws), Ascending(hs),
         Grid(ws, hs, n) \in Seq(Sizes),
         Range(Grid(ws, hs, n)) = Upto(ws, n) \X Range(hs),
         Ordered(Grid(ws, hs, n))
  PROVE  /\ Grid(ws, hs, n + 1) \in Seq(Sizes)
         /\ Range(Grid(ws, hs, n + 1)) = Upto(ws, n + 1) \X Range(hs)
         /\ Ordered(Grid(ws, hs, n + 1))
<1> DEFINE row == Row(ws[n + 1], hs)
           g   == Grid(ws, hs, n)
<1>1. /\ Len(ws) \in Nat /\ DOMAIN ws = 1 .. Len(ws) /\ n + 1 \in 1 .. Len(ws)
      /\ \A i \in 1 .. Len(ws) : ws[i] \in Nat
  BY LenProperties, ElementOfSeq
<1>2. row \in Seq(Sizes) /\ Range(row) = {ws[n + 1]} \X Range(hs) /\ Ordered(row)
  BY <1>1, RowProperties
<1>3. Grid(ws, hs, n + 1) = g \o row
  <2>1. ASSUME NEW m \in Nat, m <= Len(ws)
        PROVE  Rows(ws, hs, m) \in Seq(Seq(Sizes)) /\ Len(Rows(ws, hs, m)) = m
               /\ \A i \in 1 .. m : Rows(ws, hs, m)[i] = Row(ws[i], hs)
    <3>1. \A i \in 1 .. m : Row(ws[i], hs) \in Seq(Sizes)
      BY <1>1, <2>1, RowProperties
    <3>2. Rows(ws, hs, m) \in [1 .. m -> Seq(Sizes)]
      BY <3>1 DEF Rows
    <3>3. \A i \in 1 .. m : Rows(ws, hs, m)[i] = Row(ws[i], hs)
      BY DEF Rows
    <3> QED BY <3>2, <3>3, Listing
  <2>2. Rows(ws, hs, n) \in Seq(Seq(Sizes)) /\ Len(Rows(ws, hs, n)) = n
        /\ \A i \in 1 .. n : Rows(ws, hs, n)[i] = Row(ws[i], hs)
    <3>1. n <= Len(ws)
      BY <1>1
    <3> QED BY <2>1, <3>1, Zenon
  <2>3. Rows(ws, hs, n + 1) \in Seq(Seq(Sizes)) /\ Len(Rows(ws, hs, n + 1)) = n + 1
        /\ \A i \in 1 .. n + 1 : Rows(ws, hs, n + 1)[i] = Row(ws[i], hs)
    <3>1. n + 1 \in Nat /\ n + 1 <= Len(ws)
      BY <1>1
    <3> QED BY <2>1, <3>1, Zenon
  <2> DEFINE rows == Rows(ws, hs, n)
             more == Append(rows, row)
  <2>4. rows \in Seq(Seq(Sizes)) /\ row \in Seq(Sizes)
    BY <1>2, <2>2
  <2> HIDE DEF row, rows
  <2>5. /\ more \in Seq(Seq(Sizes)) /\ Len(more) = Len(rows) + 1
        /\ \A i \in 1 .. Len(rows) : more[i] = rows[i]
        /\ more[Len(rows) + 1] = row
    BY <2>4, AppendProperties
  <2>6. FlattenSeq(more) = FlattenSeq(rows) \o row
    BY <2>4, FlattenAppend, Zenon
  <2>7. Rows(ws, hs, n + 1) = more
    <3>1. Len(rows) = n /\ \A i \in 1 .. n : rows[i] = Row(ws[i], hs)
      BY <2>2 DEF rows
    <3> HIDE DEF more
    <3>2. \A i \in 1 .. n + 1 : more[i] = Row(ws[i], hs)
      <4>1. \A i \in 1 .. n : more[i] = Row(ws[i], hs)
        BY <2>5, <3>1
      <4>2. more[n + 1] = Row(ws[n + 1], hs)
        BY <2>5, <3>1 DEF row
      <4>3. \A i \in 1 .. n + 1 : i \in 1 .. n \/ i = n + 1
        OBVIOUS
      <4> QED BY <4>1, <4>2, <4>3, Zenon
    <3>3. \A i \in 1 .. n + 1 : Rows(ws, hs, n + 1)[i] = more[i]
      BY <2>3, <3>2
    <3> QED BY <2>3, <2>5, <3>1, <3>3, SeqEqual
  <2> QED BY <2>6, <2>7 DEF Grid, rows
<1> HIDE DEF row, g
<1>4. g \in Seq(Sizes) /\ Range(g) = Upto(ws, n) \X Range(hs) /\ Ordered(g)
  BY DEF g
<1>5. g \o row \in Seq(Sizes) /\ Len(g \o row) = Len(g) + Len(row)
      /\ \A i \in 1 .. Len(g) + Len(row) :
           (g \o row)[i] = IF i <= Len(g) THEN g[i] ELSE row[i - Len(g)]
  <2>1. g \in Seq(Sizes) /\ row \in Seq(Sizes)
    BY <1>2, <1>4
  <2> QED BY <2>1, ConcatProperties, Zenon
<1>6. Range(g \o row) = Range(g) \cup Range(row)
  BY <1>2, <1>4, RangeConcatenation
<1>7. Upto(ws, n + 1) = Upto(ws, n) \cup {ws[n + 1]}
  <2>1. 1 .. n + 1 = 1 .. n \cup {n + 1}
    OBVIOUS
  <2> QED BY <2>1 DEF Upto
<1>8. Range(g \o row) = Upto(ws, n + 1) \X Range(hs)
  BY <1>2, <1>4, <1>6, <1>7
<1>9. Ordered(g \o row)
  <2>1. /\ Len(g) \in Nat /\ DOMAIN g = 1 .. Len(g)
        /\ Len(row) \in Nat /\ DOMAIN row = 1 .. Len(row)
        /\ DOMAIN (g \o row) = 1 .. Len(g) + Len(row)
    BY <1>2, <1>4, <1>5, LenProperties
  <2>2. \A i \in 1 .. Len(g) : g[i] \in Upto(ws, n) \X Range(hs)
    BY <1>4, <2>1 DEF Range
  <2>3. \A i \in 1 .. Len(row) : row[i] \in {ws[n + 1]} \X Range(hs)
    BY <1>2, <2>1 DEF Range
  <2>4. \A w \in Upto(ws, n) : w < ws[n + 1]
    <3>1. ASSUME NEW k \in 1 .. n PROVE ws[k] < ws[n + 1]
      <4>1. k \in DOMAIN ws /\ n + 1 \in DOMAIN ws /\ k < n + 1
        BY <1>1
      <4> QED BY <4>1, Zenon DEF Ascending
    <3> QED BY <3>1 DEF Upto
  <2>5. ASSUME NEW i \in 1 .. Len(g) + Len(row), NEW j \in 1 .. Len(g) + Len(row), i < j
        PROVE  Before((g \o row)[i], (g \o row)[j])
    <3>1. CASE j <= Len(g)
      <4>1. (g \o row)[i] = g[i] /\ (g \o row)[j] = g[j] /\ i \in DOMAIN g /\ j \in DOMAIN g
        BY <1>5, <2>1, <2>5, <3>1
      <4> QED BY <1>4, <2>5, <4>1 DEF Ordered
    <3>2. CASE i <= Len(g) /\ j > Len(g)
      <4>1. (g \o row)[i] = g[i] /\ (g \o row)[j] = row[j - Len(g)]
            /\ i \in 1 .. Len(g) /\ j - Len(g) \in 1 .. Len(row)
        BY <1>5, <2>1, <3>2
      <4>2. g[i][1] \in Upto(ws, n)
        BY <2>2, <4>1
      <4>3. row[j - Len(g)][1] = ws[n + 1]
        BY <2>3, <4>1
      <4>4. g[i][1] < row[j - Len(g)][1]
        BY <2>4, <4>2, <4>3
      <4> QED BY <4>1, <4>4 DEF Before
    <3>3. CASE i > Len(g)
      <4>1. (g \o row)[i] = row[i - Len(g)] /\ (g \o row)[j] = row[j - Len(g)]
            /\ i - Len(g) \in DOMAIN row /\ j - Len(g) \in DOMAIN row
            /\ i - Len(g) < j - Len(g)
        BY <1>5, <2>1, <2>5, <3>3
      <4> QED BY <1>2, <4>1 DEF Ordered
    <3> QED BY <2>1, <3>1, <3>2, <3>3
  <2> QED BY <2>1, <2>5 DEF Ordered
<1> QED BY <1>3, <1>5, <1>8, <1>9

\* All of them: every pair of a width and a height, widths first.
LEMMA GridExact ==
  ASSUME NEW ws \in Seq(Nat), NEW hs \in Seq(Nat), Ascending(ws), Ascending(hs)
  PROVE  /\ Grid(ws, hs, Len(ws)) \in Seq(Sizes)
         /\ Range(Grid(ws, hs, Len(ws))) = Range(ws) \X Range(hs)
         /\ Ordered(Grid(ws, hs, Len(ws)))
<1> DEFINE Good(n) == /\ Grid(ws, hs, n) \in Seq(Sizes)
                      /\ Range(Grid(ws, hs, n)) = Upto(ws, n) \X Range(hs)
                      /\ Ordered(Grid(ws, hs, n))
           P == {n \in Nat : n <= Len(ws) => Good(n)}
<1>1. Len(ws) \in Nat /\ DOMAIN ws = 1 .. Len(ws)
  BY LenProperties
<1>2. Good(0)
  <2>1. Rows(ws, hs, 0) = << >> /\ Upto(ws, 0) = {}
    BY DEF Rows, Upto
  <2>2. Grid(ws, hs, 0) = << >>
    BY <2>1, Len(<< >>) = 0 DEF Grid, FlattenSeq
  <2>3. << >> \in Seq(Sizes) /\ DOMAIN << >> = {}
    BY EmptySeq
  <2>4. Range(<< >>) = {} /\ Ordered(<< >>)
    BY <2>3 DEF Range, Ordered
  <2> QED BY <2>1, <2>2, <2>3, <2>4
<1>3. ASSUME NEW n \in P PROVE n + 1 \in P
  <2>1. n \in Nat /\ n + 1 \in Nat
    OBVIOUS
  <2>2. ASSUME n + 1 <= Len(ws) PROVE Good(n + 1)
    <3>1. n < Len(ws) /\ Good(n)
      BY <1>1, <2>1, <2>2
    <3> QED BY <2>1, <3>1, GridGrows
  <2> HIDE DEF Good
  <2> QED BY <2>1, <2>2
<1>4. P = Nat
  <2> HIDE DEF Good
  <2>1. P \in SUBSET Nat /\ 0 \in P
    BY <1>2
  <2> HIDE DEF P
  <2> QED BY <1>3, <2>1, Induction
<1>5. Good(Len(ws))
  <2> HIDE DEF Good
  <2> QED BY <1>1, <1>4
<1>6. Upto(ws, Len(ws)) = Range(ws)
  BY <1>1 DEF Upto, Range
<1> QED BY <1>5, <1>6

LEMMA DiscretesExact ==
  ASSUME NEW w \in Ranges, NEW h \in Ranges, NEW size, size.typ = "stepwise",
         size.width = w, size.height = h, ~Panics(size)
  PROVE  /\ Range(Discretes(size)) = Wanted(w) \X Wanted(h)
         /\ Ordered(Discretes(size))
<1>1. w \in [min : Nat, max : Nat, step : Nat] /\ h \in [min : Nat, max : Nat, step : Nat]
  BY RangesAssumption
<1>2. w.step # 0 /\ (h.step = 0 => w.max < w.min)
  BY <1>1 DEF Panics
<1>3. /\ StepBy(w) \in Seq(Nat) /\ Range(StepBy(w)) = Wanted(w) /\ Ascending(StepBy(w))
      /\ DOMAIN StepBy(w) = 1 .. Len(StepBy(w))
  BY <1>1, <1>2, StepByWalks, LenProperties
<1>4. Discretes(size) = FlattenSeq(Rows(StepBy(w), StepBy(h), Len(StepBy(w))))
  BY <1>3 DEF Discretes, Rows, Row
<1>5. CASE h.step # 0
  <2>1. StepBy(h) \in Seq(Nat) /\ Range(StepBy(h)) = Wanted(h) /\ Ascending(StepBy(h))
    BY <1>1, <1>5, StepByWalks
  <2> QED BY <1>3, <1>4, <2>1, GridExact DEF Grid
<1>6. CASE h.step = 0
  <2>1. Wanted(w) = {}
    BY <1>1, <1>2, <1>6 DEF Wanted
  <2>2. StepBy(w) = << >>
    <3>1. \A x \in DOMAIN StepBy(w) : StepBy(w)[x] \in Range(StepBy(w))
      BY DEF Range
    <3>2. 1 .. Len(StepBy(w)) = {}
      BY <1>3, <2>1, <3>1
    <3>3. StepBy(w) # << >> => Len(StepBy(w)) \in Nat \ {0}
      BY <1>3, EmptySeq
    <3> QED BY <3>2, <3>3
  <2>3. Len(StepBy(w)) = 0
    BY <2>2
  <2>4. Rows(StepBy(w), StepBy(h), 0) = << >>
    BY DEF Rows
  <2>5. Discretes(size) = << >>
    BY <1>4, <2>3, <2>4, Len(<< >>) = 0 DEF FlattenSeq
  <2>6. Range(<< >>) = {} /\ Ordered(<< >>)
    BY DEF Range, Ordered
  <2> QED BY <2>1, <2>5, <2>6
<1> QED BY <1>5, <1>6

-------------------------------------------------------------------------------
(* Controls, and what is read from them and written to them.               *)

LEMMA ControlFacts ==
  ASSUME controls \in Devices
  PROVE  /\ Len(controls) \in 0 .. MaxEntries /\ Ids = DOMAIN controls
         /\ \A i \in Ids :
              /\ controls[i] \in Controls
              /\ controls[i].minimum \in Int /\ controls[i].maximum \in Int
              /\ controls[i].step \in Nat
              /\ controls[i].minimum <= controls[i].maximum
              /\ controls[i].typ = "Boolean" =>
                   controls[i].minimum = 0 /\ controls[i].maximum = 1
              /\ controls[i].typ \in {"Integer", "Menu", "Boolean"} =>
                   /\ -(Word \div 2) <= controls[i].minimum
                   /\ controls[i].maximum < Word \div 2
<1>1. controls \in Seq(Controls)
  BY DevicesAssumption
<1>2. Len(controls) \in Nat /\ DOMAIN controls = Ids
      /\ \A i \in Ids : controls[i] \in Controls
  BY <1>1, LenProperties, ElementOfSeq DEF Ids
<1>3. \A i \in Ids : controls[i].minimum \in Int /\ controls[i].maximum \in Int
                   /\ controls[i].step \in Nat
  BY <1>2 DEF Controls
<1>4. Len(controls) <= MaxEntries
  BY DevicesAssumption
<1> HIDE DEF Ids
<1>5. Ids = 1 .. Len(controls)
  BY DEF Ids
<1>6. ASSUME NEW i \in Ids
      PROVE  /\ controls[i].minimum <= controls[i].maximum
             /\ controls[i].typ = "Boolean" =>
                  controls[i].minimum = 0 /\ controls[i].maximum = 1
             /\ controls[i].typ \in {"Integer", "Menu", "Boolean"} =>
                  /\ -(Word \div 2) <= controls[i].minimum
                  /\ controls[i].maximum < Word \div 2
  BY <1>5, DevicesAssumption
<1> QED BY <1>2, <1>3, <1>4, <1>6, BoundsAssumption

LEMMA LowFits ==
  ASSUME NEW v \in Int
  PROVE  /\ Low(v) \in Int
         /\ -(Word \div 2) <= v /\ v < Word \div 2 => Low(v) = v
<1>1. Word \div 2 \in Int /\ (Word \div 2) * 2 <= Word
  BY WordAssumption, Quotient
<1>2. (Word \div 2) * 2 = Word \div 2 + Word \div 2
  BY <1>1
<1>3. \A a \in Int : a % Word \in Int /\ (0 <= a /\ a < Word => a % Word = a)
  BY WordAssumption, Z3
<1>4. v + Word \div 2 \in Int
  BY <1>1
<1> DEFINE h == Word \div 2
<1>5. Low(v) = ((v + h) % Word) - h
  BY DEF Low
<1>6. h \in Int /\ h + h <= Word /\ v + h \in Int
      /\ (v + h) % Word \in Int /\ (0 <= v + h /\ v + h < Word => (v + h) % Word = v + h)
  BY <1>1, <1>2, <1>3, <1>4
<1>7. (-h <= v /\ v < h) => (0 <= v + h /\ v + h < Word)
  <2> HIDE DEF h
  <2> QED BY <1>6, WordAssumption
<1> HIDE DEF h
<1>8. Low(v) \in Int /\ (-h <= v /\ v < h => Low(v) = v)
  BY <1>5, <1>6, <1>7
<1> QED BY <1>8 DEF h

\* The driver keeps a control within its range.
LEMMA StoredInRange ==
  ASSUME controls \in Devices, NEW i \in Ids, NEW v \in Numbers
  PROVE  Stored(controls[i], v) \in controls[i].minimum .. controls[i].maximum
<1>1. v \in Int /\ Seen(controls[i], v) \in Int
  BY NumbersAssumption, LowFits DEF Seen
<1> QED BY <1>1, ControlFacts DEF Stored

Readable == {"Integer64", "Integer", "Menu", "Boolean"}

\* What fits is stored as it is, and read as it is stored.
LEMMA FitsIsKept ==
  ASSUME controls \in Devices, NEW i \in Ids, controls[i].typ \in Readable,
         NEW w \in controls[i].minimum .. controls[i].maximum
  PROVE  /\ Stored(controls[i], w) = w
         /\ ValueRead(controls[i], w) =
              << IF controls[i].typ = "Boolean" THEN w = 1 ELSE w >>
<1> DEFINE c == controls[i]
<1>1. /\ c.minimum \in Int /\ c.maximum \in Int /\ w \in Int
      /\ c.minimum <= w /\ w <= c.maximum
      /\ c.typ = "Boolean" => c.minimum = 0 /\ c.maximum = 1
      /\ c.typ \in {"Integer", "Menu", "Boolean"} =>
           -(Word \div 2) <= c.minimum /\ c.maximum < Word \div 2
  BY ControlFacts
<1>2. c.typ \in {"Integer64", "Integer", "Menu", "Boolean"}
  BY DEF Readable
<1> HIDE DEF c
<1>3. Word \div 2 \in Int
  BY WordAssumption, Quotient
<1>4. c.typ # "Integer64" => Low(w) = w
  BY <1>1, <1>2, <1>3, LowFits
<1>5. Seen(c, w) = w
  BY <1>2, <1>4 DEF Seen, Payload
<1>6. Stored(c, w) = w
  <2>1. CASE c.typ = "Boolean"
    BY <1>1, <1>5, <2>1 DEF Stored
  <2>2. CASE c.typ # "Boolean"
    BY <1>1, <1>5, <2>2 DEF Stored
  <2> QED BY <2>1, <2>2
<1>7. ValueRead(c, w) = << IF c.typ = "Boolean" THEN w = 1 ELSE w >>
  BY <1>2, <1>4 DEF ValueRead
<1> QED BY <1>6, <1>7 DEF c

LEMMA MaxOf ==
  ASSUME NEW n \in Nat, NEW T \in SUBSET (1 .. n), T # {}
  PROVE  Max(T) \in T
<1> DEFINE D == {n - x : x \in T}
<1>1. D \in SUBSET Nat /\ D # {}
  <2>1. \A x \in T : x \in Nat /\ n - x \in Nat
    OBVIOUS
  <2> QED BY <2>1
<1> HIDE DEF D
<1>2. PICK d \in D : \A e \in D : d <= e
  BY <1>1, LeastElement
<1> USE DEF D
<1>3. PICK x \in T : d = n - x
  BY <1>2
<1>4. ASSUME NEW y \in T PROVE x >= y
  <2>1. n - y \in D /\ x \in Nat /\ y \in Nat
    OBVIOUS
  <2>2. n - x <= n - y
    BY <1>2, <1>3, <2>1
  <2> QED BY <2>1, <2>2
<1> QED BY <1>3, <1>4 DEF Max

-------------------------------------------------------------------------------
(* The inductive invariant.                                                *)

Entries == [id : Nat, typ : ControlTypes, items : Seq(Int)]

\* Its members are those of known, in order; some may be missing if t.
Lists(its, known, t) ==
  /\ its \in Seq(Int) /\ Ascending(its)
  /\ Range(its) \subseteq known
  /\ ~t => Range(its) = known

\* s is a true list of the first controls of cs; items may be missing if t.
TrueList(s, cs, t) ==
  /\ s \in Seq(Entries)
  /\ \A i \in 1 .. Len(s) :
       /\ s[i].id = i
       /\ IsMenu(cs[i]) => cs[i].step # 0 /\ Lists(s[i].items, Items(cs[i]), t)

\* The indices of a menu that the code asks for, and the items found below one.
Steps(c)    == Wanted([min |-> c.minimum, max |-> c.maximum, step |-> c.step])
Below(c, m) == {x \in Items(c) : x < m}

\* What the call in progress has reached at each of its system calls.
AtEnum ==
  at = "ENUM" => fn \in Enumerations /\ index <= Len(table) /\ out = Found(index)
AtQueryExtCtrl ==
  at = "QUERY_EXT_CTRL" =>
    /\ fn = "query_controls" /\ index <= Len(controls)
    /\ Len(out) = index /\ TrueList(out, controls, troubled)
AtQuerymenu ==
  at = "QUERYMENU" =>
    /\ fn = "query_controls" /\ index \in Ids
    /\ IsMenu(controls[index]) /\ controls[index].step # 0
    /\ menu \in Steps(controls[index])
    /\ Len(out) = index - 1 /\ TrueList(out, controls, troubled)
    /\ Lists(items, Below(controls[index], menu), troubled)
AtGetExtCtrls == at = "G_EXT_CTRLS" => fn = "control" /\ index \in Ids
AtSetExtCtrls == at = "S_EXT_CTRLS" => fn = "set_controls" /\ arg \in Seq(Writes)

\* A control that control can read holds what was written to it, if that fits.
Holds ==
  \A i \in Ids :
    controls[i].typ \in Readable =>
      \A w \in written[i] \cap (controls[i].minimum .. controls[i].maximum) : values[i] = w

Calls == AtEnum /\ AtQueryExtCtrl /\ AtQuerymenu /\ AtGetExtCtrls /\ AtSetExtCtrls

IInv ==
  /\ TypeOK
  /\ Calls
  /\ Holds
  /\ ListsAreHonest /\ ReadsBackWhatFits /\ ToDiscreteExact

LEMMA ListsNothing ==
  ASSUME NEW t
  PROVE  Lists(<< >>, {}, t)
<1>1. << >> \in Seq(Int) /\ DOMAIN << >> = {}
  BY EmptySeq
<1> QED BY <1>1 DEF Lists, Ascending, Range

\* An item that is there is listed behind those below it.
LEMMA ListsGrow ==
  ASSUME NEW m \in Int, NEW known, \A x \in known : x < m, NEW its, NEW t,
         Lists(its, known, t)
  PROVE  Lists(Append(its, m), known \cup {m}, t)
<1> DEFINE s == Append(its, m)
<1>1. its \in Seq(Int) /\ m \in Int
  BY DEF Lists
<1>2. Len(its) \in Nat /\ DOMAIN its = 1 .. Len(its)
  BY <1>1, LenProperties
<1>3. /\ s \in Seq(Int) /\ DOMAIN s = 1 .. Len(its) + 1
      /\ \A i \in 1 .. Len(its) : s[i] = its[i]
      /\ s[Len(its) + 1] = m
  BY <1>1, AppendProperties, LenProperties
<1> HIDE DEF s
<1>4. \A i \in 1 .. Len(its) : its[i] \in Range(its)
  BY <1>2 DEF Range
<1>5. Range(s) = Range(its) \cup {m}
  <2>1. 1 .. Len(its) + 1 = 1 .. Len(its) \cup {Len(its) + 1}
    BY <1>2
  <2>2. ASSUME NEW x \in Range(s) PROVE x \in Range(its) \cup {m}
    <3>1. PICK i \in 1 .. Len(its) + 1 : x = s[i]
      BY <1>3 DEF Range
    <3> QED BY <1>3, <1>4, <2>1, <3>1
  <2>3. ASSUME NEW x \in Range(its) \cup {m} PROVE x \in Range(s)
    <3>1. \E i \in 1 .. Len(its) + 1 : x = s[i]
      BY <1>2, <1>3, <2>1 DEF Range
    <3> QED BY <1>3, <3>1 DEF Range
  <2> QED BY <2>2, <2>3
<1>6. \A i \in 1 .. Len(its) : its[i] \in Int /\ its[i] < m
  BY <1>1, <1>4, ElementOfSeq DEF Lists
<1>7. Ascending(s)
  <2> SUFFICES ASSUME NEW j \in 1 .. Len(its) + 1, NEW k \in 1 .. Len(its) + 1, j < k
               PROVE  s[j] < s[k]
    BY <1>3 DEF Ascending
  <2>1. CASE k = Len(its) + 1
    BY <1>2, <1>3, <1>6, <2>1
  <2>2. CASE k # Len(its) + 1
    <3>1. j \in 1 .. Len(its) /\ k \in 1 .. Len(its)
      BY <1>2, <2>2
    <3> QED BY <1>2, <1>3, <3>1 DEF Lists, Ascending
  <2> QED BY <2>1, <2>2
<1>8. Range(s) \subseteq known \cup {m} /\ (~t => Range(s) = known \cup {m})
  BY <1>5 DEF Lists
<1> QED BY <1>3, <1>7, <1>8 DEF Lists, s

\* A list is still one when items may be missing.
LEMMA ListsMiss ==
  ASSUME NEW its, NEW known, NEW more, known \subseteq more, NEW t, Lists(its, known, t)
  PROVE  Lists(its, more, TRUE)
BY DEF Lists

\* The steps of a menu begin at its minimum.
LEMMA FirstStep ==
  ASSUME NEW c, c.minimum \in Int, c.maximum \in Int, c.minimum <= c.maximum, c.step \in Nat
  PROVE  c.minimum \in Steps(c) /\ Below(c, c.minimum) = {}
<1> DEFINE a == c.minimum
           b == c.maximum
           s == c.step
           r == [min |-> a, max |-> b, step |-> s]
<1>1. Steps(c) = Wanted(r) /\ r.min = a /\ r.max = b /\ r.step = s
  BY DEF Steps
<1>2. a \in a .. b /\ 0 \in 0 .. a - a /\ a = a + 0 * s
  OBVIOUS
<1>3. Items(c) \subseteq Wanted(r)
  BY DEF Items
<1> HIDE DEF r, a, b, s
<1>4. a \in Wanted(r)
  BY <1>1, <1>2 DEF Wanted
<1>5. \A x \in Items(c) : x \in a .. b
  BY <1>1, <1>3 DEF Wanted
<1>6. Below(c, a) = {}
  BY <1>2, <1>5 DEF Below
<1> QED BY <1>1, <1>4, <1>6 DEF a

\* From one step to the next there is no other, and beyond the last there is none.
LEMMA NextStep ==
  ASSUME NEW c, c.minimum \in Int, c.maximum \in Int, c.step \in Nat \ {0},
         NEW m \in Steps(c)
  PROVE  /\ m \in Int
         /\ m + c.step <= c.maximum => m + c.step \in Steps(c)
         /\ m + c.step > c.maximum => Below(c, m + c.step) = Items(c)
         /\ Below(c, m + c.step) = Below(c, m) \cup ({m} \cap Items(c))
<1> DEFINE a == c.minimum
           b == c.maximum
           s == c.step
           r == [min |-> a, max |-> b, step |-> s]
<1>1. Steps(c) = Wanted(r) /\ r.min = a /\ r.max = b /\ r.step = s
      /\ a \in Int /\ b \in Int /\ s \in Nat \ {0}
  BY DEF Steps
<1>2. Items(c) \subseteq Wanted(r)
  BY DEF Items
<1> HIDE DEF a, b, s, r
<1>3. ASSUME NEW n \in Wanted(r)
      PROVE  n \in a .. b /\ \E k \in 0 .. n - a : n = a + k * s
  BY <1>1 DEF Wanted
<1>4. PICK k \in 0 .. m - a : m = a + k * s
  BY <1>1, <1>3
<1>5. m \in Int /\ a <= m /\ m <= b /\ k \in Nat /\ k <= m - a /\ k * s \in Int
      /\ (k + 1) * s = k * s + s
  <2>1. m \in a .. b
    BY <1>1, <1>3
  <2>2. k \in Nat /\ k <= m - a
    BY <1>1, <2>1
  <2> QED BY <1>1, <2>1, <2>2, Multiples
<1>6. ASSUME m + s <= b PROVE m + s \in Wanted(r)
  <2>1. m + s \in a .. b /\ k + 1 \in 0 .. (m + s) - a /\ m + s = a + (k + 1) * s
    BY <1>1, <1>4, <1>5, <1>6
  <2> QED BY <1>1, <2>1 DEF Wanted
<1>7. ASSUME NEW x \in Wanted(r) PROVE x < m + s <=> x < m \/ x = m
  <2>1. PICK j \in 0 .. x - a : x = a + j * s
    BY <1>3
  <2>2. x \in Int /\ j \in Nat /\ j * s \in Int
    BY <1>1, <1>3, <2>1, Multiples
  <2>3. CASE j <= k
    <3>1. j < k => j * s + s <= k * s
      BY <1>1, <1>5, <2>2, Multiples
    <3>2. j < k \/ j = k
      BY <1>5, <2>2, <2>3
    <3> QED BY <1>1, <1>4, <1>5, <2>1, <2>2, <3>1, <3>2
  <2>4. CASE j > k
    <3>1. k * s + s <= j * s
      BY <1>1, <1>5, <2>2, <2>4, Multiples
    <3> QED BY <1>1, <1>4, <1>5, <2>1, <2>2, <3>1
  <2> QED BY <1>5, <2>2, <2>3, <2>4
<1>8. ASSUME m + s > b PROVE Below(c, m + s) = Items(c)
  <2>1. \A x \in Items(c) : x < m + s
    BY <1>1, <1>2, <1>3, <1>5, <1>8
  <2> QED BY <2>1 DEF Below
<1>9. Below(c, m + s) = Below(c, m) \cup ({m} \cap Items(c))
  <2>1. m < m + s
    BY <1>1, <1>5
  <2> QED BY <1>2, <1>7, <2>1 DEF Below
<1> QED BY <1>1, <1>5, <1>6, <1>8, <1>9 DEF s, b

LEMMA TrueListNothing ==
  ASSUME NEW cs, NEW t
  PROVE  TrueList(<< >>, cs, t)
<1>1. << >> \in Seq(Entries) /\ Len(<< >>) = 0
  BY EmptySeq
<1> QED BY <1>1 DEF TrueList

LEMMA TrueListGrows ==
  ASSUME NEW cs, NEW t, NEW s, NEW e \in Entries, TrueList(s, cs, t),
         e.id = Len(s) + 1,
         IsMenu(cs[e.id]) => cs[e.id].step # 0 /\ Lists(e.items, Items(cs[e.id]), t)
  PROVE  TrueList(Append(s, e), cs, t) /\ Len(Append(s, e)) = Len(s) + 1
<1> DEFINE a == Append(s, e)
<1>1. s \in Seq(Entries)
  BY DEF TrueList
<1>2. /\ a \in Seq(Entries) /\ Len(a) = Len(s) + 1 /\ Len(s) \in Nat
      /\ \A i \in 1 .. Len(s) : a[i] = s[i]
      /\ a[Len(s) + 1] = e
  BY <1>1, AppendProperties, LenProperties
<1> HIDE DEF a
<1>3. ASSUME NEW i \in 1 .. Len(a)
      PROVE  /\ a[i].id = i
             /\ IsMenu(cs[i]) => cs[i].step # 0 /\ Lists(a[i].items, Items(cs[i]), t)
  <2>1. CASE i = Len(s) + 1
    BY <1>2, <2>1
  <2>2. CASE i # Len(s) + 1
    <3>1. i \in 1 .. Len(s)
      BY <1>2, <2>2
    <3> QED BY <1>2, <3>1 DEF TrueList
  <2> QED BY <2>1, <2>2
<1>4. TrueList(a, cs, t)
  BY <1>2, <1>3 DEF TrueList
<1> QED BY <1>2, <1>4 DEF a

LEMMA TrueListTroubled ==
  ASSUME NEW cs, NEW t, NEW u, NEW s, TrueList(s, cs, t), u = t \/ u = TRUE
  PROVE  TrueList(s, cs, u)
<1>1. ASSUME NEW i \in 1 .. Len(s), IsMenu(cs[i])
      PROVE  cs[i].step # 0 /\ Lists(s[i].items, Items(cs[i]), u)
  <2>1. cs[i].step # 0 /\ Lists(s[i].items, Items(cs[i]), t)
    BY <1>1 DEF TrueList
  <2> QED BY <2>1, ListsMiss
<1> QED BY <1>1 DEF TrueList

-------------------------------------------------------------------------------
(* The initial states, and the actions.                                    *)

LEMMA BoundedLists ==
  ASSUME NEW S, NEW n \in Nat
  PROVE  /\ << >> \in BoundedSeq(S, n)
         /\ \A t \in BoundedSeq(S, n) : t \in Seq(S) /\ Len(t) \in 0 .. n
<1>1. << >> \in [1 .. 0 -> S]
  OBVIOUS
<1>2. ASSUME NEW t \in BoundedSeq(S, n)
      PROVE  t \in Seq(S) /\ Len(t) \in 0 .. n
  <2>1. PICK m \in 0 .. n : t \in [1 .. m -> S]
    BY DEF BoundedSeq, SeqOf
  <2> QED BY <2>1, Listing
<1> QED BY <1>1, <1>2 DEF BoundedSeq, SeqOf

LEMMA TablesFacts ==
  ASSUME controls \in Devices
  PROVE  /\ << >> \in Tables
         /\ \A t \in Tables :
              t \in Seq(Kinds) /\ Len(t) \in Nat /\ Len(t) <= MaxEntries - Len(controls)
<1>1. MaxEntries - Len(controls) \in Nat
  BY ControlFacts, BoundsAssumption
<1> DEFINE n == MaxEntries - Len(controls)
<1>2. << >> \in BoundedSeq(Kinds, n)
      /\ \A t \in BoundedSeq(Kinds, n) : t \in Seq(Kinds) /\ Len(t) \in 0 .. n
  <2>1. n \in Nat
    BY <1>1
  <2> HIDE DEF n
  <2> QED BY <2>1, BoundedLists
<1> QED BY <1>1, <1>2 DEF Tables

LEMMA InitInvariant ==
  ASSUME Init
  PROVE  IInv
<1>1. controls \in Devices
  BY DEF Init
<1>2. \A i \in Ids : controls[i].minimum \in controls[i].minimum .. controls[i].maximum
  BY <1>1, ControlFacts
<1>3. TypeOK
  <2>1. table \in Tables /\ 0 \in 0 .. MaxEntries
    BY <1>1, TablesFacts, BoundsAssumption DEF Init
  <2>2. \A i \in Ids : values[i] \in controls[i].minimum .. controls[i].maximum
    BY <1>2 DEF Init
  <2>3. \A i \in Ids : written[i] \subseteq Numbers
    BY DEF Init
  <2> QED BY <1>1, <2>1, <2>2, <2>3 DEF Init, TypeOK
<1>4. Calls
  BY DEF Init, Calls, AtEnum, AtQueryExtCtrl, AtQuerymenu, AtGetExtCtrls, AtSetExtCtrls
<1>5. Holds
  BY DEF Init, Holds
<1>6. ListsAreHonest /\ ReadsBackWhatFits /\ ToDiscreteExact
  BY DEF Init, ListsAreHonest, ReadsBackWhatFits, ToDiscreteExact
<1> QED BY <1>3, <1>4, <1>5, <1>6 DEF IInv

\* A step that neither reads nor writes values keeps what they hold.
LEMMA HoldsStays ==
  ASSUME Holds, controls' = controls, values' = values, written' = written
  PROVE  Holds'
BY DEF Holds, Ids

LEMMA StillFound ==
  ASSUME table' = table, fn' = fn
  PROVE  \A n : Found(n)' = Found(n)
BY DEF Found, Converted

\* How calls begin: at which system call, with which arguments.
Begins(f, t, syscall, i, ws) ==
  /\ t \in Tables /\ i \in 0 .. MaxEntries
  /\ \/ syscall = "ENUM" /\ f \in Enumerations /\ i = 0
     \/ syscall = "QUERY_EXT_CTRL" /\ f = "query_controls" /\ i = 0
     \/ syscall = "G_EXT_CTRLS" /\ f = "control" /\ i \in Ids
     \/ syscall = "S_EXT_CTRLS" /\ f = "set_controls" /\ i = 0 /\ ws \in Seq(Writes)

LEMMA BeginPreserves ==
  ASSUME IInv, NEW f, NEW t, NEW syscall, NEW i, NEW ws,
         Begin(f, t, syscall, i, ws), Begins(f, t, syscall, i, ws)
  PROVE  IInv'
<1>1. /\ table' = t /\ fn' = f /\ at' = syscall /\ index' = i /\ arg' = ws
      /\ out' = << >> /\ result' = "none" /\ troubled' = FALSE
      /\ controls' = controls /\ values' = values /\ plugged' = plugged
      /\ written' = written
  BY DEF Begin, device
<1>2. Ids' = Ids /\ Tables' = Tables /\ Writes' = Writes
  BY <1>1 DEF Ids, Tables, Writes
<1>3. controls \in Devices /\ TypeOK /\ Holds
  BY DEF IInv, TypeOK
<1>4. TypeOK'
  BY <1>1, <1>2, <1>3 DEF TypeOK, Begins, Enumerations
<1>5. Calls'
  <2>1. AtEnum'
    <3> SUFFICES ASSUME at' = "ENUM" PROVE AtEnum'
      BY DEF AtEnum
    <3>1. f \in Enumerations /\ i = 0
      BY <1>1 DEF Begins
    <3>2. table' \in Seq(Kinds) /\ Len(table') \in Nat
      BY <1>1, <1>3, TablesFacts DEF Begins
    <3>3. Found(0)' = << >>
      <4>1. [k \in 1 .. 0 |-> Converted(table[k])'] = << >>
        OBVIOUS
      <4>2. FlattenSeq(<< >>) = << >>
        BY Len(<< >>) = 0 DEF FlattenSeq
      <4> QED BY <4>1, <4>2 DEF Found
    <3>4. Found(index)' = << >>
      BY <1>1, <3>1, <3>3 DEF Found
    <3> QED BY <1>1, <3>1, <3>2, <3>4 DEF AtEnum
  <2>2. AtQueryExtCtrl'
    <3>1. TrueList(<< >>, controls', troubled') /\ Len(<< >>) = 0
      BY TrueListNothing
    <3>2. Len(controls) >= 0
      BY <1>3, ControlFacts
    <3> QED BY <1>1, <3>1, <3>2 DEF AtQueryExtCtrl, Begins, Enumerations
  <2>3. AtQuerymenu' /\ AtGetExtCtrls' /\ AtSetExtCtrls'
    BY <1>1, <1>2 DEF AtQuerymenu, AtGetExtCtrls, AtSetExtCtrls, Begins
  <2> QED BY <2>1, <2>2, <2>3 DEF Calls
<1>6. Holds'
  BY <1>1, <1>3, HoldsStays
<1>7. ListsAreHonest' /\ ReadsBackWhatFits' /\ ToDiscreteExact'
  BY <1>1 DEF ListsAreHonest, ReadsBackWhatFits, ToDiscreteExact, Begins
<1> QED BY <1>4, <1>5, <1>6, <1>7 DEF IInv

\* The end of a call: what there is left to show.
LEMMA ReturnPreserves ==
  ASSUME IInv, NEW r \in {"ok", "panic"} \cup Errnos, NEW answer, at # "app", Return(r, answer),
         troubled' \in BOOLEAN,
         \A i \in Ids : values'[i] \in controls[i].minimum .. controls[i].maximum,
         \A i \in Ids : written'[i] \subseteq Numbers,
         Holds', ListsAreHonest', ReadsBackWhatFits'
  PROVE  IInv'
<1>1. /\ at' = "app" /\ result' = r /\ out' = answer /\ table' = table
      /\ controls' = controls /\ plugged' = plugged /\ fn' = fn /\ index' = index
  BY DEF Return
<1>2. Ids' = Ids /\ Tables' = Tables
  BY <1>1 DEF Ids, Tables
<1>3. TypeOK'
  BY <1>1, <1>2 DEF IInv, TypeOK, Errnos
<1>4. Calls'
  BY <1>1 DEF Calls, AtEnum, AtQueryExtCtrl, AtQuerymenu, AtGetExtCtrls, AtSetExtCtrls
<1>5. fn # "to_discrete"
  BY DEF IInv, TypeOK, Calls, AtEnum, AtQueryExtCtrl, AtQuerymenu, AtGetExtCtrls,
         AtSetExtCtrls, Enumerations
<1>6. ToDiscreteExact'
  BY <1>1, <1>5 DEF ToDiscreteExact
<1> QED BY <1>3, <1>4, <1>6 DEF IInv

\* A call that fails promises nothing.
LEMMA FailPreserves ==
  ASSUME IInv, NEW e \in Errnos, at # "app", Fail(e), troubled' \in BOOLEAN,
         \A i \in Ids : values'[i] \in controls[i].minimum .. controls[i].maximum,
         \A i \in Ids : written'[i] \subseteq Numbers, Holds'
  PROVE  IInv'
<1>1. e # "ok" /\ e # "panic" /\ result' = e
  BY FaultsAssumption DEF Errnos, Fail, Return
<1>2. ListsAreHonest' /\ ReadsBackWhatFits'
  BY <1>1 DEF ListsAreHonest, ReadsBackWhatFits
<1> QED BY <1>2, ReturnPreserves DEF Fail

-------------------------------------------------------------------------------
(* Formats, frame sizes, frame intervals.                                  *)

LEMMA EnumEntryPreserves ==
  ASSUME IInv, EnumEntry
  PROVE  IInv'
<1>1. /\ at = "ENUM" /\ at' = "ENUM" /\ index < Len(table) /\ index' = index + 1
      /\ out' = out \o Converted(table[index + 1])
      /\ table' = table /\ controls' = controls /\ values' = values /\ fn' = fn
      /\ plugged' = plugged /\ troubled' = troubled /\ written' = written
      /\ result' = result
  BY DEF EnumEntry, device
<1>2. TypeOK /\ Calls /\ Holds /\ controls \in Devices /\ index \in 0 .. MaxEntries
      /\ fn \in Enumerations /\ out = Found(index)
  BY <1>1 DEF IInv, TypeOK, Calls, AtEnum
<1>3. table \in Seq(Kinds) /\ Len(table) \in Nat /\ Len(table) <= MaxEntries - Len(controls)
      /\ Len(controls) \in 0 .. MaxEntries
  BY <1>2, TablesFacts, ControlFacts DEF TypeOK
<1>4. index \in Nat /\ index + 1 \in 0 .. MaxEntries /\ index + 1 <= Len(table)
  BY <1>1, <1>2, <1>3, BoundsAssumption
<1>5. Ids' = Ids /\ Tables' = Tables
  BY <1>1 DEF Ids, Tables
<1>6. TypeOK'
  BY <1>1, <1>2, <1>4, <1>5 DEF TypeOK
<1>7. out' = Found(index + 1)
  BY <1>1, <1>2, <1>3, <1>4, FoundGrows
<1>8. out' = Found(index)'
  <2>1. Found(index)' = Found(index + 1)
    <3>1. index' = index + 1 /\ table' = table /\ fn' = fn
      BY <1>1
    <3> QED BY <3>1 DEF Found, Converted
  <2> QED BY <1>7, <2>1
<1>9. Calls'
  BY <1>1, <1>2, <1>4, <1>8
     DEF Calls, AtEnum, AtQueryExtCtrl, AtQuerymenu, AtGetExtCtrls, AtSetExtCtrls
<1>10. Holds' /\ ListsAreHonest' /\ ReadsBackWhatFits' /\ ToDiscreteExact'
  BY <1>1, <1>2, HoldsStays DEF ListsAreHonest, ReadsBackWhatFits, ToDiscreteExact
<1> QED BY <1>6, <1>9, <1>10 DEF IInv

LEMMA EnumFailsPreserves ==
  ASSUME IInv, EnumFails
  PROVE  IInv'
<1>1. PICK e \in Errnos :
        /\ at = "ENUM" /\ Fails(e, index = Len(table))
        /\ \/ Fail(e)
           \/ Return("ok", out)
        /\ UNCHANGED << values, written >>
  BY DEF EnumFails
<1>2. TypeOK /\ Holds /\ controls \in Devices /\ index \in 0 .. MaxEntries
      /\ fn \in Enumerations /\ index <= Len(table) /\ out = Found(index)
  BY <1>1 DEF IInv, TypeOK, Calls, AtEnum
<1>3. table' = table /\ controls' = controls /\ fn' = fn /\ index' = index
      /\ values' = values /\ written' = written
  BY <1>1 DEF Fail, Return
<1>4. troubled' \in BOOLEAN /\ (~troubled' => index = Len(table))
  BY <1>1, <1>2 DEF Fails, TypeOK
<1>5. /\ \A i \in Ids : values'[i] \in controls[i].minimum .. controls[i].maximum
      /\ \A i \in Ids : written'[i] \subseteq Numbers
      /\ Holds'
  BY <1>2, <1>3, HoldsStays DEF TypeOK
<1>6. CASE Fail(e)
  BY <1>1, <1>4, <1>5, <1>6, FailPreserves
<1>7. CASE Return("ok", out)
  <2>1. out' = out /\ at' = "app"
    BY <1>7 DEF Return
  <2>2. index \in 0 .. Len(table)
    <3>1. Len(table) \in Nat
      BY <1>2, TablesFacts DEF TypeOK
    <3> QED BY <1>2, <3>1
  <2>3. \A n : Found(n)' = Found(n)
    BY <1>3, StillFound
  <2>4. fn # "query_controls" /\ fn # "control"
    BY <1>2 DEF Enumerations
  <2>5. /\ \E n \in 0 .. Len(table') : out' = Found(n)'
        /\ ~troubled' => out' = Found(Len(table))'
    <3>1. Found(index)' = Found(index)
      BY <1>3 DEF Found, Converted
    <3>2. index' \in 0 .. Len(table') /\ out' = Found(index)'
      BY <1>2, <1>3, <2>1, <2>2, <3>1
    <3>3. out' = Found(index') /\ index' = index
      BY <1>2, <1>3, <2>1
    <3> QED BY <1>2, <1>3, <1>4, <2>1, <2>2, <2>3, <3>2
  <2>6. ListsAreHonest'
    BY <1>3, <2>4, <2>5 DEF ListsAreHonest
  <2>7. ReadsBackWhatFits'
    BY <1>3, <2>4 DEF ReadsBackWhatFits
  <2> QED BY <1>1, <1>4, <1>5, <1>7, <2>6, <2>7, ReturnPreserves
<1> QED BY <1>1, <1>6, <1>7

LEMMA ToDiscretePreserves ==
  ASSUME IInv, NEW size \in [typ : {"discrete", "stepwise"}, width : Ranges, height : Ranges],
         to_discrete(size)
  PROVE  IInv'
<1>1. /\ at = "app" /\ at' = "app" /\ fn' = "to_discrete" /\ arg' = size
      /\ table' = << >> /\ index' = 0 /\ troubled' = FALSE
      /\ controls' = controls /\ values' = values /\ plugged' = plugged
      /\ written' = written
      /\ \/ Panics(size) /\ result' = "panic" /\ out' = << >>
         \/ ~Panics(size) /\ result' = "ok" /\ out' = Discretes(size)
  BY DEF to_discrete, device
<1>2. TypeOK /\ Holds /\ controls \in Devices
  BY DEF IInv, TypeOK
<1>3. Ids' = Ids /\ Tables' = Tables
  BY <1>1 DEF Ids, Tables
<1>4. TypeOK'
  <2>1. << >> \in Tables /\ 0 \in 0 .. MaxEntries
    BY <1>2, TablesFacts, BoundsAssumption
  <2> QED BY <1>1, <1>2, <1>3, <2>1 DEF TypeOK
<1>5. Calls'
  BY <1>1 DEF Calls, AtEnum, AtQueryExtCtrl, AtQuerymenu, AtGetExtCtrls, AtSetExtCtrls
<1>6. Holds'
  BY <1>1, <1>2, HoldsStays
<1>7. ListsAreHonest' /\ ReadsBackWhatFits'
  BY <1>1 DEF ListsAreHonest, ReadsBackWhatFits, Enumerations
<1>8. ASSUME size.typ = "stepwise"
      PROVE  /\ Panics(size) <=>
                  size.width.step = 0 \/ (size.height.step = 0 /\ Wanted(size.width) # {})
             /\ ~Panics(size) => /\ Range(Discretes(size)) = Wanted(size.width) \X Wanted(size.height)
                                 /\ Ordered(Discretes(size))
  <2>1. size.width \in Ranges /\ size.height \in Ranges
    OBVIOUS
  <2>2. size.width.min \in Nat /\ size.width.max \in Nat /\ size.width.step \in Nat
    BY <2>1, RangesAssumption
  <2> DEFINE r == size.width
  <2>3. Wanted(r) # {} <=> r.min <= r.max
    <3>1. ASSUME r.min <= r.max PROVE r.min \in Wanted(r)
      <4>1. r.min \in r.min .. r.max /\ 0 \in 0 .. r.min - r.min /\ r.min = r.min + 0 * r.step
        BY <2>2, <3>1
      <4> HIDE DEF r
      <4> QED BY <4>1 DEF Wanted
    <3>2. ASSUME NEW n \in Wanted(r) PROVE r.min <= r.max
      <4>1. n \in r.min .. r.max
        BY DEF Wanted
      <4> QED BY <2>2, <4>1
    <3> QED BY <3>1, <3>2
  <2>4. Panics(size) <=>
          size.width.step = 0 \/ (size.height.step = 0 /\ Wanted(size.width) # {})
    BY <1>8, <2>3 DEF Panics
  <2> QED BY <1>8, <2>1, <2>4, DiscretesExact
<1>9. ToDiscreteExact'
  BY <1>1, <1>8 DEF ToDiscreteExact, Ordered
<1> QED BY <1>4, <1>5, <1>6, <1>7, <1>9 DEF IInv

-------------------------------------------------------------------------------
(* query_controls.                                                         *)

LEMMA QueryExtCtrlPreserves ==
  ASSUME IInv, QueryExtCtrl
  PROVE  IInv'
<1> DEFINE c == controls[index + 1]
<1>1. /\ at = "QUERY_EXT_CTRL" /\ index < Len(controls) /\ index' = index + 1
      /\ items' = << >> /\ table' = table /\ controls' = controls /\ values' = values
      /\ plugged' = plugged /\ fn' = fn /\ result' = result /\ troubled' = troubled
      /\ written' = written
  BY DEF QueryExtCtrl, device
<1>2. /\ TypeOK /\ Holds /\ controls \in Devices /\ index \in 0 .. MaxEntries
      /\ fn = "query_controls" /\ Len(out) = index /\ TrueList(out, controls, troubled)
  BY <1>1 DEF IInv, TypeOK, Calls, AtQueryExtCtrl
<1>3. Len(controls) \in 0 .. MaxEntries
  BY <1>2, ControlFacts
<1>4. index \in Nat /\ index + 1 \in 0 .. MaxEntries /\ index + 1 <= Len(controls)
      /\ index + 1 \in Ids
  BY <1>1, <1>2, <1>3, BoundsAssumption DEF Ids
<1>5. /\ c \in Controls /\ c.minimum \in c.minimum .. c.maximum
      /\ c.minimum \in Int /\ c.maximum \in Int /\ c.minimum <= c.maximum
      /\ c.step \in Nat
  <2>1. \A i \in Ids :
          /\ controls[i] \in Controls
          /\ controls[i].minimum \in controls[i].minimum .. controls[i].maximum
          /\ controls[i].minimum \in Int /\ controls[i].maximum \in Int
          /\ controls[i].minimum <= controls[i].maximum
          /\ controls[i].step \in Nat
    BY <1>2, ControlFacts
  <2> QED BY <1>4, <2>1
<1>6. Ids' = Ids /\ Tables' = Tables
  BY <1>1 DEF Ids, Tables
<1>7. Holds' /\ (at' # "app" => ListsAreHonest' /\ ReadsBackWhatFits' /\ ToDiscreteExact')
  BY <1>1, <1>2, HoldsStays DEF ListsAreHonest, ReadsBackWhatFits, ToDiscreteExact
<1>8. CASE IsMenu(c)
  <2>1. at' = "QUERYMENU" /\ menu' = c.minimum /\ out' = out /\ c.step # 0
    BY <1>8 DEF QueryExtCtrl
  <2>2. controls'[index'] = c
    BY <1>1
  <2>3. TypeOK'
    BY <1>1, <1>2, <1>4, <1>5, <1>6, <2>1, <2>2 DEF TypeOK
  <2>4. menu' \in Steps(c) /\ Lists(items', Below(c, menu'), troubled')
    <3>1. c.minimum \in Steps(c) /\ Below(c, c.minimum) = {}
      <4> HIDE DEF c
      <4> QED BY <1>5, FirstStep
    <3> HIDE DEF c
    <3> QED BY <1>1, <2>1, <3>1, ListsNothing
  <2>5. AtQuerymenu'
    <3>1. index' \in Ids' /\ Len(out') = index' - 1
      BY <1>1, <1>2, <1>4, <1>6, <2>1
    <3>2. /\ IsMenu(controls'[index']) /\ controls'[index'].step # 0
          /\ TrueList(out', controls', troubled')
      BY <1>1, <1>2, <1>8, <2>1, <2>2
    <3>3. /\ menu' \in Steps(controls'[index'])
          /\ Lists(items', Below(controls'[index'], menu'), troubled')
      BY <2>2, <2>4
    <3> QED BY <1>1, <1>2, <3>1, <3>2, <3>3 DEF AtQuerymenu
  <2>6. Calls'
    BY <2>1, <2>5 DEF Calls, AtEnum, AtQueryExtCtrl, AtGetExtCtrls, AtSetExtCtrls
  <2> QED BY <1>7, <2>1, <2>3, <2>6 DEF IInv
<1>9. CASE ~IsMenu(c)
  <2> DEFINE e == Described(index + 1, << >>)
  <2>1. at' = at /\ out' = Append(out, e)
    BY <1>9 DEF QueryExtCtrl
  <2>2. e \in Entries /\ e.id = index + 1
    <3>1. << >> \in Seq(Int) /\ c.typ \in ControlTypes
      BY <1>5, EmptySeq DEF Controls
    <3> QED BY <1>4, <3>1 DEF Described, Entries
  <2>3. TypeOK'
    BY <1>1, <1>2, <1>4, <1>6, <2>1 DEF TypeOK
  <2>4. TrueList(out', controls, troubled) /\ Len(out') = index + 1
    <3> HIDE DEF e
    <3> QED BY <1>2, <1>9, <2>1, <2>2, TrueListGrows
  <2>5. Calls'
    BY <1>1, <1>2, <1>4, <2>1, <2>4
       DEF Calls, AtEnum, AtQueryExtCtrl, AtQuerymenu, AtGetExtCtrls, AtSetExtCtrls
  <2> QED BY <1>1, <1>7, <2>1, <2>3, <2>5 DEF IInv
<1> QED BY <1>8, <1>9

LEMMA QueryExtCtrlPanicsPreserves ==
  ASSUME IInv, QueryExtCtrlPanics
  PROVE  IInv'
<1>1. /\ at = "QUERY_EXT_CTRL" /\ index < Len(controls) /\ Return("panic", << >>)
      /\ IsMenu(controls[index + 1]) /\ controls[index + 1].step = 0
      /\ UNCHANGED << values, troubled, written >>
  BY DEF QueryExtCtrlPanics
<1>2. TypeOK /\ Holds /\ controls \in Devices /\ index \in Nat /\ fn = "query_controls"
  BY <1>1, BoundsAssumption DEF IInv, TypeOK, Calls, AtQueryExtCtrl
<1>3. controls' = controls /\ fn' = fn /\ result' = "panic"
  BY <1>1 DEF Return
<1>4. index + 1 \in Ids'
  <2>1. Len(controls) \in Nat
    BY <1>2, ControlFacts, BoundsAssumption
  <2> QED BY <1>1, <1>2, <1>3, <2>1 DEF Ids
<1>5. ListsAreHonest' /\ ReadsBackWhatFits'
  BY <1>1, <1>2, <1>3, <1>4 DEF ListsAreHonest, ReadsBackWhatFits
<1>6. /\ troubled' \in BOOLEAN
      /\ \A i \in Ids : values'[i] \in controls[i].minimum .. controls[i].maximum
      /\ \A i \in Ids : written'[i] \subseteq Numbers
      /\ Holds'
  BY <1>1, <1>2, <1>3, HoldsStays DEF TypeOK
<1> QED BY <1>1, <1>5, <1>6, ReturnPreserves

LEMMA QueryExtCtrlFailsPreserves ==
  ASSUME IInv, QueryExtCtrlFails
  PROVE  IInv'
<1>1. PICK e \in Errnos :
        /\ at = "QUERY_EXT_CTRL" /\ Fails(e, index = Len(controls))
        /\ \/ Fail(e)
           \/ e = "EINVAL" /\ Return("ok", out)
        /\ UNCHANGED << values, written >>
  BY DEF QueryExtCtrlFails
<1>2. /\ TypeOK /\ Holds /\ controls \in Devices /\ fn = "query_controls"
      /\ Len(out) = index /\ TrueList(out, controls, troubled)
  BY <1>1 DEF IInv, TypeOK, Calls, AtQueryExtCtrl
<1>3. table' = table /\ controls' = controls /\ fn' = fn /\ values' = values
      /\ written' = written
  BY <1>1 DEF Fail, Return
<1>4. /\ troubled' \in BOOLEAN
      /\ \A i \in Ids : values'[i] \in controls[i].minimum .. controls[i].maximum
      /\ \A i \in Ids : written'[i] \subseteq Numbers
      /\ Holds'
  BY <1>1, <1>2, <1>3, HoldsStays DEF Fails, TypeOK
<1>5. CASE Fail(e)
  BY <1>1, <1>4, <1>5, FailPreserves
<1>6. CASE e = "EINVAL" /\ Return("ok", out)
  <2>1. ~Trouble(e)
    BY <1>6, FaultsAssumption DEF Trouble
  <2>2. index = Len(controls) /\ troubled' = troubled
    BY <1>1, <2>1 DEF Fails
  <2>3. out' = out
    BY <1>6 DEF Return
  <2>4. \A i \in Ids : i \in 1 .. Len(out')
    BY <1>2, <2>2, <2>3 DEF Ids
  <2>5. \A i \in 1 .. Len(out') :
          /\ out'[i].id = i
          /\ IsMenu(controls'[i]) =>
               /\ controls'[i].step # 0
               /\ Range(out'[i].items) \subseteq Items(controls'[i])
               /\ Ascending(out'[i].items)
               /\ ~troubled' => Range(out'[i].items) = Items(controls'[i])
    BY <1>2, <1>3, <2>2, <2>3 DEF TrueList, Lists
  <2>6. Ids' = Ids
    BY <1>3 DEF Ids
  <2>7. result' = "ok"
    BY <1>6 DEF Return
  <2>8. ListsAreHonest'
    BY <1>2, <1>3, <2>2, <2>3, <2>4, <2>5, <2>6, <2>7 DEF ListsAreHonest, Enumerations
  <2>9. ReadsBackWhatFits'
    BY <1>2, <1>3 DEF ReadsBackWhatFits
  <2> QED BY <1>1, <1>4, <1>6, <2>8, <2>9, ReturnPreserves
<1> QED BY <1>1, <1>5, <1>6

\* The next item of a menu, or the next control.
LEMMA NextItemPreserves ==
  ASSUME IInv, at = "QUERYMENU", NEW its, NextItem(its), UNCHANGED << values, written, plugged >>,
         troubled' = troubled \/ troubled' = TRUE,
         Lists(its, Below(controls[index], menu + controls[index].step), troubled')
  PROVE  IInv'
<1> DEFINE c == controls[index]
<1>1. /\ table' = table /\ controls' = controls /\ values' = values
      /\ plugged' = plugged /\ fn' = fn /\ result' = result /\ index' = index
      /\ written' = written /\ items' = its
  BY DEF NextItem, device
<1>2. /\ TypeOK /\ Holds /\ controls \in Devices /\ index \in Ids /\ index \in 0 .. MaxEntries
      /\ fn = "query_controls" /\ Len(out) = index - 1 /\ TrueList(out, controls, troubled)
      /\ menu \in c.minimum .. c.maximum /\ menu \in Steps(c) /\ IsMenu(c) /\ c.step # 0
  BY DEF IInv, TypeOK, Calls, AtQuerymenu
<1>3. /\ c \in Controls /\ c.step \in Nat \ {0}
      /\ c.minimum \in Int /\ c.maximum \in Int
  BY <1>2, ControlFacts
<1> DEFINE next == menu + c.step
<1>4. /\ menu \in Int /\ next \in Int
      /\ next <= c.maximum => next \in Steps(c)
      /\ next > c.maximum => Below(c, next) = Items(c)
      /\ Lists(its, Below(c, next), troubled')
  <2>1. Lists(its, Below(c, next), troubled')
    OBVIOUS
  <2> HIDE DEF c
  <2> QED BY <1>2, <1>3, <2>1, NextStep
<1>5. Ids' = Ids /\ Tables' = Tables
  BY <1>1 DEF Ids, Tables
<1>6. troubled' \in BOOLEAN /\ TrueList(out, controls, troubled')
  BY <1>2, TrueListTroubled DEF TypeOK
<1>7. Holds'
  BY <1>1, <1>2, HoldsStays
<1>8. Len(controls) \in Nat /\ index \in 1 .. Len(controls)
  BY <1>2, ControlFacts DEF Ids
<1>9. CASE next <= c.maximum
  <2>1. menu' = next /\ at' = at /\ out' = out
    BY <1>2, <1>3, <1>4, <1>9 DEF NextItem
  <2>2. menu' \in c.minimum .. c.maximum
    BY <1>2, <1>3, <1>4, <1>9, <2>1
  <2>3. TypeOK'
    BY <1>1, <1>2, <1>5, <1>6, <2>1, <2>2 DEF TypeOK
  <2>4. AtQuerymenu'
    <3>1. menu' \in Steps(c) /\ Lists(items', Below(c, menu'), troubled')
      <4> HIDE DEF c
      <4> QED BY <1>1, <1>4, <1>9, <2>1
    <3> QED BY <1>1, <1>2, <1>5, <1>6, <2>1, <3>1 DEF AtQuerymenu
  <2>5. Calls'
    BY <2>1, <2>4 DEF Calls, AtEnum, AtQueryExtCtrl, AtGetExtCtrls, AtSetExtCtrls
  <2>6. ListsAreHonest' /\ ReadsBackWhatFits' /\ ToDiscreteExact'
    BY <2>1 DEF ListsAreHonest, ReadsBackWhatFits, ToDiscreteExact
  <2> QED BY <1>7, <2>3, <2>5, <2>6 DEF IInv
<1>10. CASE next > c.maximum
  <2> DEFINE e == Described(index, its)
  <2>1. at' = "QUERY_EXT_CTRL" /\ out' = Append(out, e)
    BY <1>2, <1>3, <1>4, <1>10 DEF NextItem
  <2>2. Lists(its, Items(c), troubled')
    <3> HIDE DEF c
    <3> QED BY <1>4, <1>10
  <2>3. e \in Entries /\ e.id = Len(out) + 1 /\ e.id = index /\ e.items = its
    <3>1. its \in Seq(Int) /\ c.typ \in ControlTypes
      BY <1>3, <2>2 DEF Controls, Lists
    <3> QED BY <1>2, <1>8, <3>1 DEF Described, Entries
  <2>4. TrueList(out', controls, troubled') /\ Len(out') = index
    <3> HIDE DEF e
    <3> QED BY <1>2, <1>6, <1>8, <2>1, <2>2, <2>3, TrueListGrows
  <2>5. TypeOK'
    BY <1>1, <1>2, <1>5, <1>6, <2>1 DEF TypeOK
  <2>6. Calls'
    BY <1>1, <1>2, <1>8, <2>1, <2>4
       DEF Calls, AtEnum, AtQueryExtCtrl, AtQuerymenu, AtGetExtCtrls, AtSetExtCtrls
  <2>7. ListsAreHonest' /\ ReadsBackWhatFits' /\ ToDiscreteExact'
    BY <2>1 DEF ListsAreHonest, ReadsBackWhatFits, ToDiscreteExact
  <2> QED BY <1>7, <2>5, <2>6, <2>7 DEF IInv
<1>11. next <= c.maximum \/ next > c.maximum
  BY <1>3, <1>4
<1> QED BY <1>9, <1>10, <1>11

LEMMA QuerymenuPreserves ==
  ASSUME IInv, Querymenu \/ QuerymenuFails
  PROVE  IInv'
<1> DEFINE c == controls[index]
           next == menu + c.step
<1>1. at = "QUERYMENU"
  BY DEF Querymenu, QuerymenuFails
<1>2. /\ controls \in Devices /\ index \in Ids /\ c.step # 0
      /\ menu \in Steps(c) /\ Lists(items, Below(c, menu), troubled)
  BY <1>1 DEF IInv, TypeOK, Calls, AtQuerymenu
<1>3. c.minimum \in Int /\ c.maximum \in Int /\ c.step \in Nat \ {0}
  BY <1>2, ControlFacts
<1>4. /\ menu \in Int /\ Below(c, next) = Below(c, menu) \cup ({menu} \cap Items(c))
      /\ Below(c, menu) \subseteq Below(c, next)
      /\ menu \in c.known => menu \in Items(c)
      /\ menu \notin c.known => menu \notin Items(c)
  <2>1. Items(c) = c.known \cap Steps(c)
    BY DEF Items, Steps
  <2> HIDE DEF c
  <2>2. menu \in Int /\ Below(c, next) = Below(c, menu) \cup ({menu} \cap Items(c))
    BY <1>2, <1>3, NextStep
  <2> QED BY <1>2, <2>1, <2>2
<1>5. CASE Querymenu
  <2>1. menu \in c.known /\ NextItem(Append(items, menu)) /\ troubled' = troubled
        /\ UNCHANGED << values, written, plugged >>
    BY <1>5 DEF Querymenu, NextItem, device
  <2>2. Lists(Append(items, menu), Below(c, next), troubled)
    <3> HIDE DEF c, next
    <3>1. Below(c, next) = Below(c, menu) \cup {menu}
      BY <1>4, <2>1
    <3>2. \A x \in Below(c, menu) : x < menu
      BY DEF Below
    <3> QED BY <1>2, <1>4, <3>1, <3>2, ListsGrow
  <2> QED BY <1>1, <2>1, <2>2, NextItemPreserves
<1>6. CASE QuerymenuFails
  <2>1. PICK e \in Errnos : Fails(e, menu \notin c.known) /\ NextItem(items)
    BY <1>6 DEF QuerymenuFails
  <2>2. troubled' = TRUE \/ (menu \notin c.known /\ troubled' = troubled)
    BY <2>1 DEF Fails
  <2>3. UNCHANGED << values, written, plugged >>
    BY <2>1 DEF NextItem, device
  <2>4. Lists(items, Below(c, next), troubled')
    <3> HIDE DEF c, next
    <3>1. CASE troubled' = TRUE
      BY <1>2, <1>4, <3>1, ListsMiss
    <3>2. CASE menu \notin c.known /\ troubled' = troubled
      <4>1. Below(c, next) = Below(c, menu)
        BY <1>4, <3>2
      <4> QED BY <1>2, <3>2, <4>1
    <3> QED BY <2>2, <3>1, <3>2
  <2> QED BY <1>1, <2>1, <2>2, <2>3, <2>4, NextItemPreserves
<1> QED BY <1>5, <1>6

-------------------------------------------------------------------------------
(* Values of controls.                                                     *)

LEMMA GetExtCtrlsPreserves ==
  ASSUME IInv, GetExtCtrls
  PROVE  IInv'
<1> DEFINE c == controls[index]
           v == ValueRead(c, values[index])
<1>1. at = "G_EXT_CTRLS" /\ values' = values /\ troubled' = troubled /\ written' = written
  BY DEF GetExtCtrls
<1>2. TypeOK /\ Holds /\ controls \in Devices /\ fn = "control" /\ index \in Ids
  BY <1>1 DEF IInv, TypeOK, Calls, AtGetExtCtrls
<1>3. (v # << >> /\ Return("ok", v)) \/ Fail("Other")
  BY DEF GetExtCtrls
<1>4. controls' = controls /\ fn' = fn /\ index' = index
  BY <1>3 DEF Fail, Return
<1>5. /\ troubled' \in BOOLEAN
      /\ \A i \in Ids : values'[i] \in controls[i].minimum .. controls[i].maximum
      /\ \A i \in Ids : written'[i] \subseteq Numbers
      /\ Holds'
  BY <1>1, <1>2, <1>4, HoldsStays DEF TypeOK
<1>6. CASE v # << >> /\ Return("ok", v)
  <2>1. out' = v
    BY <1>6 DEF Return
  <2>2. c.typ \in Readable
    BY <1>6 DEF ValueRead, Readable
  <2>3. ASSUME NEW w \in written[index] \cap (c.minimum .. c.maximum)
        PROVE  v[1] = IF c.typ = "Boolean" THEN w = 1 ELSE w
    <3>1. values[index] = w
      BY <1>2, <2>2 DEF Holds
    <3>2. v = << IF c.typ = "Boolean" THEN w = 1 ELSE w >>
      BY <1>2, <2>2, <3>1, FitsIsKept
    <3> HIDE DEF v
    <3> QED BY <3>2
  <2>4. ReadsBackWhatFits'
    <3> HIDE DEF v
    <3> QED BY <1>1, <1>4, <2>1, <2>3 DEF ReadsBackWhatFits
  <2>5. ListsAreHonest'
    BY <1>2, <1>4 DEF ListsAreHonest, Enumerations
  <2>6. at # "app"
    BY <1>1
  <2> HIDE DEF v
  <2> QED BY <1>5, <1>6, <2>4, <2>5, <2>6, ReturnPreserves
<1>7. CASE Fail("Other")
  <2>1. "Other" \in Errnos
    BY DEF Errnos
  <2> QED BY <1>1, <1>5, <1>7, <2>1, FailPreserves
<1> QED BY <1>3, <1>6, <1>7

LEMMA GetExtCtrlsFailsPreserves ==
  ASSUME IInv, GetExtCtrlsFails
  PROVE  IInv'
<1>1. PICK e \in Errnos :
        /\ at = "G_EXT_CTRLS" /\ troubled' = TRUE
        /\ Fail(e) /\ UNCHANGED << values, written >>
  BY DEF GetExtCtrlsFails
<1>2. TypeOK /\ Holds
  BY DEF IInv
<1>3. controls' = controls
  BY <1>1 DEF Fail, Return
<1>4. /\ troubled' \in BOOLEAN
      /\ \A i \in Ids : values'[i] \in controls[i].minimum .. controls[i].maximum
      /\ \A i \in Ids : written'[i] \subseteq Numbers
      /\ Holds'
  BY <1>1, <1>2, <1>3, HoldsStays DEF TypeOK
<1> QED BY <1>1, <1>4, FailPreserves

WritesTo(i, n) == {k \in 1 .. n : arg[k][1] = i}

\* What the driver holds after n of the writes of a call.
LEMMA AfterWrites ==
  ASSUME TypeOK, arg \in Seq(Writes), NEW n \in 0 .. Len(arg), NEW sent \in Sent, NEW i \in Ids
  PROVE  /\ After(sent, n)[i] \in controls[i].minimum .. controls[i].maximum
         /\ WritesTo(i, n) = {} => After(sent, n)[i] = values[i]
         /\ WritesTo(i, n) # {} =>
              /\ Max(WritesTo(i, n)) \in 1 .. n
              /\ arg[Max(WritesTo(i, n))] \in Writes
              /\ arg[Max(WritesTo(i, n))][1] = i
              /\ ~Payload(controls[i]) =>
                   After(sent, n)[i] = Stored(controls[i], arg[Max(WritesTo(i, n))][2])
<1> DEFINE ks == WritesTo(i, n)
           js == {k \in 1 .. n : sent[k][1] = i}
<1>1. Len(arg) \in Nat /\ DOMAIN arg = 1 .. Len(arg) /\ n \in Nat
      /\ \A k \in 1 .. n : k \in DOMAIN arg /\ arg[k] \in Writes
  BY LenProperties, ElementOfSeq
<1>2. /\ \A k \in 1 .. n : sent[k] \in Writes /\ sent[k][1] = arg[k][1]
      /\ \A k \in 1 .. n : ~Payload(controls[arg[k][1]]) => sent[k][2] = arg[k][2]
  BY <1>1 DEF Sent, Writes
<1>3. js = ks
  BY <1>2 DEF WritesTo
<1>4. After(sent, n)[i] = IF js = {} THEN values[i] ELSE Stored(controls[i], sent[Max(js)][2])
  BY DEF After
<1>5. controls \in Devices /\ values[i] \in controls[i].minimum .. controls[i].maximum
  BY DEF TypeOK
<1>6. ks \in SUBSET (1 .. n) /\ \A k \in ks : arg[k][1] = i
  BY DEF WritesTo
<1> HIDE DEF ks, js
<1>7. CASE ks = {}
  BY <1>3, <1>4, <1>5, <1>7 DEF ks
<1>8. CASE ks # {}
  <2>1. Max(ks) \in ks
    BY <1>1, <1>6, <1>8, MaxOf
  <2>2. Max(ks) \in 1 .. n /\ arg[Max(ks)][1] = i
    BY <1>6, <2>1
  <2>3. After(sent, n)[i] = Stored(controls[i], sent[Max(ks)][2])
    BY <1>3, <1>4, <1>8
  <2>4. sent[Max(ks)] \in Writes /\ arg[Max(ks)] \in Writes
    BY <1>1, <1>2, <2>2
  <2>5. sent[Max(ks)][2] \in Numbers
    BY <2>4 DEF Writes
  <2>6. Stored(controls[i], sent[Max(ks)][2]) \in controls[i].minimum .. controls[i].maximum
    BY <1>5, <2>5, StoredInRange
  <2>7. ~Payload(controls[i]) => sent[Max(ks)][2] = arg[Max(ks)][2]
    BY <1>2, <2>2
  <2> QED BY <1>8, <2>2, <2>3, <2>4, <2>6, <2>7 DEF ks
<1> QED BY <1>7, <1>8

LEMMA SetExtCtrlsPreserves ==
  ASSUME IInv, SetExtCtrls
  PROVE  IInv'
<1>1. PICK sent \in Sent : values' = After(sent, Len(arg))
  BY DEF SetExtCtrls
<1>2. at = "S_EXT_CTRLS" /\ written' = [i \in Ids |-> LastWrite(i)]
      /\ Return("ok", << >>) /\ troubled' = troubled
  BY DEF SetExtCtrls
<1>3. TypeOK /\ Holds /\ controls \in Devices /\ fn = "set_controls" /\ arg \in Seq(Writes)
  BY <1>2 DEF IInv, TypeOK, Calls, AtSetExtCtrls
<1>4. controls' = controls /\ fn' = fn
  BY <1>2 DEF Return
<1>5. Len(arg) \in 0 .. Len(arg) /\ DOMAIN arg = 1 .. Len(arg)
  BY <1>3, LenProperties
<1>6. ASSUME NEW i \in Ids
      PROVE  /\ values'[i] \in controls[i].minimum .. controls[i].maximum
             /\ written'[i] \subseteq Numbers
             /\ controls[i].typ \in Readable =>
                  \A w \in written'[i] \cap (controls[i].minimum .. controls[i].maximum) :
                    values'[i] = w
  <2> DEFINE ks == WritesTo(i, Len(arg))
  <2>1. /\ values'[i] \in controls[i].minimum .. controls[i].maximum
        /\ ks = {} => values'[i] = values[i]
        /\ ks # {} => /\ arg[Max(ks)] \in Writes
                      /\ ~Payload(controls[i]) =>
                           values'[i] = Stored(controls[i], arg[Max(ks)][2])
    BY <1>1, <1>3, <1>5, AfterWrites
  <2>2. written'[i] = IF ks = {} THEN written[i] ELSE {arg[Max(ks)][2]}
    BY <1>2, <1>5 DEF LastWrite, WritesTo
  <2> HIDE DEF ks
  <2>3. CASE ks = {}
    BY <1>3, <2>1, <2>2, <2>3 DEF TypeOK, Holds
  <2>4. CASE ks # {}
    <3>1. arg[Max(ks)][2] \in Numbers
      BY <2>1, <2>4 DEF Writes
    <3>2. ASSUME controls[i].typ \in Readable,
                 arg[Max(ks)][2] \in controls[i].minimum .. controls[i].maximum
          PROVE  values'[i] = arg[Max(ks)][2]
      <4>1. ~Payload(controls[i])
        BY <3>2 DEF Readable, Payload
      <4> QED BY <1>3, <2>1, <2>4, <3>2, <4>1, FitsIsKept
    <3> QED BY <2>1, <2>2, <2>4, <3>1, <3>2
  <2> QED BY <2>3, <2>4
<1>7. Holds'
  BY <1>4, <1>6 DEF Holds, Ids
<1>8. ListsAreHonest' /\ ReadsBackWhatFits'
  BY <1>3, <1>4 DEF ListsAreHonest, ReadsBackWhatFits, Enumerations
<1>9. at # "app" /\ troubled' \in BOOLEAN
  BY <1>2, <1>3 DEF TypeOK
<1> QED BY <1>2, <1>6, <1>7, <1>8, <1>9, ReturnPreserves

LEMMA SetExtCtrlsFailsPreserves ==
  ASSUME IInv, SetExtCtrlsFails
  PROVE  IInv'
<1>1. at = "S_EXT_CTRLS" /\ troubled' = TRUE
  BY DEF SetExtCtrlsFails
<1>2. PICK e \in Errnos, n \in 0 .. Len(arg), sent \in Sent :
        /\ values' = After(sent, n)
        /\ written' = [i \in Ids |-> IF \E k \in 1 .. n : arg[k][1] = i THEN {}
                                     ELSE written[i]]
        /\ Fail(e)
  BY DEF SetExtCtrlsFails
<1>3. TypeOK /\ Holds /\ arg \in Seq(Writes)
  BY <1>1 DEF IInv, Calls, AtSetExtCtrls
<1>4. controls' = controls
  BY <1>2 DEF Fail, Return
<1>5. ASSUME NEW i \in Ids
      PROVE  /\ values'[i] \in controls[i].minimum .. controls[i].maximum
             /\ written'[i] \subseteq Numbers
             /\ controls[i].typ \in Readable =>
                  \A w \in written'[i] \cap (controls[i].minimum .. controls[i].maximum) :
                    values'[i] = w
  <2>1. /\ values'[i] \in controls[i].minimum .. controls[i].maximum
        /\ WritesTo(i, n) = {} => values'[i] = values[i]
    BY <1>2, <1>3, AfterWrites
  <2>2. written'[i] = IF WritesTo(i, n) # {} THEN {} ELSE written[i]
    BY <1>2 DEF WritesTo
  <2> QED BY <1>3, <2>1, <2>2 DEF TypeOK, Holds
<1>6. Holds'
  BY <1>4, <1>5 DEF Holds, Ids
<1> QED BY <1>1, <1>2, <1>5, <1>6, FailPreserves

\* Writes to no class, or to several, are refused without a system call.
LEMMA RefusedPreserves ==
  ASSUME IInv, at = "app", fn' = "set_controls", result' = "InvalidInput",
         table' = << >>, index' = 0, troubled' = FALSE,
         UNCHANGED << device, at, written >>
  PROVE  IInv'
<1>1. controls' = controls /\ values' = values /\ plugged' = plugged /\ at' = "app"
      /\ written' = written
  BY DEF device
<1>2. TypeOK /\ Holds /\ controls \in Devices
  BY DEF IInv, TypeOK
<1>3. Ids' = Ids /\ Tables' = Tables
  BY <1>1 DEF Ids, Tables
<1>4. << >> \in Tables /\ 0 \in 0 .. MaxEntries /\ "InvalidInput" \in Errnos
  BY <1>2, TablesFacts, BoundsAssumption DEF Errnos
<1>5. TypeOK'
  BY <1>1, <1>2, <1>3, <1>4 DEF TypeOK
<1>6. Calls'
  BY <1>1 DEF Calls, AtEnum, AtQueryExtCtrl, AtQuerymenu, AtGetExtCtrls, AtSetExtCtrls
<1>7. Holds' /\ ListsAreHonest' /\ ReadsBackWhatFits' /\ ToDiscreteExact'
  BY <1>1, <1>2, HoldsStays DEF ListsAreHonest, ReadsBackWhatFits, ToDiscreteExact
<1> QED BY <1>5, <1>6, <1>7 DEF IInv

-------------------------------------------------------------------------------
(* All of them.                                                            *)

LEMMA ApiCallPreserves ==
  ASSUME IInv, ApiCall
  PROVE  IInv'
<1>1. << >> \in Tables /\ 0 \in 0 .. MaxEntries /\ Ids \subseteq 0 .. MaxEntries
  BY TablesFacts, ControlFacts, BoundsAssumption DEF IInv, TypeOK, Ids
<1>2. CASE \E f \in Enumerations, t \in Tables : enumerate(f, t)
  <2>1. PICK f \in Enumerations, t \in Tables : Begin(f, t, "ENUM", 0, << >>)
    BY <1>2 DEF enumerate
  <2>2. Begins(f, t, "ENUM", 0, << >>)
    BY <1>1 DEF Begins
  <2> QED BY <2>1, <2>2, BeginPreserves
<1>3. CASE \E size \in [typ : {"discrete", "stepwise"}, width : Ranges, height : Ranges] :
             to_discrete(size)
  BY <1>3, ToDiscretePreserves
<1>4. CASE query_controls
  <2>1. Begins("query_controls", << >>, "QUERY_EXT_CTRL", 0, << >>)
    BY <1>1 DEF Begins
  <2> QED BY <1>4, <2>1, BeginPreserves DEF query_controls
<1>5. CASE \E i \in Ids : control(i)
  <2>1. PICK i \in Ids : Begin("control", << >>, "G_EXT_CTRLS", i, << >>)
    BY <1>5 DEF control
  <2>2. Begins("control", << >>, "G_EXT_CTRLS", i, << >>)
    BY <1>1 DEF Begins
  <2> QED BY <2>1, <2>2, BeginPreserves
<1>6. CASE \E ws \in BoundedSeq(Writes, MaxWrites) : set_controls(ws)
  <2>1. PICK ws \in BoundedSeq(Writes, MaxWrites) : set_controls(ws)
    BY <1>6
  <2>2. ws \in Seq(Writes)
    BY BoundedLists, BoundsAssumption
  <2>3. CASE Begin("set_controls", << >>, "S_EXT_CTRLS", 0, ws)
    <3>1. Begins("set_controls", << >>, "S_EXT_CTRLS", 0, ws)
      BY <1>1, <2>2 DEF Begins
    <3> QED BY <2>3, <3>1, BeginPreserves
  <2>4. CASE /\ at = "app" /\ fn' = "set_controls" /\ result' = "InvalidInput"
             /\ table' = << >> /\ index' = 0 /\ troubled' = FALSE
             /\ UNCHANGED << device, at, written >>
    BY <2>4, RefusedPreserves
  <2>5. \/ Begin("set_controls", << >>, "S_EXT_CTRLS", 0, ws)
        \/ /\ at = "app" /\ fn' = "set_controls" /\ result' = "InvalidInput"
           /\ table' = << >> /\ index' = 0 /\ troubled' = FALSE
           /\ UNCHANGED << device, at, written >>
    BY <2>1 DEF set_controls
  <2> QED BY <2>3, <2>4, <2>5
<1> QED BY <1>2, <1>3, <1>4, <1>5, <1>6 DEF ApiCall

\* Nothing that the invariant speaks of depends on the device being there.
LEMMA UnplugPreserves ==
  ASSUME IInv, Unplug \/ UNCHANGED vars
  PROVE  IInv'
<1>1. /\ table' = table /\ controls' = controls /\ values' = values /\ fn' = fn /\ at' = at
      /\ index' = index /\ menu' = menu /\ arg' = arg /\ items' = items /\ out' = out
      /\ result' = result /\ troubled' = troubled /\ written' = written
      /\ plugged' \in {plugged, FALSE}
  BY DEF Unplug, vars, device
<1>2. Ids' = Ids /\ Tables' = Tables /\ Writes' = Writes
  BY <1>1 DEF Ids, Tables, Writes
<1>3. \A n : Found(n)' = Found(n)
  BY <1>1, StillFound
<1>4. Found(index)' = Found(index) /\ Found(Len(table))' = Found(Len(table))
  BY <1>1 DEF Found, Converted
<1>5. TypeOK'
  <2>1. /\ table' \in Tables' /\ controls' \in Devices
        /\ \A i \in Ids' : values'[i] \in controls'[i].minimum .. controls'[i].maximum
        /\ \A i \in Ids' : written'[i] \subseteq Numbers
    BY <1>1, <1>2, Zenon DEF IInv, TypeOK
  <2>2. /\ plugged' \in BOOLEAN /\ troubled' \in BOOLEAN /\ index' \in 0 .. MaxEntries
        /\ at' = "QUERYMENU" =>
             menu' \in controls'[index'].minimum .. controls'[index'].maximum
        /\ result' \in {"none", "ok", "panic"} \cup Errnos
    BY <1>1 DEF IInv, TypeOK
  <2>3. /\ fn' \in Enumerations
                  \cup {"none", "query_controls", "control", "set_controls", "to_discrete"}
        /\ at' \in {"app", "ENUM", "QUERY_EXT_CTRL", "QUERYMENU", "G_EXT_CTRLS",
                    "S_EXT_CTRLS"}
    BY <1>1 DEF IInv, TypeOK
  <2> QED BY <2>1, <2>2, <2>3 DEF TypeOK
<1>6. Calls'
  <2>1. AtEnum'
    BY <1>1, <1>4 DEF IInv, Calls, AtEnum
  <2>2. AtQueryExtCtrl'
    BY <1>1 DEF IInv, Calls, AtQueryExtCtrl
  <2>3. AtQuerymenu'
    BY <1>1, <1>2 DEF IInv, Calls, AtQuerymenu
  <2>4. AtGetExtCtrls' /\ AtSetExtCtrls'
    BY <1>1, <1>2 DEF IInv, Calls, AtGetExtCtrls, AtSetExtCtrls
  <2> QED BY <2>1, <2>2, <2>3, <2>4 DEF Calls
<1>7. Holds'
  BY <1>1, HoldsStays DEF IInv
<1>8. ListsAreHonest'
  BY <1>1, <1>2, <1>3, <1>4 DEF IInv, ListsAreHonest
<1>9. ReadsBackWhatFits' /\ ToDiscreteExact'
  BY <1>1 DEF IInv, ReadsBackWhatFits, ToDiscreteExact
<1> QED BY <1>5, <1>6, <1>7, <1>8, <1>9 DEF IInv

LEMMA StepPreserves ==
  ASSUME IInv, [Next]_vars
  PROVE  IInv'
<1>1. CASE ApiCall
  BY <1>1, ApiCallPreserves
<1>2. CASE EnumEntry \/ EnumFails
  BY <1>2, EnumEntryPreserves, EnumFailsPreserves
<1>3. CASE QueryExtCtrl \/ QueryExtCtrlPanics \/ QueryExtCtrlFails
  BY <1>3, QueryExtCtrlPreserves, QueryExtCtrlPanicsPreserves, QueryExtCtrlFailsPreserves
<1>4. CASE Querymenu \/ QuerymenuFails
  BY <1>4, QuerymenuPreserves
<1>5. CASE GetExtCtrls \/ GetExtCtrlsFails
  BY <1>5, GetExtCtrlsPreserves, GetExtCtrlsFailsPreserves
<1>6. CASE SetExtCtrls \/ SetExtCtrlsFails
  BY <1>6, SetExtCtrlsPreserves, SetExtCtrlsFailsPreserves
<1>7. CASE Unplug \/ UNCHANGED vars
  BY <1>7, UnplugPreserves
<1> QED BY <1>1, <1>2, <1>3, <1>4, <1>5, <1>6, <1>7 DEF Next, SyscallStep

LEMMA Invariance == Spec => []IInv
<1>1. Init => IInv
  BY InitInvariant
<1>2. IInv /\ [Next]_vars => IInv'
  BY StepPreserves
<1> QED BY <1>1, <1>2, PTL DEF Spec

-------------------------------------------------------------------------------
(* The results.                                                            *)

\* Each variable keeps its type; an index stays within its list, an item within
\* the range of its menu, and a value within that of its control.
THEOREM TypeCorrect == Spec => []TypeOK
<1>1. IInv => TypeOK
  BY DEF IInv
<1> QED BY <1>1, Invariance, PTL

\* A list that a query returned is true, and complete unless a system call that
\* had an answer failed; query_controls panics only on a menu with a step of zero,
\* and never lists one.
THEOREM HonestLists == Spec => []ListsAreHonest
<1>1. IInv => ListsAreHonest
  BY DEF IInv
<1> QED BY <1>1, Invariance, PTL

\* control reads what set_controls wrote, if it fits.
THEOREM ReadsBack == Spec => []ReadsBackWhatFits
<1>1. IInv => ReadsBackWhatFits
  BY DEF IInv
<1> QED BY <1>1, Invariance, PTL

\* to_discrete gives every frame size of a stepwise entry, each once, in order, or
\* panics if there is one to be reached by a step of zero.
THEOREM DiscreteSizes == Spec => []ToDiscreteExact
<1>1. IInv => ToDiscreteExact
  BY DEF IInv
<1> QED BY <1>1, Invariance, PTL

===============================================================================
