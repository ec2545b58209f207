----------------------------- MODULE ListsProofs -----------------------------
(***************************************************************************)
(* What Without computes, for every list.  The proofs are inductions that  *)
(* look at the least number for which a statement fails.                   *)
(***************************************************************************)
EXTENDS Lists, SequencesExt, WellFoundedInduction, FiniteSetTheorems,
        SequenceTheorems, TLAPS

Below == {p \in Nat \X Nat : p[1] < p[2]}

\* A set of numbers that is not empty has a least element.
LEMMA LeastNumber ==
    ASSUME NEW T \in SUBSET Nat, T # {}
    PROVE  \E n \in T : \A k \in T : n <= k
<1>1. IsWellFoundedOn(Below, Nat)
  BY NatLessThanWellFounded DEF OpToRel, Below
<1>2. PICK n \in T : \A k \in T : ~(<<k, n>> \in Below)
  BY <1>1, WFMin
<1>3. ASSUME NEW k \in T PROVE n <= k
  <2>1. <<k, n>> \in Nat \X Nat /\ <<k, n>> \notin Below
    BY <1>2
  <2>2. ~(k < n)
    BY <2>1 DEF Below
  <2>. QED
    BY <2>2
<1>. QED
  BY <1>3

\* Induction on the numbers up to some length: what holds at 0 and is handed on
\* from i to i + 1 holds of all of them.
LEMMA UpTo ==
    ASSUME NEW m \in Nat, NEW T \in SUBSET (0 .. m), 0 \in T,
           \A i \in 0 .. m : i \in T /\ i + 1 <= m => i + 1 \in T
    PROVE  T = 0 .. m
<1>. SUFFICES ASSUME (0 .. m) \ T # {} PROVE FALSE
  OBVIOUS
<1>. DEFINE U == (0 .. m) \ T
<1>0. U \in SUBSET Nat /\ U # {}
  OBVIOUS
<1>. HIDE DEF U
<1>1. PICK n \in U : \A k \in U : n <= k
  BY <1>0, LeastNumber
<1>2. n - 1 \in 0 .. m /\ n - 1 \in T
  BY <1>1 DEF U
<1>. QED
  BY <1>1, <1>2 DEF U

-----------------------------------------------------------------------------
\* f is the table Without computes, up to entry m.
Table(f, s, a, m) ==
    f = [i \in 0 .. m |->
           IF i = 0 THEN <<>>
           ELSE IF s[i] = a THEN f[i - 1] ELSE Append(f[i - 1], s[i])]

\* There is such a table, of every length.
LEMMA TableExists ==
    ASSUME NEW s, NEW a, NEW m \in Nat
    PROVE  \E f : Table(f, s, a, m)
<1>. DEFINE T == {k \in 0 .. m : \E f : Table(f, s, a, k)}
<1>1. 0 \in T
  <2>1. Table([i \in 0 .. 0 |-> <<>>], s, a, 0)
    BY DEF Table
  <2>. QED
    BY <2>1
<1>2. ASSUME NEW k \in T, k + 1 <= m PROVE k + 1 \in T
  <2>1. PICK f : Table(f, s, a, k)
    OBVIOUS
  <2>. DEFINE e == IF s[k + 1] = a THEN f[k] ELSE Append(f[k], s[k + 1])
              g == [i \in 0 .. k + 1 |-> IF i = k + 1 THEN e ELSE f[i]]
  <2>2. \A i \in 0 .. k + 1 :
          g[i] = IF i = 0 THEN <<>>
                 ELSE IF s[i] = a THEN g[i - 1] ELSE Append(g[i - 1], s[i])
    <3>1. ASSUME NEW i \in 0 .. k
          PROVE  f[i] = IF i = 0 THEN <<>>
                        ELSE IF s[i] = a THEN f[i - 1] ELSE Append(f[i - 1], s[i])
      BY <2>1 DEF Table
    <3>2. ASSUME NEW i \in 0 .. k PROVE g[i] = f[i]
      OBVIOUS
    <3>3. g[k + 1] = e
      OBVIOUS
    <3>. HIDE DEF g
    <3>4. ASSUME NEW i \in 1 .. k PROVE g[i] = f[i] /\ g[i - 1] = f[i - 1]
      BY <3>2
    <3>5. g[0] = <<>>
      BY <3>1, <3>2
    <3>6. g[k + 1] = IF s[k + 1] = a THEN g[k] ELSE Append(g[k], s[k + 1])
      BY <3>2, <3>3
    <3>. QED
      BY <3>1, <3>4, <3>5, <3>6
  <2>3. Table(g, s, a, k + 1)
    BY <2>2 DEF Table
  <2>. HIDE DEF g
  <2>4. \E h : Table(h, s, a, k + 1)
    BY <2>3
  <2>. QED
    BY <1>2, <2>4
<1>. HIDE DEF T
<1>3. T = 0 .. m
  BY <1>1, <1>2, UpTo DEF T
<1>. QED
  BY <1>3 DEF T

LEMMA WithoutIsEntry ==
    ASSUME NEW S, NEW s \in Seq(S), NEW a
    PROVE  \E f : Table(f, s, a, Len(s)) /\ Without(s, a) = f[Len(s)]
<1>1. \E f : Table(f, s, a, Len(s))
  <2>1. Len(s) \in Nat
    OBVIOUS
  <2>. QED
    BY <2>1, TableExists
<1>2. Table(CHOOSE f : Table(f, s, a, Len(s)), s, a, Len(s))
  BY <1>1
<1>3. Without(s, a) = (CHOOSE f : Table(f, s, a, Len(s)))[Len(s)]
  BY DEF Without, Table
<1>. QED
  BY <1>2, <1>3

\* No element twice.
Unique(s) == \A i, j \in DOMAIN s : s[i] = s[j] => i = j

\* The empty list is the one with no elements; the head is an element.
LEMMA ListFacts ==
    ASSUME NEW S, NEW s \in Seq(S)
    PROVE  /\ s = <<>> <=> Range(s) = {}
           /\ s # <<>> => Head(s) \in Range(s)
<1>1. DOMAIN s = 1 .. Len(s) /\ Len(s) \in Nat /\ (s = <<>> <=> Len(s) = 0)
  OBVIOUS
<1>2. s # <<>> => Head(s) = s[1] /\ 1 \in DOMAIN s
  BY <1>1
<1>3. s = <<>> => Range(s) = {}
  BY DEF Range
<1>4. s # <<>> => s[1] \in Range(s)
  BY <1>2 DEF Range
<1>. QED
  BY <1>2, <1>3, <1>4

\* What one more element does to a list.
LEMMA AppendFacts ==
    ASSUME NEW S, NEW s \in Seq(S), NEW x \in S
    PROVE  /\ Append(s, x) \in Seq(S)
           /\ Range(Append(s, x)) = Range(s) \cup {x}
           /\ Unique(s) /\ x \notin Range(s) => Unique(Append(s, x))
<1>1. /\ Append(s, x) \in Seq(S) /\ DOMAIN Append(s, x) = 1 .. Len(s) + 1
      /\ \A i \in 1 .. Len(s) : Append(s, x)[i] = s[i]
      /\ Append(s, x)[Len(s) + 1] = x
      /\ DOMAIN s = 1 .. Len(s) /\ Len(s) \in Nat
  OBVIOUS
<1>2. Range(Append(s, x)) = Range(s) \cup {x}
  BY <1>1 DEF Range
<1>3. ASSUME Unique(s), x \notin Range(s) PROVE Unique(Append(s, x))
  BY <1>1, <1>3 DEF Unique, Range
<1>. QED
  BY <1>1, <1>2, <1>3

\* Without(s, a) has the elements of s but a, and none twice if s has none
\* twice.
LEMMA WithoutFacts ==
    ASSUME NEW S, NEW s \in Seq(S), NEW a
    PROVE  /\ Without(s, a) \in Seq(S)
           /\ Range(Without(s, a)) = Range(s) \ {a}
           /\ Unique(s) => Unique(Without(s, a))
<1>1. PICK f : Table(f, s, a, Len(s)) /\ Without(s, a) = f[Len(s)]
  BY WithoutIsEntry
<1>. DEFINE Upper(i) == {s[j] : j \in 1 .. i}
            Good(i) == /\ f[i] \in Seq(S)
                       /\ Range(f[i]) = Upper(i) \ {a}
                       /\ Unique(s) => Unique(f[i])
            T == {i \in 0 .. Len(s) : Good(i)}
<1>2. f[0] = <<>>
  BY <1>1 DEF Table
<1>3. ASSUME NEW i \in 0 .. Len(s), i + 1 <= Len(s)
      PROVE  f[i + 1] = IF s[i + 1] = a THEN f[i] ELSE Append(f[i], s[i + 1])
  <2>1. i + 1 \in 0 .. Len(s) /\ i + 1 # 0 /\ (i + 1) - 1 = i
    BY <1>3
  <2>. QED
    BY <1>1, <2>1 DEF Table
<1>4. Good(0)
  <2>1. Range(<<>>) = {} /\ Unique(<<>>)
    BY DEF Range, Unique
  <2>. QED
    BY <1>2, <2>1
<1>5. ASSUME NEW i \in 0 .. Len(s), i + 1 <= Len(s), Good(i)
      PROVE  Good(i + 1)
  <2>1. s[i + 1] \in S /\ Upper(i + 1) = Upper(i) \cup {s[i + 1]}
    BY <1>5
  <2>2. CASE s[i + 1] = a
    BY <1>3, <1>5, <2>1, <2>2
  <2>3. CASE s[i + 1] # a
    <3>1. f[i + 1] = Append(f[i], s[i + 1])
      BY <1>3, <1>5, <2>3
    <3>2. /\ f[i + 1] \in Seq(S)
          /\ Range(f[i + 1]) = Range(f[i]) \cup {s[i + 1]}
          /\ Unique(f[i]) /\ s[i + 1] \notin Range(f[i]) => Unique(f[i + 1])
      BY <1>5, <2>1, <3>1, AppendFacts
    <3>3. Unique(s) => s[i + 1] \notin Upper(i)
      BY <1>5 DEF Unique
    <3>. QED
      BY <1>5, <2>1, <2>3, <3>2, <3>3
  <2>. QED
    BY <2>2, <2>3
<1>6. T = 0 .. Len(s)
  <2>. HIDE DEF Good
  <2>1. 0 \in T
    BY <1>4
  <2>2. \A i \in 0 .. Len(s) : i \in T /\ i + 1 <= Len(s) => i + 1 \in T
    BY <1>5
  <2>. HIDE DEF T
  <2>3. T \in SUBSET (0 .. Len(s))
    BY DEF T
  <2>. QED
    BY <2>1, <2>2, <2>3, UpTo
<1>7. Good(Len(s))
  <2>. HIDE DEF Good
  <2>. QED
    BY <1>6
<1>8. Upper(Len(s)) = Range(s)
  BY DEF Range
<1>. QED
  BY <1>1, <1>7, <1>8

-----------------------------------------------------------------------------
\* One list after another.
LEMMA ConcatFacts ==
    ASSUME NEW S, NEW s \in Seq(S), NEW t \in Seq(S)
    PROVE  /\ s \o t \in Seq(S) /\ Len(s \o t) = Len(s) + Len(t)
           /\ \A i \in 1..Len(s) : (s \o t)[i] = s[i]
           /\ \A i \in 1..Len(t) : (s \o t)[Len(s) + i] = t[i]
  OBVIOUS

\* A longer list by one.
LEMMA AppendLonger ==
    ASSUME NEW S, NEW s \in Seq(S), NEW x \in S
    PROVE  Len(Append(s, x)) = Len(s) + 1
  OBVIOUS

\* A beginning of a list, element by element.
LEMMA PrefixFacts ==
    ASSUME NEW S, NEW s \in Seq(S), NEW t \in Seq(S)
    PROVE  IsPrefix(s, t) <=> Len(s) <= Len(t) /\ \A i \in 1..Len(s) : s[i] = t[i]
<1>1. ASSUME Len(s) <= Len(t)
      PROVE  /\ SubSeq(s, 1, Len(s)) = [i \in 1..Len(s) |-> s[i]]
             /\ SubSeq(t, 1, Len(s)) = [i \in 1..Len(s) |-> t[i]]
  BY <1>1
<1>. QED
  BY <1>1 DEF IsPrefix

\* A list with one element taken out.
LEMMA RemoveAtFacts ==
    ASSUME NEW S, NEW s \in Seq(S), NEW i \in 1..Len(s)
    PROVE  /\ RemoveAt(s, i) \in Seq(S) /\ Len(RemoveAt(s, i)) = Len(s) - 1
           /\ \A j \in 1..Len(s) - 1 :
                 RemoveAt(s, i)[j] = IF j < i THEN s[j] ELSE s[j + 1]
<1>. DEFINE a == SubSeq(s, 1, i - 1)
            b == SubSeq(s, i + 1, Len(s))
<1>1. a \in Seq(S) /\ Len(a) = i - 1 /\ \A j \in 1..i - 1 : a[j] = s[j]
  OBVIOUS
<1>2. b \in Seq(S) /\ Len(b) = Len(s) - i /\ \A j \in 1..Len(s) - i : b[j] = s[i + j]
  OBVIOUS
<1>3. RemoveAt(s, i) = a \o b
  BY DEF RemoveAt
<1>. HIDE DEF a, b
<1>4. /\ a \o b \in Seq(S) /\ Len(a \o b) = Len(a) + Len(b)
      /\ \A j \in 1..Len(a) : (a \o b)[j] = a[j]
      /\ \A j \in 1..Len(b) : (a \o b)[Len(a) + j] = b[j]
  <2>1. a \in Seq(S) /\ b \in Seq(S)
    BY <1>1, <1>2
  <2>. QED
    BY <2>1, ConcatFacts
<1>. DEFINE ab == a \o b
<1>. HIDE DEF ab
<1>5. /\ ab \in Seq(S) /\ Len(ab) = Len(s) - 1
      /\ \A j \in 1..i - 1 : ab[j] = s[j]
      /\ \A j \in 1..Len(s) - i : ab[(i - 1) + j] = s[i + j]
  <2>1. Len(a) \in Nat /\ Len(b) \in Nat /\ Len(a) = i - 1 /\ Len(b) = Len(s) - i
    BY <1>1, <1>2
  <2>2. ab \in Seq(S) /\ Len(ab) = Len(s) - 1
    BY <1>4, <2>1 DEF ab
  <2>3. \A j \in 1..i - 1 : ab[j] = s[j]
    BY <1>1, <1>4, <2>1 DEF ab
  <2>4. \A j \in 1..Len(s) - i : ab[(i - 1) + j] = s[i + j]
    BY <1>2, <1>4, <2>1 DEF ab
  <2>. QED
    BY <2>2, <2>3, <2>4
<1>6. ASSUME NEW j \in 1..Len(s) - 1, j >= i
      PROVE  ab[j] = s[j + 1]
  <2>. DEFINE q == j - i + 1
  <2>1. q \in 1..Len(s) - i /\ (i - 1) + q = j /\ i + q = j + 1
    BY <1>6
  <2>. HIDE DEF q
  <2>. QED
    BY <1>5, <2>1
<1>7. RemoveAt(s, i) = ab
  BY <1>3 DEF ab
<1>. QED
  BY <1>5, <1>6, <1>7

-----------------------------------------------------------------------------
\* The table Without computes, one step at a time.
Stepwise(f, s, a, m) ==
    /\ f[0] = <<>>
    /\ \A i \in 0 .. m : i + 1 <= m =>
          f[i + 1] = IF s[i + 1] = a THEN f[i] ELSE Append(f[i], s[i + 1])

LEMMA TableStep ==
    ASSUME NEW s, NEW a, NEW m \in Nat, NEW f, Table(f, s, a, m)
    PROVE  Stepwise(f, s, a, m)
<1>1. f[0] = <<>>
  BY DEF Table
<1>2. ASSUME NEW i \in 0 .. m, i + 1 <= m
      PROVE  f[i + 1] = IF s[i + 1] = a THEN f[i] ELSE Append(f[i], s[i + 1])
  <2>1. i + 1 \in 0 .. m /\ i + 1 # 0 /\ (i + 1) - 1 = i
    BY <1>2
  <2>. QED
    BY <2>1 DEF Table
<1>. QED
  BY <1>1, <1>2 DEF Stepwise

\* Without of a list with one more element at its end.
LEMMA WithoutAppend ==
    ASSUME NEW S, NEW s \in Seq(S), NEW x \in S, NEW a
    PROVE  Without(Append(s, x), a) =
              IF x = a THEN Without(s, a) ELSE Append(Without(s, a), x)
<1>. DEFINE t == Append(s, x)
            n == Len(s)
<1>1. /\ t \in Seq(S) /\ Len(t) = n + 1 /\ n \in Nat /\ t[n + 1] = x
      /\ \A i \in 1 .. n : t[i] = s[i]
  OBVIOUS
<1>. HIDE DEF t
<1>2. PICK f : Table(f, s, a, n) /\ Without(s, a) = f[n]
  BY WithoutIsEntry
<1>3. PICK g : Table(g, t, a, n + 1) /\ Without(t, a) = g[n + 1]
  <2>1. Len(t) = n + 1 /\ t \in Seq(S)
    BY <1>1
  <2>. QED
    BY <2>1, WithoutIsEntry
<1>. HIDE DEF n
<1>4. /\ f[0] = <<>>
      /\ \A i \in 0 .. n : i + 1 <= n =>
            f[i + 1] = IF s[i + 1] = a THEN f[i] ELSE Append(f[i], s[i + 1])
  <2>1. Stepwise(f, s, a, n)
    BY <1>1, <1>2, TableStep
  <2>. QED
    BY <2>1 DEF Stepwise
<1>5. /\ g[0] = <<>>
      /\ \A i \in 0 .. n + 1 : i + 1 <= n + 1 =>
            g[i + 1] = IF t[i + 1] = a THEN g[i] ELSE Append(g[i], t[i + 1])
  <2>1. n + 1 \in Nat /\ Table(g, t, a, n + 1)
    BY <1>1, <1>3
  <2>2. Stepwise(g, t, a, n + 1)
    BY <2>1, TableStep
  <2>. QED
    BY <2>2 DEF Stepwise
<1>. DEFINE T == {i \in 0 .. n : g[i] = f[i]}
<1>6. T = 0 .. n
  <2>1. 0 \in T
    BY <1>1, <1>4, <1>5
  <2>2. ASSUME NEW i \in 0 .. n, i \in T, i + 1 <= n PROVE i + 1 \in T
    <3>1. t[i + 1] = s[i + 1] /\ i \in 0 .. n + 1 /\ i + 1 <= n + 1 /\ i + 1 \in 0 .. n
      BY <1>1, <2>2
    <3>2. f[i + 1] = IF s[i + 1] = a THEN f[i] ELSE Append(f[i], s[i + 1])
      BY <1>4, <2>2
    <3>3. g[i + 1] = IF t[i + 1] = a THEN g[i] ELSE Append(g[i], t[i + 1])
      BY <1>5, <3>1
    <3>. QED
      BY <2>2, <3>1, <3>2, <3>3
  <2>3. T \in SUBSET (0 .. n)
    OBVIOUS
  <2>. HIDE DEF T
  <2>. QED
    BY <1>1, <2>1, <2>2, <2>3, UpTo
<1>7. g[n] = f[n]
  BY <1>1, <1>6
<1>8. g[n + 1] = IF t[n + 1] = a THEN g[n] ELSE Append(g[n], t[n + 1])
  BY <1>1, <1>5
<1>. QED
  BY <1>1, <1>2, <1>3, <1>7, <1>8 DEF t

\* Without of a list that loses its head.
LEMMA WithoutTail ==
    ASSUME NEW S, NEW s \in Seq(S), s # <<>>, NEW a
    PROVE  Without(s, a) =
              IF Head(s) = a THEN Without(Tail(s), a)
              ELSE <<Head(s)>> \o Without(Tail(s), a)
<1>. DEFINE t == Tail(s)
            n == Len(t)
            x == Head(s)
<1>1. /\ t \in Seq(S) /\ Len(s) = n + 1 /\ n \in Nat /\ s[1] = x /\ x \in S
      /\ \A i \in 1 .. n : t[i] = s[i + 1]
  OBVIOUS
<1>. HIDE DEF t
<1>2. PICK f : Table(f, s, a, n + 1) /\ Without(s, a) = f[n + 1]
  <2>1. Len(s) = n + 1
    BY <1>1
  <2>. QED
    BY <2>1, WithoutIsEntry
<1>3. PICK g : Table(g, t, a, n) /\ Without(t, a) = g[n]
  BY <1>1, WithoutIsEntry
<1>. HIDE DEF n, x
<1>n. n \in Nat /\ n + 1 \in Nat
  BY <1>1
<1>4. /\ f[0] = <<>>
      /\ \A i \in 0 .. n + 1 : i + 1 <= n + 1 =>
            f[i + 1] = IF s[i + 1] = a THEN f[i] ELSE Append(f[i], s[i + 1])
  <2>1. Stepwise(f, s, a, n + 1)
    BY <1>2, <1>n, TableStep
  <2>. QED
    BY <2>1 DEF Stepwise
<1>5. /\ g[0] = <<>>
      /\ \A i \in 0 .. n : i + 1 <= n =>
            g[i + 1] = IF t[i + 1] = a THEN g[i] ELSE Append(g[i], t[i + 1])
  <2>1. Stepwise(g, t, a, n)
    BY <1>3, <1>n, TableStep
  <2>. QED
    BY <2>1 DEF Stepwise
<1>. DEFINE first == IF x = a THEN <<>> ELSE <<x>>
            T == {i \in 0 .. n : g[i] \in Seq(S) /\ f[i + 1] = first \o g[i]}
<1>6. first \in Seq(S)
  BY <1>1
<1>7. 0 \in T
  <2>1. f[1] = IF s[1] = a THEN f[0] ELSE Append(f[0], s[1])
    <3>1. 0 \in 0 .. n + 1 /\ 0 + 1 <= n + 1 /\ 0 + 1 = 1
      BY <1>1
    <3>. QED
      BY <1>4, <3>1
  <2>2. f[0 + 1] = first
    BY <1>1, <1>4, <2>1
  <2>3. first \o <<>> = first
    BY <1>6, ConcatEmptySeq
  <2>4. g[0] = <<>> /\ 0 \in 0 .. n /\ <<>> \in Seq(S)
    BY <1>5, <1>n
  <2>. QED
    BY <2>2, <2>3, <2>4
<1>. HIDE DEF first
<1>8. ASSUME NEW i \in 0 .. n, i \in T, i + 1 <= n PROVE i + 1 \in T
  <2>1. /\ t[i + 1] = s[i + 2] /\ t[i + 1] \in S /\ (i + 1) + 1 = i + 2
        /\ i + 1 \in 0 .. n + 1 /\ i + 1 \in 0 .. n /\ i + 2 <= n + 1
    <3>1. i + 1 \in 1 .. n
      BY <1>1, <1>8
    <3>. QED
      BY <1>1, <1>8, <3>1 DEF n
  <2>2. f[i + 2] = IF s[i + 2] = a THEN f[i + 1] ELSE Append(f[i + 1], s[i + 2])
    BY <1>4, <2>1
  <2>3. g[i + 1] = IF t[i + 1] = a THEN g[i] ELSE Append(g[i], t[i + 1])
    BY <1>5, <1>8
  <2>4. \A u \in Seq(S), v \in Seq(S), y \in S :
           Append(u \o v, y) = u \o Append(v, y) /\ Append(v, y) \in Seq(S)
    <3>. SUFFICES ASSUME NEW u \in Seq(S), NEW v \in Seq(S), NEW y \in S
                  PROVE  Append(u \o v, y) = u \o Append(v, y) /\ Append(v, y) \in Seq(S)
      OBVIOUS
    <3>1. u \o v \in Seq(S) /\ <<y>> \in Seq(S) /\ Append(v, y) \in Seq(S)
      OBVIOUS
    <3>2. Append(u \o v, y) = (u \o v) \o <<y>> /\ Append(v, y) = v \o <<y>>
      BY <3>1, AppendIsConcat
    <3>3. (u \o v) \o <<y>> = u \o (v \o <<y>>)
      BY <3>1, ConcatAssociative
    <3>. QED
      BY <3>1, <3>2, <3>3
  <2>5. g[i] \in Seq(S) /\ f[i + 1] = first \o g[i]
    BY <1>8
  <2>6. g[i + 1] \in Seq(S) /\ f[i + 2] = first \o g[i + 1]
    <3>1. CASE t[i + 1] = a
      BY <2>1, <2>2, <2>3, <2>5, <3>1
    <3>2. CASE t[i + 1] # a
      <4>1. f[i + 2] = Append(first \o g[i], t[i + 1]) /\ g[i + 1] = Append(g[i], t[i + 1])
        BY <2>1, <2>2, <2>3, <2>5, <3>2
      <4>2. /\ Append(first \o g[i], t[i + 1]) = first \o Append(g[i], t[i + 1])
            /\ Append(g[i], t[i + 1]) \in Seq(S)
        <5>1. first \in Seq(S) /\ g[i] \in Seq(S) /\ t[i + 1] \in S
          BY <1>6, <2>1, <2>5
        <5>. HIDE DEF T
        <5>. QED
          BY <2>4, <5>1
      <4>. QED
        BY <4>1, <4>2
    <3>. QED
      BY <3>1, <3>2
  <2>. QED
    BY <2>1, <2>6
<1>9. T = 0 .. n
  <2>1. T \in SUBSET (0 .. n)
    OBVIOUS
  <2>. HIDE DEF T
  <2>. QED
    BY <1>1, <1>7, <1>8, <2>1, UpTo
<1>10. g[n] \in Seq(S) /\ f[n + 1] = first \o g[n]
  <2>1. n \in T
    BY <1>9, <1>n
  <2>. QED
    BY <2>1
<1>11. Without(s, a) = first \o Without(t, a) /\ Without(t, a) \in Seq(S)
  BY <1>1, <1>2, <1>3, <1>10
<1>12. <<>> \o Without(t, a) = Without(t, a)
  BY <1>11
<1>. QED
  BY <1>11, <1>12 DEF first, x, t

\* Without(s, a) is no longer than s.
LEMMA WithoutShorter ==
    ASSUME NEW S, NEW s \in Seq(S), NEW a
    PROVE  Len(Without(s, a)) <= Len(s)
<1>. DEFINE n == Len(s)
<1>1. PICK f : Table(f, s, a, n) /\ Without(s, a) = f[n]
  BY WithoutIsEntry
<1>2. n \in Nat /\ \A i \in 1 .. n : s[i] \in S
  OBVIOUS
<1>. HIDE DEF n
<1>3. /\ f[0] = <<>>
      /\ \A i \in 0 .. n : i + 1 <= n =>
            f[i + 1] = IF s[i + 1] = a THEN f[i] ELSE Append(f[i], s[i + 1])
  <2>1. Stepwise(f, s, a, n)
    BY <1>1, <1>2, TableStep
  <2>. QED
    BY <2>1 DEF Stepwise
<1>. DEFINE T == {i \in 0 .. n : f[i] \in Seq(S) /\ Len(f[i]) <= i}
<1>4. 0 \in T
  <2>1. <<>> \in Seq(S) /\ Len(<<>>) = 0 /\ 0 \in 0 .. n
    BY <1>2
  <2>2. f[0] = <<>>
    BY <1>3
  <2>3. Len(f[0]) <= 0 /\ f[0] \in Seq(S)
    BY <2>1, <2>2
  <2>. QED
    BY <2>1, <2>3
<1>5. ASSUME NEW i \in 0 .. n, i \in T, i + 1 <= n PROVE i + 1 \in T
  <2>1. f[i] \in Seq(S) /\ Len(f[i]) <= i /\ s[i + 1] \in S
    BY <1>2, <1>5
  <2>2. f[i + 1] = IF s[i + 1] = a THEN f[i] ELSE Append(f[i], s[i + 1])
    BY <1>3, <1>5
  <2>3. f[i + 1] \in Seq(S) /\ Len(f[i + 1]) <= i + 1
    <3>1. CASE s[i + 1] = a
      BY <2>1, <2>2, <3>1
    <3>2. CASE s[i + 1] # a
      BY <2>1, <2>2, <3>2
    <3>. QED
      BY <3>1, <3>2
  <2>. QED
    BY <1>2, <1>5, <2>3
<1>6. T = 0 .. n
  <2>1. T \in SUBSET (0 .. n)
    OBVIOUS
  <2>. HIDE DEF T
  <2>. QED
    BY <1>2, <1>4, <1>5, <2>1, UpTo
<1>7. Len(f[n]) <= n
  BY <1>2, <1>6
<1>. QED
  BY <1>1, <1>7 DEF n

\* An end of a list, element by element.
LEMMA SuffixFacts ==
    ASSUME NEW S, NEW s \in Seq(S), NEW t \in Seq(S)
    PROVE  IsSuffix(s, t) <=>
              /\ Len(s) <= Len(t)
              /\ \A i \in 1..Len(s) : s[i] = t[(Len(t) - Len(s)) + i]
<1>1. \A u \in Seq(S) : /\ Reverse(u) \in Seq(S) /\ Len(Reverse(u)) = Len(u)
                        /\ \A i \in 1..Len(u) : Reverse(u)[i] = u[(Len(u) - i) + 1]
  BY DEF Reverse
<1>. DEFINE rs == Reverse(s)
            rt == Reverse(t)
            m == Len(s)
            n == Len(t)
<1>2. IsPrefix(rs, rt) <=> Len(rs) <= Len(rt) /\ \A i \in 1..Len(rs) : rs[i] = rt[i]
  BY <1>1, PrefixFacts
<1>3. /\ Len(rs) = m /\ Len(rt) = n /\ m \in Nat /\ n \in Nat
      /\ \A i \in 1..m : rs[i] = s[(m - i) + 1]
      /\ \A i \in 1..n : rt[i] = t[(n - i) + 1]
  BY <1>1
<1>. HIDE DEF rs, rt, m, n
<1>4. ASSUME m <= n, \A i \in 1..m : rs[i] = rt[i], NEW i \in 1..m
      PROVE  s[i] = t[(n - m) + i]
  <2>1. (m - i) + 1 \in 1..m /\ (m - ((m - i) + 1)) + 1 = i /\ (m - i) + 1 \in 1..n
        /\ (n - ((m - i) + 1)) + 1 = (n - m) + i
    BY <1>3, <1>4
  <2>2. rs[(m - i) + 1] = s[i] /\ rt[(m - i) + 1] = t[(n - m) + i]
    BY <1>3, <2>1
  <2>. QED
    BY <1>4, <2>1, <2>2
<1>5. ASSUME m <= n, \A i \in 1..m : s[i] = t[(n - m) + i], NEW i \in 1..m
      PROVE  rs[i] = rt[i]
  <2>1. (m - i) + 1 \in 1..m /\ (n - m) + ((m - i) + 1) = (n - i) + 1
    BY <1>3
  <2>0. i \in 1..n
    BY <1>3, <1>5
  <2>2. s[(m - i) + 1] = t[(n - i) + 1]
    BY <1>5, <2>1
  <2>. QED
    BY <1>3, <2>0, <2>2
<1>. QED
  BY <1>2, <1>3, <1>4, <1>5 DEF IsSuffix, rs, rt, m, n

\* The list of a finite set has its elements, each once.
LEMMA SetToSeqFacts ==
    ASSUME NEW S, IsFiniteSet(S)
    PROVE  SetToSeq(S) \in Seq(S) /\ Range(SetToSeq(S)) = S /\ Unique(SetToSeq(S))
<1>. DEFINE n == Cardinality(S)
            f == SetToSeq(S)
<1>1. n \in Nat /\ ExistsBijection(1..n, S)
  BY FS_CardinalityType
<1>2. \E g \in [1..n -> S] : IsInjective(g)
  BY <1>1 DEF ExistsBijection, Bijection, Injection, IsInjective
<1>3. f \in [1..n -> S] /\ IsInjective(f)
  BY <1>2 DEF SetToSeq
<1>. HIDE DEF f
<1>4. f \in Injection(1..n, S)
  BY <1>3 DEF Injection, IsInjective
<1>5. f \in Surjection(1..n, S)
  <2>1. Cardinality(1..n) = n
    BY <1>1, FS_Interval
  <2>. QED
    BY <1>4, <2>1, FS_Injection
<1>6. Range(f) = S
  BY <1>3, <1>5 DEF Surjection, Range
<1>. QED
  BY <1>1, <1>3, <1>6 DEF Unique, IsInjective, f

\* A list without its head.
LEMMA TailFacts ==
    ASSUME NEW S, NEW s \in Seq(S), s # <<>>
    PROVE  /\ Tail(s) \in Seq(S) /\ Head(s) \in S /\ Len(Tail(s)) = Len(s) - 1
           /\ \A i \in DOMAIN Tail(s) : i + 1 \in DOMAIN s /\ Tail(s)[i] = s[i + 1]
           /\ Range(s) = {Head(s)} \cup Range(Tail(s))
<1>1. /\ Tail(s) \in Seq(S) /\ Head(s) \in S /\ Head(s) = s[1]
      /\ DOMAIN s = 1..Len(s) /\ DOMAIN Tail(s) = 1..Len(s) - 1 /\ Len(Tail(s)) = Len(s) - 1
      /\ Len(s) \in Nat /\ Len(s) >= 1
      /\ \A i \in 1..Len(s) - 1 : Tail(s)[i] = s[i + 1]
  OBVIOUS
<1>2. \A i \in 2..Len(s) : i - 1 \in 1..Len(s) - 1 /\ Tail(s)[i - 1] = s[i]
  BY <1>1
<1>3. Range(s) = {Head(s)} \cup Range(Tail(s))
  <2>1. Range(Tail(s)) \subseteq Range(s) /\ Head(s) \in Range(s)
    BY <1>1 DEF Range
  <2>2. ASSUME NEW i \in 1..Len(s) PROVE s[i] = Head(s) \/ s[i] \in Range(Tail(s))
    <3>1. CASE i = 1
      BY <1>1, <3>1
    <3>2. CASE i # 1
      <4>1. i \in 2..Len(s)
        BY <1>1, <3>2
      <4>. QED
        BY <1>1, <1>2, <4>1 DEF Range
    <3>. QED
      BY <3>1, <3>2
  <2>. QED
    BY <1>1, <2>1, <2>2 DEF Range
<1>. QED
  BY <1>1, <1>3

\* One more element at both ends.
LEMMA SuffixAppend ==
    ASSUME NEW S, NEW s \in Seq(S), NEW t \in Seq(S), NEW x \in S, IsSuffix(s, t)
    PROVE  IsSuffix(Append(s, x), Append(t, x))
<1>. DEFINE a == Append(s, x)
            b == Append(t, x)
            m == Len(s)
            k == Len(t)
<1>1. m <= k /\ \A i \in 1..m : s[i] = t[(k - m) + i]
  BY SuffixFacts
<1>2. /\ a \in Seq(S) /\ Len(a) = m + 1 /\ m \in Nat /\ a[m + 1] = x
      /\ b \in Seq(S) /\ Len(b) = k + 1 /\ k \in Nat /\ b[k + 1] = x
      /\ \A i \in 1..m : a[i] = s[i]
      /\ \A i \in 1..k : b[i] = t[i]
  OBVIOUS
<1>. HIDE DEF a, b, m, k
<1>3. ASSUME NEW i \in 1..m + 1 PROVE a[i] = b[(Len(b) - Len(a)) + i]
  <2>1. Len(b) - Len(a) = k - m
    BY <1>2
  <2>2. CASE i = m + 1
    BY <1>2, <2>1, <2>2
  <2>3. CASE i # m + 1
    <3>1. i \in 1..m /\ (k - m) + i \in 1..k
      BY <1>1, <1>2, <2>3
    <3>. QED
      BY <1>1, <1>2, <2>1, <3>1
  <2>. QED
    BY <2>2, <2>3
<1>4. Len(a) <= Len(b) /\ \A i \in 1..Len(a) : a[i] = b[(Len(b) - Len(a)) + i]
  BY <1>1, <1>2, <1>3
<1>5. IsSuffix(a, b)
  BY <1>2, <1>4, SuffixFacts
<1>. QED
  BY <1>5 DEF a, b

\* An end of a list without its own first element.
LEMMA SuffixShorter ==
    ASSUME NEW S, NEW x \in S, NEW s \in Seq(S), NEW t \in Seq(S), IsSuffix(<<x>> \o s, t)
    PROVE  IsSuffix(s, t)
<1>. DEFINE a == <<x>> \o s
            m == Len(s)
            k == Len(t)
<1>1. /\ a \in Seq(S) /\ Len(a) = m + 1 /\ m \in Nat /\ k \in Nat
      /\ \A i \in 1..m : a[i + 1] = s[i]
  OBVIOUS
<1>0. IsSuffix(a, t)
  OBVIOUS
<1>. HIDE DEF a
<1>2. m + 1 <= k /\ \A i \in 1..m + 1 : a[i] = t[(k - (m + 1)) + i]
  <2>1. Len(a) <= Len(t) /\ \A i \in 1..Len(a) : a[i] = t[(Len(t) - Len(a)) + i]
    BY <1>0, <1>1, SuffixFacts
  <2>. QED
    BY <1>1, <2>1
<1>. HIDE DEF m, k
<1>3. ASSUME NEW i \in 1..m PROVE s[i] = t[(k - m) + i]
  <2>1. i + 1 \in 1..m + 1 /\ (k - (m + 1)) + (i + 1) = (k - m) + i
    BY <1>1
  <2>. QED
    BY <1>1, <1>2, <2>1
<1>4. m <= k
  BY <1>1, <1>2
<1>. QED
  BY <1>3, <1>4, SuffixFacts DEF m, k
=============================================================================
