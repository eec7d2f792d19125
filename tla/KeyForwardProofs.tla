--------------------------- MODULE KeyForwardProofs ---------------------------
(***************************************************************************)
(* Proofs about the keys of devices that are lent and taken back, for any  *)
(* devices and keys, any number of strokes and requests.  Types and the    *)
(* order of the strokes hold however everything overlaps; what the record  *)
(* of the sink and the virtual keyboards of the source hold is for the     *)
(* disciplined use that KeyForward explains (Disciplined).                 *)
(***************************************************************************)
EXTENDS KeyForward, SequenceTheorems, FiniteSetTheorems, WellFoundedInduction, TLAPS

(***************************************************************************)
(* Sequences and what is in them.                                          *)
(***************************************************************************)
Elements(s) == {s[i] : i \in DOMAIN s}

LEMMA OfSeq ==
    ASSUME NEW S, NEW s \in Seq(S)
    PROVE  /\ DOMAIN s = 1 .. Len(s) /\ Len(s) \in Nat /\ Elements(s) \subseteq S
           /\ s # << >> <=> Len(s) > 0
           /\ s = << >> => Elements(s) = {}
<1>1. DOMAIN s = 1 .. Len(s) /\ Len(s) \in Nat /\ \A i \in 1 .. Len(s) : s[i] \in S
  BY LenProperties, ElementOfSeq
<1>2. s # << >> <=> Len(s) > 0
  BY <1>1, EmptySeq
<1>3. s = << >> => DOMAIN s = {}
  BY <1>1, <1>2
<1> QED
  BY <1>1, <1>2, <1>3 DEF Elements

LEMMA OfTail ==
    ASSUME NEW S, NEW s \in Seq(S), s # << >>
    PROVE  /\ Head(s) = s[1] /\ Head(s) \in S /\ Head(s) \in Elements(s)
           /\ Tail(s) \in Seq(S) /\ Len(Tail(s)) = Len(s) - 1
           /\ \A i \in 1 .. Len(Tail(s)) : Tail(s)[i] = s[i + 1]
           /\ Elements(s) = {Head(s)} \cup Elements(Tail(s))
<1>1. /\ DOMAIN s = 1 .. Len(s) /\ Len(s) \in Nat /\ Tail(s) \in Seq(S) /\ Head(s) \in S
      /\ Len(Tail(s)) = Len(s) - 1 /\ \A i \in 1 .. Len(Tail(s)) : Tail(s)[i] = s[i + 1]
      /\ DOMAIN Tail(s) = 1 .. Len(Tail(s)) /\ Len(s) # 0 /\ Head(s) = s[1]
  BY HeadTailProperties, LenProperties, EmptySeq
<1>2. \A i \in DOMAIN Tail(s) : i + 1 \in DOMAIN s /\ Tail(s)[i] = s[i + 1] /\ 1 < i + 1 /\ 1 \in DOMAIN s
  BY <1>1
<1>3. \A i \in DOMAIN s : i = 1 \/ (i - 1 \in DOMAIN Tail(s) /\ s[i] = Tail(s)[i - 1])
  BY <1>1
<1>4. Elements(s) = {Head(s)} \cup Elements(Tail(s))
  <2>1. ASSUME NEW i \in DOMAIN s PROVE s[i] = Head(s) \/ s[i] \in Elements(Tail(s))
    <3>1. i - 1 \in DOMAIN Tail(s) /\ s[i] = Tail(s)[i - 1] => s[i] \in Elements(Tail(s))
      BY Zenon DEF Elements
    <3> QED
      BY <1>1, <1>3, <3>1
  <2>2. {Head(s)} \cup Elements(Tail(s)) \subseteq Elements(s)
    BY <1>1, <1>2 DEF Elements
  <2>3. Elements(s) \subseteq {Head(s)} \cup Elements(Tail(s))
    BY <2>1, Zenon DEF Elements
  <2> QED
    BY <2>2, <2>3
<1> QED
  BY <1>1, <1>4

\* Where an element of it comes from.
FromOne(c, a, b, i) ==
    \/ i \in DOMAIN a /\ c[i] = a[i]
    \/ i > Len(a) /\ i - Len(a) \in DOMAIN b /\ c[i] = b[i - Len(a)]

\* The places of a sequence c that is a followed by b.
Joins(c, a, b) ==
    /\ DOMAIN c = 1 .. Len(a) + Len(b)
    /\ \A i \in DOMAIN a : i \in DOMAIN c /\ c[i] = a[i]
    /\ \A i \in DOMAIN b : Len(a) + i \in DOMAIN c /\ c[Len(a) + i] = b[i]
    /\ \A i \in DOMAIN c : FromOne(c, a, b, i)

LEMMA ConcatAt ==
    ASSUME NEW S, NEW a \in Seq(S), NEW b \in Seq(S)
    PROVE  Joins(a \o b, a, b)
<1> DEFINE c == a \o b
<1>1. /\ DOMAIN a = 1 .. Len(a) /\ DOMAIN b = 1 .. Len(b) /\ Len(a) \in Nat /\ Len(b) \in Nat
      /\ c \in Seq(S) /\ Len(c) = Len(a) + Len(b)
      /\ \A i \in 1 .. Len(a) + Len(b) : c[i] = IF i <= Len(a) THEN a[i] ELSE b[i - Len(a)]
  BY ConcatProperties, LenProperties
<1>2. DOMAIN c = 1 .. Len(a) + Len(b)
  BY <1>1, LenProperties
<1> HIDE DEF c
<1>3. \A i \in DOMAIN a : i \in DOMAIN c /\ c[i] = a[i]
  BY <1>1, <1>2
<1>4. ASSUME NEW i \in DOMAIN b PROVE Len(a) + i \in DOMAIN c /\ c[Len(a) + i] = b[i]
  <2>1. Len(a) + i \in 1 .. Len(a) + Len(b) /\ ~(Len(a) + i <= Len(a)) /\ (Len(a) + i) - Len(a) = i
    BY <1>1
  <2> QED
    BY <1>1, <1>2, <2>1
<1>5. ASSUME NEW i \in DOMAIN c
      PROVE  FromOne(c, a, b, i)
  <2>1. i \in 1 .. Len(a) + Len(b) /\ c[i] = IF i <= Len(a) THEN a[i] ELSE b[i - Len(a)]
    BY <1>1, <1>2
  <2>2. CASE i <= Len(a)
    BY <1>1, <2>1, <2>2 DEF FromOne
  <2>3. CASE ~(i <= Len(a))
    <3>1. i > Len(a) /\ i - Len(a) \in 1 .. Len(b)
      BY <1>1, <2>1, <2>3
    <3> QED
      BY <1>1, <2>1, <2>3, <3>1 DEF FromOne
  <2> QED
    BY <2>2, <2>3
<1> QED
  <2>1. Joins(c, a, b)
    BY <1>2, <1>3, <1>4, <1>5 DEF Joins
  <2> QED
    BY <2>1 DEF c

Associates(x, y, z) == (x \o y) \o z = x \o (y \o z)

LEMMA ConcatAssociates ==
    ASSUME NEW S, NEW x \in Seq(S), NEW y \in Seq(S), NEW z \in Seq(S)
    PROVE  Associates(x, y, z)
BY ConcatAssociative DEF Associates

LEMMA Concatenated ==
    ASSUME NEW S, NEW a \in Seq(S), NEW b \in Seq(S)
    PROVE  /\ a \o b \in Seq(S) /\ Len(a \o b) = Len(a) + Len(b)
           /\ Elements(a \o b) = Elements(a) \cup Elements(b)
<1> DEFINE c == a \o b
<1>1. c \in Seq(S) /\ Len(c) = Len(a) + Len(b)
  BY ConcatProperties
<1>2. Joins(c, a, b)
  BY ConcatAt
<1> HIDE DEF c
<1>3. Elements(c) \subseteq Elements(a) \cup Elements(b)
  BY <1>2 DEF Elements, Joins, FromOne
<1>4. Elements(a) \subseteq Elements(c)
  BY <1>2, Zenon DEF Elements, Joins
<1>5. Elements(b) \subseteq Elements(c)
  <2>1. ASSUME NEW i \in DOMAIN b PROVE b[i] \in Elements(c)
    <3>1. Len(a) + i \in DOMAIN c /\ c[Len(a) + i] = b[i]
      BY <1>2, Zenon DEF Joins
    <3> QED
      BY <3>1, Zenon DEF Elements
  <2> QED
    BY <2>1, Zenon DEF Elements
<1>6. Elements(c) = Elements(a) \cup Elements(b)
  BY <1>3, <1>4, <1>5
<1> QED
  BY <1>1, <1>6 DEF c

LEMMA Appended ==
    ASSUME NEW S, NEW s \in Seq(S), NEW e \in S
    PROVE  /\ Append(s, e) \in Seq(S) /\ Len(Append(s, e)) = Len(s) + 1
           /\ Append(s, e)[Len(s) + 1] = e
           /\ Elements(Append(s, e)) = Elements(s) \cup {e}
<1> DEFINE t == Append(s, e)
<1>1. /\ DOMAIN s = 1 .. Len(s) /\ Len(s) \in Nat /\ t \in Seq(S)
      /\ Len(t) = Len(s) + 1 /\ \A i \in 1 .. Len(s) : t[i] = s[i]
      /\ t[Len(s) + 1] = e
  BY AppendProperties, LenProperties
<1>2. DOMAIN t = 1 .. Len(s) + 1
  BY <1>1, OfSeq
<1> HIDE DEF t
<1>3. \A i \in DOMAIN t : (i \in DOMAIN s /\ t[i] = s[i]) \/ (i = Len(s) + 1 /\ t[i] = e)
  BY <1>1, <1>2
<1>4. Elements(t) = Elements(s) \cup {e}
  <2>1. Elements(t) \subseteq Elements(s) \cup {e}
    BY <1>3 DEF Elements
  <2>2. Elements(s) \subseteq Elements(t) /\ e \in Elements(t)
    BY <1>1, <1>2 DEF Elements
  <2> QED
    BY <2>1, <2>2
<1>5. t = Append(s, e)
  BY DEF t
<1> QED
  BY <1>1, <1>4, <1>5

LEMMA OfNothing ==
    /\ Elements(<< >>) = {}
    /\ \A S : << >> \in Seq(S) /\ \A s \in Seq(S) : s \o << >> = s /\ << >> \o s = s
<1>1. DOMAIN << >> = {} /\ \A S : << >> \in Seq(S)
  OBVIOUS
<1>2. \A S : \A s \in Seq(S) : s \o << >> = s /\ << >> \o s = s
  BY ConcatEmptySeq
<1> QED
  BY <1>1, <1>2 DEF Elements

(***************************************************************************)
(* Sequences of sequences: a least counterexample takes the place of       *)
(* induction.                                                              *)
(***************************************************************************)
LEMMA LeastOf ==
    ASSUME NEW T \in SUBSET Nat, T # {}
    PROVE  \E m \in T : \A n \in T : m <= n
<1>1. \E m \in T : \A n \in T : ~(<< n, m >> \in OpToRel(<, Nat))
  BY NatLessThanWellFounded, WFMin
<1>2. PICK m \in T : \A n \in T : ~(<< n, m >> \in OpToRel(<, Nat))
  BY <1>1
<1>3. ASSUME NEW n \in T PROVE m <= n
  <2>1. m \in Nat /\ n \in Nat /\ << n, m >> \in Nat \X Nat
    OBVIOUS
  <2>2. << n, m >> \in OpToRel(<, Nat) <=> n < m
    BY <2>1 DEF OpToRel
  <2>3. ~(n < m)
    BY <1>2, <2>2, Zenon
  <2> QED
    BY <2>1, <2>3
<1> QED
  BY <1>3

LEMMA Single ==
    ASSUME NEW S, NEW e \in S
    PROVE  << e >> \in Seq(S) /\ Len(<< e >>) = 1 /\ << e >>[1] = e /\ DOMAIN << e >> = 1 .. 1
  OBVIOUS

LEMMA ConcatNothing ==
    ASSUME NEW S, NEW a \in Seq(S)
    PROVE  a \o << >> = a /\ << >> \o a = a /\ << >> \in Seq(S)
  OBVIOUS

\* f joins the first sequences of q, the first, the first two, and so on.
Flattens(f, q, n) == f = [i \in 1 .. n |-> IF i = 1 THEN q[i] ELSE f[i - 1] \o q[i]]

LEMMA FlattensExists ==
    ASSUME NEW q, NEW n \in Nat
    PROVE  \E f : Flattens(f, q, n)
<1> DEFINE T == {m \in Nat : ~ \E f : Flattens(f, q, m)}
<1> SUFFICES ASSUME T # {} PROVE FALSE
  OBVIOUS
<1>1. PICK m \in T : \A k \in T : m <= k
  BY LeastOf
<1>2. m # 0
  <2>1. Flattens(<< >>, q, 0)
    BY DEF Flattens
  <2> QED
    BY <1>1, <2>1
<1>3. m - 1 \in Nat /\ m - 1 \notin T
  BY <1>1, <1>2
<1>4. PICK g : Flattens(g, q, m - 1)
  BY <1>3
<1> DEFINE f == [i \in 1 .. m |-> IF i = m THEN IF i = 1 THEN q[i] ELSE g[i - 1] \o q[i] ELSE g[i]]
<1>5. \A i \in 1 .. m - 1 : f[i] = g[i] /\ i # m
  BY <1>1
<1>6. ASSUME NEW i \in 1 .. m PROVE f[i] = IF i = 1 THEN q[i] ELSE f[i - 1] \o q[i]
  <2>1. CASE i = m
    <3>1. i # 1 => i - 1 \in 1 .. m - 1
      BY <1>1, <2>1
    <3> QED
      BY <1>5, <2>1, <3>1
  <2>2. CASE i # m
    <3>1. i \in 1 .. m - 1 /\ (i # 1 => i - 1 \in 1 .. m - 1)
      BY <1>1, <2>2
    <3>2. g[i] = IF i = 1 THEN q[i] ELSE g[i - 1] \o q[i]
      BY <1>4, <3>1 DEF Flattens
    <3> QED
      BY <1>5, <3>1, <3>2
  <2> QED
    BY <2>1, <2>2
<1>7. Flattens(f, q, m)
  BY <1>6 DEF Flattens
<1> QED
  BY <1>1, <1>7

LEMMA FlattenOf ==
    ASSUME NEW q, Len(q) \in Nat, Len(q) # 0
    PROVE  \E f : Flattens(f, q, Len(q)) /\ FlattenSeq(q) = f[Len(q)]
<1> DEFINE f == CHOOSE f : f = [i \in 1 .. Len(q) |-> IF i = 1 THEN q[i] ELSE f[i - 1] \o q[i]]
<1>1. Flattens(f, q, Len(q))
  BY FlattensExists DEF Flattens
<1>2. FlattenSeq(q) = f[Len(q)]
  BY DEF FlattenSeq
<1> QED
  BY <1>1, <1>2

FlatStep(f, q, i, n) ==
    /\ i = 1 => f[i] = q[1]
    /\ i # 1 => i - 1 \in 1 .. n /\ f[i] = f[i - 1] \o q[i]

LEMMA FlattensAt ==
    ASSUME NEW q, NEW n \in Nat, NEW f, Flattens(f, q, n), NEW i \in 1 .. n
    PROVE  FlatStep(f, q, i, n)
<1>1. f[i] = IF i = 1 THEN q[i] ELSE f[i - 1] \o q[i]
  <2> DEFINE g == [j \in 1 .. n |-> IF j = 1 THEN q[j] ELSE f[j - 1] \o q[j]]
  <2>1. f = g
    BY DEF Flattens
  <2>2. g[i] = IF i = 1 THEN q[i] ELSE f[i - 1] \o q[i]
    OBVIOUS
  <2> HIDE DEF g
  <2> QED
    BY <2>1, <2>2
<1>2. ASSUME i = 1 PROVE f[i] = q[1]
  <2>1. f[i] = q[i]
    BY <1>1, <1>2, Zenon
  <2> QED
    BY <1>2, <2>1, Zenon
<1>3. ASSUME i # 1 PROVE i - 1 \in 1 .. n /\ f[i] = f[i - 1] \o q[i]
  <2>1. f[i] = f[i - 1] \o q[i]
    BY <1>1, <1>3, Zenon
  <2>2. i - 1 \in 1 .. n
    BY <1>3
  <2> QED
    BY <2>1, <2>2, Zenon
<1> QED
  BY <1>2, <1>3 DEF FlatStep

LEMMA FlattensTypes ==
    ASSUME NEW S, NEW q \in Seq(Seq(S)), NEW f, Flattens(f, q, Len(q))
    PROVE  \A i \in 1 .. Len(q) : f[i] \in Seq(S)
<1> DEFINE T == {i \in 1 .. Len(q) : f[i] \notin Seq(S)}
<1>0. Len(q) \in Nat
  BY LenProperties
<1> SUFFICES ASSUME T # {} PROVE FALSE
  OBVIOUS
<1>1. PICK m \in T : \A k \in T : m <= k
  <2>1. T \in SUBSET Nat
    BY <1>0
  <2> QED
    BY <2>1, LeastOf
<1>2. Len(q) \in Nat /\ \A i \in 1 .. Len(q) : q[i] \in Seq(S)
  BY LenProperties, ElementOfSeq
<1>3. m \in 1 .. Len(q) /\ f[m] \notin Seq(S)
  BY <1>1
<1>4. FlatStep(f, q, m, Len(q))
  BY <1>0, <1>3, FlattensAt
<1>5. CASE m = 1
  BY <1>2, <1>3, <1>4, <1>5 DEF FlatStep
<1>6. CASE m # 1
  <2>1. m - 1 \notin T
    BY <1>1, <1>3
  <2>2. f[m - 1] \in Seq(S) /\ q[m] \in Seq(S)
    BY <1>2, <1>3, <1>4, <1>6, <2>1 DEF FlatStep
  <2>3. f[m - 1] \o q[m] \in Seq(S)
    BY <2>2, ConcatProperties
  <2> QED
    BY <1>3, <1>4, <1>6, <2>3 DEF FlatStep
<1> QED
  BY <1>5, <1>6

LEMMA FlattenTypes ==
    ASSUME NEW S, NEW q \in Seq(Seq(S))
    PROVE  FlattenSeq(q) \in Seq(S) /\ (q = << >> => FlattenSeq(q) = << >>)
<1>1. Len(q) \in Nat /\ (Len(q) = 0 <=> q = << >>)
  BY LenProperties, EmptySeq
<1>2. CASE Len(q) = 0
  <2>1. FlattenSeq(q) = q
    BY <1>2 DEF FlattenSeq
  <2> QED
    BY <1>1, <1>2, <2>1, EmptySeq
<1>3. CASE Len(q) # 0
  <2>1. PICK f : Flattens(f, q, Len(q)) /\ FlattenSeq(q) = f[Len(q)]
    BY <1>1, <1>3, FlattenOf, Zenon
  <2>2. Len(q) \in 1 .. Len(q)
    BY <1>1, <1>3
  <2>3. f[Len(q)] \in Seq(S)
    BY <2>1, <2>2, FlattensTypes
  <2> QED
    BY <1>1, <1>3, <2>1, <2>3
<1> QED
  BY <1>2, <1>3

LEMMA FlattenOne ==
    ASSUME NEW S, NEW e \in Seq(S)
    PROVE  FlattenSeq(<< e >>) = e
<1> DEFINE q == << e >>
<1>1. Len(q) = 1 /\ q[1] = e
  OBVIOUS
<1> HIDE DEF q
<1>2. PICK f : Flattens(f, q, Len(q)) /\ FlattenSeq(q) = f[Len(q)]
  <2>1. Len(q) \in Nat /\ Len(q) # 0
    BY <1>1
  <2> QED
    BY <2>1, FlattenOf, Zenon
<1>3. f[1] = q[1]
  <2>1. FlatStep(f, q, 1, 1)
    BY <1>1, <1>2, FlattensAt
  <2> QED
    BY <2>1 DEF FlatStep
<1> QED
  BY <1>1, <1>2, <1>3 DEF q

\* Joining the first sequences of a \o b joins a and then the first of b.
FlatJoins(f, g, h, m, n) ==
    /\ \A i \in 1 .. m : f[i] = h[i]
    /\ \A i \in 1 .. n : f[m + i] = h[m] \o g[i]

LEMMA FlattensConcat ==
    ASSUME NEW S, NEW a \in Seq(Seq(S)), NEW b \in Seq(Seq(S)),
           NEW f, Flattens(f, a \o b, Len(a \o b)), NEW g, Flattens(g, b, Len(b)),
           NEW h, Flattens(h, a, Len(a)), Len(a) # 0
    PROVE  FlatJoins(f, g, h, Len(a), Len(b))
<1> DEFINE c == a \o b
           m == Len(a)
           n == Len(b)
<1>1. /\ m \in Nat /\ n \in Nat /\ Len(c) = m + n /\ c \in Seq(Seq(S))
      /\ \A i \in 1 .. m : c[i] = a[i]
      /\ \A i \in 1 .. n : c[m + i] = b[i]
  <2>1. /\ m \in Nat /\ n \in Nat /\ Len(c) = m + n /\ c \in Seq(Seq(S))
        /\ \A i \in 1 .. m + n : c[i] = IF i <= m THEN a[i] ELSE b[i - m]
    BY ConcatProperties, LenProperties
  <2> HIDE DEF c, m, n
  <2>2. \A i \in 1 .. m : c[i] = a[i]
    BY <2>1
  <2>3. ASSUME NEW i \in 1 .. n PROVE c[m + i] = b[i]
    <3>1. m + i \in 1 .. m + n /\ ~(m + i <= m) /\ (m + i) - m = i
      BY <2>1
    <3> QED
      BY <2>1, <3>1
  <2> QED
    BY <2>1, <2>2, <2>3
<1>2. \A i \in 1 .. n : b[i] \in Seq(S)
  BY ElementOfSeq
<1>3. /\ \A i \in 1 .. n : g[i] \in Seq(S)
      /\ \A i \in 1 .. m : h[i] \in Seq(S)
  BY FlattensTypes
<1>4. Flattens(f, c, m + n) /\ Flattens(g, b, n) /\ Flattens(h, a, m) /\ m # 0
  BY <1>1
<1> HIDE DEF c, m, n
<1>5. \A i \in 1 .. m : f[i] = h[i]
  <2> DEFINE T == {i \in 1 .. m : f[i] # h[i]}
  <2> SUFFICES ASSUME T # {} PROVE FALSE
    OBVIOUS
  <2>1. PICK i \in T : \A k \in T : i <= k
    <3>1. T \in SUBSET Nat
      BY <1>1
    <3> QED
      BY <3>1, LeastOf
  <2>2. i \in 1 .. m /\ i \in 1 .. m + n /\ f[i] # h[i] /\ m + n \in Nat
    BY <1>1, <2>1
  <2>3. FlatStep(f, c, i, m + n) /\ FlatStep(h, a, i, m)
    BY <1>1, <1>4, <2>2, FlattensAt
  <2>4. i # 1 => f[i - 1] = h[i - 1]
    <3>1. i # 1 => i - 1 \in 1 .. m /\ ~(i <= i - 1)
      BY <1>1, <2>2
    <3>2. i - 1 \in 1 .. m /\ f[i - 1] # h[i - 1] => i <= i - 1
      BY <2>1
    <3> QED
      BY <3>1, <3>2
  <2>5. c[i] = a[i]
    BY <1>1, <2>2
  <2> QED
    BY <2>2, <2>3, <2>4, <2>5, Zenon DEF FlatStep
<1>6. \A i \in 1 .. n : f[m + i] = h[m] \o g[i]
  <2> DEFINE T == {i \in 1 .. n : f[m + i] # h[m] \o g[i]}
  <2> SUFFICES ASSUME T # {} PROVE FALSE
    OBVIOUS
  <2>1. PICK i \in T : \A k \in T : i <= k
    <3>1. 1 .. n \in SUBSET Nat
      BY <1>1
    <3>2. T \in SUBSET (1 .. n)
      BY Zenon
    <3> HIDE DEF T
    <3>3. T \in SUBSET Nat /\ T # {}
      BY <3>1, <3>2
    <3> QED
      BY <3>3, LeastOf
  <2>2. i \in 1 .. n /\ m + i \in 1 .. m + n /\ m + i # 1 /\ m + n \in Nat /\ m \in 1 .. m
    BY <1>1, <1>4, <2>1
  <2>3. f[m + i] # h[m] \o g[i]
    BY <2>1
  <2>4. f[m + i] = f[(m + i) - 1] \o c[m + i]
    <3>1. FlatStep(f, c, m + i, m + n)
      BY <1>4, <2>2, FlattensAt
    <3>2. m + i # 1
      BY <2>2
    <3> QED
      BY <3>1, <3>2, Zenon DEF FlatStep
  <2>5. FlatStep(g, b, i, n)
    BY <1>1, <1>4, <2>2, FlattensAt
  <2>6. c[m + i] = b[i]
    BY <1>1, <2>2
  <2>7. CASE i = 1
    <3>1. (m + i) - 1 = m
      BY <1>1, <2>7
    <3> QED
      BY <1>5, <2>2, <2>3, <2>4, <2>5, <2>6, <2>7, <3>1, Zenon DEF FlatStep
  <2>8. CASE i # 1
    <3>1. i - 1 \in 1 .. n /\ ~(i <= i - 1) /\ (m + i) - 1 = m + (i - 1)
      BY <1>1, <2>2, <2>8
    <3>2. f[m + (i - 1)] = h[m] \o g[i - 1]
      BY <2>1, <3>1
    <3>3. (h[m] \o g[i - 1]) \o b[i] = h[m] \o (g[i - 1] \o b[i])
      <4>1. h[m] \in Seq(S) /\ g[i - 1] \in Seq(S) /\ b[i] \in Seq(S)
        BY <1>2, <1>3, <2>2, <3>1, Zenon
      <4>2. PICK x, y, z : x = h[m] /\ y = g[i - 1] /\ z = b[i]
        OBVIOUS
      <4>3. x \in Seq(S) /\ y \in Seq(S) /\ z \in Seq(S)
        BY <4>1, <4>2
      <4>4. Associates(x, y, z)
        BY <4>3, ConcatAssociates
      <4> QED
        BY <4>2, <4>4, Zenon DEF Associates
    <3> QED
      BY <2>3, <2>4, <2>5, <2>6, <2>8, <3>1, <3>2, <3>3, Zenon DEF FlatStep
  <2> QED
    BY <2>7, <2>8
<1> QED
  BY <1>5, <1>6 DEF m, n, FlatJoins

LEMMA FlattenConcat ==
    ASSUME NEW S, NEW a \in Seq(Seq(S)), NEW b \in Seq(Seq(S))
    PROVE  FlattenSeq(a \o b) = FlattenSeq(a) \o FlattenSeq(b)
<1>1. /\ Len(a) \in Nat /\ (Len(a) = 0 <=> a = << >>) /\ Len(b) \in Nat /\ (Len(b) = 0 <=> b = << >>)
      /\ Len(a \o b) = Len(a) + Len(b)
  BY LenProperties, EmptySeq, ConcatProperties
<1>2. FlattenSeq(a) \in Seq(S) /\ FlattenSeq(b) \in Seq(S)
  BY FlattenTypes
<1>3. CASE a = << >>
  <2>1. a \o b = b /\ FlattenSeq(a) = << >>
    BY <1>3, ConcatNothing, FlattenTypes
  <2> QED
    BY <1>2, <2>1, ConcatNothing
<1>4. CASE b = << >>
  <2>1. a \o b = a /\ FlattenSeq(b) = << >>
    BY <1>4, ConcatNothing, FlattenTypes
  <2> QED
    BY <1>2, <2>1, ConcatNothing
<1>5. CASE a # << >> /\ b # << >>
  <2>1. Len(a) # 0 /\ Len(b) # 0 /\ Len(a \o b) \in Nat /\ Len(a \o b) # 0
    BY <1>1, <1>5
  <2>2. PICK f : Flattens(f, a \o b, Len(a \o b)) /\ FlattenSeq(a \o b) = f[Len(a \o b)]
    BY <2>1, FlattenOf, Zenon
  <2>3. PICK g : Flattens(g, b, Len(b)) /\ FlattenSeq(b) = g[Len(b)]
    BY <1>1, <2>1, FlattenOf, Zenon
  <2>4. PICK h : Flattens(h, a, Len(a)) /\ FlattenSeq(a) = h[Len(a)]
    BY <1>1, <2>1, FlattenOf, Zenon
  <2>5. Len(b) \in 1 .. Len(b)
    BY <1>1, <2>1
  <2>6. f[Len(a) + Len(b)] = h[Len(a)] \o g[Len(b)]
    <3>1. FlatJoins(f, g, h, Len(a), Len(b))
      BY <2>1, <2>2, <2>3, <2>4, FlattensConcat
    <3> QED
      BY <2>5, <3>1, Zenon DEF FlatJoins
  <2> QED
    BY <1>1, <2>2, <2>3, <2>4, <2>6, Zenon
<1> QED
  BY <1>3, <1>4, <1>5

\* s without its p-th element.
Without(r, s, p) ==
    /\ DOMAIN r = 1 .. Len(s) - 1
    /\ \A i \in 1 .. Len(s) - 1 : /\ i < p => i \in DOMAIN s /\ r[i] = s[i]
                                  /\ i >= p => i + 1 \in DOMAIN s /\ r[i] = s[i + 1]

LEMMA RemoveAtPlace ==
    ASSUME NEW S, NEW s \in Seq(S), NEW p \in DOMAIN s
    PROVE  RemoveAt(s, p) \in Seq(S) /\ Without(RemoveAt(s, p), s, p)
<1> DEFINE a == SubSeq(s, 1, p - 1)
           b == SubSeq(s, p + 1, Len(s))
           r == a \o b
<1>1. DOMAIN s = 1 .. Len(s) /\ Len(s) \in Nat /\ p \in 1 .. Len(s)
  BY LenProperties
<1>2. /\ a \in Seq(S) /\ Len(a) = p - 1 /\ \A i \in 1 .. p - 1 : a[i] = s[i]
      /\ b \in Seq(S) /\ Len(b) = Len(s) - p /\ \A i \in 1 .. Len(s) - p : b[i] = s[p + i]
  BY <1>1, SMTT(30)
<1> HIDE DEF a, b
<1>3. /\ r \in Seq(S) /\ Len(r) = Len(a) + Len(b)
      /\ \A i \in 1 .. Len(a) + Len(b) : r[i] = IF i <= Len(a) THEN a[i] ELSE b[i - Len(a)]
  BY <1>2, ConcatProperties
<1>4. DOMAIN r = 1 .. Len(r) /\ Len(r) = Len(s) - 1
  BY <1>1, <1>2, <1>3, LenProperties
<1> HIDE DEF r
<1>5. ASSUME NEW i \in 1 .. Len(s) - 1
      PROVE  /\ i < p => i \in DOMAIN s /\ r[i] = s[i]
             /\ i >= p => i + 1 \in DOMAIN s /\ r[i] = s[i + 1]
  <2>1. r[i] = IF i <= p - 1 THEN a[i] ELSE b[i - (p - 1)]
    BY <1>1, <1>2, <1>3, <1>4
  <2>2. ASSUME i < p PROVE i \in DOMAIN s /\ r[i] = s[i]
    <3>1. i \in 1 .. p - 1 /\ i \in 1 .. Len(s)
      BY <1>1, <2>2
    <3> QED
      BY <1>1, <1>2, <2>1, <3>1
  <2>3. ASSUME i >= p PROVE i + 1 \in DOMAIN s /\ r[i] = s[i + 1]
    <3>1. i - (p - 1) \in 1 .. Len(s) - p /\ p + (i - (p - 1)) = i + 1 /\ i + 1 \in 1 .. Len(s) /\ ~(i <= p - 1)
      BY <1>1, <2>3
    <3>2. b[i - (p - 1)] = s[p + (i - (p - 1))]
      BY <1>2, <3>1
    <3> QED
      BY <1>1, <2>1, <3>1, <3>2, Zenon
  <2> QED
    BY <2>2, <2>3
<1>6. r \in Seq(S) /\ Without(r, s, p)
  BY <1>3, <1>4, <1>5 DEF Without
<1> QED
  BY <1>6 DEF RemoveAt, r, a, b

\* RemoveFirst takes the first occurrence away, if there is one.
RemovesAt(r, s, e, p) ==
    p \in DOMAIN s /\ s[p] = e /\ (\A i \in DOMAIN s : i < p => s[i] # e) /\ Without(r, s, p)

LEMMA RemovesFirst ==
    ASSUME NEW S, NEW s \in Seq(S), NEW e
    PROVE  /\ RemoveFirst(s, e) \in Seq(S)
           /\ e \notin Elements(s) => RemoveFirst(s, e) = s
           /\ e \in Elements(s) => \E p \in DOMAIN s : RemovesAt(RemoveFirst(s, e), s, e, p)
<1>1. DOMAIN s = 1 .. Len(s) /\ Len(s) \in Nat
  BY LenProperties
<1> DEFINE I == {i \in 1 .. Len(s) : s[i] = e}
<1>2. I # {} <=> e \in Elements(s)
  BY <1>1 DEF Elements
<1>3. CASE I = {}
  <2>1. RemoveFirst(s, e) = s
    BY <1>3 DEF RemoveFirst
  <2> QED
    BY <1>2, <1>3, <2>1
<1>4. CASE I # {}
  <2>1. PICK m \in I : \A n \in I : m <= n
    <3>1. I \in SUBSET Nat
      BY <1>1
    <3> QED
      BY <1>4, <3>1, LeastOf
  <2>2. PICK p : p = CHOOSE x \in I : \A y \in I : x <= y
    OBVIOUS
  <2>3. p \in I /\ \A y \in I : p <= y
    BY <2>1, <2>2, Zenon
  <2>4. RemoveFirst(s, e) = RemoveAt(s, p)
    <3>1. RemoveFirst(s, e) = RemoveAt(s, SelectInSeq(s, LAMBDA v : v = e))
      BY <1>4 DEF RemoveFirst
    <3>2. SelectInSeq(s, LAMBDA v : v = e) = p
      BY <1>4, <2>2 DEF SelectInSeq, Min
    <3> QED
      BY <3>1, <3>2
  <2>5. p \in DOMAIN s /\ s[p] = e /\ \A i \in DOMAIN s : i < p => s[i] # e
    <3>1. p \in 1 .. Len(s) /\ s[p] = e
      BY <2>3
    <3>2. ASSUME NEW i \in 1 .. Len(s), i < p, s[i] = e PROVE FALSE
      <4>1. i \in I
        BY <3>2
      <4>2. p <= i
        BY <2>3, <4>1
      <4> QED
        BY <1>1, <3>1, <3>2, <4>2
    <3> QED
      BY <1>1, <3>1, <3>2
  <2>6. RemoveAt(s, p) \in Seq(S) /\ Without(RemoveAt(s, p), s, p)
    BY <2>5, RemoveAtPlace
  <2>7. RemovesAt(RemoveFirst(s, e), s, e, p)
    BY <2>4, <2>5, <2>6 DEF RemovesAt
  <2> QED
    BY <1>2, <1>4, <2>4, <2>5, <2>6, <2>7
<1> QED
  BY <1>3, <1>4

(***************************************************************************)
(* The types of the way of a key.                                          *)
(***************************************************************************)
LEMMA NoDevice == ASSUME KeyAssumption PROVE None \notin DhIds
  BY DEF KeyAssumption

LEMMA RecordedTypes ==
    ASSUME NEW s \in Seq(Keys), NEW e \in Event
    PROVE  Recorded(s, e) \in Seq(Keys)
<1>1. e.code \in Keys /\ e.value \in {"down", "up", "repeat"}
  BY DEF Event
<1>2. RemoveFirst(s, e.code) \in Seq(Keys)
  BY RemovesFirst
<1>3. CASE e.value = "down"
  BY <1>1, <1>3, AppendProperties DEF Recorded
<1>4. CASE e.value = "up"
  BY <1>2, <1>4 DEF Recorded
<1>5. CASE e.value = "repeat"
  BY <1>1, <1>2, <1>5, AppendProperties DEF Recorded, LongPressed
<1> QED
  BY <1>1, <1>3, <1>4, <1>5

\* The messages of the session.
SessionMessages == [cmd : {"KEY_STATE", "BODY_DATA"}, events : Seq(Event)]
SessionRequests == [cmd : {"START_DHID", "STOP_DHID"}, dhId : DhIds]

LEMMA SimulatedTypes ==
    ASSUME NEW d \in DhIds, NEW k \in Keys, NEW v \in {"down", "up", "repeat"},
           NEW c \in {"KEY_STATE", "BODY_DATA"}
    PROVE  /\ Simulated(d, k, v) \in Event
           /\ Message(c, << Simulated(d, k, v) >>) \in SessionMessages
  BY DEF Simulated, Event, Message, SessionMessages

LEMMA ReplayTypes ==
    ASSUME TypeOK, NEW d \in DhIds
    PROVE  Replay(d) \in Seq(SessionMessages) /\ Len(Replay(d)) = Len(keyDownState[d])
           /\ DOMAIN Replay(d) = DOMAIN keyDownState[d]
<1>1. keyDownState[d] \in Seq(Keys)
  BY DEF TypeOK
<1>2. DOMAIN keyDownState[d] = 1 .. Len(keyDownState[d]) /\ Len(keyDownState[d]) \in Nat
  BY <1>1, LenProperties
<1>3. \A i \in 1 .. Len(keyDownState[d]) :
         Message("KEY_STATE", << Simulated(d, keyDownState[d][i], "down") >>) \in SessionMessages
  BY <1>1, ElementOfSeq, SimulatedTypes
<1>4. Replay(d) = [i \in 1 .. Len(keyDownState[d]) |->
                     Message("KEY_STATE", << Simulated(d, keyDownState[d][i], "down") >>)]
  BY <1>2 DEF Replay
<1> QED
  BY <1>2, <1>3, <1>4, IsASeq, LenProperties

LEMMA KeyTypesStep ==
    ASSUME KeyAssumption, TypeOK, [Next]_vars
    PROVE  TypeOK'
<1> USE DEF TypeOK
<1>0. Idle \in [dhId : DhIds \cup {None}, read : Seq(Event), checked : BOOLEAN]
  BY DEF Idle
<1>k. \A d \in DhIds : keyDownState[d] \in Seq(Keys) /\ kernel[d] \in Seq(Event)
  OBVIOUS
<1>s. ASSUME NEW d \in DhIds, NEW k \in Keys, NEW v \in {"down", "up", "repeat"},
             kernel' = [kernel EXCEPT ![d] =
                          Append(@, [dhId |-> d, code |-> k, value |-> v, n |-> strokes + 1])],
             strokes' = strokes + 1
      PROVE  kernel' \in [DhIds -> Seq(Event)] /\ strokes' \in Nat
  <2>1. [dhId |-> d, code |-> k, value |-> v, n |-> strokes + 1] \in Event
    BY DEF Event
  <2>2. Append(kernel[d], [dhId |-> d, code |-> k, value |-> v, n |-> strokes + 1]) \in Seq(Event)
    BY <2>1, AppendProperties
  <2> QED
    BY <1>s, <2>2
<1>t. \A d \in DhIds, k \in Keys : [stamp EXCEPT ![d][k] = strokes + 1] \in [DhIds -> [Keys -> Nat]]
  <2> TAKE d \in DhIds, k \in Keys
  <2>1. stamp[d] \in [Keys -> Nat] /\ strokes + 1 \in Nat
    OBVIOUS
  <2>2. [stamp[d] EXCEPT ![k] = strokes + 1] \in [Keys -> Nat]
    BY <2>1
  <2> QED
    BY <2>2
<1>1. ASSUME NEW d \in DhIds, NEW k \in Keys, Press(d, k) PROVE TypeOK'
  <2>1. kernel' \in [DhIds -> Seq(Event)] /\ strokes' \in Nat
    BY <1>1, <1>s DEF Press, Stroke
  <2>2. down' \in [DhIds -> SUBSET Keys]
    BY <1>1 DEF Press
  <2> QED
    BY <1>1, <1>t, <2>1, <2>2 DEF Press, Stroke, sinkVars, stateVars, sourceVars
<1>2. ASSUME NEW d \in DhIds, NEW k \in Keys, Release(d, k) PROVE TypeOK'
  <2>1. kernel' \in [DhIds -> Seq(Event)] /\ strokes' \in Nat
    BY <1>2, <1>s DEF Release, Stroke
  <2>2. down' \in [DhIds -> SUBSET Keys] /\ heldOver' \in [DhIds -> SUBSET Keys]
    BY <1>2 DEF Release
  <2> QED
    BY <1>2, <2>1, <2>2 DEF Release, Stroke, sinkVars, stateVars, sourceVars
<1>3. ASSUME NEW d \in DhIds, NEW k \in Keys, Repeat(d, k) PROVE TypeOK'
  <2>1. kernel' \in [DhIds -> Seq(Event)] /\ strokes' \in Nat
    BY <1>3, <1>s DEF Repeat, Stroke
  <2>2. heldOver' \in [DhIds -> SUBSET Keys]
    BY <1>3 DEF Repeat
  <2> QED
    BY <1>3, <1>t, <2>1, <2>2 DEF Repeat, Stroke, sinkVars, stateVars, sourceVars
<1>4. ASSUME NEW d \in DhIds, ReadEvents(d) PROVE TypeOK'
  <2>1. << >> \in Seq(Event)
    BY EmptySeq
  <2>2. kernel' \in [DhIds -> Seq(Event)]
    BY <1>4, <2>1 DEF ReadEvents
  <2>3. collector' \in [dhId : DhIds \cup {None}, read : Seq(Event), checked : BOOLEAN]
    BY <1>4 DEF ReadEvents
  <2> QED
    BY <1>4, <2>2, <2>3 DEF ReadEvents, stateVars, sourceVars
<1>5. CASE CheckShared
  <2>1. collector' \in [dhId : DhIds \cup {None}, read : Seq(Event), checked : BOOLEAN]
    BY <1>0, <1>5 DEF CheckShared
  <2>2. Append(eventQueue, collector.read) \in Seq(Seq(Event))
    BY AppendProperties
  <2>3. eventQueue' \in Seq(Seq(Event))
    BY <1>5, <2>2 DEF CheckShared
  <2> QED
    BY <1>5, <2>1, <2>3 DEF CheckShared, userVars, stateVars, sourceVars
<1>6. CASE RecordEvent
  <2> DEFINE e == Head(collector.read)
  <2>1. collector.read \in Seq(Event) /\ collector.read # << >>
    BY <1>6 DEF RecordEvent
  <2>2. e \in Event /\ Tail(collector.read) \in Seq(Event)
    BY <2>1, HeadTailProperties
  <2>3. collector' \in [dhId : DhIds \cup {None}, read : Seq(Event), checked : BOOLEAN]
    BY <1>6, <2>2 DEF RecordEvent
  <2>4. e.dhId \in DhIds
    BY <2>2 DEF Event
  <2>5. Recorded(keyDownState[e.dhId], e) \in Seq(Keys)
    BY <1>k, <2>2, <2>4, RecordedTypes
  <2>6. keyDownState' \in [DhIds -> Seq(Keys)]
    BY <1>6, <2>4, <2>5 DEF RecordEvent
  <2>7. Message("BODY_DATA", << Simulated(e.dhId, BTN_MOUSE, "up") >>) \in SessionMessages
    BY <2>4, SimulatedTypes DEF KeyAssumption
  <2>8. toSource' \in Seq(SessionMessages)
    BY <1>6, <2>7, AppendProperties DEF RecordEvent, SessionMessages
  <2> QED
    BY <1>6, <2>3, <2>6, <2>8 DEF RecordEvent, userVars, sourceVars, SessionMessages
<1>7. CASE RecordedAll
  BY <1>0, <1>7 DEF RecordedAll, userVars, stateVars, sourceVars
<1>8. CASE StartRecordDhIds
  <2> DEFINE d == Head(toSink).dhId
  <2>1. toSink \in Seq(SessionRequests) /\ toSink # << >>
    BY <1>8 DEF StartRecordDhIds, NextRequest, SessionRequests
  <2>2. Head(toSink) \in SessionRequests /\ Tail(toSink) \in Seq(SessionRequests)
    BY <2>1, HeadTailProperties
  <2>d. d \in DhIds
    BY <2>2 DEF SessionRequests
  <2>3. Replay(d) \in Seq(SessionMessages) /\ toSource \in Seq(SessionMessages)
    BY <2>d, ReplayTypes DEF SessionMessages
  <2>4. toSource \o Replay(d) \in Seq(SessionMessages)
    BY <2>3, ConcatProperties
  <2>5. [keyDownState EXCEPT ![d] = << >>] \in [DhIds -> Seq(Keys)]
    BY <2>d, EmptySeq
  <2>6. /\ handler' = d /\ toSource' = toSource \o Replay(d)
        /\ keyDownState' = [keyDownState EXCEPT ![d] = << >>] /\ toSink' = Tail(toSink)
    BY <1>8 DEF StartRecordDhIds
  <2>7. /\ handler' \in DhIds /\ toSource' \in Seq(SessionMessages)
        /\ keyDownState' \in [DhIds -> Seq(Keys)] /\ toSink' \in Seq(SessionRequests)
    BY <2>2, <2>d, <2>4, <2>5, <2>6
  <2>8. /\ switchOn' = TRUE /\ lastSessionId' = 1
        /\ UNCHANGED << userVars, collector, sharedDHIds, eventQueue, sourceVars, heldOver >>
    BY <1>8 DEF StartRecordDhIds
  <2> HIDE DEF d
  <2>9. /\ handler' \in DhIds \cup {None} /\ switchOn' \in BOOLEAN /\ lastSessionId' \in 0 .. 1
        /\ UNCHANGED << down, kernel, strokes, stamp, request, requests, callbackQueue,
                        injectQueue, remoteDown, heldOver >>
        /\ UNCHANGED << collector, sharedDHIds, eventQueue >>
    BY <2>7, <2>8 DEF userVars, sourceVars
  <2> QED
    BY <2>7, <2>9 DEF SessionMessages, SessionRequests
<1>9. CASE StartSetSharing
  BY <1>9 DEF StartSetSharing, userVars, stateVars, sourceVars
<1>10. CASE StopRemoteInputDhid
  <2> DEFINE d == Head(toSink).dhId
  <2>1. toSink \in Seq(SessionRequests) /\ toSink # << >>
    BY <1>10 DEF StopRemoteInputDhid, NextRequest, SessionRequests
  <2>2. Head(toSink) \in SessionRequests /\ Tail(toSink) \in Seq(SessionRequests)
    BY <2>1, HeadTailProperties
  <2>d. d \in DhIds
    BY <2>2 DEF SessionRequests
  <2>3. heldOver' \in [DhIds -> SUBSET Keys]
    BY <1>10, <2>d DEF StopRemoteInputDhid
  <2>4. sharedDHIds' \subseteq DhIds /\ switchOn' \in BOOLEAN
    BY <1>10 DEF StopRemoteInputDhid
  <2>5. toSink' \in Seq(SessionRequests) /\ lastSessionId' = 1
    BY <1>10, <2>2 DEF StopRemoteInputDhid
  <2>6. UNCHANGED << userVars, collector, keyDownState, handler, eventQueue, toSource,
                     sourceVars >>
    BY <1>10 DEF StopRemoteInputDhid
  <2>7. UNCHANGED << down, kernel, strokes, stamp, request, requests, callbackQueue,
                     injectQueue, remoteDown >>
    BY <2>6 DEF userVars, sourceVars
  <2>8. toSink' \in Seq([cmd : {"START_DHID", "STOP_DHID"}, dhId : DhIds])
    BY <2>5 DEF SessionRequests
  <2>9. /\ down' \in [DhIds -> SUBSET Keys] /\ remoteDown' \in [DhIds -> SUBSET Keys]
        /\ kernel' \in [DhIds -> Seq(Event)] /\ stamp' \in [DhIds -> [Keys -> Nat]]
        /\ collector' \in [dhId : DhIds \cup {None}, read : Seq(Event), checked : BOOLEAN]
    BY <2>6, <2>7
  <2>10. /\ keyDownState' \in [DhIds -> Seq(Keys)] /\ eventQueue' \in Seq(Seq(Event))
         /\ toSource' \in Seq([cmd : {"KEY_STATE", "BODY_DATA"}, events : Seq(Event)])
         /\ callbackQueue' \in Seq(Event) /\ injectQueue' \in Seq(Event)
    BY <2>6, <2>7
  <2>11. /\ handler' \in DhIds \cup {None} /\ request' \in DhIds \cup {None}
         /\ strokes' \in Nat /\ requests' \in Nat
    BY <2>6, <2>7
  <2>12. sharedDHIds' \subseteq DhIds /\ lastSessionId' \in 0 .. 1 /\ switchOn' \in BOOLEAN
    BY <2>4, <2>5
  <2> HIDE DEF d
  <2> QED
    BY <2>3, <2>8, <2>9, <2>10, <2>11, <2>12, Zenon
<1>11. CASE SendEvents
  <2>1. eventQueue \in Seq(Seq(Event)) /\ eventQueue # << >>
    BY <1>11 DEF SendEvents
  <2>2. Head(eventQueue) \in Seq(Event) /\ Tail(eventQueue) \in Seq(Seq(Event))
    BY <2>1, HeadTailProperties
  <2>3. Message("BODY_DATA", Head(eventQueue)) \in SessionMessages
    BY <2>2 DEF Message, SessionMessages
  <2>4. toSource' \in Seq(SessionMessages)
    BY <1>11, <2>3, AppendProperties DEF SendEvents, SessionMessages
  <2> QED
    BY <1>11, <2>2, <2>4 DEF SendEvents, userVars, stateVars, sourceVars, SessionMessages
<1>12. ASSUME NEW d \in DhIds, StartRemoteInput(d) PROVE TypeOK'
  <2>1. [cmd |-> "START_DHID", dhId |-> d] \in SessionRequests
    BY DEF SessionRequests
  <2>2. toSink' \in Seq(SessionRequests)
    BY <1>12, <2>1, AppendProperties DEF StartRemoteInput, SessionRequests
  <2>3. requests' \in Nat /\ UNCHANGED << request, toSource, callbackQueue, injectQueue, remoteDown, heldOver >>
    BY <1>12 DEF StartRemoteInput, Request
  <2>4. UNCHANGED << down, kernel, strokes, stamp, collector, sharedDHIds, keyDownState,
                     lastSessionId, switchOn, handler, eventQueue >>
    BY <1>12 DEF StartRemoteInput, userVars, sinkVars, stateVars
  <2> QED
    BY <2>2, <2>3, <2>4 DEF SessionRequests
<1>13. ASSUME NEW d \in DhIds, StopRemoteInput(d) PROVE TypeOK'
  <2>1. request' \in DhIds \cup {None} /\ requests' \in Nat
    BY <1>13 DEF StopRemoteInput, Request
  <2>2. remoteDown' \in [DhIds -> SUBSET Keys]
    BY <1>13 DEF StopRemoteInput
  <2>3. UNCHANGED << toSource, toSink, callbackQueue, injectQueue, heldOver >>
    BY <1>13 DEF StopRemoteInput
  <2>4. UNCHANGED << down, kernel, strokes, stamp, collector, sharedDHIds, keyDownState,
                     lastSessionId, switchOn, handler, eventQueue >>
    BY <1>13 DEF StopRemoteInput, userVars, sinkVars, stateVars
  <2> QED
    BY <2>1, <2>2, <2>3, <2>4
<1>14. CASE SendStop
  <2>1. [cmd |-> "STOP_DHID", dhId |-> request] \in SessionRequests
    BY <1>14 DEF SendStop, SessionRequests
  <2>2. toSink' \in Seq(SessionRequests)
    BY <1>14, <2>1, AppendProperties DEF SendStop, SessionRequests
  <2> QED
    BY <1>14, <2>2 DEF SendStop, userVars, sinkVars, stateVars, SessionRequests
<1>15. CASE ReceiveFromSink
  <2>1. toSource \in Seq(SessionMessages) /\ toSource # << >>
    BY <1>15 DEF ReceiveFromSink, SessionMessages
  <2>2. Head(toSource) \in SessionMessages /\ Tail(toSource) \in Seq(SessionMessages)
    BY <2>1, HeadTailProperties
  <2>3. Head(toSource).events \in Seq(Event)
    BY <2>2 DEF SessionMessages
  <2>4. /\ callbackQueue \o Head(toSource).events \in Seq(Event)
        /\ injectQueue \o Head(toSource).events \in Seq(Event)
    BY <2>3, ConcatProperties
  <2>5. callbackQueue' \in Seq(Event) /\ injectQueue' \in Seq(Event)
    BY <1>15, <2>4 DEF ReceiveFromSink
  <2> QED
    BY <1>15, <2>2, <2>5 DEF ReceiveFromSink, userVars, sinkVars, stateVars, SessionMessages
<1>16. CASE RunKeyStateCallback
  <2>1. callbackQueue \in Seq(Event) /\ callbackQueue # << >>
    BY <1>16 DEF RunKeyStateCallback
  <2>2. Head(callbackQueue) \in Event /\ Tail(callbackQueue) \in Seq(Event)
    BY <2>1, HeadTailProperties
  <2>3. injectQueue' \in Seq(Event)
    BY <1>16, <2>2, AppendProperties DEF RunKeyStateCallback
  <2> QED
    BY <1>16, <2>2, <2>3 DEF RunKeyStateCallback, userVars, sinkVars, stateVars
<1>17. CASE InjectInputEvent
  <2> DEFINE e == Head(injectQueue)
  <2>1. injectQueue \in Seq(Event) /\ injectQueue # << >>
    BY <1>17 DEF InjectInputEvent
  <2>2. e \in Event /\ Tail(injectQueue) \in Seq(Event)
    BY <2>1, HeadTailProperties
  <2>3. e.dhId \in DhIds /\ e.code \in Keys /\ e.value \in {"down", "up", "repeat"}
    BY <2>2 DEF Event
  <2> DEFINE r == CASE e.value = "down"   -> remoteDown[e.dhId] \cup {e.code}
                    [] e.value = "up"     -> remoteDown[e.dhId] \ {e.code}
                    [] e.value = "repeat" -> remoteDown[e.dhId]
  <2>4. r \in SUBSET Keys
    BY <2>3
  <2>5. remoteDown' = [remoteDown EXCEPT ![e.dhId] = r]
    BY <1>17 DEF InjectInputEvent
  <2> HIDE DEF r
  <2>6. remoteDown' \in [DhIds -> SUBSET Keys]
    BY <2>3, <2>4, <2>5
  <2> QED
    BY <1>17, <2>2, <2>6 DEF InjectInputEvent, userVars, sinkVars, stateVars
<1>18. CASE UNCHANGED vars
  BY <1>18 DEF vars, userVars, sinkVars, stateVars, sourceVars
<1> QED
  BY <1>1, <1>2, <1>3, <1>4, <1>5, <1>6, <1>7, <1>8, <1>9, <1>10, <1>11, <1>12, <1>13, <1>14,
     <1>15, <1>16, <1>17, <1>18 DEF Next

(***************************************************************************)
(* The keys that are down can be put in order: a key takes the place given *)
(* by the number of the keys below it.                                     *)
(***************************************************************************)
Below(S, k) == {j \in S : j < k}
Rank(S, k)  == Cardinality(Below(S, k)) + 1

LEMMA RanksAscend ==
    ASSUME NEW S \in SUBSET Int, IsFiniteSet(S)
    PROVE  /\ Cardinality(S) \in Nat
           /\ \A k \in S : Rank(S, k) \in 1 .. Cardinality(S)
           /\ \A j, k \in S : j < k => Rank(S, j) < Rank(S, k)
<1>1. Cardinality(S) \in Nat
  BY FS_CardinalityType
<1>2. ASSUME NEW k \in S
      PROVE  IsFiniteSet(Below(S, k)) /\ Cardinality(Below(S, k)) \in Nat
  <2>1. Below(S, k) \in SUBSET S
    BY DEF Below
  <2> QED
    BY <2>1, FS_Subset, FS_CardinalityType
<1>3. ASSUME NEW k \in S PROVE Rank(S, k) \in 1 .. Cardinality(S)
  <2>1. Below(S, k) \in SUBSET S /\ k \notin Below(S, k)
    BY DEF Below
  <2>2. /\ Cardinality(Below(S, k)) <= Cardinality(S)
        /\ Cardinality(S) = Cardinality(Below(S, k)) => S = Below(S, k)
    BY <2>1, FS_Subset
  <2>3. Cardinality(S) # Cardinality(Below(S, k))
    BY <2>1, <2>2
  <2> QED
    BY <1>1, <1>2, <2>2, <2>3 DEF Rank
<1>4. ASSUME NEW j \in S, NEW k \in S, j < k PROVE Rank(S, j) < Rank(S, k)
  <2>0. \A i \in S : i < j => i < k
    BY <1>4
  <2>1. Below(S, j) \in SUBSET Below(S, k) /\ j \in Below(S, k) /\ j \notin Below(S, j)
    <3>1. Below(S, j) \in SUBSET Below(S, k)
      BY <2>0, Zenon DEF Below
    <3>2. j \in Below(S, k) /\ j \notin Below(S, j)
      BY <1>4 DEF Below
    <3> QED
      BY <3>1, <3>2
  <2>2. IsFiniteSet(Below(S, k))
    BY <1>2
  <2>3. /\ Cardinality(Below(S, j)) <= Cardinality(Below(S, k))
        /\ Cardinality(Below(S, k)) = Cardinality(Below(S, j)) => Below(S, k) = Below(S, j)
    BY <2>1, <2>2, FS_Subset
  <2>4. Cardinality(Below(S, k)) # Cardinality(Below(S, j))
    BY <2>1, <2>3
  <2> QED
    BY <1>2, <2>3, <2>4 DEF Rank
<1> QED
  BY <1>1, <1>3, <1>4

LEMMA RanksReach ==
    ASSUME NEW S \in SUBSET Int, IsFiniteSet(S), NEW i \in 1 .. Cardinality(S)
    PROVE  \E k \in S : Rank(S, k) = i
<1>1. /\ Cardinality(S) \in Nat
      /\ \A k \in S : Rank(S, k) \in 1 .. Cardinality(S)
      /\ \A j, k \in S : j < k => Rank(S, j) < Rank(S, k)
  BY RanksAscend
<1> DEFINE n == Cardinality(S)
           T == (1 .. n) \ {i}
           r == [k \in S |-> Rank(S, k)]
<1> SUFFICES ASSUME \A k \in S : Rank(S, k) # i PROVE FALSE
  OBVIOUS
<1>2. IsFiniteSet(1 .. n) /\ Cardinality(1 .. n) = n
  <2>1. 1 \in Int /\ n \in Int
    BY <1>1
  <2>2. IsFiniteSet(1 .. n) /\ Cardinality(1 .. n) = IF 1 > n THEN 0 ELSE n - 1 + 1
    BY <2>1, FS_Interval
  <2> QED
    BY <1>1, <2>2
<1>3. IsFiniteSet(T) /\ Cardinality(T) = n - 1
  BY <1>2, FS_RemoveElement
<1>4. r \in [S -> T]
  BY <1>1
<1>5. Cardinality(T) < Cardinality(S)
  BY <1>1, <1>3
<1> HIDE DEF r, T
<1>6. PICK x, y \in S : x # y /\ r[x] = r[y]
  BY <1>3, <1>4, <1>5, FS_PigeonHole
<1>7. Rank(S, x) = Rank(S, y)
  BY <1>6 DEF r
<1>8. x < y \/ y < x
  BY <1>6
<1>9. Rank(S, x) \in Int /\ Rank(S, y) \in Int
  BY <1>1
<1> QED
  BY <1>1, <1>7, <1>8, <1>9

\* s is S in order.
Sorts(s, S) ==
    /\ s \in Seq(S) /\ Elements(s) = S
    /\ \A i, j \in DOMAIN s : i < j => s[i] # s[j]

LEMMA PressedKeysSorted ==
    ASSUME NEW S \in SUBSET Int, IsFiniteSet(S)
    PROVE  Sorts(PressedKeys(S), S)
<1> DEFINE n == Cardinality(S)
           s == [i \in 1 .. n |-> CHOOSE k \in S : Rank(S, k) = i]
<1>1. /\ n \in Nat
      /\ \A k \in S : Rank(S, k) \in 1 .. n
      /\ \A j, k \in S : j < k => Rank(S, j) < Rank(S, k)
  BY RanksAscend
<1>2. \A i \in 1 .. n : s[i] \in S /\ Rank(S, s[i]) = i
  BY RanksReach
<1> HIDE DEF n
<1>3. s \in [1 .. n -> S] /\ DOMAIN s = 1 .. n
  BY <1>2
<1> HIDE DEF s
<1>4. \A i, j \in 1 .. n : i # j => s[i] # s[j]
  BY <1>2
<1>5. \A i, j \in 1 .. n : i < j => s[i] < s[j]
  <2> SUFFICES ASSUME NEW i \in 1 .. n, NEW j \in 1 .. n, i < j, ~(s[i] < s[j]) PROVE FALSE
    OBVIOUS
  <2>1. s[i] \in S /\ s[j] \in S /\ s[i] \in Int /\ s[j] \in Int /\ Rank(S, s[i]) = i /\ Rank(S, s[j]) = j
    BY <1>2
  <2>2. s[j] < s[i] \/ s[j] = s[i]
    BY <2>1
  <2>3. s[j] = s[i] => i = j
    BY <2>1
  <2>4. s[j] < s[i] => j < i
    BY <1>1, <2>1
  <2> QED
    BY <1>1, <2>2, <2>3, <2>4
<1>6. Cardinality(S) = n
  BY DEF Cardinality, Cardinality, n
<1>7. s \in SetToSeqs(S)
  BY <1>3, <1>4, <1>6 DEF SetToSeqs
<1>8. PICK t : t = PressedKeys(S)
  OBVIOUS
<1>9. t \in SetToSeqs(S) /\ \A i, j \in DOMAIN t : i < j => t[i] < t[j]
  <2>1. t = CHOOSE u \in SetToSeqs(S) : \A i, j \in DOMAIN u : i < j => u[i] < u[j]
    BY <1>8 DEF PressedKeys
  <2> QED
    BY <1>3, <1>5, <1>7, <2>1, Zenon
<1>10. t \in [1 .. n -> S] /\ DOMAIN t = 1 .. n /\ \A i, j \in 1 .. n : i # j => t[i] # t[j]
  BY <1>6, <1>9 DEF SetToSeqs
<1>11. t \in Seq(S)
  BY <1>1, <1>10, IsASeq
<1>12. Elements(t) = S
  <2>1. Elements(t) \in SUBSET S
    BY <1>10 DEF Elements
  <2> SUFFICES ASSUME Elements(t) # S PROVE FALSE
    OBVIOUS
  <2>2. /\ IsFiniteSet(Elements(t)) /\ Cardinality(Elements(t)) <= n
        /\ Cardinality(Elements(t)) # n
    BY <2>1, FS_Subset DEF n
  <2>3. Cardinality(Elements(t)) \in Nat
    BY <2>2, FS_CardinalityType
  <2>4. Cardinality(1 .. n) = n /\ IsFiniteSet(1 .. n)
    <3>1. 1 \in Int /\ n \in Int
      BY <1>1
    <3>2. IsFiniteSet(1 .. n) /\ Cardinality(1 .. n) = IF 1 > n THEN 0 ELSE n - 1 + 1
      BY <3>1, FS_Interval
    <3> QED
      BY <1>1, <3>2
  <2>5. Cardinality(Elements(t)) < Cardinality(1 .. n)
    BY <1>1, <2>2, <2>3, <2>4
  <2>6. t \in [1 .. n -> Elements(t)]
    BY <1>10 DEF Elements
  <2>7. PICK x, y \in 1 .. n : x # y /\ t[x] = t[y]
    BY <2>2, <2>4, <2>5, <2>6, FS_PigeonHole
  <2> QED
    BY <1>10, <2>7
<1>13. \A i, j \in DOMAIN t : i < j => t[i] # t[j]
  <2>1. \A i, j \in 1 .. n : i < j => i # j
    BY <1>1
  <2> QED
    BY <1>10, <2>1
<1> QED
  BY <1>8, <1>11, <1>12, <1>13 DEF Sorts

LEMMA KeyTypesInit == KeyAssumption /\ Init => TypeOK
<1> SUFFICES ASSUME KeyAssumption, Init PROVE TypeOK
  OBVIOUS
<1>1. \A d \in DhIds : PressedKeys(down[d]) \in Seq(Keys)
  <2> TAKE d \in DhIds
  <2>1. down[d] \in SUBSET Keys
    BY DEF Init
  <2>2. down[d] \in SUBSET Int /\ IsFiniteSet(Keys)
    BY <2>1 DEF KeyAssumption, IsFiniteSet
  <2>3. IsFiniteSet(down[d])
    BY <2>1, <2>2, FS_Subset
  <2>4. Sorts(PressedKeys(down[d]), down[d])
    BY <2>2, <2>3, PressedKeysSorted
  <2> QED
    BY <2>1, <2>4, SeqMonotonic DEF Sorts
<1>2. keyDownState \in [DhIds -> Seq(Keys)]
  BY <1>1 DEF Init
<1>3. kernel \in [DhIds -> Seq(Event)] /\ remoteDown \in [DhIds -> SUBSET Keys]
      /\ heldOver \in [DhIds -> SUBSET Keys] /\ stamp \in [DhIds -> [Keys -> Nat]]
  BY EmptySeq DEF Init
<1>4. collector \in [dhId : DhIds \cup {None}, read : Seq(Event), checked : BOOLEAN]
  BY DEF Init, Idle
<1>5. /\ eventQueue \in Seq(Seq(Event))
      /\ toSource \in Seq([cmd : {"KEY_STATE", "BODY_DATA"}, events : Seq(Event)])
      /\ toSink \in Seq([cmd : {"START_DHID", "STOP_DHID"}, dhId : DhIds])
      /\ callbackQueue \in Seq(Event) /\ injectQueue \in Seq(Event)
  BY EmptySeq DEF Init
<1>6. /\ down \in [DhIds -> SUBSET Keys] /\ sharedDHIds \subseteq DhIds
      /\ lastSessionId \in 0 .. 1 /\ switchOn \in BOOLEAN
      /\ handler \in DhIds \cup {None} /\ request \in DhIds \cup {None}
      /\ strokes \in Nat /\ requests \in Nat
  <2>1. down \in [DhIds -> SUBSET Keys]
    BY Zenon DEF Init
  <2>2. sharedDHIds = {} /\ lastSessionId = 0 /\ strokes = 0 /\ requests = 0
    BY Zenon DEF Init
  <2>3. handler = None /\ request = None /\ switchOn = FALSE
    BY Zenon DEF Init
  <2>4. sharedDHIds \subseteq DhIds /\ lastSessionId \in 0 .. 1 /\ strokes \in Nat /\ requests \in Nat
    BY <2>2
  <2>5. handler \in DhIds \cup {None} /\ request \in DhIds \cup {None} /\ switchOn \in BOOLEAN
    BY <2>3, Zenon
  <2> QED
    BY <2>1, <2>4, <2>5
<1> QED
  BY <1>2, <1>3, <1>4, <1>5, <1>6, Zenon DEF TypeOK

\* Whatever is lent, stroked and injected, every queue holds events of the devices and
\* every record keys.
THEOREM KeysTypeCorrect == ASSUME KeyAssumption PROVE Spec => []TypeOK
<1>1. Init => TypeOK
  BY KeyTypesInit
<1>2. TypeOK /\ [Next]_vars => TypeOK'
  BY KeyTypesStep
<1> QED
  BY <1>1, <1>2, PTL DEF Spec

(***************************************************************************)
(* What is under way in the messages of the session.                       *)
(***************************************************************************)
Batches(q) == [i \in DOMAIN q |-> q[i].events]
Events(q)  == FlattenSeq(Batches(q))

LEMMA HeadJoins ==
    ASSUME NEW S, NEW s \in Seq(S), s # << >>
    PROVE  /\ Head(s) \in S /\ Tail(s) \in Seq(S) /\ << Head(s) >> \in Seq(S)
           /\ s = << Head(s) >> \o Tail(s)
<1>1. /\ Head(s) \in S /\ Tail(s) \in Seq(S) /\ Len(Tail(s)) = Len(s) - 1
      /\ Head(s) = s[1] /\ \A i \in 1 .. Len(Tail(s)) : Tail(s)[i] = s[i + 1]
  BY OfTail
<1>2. Len(s) \in Nat /\ Len(s) > 0
  BY OfSeq
<1>3. << Head(s) >> \in Seq(S) /\ Len(<< Head(s) >>) = 1 /\ << Head(s) >>[1] = Head(s)
  BY <1>1
<1> DEFINE a == << Head(s) >>
           b == Tail(s)
           c == a \o b
<1>4. /\ c \in Seq(S) /\ Len(c) = 1 + (Len(s) - 1)
      /\ \A i \in 1 .. 1 + (Len(s) - 1) : c[i] = IF i <= 1 THEN a[i] ELSE b[i - 1]
  <2> HIDE DEF a, b
  <2>1. a \in Seq(S)
    BY <1>3 DEF a
  <2>2. b \in Seq(S)
    BY <1>1 DEF b
  <2>3. Len(a) = 1 /\ Len(b) = Len(s) - 1
    BY <1>1, <1>3 DEF a, b
  <2>4. /\ c \in Seq(S) /\ Len(c) = Len(a) + Len(b)
        /\ \A i \in 1 .. Len(a) + Len(b) : c[i] = IF i <= Len(a) THEN a[i] ELSE b[i - Len(a)]
    BY <2>1, <2>2, ConcatProperties, Zenon
  <2> HIDE DEF c
  <2> QED
    BY <2>3, <2>4
<1> HIDE DEF a, b, c
<1>5. ASSUME NEW i \in 1 .. Len(s) PROVE c[i] = s[i]
  <2>1. i \in 1 .. 1 + (Len(s) - 1)
    BY <1>2
  <2>2. CASE i = 1
    BY <1>1, <1>3, <1>4, <2>1, <2>2 DEF a
  <2>3. CASE i # 1
    <3>1. i - 1 \in 1 .. Len(b) /\ ~(i <= 1) /\ (i - 1) + 1 = i
      BY <1>1, <1>2, <2>3 DEF b
    <3>2. c[i] = b[i - 1]
      BY <1>4, <2>1, <3>1
    <3>3. b[i - 1] = s[(i - 1) + 1]
      BY <1>1, <3>1 DEF b
    <3> QED
      BY <3>1, <3>2, <3>3
  <2> QED
    BY <2>2, <2>3
<1>6. c = s
  <2>1. Len(c) = Len(s)
    BY <1>2, <1>4
  <2> QED
    BY <1>4, <1>5, <2>1, SeqEqual
<1> QED
  BY <1>1, <1>3, <1>6 DEF a, b, c

LEMMA BatchesTypes ==
    ASSUME NEW q \in Seq(SessionMessages)
    PROVE  /\ Batches(q) \in Seq(Seq(Event)) /\ Len(Batches(q)) = Len(q)
           /\ DOMAIN Batches(q) = 1 .. Len(q) /\ Len(q) \in Nat
           /\ \A i \in 1 .. Len(q) : Batches(q)[i] = q[i].events
<1>1. DOMAIN q = 1 .. Len(q) /\ Len(q) \in Nat /\ \A i \in 1 .. Len(q) : q[i] \in SessionMessages
  BY LenProperties, ElementOfSeq
<1>2. \A i \in 1 .. Len(q) : q[i].events \in Seq(Event)
  BY <1>1 DEF SessionMessages
<1>3. Batches(q) = [i \in 1 .. Len(q) |-> q[i].events]
  BY <1>1 DEF Batches
<1>4. Batches(q) \in Seq(Seq(Event))
  BY <1>1, <1>2, <1>3, IsASeq
<1>5. DOMAIN Batches(q) = 1 .. Len(q) /\ \A i \in 1 .. Len(q) : Batches(q)[i] = q[i].events
  BY <1>3
<1>6. Len(Batches(q)) = Len(q)
  <2>1. Len(Batches(q)) \in Nat /\ DOMAIN Batches(q) = 1 .. Len(Batches(q))
    BY <1>4, LenProperties
  <2> QED
    BY <1>1, <1>5, <2>1
<1> QED
  BY <1>1, <1>4, <1>5, <1>6

LEMMA EventsTypes ==
    ASSUME NEW q \in Seq(SessionMessages)
    PROVE  Events(q) \in Seq(Event) /\ (q = << >> => Events(q) = << >>)
<1>1. Batches(q) \in Seq(Seq(Event)) /\ Len(Batches(q)) = Len(q)
  BY BatchesTypes
<1>2. q = << >> => Batches(q) = << >>
  BY <1>1, EmptySeq
<1> QED
  BY <1>1, <1>2, FlattenTypes DEF Events

LEMMA EventsConcat ==
    ASSUME NEW a \in Seq(SessionMessages), NEW b \in Seq(SessionMessages)
    PROVE  Events(a \o b) = Events(a) \o Events(b)
<1> DEFINE c == a \o b
           d == Batches(a) \o Batches(b)
<1>1. c \in Seq(SessionMessages) /\ Len(c) = Len(a) + Len(b) /\ Joins(c, a, b)
  BY ConcatProperties, ConcatAt
<1>2. /\ Batches(a) \in Seq(Seq(Event)) /\ Len(Batches(a)) = Len(a)
      /\ Batches(b) \in Seq(Seq(Event)) /\ Len(Batches(b)) = Len(b)
      /\ Batches(c) \in Seq(Seq(Event)) /\ Len(Batches(c)) = Len(c)
      /\ Len(a) \in Nat /\ Len(b) \in Nat
  BY <1>1, BatchesTypes
<1>3. d \in Seq(Seq(Event)) /\ Len(d) = Len(a) + Len(b) /\ Joins(d, Batches(a), Batches(b))
  <2>1. ASSUME NEW x \in Seq(Seq(Event)), NEW y \in Seq(Seq(Event))
        PROVE  x \o y \in Seq(Seq(Event)) /\ Len(x \o y) = Len(x) + Len(y) /\ Joins(x \o y, x, y)
    BY ConcatAt, Concatenated, Zenon
  <2> QED
    BY <1>2, <2>1
<1> HIDE DEF c, d
<1>4. ASSUME NEW i \in 1 .. Len(c) PROVE Batches(c)[i] = d[i]
  <2>1. Batches(c)[i] = c[i].events /\ i \in DOMAIN c
    BY <1>1, <1>4, BatchesTypes, LenProperties
  <2>2. CASE i <= Len(a)
    <3>1. i \in DOMAIN a /\ i \in DOMAIN Batches(a) /\ Batches(a)[i] = a[i].events
      BY <1>1, <1>2, <1>4, <2>2, BatchesTypes, LenProperties
    <3>2. c[i] = a[i] /\ d[i] = Batches(a)[i]
      BY <1>1, <1>3, <3>1 DEF Joins
    <3> QED
      BY <2>1, <3>1, <3>2
  <2>3. CASE ~(i <= Len(a))
    <3>1. /\ i - Len(a) \in 1 .. Len(b) /\ Len(a) + (i - Len(a)) = i
          /\ Len(Batches(a)) + (i - Len(a)) = i
      BY <1>1, <1>2, <1>4, <2>3
    <3>2. i - Len(a) \in DOMAIN b /\ i - Len(a) \in DOMAIN Batches(b)
          /\ Batches(b)[i - Len(a)] = b[i - Len(a)].events
      BY <3>1, BatchesTypes, LenProperties
    <3>3. c[i] = b[i - Len(a)]
      BY <1>1, <3>1, <3>2, Zenon DEF Joins
    <3>4. d[i] = Batches(b)[i - Len(a)]
      BY <1>3, <3>1, <3>2, Zenon DEF Joins
    <3> QED
      BY <2>1, <3>2, <3>3, <3>4
  <2> QED
    BY <2>2, <2>3
<1>5. Batches(c) = d
  <2>1. Len(Batches(c)) = Len(d)
    BY <1>1, <1>2, <1>3
  <2> QED
    BY <1>2, <1>3, <1>4, <2>1, SeqEqual
<1>6. FlattenSeq(d) = FlattenSeq(Batches(a)) \o FlattenSeq(Batches(b))
  BY <1>2, FlattenConcat DEF d
<1> QED
  BY <1>5, <1>6 DEF Events, c

LEMMA EventsOne ==
    ASSUME NEW m \in SessionMessages
    PROVE  << m >> \in Seq(SessionMessages) /\ Events(<< m >>) = m.events
<1>1. << m >> \in Seq(SessionMessages) /\ Len(<< m >>) = 1 /\ << m >>[1] = m
  OBVIOUS
<1>2. m.events \in Seq(Event)
  BY DEF SessionMessages
<1>3. Batches(<< m >>) = << m.events >>
  <2>1. /\ Batches(<< m >>) \in Seq(Seq(Event)) /\ Len(Batches(<< m >>)) = 1
        /\ Batches(<< m >>)[1] = m.events
    BY <1>1, BatchesTypes
  <2>2. << m.events >> \in Seq(Seq(Event)) /\ Len(<< m.events >>) = 1 /\ << m.events >>[1] = m.events
    BY <1>2
  <2>3. \A i \in 1 .. 1 : i = 1
    OBVIOUS
  <2> QED
    BY <2>1, <2>2, <2>3, SeqEqual
<1> QED
  BY <1>1, <1>2, <1>3, FlattenOne DEF Events

LEMMA EventsAppend ==
    ASSUME NEW q \in Seq(SessionMessages), NEW m \in SessionMessages
    PROVE  Events(Append(q, m)) = Events(q) \o m.events
<1>1. Append(q, m) = q \o << m >>
  BY AppendIsConcat
<1> QED
  BY <1>1, EventsConcat, EventsOne

LEMMA EventsHead ==
    ASSUME NEW q \in Seq(SessionMessages), q # << >>
    PROVE  /\ Head(q) \in SessionMessages /\ Head(q).events \in Seq(Event)
           /\ Tail(q) \in Seq(SessionMessages)
           /\ Events(q) = Head(q).events \o Events(Tail(q))
<1>1. /\ Head(q) \in SessionMessages /\ Tail(q) \in Seq(SessionMessages)
      /\ q = << Head(q) >> \o Tail(q)
  BY HeadJoins
<1>2. Head(q).events \in Seq(Event)
  BY <1>1 DEF SessionMessages
<1>3. Events(<< Head(q) >>) = Head(q).events /\ << Head(q) >> \in Seq(SessionMessages)
  BY <1>1, EventsOne
<1>4. Events(<< Head(q) >> \o Tail(q)) = Events(<< Head(q) >>) \o Events(Tail(q))
  BY <1>1, <1>3, EventsConcat
<1> QED
  BY <1>1, <1>2, <1>3, <1>4

LEMMA FlattenAppend ==
    ASSUME NEW S, NEW q \in Seq(Seq(S)), NEW b \in Seq(S)
    PROVE  FlattenSeq(Append(q, b)) = FlattenSeq(q) \o b
<1>1. Append(q, b) = q \o << b >> /\ << b >> \in Seq(Seq(S))
  BY AppendIsConcat
<1>2. FlattenSeq(q \o << b >>) = FlattenSeq(q) \o FlattenSeq(<< b >>)
  BY <1>1, FlattenConcat
<1>3. FlattenSeq(<< b >>) = b
  BY FlattenOne
<1> QED
  BY <1>1, <1>2, <1>3

LEMMA FlattenHead ==
    ASSUME NEW S, NEW q \in Seq(Seq(S)), q # << >>
    PROVE  FlattenSeq(q) = Head(q) \o FlattenSeq(Tail(q))
<1>1. /\ Head(q) \in Seq(S) /\ Tail(q) \in Seq(Seq(S)) /\ << Head(q) >> \in Seq(Seq(S))
      /\ q = << Head(q) >> \o Tail(q)
  BY HeadJoins
<1>2. FlattenSeq(<< Head(q) >>) = Head(q)
  BY <1>1, FlattenOne
<1>3. FlattenSeq(<< Head(q) >> \o Tail(q)) = FlattenSeq(<< Head(q) >>) \o FlattenSeq(Tail(q))
  BY <1>1, FlattenConcat
<1> QED
  BY <1>1, <1>2, <1>3

\* Messages of one event each join to these events.
LEMMA EventsOfSingles ==
    ASSUME NEW q \in Seq(SessionMessages), NEW e \in Seq(Event), Len(e) = Len(q),
           \A i \in 1 .. Len(q) : q[i].events = << e[i] >>
    PROVE  Events(q) = e
<1>1. /\ Batches(q) \in Seq(Seq(Event)) /\ Len(Batches(q)) = Len(q) /\ Len(q) \in Nat
      /\ \A i \in 1 .. Len(q) : Batches(q)[i] = << e[i] >>
  BY BatchesTypes
<1>2. \A i \in 1 .. Len(q) : e[i] \in Event
  BY ElementOfSeq
<1>3. CASE Len(q) = 0
  <2>1. q = << >> /\ e = << >>
    BY <1>3, EmptySeq
  <2> QED
    BY <2>1, EventsTypes
<1>4. CASE Len(q) # 0
  <2> DEFINE b == Batches(q)
             n == Len(q)
  <2>1. PICK f : Flattens(f, b, n) /\ FlattenSeq(b) = f[n]
    BY <1>1, <1>4, FlattenOf
  <2>2. \A i \in 1 .. n : f[i] \in Seq(Event)
    BY <1>1, <2>1, FlattensTypes
  <2>3. n \in Nat /\ n # 0 /\ \A i \in 1 .. n : b[i] = << e[i] >>
    BY <1>1, <1>4
  <2> HIDE DEF b, n
  <2>4. \A i \in 1 .. n : FlatStep(f, b, i, n)
    BY <2>1, <2>3, FlattensAt
  <2> DEFINE Fits(i) == Len(f[i]) = i /\ \A j \in 1 .. i : f[i][j] = e[j]
             T == {i \in 1 .. n : ~Fits(i)}
  <2>5. \A i \in 1 .. n : Fits(i)
    <3> SUFFICES ASSUME T # {} PROVE FALSE
      OBVIOUS
    <3>1. PICK m \in T : \A k \in T : m <= k
      <4>1. T \in SUBSET Nat
        BY <2>3
      <4> QED
        BY <4>1, LeastOf
    <3>2. m \in 1 .. n /\ ~Fits(m)
      BY <3>1
    <3>3. CASE m = 1
      <4>1. f[m] = << e[1] >>
        BY <2>3, <2>4, <3>2, <3>3, Zenon DEF FlatStep
      <4>2. Len(f[m]) = 1 /\ f[m][1] = e[1] /\ \A j \in 1 .. 1 : j = 1
        BY <4>1
      <4> QED
        BY <3>2, <3>3, <4>2
    <3>4. CASE m # 1
      <4>1. m - 1 \in 1 .. n /\ ~(m <= m - 1)
        BY <2>3, <3>2, <3>4
      <4>2. Fits(m - 1)
        BY <3>1, <4>1
      <4>3. f[m] = f[m - 1] \o << e[m] >>
        BY <2>3, <2>4, <3>2, <3>4, Zenon DEF FlatStep
      <4>4. f[m - 1] \in Seq(Event) /\ Len(f[m - 1]) = m - 1 /\ e[m] \in Event
        BY <1>2, <2>2, <3>2, <4>1, <4>2 DEF n
      <4>5. PICK g : g = f[m - 1]
        OBVIOUS
      <4>6. f[m] = Append(g, e[m])
        BY <4>3, <4>4, <4>5, AppendIsConcat
      <4>7. /\ Len(Append(g, e[m])) = (m - 1) + 1 /\ Append(g, e[m])[(m - 1) + 1] = e[m]
            /\ \A j \in 1 .. m - 1 : Append(g, e[m])[j] = g[j]
        BY <4>4, <4>5, AppendProperties
      <4>8. \A j \in 1 .. m : j = (m - 1) + 1 \/ j \in 1 .. m - 1
        BY <2>3, <3>2
      <4>9. \A j \in 1 .. m - 1 : g[j] = e[j]
        BY <4>2, <4>5
      <4> QED
        BY <2>3, <3>2, <4>6, <4>7, <4>8, <4>9
    <3> QED
      BY <3>3, <3>4
  <2>6. Fits(n) /\ f[n] \in Seq(Event)
    BY <2>2, <2>3, <2>5
  <2>7. f[n] = e
    BY <2>6, SeqEqual DEF n
  <2> QED
    BY <2>1, <2>7 DEF Events, b
<1> QED
  BY <1>3, <1>4

(***************************************************************************)
(* The strokes on their way.                                               *)
(***************************************************************************)
Session     == Events(toSource)
Handed      == FlattenSeq(eventQueue)
Unread      == UNION {Elements(kernel[d]) : d \in DhIds}
NoStroke(s) == \A e \in Elements(s) : e.n = 0

\* What the places of the way hold: a device's buffer only strokes of that device, the
\* collector those of the device it reads, and a key state no stroke at all.
KeyPlaces ==
    /\ \A d \in DhIds : \A e \in Elements(kernel[d]) : e.dhId = d /\ e.n > 0
    /\ \A e \in Elements(collector.read) : e.dhId = collector.dhId /\ e.n > 0
    /\ NoStroke(callbackQueue)
    /\ \A m \in Elements(toSource) : m.cmd = "KEY_STATE" => NoStroke(m.events)
    /\ collector.dhId = None => collector = Idle

LEMMA OfOne == ASSUME NEW e PROVE Elements(<< e >>) = {e}
<1>1. DOMAIN << e >> = {1} /\ << e >>[1] = e
  OBVIOUS
<1> QED
  BY <1>1 DEF Elements

LEMMA ReplayElements ==
    ASSUME NEW d, NEW m \in Elements(Replay(d))
    PROVE  m.cmd = "KEY_STATE" /\ NoStroke(m.events)
<1>1. PICK i \in DOMAIN keyDownState[d] :
         m = Message("KEY_STATE", << Simulated(d, keyDownState[d][i], "down") >>)
  BY DEF Elements, Replay
<1>2. m.cmd = "KEY_STATE" /\ m.events = << Simulated(d, keyDownState[d][i], "down") >>
  BY <1>1 DEF Message
<1>3. Simulated(d, keyDownState[d][i], "down").n = 0
  BY DEF Simulated
<1> QED
  BY <1>2, <1>3, OfOne DEF NoStroke

LEMMA KeyPlacesInit == KeyAssumption /\ Init => KeyPlaces
<1> SUFFICES ASSUME KeyAssumption, Init PROVE KeyPlaces
  OBVIOUS
<1>1. /\ \A d \in DhIds : kernel[d] = << >>
      /\ collector = Idle /\ callbackQueue = << >> /\ toSource = << >>
  BY DEF Init
<1>2. Elements(<< >>) = {} /\ collector.read = << >>
  BY <1>1, OfNothing DEF Idle
<1> QED
  BY <1>1, <1>2 DEF KeyPlaces, NoStroke

LEMMA KeyPlacesStep ==
    ASSUME KeyAssumption, TypeOK, KeyPlaces, [Next]_vars
    PROVE  KeyPlaces'
<1>0. /\ Elements(<< >>) = {} /\ Idle.read = << >> /\ Idle.dhId = None
      /\ None \notin DhIds
  BY OfNothing, NoDevice DEF Idle
<1>t. /\ \A d \in DhIds : kernel[d] \in Seq(Event)
      /\ kernel \in [DhIds -> Seq(Event)] /\ strokes \in Nat
  BY DEF TypeOK
<1>c. /\ collector \in [dhId : DhIds \cup {None}, read : Seq(Event), checked : BOOLEAN]
      /\ collector.read \in Seq(Event)
      /\ toSource \in Seq(SessionMessages) /\ callbackQueue \in Seq(Event)
  BY DEF TypeOK, SessionMessages
<1>s. ASSUME NEW d \in DhIds, NEW k \in Keys, NEW v \in {"down", "up", "repeat"},
             Stroke(d, k, v)
      PROVE  KeyPlaces'
  <2> DEFINE e == [dhId |-> d, code |-> k, value |-> v, n |-> strokes + 1]
  <2>1. e \in Event /\ e.dhId = d /\ e.n > 0
    BY <1>t DEF Event
  <2>2. kernel' = [kernel EXCEPT ![d] = Append(@, e)] /\ UNCHANGED << collector, callbackQueue, toSource >>
    BY <1>s DEF Stroke, sinkVars, sourceVars
  <2> HIDE DEF e
  <2>3. Elements(Append(kernel[d], e)) = Elements(kernel[d]) \cup {e}
    BY <1>t, <2>1, Appended
  <2>4. \A c \in DhIds : \A x \in Elements(kernel'[c]) : x.dhId = c /\ x.n > 0
    BY <1>t, <2>1, <2>2, <2>3 DEF KeyPlaces
  <2> QED
    BY <2>2, <2>4 DEF KeyPlaces, NoStroke
<1>1. ASSUME NEW d \in DhIds, NEW k \in Keys,
             Press(d, k) \/ Release(d, k) \/ Repeat(d, k)
      PROVE KeyPlaces'
  BY <1>1, <1>s DEF Press, Release, Repeat
<1>4. ASSUME NEW d \in DhIds, ReadEvents(d) PROVE KeyPlaces'
  <2>1. /\ kernel' = [kernel EXCEPT ![d] = << >>]
        /\ collector' = [dhId |-> d, read |-> kernel[d], checked |-> FALSE]
        /\ UNCHANGED << callbackQueue, toSource >>
    BY <1>4 DEF ReadEvents, sourceVars
  <2>2. collector'.dhId = d /\ collector'.read = kernel[d] /\ d # None
    BY <1>0, <2>1
  <2>3. \A c \in DhIds : \A x \in Elements(kernel'[c]) : x.dhId = c /\ x.n > 0
    BY <1>0, <1>t, <2>1 DEF KeyPlaces
  <2>4. \A e \in Elements(collector'.read) : e.dhId = collector'.dhId /\ e.n > 0
    BY <2>2 DEF KeyPlaces
  <2> QED
    BY <2>1, <2>2, <2>3, <2>4 DEF KeyPlaces, NoStroke
<1>5. ASSUME collector' = Idle, UNCHANGED << kernel, callbackQueue, toSource >> PROVE KeyPlaces'
  BY <1>0, <1>5 DEF KeyPlaces, NoStroke, Idle
<1>6. ASSUME UNCHANGED << kernel, callbackQueue, toSource, collector >> PROVE KeyPlaces'
  BY <1>6 DEF KeyPlaces, NoStroke
<1>7. CASE CheckShared
  <2>1. UNCHANGED << kernel, callbackQueue, toSource >>
    BY <1>7 DEF CheckShared, userVars, sourceVars
  <2>2. CASE collector' = Idle
    BY <1>5, <2>1, <2>2
  <2>3. CASE collector' = [collector EXCEPT !.checked = TRUE]
    <3>1. collector'.dhId = collector.dhId /\ collector'.read = collector.read /\ collector.dhId # None
      BY <1>7, <1>c, <2>3 DEF CheckShared
    <3> QED
      BY <2>1, <3>1 DEF KeyPlaces, NoStroke
  <2> QED
    BY <1>7, <2>2, <2>3 DEF CheckShared
<1>8. CASE RecordEvent
  <2>1. /\ collector' = [collector EXCEPT !.read = Tail(@)] /\ collector.read # << >>
        /\ UNCHANGED << kernel, callbackQueue >>
    BY <1>8 DEF RecordEvent, userVars, sourceVars
  <2>2. collector'.dhId = collector.dhId /\ collector'.read = Tail(collector.read)
    BY <1>c, <2>1
  <2>3. Elements(Tail(collector.read)) \subseteq Elements(collector.read)
    BY <1>c, <2>1, OfTail
  <2>4. collector.dhId # None
    BY <1>0, <2>1 DEF KeyPlaces
  <2> DEFINE d == Head(collector.read).dhId
             m == Message("BODY_DATA", << Simulated(d, BTN_MOUSE, "up") >>)
  <2>5. m \in SessionMessages /\ m.cmd # "KEY_STATE"
    <3>1. Head(collector.read) \in Event
      BY <1>c, <2>1, HeadTailProperties
    <3>2. d \in DhIds
      BY <3>1 DEF Event
    <3> QED
      BY <3>2, SimulatedTypes DEF KeyAssumption, Message
  <2>6. toSource' = Append(toSource, m) \/ toSource' = toSource
    BY <1>8 DEF RecordEvent
  <2> HIDE DEF m
  <2>7. Elements(toSource') \subseteq Elements(toSource) \cup {m}
    <3>1. Elements(Append(toSource, m)) = Elements(toSource) \cup {m}
      BY <1>c, <2>5, Appended
    <3> QED
      BY <2>6, <3>1
  <2> QED
    BY <2>1, <2>2, <2>3, <2>4, <2>5, <2>7 DEF KeyPlaces, NoStroke
<1>9. CASE StartRecordDhIds
  <2> DEFINE d == Head(toSink).dhId
  <2>1. toSink \in Seq(SessionRequests) /\ toSink # << >>
    BY <1>9 DEF StartRecordDhIds, NextRequest, SessionRequests, TypeOK
  <2>2. d \in DhIds
    <3>1. Head(toSink) \in SessionRequests
      BY <2>1, HeadTailProperties
    <3> QED
      BY <3>1 DEF SessionRequests
  <2>3. Replay(d) \in Seq(SessionMessages)
    BY <2>2, ReplayTypes
  <2>4. toSource' = toSource \o Replay(d) /\ UNCHANGED << kernel, callbackQueue, collector >>
    BY <1>9 DEF StartRecordDhIds, userVars, sourceVars
  <2> HIDE DEF d
  <2>5. Elements(toSource') = Elements(toSource) \cup Elements(Replay(d))
    BY <1>c, <2>3, <2>4, Concatenated
  <2>6. \A m \in Elements(toSource') : m.cmd = "KEY_STATE" => NoStroke(m.events)
    BY <2>5, ReplayElements DEF KeyPlaces
  <2> QED
    BY <2>4, <2>6 DEF KeyPlaces, NoStroke
<1>10. CASE SendEvents
  <2>1. eventQueue \in Seq(Seq(Event)) /\ eventQueue # << >>
    BY <1>10 DEF SendEvents, TypeOK
  <2>2. Head(eventQueue) \in Seq(Event)
    BY <2>1, HeadTailProperties
  <2> DEFINE m == Message("BODY_DATA", Head(eventQueue))
  <2>3. m \in SessionMessages /\ m.cmd # "KEY_STATE"
    BY <2>2 DEF Message, SessionMessages
  <2>4. toSource' = Append(toSource, m) \/ toSource' = toSource
    BY <1>10 DEF SendEvents
  <2>5. UNCHANGED << kernel, callbackQueue, collector >>
    BY <1>10 DEF SendEvents, userVars, sourceVars
  <2> HIDE DEF m
  <2>6. Elements(toSource') \subseteq Elements(toSource) \cup {m}
    <3>1. Elements(Append(toSource, m)) = Elements(toSource) \cup {m}
      BY <1>c, <2>3, Appended
    <3> QED
      BY <2>4, <3>1
  <2> QED
    BY <2>3, <2>5, <2>6 DEF KeyPlaces, NoStroke
<1>11. CASE ReceiveFromSink
  <2>1. toSource # << >> /\ toSource' = Tail(toSource) /\ UNCHANGED << kernel, collector >>
    BY <1>11 DEF ReceiveFromSink, userVars, sinkVars
  <2>2. /\ Head(toSource) \in Elements(toSource) /\ Elements(toSource') \subseteq Elements(toSource)
        /\ Head(toSource).events \in Seq(Event)
    BY <1>c, <2>1, OfTail, EventsHead
  <2>3. NoStroke(callbackQueue')
    <3>1. CASE Head(toSource).cmd = "KEY_STATE"
      <4>1. callbackQueue' = callbackQueue \o Head(toSource).events
        BY <1>11, <3>1 DEF ReceiveFromSink
      <4>2. Elements(callbackQueue') = Elements(callbackQueue) \cup Elements(Head(toSource).events)
        BY <1>c, <2>2, <4>1, Concatenated
      <4> QED
        BY <2>2, <3>1, <4>2 DEF KeyPlaces, NoStroke
    <3>2. CASE Head(toSource).cmd # "KEY_STATE"
      <4>1. callbackQueue' = callbackQueue
        BY <1>11, <3>2 DEF ReceiveFromSink
      <4> QED
        BY <4>1 DEF KeyPlaces, NoStroke
    <3> QED
      BY <3>1, <3>2
  <2> QED
    BY <2>1, <2>2, <2>3 DEF KeyPlaces
<1>12. CASE RunKeyStateCallback
  <2>1. /\ callbackQueue # << >> /\ callbackQueue' = Tail(callbackQueue)
        /\ UNCHANGED << kernel, collector, toSource >>
    BY <1>12 DEF RunKeyStateCallback, userVars, sinkVars
  <2>2. Elements(callbackQueue') \subseteq Elements(callbackQueue)
    BY <1>c, <2>1, OfTail
  <2> QED
    BY <2>1, <2>2 DEF KeyPlaces, NoStroke
<1>13. CASE RecordedAll
  BY <1>5, <1>13 DEF RecordedAll, userVars, sourceVars
<1>14. CASE StartSetSharing
  BY <1>6, <1>14 DEF StartSetSharing, userVars, sourceVars
<1>15. CASE StopRemoteInputDhid
  BY <1>6, <1>15 DEF StopRemoteInputDhid, userVars, sourceVars
<1>16. ASSUME NEW d \in DhIds, StartRemoteInput(d) \/ StopRemoteInput(d) PROVE KeyPlaces'
  BY <1>6, <1>16 DEF StartRemoteInput, StopRemoteInput, userVars, sinkVars
<1>17. CASE SendStop
  BY <1>6, <1>17 DEF SendStop, userVars, sinkVars
<1>18. CASE InjectInputEvent
  BY <1>6, <1>18 DEF InjectInputEvent, userVars, sinkVars
<1>19. CASE UNCHANGED vars
  BY <1>6, <1>19 DEF vars, userVars, sinkVars, sourceVars
<1> QED
  BY <1>1, <1>4, <1>7, <1>8, <1>9, <1>10, <1>11, <1>12, <1>13, <1>14, <1>15, <1>16, <1>17,
     <1>18, <1>19 DEF Next

\* Strokes of S were made before those of T of the same device.
Earlier(S, T) == \A a \in S, b \in T : a.n > 0 /\ b.n > 0 /\ a.dhId = b.dhId => a.n < b.n

\* The strokes of five places on the way, the nearest to the source first.
Lined(i, s, h, r, u) ==
    /\ Earlier(i, s \cup h \cup r \cup u) /\ Earlier(s, h \cup r \cup u)
    /\ Earlier(h, r \cup u) /\ Earlier(r, u)

Strokeless(Z) == \A e \in Z : e.n = 0

LEMMA InOrderAt ==
    ASSUME NEW s
    PROVE  InOrder(s) <=> \A i, j \in DOMAIN s : /\ i < j /\ s[i].n > 0 /\ s[j].n > 0
                                                 /\ s[i].dhId = s[j].dhId
                                                 => s[i].n < s[j].n
<1>1. \A i : i \in Made(s) <=> i \in DOMAIN s /\ s[i].n > 0
  BY DEF Made
<1> QED
  BY <1>1, Zenon DEF InOrder

LEMMA InOrderConcat ==
    ASSUME NEW a \in Seq(Event), NEW b \in Seq(Event)
    PROVE  InOrder(a \o b) <=> InOrder(a) /\ InOrder(b) /\ Earlier(Elements(a), Elements(b))
<1> DEFINE c == a \o b
           P(x, y) == x.n > 0 /\ y.n > 0 /\ x.dhId = y.dhId => x.n < y.n
<1>1. Joins(c, a, b)
  BY ConcatAt
<1>2. DOMAIN a = 1 .. Len(a) /\ Len(a) \in Nat /\ DOMAIN b = 1 .. Len(b) /\ Len(b) \in Nat
  BY OfSeq
<1>3. /\ \A s : InOrder(s) <=> \A i, j \in DOMAIN s : i < j => P(s[i], s[j])
      /\ Earlier(Elements(a), Elements(b)) <=> \A i \in DOMAIN a, j \in DOMAIN b : P(a[i], b[j])
  <2>1. ASSUME NEW s PROVE InOrder(s) <=> \A i, j \in DOMAIN s : i < j => P(s[i], s[j])
    BY InOrderAt, Zenon
  <2>2. Earlier(Elements(a), Elements(b)) <=> \A x \in Elements(a), y \in Elements(b) : P(x, y)
    BY Zenon DEF Earlier
  <2>3. (\A x \in Elements(a), y \in Elements(b) : P(x, y)) <=> \A i \in DOMAIN a, j \in DOMAIN b : P(a[i], b[j])
    <3> HIDE DEF P
    <3> QED
      BY Zenon DEF Elements
  <2> QED
    BY <2>1, <2>2, <2>3, Zenon
<1> HIDE DEF P, c
<1>4. ASSUME InOrder(c) PROVE InOrder(a) /\ InOrder(b) /\ Earlier(Elements(a), Elements(b))
  <2>0. \A i, j \in DOMAIN c : i < j => P(c[i], c[j])
    BY <1>3, <1>4
  <2>1. ASSUME NEW i \in DOMAIN a, NEW j \in DOMAIN a, i < j PROVE P(a[i], a[j])
    <3>1. i \in DOMAIN c /\ j \in DOMAIN c /\ c[i] = a[i] /\ c[j] = a[j]
      BY <1>1 DEF Joins
    <3>2. P(c[i], c[j])
      BY <2>0, <2>1, <3>1, Zenon
    <3> QED
      BY <3>1, <3>2, Zenon
  <2>2. ASSUME NEW i \in DOMAIN b, NEW j \in DOMAIN b, i < j PROVE P(b[i], b[j])
    <3>1. /\ Len(a) + i \in DOMAIN c /\ Len(a) + j \in DOMAIN c
          /\ c[Len(a) + i] = b[i] /\ c[Len(a) + j] = b[j]
      BY <1>1 DEF Joins
    <3>2. Len(a) + i < Len(a) + j
      BY <1>2, <2>2
    <3>3. P(c[Len(a) + i], c[Len(a) + j])
      BY <2>0, <3>1, <3>2, Zenon
    <3> QED
      BY <3>1, <3>3, Zenon
  <2>3. ASSUME NEW i \in DOMAIN a, NEW j \in DOMAIN b PROVE P(a[i], b[j])
    <3>1. i \in DOMAIN c /\ c[i] = a[i] /\ Len(a) + j \in DOMAIN c /\ c[Len(a) + j] = b[j]
      BY <1>1 DEF Joins
    <3>2. i < Len(a) + j
      BY <1>2
    <3>3. P(c[i], c[Len(a) + j])
      BY <2>0, <3>1, <3>2, Zenon
    <3> QED
      BY <3>1, <3>3, Zenon
  <2> QED
    BY <1>3, <2>1, <2>2, <2>3, Zenon
<1>5. ASSUME InOrder(a), InOrder(b), Earlier(Elements(a), Elements(b)) PROVE InOrder(c)
  <2>1. ASSUME NEW i \in DOMAIN c, NEW j \in DOMAIN c, i < j PROVE P(c[i], c[j])
    <3>1. /\ \/ i \in DOMAIN a /\ c[i] = a[i]
             \/ \E k \in DOMAIN b : i = Len(a) + k /\ c[i] = b[k]
          /\ \/ j \in DOMAIN a /\ c[j] = a[j]
             \/ \E k \in DOMAIN b : j = Len(a) + k /\ c[j] = b[k]
      BY <1>1 DEF Joins, FromOne
    <3>2. CASE i \in DOMAIN a /\ c[i] = a[i] /\ j \in DOMAIN a /\ c[j] = a[j]
      <4>1. P(a[i], a[j])
        BY <1>3, <1>5, <2>1, <3>2, Zenon
      <4> QED
        BY <3>2, <4>1, Zenon
    <3>3. ASSUME i \in DOMAIN a, c[i] = a[i], NEW k \in DOMAIN b, c[j] = b[k] PROVE P(c[i], c[j])
      <4>1. P(a[i], b[k])
        BY <1>3, <1>5, <3>3, Zenon
      <4> QED
        BY <3>3, <4>1, Zenon
    <3>4. ASSUME NEW k \in DOMAIN b, i = Len(a) + k, c[i] = b[k], j \in DOMAIN a PROVE FALSE
      BY <1>2, <2>1, <3>4
    <3>5. ASSUME NEW k \in DOMAIN b, i = Len(a) + k, c[i] = b[k],
                 NEW l \in DOMAIN b, j = Len(a) + l, c[j] = b[l]
          PROVE  P(c[i], c[j])
      <4>1. k < l
        BY <1>2, <2>1, <3>5
      <4>2. P(b[k], b[l])
        BY <1>3, <1>5, <4>1, Zenon
      <4> QED
        BY <3>5, <4>2, Zenon
    <3> QED
      BY <3>1, <3>2, <3>3, <3>4, <3>5, Zenon
  <2> QED
    BY <1>3, <2>1, Zenon
<1> QED
  BY <1>4, <1>5 DEF c

LEMMA InOrderNone ==
    ASSUME NEW s \in Seq(Event), Strokeless(Elements(s))
    PROVE  InOrder(s)
<1>1. \A i \in DOMAIN s : s[i].n = 0
  BY Zenon DEF Strokeless, Elements
<1>2. \A i \in DOMAIN s : ~(s[i].n > 0)
  BY <1>1
<1> QED
  BY <1>2, InOrderAt, Zenon

LEMMA InOrderOne ==
    ASSUME NEW e \in Event
    PROVE  << e >> \in Seq(Event) /\ InOrder(<< e >>) /\ Elements(<< e >>) = {e}
<1>1. << e >> \in Seq(Event) /\ DOMAIN << e >> = 1 .. 1
  OBVIOUS
<1>2. \A i, j \in DOMAIN << e >> : ~(i < j)
  BY <1>1
<1>3. InOrder(<< e >>)
  BY <1>2, InOrderAt, Zenon
<1> QED
  BY <1>1, <1>3, OfOne

LEMMA InOrderAppend ==
    ASSUME NEW s \in Seq(Event), NEW e \in Event
    PROVE  InOrder(Append(s, e)) <=> InOrder(s) /\ Earlier(Elements(s), {e})
<1>1. Append(s, e) = s \o << e >> /\ << e >> \in Seq(Event)
  BY AppendIsConcat
<1>2. InOrder(s \o << e >>) <=> InOrder(s) /\ InOrder(<< e >>) /\ Earlier(Elements(s), Elements(<< e >>))
  BY <1>1, InOrderConcat
<1> QED
  BY <1>1, <1>2, InOrderOne

\* Places lose strokes, and gain events that are no strokes.
LEMMA LinedLess ==
    ASSUME NEW Z, Strokeless(Z),
           NEW i, NEW s, NEW h, NEW r, NEW u, Lined(i, s, h, r, u),
           NEW i2 \in SUBSET (i \cup Z), NEW s2 \in SUBSET (s \cup Z), NEW h2 \in SUBSET h,
           NEW r2 \in SUBSET r, NEW u2 \in SUBSET u
    PROVE  Lined(i2, s2, h2, r2, u2)
<1>0. \A e \in Z : ~(e.n > 0)
  BY DEF Strokeless
<1>1. ASSUME NEW S, NEW T, Earlier(S, T), NEW X \in SUBSET (S \cup Z), NEW Y \in SUBSET (T \cup Z)
      PROVE  Earlier(X, Y)
  BY <1>0, <1>1, Zenon DEF Earlier
<1>l. /\ Earlier(i, s \cup h \cup r \cup u) /\ Earlier(s, h \cup r \cup u)
      /\ Earlier(h, r \cup u) /\ Earlier(r, u)
  BY DEF Lined
<1>2. Earlier(i2, s2 \cup h2 \cup r2 \cup u2)
  <2>1. s2 \cup h2 \cup r2 \cup u2 \in SUBSET ((s \cup h \cup r \cup u) \cup Z)
    OBVIOUS
  <2> QED
    BY <1>l, <1>1, <2>1, Zenon
<1>3. Earlier(s2, h2 \cup r2 \cup u2)
  <2>1. h2 \cup r2 \cup u2 \in SUBSET ((h \cup r \cup u) \cup Z)
    OBVIOUS
  <2> QED
    BY <1>l, <1>1, <2>1, Zenon
<1>4. Earlier(h2, r2 \cup u2) /\ Earlier(r2, u2)
  <2>1. /\ r2 \cup u2 \in SUBSET ((r \cup u) \cup Z) /\ h2 \in SUBSET (h \cup Z)
        /\ r2 \in SUBSET (r \cup Z) /\ u2 \in SUBSET (u \cup Z)
    OBVIOUS
  <2> QED
    BY <1>l, <1>1, <2>1, Zenon
<1> QED
  BY <1>2, <1>3, <1>4, Zenon DEF Lined

LEMMA EarlierUnions ==
    ASSUME NEW S, NEW T, NEW V
    PROVE  /\ Earlier(S \cup T, V) <=> Earlier(S, V) /\ Earlier(T, V)
           /\ Earlier(V, S \cup T) <=> Earlier(V, S) /\ Earlier(V, T)
  BY Zenon DEF Earlier

LEMMA LinedPairs ==
    ASSUME NEW i, NEW s, NEW h, NEW r, NEW u
    PROVE  Lined(i, s, h, r, u) <=>
             /\ Earlier(i, s) /\ Earlier(i, h) /\ Earlier(i, r) /\ Earlier(i, u)
             /\ Earlier(s, h) /\ Earlier(s, r) /\ Earlier(s, u)
             /\ Earlier(h, r) /\ Earlier(h, u) /\ Earlier(r, u)
<1>2. Earlier(i, s \cup h \cup r \cup u) <=> Earlier(i, s) /\ Earlier(i, h) /\ Earlier(i, r) /\ Earlier(i, u)
  <2>1. Earlier(i, s \cup h) <=> Earlier(i, s) /\ Earlier(i, h)
    BY EarlierUnions
  <2>2. Earlier(i, (s \cup h) \cup r) <=> Earlier(i, s \cup h) /\ Earlier(i, r)
    BY EarlierUnions
  <2>3. Earlier(i, (s \cup h \cup r) \cup u) <=> Earlier(i, s \cup h \cup r) /\ Earlier(i, u)
    BY EarlierUnions
  <2> QED
    BY <2>1, <2>2, <2>3, Zenon
<1>3. Earlier(s, h \cup r \cup u) <=> Earlier(s, h) /\ Earlier(s, r) /\ Earlier(s, u)
  <2>1. Earlier(s, h \cup r) <=> Earlier(s, h) /\ Earlier(s, r)
    BY EarlierUnions
  <2>2. Earlier(s, (h \cup r) \cup u) <=> Earlier(s, h \cup r) /\ Earlier(s, u)
    BY EarlierUnions
  <2> QED
    BY <2>1, <2>2, Zenon
<1>4. Earlier(h, r \cup u) <=> Earlier(h, r) /\ Earlier(h, u)
  BY EarlierUnions
<1> QED
  BY <1>2, <1>3, <1>4, Zenon DEF Lined

\* The first strokes of a place move on to the next one.
LEMMA LinedMoves ==
    ASSUME NEW i, NEW s, NEW h, NEW r, NEW u, NEW x
    PROVE  /\ Lined(i, x \cup s, h, r, u) /\ Earlier(x, s) => Lined(i \cup x, s, h, r, u)
           /\ Lined(i, s, x \cup h, r, u) /\ Earlier(x, h) => Lined(i, s \cup x, h, r, u)
           /\ Lined(i, s, h, x, u) => Lined(i, s, h \cup x, {}, u)
           /\ Lined(i, s, h, {}, x \cup u) /\ Earlier(x, u) => Lined(i, s, h, x, u)
<1>1. \A S, T, V : /\ Earlier(S \cup T, V) <=> Earlier(S, V) /\ Earlier(T, V)
                   /\ Earlier(V, S \cup T) <=> Earlier(V, S) /\ Earlier(V, T)
  BY EarlierUnions
<1>2. \A S : Earlier({}, S) /\ Earlier(S, {})
  BY DEF Earlier
<1>3. Lined(i, x \cup s, h, r, u) /\ Earlier(x, s) => Lined(i \cup x, s, h, r, u)
  BY <1>1, LinedPairs, Zenon
<1>4. Lined(i, s, x \cup h, r, u) /\ Earlier(x, h) => Lined(i, s \cup x, h, r, u)
  BY <1>1, LinedPairs, Zenon
<1>5. Lined(i, s, h, x, u) => Lined(i, s, h \cup x, {}, u)
  BY <1>1, <1>2, LinedPairs, Zenon
<1>6. Lined(i, s, h, {}, x \cup u) /\ Earlier(x, u) => Lined(i, s, h, x, u)
  BY <1>1, <1>2, LinedPairs, Zenon
<1> QED
  BY <1>3, <1>4, <1>5, <1>6

\* The events that replay what is recorded of a device.
Played(d) == [i \in DOMAIN keyDownState[d] |-> Simulated(d, keyDownState[d][i], "down")]

LEMMA WayTypes ==
    ASSUME TypeOK
    PROVE  /\ Session \in Seq(Event) /\ Handed \in Seq(Event)
           /\ collector.read \in Seq(Event) /\ injectQueue \in Seq(Event)
           /\ callbackQueue \in Seq(Event) /\ \A d \in DhIds : kernel[d] \in Seq(Event)
           /\ toSource \in Seq(SessionMessages) /\ eventQueue \in Seq(Seq(Event))
<1>1. toSource \in Seq(SessionMessages) /\ eventQueue \in Seq(Seq(Event))
  BY DEF TypeOK, SessionMessages
<1>2. Session \in Seq(Event) /\ Handed \in Seq(Event)
  BY <1>1, EventsTypes, FlattenTypes DEF Session, Handed
<1> QED
  BY <1>1, <1>2 DEF TypeOK

LEMMA PlayedTypes ==
    ASSUME TypeOK, NEW d \in DhIds
    PROVE  /\ Played(d) \in Seq(Event) /\ Len(Played(d)) = Len(keyDownState[d])
           /\ DOMAIN Played(d) = DOMAIN keyDownState[d]
           /\ \A i \in DOMAIN keyDownState[d] :
                 Played(d)[i] = Simulated(d, keyDownState[d][i], "down")
           /\ Strokeless(Elements(Played(d)))
<1>1. keyDownState[d] \in Seq(Keys)
  BY DEF TypeOK
<1>2. DOMAIN keyDownState[d] = 1 .. Len(keyDownState[d]) /\ Len(keyDownState[d]) \in Nat
  BY <1>1, LenProperties
<1>3. \A i \in 1 .. Len(keyDownState[d]) : Simulated(d, keyDownState[d][i], "down") \in Event
  BY <1>1, ElementOfSeq, SimulatedTypes
<1>4. Played(d) = [i \in 1 .. Len(keyDownState[d]) |-> Simulated(d, keyDownState[d][i], "down")]
  BY <1>2 DEF Played
<1>5. Played(d) \in Seq(Event)
  BY <1>2, <1>3, <1>4, IsASeq
<1>6. Len(Played(d)) = Len(keyDownState[d])
  BY <1>2, <1>4, <1>5, LenProperties
<1>7. Strokeless(Elements(Played(d)))
  <2>1. \A i \in DOMAIN Played(d) : Played(d)[i] = Simulated(d, keyDownState[d][i], "down")
    BY <1>2, <1>4
  <2>2. \A k : Simulated(d, k, "down").n = 0
    BY DEF Simulated
  <2>3. \A i \in DOMAIN Played(d) : Played(d)[i].n = 0
    BY <2>1, <2>2, Zenon
  <2> QED
    BY <2>3, Zenon DEF Strokeless, Elements
<1> QED
  BY <1>2, <1>4, <1>5, <1>6, <1>7

LEMMA ReplayEvents ==
    ASSUME TypeOK, NEW d \in DhIds
    PROVE  Events(Replay(d)) = Played(d)
<1>1. Replay(d) \in Seq(SessionMessages) /\ Len(Replay(d)) = Len(keyDownState[d])
  BY ReplayTypes
<1>2. Played(d) \in Seq(Event) /\ Len(Played(d)) = Len(keyDownState[d])
  BY PlayedTypes
<1>3. DOMAIN Replay(d) = 1 .. Len(Replay(d)) /\ DOMAIN keyDownState[d] = 1 .. Len(Replay(d))
  BY <1>1, LenProperties, ReplayTypes
<1>4. ASSUME NEW i \in 1 .. Len(Replay(d)) PROVE Replay(d)[i].events = << Played(d)[i] >>
  <2>1. i \in DOMAIN keyDownState[d]
    BY <1>3
  <2>2. Replay(d)[i] = Message("KEY_STATE", << Simulated(d, keyDownState[d][i], "down") >>)
    BY <2>1 DEF Replay
  <2>3. Played(d)[i] = Simulated(d, keyDownState[d][i], "down")
    BY <2>1 DEF Played
  <2> QED
    BY <2>2, <2>3 DEF Message
<1> QED
  BY <1>1, <1>2, <1>4, EventsOfSingles

(***************************************************************************)
(* What the actions do to the way.                                         *)
(***************************************************************************)
LEMMA StartsAt ==
    ASSUME TypeOK, StartRecordDhIds
    PROVE  \E d \in DhIds :
             /\ Head(toSink) = [cmd |-> "START_DHID", dhId |-> d]
             /\ handler = None /\ handler' = d /\ toSink # << >> /\ toSink' = Tail(toSink)
             /\ toSource' = toSource \o Replay(d) /\ Session' = Session \o Played(d)
             /\ keyDownState' = [keyDownState EXCEPT ![d] = << >>] /\ switchOn'
<1>1. toSink \in Seq(SessionRequests) /\ toSink # << >> /\ Head(toSink).cmd = "START_DHID"
  BY DEF StartRecordDhIds, NextRequest, SessionRequests, TypeOK
<1>2. Head(toSink) \in SessionRequests
  BY <1>1, HeadTailProperties
<1>3. PICK d \in DhIds : Head(toSink) = [cmd |-> "START_DHID", dhId |-> d]
  BY <1>1, <1>2 DEF SessionRequests
<1>4. /\ handler' = d /\ toSource' = toSource \o Replay(d) /\ toSink' = Tail(toSink)
      /\ keyDownState' = [keyDownState EXCEPT ![d] = << >>] /\ switchOn' /\ handler = None
  <2>1. Head(toSink).dhId = d
    BY <1>3
  <2> QED
    BY <2>1 DEF StartRecordDhIds
<1>5. Session' = Session \o Played(d)
  <2>1. Replay(d) \in Seq(SessionMessages) /\ toSource \in Seq(SessionMessages)
    BY ReplayTypes, WayTypes
  <2>2. Events(toSource \o Replay(d)) = Events(toSource) \o Events(Replay(d))
    BY <2>1, EventsConcat
  <2> QED
    BY <1>4, <2>2, ReplayEvents DEF Session
<1> QED
  BY <1>1, <1>3, <1>4, <1>5

LEMMA RecordsOne ==
    ASSUME KeyAssumption, TypeOK, RecordEvent
    PROVE  \E e \in Event, t \in Seq(Event), x \in Seq(Event) :
             /\ collector.read # << >> /\ collector.read = << e >> \o t /\ e = Head(collector.read)
             /\ t = Tail(collector.read) /\ collector' = [collector EXCEPT !.read = t]
             /\ keyDownState' = [keyDownState EXCEPT ![e.dhId] = Recorded(@, e)]
             /\ Session' = Session \o x
             /\ \/ x = << >>
                \/ e.dhId \in Mice /\ x = << Simulated(e.dhId, BTN_MOUSE, "up") >>
             /\ x = << >> => toSource' = toSource
<1>1. /\ collector.read \in Seq(Event) /\ collector.read # << >>
      /\ toSource \in Seq(SessionMessages)
  BY WayTypes DEF RecordEvent
<1>2. PICK e \in Event, t \in Seq(Event) :
         /\ collector.read = << e >> \o t /\ e = Head(collector.read) /\ t = Tail(collector.read)
  BY <1>1, HeadJoins
<1>3. e.dhId \in DhIds
  BY DEF Event
<1> DEFINE m == Message("BODY_DATA", << Simulated(e.dhId, BTN_MOUSE, "up") >>)
<1>4. m \in SessionMessages /\ m.events = << Simulated(e.dhId, BTN_MOUSE, "up") >>
      /\ << Simulated(e.dhId, BTN_MOUSE, "up") >> \in Seq(Event)
  <2>1. Simulated(e.dhId, BTN_MOUSE, "up") \in Event /\ m \in SessionMessages
    BY <1>3, SimulatedTypes DEF KeyAssumption
  <2> QED
    BY <2>1 DEF Message
<1>5. /\ keyDownState' = [keyDownState EXCEPT ![e.dhId] = Recorded(@, e)]
      /\ collector' = [collector EXCEPT !.read = t]
      /\ toSource' = IF MouseUpSimulated(e) THEN Append(toSource, m) ELSE toSource
  BY <1>2 DEF RecordEvent
<1> HIDE DEF m
<1>6. CASE MouseUpSimulated(e)
  <2>1. Session' = Session \o m.events
    BY <1>1, <1>4, <1>5, <1>6, EventsAppend DEF Session
  <2>2. e.dhId \in Mice
    BY <1>6 DEF MouseUpSimulated
  <2>3. PICK x : x = m.events
    OBVIOUS
  <2>4. /\ x \in Seq(Event) /\ x = << Simulated(e.dhId, BTN_MOUSE, "up") >>
        /\ Session' = Session \o x
    BY <1>4, <2>1, <2>3
  <2>5. x # << >>
    BY <2>4
  <2> QED
    BY <1>1, <1>2, <1>5, <2>2, <2>4, <2>5
<1>7. CASE ~MouseUpSimulated(e)
  <2>1. toSource' = toSource
    BY <1>5, <1>7
  <2>2. Session \in Seq(Event) /\ << >> \in Seq(Event)
    BY WayTypes, OfNothing
  <2>3. PICK x : x = << >>
    OBVIOUS
  <2>4. x \in Seq(Event) /\ x = << >> /\ Session' = Session \o x
    BY <2>1, <2>2, <2>3, OfNothing DEF Session
  <2>5. collector.read # << >> /\ e \in Event /\ t \in Seq(Event)
    BY <1>1, <1>2
  <2> QED
    BY <1>2, <1>5, <2>1, <2>4, <2>5, Zenon
<1> QED
  BY <1>6, <1>7

LEMMA PostsRead ==
    ASSUME TypeOK, CheckShared, collector.dhId \in sharedDHIds
    PROVE  collector' = Idle /\ Handed' = Handed \o collector.read
<1>1. eventQueue' = Append(eventQueue, collector.read) /\ collector' = Idle
  BY DEF CheckShared
<1>2. FlattenSeq(Append(eventQueue, collector.read)) = FlattenSeq(eventQueue) \o collector.read
  BY WayTypes, FlattenAppend
<1> QED
  BY <1>1, <1>2 DEF Handed

LEMMA SendsBatch ==
    ASSUME TypeOK, SendEvents
    PROVE  \E b \in Seq(Event) :
             /\ Handed = b \o Handed' /\ Handed' \in Seq(Event)
             /\ IF switchOn THEN /\ toSource' = Append(toSource, Message("BODY_DATA", b))
                                 /\ Session' = Session \o b
                ELSE toSource' = toSource /\ Session' = Session
<1>1. eventQueue \in Seq(Seq(Event)) /\ eventQueue # << >> /\ toSource \in Seq(SessionMessages)
  BY WayTypes DEF SendEvents
<1>2. PICK b : b = Head(eventQueue)
  OBVIOUS
<1>3. b \in Seq(Event) /\ Tail(eventQueue) \in Seq(Seq(Event))
  BY <1>1, <1>2, HeadTailProperties
<1>4. /\ eventQueue' = Tail(eventQueue)
      /\ toSource' = IF switchOn THEN Append(toSource, Message("BODY_DATA", b)) ELSE toSource
  BY <1>2 DEF SendEvents
<1>5. Handed = b \o Handed' /\ Handed' \in Seq(Event)
  <2>1. FlattenSeq(eventQueue) = b \o FlattenSeq(Tail(eventQueue))
    BY <1>1, <1>2, FlattenHead
  <2>2. FlattenSeq(Tail(eventQueue)) \in Seq(Event)
    BY <1>3, FlattenTypes
  <2> QED
    BY <1>4, <2>1, <2>2 DEF Handed
<1>6. Message("BODY_DATA", b) \in SessionMessages /\ Message("BODY_DATA", b).events = b
  BY <1>3 DEF Message, SessionMessages
<1>7. Events(Append(toSource, Message("BODY_DATA", b))) = Events(toSource) \o b
  BY <1>1, <1>6, EventsAppend
<1> QED
  BY <1>3, <1>4, <1>5, <1>7 DEF Session

LEMMA ReceivesBatch ==
    ASSUME TypeOK, ReceiveFromSink
    PROVE  \E m \in SessionMessages, b \in Seq(Event) :
             /\ toSource # << >> /\ m = Head(toSource) /\ m \in Elements(toSource) /\ b = m.events
             /\ toSource' = Tail(toSource)
             /\ Session = b \o Session' /\ Session' \in Seq(Event)
             /\ IF m.cmd = "KEY_STATE" THEN callbackQueue' = callbackQueue \o b /\ injectQueue' = injectQueue
                ELSE injectQueue' = injectQueue \o b /\ callbackQueue' = callbackQueue
<1>1. toSource # << >> /\ toSource \in Seq(SessionMessages) /\ toSource' = Tail(toSource)
  BY WayTypes DEF ReceiveFromSink
<1>2. PICK m : m = Head(toSource)
  OBVIOUS
<1>3. /\ m \in SessionMessages /\ m.events \in Seq(Event) /\ Tail(toSource) \in Seq(SessionMessages)
      /\ Events(toSource) = m.events \o Events(Tail(toSource)) /\ m \in Elements(toSource)
  BY <1>1, <1>2, EventsHead, OfTail
<1>4. Session = m.events \o Session' /\ Session' \in Seq(Event)
  BY <1>1, <1>3, EventsTypes DEF Session
<1>5. IF m.cmd = "KEY_STATE" THEN callbackQueue' = callbackQueue \o m.events /\ injectQueue' = injectQueue
      ELSE injectQueue' = injectQueue \o m.events /\ callbackQueue' = callbackQueue
  BY <1>2 DEF ReceiveFromSink
<1> QED
  BY <1>1, <1>2, <1>3, <1>4, <1>5

Way == Lined(Elements(injectQueue), Elements(Session), Elements(Handed), Elements(collector.read), Unread)
PlacesInOrder == /\ InOrder(injectQueue) /\ InOrder(Session) /\ InOrder(Handed)
              /\ InOrder(collector.read) /\ \A d \in DhIds : InOrder(kernel[d])
OnTheWay == Elements(injectQueue) \cup Elements(Session) \cup Elements(Handed)
              \cup Elements(collector.read) \cup Unread

\* Every place holds its strokes in order, those of a place are earlier than those of a
\* place farther from the source, and none is later than the last stroke.
StrokeInv == PlacesInOrder /\ Way /\ \A e \in OnTheWay : e.n <= strokes

LEMMA StrokeInvInit == KeyAssumption /\ Init => StrokeInv
<1> SUFFICES ASSUME KeyAssumption, Init PROVE StrokeInv
  OBVIOUS
<1>1. /\ \A d \in DhIds : kernel[d] = << >>
      /\ collector.read = << >> /\ toSource = << >> /\ eventQueue = << >> /\ injectQueue = << >>
  BY DEF Init, Idle
<1>2. Session = << >> /\ Handed = << >>
  <2>1. << >> \in Seq(SessionMessages) /\ << >> \in Seq(Seq(Event))
    BY OfNothing
  <2> QED
    BY <1>1, <2>1, EventsTypes, FlattenTypes DEF Session, Handed
<1>3. Elements(<< >>) = {} /\ << >> \in Seq(Event)
  BY OfNothing
<1>4. InOrder(<< >>)
  BY <1>3, InOrderNone DEF Strokeless
<1>5. Unread = {}
  BY <1>1, <1>3 DEF Unread
<1> QED
  BY <1>1, <1>2, <1>3, <1>4, <1>5 DEF StrokeInv, PlacesInOrder, Way, Lined, Earlier, OnTheWay

LEMMA StrokeInvFrame ==
    ASSUME StrokeInv, UNCHANGED << injectQueue, toSource, eventQueue, kernel, collector, strokes >>
    PROVE  StrokeInv'
<1>1. UNCHANGED << Session, Handed, Unread >>
  BY DEF Session, Handed, Unread
<1> QED
  BY <1>1 DEF StrokeInv, PlacesInOrder, Way, OnTheWay

LEMMA StrokeInvStroke ==
    ASSUME TypeOK, KeyPlaces, StrokeInv, NEW d \in DhIds, NEW k \in Keys,
           NEW v \in {"down", "up", "repeat"}, Stroke(d, k, v)
    PROVE  StrokeInv'
<1> DEFINE e == [dhId |-> d, code |-> k, value |-> v, n |-> strokes + 1]
<1>t. strokes \in Nat /\ kernel \in [DhIds -> Seq(Event)] /\ kernel[d] \in Seq(Event)
  BY DEF TypeOK
<1>1. e \in Event /\ e.dhId = d /\ e.n = strokes + 1
  BY <1>t DEF Event
<1>2. /\ kernel' = [kernel EXCEPT ![d] = Append(@, e)] /\ strokes' = strokes + 1
      /\ UNCHANGED << collector, injectQueue, toSource, eventQueue >>
  BY DEF Stroke, sinkVars, sourceVars
<1> HIDE DEF e
<1>3. Elements(Append(kernel[d], e)) = Elements(kernel[d]) \cup {e}
  BY <1>t, <1>1, Appended
<1>4. UNCHANGED << Session, Handed >>
  BY <1>2 DEF Session, Handed
<1>5. Unread' = Unread \cup {e}
  BY <1>t, <1>2, <1>3 DEF Unread
<1>6. \A x \in OnTheWay : x.n <= strokes /\ x.n \in Nat
  <2>1. \A x \in OnTheWay : x \in Event
    <3>1. /\ Elements(injectQueue) \subseteq Event /\ Elements(Session) \subseteq Event
          /\ Elements(Handed) \subseteq Event /\ Elements(collector.read) \subseteq Event
      BY WayTypes, OfSeq
    <3>2. Unread \subseteq Event
      BY WayTypes, OfSeq DEF Unread
    <3> QED
      BY <3>1, <3>2 DEF OnTheWay
  <2> QED
    BY <2>1 DEF StrokeInv, Event
<1>7. \A x \in OnTheWay : x.n < e.n
  BY <1>t, <1>1, <1>6
<1>8. InOrder(kernel'[d])
  <2>1. Earlier(Elements(kernel[d]), {e})
    BY <1>7 DEF Earlier, OnTheWay, Unread
  <2> QED
    BY <1>t, <1>1, <1>2, <2>1, InOrderAppend DEF StrokeInv, PlacesInOrder
<1>9. PlacesInOrder'
  <2>1. \A c \in DhIds : InOrder(kernel'[c])
    BY <1>t, <1>2, <1>8 DEF StrokeInv, PlacesInOrder
  <2> QED
    BY <1>2, <1>4, <2>1 DEF StrokeInv, PlacesInOrder
<1>10. Way'
  <2>1. ASSUME NEW S \in SUBSET OnTheWay PROVE Earlier(S, {e})
    BY <1>7 DEF Earlier
  <2>2. /\ Earlier(Elements(injectQueue), {e}) /\ Earlier(Elements(Session), {e})
        /\ Earlier(Elements(Handed), {e}) /\ Earlier(Elements(collector.read), {e})
    BY <2>1 DEF OnTheWay
  <2>3. \A S, T, V : Earlier(V, S \cup T) <=> Earlier(V, S) /\ Earlier(V, T)
    BY EarlierUnions
  <2>4. Lined(Elements(injectQueue), Elements(Session), Elements(Handed), Elements(collector.read), Unread \cup {e})
    BY <2>2, <2>3, LinedPairs, Zenon DEF StrokeInv, Way
  <2> QED
    BY <1>2, <1>4, <1>5, <2>4 DEF Way
<1>11. \A x \in OnTheWay' : x.n <= strokes'
  <2>1. OnTheWay' = OnTheWay \cup {e}
    BY <1>2, <1>4, <1>5 DEF OnTheWay
  <2> QED
    BY <1>t, <1>1, <1>2, <1>6, <2>1
<1> QED
  BY <1>9, <1>10, <1>11 DEF StrokeInv

LEMMA StrokeInvRead ==
    ASSUME TypeOK, KeyPlaces, StrokeInv, NEW d \in DhIds, ReadEvents(d)
    PROVE  StrokeInv'
<1>t. kernel \in [DhIds -> Seq(Event)]
  BY DEF TypeOK
<1>1. /\ kernel' = [kernel EXCEPT ![d] = << >>] /\ collector.read = << >> /\ collector'.read = kernel[d]
      /\ UNCHANGED << strokes, injectQueue, toSource, eventQueue >>
  BY DEF ReadEvents, sourceVars, Idle
<1>2. UNCHANGED << Session, Handed >>
  BY <1>1 DEF Session, Handed
<1>3. Elements(<< >>) = {} /\ InOrder(<< >>)
  BY OfNothing, InOrderNone DEF Strokeless
<1>4. Unread = Elements(kernel[d]) \cup Unread'
  BY <1>t, <1>1, <1>3 DEF Unread
<1>5. Earlier(Elements(kernel[d]), Unread')
  <2>1. \A x \in Unread' : x.dhId # d
    BY <1>t, <1>1, <1>3 DEF Unread, KeyPlaces
  <2> QED
    BY <2>1 DEF Earlier, KeyPlaces
<1>6. PlacesInOrder'
  <2>1. \A c \in DhIds : InOrder(kernel'[c])
    BY <1>t, <1>1, <1>3 DEF StrokeInv, PlacesInOrder
  <2> QED
    BY <1>1, <1>2, <2>1 DEF StrokeInv, PlacesInOrder
<1>7. Way'
  <2>1. Lined(Elements(injectQueue), Elements(Session), Elements(Handed), {}, Elements(kernel[d]) \cup Unread')
    BY <1>1, <1>3, <1>4 DEF StrokeInv, Way
  <2>2. Lined(Elements(injectQueue), Elements(Session), Elements(Handed), Elements(kernel[d]), Unread')
    BY <1>5, <2>1, LinedMoves
  <2> QED
    BY <1>1, <1>2, <2>2 DEF Way
<1>8. \A x \in OnTheWay' : x.n <= strokes'
  <2>1. OnTheWay' \subseteq OnTheWay
    BY <1>1, <1>2, <1>4 DEF OnTheWay
  <2> QED
    BY <1>1, <2>1 DEF StrokeInv
<1> QED
  BY <1>6, <1>7, <1>8 DEF StrokeInv

LEMMA StrokeInvCheck ==
    ASSUME TypeOK, StrokeInv, CheckShared
    PROVE  StrokeInv'
<1>1. UNCHANGED << kernel, injectQueue, toSource, strokes >>
  BY DEF CheckShared, userVars, sourceVars
<1>2. UNCHANGED << Session, Unread >>
  BY <1>1 DEF Session, Unread
<1>3. CASE collector.dhId \in sharedDHIds
  <2>1. collector'.read = << >> /\ Handed' = Handed \o collector.read
    BY <1>3, PostsRead DEF Idle
  <2>2. Elements(<< >>) = {} /\ InOrder(<< >>)
    BY OfNothing, InOrderNone DEF Strokeless
  <2>3. Elements(Handed') = Elements(Handed) \cup Elements(collector.read)
    BY <2>1, WayTypes, Concatenated
  <2>4. InOrder(Handed')
    <3>1. Earlier(Elements(Handed), Elements(collector.read))
      BY EarlierUnions DEF StrokeInv, Way, Lined
    <3> QED
      BY <2>1, <3>1, WayTypes, InOrderConcat DEF StrokeInv, PlacesInOrder
  <2>5. Way'
    <3>1. Lined(Elements(injectQueue), Elements(Session), Elements(Handed) \cup Elements(collector.read), {}, Unread)
      BY LinedMoves DEF StrokeInv, Way
    <3> QED
      BY <1>1, <1>2, <2>1, <2>2, <2>3, <3>1 DEF Way
  <2>6. OnTheWay' \subseteq OnTheWay
    BY <1>1, <1>2, <2>1, <2>2, <2>3 DEF OnTheWay
  <2> QED
    BY <1>1, <1>2, <2>1, <2>2, <2>4, <2>5, <2>6 DEF StrokeInv, PlacesInOrder
<1>4. CASE collector.dhId \notin sharedDHIds
  <2>1. collector'.read = collector.read /\ eventQueue' = eventQueue
    BY <1>4 DEF CheckShared, TypeOK
  <2>2. Handed' = Handed
    BY <2>1 DEF Handed
  <2> QED
    BY <1>1, <1>2, <2>1, <2>2 DEF StrokeInv, PlacesInOrder, Way, OnTheWay
<1> QED
  BY <1>3, <1>4

LEMMA StrokeInvRecord ==
    ASSUME KeyAssumption, TypeOK, StrokeInv, RecordEvent
    PROVE  StrokeInv'
<1>1. UNCHANGED << kernel, injectQueue, eventQueue, strokes >>
  BY DEF RecordEvent, userVars, sourceVars
<1>2. UNCHANGED << Handed, Unread >>
  BY <1>1 DEF Handed, Unread
<1>3. PICK e \in Event, t \in Seq(Event), x \in Seq(Event) :
         /\ collector.read = << e >> \o t /\ collector' = [collector EXCEPT !.read = t]
         /\ Session' = Session \o x
         /\ x = << >> \/ x = << Simulated(e.dhId, BTN_MOUSE, "up") >>
  BY RecordsOne
<1>4. collector'.read = t
  BY <1>3 DEF TypeOK
<1>5. Strokeless(Elements(x))
  <2>1. Simulated(e.dhId, BTN_MOUSE, "up").n = 0
    BY DEF Simulated
  <2> QED
    BY <1>3, <2>1, OfNothing, OfOne DEF Strokeless
<1>6. Elements(Session') = Elements(Session) \cup Elements(x)
  BY <1>3, WayTypes, Concatenated
<1>7. << e >> \in Seq(Event)
  BY InOrderOne
<1>8. InOrder(t) /\ Elements(t) \subseteq Elements(collector.read)
  <2>1. InOrder(<< e >> \o t) => InOrder(t)
    BY <1>7, InOrderConcat
  <2>2. Elements(<< e >> \o t) = Elements(<< e >>) \cup Elements(t)
    <3>1. PICK s \in Seq(Event) : s = << e >>
      BY <1>7
    <3>2. Elements(s \o t) = Elements(s) \cup Elements(t)
      BY Concatenated
    <3> QED
      BY <3>1, <3>2
  <2> QED
    BY <1>3, <2>1, <2>2 DEF StrokeInv, PlacesInOrder
<1>9. InOrder(Session')
  <2>1. InOrder(x) /\ Earlier(Elements(Session), Elements(x))
    BY <1>5, InOrderNone DEF Strokeless, Earlier
  <2> QED
    BY <1>3, <2>1, WayTypes, InOrderConcat DEF StrokeInv, PlacesInOrder
<1>10. Way'
  <2>1. /\ Elements(injectQueue) \in SUBSET (Elements(injectQueue) \cup Elements(x))
        /\ Elements(Session') \in SUBSET (Elements(Session) \cup Elements(x))
        /\ Elements(Handed) \in SUBSET Elements(Handed)
        /\ Elements(t) \in SUBSET Elements(collector.read) /\ Unread \in SUBSET Unread
    BY <1>6, <1>8
  <2>2. Lined(Elements(injectQueue), Elements(Session'), Elements(Handed), Elements(t), Unread)
    BY <1>5, <2>1, LinedLess DEF StrokeInv, Way
  <2> QED
    BY <1>1, <1>2, <1>4, <2>2 DEF Way
<1>11. \A y \in OnTheWay' : y.n <= strokes'
  <2>1. OnTheWay' \subseteq OnTheWay \cup Elements(x)
    BY <1>1, <1>2, <1>4, <1>6, <1>8 DEF OnTheWay
  <2>2. strokes \in Nat
    BY DEF TypeOK
  <2>3. \A y \in Elements(x) : y.n <= strokes
    BY <1>5, <2>2 DEF Strokeless
  <2> QED
    BY <1>1, <2>1, <2>3 DEF StrokeInv
<1> QED
  BY <1>1, <1>2, <1>4, <1>8, <1>9, <1>10, <1>11 DEF StrokeInv, PlacesInOrder

LEMMA StrokeInvReplay ==
    ASSUME TypeOK, StrokeInv, StartRecordDhIds
    PROVE  StrokeInv'
<1>1. UNCHANGED << kernel, injectQueue, eventQueue, collector, strokes >>
  BY DEF StartRecordDhIds, userVars, sourceVars
<1>2. UNCHANGED << Handed, Unread >>
  BY <1>1 DEF Handed, Unread
<1>3. PICK d \in DhIds : Session' = Session \o Played(d)
  BY StartsAt
<1>4. PICK x : x = Played(d)
  OBVIOUS
<1>5. x \in Seq(Event) /\ Strokeless(Elements(x))
  BY <1>4, PlayedTypes
<1>6. Elements(Session') = Elements(Session) \cup Elements(x)
  BY <1>3, <1>4, <1>5, WayTypes, Concatenated
<1>7. InOrder(Session')
  <2>1. InOrder(x) /\ Earlier(Elements(Session), Elements(x))
    BY <1>5, InOrderNone DEF Strokeless, Earlier
  <2> QED
    BY <1>3, <1>4, <1>5, <2>1, WayTypes, InOrderConcat DEF StrokeInv, PlacesInOrder
<1>8. Way'
  <2>1. /\ Elements(injectQueue) \in SUBSET (Elements(injectQueue) \cup Elements(x))
        /\ Elements(Session') \in SUBSET (Elements(Session) \cup Elements(x))
        /\ Elements(Handed) \in SUBSET Elements(Handed)
        /\ Elements(collector.read) \in SUBSET Elements(collector.read) /\ Unread \in SUBSET Unread
    BY <1>6
  <2>2. Lined(Elements(injectQueue), Elements(Session'), Elements(Handed), Elements(collector.read), Unread)
    BY <1>5, <2>1, LinedLess DEF StrokeInv, Way
  <2> QED
    BY <1>1, <1>2, <2>2 DEF Way
<1>9. \A y \in OnTheWay' : y.n <= strokes'
  <2>1. OnTheWay' \subseteq OnTheWay \cup Elements(x)
    BY <1>1, <1>2, <1>6 DEF OnTheWay
  <2>2. strokes \in Nat
    BY DEF TypeOK
  <2>3. \A y \in Elements(x) : y.n <= strokes
    BY <1>5, <2>2 DEF Strokeless
  <2> QED
    BY <1>1, <2>1, <2>3 DEF StrokeInv
<1> QED
  BY <1>1, <1>2, <1>7, <1>8, <1>9 DEF StrokeInv, PlacesInOrder

LEMMA StrokeInvSend ==
    ASSUME TypeOK, StrokeInv, SendEvents
    PROVE  StrokeInv'
<1>1. UNCHANGED << kernel, injectQueue, collector, strokes >>
  BY DEF SendEvents, userVars, sourceVars
<1>2. Unread' = Unread
  BY <1>1 DEF Unread
<1>3. PICK b \in Seq(Event) :
         /\ Handed = b \o Handed' /\ Handed' \in Seq(Event)
         /\ Session' = Session \o b \/ Session' = Session
  BY SendsBatch
<1>4. PICK h : h = Handed'
  OBVIOUS
<1>5. h \in Seq(Event) /\ Handed = b \o h
  BY <1>3, <1>4
<1>6. /\ InOrder(h) /\ InOrder(b) /\ Earlier(Elements(b), Elements(h))
      /\ Elements(Handed) = Elements(b) \cup Elements(h)
  <2>1. InOrder(b \o h)
    BY <1>5 DEF StrokeInv, PlacesInOrder
  <2> QED
    BY <1>5, <2>1, InOrderConcat, Concatenated
<1>7. Lined(Elements(injectQueue), Elements(Session), Elements(b) \cup Elements(h), Elements(collector.read), Unread)
  BY <1>6 DEF StrokeInv, Way
<1>8. Lined(Elements(injectQueue), Elements(Session) \cup Elements(b), Elements(h), Elements(collector.read), Unread)
  BY <1>6, <1>7, LinedMoves
<1>9. InOrder(Session')
  <2>1. Earlier(Elements(Session), Elements(b))
    BY <1>7, EarlierUnions DEF Lined
  <2>2. InOrder(Session \o b)
    BY <1>6, <2>1, WayTypes, InOrderConcat DEF StrokeInv, PlacesInOrder
  <2> QED
    BY <1>3, <2>2 DEF StrokeInv, PlacesInOrder
<1>10. Elements(Session') \subseteq Elements(Session) \cup Elements(b)
  BY <1>3, WayTypes, Concatenated
<1>11. Lined(Elements(injectQueue), Elements(Session'), Elements(h), Elements(collector.read), Unread)
  <2>1. /\ Elements(injectQueue) \in SUBSET (Elements(injectQueue) \cup {})
        /\ Elements(Session') \in SUBSET ((Elements(Session) \cup Elements(b)) \cup {})
        /\ Elements(h) \in SUBSET Elements(h) /\ Strokeless({})
        /\ Elements(collector.read) \in SUBSET Elements(collector.read) /\ Unread \in SUBSET Unread
    BY <1>10 DEF Strokeless
  <2> QED
    BY <1>8, <2>1, LinedLess, SMT
<1>12. OnTheWay' \subseteq OnTheWay
  BY <1>1, <1>2, <1>4, <1>6, <1>10 DEF OnTheWay
<1> QED
  BY <1>1, <1>2, <1>4, <1>6, <1>9, <1>11, <1>12 DEF StrokeInv, PlacesInOrder, Way

LEMMA StrokeInvReceive ==
    ASSUME TypeOK, KeyPlaces, StrokeInv, ReceiveFromSink
    PROVE  StrokeInv'
<1>1. UNCHANGED << kernel, eventQueue, collector, strokes >>
  BY DEF ReceiveFromSink, userVars, sinkVars
<1>2. UNCHANGED << Handed, Unread >>
  BY <1>1 DEF Handed, Unread
<1>3. PICK b \in Seq(Event) :
         /\ Session = b \o Session' /\ Session' \in Seq(Event)
         /\ injectQueue' = injectQueue \/ injectQueue' = injectQueue \o b
  BY ReceivesBatch
<1>4. PICK s : s = Session'
  OBVIOUS
<1>5. s \in Seq(Event) /\ Session = b \o s
  BY <1>3, <1>4
<1>6. /\ InOrder(s) /\ InOrder(b) /\ Earlier(Elements(b), Elements(s))
      /\ Elements(Session) = Elements(b) \cup Elements(s)
  <2>1. InOrder(b \o s)
    BY <1>5 DEF StrokeInv, PlacesInOrder
  <2> QED
    BY <1>5, <2>1, InOrderConcat, Concatenated
<1>7. Lined(Elements(injectQueue), Elements(b) \cup Elements(s), Elements(Handed), Elements(collector.read), Unread)
  BY <1>6 DEF StrokeInv, Way
<1>8. Lined(Elements(injectQueue) \cup Elements(b), Elements(s), Elements(Handed), Elements(collector.read), Unread)
  BY <1>6, <1>7, LinedMoves
<1>9. InOrder(injectQueue')
  <2>1. Earlier(Elements(injectQueue), Elements(b))
    BY <1>7, EarlierUnions DEF Lined
  <2>2. InOrder(injectQueue \o b)
    BY <1>6, <2>1, WayTypes, InOrderConcat DEF StrokeInv, PlacesInOrder
  <2> QED
    BY <1>3, <2>2 DEF StrokeInv, PlacesInOrder
<1>10. Elements(injectQueue') \subseteq Elements(injectQueue) \cup Elements(b)
  BY <1>3, WayTypes, Concatenated
<1>11. Lined(Elements(injectQueue'), Elements(s), Elements(Handed), Elements(collector.read), Unread)
  <2>1. /\ Elements(injectQueue') \in SUBSET ((Elements(injectQueue) \cup Elements(b)) \cup {})
        /\ Elements(s) \in SUBSET (Elements(s) \cup {})
        /\ Elements(Handed) \in SUBSET Elements(Handed) /\ Strokeless({})
        /\ Elements(collector.read) \in SUBSET Elements(collector.read) /\ Unread \in SUBSET Unread
    BY <1>10 DEF Strokeless
  <2> QED
    BY <1>8, <2>1, LinedLess, SMT
<1>12. OnTheWay' \subseteq OnTheWay
  BY <1>1, <1>2, <1>4, <1>6, <1>10 DEF OnTheWay
<1> QED
  BY <1>1, <1>2, <1>4, <1>6, <1>9, <1>11, <1>12 DEF StrokeInv, PlacesInOrder, Way

LEMMA StrokeInvCallback ==
    ASSUME TypeOK, KeyPlaces, StrokeInv, RunKeyStateCallback
    PROVE  StrokeInv'
<1>1. UNCHANGED << kernel, toSource, eventQueue, collector, strokes >>
  BY DEF RunKeyStateCallback, userVars, sinkVars
<1>2. UNCHANGED << Session, Handed, Unread >>
  BY <1>1 DEF Session, Handed, Unread
<1>3. PICK e : e = Head(callbackQueue)
  OBVIOUS
<1>4. e \in Event /\ e \in Elements(callbackQueue) /\ injectQueue' = Append(injectQueue, e)
  BY <1>3, WayTypes, OfTail DEF RunKeyStateCallback
<1>5. Strokeless({e})
  BY <1>4 DEF Strokeless, KeyPlaces, NoStroke
<1>6. Elements(injectQueue') = Elements(injectQueue) \cup {e}
  BY <1>4, WayTypes, Appended
<1>7. InOrder(injectQueue')
  <2>1. Earlier(Elements(injectQueue), {e})
    BY <1>5 DEF Strokeless, Earlier
  <2> QED
    BY <1>4, <2>1, WayTypes, InOrderAppend DEF StrokeInv, PlacesInOrder
<1>8. Lined(Elements(injectQueue'), Elements(Session), Elements(Handed), Elements(collector.read), Unread)
  <2>1. /\ Elements(injectQueue') \in SUBSET (Elements(injectQueue) \cup {e})
        /\ Elements(Session) \in SUBSET (Elements(Session) \cup {e})
        /\ Elements(Handed) \in SUBSET Elements(Handed)
        /\ Elements(collector.read) \in SUBSET Elements(collector.read) /\ Unread \in SUBSET Unread
    BY <1>6
  <2> QED
    BY <1>5, <2>1, LinedLess DEF StrokeInv, Way
<1>9. \A y \in OnTheWay' : y.n <= strokes'
  <2>1. OnTheWay' \subseteq OnTheWay \cup {e}
    BY <1>1, <1>2, <1>6 DEF OnTheWay
  <2>2. strokes \in Nat /\ e.n = 0
    BY <1>5 DEF Strokeless, TypeOK
  <2> QED
    BY <1>1, <2>1, <2>2 DEF StrokeInv
<1> QED
  BY <1>1, <1>2, <1>7, <1>8, <1>9 DEF StrokeInv, PlacesInOrder, Way

LEMMA StrokeInvInject ==
    ASSUME TypeOK, StrokeInv, InjectInputEvent
    PROVE  StrokeInv'
<1>1. UNCHANGED << kernel, toSource, eventQueue, collector, strokes >>
  BY DEF InjectInputEvent, userVars, sinkVars
<1>2. UNCHANGED << Session, Handed, Unread >>
  BY <1>1 DEF Session, Handed, Unread
<1>3. injectQueue # << >> /\ injectQueue' = Tail(injectQueue) /\ injectQueue \in Seq(Event)
  BY WayTypes DEF InjectInputEvent
<1>4. /\ Head(injectQueue) \in Event /\ Tail(injectQueue) \in Seq(Event)
      /\ injectQueue = << Head(injectQueue) >> \o Tail(injectQueue)
      /\ Elements(injectQueue) = {Head(injectQueue)} \cup Elements(Tail(injectQueue))
  BY <1>3, HeadJoins, OfTail
<1>5. InOrder(Tail(injectQueue))
  <2>1. << Head(injectQueue) >> \in Seq(Event)
    BY <1>4, InOrderOne
  <2>2. InOrder(<< Head(injectQueue) >> \o Tail(injectQueue)) => InOrder(Tail(injectQueue))
    BY <1>4, <2>1, InOrderConcat
  <2> QED
    BY <1>4, <2>2 DEF StrokeInv, PlacesInOrder
<1>6. Lined(Elements(injectQueue'), Elements(Session), Elements(Handed), Elements(collector.read), Unread)
  <2>1. /\ Elements(injectQueue') \in SUBSET (Elements(injectQueue) \cup {})
        /\ Elements(Session) \in SUBSET (Elements(Session) \cup {})
        /\ Elements(Handed) \in SUBSET Elements(Handed) /\ Strokeless({})
        /\ Elements(collector.read) \in SUBSET Elements(collector.read) /\ Unread \in SUBSET Unread
    BY <1>3, <1>4 DEF Strokeless
  <2> QED
    BY <2>1, LinedLess DEF StrokeInv, Way
<1>7. OnTheWay' \subseteq OnTheWay
  BY <1>1, <1>2, <1>3, <1>4 DEF OnTheWay
<1> QED
  BY <1>1, <1>2, <1>3, <1>5, <1>6, <1>7 DEF StrokeInv, PlacesInOrder, Way

LEMMA StrokeInvStep ==
    ASSUME KeyAssumption, TypeOK, KeyPlaces, StrokeInv, [Next]_vars
    PROVE  StrokeInv'
<1>1. ASSUME NEW d \in DhIds, NEW k \in Keys,
             Press(d, k) \/ Release(d, k) \/ Repeat(d, k)
      PROVE  StrokeInv'
  BY <1>1, StrokeInvStroke DEF Press, Release, Repeat
<1>2. ASSUME NEW d \in DhIds, ReadEvents(d) PROVE StrokeInv'
  BY <1>2, StrokeInvRead
<1>3. CASE CheckShared
  BY <1>3, StrokeInvCheck
<1>4. CASE RecordEvent
  BY <1>4, StrokeInvRecord
<1>5. CASE RecordedAll
  <2>1. /\ collector.read = << >> /\ collector'.read = << >>
        /\ UNCHANGED << injectQueue, toSource, eventQueue, kernel, strokes >>
    BY <1>5 DEF RecordedAll, Idle, userVars, stateVars, sourceVars
  <2>2. UNCHANGED << Session, Handed, Unread >>
    BY <2>1 DEF Session, Handed, Unread
  <2> QED
    BY <2>1, <2>2 DEF StrokeInv, PlacesInOrder, Way, OnTheWay
<1>6. CASE StartRecordDhIds
  BY <1>6, StrokeInvReplay
<1>7. CASE StartSetSharing
  BY <1>7, StrokeInvFrame DEF StartSetSharing, userVars, sourceVars
<1>8. CASE StopRemoteInputDhid
  BY <1>8, StrokeInvFrame DEF StopRemoteInputDhid, userVars, sourceVars
<1>9. CASE SendEvents
  BY <1>9, StrokeInvSend
<1>10. ASSUME NEW d \in DhIds, StartRemoteInput(d) \/ StopRemoteInput(d) PROVE StrokeInv'
  BY <1>10, StrokeInvFrame DEF StartRemoteInput, StopRemoteInput, userVars, sinkVars
<1>11. CASE SendStop
  BY <1>11, StrokeInvFrame DEF SendStop, userVars, sinkVars
<1>12. CASE ReceiveFromSink
  BY <1>12, StrokeInvReceive
<1>13. CASE RunKeyStateCallback
  BY <1>13, StrokeInvCallback
<1>14. CASE InjectInputEvent
  BY <1>14, StrokeInvInject
<1>15. CASE UNCHANGED vars
  BY <1>15, StrokeInvFrame DEF vars, userVars, sinkVars, sourceVars
<1> QED
  BY <1>1, <1>2, <1>3, <1>4, <1>5, <1>6, <1>7, <1>8, <1>9, <1>10, <1>11, <1>12, <1>13, <1>14,
     <1>15 DEF Next

\* The queues one after the other are in order.
LEMMA WayStrokesInOrder == TypeOK /\ StrokeInv => StrokesInOrder
<1> SUFFICES ASSUME TypeOK, StrokeInv PROVE StrokesInOrder
  OBVIOUS
<1>1. [i \in DOMAIN toSource |-> toSource[i].events] = Batches(toSource)
  BY DEF Batches
<1>2. PICK a, b, c, e : a = injectQueue /\ b = Session /\ c = Handed /\ e = collector.read
  OBVIOUS
<1>3. a \in Seq(Event) /\ b \in Seq(Event) /\ c \in Seq(Event) /\ e \in Seq(Event)
  BY <1>2, WayTypes
<1>4. InOrder(a) /\ InOrder(b) /\ InOrder(c) /\ InOrder(e)
  BY <1>2 DEF StrokeInv, PlacesInOrder
<1>5. /\ Earlier(Elements(a), Elements(b)) /\ Earlier(Elements(a), Elements(c)) /\ Earlier(Elements(a), Elements(e))
      /\ Earlier(Elements(b), Elements(c)) /\ Earlier(Elements(b), Elements(e)) /\ Earlier(Elements(c), Elements(e))
  BY <1>2, EarlierUnions DEF StrokeInv, Way, Lined
<1>6. InOrder(a \o b) /\ a \o b \in Seq(Event) /\ Elements(a \o b) = Elements(a) \cup Elements(b)
  BY <1>3, <1>4, <1>5, InOrderConcat, Concatenated
<1>7. PICK f : f = a \o b
  OBVIOUS
<1>8. f \in Seq(Event) /\ InOrder(f) /\ Elements(f) = Elements(a) \cup Elements(b)
  BY <1>6, <1>7
<1>9. /\ f \o c \in Seq(Event) /\ InOrder(f \o c)
      /\ Elements(f \o c) = Elements(a) \cup Elements(b) \cup Elements(c)
  <2>1. Earlier(Elements(f), Elements(c))
    BY <1>5, <1>8, EarlierUnions
  <2>2. f \o c \in Seq(Event) /\ Elements(f \o c) = Elements(f) \cup Elements(c)
    BY <1>3, <1>8, Concatenated
  <2>3. InOrder(f \o c)
    BY <1>3, <1>4, <1>8, <2>1, InOrderConcat
  <2> QED
    BY <1>8, <2>2, <2>3
<1>10. InOrder((f \o c) \o e)
  <2>1. Earlier((Elements(a) \cup Elements(b)) \cup Elements(c), Elements(e))
    <3>1. PICK A, B, C, E : A = Elements(a) /\ B = Elements(b) /\ C = Elements(c) /\ E = Elements(e)
      OBVIOUS
    <3>2. PICK U : U = A \cup B
      OBVIOUS
    <3>3. Earlier(U, E)
      BY <1>5, <3>1, <3>2, EarlierUnions
    <3>4. Earlier(U \cup C, E)
      BY <1>5, <3>1, <3>3, EarlierUnions
    <3> QED
      BY <3>1, <3>2, <3>4
  <2>2. Earlier(Elements(f \o c), Elements(e))
    BY <1>9, <2>1
  <2> QED
    BY <1>3, <1>4, <1>9, <2>2, InOrderConcat
<1> QED
  BY <1>1, <1>2, <1>7, <1>10 DEF StrokesInOrder, Session, Handed, Events

KeysInv == TypeOK /\ KeyPlaces /\ StrokeInv

LEMMA KeysInvHolds == ASSUME KeyAssumption PROVE Spec => []KeysInv
<1>1. Init => KeysInv
  BY KeyTypesInit, KeyPlacesInit, StrokeInvInit DEF KeysInv
<1>2. KeysInv /\ [Next]_vars => KeysInv'
  BY KeyTypesStep, KeyPlacesStep, StrokeInvStep DEF KeysInv
<1> QED
  BY <1>1, <1>2, PTL DEF Spec

\* Whoever strokes, starts and stops whenever, the strokes of a device arrive in the order
\* they were made and each at most once, however the threads and the session interleave.
THEOREM StrokesArriveInOrder ==
    ASSUME KeyAssumption PROVE Spec => []StrokesInOrder
<1>1. KeysInv => StrokesInOrder
  BY WayStrokesInOrder DEF KeysInv
<1> QED
  BY <1>1, KeysInvHolds, PTL

(***************************************************************************)
(* Disciplined use: strokes and requests take turns.                       *)
(***************************************************************************)
KeyStatesOnly == \A m \in Elements(toSource) : m.cmd = "KEY_STATE"
BodyDataOnly  == \A m \in Elements(toSource) : m.cmd = "BODY_DATA"
NothingToDo   == toSource = << >> /\ callbackQueue = << >> /\ injectQueue = << >>

\* No stroke is under way before the source's receiver ...
Quiet ==
    /\ \A d \in DhIds : kernel[d] = << >>
    /\ collector = Idle /\ eventQueue = << >> /\ KeyStatesOnly

\* ... or no start, stop or key state is.
Control ==
    /\ toSink = << >> /\ handler = None /\ request = None /\ callbackQueue = << >>
    /\ BodyDataOnly

TakeTurns ==
    /\ Control \/ Quiet
    /\ toSink # << >> => Len(toSink) = 1 /\ handler = None /\ request = None /\ NothingToDo
    /\ request # None => handler = None /\ NothingToDo

\* The switch is on while anything is or was just shared, and what is shared is not recorded.
SharedApart ==
    /\ handler # None \/ sharedDHIds # {} \/ eventQueue # << >> => switchOn
    /\ collector.checked => collector.dhId \notin sharedDHIds
    /\ \A d \in DhIds : d \in sharedDHIds \/ handler = d => keyDownState[d] = << >>

HeldAreDown == \A d \in DhIds : heldOver[d] \subseteq down[d]

LEMMA ControlIs == ControlSettled <=> Control
<1>1. BodyDataOnly <=> \A i \in DOMAIN toSource : toSource[i].cmd = "BODY_DATA"
  BY DEF BodyDataOnly, Elements
<1> QED
  BY <1>1 DEF ControlSettled, Control

LEMMA SettledIs ==
    ASSUME Settled
    PROVE  Control /\ Quiet /\ NothingToDo /\ Session = << >> /\ Handed = << >>
<1>1. Control /\ StrokesSettled
  BY ControlIs DEF Settled
<1>2. Elements(<< >>) = {} /\ toSource = << >> /\ eventQueue = << >>
  BY <1>1, OfNothing DEF StrokesSettled
<1>3. Session = << >> /\ Handed = << >>
  <2>1. << >> \in Seq(SessionMessages) /\ << >> \in Seq(Seq(Event))
    BY OfNothing
  <2> QED
    BY <1>2, <2>1, EventsTypes, FlattenTypes DEF Session, Handed
<1> QED
  BY <1>1, <1>2, <1>3 DEF Control, Quiet, NothingToDo, KeyStatesOnly, StrokesSettled

LEMMA TurnsInit == KeyAssumption /\ Init => TakeTurns /\ SharedApart /\ HeldAreDown
<1> SUFFICES ASSUME KeyAssumption, Init PROVE TakeTurns /\ SharedApart /\ HeldAreDown
  OBVIOUS
<1>1. Elements(<< >>) = {}
  BY OfNothing
<1>2. /\ toSink = << >> /\ handler = None /\ request = None /\ callbackQueue = << >>
      /\ toSource = << >> /\ sharedDHIds = {} /\ eventQueue = << >> /\ ~collector.checked
  BY DEF Init, Idle
<1>3. TakeTurns
  BY <1>1, <1>2 DEF TakeTurns, Control, BodyDataOnly
<1>4. \A d \in DhIds : heldOver[d] = {}
  BY DEF Init
<1>5. SharedApart
  <2>1. \A d \in DhIds : d # None
    BY NoDevice
  <2> QED
    BY <1>2, <2>1 DEF SharedApart
<1> QED
  BY <1>3, <1>4, <1>5 DEF HeldAreDown

TurnsInv == TakeTurns /\ SharedApart /\ HeldAreDown

LEMMA TurnsFrame ==
    /\ TakeTurns /\ UNCHANGED << kernel, collector, eventQueue, toSource, toSink, handler, request,
                                 callbackQueue, injectQueue >> => TakeTurns'
    /\ SharedApart /\ UNCHANGED << handler, sharedDHIds, eventQueue, switchOn, collector,
                                   keyDownState >> => SharedApart'
    /\ HeldAreDown /\ UNCHANGED << down, heldOver >> => HeldAreDown'
<1>1. TakeTurns /\ UNCHANGED << kernel, collector, eventQueue, toSource, toSink, handler, request,
                                callbackQueue, injectQueue >> => TakeTurns'
  BY DEF TakeTurns, Control, Quiet, NothingToDo, BodyDataOnly, KeyStatesOnly
<1>2. SharedApart /\ UNCHANGED << handler, sharedDHIds, eventQueue, switchOn, collector,
                                  keyDownState >> => SharedApart'
  BY DEF SharedApart
<1>3. HeldAreDown /\ UNCHANGED << down, heldOver >> => HeldAreDown'
  BY DEF HeldAreDown
<1> QED
  BY <1>1, <1>2, <1>3

\* In disciplined use, a user's step finds no request under way.
LEMMA TurnsStroke ==
    ASSUME Disciplined, TypeOK, TurnsInv, NEW d \in DhIds, NEW k \in Keys,
           Press(d, k) \/ Release(d, k) \/ Repeat(d, k)
    PROVE  Control /\ TurnsInv'
<1>1. /\ UNCHANGED << collector, eventQueue, toSource, toSink, handler, request, callbackQueue, injectQueue >>
      /\ UNCHANGED << sharedDHIds, switchOn, keyDownState >>
      /\ ControlSettled
  BY DEF Press, Release, Repeat, Stroke, sinkVars, stateVars, sourceVars
<1>2. Control /\ Control'
  BY <1>1, ControlIs DEF Control, BodyDataOnly
<1>3. TakeTurns'
  BY <1>1, <1>2 DEF TakeTurns, Control
<1>4. SharedApart'
  BY <1>1, TurnsFrame DEF TurnsInv
<1>t. heldOver \in [DhIds -> SUBSET Keys] /\ down \in [DhIds -> SUBSET Keys]
  BY DEF TypeOK
<1>5. HeldAreDown'
  <2>1. CASE Press(d, k)
    <3>1. down' = [down EXCEPT ![d] = @ \cup {k}] /\ heldOver' = heldOver
      BY <2>1 DEF Press
    <3> QED
      BY <1>t, <3>1 DEF TurnsInv, HeldAreDown
  <2>2. CASE Release(d, k)
    <3>1. down' = [down EXCEPT ![d] = @ \ {k}] /\ heldOver' = [heldOver EXCEPT ![d] = @ \ {k}]
      BY <2>2 DEF Release
    <3> QED
      BY <1>t, <3>1 DEF TurnsInv, HeldAreDown
  <2>3. CASE Repeat(d, k)
    <3>1. down' = down /\ heldOver' = [heldOver EXCEPT ![d] = IF d \in sharedDHIds THEN @ ELSE @ \ {k}]
      BY <2>3 DEF Repeat
    <3> QED
      BY <1>t, <3>1 DEF TurnsInv, HeldAreDown
  <2> QED
    BY <2>1, <2>2, <2>3
<1> QED
  BY <1>2, <1>3, <1>4, <1>5 DEF TurnsInv

\* A start or a stop finds nothing under way.
LEMMA TurnsRequest ==
    ASSUME Disciplined, TypeOK, TurnsInv, NEW d \in DhIds, KeyAssumption,
           StartRemoteInput(d) \/ StopRemoteInput(d)
    PROVE  Settled /\ TurnsInv'
<1>0. Settled /\ Request
  BY DEF StartRemoteInput, StopRemoteInput, Request
<1>1. Control /\ Quiet /\ NothingToDo
  BY <1>0, SettledIs
<1>2. UNCHANGED << kernel, collector, eventQueue, toSource, handler, callbackQueue, injectQueue,
                   sharedDHIds, switchOn, keyDownState, down, heldOver >>
  BY DEF StartRemoteInput, StopRemoteInput, userVars, sinkVars, stateVars
<1>3. \/ toSink' = << >> /\ request' # None
      \/ Len(toSink') = 1 /\ request' = None
  <2>1. CASE StartRemoteInput(d)
    <3>1. toSink' = Append(<< >>, [cmd |-> "START_DHID", dhId |-> d]) /\ request' = None
      BY <1>1, <2>1 DEF StartRemoteInput, Control
    <3> QED
      BY <3>1
  <2>2. CASE StopRemoteInput(d)
    <3>1. request' = d /\ toSink' = toSink
      BY <2>2 DEF StopRemoteInput, sinkVars
    <3>2. toSink = << >> /\ d # None
      BY <1>1, NoDevice DEF Control
    <3> QED
      BY <3>1, <3>2
  <2> QED
    BY <2>1, <2>2
<1>4. Quiet' /\ NothingToDo' /\ handler' = None
  BY <1>1, <1>2 DEF Quiet, NothingToDo, KeyStatesOnly, Control
<1>5. TakeTurns'
  BY <1>3, <1>4 DEF TakeTurns
<1> QED
  BY <1>0, <1>2, <1>5, TurnsFrame DEF TurnsInv

LEMMA TurnsStep ==
    ASSUME Disciplined, KeyAssumption, TypeOK, KeyPlaces, TurnsInv, [Next]_vars
    PROVE  TurnsInv'
<1>0. Elements(<< >>) = {} /\ Idle.dhId = None /\ ~Idle.checked /\ None \notin DhIds
  BY OfNothing, NoDevice DEF Idle
<1>1. ASSUME NEW d \in DhIds, NEW k \in Keys,
             Press(d, k) \/ Release(d, k) \/ Repeat(d, k)
      PROVE  TurnsInv'
  BY <1>1, TurnsStroke
<1>2. ASSUME NEW d \in DhIds, ReadEvents(d) PROVE TurnsInv'
  <2>1. /\ UNCHANGED << eventQueue, toSource, toSink, handler, request, callbackQueue, injectQueue >>
        /\ UNCHANGED << sharedDHIds, switchOn, keyDownState, down, heldOver >>
        /\ ~collector'.checked /\ kernel[d] # << >>
    BY <1>2 DEF ReadEvents, stateVars, sourceVars
  <2>2. Control /\ Control'
    BY <2>1 DEF TurnsInv, TakeTurns, Quiet, Control, BodyDataOnly
  <2>3. TakeTurns'
    BY <2>2 DEF TakeTurns, Control
  <2>4. SharedApart'
    BY <2>1 DEF TurnsInv, SharedApart
  <2> QED
    BY <2>1, <2>3, <2>4, TurnsFrame DEF TurnsInv
<1>3. CASE CheckShared
  <2>1. /\ UNCHANGED << toSource, toSink, handler, request, callbackQueue, injectQueue >>
        /\ UNCHANGED << sharedDHIds, switchOn, keyDownState, down, heldOver >>
        /\ collector.dhId # None
    BY <1>3 DEF CheckShared, stateVars, userVars, sourceVars
  <2>2. Control /\ Control'
    BY <1>0, <2>1 DEF TurnsInv, TakeTurns, Quiet, Control, BodyDataOnly
  <2>3. TakeTurns'
    BY <2>2 DEF TakeTurns, Control
  <2>4. SharedApart'
    <3>1. CASE collector.dhId \in sharedDHIds
      <4>1. collector' = Idle /\ switchOn
        BY <1>3, <3>1 DEF CheckShared, TurnsInv, SharedApart
      <4> QED
        BY <1>0, <2>1, <4>1 DEF TurnsInv, SharedApart
    <3>2. CASE collector.dhId \notin sharedDHIds
      <4>1. collector'.dhId = collector.dhId /\ eventQueue' = eventQueue
        BY <1>3, <3>2 DEF CheckShared, TypeOK
      <4> QED
        BY <2>1, <3>2, <4>1 DEF TurnsInv, SharedApart
    <3> QED
      BY <3>1, <3>2
  <2> QED
    BY <2>1, <2>3, <2>4, TurnsFrame DEF TurnsInv
<1>4. CASE RecordEvent
  <2>1. /\ UNCHANGED << kernel, eventQueue, toSink, handler, request, callbackQueue, injectQueue >>
        /\ UNCHANGED << sharedDHIds, switchOn, down, heldOver >>
        /\ collector.read # << >> /\ collector.checked
    BY <1>4 DEF RecordEvent, userVars, sourceVars
  <2>2. Control
    BY <2>1 DEF TurnsInv, TakeTurns, Quiet, Idle
  <2>3. PICK e \in Event, t \in Seq(Event) :
           /\ e = Head(collector.read) /\ collector' = [collector EXCEPT !.read = t]
           /\ keyDownState' = [keyDownState EXCEPT ![e.dhId] = Recorded(@, e)]
    BY <1>4, RecordsOne
  <2>4. /\ collector'.dhId = collector.dhId /\ collector'.checked = collector.checked
        /\ collector.read \in Seq(Event)
    BY <2>3 DEF TypeOK
  <2>5. e.dhId = collector.dhId
    <3>1. e \in Elements(collector.read)
      BY <2>1, <2>3, <2>4, OfTail
    <3> QED
      BY <3>1 DEF KeyPlaces
  <2>6. BodyDataOnly'
    <3>1. PICK m : m = Message("BODY_DATA", << Simulated(e.dhId, BTN_MOUSE, "up") >>)
      OBVIOUS
    <3>2. m.cmd = "BODY_DATA"
      BY <3>1 DEF Message
    <3>3. m \in SessionMessages
      <4>1. e.dhId \in DhIds
        BY DEF Event
      <4> QED
        BY <3>1, <4>1, SimulatedTypes DEF KeyAssumption
    <3>4. toSource' = Append(toSource, m) \/ toSource' = toSource
      BY <1>4, <2>3, <3>1 DEF RecordEvent
    <3>5. Elements(Append(toSource, m)) = Elements(toSource) \cup {m}
      BY <3>3, WayTypes, Appended
    <3> QED
      BY <2>2, <3>2, <3>4, <3>5 DEF Control, BodyDataOnly
  <2>7. Control'
    BY <2>1, <2>2, <2>6 DEF Control
  <2>8. TakeTurns'
    BY <2>7 DEF TakeTurns, Control
  <2>9. SharedApart'
    <3>1. ASSUME NEW d \in DhIds, d \in sharedDHIds \/ handler = d PROVE keyDownState'[d] = << >>
      <4>1. d # e.dhId
        BY <1>0, <2>1, <2>2, <2>5, <3>1 DEF TurnsInv, SharedApart, Control
      <4>2. keyDownState'[d] = keyDownState[d]
        BY <2>3, <4>1 DEF TypeOK
      <4> QED
        BY <3>1, <4>2 DEF TurnsInv, SharedApart
    <3> QED
      BY <2>1, <2>4, <3>1 DEF TurnsInv, SharedApart
  <2> QED
    BY <2>1, <2>8, <2>9, TurnsFrame DEF TurnsInv
<1>5. CASE RecordedAll
  <2>1. /\ UNCHANGED << kernel, eventQueue, toSource, toSink, handler, request, callbackQueue, injectQueue >>
        /\ UNCHANGED << sharedDHIds, switchOn, keyDownState, down, heldOver >>
        /\ collector.checked /\ collector' = Idle
    BY <1>5 DEF RecordedAll, stateVars, userVars, sourceVars
  <2>2. Control /\ Control'
    BY <2>1 DEF TurnsInv, TakeTurns, Quiet, Control, BodyDataOnly, Idle
  <2>3. TakeTurns'
    BY <2>2 DEF TakeTurns, Control
  <2>4. SharedApart'
    BY <1>0, <2>1 DEF TurnsInv, SharedApart
  <2> QED
    BY <2>1, <2>3, <2>4, TurnsFrame DEF TurnsInv
<1>6. CASE StartRecordDhIds
  <2>1. /\ UNCHANGED << kernel, collector, eventQueue, request, callbackQueue, injectQueue >>
        /\ UNCHANGED << sharedDHIds, down, heldOver >>
    BY <1>6 DEF StartRecordDhIds, userVars, sourceVars
  <2>2. PICK d \in DhIds :
           /\ handler' = d /\ toSink # << >> /\ toSink' = Tail(toSink) /\ switchOn'
           /\ toSource' = toSource \o Replay(d)
           /\ keyDownState' = [keyDownState EXCEPT ![d] = << >>]
    BY <1>6, StartsAt
  <2>3. Len(toSink) = 1 /\ request = None /\ NothingToDo /\ Quiet
    BY <2>2 DEF TurnsInv, TakeTurns, Control
  <2>4. toSink' = << >>
    <3>1. toSink \in Seq(SessionRequests)
      BY DEF TypeOK, SessionRequests
    <3>2. Tail(toSink) \in Seq(SessionRequests) /\ Len(Tail(toSink)) = Len(toSink) - 1
      BY <2>2, <3>1, OfTail
    <3> QED
      BY <2>2, <2>3, <3>2, EmptySeq
  <2>5. KeyStatesOnly'
    <3>1. Replay(d) \in Seq(SessionMessages) /\ toSource \in Seq(SessionMessages)
      BY ReplayTypes, WayTypes
    <3>2. Elements(toSource') = Elements(toSource) \cup Elements(Replay(d))
      BY <2>2, <3>1, Concatenated
    <3>3. \A m \in Elements(Replay(d)) : m.cmd = "KEY_STATE"
      BY ReplayElements
    <3> QED
      BY <2>3, <3>2, <3>3 DEF Quiet, KeyStatesOnly
  <2>6. Quiet'
    BY <2>1, <2>3, <2>5 DEF Quiet
  <2>7. TakeTurns'
    BY <2>1, <2>3, <2>4, <2>6 DEF TakeTurns
  <2>8. SharedApart'
    <3>1. \A c \in DhIds : c \in sharedDHIds \/ c = d => keyDownState'[c] = << >>
      BY <2>2 DEF TypeOK, TurnsInv, SharedApart
    <3> QED
      BY <2>1, <2>2, <3>1 DEF TurnsInv, SharedApart
  <2> QED
    BY <2>1, <2>7, <2>8, TurnsFrame DEF TurnsInv
<1>7. CASE StartSetSharing
  <2>1. /\ UNCHANGED << kernel, collector, eventQueue, toSource, toSink, request, callbackQueue, injectQueue >>
        /\ UNCHANGED << switchOn, keyDownState, down, heldOver >>
        /\ handler # None /\ handler' = None /\ sharedDHIds' = sharedDHIds \cup {handler}
    BY <1>7 DEF StartSetSharing, stateVars, userVars, sourceVars
  <2>2. Quiet
    BY <2>1 DEF TurnsInv, TakeTurns, Control
  <2>3. Quiet' /\ ~collector.checked
    BY <1>0, <2>1, <2>2 DEF Quiet, KeyStatesOnly
  <2>4. TakeTurns'
    BY <2>1, <2>3 DEF TurnsInv, TakeTurns, NothingToDo
  <2>5. SharedApart'
    BY <1>0, <2>1, <2>3 DEF TurnsInv, SharedApart
  <2> QED
    BY <2>1, <2>4, <2>5, TurnsFrame DEF TurnsInv
<1>8. CASE StopRemoteInputDhid
  <2>1. /\ UNCHANGED << kernel, collector, eventQueue, toSource, request, callbackQueue, injectQueue >>
        /\ UNCHANGED << keyDownState, down, handler >>
        /\ toSink # << >> /\ toSink' = Tail(toSink)
    BY <1>8 DEF StopRemoteInputDhid, NextRequest, userVars, sourceVars
  <2>2. PICK d : /\ sharedDHIds' = sharedDHIds \ {d}
                 /\ switchOn' = (switchOn /\ sharedDHIds \ {d} # {})
                 /\ heldOver' = [heldOver EXCEPT ![d] = IF d \in sharedDHIds THEN down[d] ELSE @]
    BY <1>8 DEF StopRemoteInputDhid
  <2>3. Len(toSink) = 1 /\ request = None /\ NothingToDo /\ Quiet /\ handler = None
    BY <2>1 DEF TurnsInv, TakeTurns, Control
  <2>4. toSink' = << >>
    <3>1. toSink \in Seq(SessionRequests)
      BY DEF TypeOK, SessionRequests
    <3>2. Tail(toSink) \in Seq(SessionRequests) /\ Len(Tail(toSink)) = Len(toSink) - 1
      BY <2>1, <3>1, OfTail
    <3> QED
      BY <2>1, <2>3, <3>2, EmptySeq
  <2>5. Quiet' /\ ~collector.checked /\ eventQueue = << >>
    BY <1>0, <2>1, <2>3 DEF Quiet, KeyStatesOnly
  <2>6. TakeTurns'
    BY <2>1, <2>3, <2>4, <2>5 DEF TakeTurns
  <2>7. SharedApart'
    <3>1. sharedDHIds' # {} => switchOn'
      BY <2>2 DEF TurnsInv, SharedApart
    <3> QED
      BY <1>0, <2>1, <2>2, <2>3, <2>5, <3>1 DEF TurnsInv, SharedApart
  <2>8. HeldAreDown'
    BY <2>1, <2>2 DEF TurnsInv, HeldAreDown, TypeOK
  <2> QED
    BY <2>6, <2>7, <2>8 DEF TurnsInv
<1>9. CASE SendEvents
  <2>1. /\ UNCHANGED << kernel, collector, toSink, handler, request, callbackQueue, injectQueue >>
        /\ UNCHANGED << sharedDHIds, switchOn, keyDownState, down, heldOver >>
        /\ eventQueue # << >>
    BY <1>9 DEF SendEvents, stateVars, userVars, sourceVars
  <2>2. Control
    BY <2>1 DEF TurnsInv, TakeTurns, Quiet
  <2>3. PICK b \in Seq(Event) : toSource' = Append(toSource, Message("BODY_DATA", b)) \/ toSource' = toSource
    BY <1>9, SendsBatch
  <2>4. BodyDataOnly'
    <3>1. PICK m : m = Message("BODY_DATA", b)
      OBVIOUS
    <3>2. m.cmd = "BODY_DATA" /\ m \in SessionMessages
      BY <3>1 DEF Message, SessionMessages
    <3>3. Elements(Append(toSource, m)) = Elements(toSource) \cup {m}
      BY <3>2, WayTypes, Appended
    <3> QED
      BY <2>2, <2>3, <3>1, <3>2, <3>3 DEF Control, BodyDataOnly
  <2>5. Control'
    BY <2>1, <2>2, <2>4 DEF Control
  <2>6. TakeTurns'
    BY <2>5 DEF TakeTurns, Control
  <2>7. SharedApart'
    BY <2>1 DEF TurnsInv, SharedApart
  <2> QED
    BY <2>1, <2>6, <2>7, TurnsFrame DEF TurnsInv
<1>10. ASSUME NEW d \in DhIds, StartRemoteInput(d) \/ StopRemoteInput(d) PROVE TurnsInv'
  BY <1>10, TurnsRequest
<1>11. CASE SendStop
  <2>1. /\ UNCHANGED << kernel, collector, eventQueue, toSource, handler, callbackQueue, injectQueue >>
        /\ UNCHANGED << sharedDHIds, switchOn, keyDownState, down, heldOver >>
        /\ request # None /\ request' = None
        /\ toSink' = Append(toSink, [cmd |-> "STOP_DHID", dhId |-> request])
    BY <1>11 DEF SendStop, sinkVars, stateVars, userVars
  <2>2. handler = None /\ NothingToDo /\ Quiet /\ toSink = << >>
    BY <2>1 DEF TurnsInv, TakeTurns, Control
  <2>3. Len(toSink') = 1
    BY <2>1, <2>2
  <2>4. Quiet' /\ NothingToDo'
    BY <2>1, <2>2 DEF Quiet, KeyStatesOnly, NothingToDo
  <2>5. TakeTurns'
    BY <2>1, <2>2, <2>3, <2>4 DEF TakeTurns
  <2> QED
    BY <2>1, <2>5, TurnsFrame DEF TurnsInv
<1>12. CASE ReceiveFromSink
  <2>1. /\ UNCHANGED << kernel, collector, eventQueue, toSink, handler, request >>
        /\ UNCHANGED << sharedDHIds, switchOn, keyDownState, down, heldOver >>
        /\ toSource # << >> /\ toSource' = Tail(toSource)
    BY <1>12 DEF ReceiveFromSink, sinkVars, stateVars, userVars
  <2>2. toSink = << >> /\ request = None
    BY <2>1 DEF TurnsInv, TakeTurns, NothingToDo
  <2>3. Elements(toSource') \subseteq Elements(toSource)
    BY <2>1, WayTypes, OfTail
  <2>4. CASE Quiet
    <3>1. Quiet'
      BY <2>1, <2>3, <2>4 DEF Quiet, KeyStatesOnly
    <3>2. TakeTurns'
      BY <2>1, <2>2, <3>1 DEF TakeTurns
    <3> QED
      BY <2>1, <3>2, TurnsFrame DEF TurnsInv
  <2>5. CASE Control
    <3>1. Head(toSource).cmd # "KEY_STATE"
      <4>1. Head(toSource) \in Elements(toSource)
        BY <2>1, WayTypes, OfTail
      <4> QED
        BY <2>5, <4>1 DEF Control, BodyDataOnly
    <3>2. callbackQueue' = callbackQueue
      BY <1>12, <3>1 DEF ReceiveFromSink
    <3>3. Control'
      BY <2>1, <2>3, <2>5, <3>2 DEF Control, BodyDataOnly
    <3>4. TakeTurns'
      BY <2>1, <2>2, <3>3 DEF TakeTurns
    <3> QED
      BY <2>1, <3>4, TurnsFrame DEF TurnsInv
  <2> QED
    BY <2>4, <2>5 DEF TurnsInv, TakeTurns
<1>13. CASE RunKeyStateCallback
  <2>1. /\ UNCHANGED << kernel, collector, eventQueue, toSource, toSink, handler, request >>
        /\ UNCHANGED << sharedDHIds, switchOn, keyDownState, down, heldOver >>
        /\ callbackQueue # << >>
    BY <1>13 DEF RunKeyStateCallback, sinkVars, stateVars, userVars
  <2>2. toSink = << >> /\ request = None /\ Quiet
    BY <2>1 DEF TurnsInv, TakeTurns, NothingToDo, Control
  <2>3. Quiet'
    BY <2>1, <2>2 DEF Quiet, KeyStatesOnly
  <2>4. TakeTurns'
    BY <2>1, <2>2, <2>3 DEF TakeTurns
  <2> QED
    BY <2>1, <2>4, TurnsFrame DEF TurnsInv
<1>14. CASE InjectInputEvent
  <2>1. /\ UNCHANGED << kernel, collector, eventQueue, toSource, toSink, handler, request, callbackQueue >>
        /\ UNCHANGED << sharedDHIds, switchOn, keyDownState, down, heldOver >>
        /\ injectQueue # << >>
    BY <1>14 DEF InjectInputEvent, sinkVars, stateVars, userVars
  <2>2. toSink = << >> /\ request = None
    BY <2>1 DEF TurnsInv, TakeTurns, NothingToDo
  <2>3. Quiet' \/ Control'
    BY <2>1 DEF TurnsInv, TakeTurns, Quiet, KeyStatesOnly, Control, BodyDataOnly
  <2>4. TakeTurns'
    BY <2>1, <2>2, <2>3 DEF TakeTurns
  <2> QED
    BY <2>1, <2>4, TurnsFrame DEF TurnsInv
<1>15. CASE UNCHANGED vars
  BY <1>15, TurnsFrame DEF TurnsInv, vars, userVars, sinkVars, stateVars, sourceVars
<1> QED
  BY <1>1, <1>2, <1>3, <1>4, <1>5, <1>6, <1>7, <1>8, <1>9, <1>10, <1>11, <1>12, <1>13, <1>14,
     <1>15 DEF Next

(***************************************************************************)
(* The record of the keys that are down.                                   *)
(***************************************************************************)
AheadIn(s, a, b) == \E i, j \in DOMAIN s : i < j /\ s[i] = a /\ s[j] = b
Once(s)          == \A a \in Elements(s) : ~AheadIn(s, a, a)

LEMMA AheadTypes ==
    ASSUME NEW S, NEW s \in Seq(S), NEW a, NEW b, AheadIn(s, a, b)
    PROVE  a \in Elements(s) /\ b \in Elements(s)
  BY DEF AheadIn, Elements

LEMMA AheadAppend ==
    ASSUME NEW S, NEW s \in Seq(S), NEW k \in S, NEW a, NEW b, AheadIn(Append(s, k), a, b)
    PROVE  AheadIn(s, a, b) \/ (a \in Elements(s) /\ b = k)
<1> DEFINE t == Append(s, k)
<1>1. /\ DOMAIN s = 1 .. Len(s) /\ Len(s) \in Nat /\ DOMAIN t = 1 .. Len(s) + 1
      /\ \A i \in 1 .. Len(s) : t[i] = s[i]
      /\ t[Len(s) + 1] = k
  BY AppendProperties, LenProperties
<1> HIDE DEF t
<1>2. PICK i, j \in DOMAIN t : i < j /\ t[i] = a /\ t[j] = b
  BY DEF AheadIn, t
<1>3. i \in DOMAIN s /\ t[i] = s[i]
  BY <1>1, <1>2
<1>4. CASE j = Len(s) + 1
  BY <1>1, <1>2, <1>3, <1>4 DEF Elements
<1>5. CASE j # Len(s) + 1
  <2>1. j \in DOMAIN s /\ t[j] = s[j]
    BY <1>1, <1>2, <1>5
  <2> QED
    BY <1>2, <1>3, <2>1 DEF AheadIn
<1> QED
  BY <1>4, <1>5

LEMMA AheadRemove ==
    ASSUME NEW S, NEW s \in Seq(S), NEW k, Once(s)
    PROVE  /\ Elements(RemoveFirst(s, k)) = Elements(s) \ {k}
           /\ \A a, b : AheadIn(RemoveFirst(s, k), a, b) => AheadIn(s, a, b) /\ a # k /\ b # k
<1> DEFINE r == RemoveFirst(s, k)
<1>1. DOMAIN s = 1 .. Len(s) /\ Len(s) \in Nat
  BY LenProperties
<1>2. r \in Seq(S) /\ (k \notin Elements(s) => r = s) /\ (k \in Elements(s) => \E p \in DOMAIN s : RemovesAt(r, s, k, p))
  BY RemovesFirst
<1> HIDE DEF r
<1>3. CASE k \notin Elements(s)
  <2>1. r = s
    BY <1>2, <1>3
  <2>2. \A a, b : AheadIn(s, a, b) => a # k /\ b # k
    BY <1>3, AheadTypes
  <2> QED
    BY <1>3, <2>1, <2>2 DEF r
<1>4. CASE k \in Elements(s)
  <2>1. PICK p \in DOMAIN s : RemovesAt(r, s, k, p)
    BY <1>2, <1>4
  <2>2. \A i \in DOMAIN s : s[i] = k => i = p
    <3> SUFFICES ASSUME NEW i \in DOMAIN s, s[i] = k, i # p PROVE FALSE
      OBVIOUS
    <3>1. s[p] = k /\ (i < p \/ p < i)
      BY <1>1, <2>1 DEF RemovesAt
    <3>2. AheadIn(s, k, k)
      BY <3>1 DEF AheadIn
    <3> QED
      BY <1>4, <3>2 DEF Once
  <2>3. DOMAIN r = 1 .. Len(s) - 1
    BY <2>1 DEF RemovesAt, Without
  <2>4. ASSUME NEW i \in DOMAIN r
        PROVE  \E m \in DOMAIN s : /\ r[i] = s[m] /\ m # p
                                   /\ m = IF i < p THEN i ELSE i + 1
    <3>1. CASE i < p
      <4>1. i \in DOMAIN s /\ r[i] = s[i] /\ i # p
        BY <1>1, <2>1, <2>3, <3>1 DEF RemovesAt, Without
      <4> QED
        BY <3>1, <4>1
    <3>2. CASE ~(i < p)
      <4>1. i >= p /\ i + 1 # p
        BY <1>1, <2>3, <3>2
      <4>2. i + 1 \in DOMAIN s /\ r[i] = s[i + 1]
        BY <2>1, <2>3, <4>1 DEF RemovesAt, Without
      <4> QED
        BY <3>2, <4>1, <4>2
    <3> QED
      BY <3>1, <3>2
  <2>5. ASSUME NEW a, NEW b, AheadIn(r, a, b) PROVE AheadIn(s, a, b) /\ a # k /\ b # k
    <3>1. PICK i, j \in DOMAIN r : i < j /\ r[i] = a /\ r[j] = b
      BY <2>5 DEF AheadIn
    <3>2. PICK m \in DOMAIN s : r[i] = s[m] /\ m # p /\ m = IF i < p THEN i ELSE i + 1
      BY <2>4
    <3>3. PICK n \in DOMAIN s : r[j] = s[n] /\ n # p /\ n = IF j < p THEN j ELSE j + 1
      BY <2>4
    <3>4. m < n
      BY <1>1, <2>3, <3>1, <3>2, <3>3
    <3>5. s[m] = a /\ s[n] = b
      BY <3>1, <3>2, <3>3
    <3>6. AheadIn(s, a, b)
      BY <3>4, <3>5 DEF AheadIn
    <3> QED
      BY <2>2, <3>2, <3>3, <3>5, <3>6
  <2>6. Elements(r) \subseteq Elements(s) \ {k}
    <3> SUFFICES ASSUME NEW i \in DOMAIN r PROVE r[i] \in Elements(s) /\ r[i] # k
      BY DEF Elements
    <3>1. PICK m \in DOMAIN s : r[i] = s[m] /\ m # p
      BY <2>4
    <3> QED
      BY <2>2, <3>1 DEF Elements
  <2>7. Elements(s) \ {k} \subseteq Elements(r)
    <3> SUFFICES ASSUME NEW m \in DOMAIN s, s[m] # k PROVE s[m] \in Elements(r)
      BY DEF Elements
    <3>1. m # p
      BY <2>1 DEF RemovesAt
    <3>2. CASE m < p
      <4>1. m \in 1 .. Len(s) - 1
        BY <1>1, <3>2
      <4>2. r[m] = s[m]
        BY <2>1, <3>2, <4>1 DEF RemovesAt, Without
      <4> QED
        BY <2>3, <4>1, <4>2 DEF Elements
    <3>3. CASE m > p
      <4>1. m - 1 \in 1 .. Len(s) - 1 /\ m - 1 >= p /\ (m - 1) + 1 = m
        BY <1>1, <3>3
      <4>2. r[m - 1] = s[(m - 1) + 1]
        BY <2>1, <4>1 DEF RemovesAt, Without
      <4>3. r[m - 1] = s[m]
        BY <4>1, <4>2
      <4> QED
        BY <2>3, <4>1, <4>3 DEF Elements
    <3> QED
      BY <1>1, <3>1, <3>2, <3>3
  <2> QED
    BY <2>5, <2>6, <2>7 DEF r
<1> QED
  BY <1>3, <1>4

\* What recording an event does to a record without a key twice: the key of a press or a
\* repeat is the last one, and the others keep their order.
LEMMA RecordedAhead ==
    ASSUME NEW s \in Seq(Keys), NEW e \in Event, Once(s),
           e.value = "down" => e.code \notin Elements(s)
    PROVE  /\ Recorded(s, e) \in Seq(Keys)
           /\ Elements(Recorded(s, e)) = IF e.value = "up" THEN Elements(s) \ {e.code}
                                                           ELSE Elements(s) \cup {e.code}
           /\ \A a, b : AheadIn(Recorded(s, e), a, b) =>
                 \/ AheadIn(s, a, b) /\ a # e.code /\ b # e.code
                 \/ b = e.code /\ a # e.code /\ a \in Elements(s) /\ e.value # "up"
<1> DEFINE k == e.code
           u == RemoveFirst(s, k)
<1>1. k \in Keys /\ e.value \in {"down", "up", "repeat"}
  BY DEF Event
<1>2. /\ u \in Seq(Keys) /\ Elements(u) = Elements(s) \ {k}
      /\ \A a, b : AheadIn(u, a, b) => AheadIn(s, a, b) /\ a # k /\ b # k
  BY RemovesFirst, AheadRemove
<1>3. CASE e.value = "up"
  <2>1. Recorded(s, e) = u
    BY <1>3 DEF Recorded
  <2> QED
    BY <1>2, <1>3, <2>1
<1>4. CASE e.value = "down"
  <2>1. Recorded(s, e) = Append(s, k)
    BY <1>4 DEF Recorded
  <2>2. Append(s, k) \in Seq(Keys) /\ Elements(Append(s, k)) = Elements(s) \cup {k}
    BY <1>1, Appended
  <2>3. ASSUME NEW a, NEW b, AheadIn(Append(s, k), a, b)
        PROVE  \/ AheadIn(s, a, b) /\ a # k /\ b # k
               \/ b = k /\ a # k /\ a \in Elements(s)
    <3>1. AheadIn(s, a, b) \/ (a \in Elements(s) /\ b = k)
      BY <1>1, <2>3, AheadAppend
    <3>2. AheadIn(s, a, b) => a \in Elements(s) /\ b \in Elements(s)
      BY AheadTypes
    <3> QED
      BY <1>4, <3>1, <3>2
  <2> QED
    BY <1>4, <2>1, <2>2, <2>3
<1>5. CASE e.value = "repeat"
  <2>1. Recorded(s, e) = Append(u, k)
    BY <1>5 DEF Recorded, LongPressed
  <2> HIDE DEF u
  <2>2. Append(u, k) \in Seq(Keys) /\ Elements(Append(u, k)) = Elements(u) \cup {k}
    BY <1>1, <1>2, Appended
  <2>3. ASSUME NEW a, NEW b, AheadIn(Append(u, k), a, b)
        PROVE  \/ AheadIn(s, a, b) /\ a # k /\ b # k
               \/ b = k /\ a # k /\ a \in Elements(s)
    <3>1. AheadIn(u, a, b) \/ (a \in Elements(u) /\ b = k)
      BY <1>1, <1>2, <2>3, AheadAppend
    <3> QED
      BY <1>2, <3>1
  <2> QED
    BY <1>2, <1>5, <2>1, <2>2, <2>3
<1> QED
  BY <1>1, <1>3, <1>4, <1>5

LastStroke(q, k, i) == q[i].code = k /\ \A j \in DOMAIN q : i < j => q[j].code # k
Absent(q, k) == \A i \in DOMAIN q : q[i].code # k
Pends(q, k)  == \E i \in DOMAIN q : q[i].code = k /\ q[i].value # "up"

\* The record s and the strokes q that are still to be recorded tell which keys are down:
\* the last stroke of a key does, and the record does if there is none.
Matches(q, s, live) ==
    \A k \in Keys :
        /\ \A i \in DOMAIN q : LastStroke(q, k, i) => (k \in live <=> q[i].value # "up")
        /\ Absent(q, k) => (k \in live <=> k \in Elements(s))

\* A press is of a key that was not down.
PressedOnce(q, s) ==
    \A i \in DOMAIN q : q[i].value = "down" =>
        /\ (\A j \in DOMAIN q : j < i => q[j].code # q[i].code) => q[i].code \notin Elements(s)
        /\ \A j \in DOMAIN q :
              /\ j < i /\ q[j].code = q[i].code
              /\ \A l \in DOMAIN q : j < l /\ l < i => q[l].code # q[i].code
              => q[j].value = "up"

\* The stamp of a key that is still to be recorded is on the way, that of another key is
\* earlier than all that is on the way.
Stamped(q, st) ==
    \A k \in Keys :
        /\ Pends(q, k) => \E i \in DOMAIN q : q[i].code = k /\ q[i].value # "up" /\ q[i].n = st[k]
        /\ \A i \in DOMAIN q : q[i].code = k /\ q[i].value # "up" => q[i].n <= st[k]
        /\ ~Pends(q, k) => \A i \in DOMAIN q : st[k] < q[i].n

InPressOrder(q, s, st) ==
    \A a, b \in Keys :
        AheadIn(s, a, b) => a # b /\ (Pends(q, a) \/ Pends(q, b) \/ st[b] = 0 \/ st[a] < st[b])

Tracks(q, s, live, st) ==
    Matches(q, s, live) /\ PressedOnce(q, s) /\ Stamped(q, st) /\ InPressOrder(q, s, st)

\* r is q with e behind, or q is r with e ahead.
GrowsBy(q, r, e, n) ==
    /\ n \in Nat /\ DOMAIN q = 1 .. n /\ DOMAIN r = 1 .. n + 1
    /\ \A i \in 1 .. n : r[i] = q[i]
    /\ r[n + 1] = e
DropsTo(q, r, e, n) ==
    /\ n \in Nat /\ DOMAIN q = 1 .. n + 1 /\ DOMAIN r = 1 .. n
    /\ \A i \in 1 .. n : r[i] = q[i + 1]
    /\ q[1] = e

PressesNow(live, e) == IF e.value = "up" THEN live \ {e.code} ELSE live \cup {e.code}
StampsNow(st, e) == IF e.value = "up" THEN st ELSE [st EXCEPT ![e.code] = e.n]

LEMMA GrownMatches ==
    ASSUME NEW q, NEW r, NEW e, NEW n, NEW s, NEW live, GrowsBy(q, r, e, n), Matches(q, s, live),
           e.code \in Keys
    PROVE  Matches(r, s, PressesNow(live, e))
<1>1. /\ n \in Nat /\ DOMAIN q = 1 .. n /\ DOMAIN r = 1 .. n + 1
      /\ \A i \in 1 .. n : r[i] = q[i]
      /\ r[n + 1] = e
  BY DEF GrowsBy
<1>2. ASSUME NEW k \in Keys, NEW i \in DOMAIN r, LastStroke(r, k, i)
      PROVE  k \in PressesNow(live, e) <=> r[i].value # "up"
  <2>1. r[i].code = k /\ \A j \in DOMAIN r : i < j => r[j].code # k
    BY <1>2 DEF LastStroke
  <2>2. CASE i = n + 1
    <3>1. k = e.code /\ r[i] = e
      BY <1>1, <2>1, <2>2
    <3> QED
      BY <3>1 DEF PressesNow
  <2>3. CASE i # n + 1
    <3>1. i \in 1 .. n /\ i < n + 1 /\ n + 1 \in DOMAIN r
      BY <1>1, <2>3
    <3>2. k # e.code
      BY <1>1, <2>1, <3>1
    <3>3. LastStroke(q, k, i)
      <4>1. q[i].code = k
        BY <1>1, <2>1, <3>1
      <4>2. \A j \in 1 .. n : i < j => q[j].code # k
        BY <1>1, <2>1
      <4> QED
        BY <1>1, <4>1, <4>2 DEF LastStroke
    <3>4. k \in live <=> q[i].value # "up"
      BY <1>1, <3>1, <3>3 DEF Matches
    <3> QED
      BY <1>1, <3>1, <3>2, <3>4 DEF PressesNow
  <2> QED
    BY <2>2, <2>3
<1>3. ASSUME NEW k \in Keys, Absent(r, k)
      PROVE  k \in PressesNow(live, e) <=> k \in Elements(s)
  <2>1. k # e.code
    BY <1>1, <1>3 DEF Absent
  <2>2. \A i \in 1 .. n : q[i].code # k
    BY <1>1, <1>3 DEF Absent
  <2>3. Absent(q, k)
    BY <1>1, <2>2 DEF Absent
  <2> QED
    BY <2>1, <2>3 DEF Matches, PressesNow
<1> QED
  BY <1>2, <1>3 DEF Matches

LEMMA GrownPressedOnce ==
    ASSUME NEW q, NEW r, NEW e, NEW n, NEW s, NEW live, GrowsBy(q, r, e, n), Matches(q, s, live),
           PressedOnce(q, s), e.code \in Keys, e.value = "down" => e.code \notin live
    PROVE  PressedOnce(r, s)
<1>1. /\ n \in Nat /\ DOMAIN q = 1 .. n /\ DOMAIN r = 1 .. n + 1
      /\ \A i \in 1 .. n : r[i] = q[i]
      /\ r[n + 1] = e
  BY DEF GrowsBy
<1>2. ASSUME NEW i \in DOMAIN r, r[i].value = "down", \A j \in DOMAIN r : j < i => r[j].code # r[i].code
      PROVE  r[i].code \notin Elements(s)
  <2>1. CASE i = n + 1
    <3>1. r[i] = e /\ e.code \notin live
      BY <1>1, <1>2, <2>1
    <3>2. \A j \in 1 .. n : q[j].code # e.code
      BY <1>1, <1>2, <2>1
    <3>3. Absent(q, e.code)
      BY <1>1, <3>2 DEF Absent
    <3> QED
      BY <3>1, <3>3 DEF Matches
  <2>2. CASE i # n + 1
    <3>1. i \in 1 .. n /\ r[i] = q[i]
      BY <1>1, <2>2
    <3>2. \A j \in 1 .. n : j < i => q[j].code # q[i].code
      BY <1>1, <1>2, <3>1
    <3> QED
      BY <1>1, <1>2, <3>1, <3>2 DEF PressedOnce
  <2> QED
    BY <2>1, <2>2
<1>3. ASSUME NEW i \in DOMAIN r, r[i].value = "down", NEW j \in DOMAIN r, j < i,
             r[j].code = r[i].code, \A l \in DOMAIN r : j < l /\ l < i => r[l].code # r[i].code
      PROVE  r[j].value = "up"
  <2>0. j \in 1 .. n /\ r[j] = q[j]
    BY <1>1, <1>3
  <2>1. CASE i = n + 1
    <3>1. r[i] = e /\ e.code \notin live
      BY <1>1, <1>3, <2>1
    <3>2. \A l \in 1 .. n : j < l => q[l].code # e.code
      BY <1>1, <1>3, <2>1, <3>1
    <3>3. LastStroke(q, e.code, j)
      BY <1>1, <1>3, <2>0, <3>1, <3>2 DEF LastStroke
    <3> QED
      BY <1>1, <2>0, <3>1, <3>3 DEF Matches
  <2>2. CASE i # n + 1
    <3>1. i \in 1 .. n /\ r[i] = q[i]
      BY <1>1, <2>2
    <3>2. \A l \in 1 .. n : j < l /\ l < i => q[l].code # q[i].code
      BY <1>1, <1>3, <3>1
    <3> QED
      BY <1>1, <1>3, <2>0, <3>1, <3>2 DEF PressedOnce
  <2> QED
    BY <2>1, <2>2
<1> QED
  BY <1>2, <1>3 DEF PressedOnce

LEMMA GrownPends ==
    ASSUME NEW q, NEW r, NEW e, NEW n, GrowsBy(q, r, e, n), NEW k
    PROVE  Pends(r, k) <=> Pends(q, k) \/ (e.code = k /\ e.value # "up")
<1>1. /\ n \in Nat /\ DOMAIN q = 1 .. n /\ DOMAIN r = 1 .. n + 1
      /\ \A i \in 1 .. n : r[i] = q[i]
      /\ r[n + 1] = e
  BY DEF GrowsBy
<1>2. Pends(q, k) => Pends(r, k)
  BY <1>1 DEF Pends
<1>3. e.code = k /\ e.value # "up" => Pends(r, k)
  BY <1>1 DEF Pends
<1>4. Pends(r, k) => Pends(q, k) \/ (e.code = k /\ e.value # "up")
  BY <1>1 DEF Pends
<1> QED
  BY <1>2, <1>3, <1>4

LEMMA GrownStamped ==
    ASSUME NEW q, NEW r, NEW e, NEW n, GrowsBy(q, r, e, n), NEW st \in [Keys -> Nat], Stamped(q, st),
           e.code \in Keys, e.n \in Nat, \A k \in Keys : st[k] < e.n,
           \A i \in DOMAIN q : q[i].n \in Nat /\ q[i].n < e.n
    PROVE  Stamped(r, StampsNow(st, e))
<1>1. /\ n \in Nat /\ DOMAIN q = 1 .. n /\ DOMAIN r = 1 .. n + 1
      /\ \A i \in 1 .. n : r[i] = q[i]
      /\ r[n + 1] = e
  BY DEF GrowsBy
<1>p. \A k : Pends(r, k) <=> Pends(q, k) \/ (e.code = k /\ e.value # "up")
  BY GrownPends
<1>2. PICK t : t = StampsNow(st, e)
  OBVIOUS
<1>3. \A k \in Keys : t[k] = IF k = e.code /\ e.value # "up" THEN e.n ELSE st[k]
  BY <1>2 DEF StampsNow
<1>4. ASSUME NEW k \in Keys, Pends(r, k)
      PROVE  \E i \in DOMAIN r : r[i].code = k /\ r[i].value # "up" /\ r[i].n = t[k]
  <2>1. CASE k = e.code /\ e.value # "up"
    BY <1>1, <1>3, <2>1
  <2>2. CASE ~(k = e.code /\ e.value # "up")
    <3>1. PICK i \in DOMAIN q : q[i].code = k /\ q[i].value # "up" /\ q[i].n = st[k]
      BY <1>4, <1>p, <2>2 DEF Stamped
    <3> QED
      BY <1>1, <1>3, <2>2, <3>1
  <2> QED
    BY <2>1, <2>2
<1>5. ASSUME NEW k \in Keys, NEW i \in DOMAIN r, r[i].code = k, r[i].value # "up"
      PROVE  r[i].n <= t[k]
  <2>1. CASE i = n + 1
    BY <1>1, <1>3, <1>5, <2>1
  <2>2. CASE i # n + 1
    <3>1. i \in DOMAIN q /\ r[i] = q[i]
      BY <1>1, <2>2
    <3>2. q[i].n <= st[k] /\ st[k] < e.n /\ st[k] \in Nat /\ q[i].n \in Nat
      BY <1>5, <3>1 DEF Stamped
    <3> QED
      BY <1>3, <3>1, <3>2
  <2> QED
    BY <2>1, <2>2
<1>6. ASSUME NEW k \in Keys, ~Pends(r, k), NEW i \in DOMAIN r
      PROVE  t[k] < r[i].n
  <2>1. ~Pends(q, k) /\ t[k] = st[k]
    BY <1>3, <1>6, <1>p
  <2>2. CASE i = n + 1
    BY <1>1, <2>1, <2>2
  <2>3. CASE i # n + 1
    <3>1. i \in DOMAIN q /\ r[i] = q[i]
      BY <1>1, <2>3
    <3> QED
      BY <2>1, <3>1 DEF Stamped
  <2> QED
    BY <2>2, <2>3
<1> QED
  BY <1>2, <1>4, <1>5, <1>6 DEF Stamped

LEMMA GrownInPressOrder ==
    ASSUME NEW q, NEW r, NEW e, NEW n, GrowsBy(q, r, e, n), NEW st \in [Keys -> Nat], NEW s,
           InPressOrder(q, s, st)
    PROVE  InPressOrder(r, s, StampsNow(st, e))
<1>p. \A k : Pends(r, k) <=> Pends(q, k) \/ (e.code = k /\ e.value # "up")
  BY GrownPends
<1>2. PICK t : t = StampsNow(st, e)
  OBVIOUS
<1>3. \A k \in Keys : t[k] = IF k = e.code /\ e.value # "up" THEN e.n ELSE st[k]
  BY <1>2 DEF StampsNow
<1>4. ASSUME NEW a \in Keys, NEW b \in Keys, AheadIn(s, a, b)
      PROVE  a # b /\ (Pends(r, a) \/ Pends(r, b) \/ t[b] = 0 \/ t[a] < t[b])
  <2>1. a # b /\ (Pends(q, a) \/ Pends(q, b) \/ st[b] = 0 \/ st[a] < st[b])
    BY <1>4 DEF InPressOrder
  <2>2. Pends(r, a) \/ t[a] = st[a]
    BY <1>3, <1>p
  <2>3. Pends(r, b) \/ t[b] = st[b]
    BY <1>3, <1>p
  <2>4. (Pends(q, a) => Pends(r, a)) /\ (Pends(q, b) => Pends(r, b))
    BY <1>p
  <2> QED
    BY <2>1, <2>2, <2>3, <2>4
<1> QED
  BY <1>2, <1>4 DEF InPressOrder

LEMMA GrownTracks ==
    ASSUME NEW q, NEW r, NEW e, NEW n, GrowsBy(q, r, e, n), NEW st \in [Keys -> Nat], NEW s, NEW live,
           Tracks(q, s, live, st), e.code \in Keys, e.n \in Nat, \A k \in Keys : st[k] < e.n,
           \A i \in DOMAIN q : q[i].n \in Nat /\ q[i].n < e.n,
           e.value = "down" => e.code \notin live
    PROVE  Tracks(r, s, PressesNow(live, e), StampsNow(st, e))
  BY GrownMatches, GrownPressedOnce, GrownStamped, GrownInPressOrder DEF Tracks

LEMMA DroppedPends ==
    ASSUME NEW q, NEW r, NEW e, NEW n, DropsTo(q, r, e, n), NEW k
    PROVE  Pends(q, k) <=> Pends(r, k) \/ (e.code = k /\ e.value # "up")
<1>1. /\ n \in Nat /\ DOMAIN q = 1 .. n + 1 /\ DOMAIN r = 1 .. n
      /\ \A i \in 1 .. n : r[i] = q[i + 1]
      /\ q[1] = e
  BY DEF DropsTo
<1>2. ASSUME Pends(r, k) PROVE Pends(q, k)
  <2>1. PICK i \in DOMAIN r : r[i].code = k /\ r[i].value # "up"
    BY <1>2 DEF Pends
  <2>2. i + 1 \in DOMAIN q /\ r[i] = q[i + 1]
    BY <1>1
  <2> QED
    BY <2>1, <2>2 DEF Pends
<1>3. e.code = k /\ e.value # "up" => Pends(q, k)
  BY <1>1 DEF Pends
<1>4. ASSUME Pends(q, k) PROVE Pends(r, k) \/ (e.code = k /\ e.value # "up")
  <2>1. PICK i \in DOMAIN q : q[i].code = k /\ q[i].value # "up"
    BY <1>4 DEF Pends
  <2>2. CASE i = 1
    BY <1>1, <2>1, <2>2
  <2>3. CASE i # 1
    <3>1. i - 1 \in DOMAIN r /\ (i - 1) + 1 = i
      BY <1>1, <2>3
    <3>2. r[i - 1] = q[(i - 1) + 1]
      BY <1>1, <3>1
    <3> QED
      BY <2>1, <3>1, <3>2 DEF Pends
  <2> QED
    BY <2>2, <2>3
<1> QED
  BY <1>2, <1>3, <1>4

LEMMA DroppedMatches ==
    ASSUME NEW q, NEW r, NEW e, NEW n, DropsTo(q, r, e, n), NEW s, NEW t, NEW live,
           Matches(q, s, live), e.code \in Keys,
           Elements(t) = IF e.value = "up" THEN Elements(s) \ {e.code} ELSE Elements(s) \cup {e.code}
    PROVE  Matches(r, t, live)
<1>1. /\ n \in Nat /\ DOMAIN q = 1 .. n + 1 /\ DOMAIN r = 1 .. n
      /\ \A i \in 1 .. n : r[i] = q[i + 1]
      /\ q[1] = e
  BY DEF DropsTo
<1>j. \A j \in DOMAIN q : j = 1 \/ (j - 1 \in 1 .. n /\ q[j] = r[j - 1])
  <2> TAKE j \in DOMAIN q
  <2>1. j # 1 => j - 1 \in 1 .. n /\ (j - 1) + 1 = j
    BY <1>1
  <2> QED
    BY <1>1, <2>1
<1>2. ASSUME NEW k \in Keys, NEW i \in DOMAIN r, LastStroke(r, k, i)
      PROVE  k \in live <=> r[i].value # "up"
  <2>1. i + 1 \in DOMAIN q /\ q[i + 1] = r[i]
    BY <1>1
  <2>2. \A j \in DOMAIN q : i + 1 < j => q[j].code # k
    <3> SUFFICES ASSUME NEW j \in DOMAIN q, i + 1 < j PROVE q[j].code # k
      OBVIOUS
    <3>1. j - 1 \in 1 .. n /\ q[j] = r[j - 1] /\ i < j - 1
      BY <1>1, <1>j
    <3> QED
      BY <1>1, <1>2, <3>1 DEF LastStroke
  <2>3. LastStroke(q, k, i + 1)
    BY <1>2, <2>1, <2>2 DEF LastStroke
  <2> QED
    BY <2>1, <2>3 DEF Matches
<1>3. ASSUME NEW k \in Keys, Absent(r, k)
      PROVE  k \in live <=> k \in Elements(t)
  <2>1. \A j \in DOMAIN q : j # 1 => q[j].code # k
    BY <1>1, <1>3, <1>j DEF Absent
  <2>2. CASE e.code = k
    <3>1. LastStroke(q, k, 1) /\ 1 \in DOMAIN q
      <4>1. \A j \in DOMAIN q : 1 < j => j # 1
        BY <1>1
      <4> QED
        BY <1>1, <2>1, <2>2, <4>1 DEF LastStroke
    <3>2. k \in live <=> e.value # "up"
      BY <1>1, <3>1 DEF Matches
    <3> QED
      BY <2>2, <3>2
  <2>3. CASE e.code # k
    <3>1. Absent(q, k)
      BY <1>1, <2>1, <2>3 DEF Absent
    <3>2. k \in live <=> k \in Elements(s)
      BY <3>1 DEF Matches
    <3> QED
      BY <2>3, <3>2
  <2> QED
    BY <2>2, <2>3
<1> QED
  BY <1>2, <1>3 DEF Matches

LEMMA DroppedPressedOnce ==
    ASSUME NEW q, NEW r, NEW e, NEW n, DropsTo(q, r, e, n), NEW s, NEW t, PressedOnce(q, s),
           Elements(t) = IF e.value = "up" THEN Elements(s) \ {e.code} ELSE Elements(s) \cup {e.code}
    PROVE  PressedOnce(r, t) /\ (e.value = "down" => e.code \notin Elements(s))
<1>1. /\ n \in Nat /\ DOMAIN q = 1 .. n + 1 /\ DOMAIN r = 1 .. n
      /\ \A i \in 1 .. n : r[i] = q[i + 1]
      /\ q[1] = e
  BY DEF DropsTo
<1>j. \A j \in DOMAIN q : j = 1 \/ (j - 1 \in 1 .. n /\ q[j] = r[j - 1])
  <2> TAKE j \in DOMAIN q
  <2>1. j # 1 => j - 1 \in 1 .. n /\ (j - 1) + 1 = j
    BY <1>1
  <2> QED
    BY <1>1, <2>1
<1>2. ASSUME e.value = "down" PROVE e.code \notin Elements(s)
  <2>1. 1 \in DOMAIN q /\ \A j \in DOMAIN q : ~(j < 1)
    BY <1>1
  <2> QED
    BY <1>1, <1>2, <2>1 DEF PressedOnce
<1>3. ASSUME NEW i \in DOMAIN r, r[i].value = "down", \A j \in DOMAIN r : j < i => r[j].code # r[i].code
      PROVE  r[i].code \notin Elements(t)
  <2>1. i + 1 \in DOMAIN q /\ q[i + 1] = r[i]
    BY <1>1
  <2>2. \A j \in DOMAIN q : j < i + 1 /\ j # 1 => q[j].code # r[i].code
    <3> SUFFICES ASSUME NEW j \in DOMAIN q, j < i + 1, j # 1 PROVE q[j].code # r[i].code
      OBVIOUS
    <3>1. j - 1 \in DOMAIN r /\ j - 1 < i /\ q[j] = r[j - 1]
      BY <1>1, <1>j
    <3> QED
      BY <1>3, <3>1
  <2>3. CASE e.code = r[i].code
    <3>1. 1 \in DOMAIN q /\ 1 < i + 1
      BY <1>1
    <3>2. \A l \in DOMAIN q : 1 < l /\ l < i + 1 => q[l].code # r[i].code
      <4>1. \A l \in DOMAIN q : 1 < l => l # 1
        BY <1>1
      <4> QED
        BY <2>2, <4>1
    <3>3. e.value = "up"
      <4>1. PICK a \in DOMAIN q : a = i + 1
        BY <2>1
      <4>2. q[a].value = "down" /\ q[1].code = q[a].code /\ 1 < a /\ 1 \in DOMAIN q
        BY <1>1, <1>3, <2>1, <2>3, <3>1, <4>1
      <4>3. \A l \in DOMAIN q : 1 < l /\ l < a => q[l].code # q[a].code
        BY <2>1, <3>2, <4>1
      <4>4. q[1].value = "up"
        BY <4>2, <4>3 DEF PressedOnce
      <4> QED
        BY <1>1, <4>4
    <3> QED
      BY <2>3, <3>3
  <2>4. CASE e.code # r[i].code
    <3>1. \A j \in DOMAIN q : j < i + 1 => q[j].code # r[i].code
      BY <1>1, <2>2, <2>4
    <3>2. r[i].code \notin Elements(s)
      BY <1>3, <2>1, <3>1 DEF PressedOnce
    <3> QED
      BY <2>4, <3>2
  <2> QED
    BY <2>3, <2>4
<1>4. ASSUME NEW i \in DOMAIN r, r[i].value = "down", NEW j \in DOMAIN r, j < i,
             r[j].code = r[i].code, \A l \in DOMAIN r : j < l /\ l < i => r[l].code # r[i].code
      PROVE  r[j].value = "up"
  <2>1. i + 1 \in DOMAIN q /\ q[i + 1] = r[i] /\ j + 1 \in DOMAIN q /\ q[j + 1] = r[j] /\ j + 1 < i + 1
    BY <1>1, <1>4
  <2>2. \A l \in DOMAIN q : j + 1 < l /\ l < i + 1 => q[l].code # r[i].code
    <3> SUFFICES ASSUME NEW l \in DOMAIN q, j + 1 < l, l < i + 1 PROVE q[l].code # r[i].code
      OBVIOUS
    <3>1. l - 1 \in DOMAIN r /\ j < l - 1 /\ l - 1 < i /\ q[l] = r[l - 1]
      BY <1>1, <1>j
    <3> QED
      BY <1>4, <3>1
  <2> QED
    BY <1>4, <2>1, <2>2 DEF PressedOnce
<1> QED
  BY <1>2, <1>3, <1>4 DEF PressedOnce

LEMMA DroppedStamped ==
    ASSUME NEW q, NEW r, NEW e, NEW n, DropsTo(q, r, e, n), NEW st \in [Keys -> Nat], Stamped(q, st),
           \A i \in DOMAIN q : q[i].n \in Nat,
           \A i, j \in DOMAIN q : i < j => q[i].n < q[j].n
    PROVE  Stamped(r, st)
<1>1. /\ n \in Nat /\ DOMAIN q = 1 .. n + 1 /\ DOMAIN r = 1 .. n
      /\ \A i \in 1 .. n : r[i] = q[i + 1]
      /\ q[1] = e
  BY DEF DropsTo
<1>r. \A i \in DOMAIN r : i + 1 \in DOMAIN q /\ r[i] = q[i + 1] /\ e.n < r[i].n /\ r[i].n \in Nat
  <2> TAKE i \in DOMAIN r
  <2>1. i + 1 \in DOMAIN q /\ r[i] = q[i + 1] /\ 1 \in DOMAIN q /\ 1 < i + 1
    BY <1>1
  <2> QED
    BY <1>1, <2>1
<1>p. \A k : Pends(q, k) <=> Pends(r, k) \/ (e.code = k /\ e.value # "up")
  BY DroppedPends
<1>4. ASSUME NEW k \in Keys, Pends(r, k)
      PROVE  \E i \in DOMAIN r : r[i].code = k /\ r[i].value # "up" /\ r[i].n = st[k]
  <2>1. PICK j \in DOMAIN q : q[j].code = k /\ q[j].value # "up" /\ q[j].n = st[k]
    BY <1>4, <1>p DEF Stamped
  <2>2. PICK m \in DOMAIN r : r[m].code = k /\ r[m].value # "up"
    BY <1>4 DEF Pends
  <2>3. r[m].n <= st[k]
    BY <1>r, <2>2 DEF Stamped
  <2>4. j # 1
    BY <1>1, <1>r, <2>1, <2>3
  <2>5. j - 1 \in DOMAIN r /\ (j - 1) + 1 = j
    BY <1>1, <2>4
  <2>6. r[j - 1] = q[j]
    BY <1>r, <2>5
  <2> QED
    BY <2>1, <2>5, <2>6
<1>5. ASSUME NEW k \in Keys, NEW i \in DOMAIN r, r[i].code = k, r[i].value # "up"
      PROVE  r[i].n <= st[k]
  BY <1>5, <1>r DEF Stamped
<1>6. ASSUME NEW k \in Keys, ~Pends(r, k), NEW i \in DOMAIN r
      PROVE  st[k] < r[i].n
  <2>1. CASE Pends(q, k)
    <3>1. PICK j \in DOMAIN q : q[j].code = k /\ q[j].value # "up" /\ q[j].n = st[k]
      BY <2>1 DEF Stamped
    <3>2. j = 1
      <4> SUFFICES ASSUME j # 1 PROVE FALSE
        OBVIOUS
      <4>1. j - 1 \in DOMAIN r /\ (j - 1) + 1 = j
        BY <1>1
      <4>2. r[j - 1] = q[j]
        BY <1>r, <4>1
      <4> QED
        BY <1>6, <3>1, <4>1, <4>2 DEF Pends
    <3> QED
      BY <1>1, <1>r, <3>1, <3>2
  <2>2. CASE ~Pends(q, k)
    BY <1>r, <2>2 DEF Stamped
  <2> QED
    BY <2>1, <2>2
<1> QED
  BY <1>4, <1>5, <1>6 DEF Stamped

LEMMA DroppedInPressOrder ==
    ASSUME NEW q, NEW r, NEW e, NEW n, DropsTo(q, r, e, n), NEW st \in [Keys -> Nat], Stamped(q, st),
           e.code \in Keys, NEW s, NEW t, Stamped(r, st),
           InPressOrder(q, s, st), Elements(s) \subseteq Keys,
           \A i \in DOMAIN q : q[i].n \in Nat,
           \A i, j \in DOMAIN q : i < j => q[i].n < q[j].n,
           \A a, b : AheadIn(t, a, b) =>
                 \/ AheadIn(s, a, b) /\ a # e.code /\ b # e.code
                 \/ b = e.code /\ a # e.code /\ a \in Elements(s) /\ e.value # "up"
    PROVE  InPressOrder(r, t, st)
<1>1. /\ n \in Nat /\ DOMAIN q = 1 .. n + 1 /\ DOMAIN r = 1 .. n
      /\ \A i \in 1 .. n : r[i] = q[i + 1]
      /\ q[1] = e
  BY DEF DropsTo
<1>p. \A k : Pends(q, k) <=> Pends(r, k) \/ (e.code = k /\ e.value # "up")
  BY DroppedPends
<1>2. ASSUME NEW a \in Keys, NEW b \in Keys, AheadIn(s, a, b), a # e.code, b # e.code
      PROVE  a # b /\ (Pends(r, a) \/ Pends(r, b) \/ st[b] = 0 \/ st[a] < st[b])
  BY <1>2, <1>p DEF InPressOrder
<1>3. ASSUME NEW a \in Keys, a # e.code, e.value # "up", ~Pends(r, a), ~Pends(r, e.code)
      PROVE  st[a] < st[e.code]
  <2>1. ~Pends(q, a)
    BY <1>3, <1>p
  <2>2. 1 \in DOMAIN q
    BY <1>1
  <2>3. st[a] < e.n
    BY <1>1, <2>1, <2>2 DEF Stamped
  <2>4. e.n <= st[e.code]
    BY <1>1, <1>3, <2>2 DEF Stamped
  <2>5. st[a] \in Nat /\ st[e.code] \in Nat /\ e.n \in Nat
    BY <1>1, <2>2
  <2> QED
    BY <2>3, <2>4, <2>5
<1>4. ASSUME NEW a \in Keys, NEW b \in Keys, AheadIn(t, a, b)
      PROVE  a # b /\ (Pends(r, a) \/ Pends(r, b) \/ st[b] = 0 \/ st[a] < st[b])
  <2>1. \/ AheadIn(s, a, b) /\ a # e.code /\ b # e.code
        \/ b = e.code /\ a # e.code /\ a \in Elements(s) /\ e.value # "up"
    BY <1>4
  <2> QED
    BY <1>2, <1>3, <2>1
<1> QED
  BY <1>4 DEF InPressOrder

LEMMA DroppedTracks ==
    ASSUME NEW q, NEW r, NEW e \in Event, NEW n, DropsTo(q, r, e, n), NEW st \in [Keys -> Nat],
           NEW s \in Seq(Keys), NEW live, Tracks(q, s, live, st),
           \A i \in DOMAIN q : q[i].n \in Nat,
           \A i, j \in DOMAIN q : i < j => q[i].n < q[j].n
    PROVE  Tracks(r, Recorded(s, e), live, st)
<1>1. Elements(s) \subseteq Keys /\ e.code \in Keys
  BY OfSeq DEF Event
<1>2. Once(s)
  <2> SUFFICES ASSUME NEW a \in Elements(s), AheadIn(s, a, a) PROVE FALSE
    BY DEF Once
  <2>1. a \in Keys
    BY <1>1
  <2> QED
    BY <2>1 DEF Tracks, InPressOrder
<1>3. e.value = "down" => e.code \notin Elements(s)
  <2>1. 1 \in DOMAIN q /\ q[1] = e /\ \A j \in DOMAIN q : ~(j < 1)
    BY DEF DropsTo
  <2> QED
    BY <2>1 DEF Tracks, PressedOnce
<1>4. PICK t : t = Recorded(s, e)
  OBVIOUS
<1>5. /\ Elements(t) = IF e.value = "up" THEN Elements(s) \ {e.code} ELSE Elements(s) \cup {e.code}
      /\ \A a, b : AheadIn(t, a, b) =>
            \/ AheadIn(s, a, b) /\ a # e.code /\ b # e.code
            \/ b = e.code /\ a # e.code /\ a \in Elements(s) /\ e.value # "up"
  BY <1>2, <1>3, <1>4, RecordedAhead
<1>6. Matches(r, t, live)
  BY <1>1, <1>5, DroppedMatches DEF Tracks
<1>7. PressedOnce(r, t)
  BY <1>5, DroppedPressedOnce DEF Tracks
<1>8. Stamped(r, st)
  BY DroppedStamped DEF Tracks
<1>9. InPressOrder(r, t, st)
  BY <1>1, <1>5, <1>8, DroppedInPressOrder DEF Tracks
<1> QED
  BY <1>4, <1>6, <1>7, <1>8, <1>9 DEF Tracks

LEMMA GrowsOf ==
    ASSUME NEW S, NEW q \in Seq(S), NEW e \in S
    PROVE  GrowsBy(q, Append(q, e), e, Len(q))
<1>1. /\ DOMAIN q = 1 .. Len(q) /\ Len(q) \in Nat
      /\ Append(q, e) \in Seq(S) /\ Len(Append(q, e)) = Len(q) + 1
      /\ \A i \in 1 .. Len(q) : Append(q, e)[i] = q[i]
      /\ Append(q, e)[Len(q) + 1] = e
  BY AppendProperties, LenProperties
<1>2. DOMAIN Append(q, e) = 1 .. Len(q) + 1
  BY <1>1, LenProperties
<1> QED
  BY <1>1, <1>2 DEF GrowsBy

LEMMA DropsOf ==
    ASSUME NEW S, NEW r \in Seq(S), NEW e \in S
    PROVE  DropsTo(<< e >> \o r, r, e, Len(r))
<1>1. << e >> \in Seq(S) /\ Len(<< e >>) = 1 /\ << e >>[1] = e /\ DOMAIN << e >> = 1 .. 1
  BY Single
<1>2. DOMAIN r = 1 .. Len(r) /\ Len(r) \in Nat
  BY LenProperties
<1> DEFINE a == << e >>
           q == a \o r
<1>3. Joins(q, a, r)
  <2>1. a \in Seq(S)
    BY <1>1
  <2> HIDE DEF a
  <2> QED
    BY <2>1, ConcatAt
<1>4. Len(a) = 1 /\ a[1] = e /\ DOMAIN a = 1 .. 1
  BY <1>1
<1> HIDE DEF a, q
<1>5. q[1] = e /\ DOMAIN q = 1 .. Len(r) + 1
  <2>1. 1 \in DOMAIN a /\ 1 + Len(r) = Len(r) + 1
    BY <1>2, <1>4
  <2> QED
    BY <1>3, <1>4, <2>1 DEF Joins
<1>6. ASSUME NEW i \in 1 .. Len(r) PROVE r[i] = q[i + 1]
  <2>1. q[1 + i] = r[i]
    BY <1>2, <1>3, <1>4 DEF Joins
  <2>2. 1 + i = i + 1
    BY <1>2
  <2> QED
    BY <2>1, <2>2
<1> QED
  BY <1>2, <1>5, <1>6 DEF DropsTo, q, a

\* The strokes of a device that are still to be recorded.
Unrecorded(d) == (IF collector.dhId = d THEN collector.read ELSE << >>) \o kernel[d]

\* The sink, and not a source, has the device.
AtSink(d) == d \notin sharedDHIds /\ handler # d
Live(d) == down[d] \ heldOver[d]

RecordFits(d) == AtSink(d) => Tracks(Unrecorded(d), keyDownState[d], Live(d), stamp[d])

RecordInv ==
    /\ \A d \in DhIds : RecordFits(d)
    /\ \A d \in DhIds, k \in Keys : stamp[d][k] <= strokes

\* Strokes of one device, of the past, in the order they were made.
StrokesOf(q, d) ==
    /\ \A i \in DOMAIN q : q[i].dhId = d /\ q[i].n \in Nat /\ q[i].n <= strokes /\ q[i].code \in Keys
    /\ \A i, j \in DOMAIN q : i < j => q[i].n < q[j].n

LEMMA UnrecordedIs ==
    ASSUME TypeOK, KeyPlaces, StrokeInv, NEW d \in DhIds
    PROVE  Unrecorded(d) \in Seq(Event) /\ StrokesOf(Unrecorded(d), d)
<1>1. PICK a, b : a = (IF collector.dhId = d THEN collector.read ELSE << >>) /\ b = kernel[d]
  OBVIOUS
<1>2. /\ a \in Seq(Event) /\ b \in Seq(Event)
      /\ Elements(a) \subseteq Elements(collector.read)
      /\ \A e \in Elements(a) \cup Elements(b) : e.dhId = d /\ e.n > 0
  BY <1>1, WayTypes, OfNothing DEF KeyPlaces
<1>3. InOrder(a)
  <2>1. InOrder(<< >>)
    BY OfNothing, InOrderNone DEF Strokeless
  <2> QED
    BY <1>1, <2>1 DEF StrokeInv, PlacesInOrder
<1>4. Elements(b) \subseteq Unread /\ InOrder(b)
  BY <1>1 DEF Unread, StrokeInv, PlacesInOrder
<1>5. Earlier(Elements(a), Elements(b))
  <2>1. Earlier(Elements(collector.read), Unread)
    BY DEF StrokeInv, Way, Lined
  <2> QED
    BY <1>2, <1>4, <2>1 DEF Earlier
<1>6. PICK q : q = a \o b
  OBVIOUS
<1>7. q \in Seq(Event) /\ InOrder(q) /\ Elements(q) = Elements(a) \cup Elements(b)
  BY <1>2, <1>3, <1>4, <1>5, <1>6, InOrderConcat, Concatenated
<1>8. \A i \in DOMAIN q : q[i] \in Elements(q) /\ q[i] \in Event
  <2>1. Elements(q) \subseteq Event
    BY <1>7, OfSeq
  <2> QED
    BY <2>1 DEF Elements
<1>9. \A i \in DOMAIN q : /\ q[i].dhId = d /\ q[i].n \in Nat /\ q[i].n > 0
                          /\ q[i].n <= strokes /\ q[i].code \in Keys
  <2> TAKE i \in DOMAIN q
  <2>1. q[i].dhId = d /\ q[i].n > 0 /\ q[i].n \in Nat /\ q[i].code \in Keys
    BY <1>2, <1>7, <1>8 DEF Event
  <2>2. q[i] \in OnTheWay
    BY <1>2, <1>4, <1>7, <1>8 DEF OnTheWay
  <2> QED
    BY <2>1, <2>2 DEF StrokeInv
<1>10. \A i, j \in DOMAIN q : i < j => q[i].n < q[j].n
  <2>1. \A i, j \in DOMAIN q : i < j /\ q[i].n > 0 /\ q[j].n > 0 /\ q[i].dhId = q[j].dhId => q[i].n < q[j].n
    BY <1>7, InOrderAt
  <2> QED
    BY <1>9, <2>1
<1> QED
  BY <1>1, <1>6, <1>7, <1>9, <1>10 DEF Unrecorded, StrokesOf

LEMMA RecordInvInit == KeyAssumption /\ Init => RecordInv
<1> SUFFICES ASSUME KeyAssumption, Init PROVE RecordInv
  OBVIOUS
<1>1. ASSUME NEW d \in DhIds PROVE RecordFits(d)
  <2>1. down[d] \in SUBSET Keys
    BY DEF Init
  <2>2. down[d] \in SUBSET Int /\ IsFiniteSet(Keys)
    BY <2>1 DEF KeyAssumption, IsFiniteSet
  <2>3. IsFiniteSet(down[d])
    BY <2>1, <2>2, FS_Subset
  <2>4. Sorts(PressedKeys(down[d]), down[d])
    BY <2>2, <2>3, PressedKeysSorted
  <2>5. PICK s : s = keyDownState[d]
    OBVIOUS
  <2>6. Sorts(s, down[d])
    BY <2>4, <2>5 DEF Init
  <2>7. Live(d) = Elements(s)
    <3>1. heldOver[d] = {}
      BY DEF Init
    <3> QED
      BY <2>6, <3>1 DEF Live, Sorts
  <2>8. Unrecorded(d) = << >>
    <3>1. kernel[d] = << >> /\ collector.read = << >>
      BY DEF Init, Idle
    <3> QED
      BY <3>1, OfNothing DEF Unrecorded
  <2>9. PICK st : st = stamp[d]
    OBVIOUS
  <2>10. \A k \in Keys : st[k] = 0
    BY <2>9 DEF Init
  <2>11. DOMAIN << >> = {}
    OBVIOUS
  <2>12. Matches(<< >>, s, Elements(s))
    BY <2>11 DEF Matches
  <2>13. PressedOnce(<< >>, s)
    BY <2>11 DEF PressedOnce
  <2>14. Stamped(<< >>, st)
    BY <2>11 DEF Stamped, Pends
  <2>15. InPressOrder(<< >>, s, st)
    <3> SUFFICES ASSUME NEW a \in Keys, NEW b \in Keys, AheadIn(s, a, b) PROVE a # b /\ st[b] = 0
      BY DEF InPressOrder
    <3>1. a # b
      BY <2>6 DEF AheadIn, Sorts
    <3> QED
      BY <2>10, <3>1
  <2> QED
    BY <2>5, <2>7, <2>8, <2>9, <2>12, <2>13, <2>14, <2>15 DEF RecordFits, Tracks
<1>2. \A d \in DhIds, k \in Keys : stamp[d][k] <= strokes
  BY DEF Init
<1> QED
  BY <1>1, <1>2 DEF RecordInv

LEMMA RecordFrame ==
    ASSUME NEW d, RecordFits(d), AtSink(d)' => AtSink(d), keyDownState'[d] = keyDownState[d],
           Live(d)' = Live(d), stamp'[d] = stamp[d], AtSink(d)' => Unrecorded(d)' = Unrecorded(d)
    PROVE  RecordFits(d)'
<1>1. CASE AtSink(d)'
  <2>1. Tracks(Unrecorded(d), keyDownState[d], Live(d), stamp[d])
    BY <1>1 DEF RecordFits
  <2>2. Tracks(Unrecorded(d)', keyDownState'[d], Live(d)', stamp'[d])
    BY <1>1, <2>1
  <2> QED
    BY <2>2 DEF RecordFits
<1>2. CASE ~AtSink(d)'
  BY <1>2 DEF RecordFits
<1> QED
  BY <1>1, <1>2

\* The effect of a stroke: one more event for the collector, a key that is down or up, and
\* its stamp.
LEMMA StrokesOne ==
    ASSUME Disciplined, KeyAssumption, TypeOK, TurnsInv, NEW d \in DhIds, NEW k \in Keys,
           Press(d, k) \/ Release(d, k) \/ Repeat(d, k)
    PROVE  \E e \in Event :
             /\ e.dhId = d /\ e.code = k /\ e.n = strokes + 1 /\ strokes' = strokes + 1
             /\ kernel' = [kernel EXCEPT ![d] = Append(@, e)]
             /\ UNCHANGED << collector, keyDownState, sharedDHIds, handler >>
             /\ stamp' = [stamp EXCEPT ![d] = StampsNow(@, e)]
             /\ e.value = "down" => k \notin Live(d)
             /\ AtSink(d) => Live(d)' = PressesNow(Live(d), e)
             /\ d \in sharedDHIds => Live(d)' = IF e.value = "repeat" THEN Live(d) ELSE PressesNow(Live(d), e)
             /\ \A c \in DhIds : c # d => Live(c)' = Live(c)
<1>t. /\ down \in [DhIds -> SUBSET Keys] /\ heldOver \in [DhIds -> SUBSET Keys]
      /\ stamp \in [DhIds -> [Keys -> Nat]] /\ strokes \in Nat
  BY DEF TypeOK
<1>h. heldOver[d] \subseteq down[d]
  BY DEF TurnsInv, HeldAreDown
<1>1. ASSUME NEW v \in {"down", "up", "repeat"}, Stroke(d, k, v),
             NEW e, e = [dhId |-> d, code |-> k, value |-> v, n |-> strokes + 1]
      PROVE  /\ e \in Event /\ e.dhId = d /\ e.code = k /\ e.n = strokes + 1 /\ e.value = v
             /\ kernel' = [kernel EXCEPT ![d] = Append(@, e)] /\ strokes' = strokes + 1
             /\ UNCHANGED << collector, keyDownState, sharedDHIds, handler >>
             /\ handler = None
  <2>1. strokes + 1 \in Nat
    BY <1>t
  <2>2. e \in Event
    BY <1>1, <2>1 DEF Event
  <2>3. /\ kernel' = [kernel EXCEPT ![d] = Append(@, e)] /\ strokes' = strokes + 1
        /\ UNCHANGED << collector, keyDownState, sharedDHIds, handler >>
    BY <1>1 DEF Stroke, sinkVars, stateVars
  <2>4. handler = None
    BY <1>1 DEF Stroke, ControlSettled
  <2> QED
    BY <1>1, <2>2, <2>3, <2>4
<1>2. CASE Press(d, k)
  <2>1. PICK e : e = [dhId |-> d, code |-> k, value |-> "down", n |-> strokes + 1]
    OBVIOUS
  <2>2. /\ Stroke(d, k, "down") /\ down' = [down EXCEPT ![d] = @ \cup {k}] /\ k \notin down[d]
        /\ stamp' = [stamp EXCEPT ![d][k] = strokes + 1] /\ heldOver' = heldOver
    BY <1>2 DEF Press
  <2>3. /\ e \in Event /\ e.dhId = d /\ e.code = k /\ e.n = strokes + 1 /\ e.value = "down"
        /\ kernel' = [kernel EXCEPT ![d] = Append(@, e)] /\ strokes' = strokes + 1
        /\ UNCHANGED << collector, keyDownState, sharedDHIds, handler >>
    BY <1>1, <2>1, <2>2
  <2>4. stamp' = [stamp EXCEPT ![d] = StampsNow(@, e)]
    BY <1>t, <2>2, <2>3 DEF StampsNow
  <2>5. down'[d] = down[d] \cup {k} /\ \A c \in DhIds : c # d => down'[c] = down[c]
    BY <1>t, <2>2
  <2>6. Live(d)' = PressesNow(Live(d), e) /\ k \notin Live(d)
    BY <1>h, <2>2, <2>3, <2>5 DEF Live, PressesNow
  <2>7. \A c \in DhIds : c # d => Live(c)' = Live(c)
    BY <2>2, <2>5 DEF Live
  <2>9. e.value # "repeat"
    BY <2>3
  <2> QED
    BY <2>3, <2>4, <2>6, <2>7, <2>9
<1>3. CASE Release(d, k)
  <2>1. PICK e : e = [dhId |-> d, code |-> k, value |-> "up", n |-> strokes + 1]
    OBVIOUS
  <2>2. /\ Stroke(d, k, "up") /\ down' = [down EXCEPT ![d] = @ \ {k}]
        /\ stamp' = stamp /\ heldOver' = [heldOver EXCEPT ![d] = @ \ {k}]
    BY <1>3 DEF Release
  <2>3. /\ e \in Event /\ e.dhId = d /\ e.code = k /\ e.n = strokes + 1 /\ e.value = "up"
        /\ kernel' = [kernel EXCEPT ![d] = Append(@, e)] /\ strokes' = strokes + 1
        /\ UNCHANGED << collector, keyDownState, sharedDHIds, handler >>
    BY <1>1, <2>1, <2>2
  <2>4. stamp' = [stamp EXCEPT ![d] = StampsNow(@, e)]
    BY <1>t, <2>2, <2>3 DEF StampsNow
  <2>5. /\ down'[d] = down[d] \ {k} /\ \A c \in DhIds : c # d => down'[c] = down[c]
        /\ heldOver'[d] = heldOver[d] \ {k} /\ \A c \in DhIds : c # d => heldOver'[c] = heldOver[c]
    BY <1>t, <2>2
  <2>6. Live(d)' = PressesNow(Live(d), e)
    BY <1>h, <2>2, <2>3, <2>5 DEF Live, PressesNow
  <2>7. \A c \in DhIds : c # d => Live(c)' = Live(c)
    BY <2>2, <2>5 DEF Live
  <2>8. e.value # "down" /\ e.value # "repeat"
    BY <2>3
  <2> QED
    BY <2>3, <2>4, <2>6, <2>7, <2>8
<1>4. CASE Repeat(d, k)
  <2>1. PICK e : e = [dhId |-> d, code |-> k, value |-> "repeat", n |-> strokes + 1]
    OBVIOUS
  <2>2. /\ Stroke(d, k, "repeat") /\ down' = down /\ k \in down[d]
        /\ stamp' = [stamp EXCEPT ![d][k] = strokes + 1]
        /\ heldOver' = [heldOver EXCEPT ![d] = IF d \in sharedDHIds THEN @ ELSE @ \ {k}]
    BY <1>4 DEF Repeat
  <2>3. /\ e \in Event /\ e.dhId = d /\ e.code = k /\ e.n = strokes + 1 /\ e.value = "repeat"
        /\ kernel' = [kernel EXCEPT ![d] = Append(@, e)] /\ strokes' = strokes + 1
        /\ UNCHANGED << collector, keyDownState, sharedDHIds, handler >>
    BY <1>1, <2>1, <2>2
  <2>4. stamp' = [stamp EXCEPT ![d] = StampsNow(@, e)]
    BY <1>t, <2>2, <2>3 DEF StampsNow
  <2>5. /\ d \notin sharedDHIds => heldOver'[d] = heldOver[d] \ {k}
        /\ \A c \in DhIds : c # d => heldOver'[c] = heldOver[c]
    BY <1>t, <2>2
  <2>6. AtSink(d) => Live(d)' = PressesNow(Live(d), e)
    BY <1>h, <2>2, <2>3, <2>5 DEF Live, PressesNow, AtSink
  <2>7. \A c \in DhIds : c # d => Live(c)' = Live(c)
    BY <2>2, <2>5 DEF Live
  <2>8. e.value # "down"
    BY <2>3
  <2>9. d \in sharedDHIds => Live(d)' = Live(d)
    <3>1. d \in sharedDHIds => heldOver'[d] = heldOver[d]
      BY <1>t, <2>2
    <3> QED
      BY <2>2, <3>1 DEF Live
  <2> QED
    BY <2>3, <2>4, <2>6, <2>7, <2>8, <2>9
<1> QED
  BY <1>2, <1>3, <1>4

LEMMA UnrecordedGrows ==
    ASSUME TypeOK, NEW d \in DhIds, NEW e \in Event, UNCHANGED collector,
           kernel' = [kernel EXCEPT ![d] = Append(@, e)]
    PROVE  Unrecorded(d)' = Append(Unrecorded(d), e)
<1>1. kernel'[d] = Append(kernel[d], e)
  BY DEF TypeOK
<1>2. PICK a : a = (IF collector.dhId = d THEN collector.read ELSE << >>)
  OBVIOUS
<1>3. a \in Seq(Event) /\ kernel[d] \in Seq(Event)
  BY <1>2, WayTypes, OfNothing
<1>4. << e >> \in Seq(Event)
  BY Single
<1>5. a \o Append(kernel[d], e) = Append(a \o kernel[d], e)
  <2>1. Append(kernel[d], e) = kernel[d] \o << e >>
    BY <1>3, AppendIsConcat
  <2>2. a \o kernel[d] \in Seq(Event)
    BY <1>3, ConcatProperties
  <2>3. Append(a \o kernel[d], e) = (a \o kernel[d]) \o << e >>
    BY <2>2, AppendIsConcat
  <2>4. a \o (kernel[d] \o << e >>) = (a \o kernel[d]) \o << e >>
    <3>1. ASSUME NEW x \in Seq(Event), NEW y \in Seq(Event), NEW z \in Seq(Event)
          PROVE  x \o (y \o z) = (x \o y) \o z
      BY ConcatAssociative
    <3> QED
      BY <1>3, <1>4, <3>1, Zenon
  <2> QED
    BY <2>1, <2>3, <2>4
<1>6. Unrecorded(d)' = a \o kernel'[d] /\ Unrecorded(d) = a \o kernel[d]
  BY <1>2 DEF Unrecorded
<1> QED
  BY <1>1, <1>5, <1>6

LEMMA RecordInvStroke ==
    ASSUME Disciplined, KeyAssumption, TypeOK, KeyPlaces, StrokeInv, TurnsInv, RecordInv,
           NEW d \in DhIds, NEW k \in Keys,
           Press(d, k) \/ Release(d, k) \/ Repeat(d, k)
    PROVE  RecordInv'
<1>1. PICK e \in Event :
         /\ e.dhId = d /\ e.code = k /\ e.n = strokes + 1 /\ strokes' = strokes + 1
         /\ kernel' = [kernel EXCEPT ![d] = Append(@, e)]
         /\ UNCHANGED << collector, keyDownState, sharedDHIds, handler >>
         /\ stamp' = [stamp EXCEPT ![d] = StampsNow(@, e)]
         /\ e.value = "down" => k \notin Live(d)
         /\ AtSink(d) => Live(d)' = PressesNow(Live(d), e)
         /\ \A c \in DhIds : c # d => Live(c)' = Live(c)
  BY StrokesOne
<1>t. stamp \in [DhIds -> [Keys -> Nat]] /\ strokes \in Nat /\ kernel \in [DhIds -> Seq(Event)]
  BY DEF TypeOK
<1>a. \A c : AtSink(c)' = AtSink(c)
  BY <1>1 DEF AtSink
<1>2. ASSUME NEW c \in DhIds, c # d PROVE RecordFits(c)'
  <2>1. kernel'[c] = kernel[c] /\ stamp'[c] = stamp[c]
    BY <1>1, <1>2, <1>t
  <2>2. Unrecorded(c)' = Unrecorded(c)
    BY <1>1, <2>1 DEF Unrecorded
  <2>3. RecordFits(c) /\ Live(c)' = Live(c) /\ keyDownState'[c] = keyDownState[c] /\ AtSink(c)' = AtSink(c)
    BY <1>1, <1>2, <1>a DEF RecordInv
  <2> QED
    BY <2>1, <2>2, <2>3, RecordFrame
<1>3. ASSUME AtSink(d) PROVE RecordFits(d)'
  <2>1. PICK q, s, live, st : q = Unrecorded(d) /\ s = keyDownState[d] /\ live = Live(d) /\ st = stamp[d]
    OBVIOUS
  <2>2. Tracks(q, s, live, st)
    BY <1>3, <2>1 DEF RecordInv, RecordFits
  <2>3. q \in Seq(Event) /\ StrokesOf(q, d)
    BY <2>1, UnrecordedIs
  <2>4. st \in [Keys -> Nat] /\ \A l \in Keys : st[l] <= strokes
    BY <1>t, <2>1 DEF RecordInv
  <2>5. Unrecorded(d)' = Append(q, e)
    BY <1>1, <2>1, UnrecordedGrows
  <2>6. GrowsBy(q, Append(q, e), e, Len(q))
    BY <2>3, GrowsOf
  <2>7. \A l \in Keys : st[l] < e.n
    <3> SUFFICES ASSUME NEW l \in Keys PROVE st[l] < e.n
      OBVIOUS
    <3>1. st[l] \in Nat /\ st[l] <= strokes
      BY <2>4
    <3> QED
      BY <1>1, <1>t, <3>1
  <2>8. \A i \in DOMAIN q : q[i].n \in Nat /\ q[i].n < e.n
    BY <1>1, <1>t, <2>3 DEF StrokesOf
  <2>9. e.code \in Keys /\ e.n \in Nat /\ (e.value = "down" => e.code \notin live)
    BY <1>1, <2>1, <1>t
  <2>10. Tracks(Append(q, e), s, PressesNow(live, e), StampsNow(st, e))
    BY <2>2, <2>4, <2>6, <2>7, <2>8, <2>9, GrownTracks
  <2>11. /\ keyDownState'[d] = s /\ Live(d)' = PressesNow(live, e) /\ stamp'[d] = StampsNow(st, e)
    BY <1>1, <1>3, <1>t, <2>1
  <2> QED
    BY <2>5, <2>10, <2>11 DEF RecordFits
<1>4. RecordFits(d)'
  <2>1. CASE AtSink(d)
    BY <1>3, <2>1
  <2>2. CASE ~AtSink(d)
    BY <1>a, <2>2 DEF RecordFits
  <2> QED
    BY <2>1, <2>2
<1>5. \A c \in DhIds, l \in Keys : stamp'[c][l] <= strokes'
  <2> SUFFICES ASSUME NEW c \in DhIds, NEW l \in Keys PROVE stamp'[c][l] <= strokes'
    OBVIOUS
  <2>1. stamp[c] \in [Keys -> Nat] /\ stamp[c][l] \in Nat /\ stamp[c][l] <= strokes
    BY <1>t DEF RecordInv
  <2>2. CASE c # d
    BY <1>1, <1>t, <2>1, <2>2
  <2>3. CASE c = d
    <3>1. stamp'[c] = StampsNow(stamp[c], e)
      BY <1>1, <1>t, <2>3
    <3>2. StampsNow(stamp[c], e)[l] = stamp[c][l] \/ StampsNow(stamp[c], e)[l] = e.n
      BY <2>1 DEF StampsNow
    <3> QED
      BY <1>1, <1>t, <2>1, <3>1, <3>2
  <2> QED
    BY <2>2, <2>3
<1> QED
  BY <1>2, <1>4, <1>5 DEF RecordInv

LEMMA RecordInvRecord ==
    ASSUME Disciplined, KeyAssumption, TypeOK, KeyPlaces, StrokeInv, TurnsInv, RecordInv,
           RecordEvent
    PROVE  RecordInv'
<1>1. PICK e \in Event, t \in Seq(Event), x \in Seq(Event) :
         /\ collector.read # << >> /\ collector.read = << e >> \o t /\ e = Head(collector.read)
         /\ collector' = [collector EXCEPT !.read = t]
         /\ keyDownState' = [keyDownState EXCEPT ![e.dhId] = Recorded(@, e)]
  BY RecordsOne
<1>2. UNCHANGED << kernel, down, heldOver, stamp, strokes, sharedDHIds, handler >>
  BY DEF RecordEvent, userVars
<1>t. stamp \in [DhIds -> [Keys -> Nat]] /\ keyDownState \in [DhIds -> Seq(Keys)]
  BY DEF TypeOK
<1>3. e.dhId = collector.dhId
  <2>1. collector.read \in Seq(Event)
    BY DEF TypeOK
  <2>2. e \in Elements(collector.read)
    BY <1>1, <2>1, OfTail
  <2> QED
    BY <2>2 DEF KeyPlaces
<1>4. collector'.dhId = collector.dhId /\ collector'.read = t
  BY <1>1 DEF TypeOK
<1>5. ASSUME NEW c \in DhIds, c # e.dhId PROVE RecordFits(c)'
  <2>1. keyDownState'[c] = keyDownState[c]
    BY <1>1, <1>5, <1>t
  <2>2. Unrecorded(c)' = Unrecorded(c) /\ Live(c)' = Live(c) /\ AtSink(c)' = AtSink(c) /\ stamp'[c] = stamp[c]
    BY <1>2, <1>3, <1>4, <1>5 DEF Unrecorded, Live, AtSink
  <2>3. RecordFits(c)
    BY DEF RecordInv
  <2> QED
    BY <2>1, <2>2, <2>3, RecordFrame
<1>6. ASSUME NEW d \in DhIds, d = e.dhId, AtSink(d) PROVE RecordFits(d)'
  <2>1. PICK q, s, live, st : q = Unrecorded(d) /\ s = keyDownState[d] /\ live = Live(d) /\ st = stamp[d]
    OBVIOUS
  <2>2. Tracks(q, s, live, st)
    BY <1>6, <2>1 DEF RecordInv, RecordFits
  <2>3. StrokesOf(q, d)
    BY <2>1, UnrecordedIs
  <2>4. st \in [Keys -> Nat] /\ s \in Seq(Keys)
    BY <1>t, <2>1
  <2>5. PICK r : r = t \o kernel[d]
    OBVIOUS
  <2>6. r \in Seq(Event) /\ q = << e >> \o r
    <3>1. << e >> \in Seq(Event) /\ kernel[d] \in Seq(Event)
      BY Single DEF TypeOK
    <3>2. t \o kernel[d] \in Seq(Event)
      BY <3>1, ConcatProperties
    <3>3. (<< e >> \o t) \o kernel[d] = << e >> \o (t \o kernel[d])
      <4>1. PICK x1, z : x1 = << e >> /\ z = kernel[d]
        OBVIOUS
      <4>2. Associates(x1, t, z)
        BY <3>1, <4>1, ConcatAssociates
      <4> QED
        BY <4>1, <4>2, Zenon DEF Associates
    <3> QED
      BY <1>1, <1>3, <1>6, <2>1, <2>5, <3>2, <3>3 DEF Unrecorded
  <2>7. Unrecorded(d)' = r
    BY <1>2, <1>3, <1>4, <1>6, <2>5 DEF Unrecorded
  <2>8. DropsTo(q, r, e, Len(r))
    BY <2>6, DropsOf
  <2>9. /\ \A i \in DOMAIN q : q[i].n \in Nat
        /\ \A i, j \in DOMAIN q : i < j => q[i].n < q[j].n
    BY <2>3 DEF StrokesOf
  <2>10. Tracks(r, Recorded(s, e), live, st)
    BY <2>2, <2>4, <2>8, <2>9, DroppedTracks
  <2>11. keyDownState'[d] = Recorded(s, e) /\ Live(d)' = live /\ stamp'[d] = st
    BY <1>1, <1>2, <1>6, <1>t, <2>1 DEF Live
  <2> QED
    BY <2>7, <2>10, <2>11 DEF RecordFits
<1>7. ASSUME NEW c \in DhIds PROVE RecordFits(c)'
  <2>1. CASE c # e.dhId
    BY <1>5, <2>1
  <2>2. CASE c = e.dhId /\ AtSink(c)
    BY <1>6, <2>2
  <2>3. CASE ~AtSink(c)
    <3>1. ~AtSink(c)'
      BY <1>2, <2>3 DEF AtSink
    <3> QED
      BY <3>1 DEF RecordFits
  <2> QED
    BY <2>1, <2>2, <2>3
<1> QED
  BY <1>2, <1>7 DEF RecordInv

\* The other steps neither change what is down nor what is still to be recorded, or take
\* the device from the sink.
LEMMA RecordInvElse ==
    ASSUME RecordInv, UNCHANGED << down, heldOver, keyDownState, stamp, strokes >>,
           \A d \in DhIds : AtSink(d)' => AtSink(d) /\ Unrecorded(d)' = Unrecorded(d)
    PROVE  RecordInv'
<1>1. \A d \in DhIds : Live(d)' = Live(d)
  BY DEF Live
<1>2. ASSUME NEW d \in DhIds PROVE RecordFits(d)'
  <2>1. RecordFits(d)
    BY DEF RecordInv
  <2> QED
    BY <1>1, <2>1, RecordFrame
<1> QED
  BY <1>2 DEF RecordInv

LEMMA RecordInvStart ==
    ASSUME KeyAssumption, TypeOK, TurnsInv, RecordInv, StartRecordDhIds
    PROVE  RecordInv'
<1>1. PICK d \in DhIds : /\ handler = None /\ handler' = d
                         /\ keyDownState' = [keyDownState EXCEPT ![d] = << >>]
  BY StartsAt
<1>2. UNCHANGED << kernel, collector, down, heldOver, stamp, strokes, sharedDHIds >>
  BY DEF StartRecordDhIds, userVars
<1>3. ASSUME NEW c \in DhIds PROVE RecordFits(c)'
  <2>1. CASE c = d
    BY <1>1, <2>1 DEF RecordFits, AtSink
  <2>2. CASE c # d
    <3>1. keyDownState'[c] = keyDownState[c] /\ c # None
      BY <1>1, <2>2, NoDevice DEF TypeOK
    <3>2. Unrecorded(c)' = Unrecorded(c) /\ Live(c)' = Live(c) /\ stamp'[c] = stamp[c]
      BY <1>2 DEF Unrecorded, Live
    <3>3. AtSink(c)' => AtSink(c)
      BY <1>1, <1>2, <3>1 DEF AtSink
    <3>4. RecordFits(c)
      BY DEF RecordInv
    <3> QED
      BY <3>1, <3>2, <3>3, <3>4, RecordFrame
  <2> QED
    BY <2>1, <2>2
<1> QED
  BY <1>2, <1>3 DEF RecordInv

\* A device that was shared comes back with nothing to record and nothing down to be
\* recorded: what is down is held over.
LEMMA RecordInvStop ==
    ASSUME KeyAssumption, TypeOK, TurnsInv, RecordInv, StopRemoteInputDhid
    PROVE  RecordInv'
<1>1. PICK d : /\ sharedDHIds' = sharedDHIds \ {d}
               /\ heldOver' = [heldOver EXCEPT ![d] = IF d \in sharedDHIds THEN down[d] ELSE @]
  BY DEF StopRemoteInputDhid
<1>2. /\ UNCHANGED << kernel, collector, down, stamp, strokes, handler, keyDownState >>
      /\ handler = None /\ toSink # << >>
  BY DEF StopRemoteInputDhid, NextRequest, userVars
<1>3. Quiet
  BY <1>2 DEF TurnsInv, TakeTurns, Control
<1>t. heldOver \in [DhIds -> SUBSET Keys]
  BY DEF TypeOK
<1>4. ASSUME NEW c \in DhIds, c \notin sharedDHIds \/ c # d PROVE RecordFits(c)'
  <2>1. heldOver'[c] = heldOver[c]
    BY <1>1, <1>4, <1>t
  <2>2. Unrecorded(c)' = Unrecorded(c) /\ Live(c)' = Live(c) /\ stamp'[c] = stamp[c]
    BY <1>2, <2>1 DEF Unrecorded, Live
  <2>3. AtSink(c)' => AtSink(c)
    BY <1>1, <1>2, <1>4 DEF AtSink
  <2>4. RecordFits(c) /\ keyDownState'[c] = keyDownState[c]
    BY <1>2 DEF RecordInv
  <2> QED
    BY <2>2, <2>3, <2>4, RecordFrame
<1>5. ASSUME NEW c \in DhIds, c \in sharedDHIds, c = d PROVE RecordFits(c)'
  <2>1. Live(c)' = {}
    <3>1. heldOver'[c] = down'[c]
      BY <1>1, <1>2, <1>5, <1>t
    <3> QED
      BY <3>1 DEF Live
  <2>2. Unrecorded(c)' = << >>
    <3>1. kernel[c] = << >> /\ collector.read = << >>
      BY <1>3 DEF Quiet, Idle
    <3> QED
      BY <1>2, <3>1, OfNothing DEF Unrecorded
  <2>3. keyDownState'[c] = << >>
    BY <1>2, <1>5 DEF TurnsInv, SharedApart
  <2>4. PICK st : st = stamp'[c]
    OBVIOUS
  <2>5. DOMAIN << >> = {} /\ Elements(<< >>) = {}
    BY OfNothing
  <2>6. Matches(<< >>, << >>, {})
    BY <2>5 DEF Matches
  <2>7. PressedOnce(<< >>, << >>)
    BY <2>5 DEF PressedOnce
  <2>8. Stamped(<< >>, st)
    BY <2>5 DEF Stamped, Pends
  <2>9. InPressOrder(<< >>, << >>, st)
    BY <2>5 DEF InPressOrder, AheadIn
  <2> QED
    BY <2>1, <2>2, <2>3, <2>4, <2>6, <2>7, <2>8, <2>9 DEF RecordFits, Tracks
<1> QED
  BY <1>2, <1>4, <1>5 DEF RecordInv

\* The collector takes strokes from the kernel's buffer and lets the last one go, or posts
\* those of a shared device.
LEMMA CollectsOn ==
    ASSUME KeyAssumption, TypeOK, NEW c \in DhIds,
           (\E d \in DhIds : ReadEvents(d)) \/ CheckShared \/ RecordedAll,
           CheckShared /\ collector.dhId \in sharedDHIds => c # collector.dhId
    PROVE  Unrecorded(c)' = Unrecorded(c)
<1>0. Idle.dhId = None /\ Idle.read = << >> /\ c # None
  BY NoDevice DEF Idle
<1>t. kernel \in [DhIds -> Seq(Event)] /\ collector.read \in Seq(Event)
  BY DEF TypeOK
<1>n. << >> \o kernel[c] = kernel[c] /\ kernel[c] \o << >> = kernel[c] /\ << >> \o << >> = << >>
  BY <1>t, ConcatEmptySeq, OfNothing
<1>1. ASSUME NEW d \in DhIds, ReadEvents(d) PROVE Unrecorded(c)' = Unrecorded(c)
  <2>1. /\ collector = Idle /\ kernel' = [kernel EXCEPT ![d] = << >>]
        /\ collector'.dhId = d /\ collector'.read = kernel[d]
    BY <1>1 DEF ReadEvents
  <2>2. CASE c = d
    <3>1. kernel'[c] = << >>
      BY <1>t, <2>1, <2>2
    <3> QED
      BY <1>0, <1>n, <2>1, <2>2, <3>1 DEF Unrecorded
  <2>3. CASE c # d
    <3>1. kernel'[c] = kernel[c]
      BY <1>t, <2>1, <2>3
    <3> QED
      BY <1>0, <1>n, <2>1, <2>3, <3>1 DEF Unrecorded
  <2> QED
    BY <2>2, <2>3
<1>2. CASE CheckShared
  <2>1. kernel' = kernel
    BY <1>2 DEF CheckShared, userVars
  <2>2. CASE collector.dhId \in sharedDHIds
    <3>1. collector' = Idle /\ c # collector.dhId
      BY <1>2, <2>2 DEF CheckShared
    <3> QED
      BY <1>0, <2>1, <3>1 DEF Unrecorded
  <2>3. CASE collector.dhId \notin sharedDHIds
    <3>1. collector'.dhId = collector.dhId /\ collector'.read = collector.read
      BY <1>2, <2>3 DEF CheckShared, TypeOK
    <3> QED
      BY <2>1, <3>1 DEF Unrecorded
  <2> QED
    BY <2>2, <2>3
<1>3. CASE RecordedAll
  <2>1. kernel' = kernel /\ collector.read = << >> /\ collector' = Idle
    BY <1>3 DEF RecordedAll, userVars
  <2> QED
    BY <1>0, <2>1 DEF Unrecorded
<1> QED
  BY <1>1, <1>2, <1>3

LEMMA RecordInvCollect ==
    ASSUME KeyAssumption, TypeOK, KeyPlaces, RecordInv,
           (\E d \in DhIds : ReadEvents(d)) \/ CheckShared \/ RecordedAll
    PROVE  RecordInv'
<1>1. /\ UNCHANGED << down, heldOver, keyDownState, stamp, strokes, sharedDHIds, handler >>
      /\ \A d : AtSink(d)' = AtSink(d)
  BY DEF ReadEvents, CheckShared, RecordedAll, userVars, stateVars, AtSink
<1>2. ASSUME NEW c \in DhIds, AtSink(c) PROVE Unrecorded(c)' = Unrecorded(c)
  <2>1. collector.dhId \in sharedDHIds => c # collector.dhId
    BY <1>2 DEF AtSink
  <2> QED
    BY <2>1, CollectsOn
<1>3. \A c \in DhIds : AtSink(c)' => AtSink(c) /\ Unrecorded(c)' = Unrecorded(c)
  BY <1>1, <1>2
<1> QED
  BY <1>1, <1>3, RecordInvElse

LEMMA RecordInvStep ==
    ASSUME Disciplined, KeyAssumption, TypeOK, KeyPlaces, StrokeInv, TurnsInv, RecordInv,
           [Next]_vars
    PROVE  RecordInv'
<1>1. ASSUME NEW d \in DhIds, NEW k \in Keys,
             Press(d, k) \/ Release(d, k) \/ Repeat(d, k)
      PROVE  RecordInv'
  BY <1>1, RecordInvStroke
<1>2. CASE (\E d \in DhIds : ReadEvents(d)) \/ CheckShared \/ RecordedAll
  BY <1>2, RecordInvCollect
<1>3. CASE RecordEvent
  BY <1>3, RecordInvRecord
<1>4. CASE StartRecordDhIds
  BY <1>4, RecordInvStart
<1>5. CASE StopRemoteInputDhid
  BY <1>5, RecordInvStop
<1>6. ASSUME UNCHANGED << down, heldOver, keyDownState, stamp, strokes, kernel, collector >>,
             \A d \in DhIds : AtSink(d)' => AtSink(d)
      PROVE  RecordInv'
  <2>1. \A d \in DhIds : Unrecorded(d)' = Unrecorded(d)
    BY <1>6 DEF Unrecorded
  <2> QED
    BY <1>6, <2>1, RecordInvElse
<1>7. CASE StartSetSharing
  <2>1. UNCHANGED << down, heldOver, keyDownState, stamp, strokes, kernel, collector >>
    BY <1>7 DEF StartSetSharing, userVars, stateVars
  <2>2. sharedDHIds' = sharedDHIds \cup {handler}
    BY <1>7 DEF StartSetSharing
  <2>3. \A d \in DhIds : AtSink(d)' => AtSink(d)
    BY <2>2 DEF AtSink
  <2> QED
    BY <1>6, <2>1, <2>3
<1>8. CASE \/ SendEvents \/ SendStop \/ ReceiveFromSink
           \/ RunKeyStateCallback \/ InjectInputEvent
           \/ \E d \in DhIds : StartRemoteInput(d) \/ StopRemoteInput(d)
  <2>1. UNCHANGED << down, heldOver, keyDownState, stamp, strokes, kernel, collector >>
    BY <1>8 DEF SendEvents, SendStop, ReceiveFromSink, RunKeyStateCallback,
       InjectInputEvent, StartRemoteInput, StopRemoteInput, userVars, stateVars, sinkVars
  <2>2. UNCHANGED << sharedDHIds, handler >>
    BY <1>8 DEF SendEvents, SendStop, ReceiveFromSink, RunKeyStateCallback,
       InjectInputEvent, StartRemoteInput, StopRemoteInput, sinkVars
  <2>3. \A d \in DhIds : AtSink(d)' => AtSink(d)
    BY <2>2 DEF AtSink
  <2> QED
    BY <1>6, <2>1, <2>3
<1>9. CASE UNCHANGED vars
  <2>1. UNCHANGED << down, heldOver, keyDownState, stamp, strokes, kernel, collector, sharedDHIds, handler >>
    BY <1>9 DEF vars, userVars, stateVars, sinkVars
  <2>2. \A d \in DhIds : AtSink(d)' => AtSink(d)
    BY <2>1 DEF AtSink
  <2> QED
    BY <1>6, <2>1, <2>2
<1> QED
  BY <1>1, <1>2, <1>3, <1>4, <1>5, <1>7, <1>8, <1>9 DEF Next

RecordedInv == KeysInv /\ TurnsInv /\ RecordInv

LEMMA RecordedInvHolds ==
    ASSUME KeyAssumption, Disciplined
    PROVE  Spec => []RecordedInv
<1>1. Init => RecordedInv
  BY KeyTypesInit, KeyPlacesInit, StrokeInvInit, TurnsInit, RecordInvInit
     DEF RecordedInv, KeysInv, TurnsInv
<1>2. RecordedInv /\ [Next]_vars => RecordedInv'
  BY KeyTypesStep, KeyPlacesStep, StrokeInvStep, TurnsStep, RecordInvStep DEF RecordedInv, KeysInv
<1> QED
  BY <1>1, <1>2, PTL DEF Spec

\* With nothing left to record, the record is the keys that are down.
LEMMA RecordIsWhole ==
    ASSUME RecordedInv, NEW d \in DhIds, kernel[d] = << >>, collector.dhId # d
    PROVE  /\ AtSink(d) => /\ Tracks(<< >>, keyDownState[d], Live(d), stamp[d])
                           /\ Elements(keyDownState[d]) = Live(d)
           /\ ~AtSink(d) => keyDownState[d] = << >>
<1>1. Unrecorded(d) = << >>
  BY OfNothing DEF Unrecorded
<1>2. ASSUME AtSink(d) PROVE Tracks(<< >>, keyDownState[d], Live(d), stamp[d])
  BY <1>1, <1>2 DEF RecordedInv, RecordInv, RecordFits
<1>3. ASSUME AtSink(d) PROVE Elements(keyDownState[d]) = Live(d)
  <2>1. \A k \in Keys : k \in Live(d) <=> k \in Elements(keyDownState[d])
    <3>1. Matches(<< >>, keyDownState[d], Live(d))
      BY <1>2, <1>3 DEF Tracks
    <3>2. \A k \in Keys : Absent(<< >>, k)
      BY DEF Absent
    <3> QED
      BY <3>1, <3>2 DEF Matches
  <2>2. Live(d) \subseteq Keys /\ keyDownState[d] \in Seq(Keys)
    BY DEF RecordedInv, KeysInv, TypeOK, Live
  <2>3. Elements(keyDownState[d]) \subseteq Keys
    BY <2>2, OfSeq
  <2> QED
    BY <2>1, <2>2, <2>3
<1>4. ~AtSink(d) => keyDownState[d] = << >>
  BY DEF RecordedInv, TurnsInv, SharedApart, AtSink
<1> QED
  BY <1>2, <1>3, <1>4

\* In disciplined use, the record of a device has its keys in the order in which they were
\* last pressed or repeated, each once, however strokes and requests alternate.
THEOREM RecordKeepsPressOrder ==
    ASSUME KeyAssumption, Disciplined
    PROVE  Spec => []RecordedInPressOrder
<1>1. ASSUME RecordedInv PROVE RecordedInPressOrder
  <2>1. SUFFICES ASSUME NEW d \in DhIds, kernel[d] = << >>, collector.dhId # d,
                        NEW i \in DOMAIN keyDownState[d], NEW j \in DOMAIN keyDownState[d], i < j
                 PROVE  /\ keyDownState[d][i] # keyDownState[d][j]
                        /\ stamp[d][keyDownState[d][j]] > 0 =>
                              stamp[d][keyDownState[d][i]] < stamp[d][keyDownState[d][j]]
    BY DEF RecordedInPressOrder
  <2>2. AtSink(d)
    <3>1. DOMAIN << >> = {}
      OBVIOUS
    <3> QED
      BY <1>1, <2>1, <3>1, RecordIsWhole
  <2>3. PICK s, st : s = keyDownState[d] /\ st = stamp[d]
    OBVIOUS
  <2>4. InPressOrder(<< >>, s, st)
    BY <1>1, <2>1, <2>2, <2>3, RecordIsWhole DEF Tracks
  <2>5. s \in Seq(Keys) /\ st \in [Keys -> Nat]
    BY <1>1, <2>3 DEF RecordedInv, KeysInv, TypeOK
  <2>6. s[i] \in Keys /\ s[j] \in Keys
    BY <2>1, <2>3, <2>5, OfSeq DEF Elements
  <2>7. AheadIn(s, s[i], s[j])
    BY <2>1, <2>3 DEF AheadIn
  <2>8. s[i] # s[j] /\ (st[s[j]] = 0 \/ st[s[i]] < st[s[j]])
    <3>1. \A k \in Keys : ~Pends(<< >>, k)
      BY DEF Pends
    <3>2. s[i] # s[j] /\ (Pends(<< >>, s[i]) \/ Pends(<< >>, s[j]) \/ st[s[j]] = 0 \/ st[s[i]] < st[s[j]])
      BY <2>4, <2>6, <2>7 DEF InPressOrder
    <3> QED
      BY <2>6, <3>1, <3>2
  <2>9. st[s[j]] > 0 => st[s[i]] < st[s[j]]
    BY <2>8
  <2> QED
    BY <2>3, <2>8, <2>9
<1>2. Spec => []RecordedInv
  BY RecordedInvHolds
<1>3. RecordedInv => RecordedInPressOrder
  BY <1>1
<1> QED
  BY <1>2, <1>3, PTL

\* In disciplined use, a device that is at the sink has exactly its held keys recorded, but
\* for those held when it was taken back, and a shared device has none.
THEOREM RecordOfHeldKeys ==
    ASSUME KeyAssumption, Disciplined
    PROVE  Spec => []RecordIsComplete
<1>1. ASSUME RecordedInv PROVE RecordIsComplete
  <2>1. SUFFICES ASSUME NEW d \in DhIds, kernel[d] = << >>, collector.dhId # d, handler # d
                 PROVE  ToSet(keyDownState[d]) =
                        IF d \in sharedDHIds THEN {} ELSE down[d] \ heldOver[d]
    BY DEF RecordIsComplete
  <2>2. ToSet(keyDownState[d]) = Elements(keyDownState[d])
    BY DEF ToSet, Elements
  <2>3. CASE d \in sharedDHIds
    <3>1. keyDownState[d] = << >>
      BY <1>1, <2>1, <2>3, RecordIsWhole DEF AtSink
    <3> QED
      BY <2>2, <2>3, <3>1, OfNothing
  <2>4. CASE d \notin sharedDHIds
    <3>1. Elements(keyDownState[d]) = Live(d)
      BY <1>1, <2>1, <2>4, RecordIsWhole DEF AtSink
    <3> QED
      BY <2>2, <2>4, <3>1 DEF Live
  <2> QED
    BY <2>3, <2>4
<1>2. Spec => []RecordedInv
  BY RecordedInvHolds
<1>3. RecordedInv => RecordIsComplete
  BY <1>1
<1> QED
  BY <1>2, <1>3, PTL

(***************************************************************************)
(* The keys of a virtual keyboard once the events q have been injected.    *)
(***************************************************************************)
Moves(e, d, k) == e.dhId = d /\ e.code = k /\ e.value # "repeat"
Untouched(q, d, k)  == \A i \in DOMAIN q : ~Moves(q[i], d, k)
PressedLast(q, d, k) ==
    \E i \in DOMAIN q : /\ Moves(q[i], d, k) /\ q[i].value = "down"
                        /\ \A j \in DOMAIN q : i < j => ~Moves(q[j], d, k)
DownAfter(q, d, S) == {k \in Keys : PressedLast(q, d, k) \/ (k \in S /\ Untouched(q, d, k))}

LEMMA AfterNothing ==
    ASSUME NEW d, NEW S \in SUBSET Keys
    PROVE  DownAfter(<< >>, d, S) = S
<1>1. \A k : ~PressedLast(<< >>, d, k) /\ Untouched(<< >>, d, k)
  BY DEF PressedLast, Untouched
<1> QED
  BY <1>1 DEF DownAfter

LEMMA AfterOthers ==
    ASSUME NEW q, NEW d, NEW S \in SUBSET Keys,
           \A i \in DOMAIN q : q[i].dhId # d \/ q[i].value = "repeat"
    PROVE  DownAfter(q, d, S) = S
<1>1. \A k : ~PressedLast(q, d, k) /\ Untouched(q, d, k)
  BY DEF PressedLast, Untouched, Moves
<1> QED
  BY <1>1 DEF DownAfter

LEMMA AfterOne ==
    ASSUME NEW e \in Event, NEW S \in SUBSET Keys
    PROVE  DownAfter(<< e >>, e.dhId, S) = CASE e.value = "down"   -> S \cup {e.code}
                                              [] e.value = "up"     -> S \ {e.code}
                                              [] e.value = "repeat" -> S
<1>1. DOMAIN << e >> = {1} /\ << e >>[1] = e
  OBVIOUS
<1>2. PICK q : q = << e >>
  OBVIOUS
<1>3. DOMAIN q = {1} /\ q[1] = e
  BY <1>1, <1>2
<1>4. \A k : /\ PressedLast(q, e.dhId, k) <=> e.code = k /\ e.value = "down"
             /\ Untouched(q, e.dhId, k) <=> e.code # k \/ e.value = "repeat"
  BY <1>3 DEF PressedLast, Untouched, Moves
<1>5. e.value \in {"down", "up", "repeat"} /\ e.code \in Keys
  BY DEF Event
<1>6. CASE e.value = "down"
  <2>1. DownAfter(q, e.dhId, S) = S \cup {e.code}
    BY <1>4, <1>5, <1>6 DEF DownAfter
  <2> QED
    BY <1>2, <1>6, <2>1
<1>7. CASE e.value = "up"
  <2>1. DownAfter(q, e.dhId, S) = S \ {e.code}
    BY <1>4, <1>5, <1>7 DEF DownAfter
  <2> QED
    BY <1>2, <1>7, <2>1
<1>8. CASE e.value = "repeat"
  <2>1. DownAfter(q, e.dhId, S) = S
    BY <1>4, <1>5, <1>8 DEF DownAfter
  <2> QED
    BY <1>2, <1>8, <2>1
<1> QED
  BY <1>5, <1>6, <1>7, <1>8

LEMMA AfterConcat ==
    ASSUME NEW q \in Seq(Event), NEW r \in Seq(Event), NEW d, NEW S \in SUBSET Keys
    PROVE  DownAfter(q \o r, d, S) = DownAfter(r, d, DownAfter(q, d, S))
<1>1. PICK c : c = q \o r
  OBVIOUS
<1>2. Joins(c, q, r)
  BY <1>1, ConcatAt
<1>3. DOMAIN q = 1 .. Len(q) /\ DOMAIN r = 1 .. Len(r) /\ Len(q) \in Nat /\ Len(r) \in Nat
  BY LenProperties
<1>4. /\ DOMAIN c = 1 .. Len(q) + Len(r)
      /\ \A i \in DOMAIN q : i \in DOMAIN c /\ c[i] = q[i]
      /\ \A i \in DOMAIN r : Len(q) + i \in DOMAIN c /\ c[Len(q) + i] = r[i]
      /\ \A i \in DOMAIN c : \/ i \in DOMAIN q /\ c[i] = q[i]
                             \/ i > Len(q) /\ i - Len(q) \in DOMAIN r /\ c[i] = r[i - Len(q)]
  BY <1>2 DEF Joins, FromOne
<1>5. ASSUME NEW k \in Keys PROVE Untouched(c, d, k) <=> Untouched(q, d, k) /\ Untouched(r, d, k)
  <2>1. Untouched(c, d, k) => Untouched(q, d, k)
    BY <1>4 DEF Untouched
  <2>2. Untouched(c, d, k) => Untouched(r, d, k)
    BY <1>4 DEF Untouched
  <2>3. Untouched(q, d, k) /\ Untouched(r, d, k) => Untouched(c, d, k)
    BY <1>4 DEF Untouched
  <2> QED
    BY <2>1, <2>2, <2>3
<1>6. ASSUME NEW k \in Keys, PressedLast(c, d, k)
      PROVE  PressedLast(r, d, k) \/ (PressedLast(q, d, k) /\ Untouched(r, d, k))
  <2>1. PICK i \in DOMAIN c : /\ Moves(c[i], d, k) /\ c[i].value = "down"
                              /\ \A j \in DOMAIN c : i < j => ~Moves(c[j], d, k)
    BY <1>6 DEF PressedLast
  <2>2. CASE i \in DOMAIN q
    <3>1. Moves(q[i], d, k) /\ q[i].value = "down"
      BY <1>4, <2>1, <2>2
    <3>2. \A j \in DOMAIN q : i < j => ~Moves(q[j], d, k)
      BY <1>4, <2>1
    <3>3. ASSUME NEW j \in DOMAIN r PROVE ~Moves(r[j], d, k)
      <4>1. Len(q) + j \in DOMAIN c /\ c[Len(q) + j] = r[j] /\ i < Len(q) + j
        BY <1>3, <1>4, <2>2
      <4> QED
        BY <2>1, <4>1
    <3> QED
      BY <2>2, <3>1, <3>2, <3>3 DEF PressedLast, Untouched
  <2>3. CASE i \notin DOMAIN q
    <3>1. PICK m \in DOMAIN r : m = i - Len(q) /\ c[i] = r[m]
      BY <1>4, <2>3
    <3>2. ASSUME NEW j \in DOMAIN r, m < j PROVE ~Moves(r[j], d, k)
      <4>1. Len(q) + j \in DOMAIN c /\ c[Len(q) + j] = r[j] /\ i < Len(q) + j
        BY <1>3, <1>4, <3>1, <3>2
      <4> QED
        BY <2>1, <4>1
    <3> QED
      BY <2>1, <3>1, <3>2 DEF PressedLast
  <2> QED
    BY <2>2, <2>3
<1>7. ASSUME NEW k \in Keys, PressedLast(r, d, k) PROVE PressedLast(c, d, k)
  <2>1. PICK i \in DOMAIN r : /\ Moves(r[i], d, k) /\ r[i].value = "down"
                              /\ \A j \in DOMAIN r : i < j => ~Moves(r[j], d, k)
    BY <1>7 DEF PressedLast
  <2>2. Len(q) + i \in DOMAIN c /\ c[Len(q) + i] = r[i]
    BY <1>4
  <2>3. ASSUME NEW j \in DOMAIN c, Len(q) + i < j PROVE ~Moves(c[j], d, k)
    <3>1. j \notin DOMAIN q
      BY <1>3, <1>4, <2>3
    <3>2. PICK m \in DOMAIN r : m = j - Len(q) /\ c[j] = r[m]
      BY <1>4, <3>1
    <3>3. i < m
      BY <1>3, <1>4, <2>3, <3>2
    <3> QED
      BY <2>1, <3>2, <3>3
  <2> QED
    BY <2>1, <2>2, <2>3 DEF PressedLast
<1>8. ASSUME NEW k \in Keys, PressedLast(q, d, k), Untouched(r, d, k) PROVE PressedLast(c, d, k)
  <2>1. PICK i \in DOMAIN q : /\ Moves(q[i], d, k) /\ q[i].value = "down"
                              /\ \A j \in DOMAIN q : i < j => ~Moves(q[j], d, k)
    BY <1>8 DEF PressedLast
  <2>2. ASSUME NEW j \in DOMAIN c, i < j PROVE ~Moves(c[j], d, k)
    BY <1>4, <1>8, <2>1, <2>2 DEF Untouched
  <2> QED
    BY <1>4, <2>1, <2>2 DEF PressedLast
<1>9. ASSUME NEW k \in Keys
      PROVE  k \in DownAfter(c, d, S) <=> k \in DownAfter(r, d, DownAfter(q, d, S))
  <2>1. k \in DownAfter(c, d, S) <=> PressedLast(c, d, k) \/ (k \in S /\ Untouched(c, d, k))
    BY DEF DownAfter
  <2>2. k \in DownAfter(q, d, S) <=> PressedLast(q, d, k) \/ (k \in S /\ Untouched(q, d, k))
    BY DEF DownAfter
  <2>3. k \in DownAfter(r, d, DownAfter(q, d, S)) <=>
           PressedLast(r, d, k) \/ (k \in DownAfter(q, d, S) /\ Untouched(r, d, k))
    BY DEF DownAfter
  <2> QED
    BY <1>5, <1>6, <1>7, <1>8, <2>1, <2>2, <2>3
<1> QED
  BY <1>1, <1>9 DEF DownAfter

\* An event more.
TurnedBy(e, d, S) ==
    IF e.dhId # d \/ e.value = "repeat" THEN S
    ELSE IF e.value = "down" THEN S \cup {e.code} ELSE S \ {e.code}

LEMMA AfterEvent ==
    ASSUME NEW e \in Event, NEW d, NEW S \in SUBSET Keys
    PROVE  DownAfter(<< e >>, d, S) = TurnedBy(e, d, S)
<1>1. CASE e.dhId = d
  <2>1. e.value \in {"down", "up", "repeat"}
    BY DEF Event
  <2> QED
    BY <1>1, <2>1, AfterOne DEF TurnedBy
<1>2. CASE e.dhId # d
  <2>1. \A i \in DOMAIN << e >> : << e >>[i] = e
    OBVIOUS
  <2>2. PICK q : q = << e >>
    OBVIOUS
  <2>3. \A i \in DOMAIN q : q[i].dhId # d \/ q[i].value = "repeat"
    BY <1>2, <2>1, <2>2
  <2>4. DownAfter(q, d, S) = S
    BY <2>3, AfterOthers
  <2> QED
    BY <1>2, <2>2, <2>4 DEF TurnedBy
<1> QED
  BY <1>1, <1>2

LEMMA AfterAppend ==
    ASSUME NEW q \in Seq(Event), NEW e \in Event, NEW d, NEW S \in SUBSET Keys
    PROVE  DownAfter(Append(q, e), d, S) = TurnedBy(e, d, DownAfter(q, d, S))
<1>1. << e >> \in Seq(Event) /\ Append(q, e) = q \o << e >>
  BY Single, AppendIsConcat
<1>2. DownAfter(q, d, S) \in SUBSET Keys
  BY DEF DownAfter
<1>3. PICK T : T = DownAfter(q, d, S)
  OBVIOUS
<1>4. DownAfter(<< e >>, d, T) = TurnedBy(e, d, T)
  BY <1>2, <1>3, AfterEvent
<1>5. PICK r \in Seq(Event) : r = << e >>
  BY <1>1
<1>6. DownAfter(q \o r, d, S) = DownAfter(r, d, T)
  BY <1>3, AfterConcat
<1> QED
  BY <1>1, <1>3, <1>4, <1>5, <1>6

(***************************************************************************)
(* A virtual keyboard follows the keyboard it stands for.                  *)
(***************************************************************************)
Stopping(d) ==
    request = d \/ (toSink # << >> /\ Head(toSink) = [cmd |-> "STOP_DHID", dhId |-> d])

\* The source has the device, and has not begun to give it back.
IsLent(d) == (d \in sharedDHIds \/ handler = d) /\ ~Stopping(d)

\* What is down on the virtual device once everything on the way has arrived.
Injected(d) == DownAfter(injectQueue, d, remoteDown[d])
Called(d)   == DownAfter(callbackQueue, d, Injected(d))
Told(d)     == DownAfter(Session, d, Called(d))
Arriving(d) == DownAfter(Handed, d, Told(d))

Incoming    == Elements(injectQueue) \cup Elements(callbackQueue) \cup Elements(Session)
                 \cup Elements(Handed)
NoPress(d)  == \A e \in Incoming : e.dhId = d => e.value # "down"

\* The keys of a lent keyboard are those the virtual one will have down; a virtual keyboard
\* that is not lent has none, and no press comes to it.
LentFollows(d) == IsLent(d) => Live(d) = DownAfter(Unrecorded(d), d, Arriving(d))
UnlentIsFree(d) == ~IsLent(d) => remoteDown[d] = {} /\ NoPress(d)
FollowInv   == \A d \in Keyboards : LentFollows(d) /\ UnlentIsFree(d)

LEMMA ArrivingTypes ==
    ASSUME TypeOK, NEW d \in DhIds
    PROVE  /\ remoteDown[d] \in SUBSET Keys /\ Injected(d) \in SUBSET Keys
           /\ Called(d) \in SUBSET Keys /\ Told(d) \in SUBSET Keys /\ Arriving(d) \in SUBSET Keys
  BY DEF TypeOK, Injected, Called, Told, Arriving, DownAfter

LEMMA NoBatches ==
    /\ toSource = << >> => Session = << >>
    /\ eventQueue = << >> => Handed = << >>
<1>1. << >> \in Seq(SessionMessages) /\ << >> \in Seq(Seq(Event))
  BY OfNothing
<1> QED
  BY <1>1, EventsTypes, FlattenTypes DEF Session, Handed

LEMMA NothingArrives ==
    ASSUME TypeOK, Quiet, NothingToDo, NEW d \in DhIds
    PROVE  Arriving(d) = remoteDown[d] /\ Incoming = {} /\ Unrecorded(d) = << >>
<1>1. Session = << >> /\ Handed = << >> /\ injectQueue = << >> /\ callbackQueue = << >>
  BY NoBatches DEF Quiet, NothingToDo
<1>2. remoteDown[d] \in SUBSET Keys
  BY ArrivingTypes
<1>3. Arriving(d) = remoteDown[d]
  BY <1>1, <1>2, AfterNothing DEF Arriving, Told, Called, Injected
<1>4. Unrecorded(d) = << >>
  <2>1. kernel[d] = << >> /\ collector.read = << >>
    BY DEF Quiet, Idle
  <2> QED
    BY <2>1, OfNothing DEF Unrecorded
<1> QED
  BY <1>1, <1>3, <1>4, OfNothing DEF Incoming

LEMMA FollowFrame ==
    ASSUME NEW d, LentFollows(d), UnlentIsFree(d), IsLent(d)' = IsLent(d),
           remoteDown'[d] = remoteDown[d] \/ (IsLent(d) \/ remoteDown'[d] = {}),
           IsLent(d) => /\ Arriving(d)' = Arriving(d) /\ Unrecorded(d)' = Unrecorded(d)
                        /\ Live(d)' = Live(d),
           \A e \in Incoming' : e \in Incoming \/ e.dhId # d \/ e.value # "down" \/ IsLent(d)
    PROVE  LentFollows(d)' /\ UnlentIsFree(d)'
<1>1. LentFollows(d)'
  <2> SUFFICES ASSUME IsLent(d)' PROVE Live(d)' = DownAfter(Unrecorded(d)', d, Arriving(d)')
    BY DEF LentFollows
  <2>1. /\ Arriving(d)' = Arriving(d) /\ Unrecorded(d)' = Unrecorded(d) /\ Live(d)' = Live(d)
        /\ Live(d) = DownAfter(Unrecorded(d), d, Arriving(d))
    BY DEF LentFollows
  <2> QED
    BY <2>1
<1>2. UnlentIsFree(d)'
  <2> SUFFICES ASSUME ~IsLent(d)' PROVE remoteDown'[d] = {} /\ NoPress(d)'
    BY DEF UnlentIsFree
  <2> QED
    BY DEF UnlentIsFree, NoPress
<1> QED
  BY <1>1, <1>2

\* Who has a device depends on these only.
LEMMA LentFrame ==
    UNCHANGED << request, toSink, sharedDHIds, handler >> => \A d : IsLent(d)' = IsLent(d)
  BY DEF IsLent, Stopping

LEMMA ArrivingFrame ==
    UNCHANGED << injectQueue, callbackQueue, Session, Handed, remoteDown >> =>
        Incoming' = Incoming /\ \A d : Arriving(d)' = Arriving(d)
  BY DEF Incoming, Arriving, Told, Called, Injected

LEMMA FollowInit == KeyAssumption /\ Init => FollowInv
<1> SUFFICES ASSUME KeyAssumption, Init PROVE FollowInv
  OBVIOUS
<1>1. /\ toSource = << >> /\ eventQueue = << >> /\ injectQueue = << >> /\ callbackQueue = << >>
      /\ sharedDHIds = {} /\ handler = None /\ remoteDown = [d \in DhIds |-> {}]
  BY DEF Init
<1>2. Incoming = {}
  BY <1>1, NoBatches, OfNothing DEF Incoming
<1>3. ASSUME NEW d \in Keyboards PROVE LentFollows(d) /\ UnlentIsFree(d)
  <2>1. d \in DhIds /\ d # None
    BY NoDevice DEF DhIds
  <2>2. ~IsLent(d) /\ remoteDown[d] = {}
    BY <1>1, <2>1 DEF IsLent
  <2> QED
    BY <1>2, <2>2 DEF LentFollows, UnlentIsFree, NoPress
<1> QED
  BY <1>3 DEF FollowInv

LEMMA FollowStroke ==
    ASSUME Disciplined, KeyAssumption, TypeOK, KeyPlaces, StrokeInv, TurnsInv, FollowInv,
           NEW c \in DhIds, NEW k \in Keys,
           Press(c, k) \/ Release(c, k) \/ Repeat(c, k)
    PROVE  FollowInv'
<1>1. PICK e \in Event :
         /\ e.dhId = c /\ e.code = k
         /\ kernel' = [kernel EXCEPT ![c] = Append(@, e)]
         /\ UNCHANGED << collector, sharedDHIds, handler >>
         /\ c \in sharedDHIds => Live(c)' = IF e.value = "repeat" THEN Live(c) ELSE PressesNow(Live(c), e)
         /\ \A d \in DhIds : d # c => Live(d)' = Live(d)
  BY StrokesOne
<1>2. UNCHANGED << request, toSink, injectQueue, callbackQueue, toSource, eventQueue, remoteDown >>
  BY DEF Press, Release, Repeat, Stroke, sinkVars, sourceVars
<1>3. \A d : IsLent(d)' = IsLent(d)
  BY <1>1, <1>2, LentFrame
<1>4. Incoming' = Incoming /\ \A d : Arriving(d)' = Arriving(d)
  BY <1>2, ArrivingFrame DEF Session, Handed
<1>5. ASSUME NEW d \in Keyboards, d # c PROVE LentFollows(d)' /\ UnlentIsFree(d)'
  <2>1. d \in DhIds
    BY DEF DhIds
  <2>2. kernel'[d] = kernel[d]
    BY <1>1, <1>5, <2>1 DEF TypeOK
  <2>3. Unrecorded(d)' = Unrecorded(d) /\ Live(d)' = Live(d) /\ remoteDown'[d] = remoteDown[d]
    BY <1>1, <1>2, <1>5, <2>1, <2>2 DEF Unrecorded
  <2>4. LentFollows(d) /\ UnlentIsFree(d)
    BY DEF FollowInv
  <2> QED
    BY <1>3, <1>4, <2>3, <2>4, FollowFrame
<1>6. ASSUME c \in Keyboards PROVE LentFollows(c)' /\ UnlentIsFree(c)'
  <2>1. UnlentIsFree(c)'
    BY <1>2, <1>3, <1>4, <1>6 DEF FollowInv, UnlentIsFree, NoPress
  <2>2. ASSUME IsLent(c) PROVE Live(c)' = DownAfter(Unrecorded(c)', c, Arriving(c)')
    <3>1. Live(c) = DownAfter(Unrecorded(c), c, Arriving(c))
      BY <1>6, <2>2 DEF FollowInv, LentFollows
    <3>2. c \in sharedDHIds
      <4>1. Control /\ c # None
        BY TurnsStroke, NoDevice
      <4> QED
        BY <2>2, <4>1 DEF IsLent, Control
    <3>3. Unrecorded(c)' = Append(Unrecorded(c), e) /\ Unrecorded(c) \in Seq(Event)
      BY <1>1, UnrecordedGrows, UnrecordedIs
    <3>4. Arriving(c) \in SUBSET Keys
      BY ArrivingTypes
    <3>5. DownAfter(Append(Unrecorded(c), e), c, Arriving(c)) = TurnedBy(e, c, Live(c))
      BY <3>1, <3>3, <3>4, AfterAppend
    <3>6. Live(c)' = TurnedBy(e, c, Live(c))
      <4>1. e.value \in {"down", "up", "repeat"}
        BY DEF Event
      <4> QED
        BY <1>1, <3>2, <4>1 DEF TurnedBy, PressesNow
    <3> QED
      BY <1>4, <3>3, <3>5, <3>6
  <2> QED
    BY <1>3, <2>1, <2>2 DEF LentFollows
<1> QED
  BY <1>5, <1>6 DEF FollowInv

\* Strokes that are posted to the sender are on the way to the source.
LEMMA FollowPost ==
    ASSUME KeyAssumption, TypeOK, KeyPlaces, TurnsInv, FollowInv, CheckShared,
           collector.dhId \in sharedDHIds
    PROVE  FollowInv'
<1>1. collector' = Idle /\ Handed' = Handed \o collector.read
  BY PostsRead
<1>2. UNCHANGED << request, toSink, injectQueue, callbackQueue, toSource, remoteDown, kernel,
                   sharedDHIds, handler, down, heldOver >>
  BY DEF CheckShared, userVars, sourceVars
<1>3. \A d : IsLent(d)' = IsLent(d)
  BY <1>2, LentFrame
<1>4. Session' = Session /\ Handed \in Seq(Event) /\ collector.read \in Seq(Event)
  BY <1>2, WayTypes DEF Session
<1>5. \A d : Told(d)' = Told(d) /\ Live(d)' = Live(d)
  BY <1>2, <1>4 DEF Told, Called, Injected, Live
<1>6. Incoming' = Incoming \cup Elements(collector.read)
  <2>1. Elements(Handed') = Elements(Handed) \cup Elements(collector.read)
    BY <1>1, <1>4, Concatenated
  <2> QED
    BY <1>2, <1>4, <2>1 DEF Incoming
<1>7. ASSUME NEW d \in DhIds
      PROVE  Arriving(d)' = DownAfter(collector.read, d, Arriving(d)) /\ Arriving(d) \in SUBSET Keys
  <2>1. Told(d) \in SUBSET Keys /\ Arriving(d) \in SUBSET Keys
    BY ArrivingTypes
  <2>2. DownAfter(Handed \o collector.read, d, Told(d)) = DownAfter(collector.read, d, Arriving(d))
    BY <1>4, <2>1, AfterConcat DEF Arriving
  <2>3. Arriving(d)' = DownAfter(Handed', d, Told(d))
    BY <1>5 DEF Arriving
  <2> QED
    BY <1>1, <2>1, <2>2, <2>3
<1>8. ASSUME NEW d \in Keyboards, d # collector.dhId PROVE LentFollows(d)' /\ UnlentIsFree(d)'
  <2>1. d \in DhIds
    BY DEF DhIds
  <2>2. Unrecorded(d)' = Unrecorded(d)
    BY <1>8, <2>1, CollectsOn
  <2>3. \A i \in DOMAIN collector.read : collector.read[i].dhId # d
    BY <1>8 DEF KeyPlaces, Elements
  <2>4. Arriving(d)' = Arriving(d)
    BY <1>7, <2>1, <2>3, AfterOthers
  <2>5. \A e \in Elements(collector.read) : e.dhId # d
    BY <2>3 DEF Elements
  <2>6. LentFollows(d) /\ UnlentIsFree(d)
    BY DEF FollowInv
  <2> QED
    BY <1>2, <1>3, <1>5, <1>6, <2>2, <2>4, <2>5, <2>6, FollowFrame
<1>9. ASSUME NEW d \in Keyboards, d = collector.dhId PROVE LentFollows(d)' /\ UnlentIsFree(d)'
  <2>1. d = collector.dhId
    BY <1>9
  <2>2. d \in DhIds /\ d # None
    BY NoDevice DEF DhIds
  <2>3. Control
    BY <2>1, <2>2 DEF TurnsInv, TakeTurns, Quiet, Idle
  <2>4. IsLent(d)
    BY <2>1, <2>2, <2>3 DEF IsLent, Stopping, Control
  <2>5. Live(d) = DownAfter(Unrecorded(d), d, Arriving(d))
    BY <2>4 DEF FollowInv, LentFollows
  <2>6. Unrecorded(d) = collector.read \o kernel[d] /\ kernel[d] \in Seq(Event)
    BY <2>1, <2>2 DEF Unrecorded, TypeOK
  <2>7. Unrecorded(d)' = kernel[d]
    <3>1. Unrecorded(d)' = << >> \o kernel[d]
      BY <1>1, <1>2, <2>2 DEF Unrecorded, Idle
    <3> QED
      BY <2>6, <3>1, OfNothing
  <2>8. DownAfter(collector.read \o kernel[d], d, Arriving(d))
           = DownAfter(kernel[d], d, DownAfter(collector.read, d, Arriving(d)))
    BY <1>4, <1>7, <2>2, <2>6, AfterConcat
  <2>9. Live(d)' = DownAfter(Unrecorded(d)', d, Arriving(d)')
    BY <1>5, <1>7, <2>2, <2>5, <2>6, <2>7, <2>8
  <2>10. IsLent(d)'
    BY <1>3, <2>4
  <2> QED
    BY <2>9, <2>10 DEF LentFollows, UnlentIsFree
<1> QED
  BY <1>8, <1>9 DEF FollowInv

\* What a device that is at the sink sends to the source is no press.
LEMMA FollowRecord ==
    ASSUME KeyAssumption, TypeOK, KeyPlaces, TurnsInv, FollowInv, RecordEvent
    PROVE  FollowInv'
<1>1. PICK e \in Event, t \in Seq(Event), x \in Seq(Event) :
         /\ collector.read # << >> /\ e = Head(collector.read)
         /\ collector' = [collector EXCEPT !.read = t]
         /\ Session' = Session \o x
         /\ \/ x = << >>
            \/ e.dhId \in Mice /\ x = << Simulated(e.dhId, BTN_MOUSE, "up") >>
  BY RecordsOne
<1>2. /\ UNCHANGED << request, toSink, injectQueue, callbackQueue, eventQueue, remoteDown, kernel,
                      sharedDHIds, handler, down, heldOver >>
      /\ collector.checked
  BY DEF RecordEvent, userVars, sourceVars
<1>3. e.dhId = collector.dhId /\ collector'.dhId = collector.dhId
  <2>1. collector.read \in Seq(Event)
    BY DEF TypeOK
  <2>2. e \in Elements(collector.read)
    BY <1>1, <2>1, OfTail
  <2> QED
    BY <1>1, <2>2 DEF KeyPlaces, TypeOK
<1>4. \A d : IsLent(d)' = IsLent(d)
  BY <1>2, LentFrame
<1>5. ~IsLent(e.dhId)
  <2>1. Control
    BY <1>2 DEF TurnsInv, TakeTurns, Quiet, Idle
  <2>2. e.dhId # None
    BY NoDevice DEF Event
  <2>3. e.dhId \notin sharedDHIds
    BY <1>2, <1>3 DEF TurnsInv, SharedApart
  <2> QED
    BY <2>1, <2>2, <2>3 DEF IsLent, Control
<1>6. \A a \in Elements(x) : a.dhId = e.dhId /\ a.value = "up"
  <2>1. CASE x = << >>
    BY <2>1, OfNothing
  <2>2. CASE x # << >>
    <3>1. PICK a : a = Simulated(e.dhId, BTN_MOUSE, "up")
      OBVIOUS
    <3>2. Elements(x) = {a}
      BY <1>1, <2>2, <3>1, OfOne
    <3>3. a.dhId = e.dhId /\ a.value = "up"
      BY <3>1 DEF Simulated
    <3> QED
      BY <3>2, <3>3
  <2> QED
    BY <2>1, <2>2
<1>7. Handed' = Handed /\ Session \in Seq(Event)
  BY <1>2, WayTypes DEF Handed
<1>8. Incoming' = Incoming \cup Elements(x)
  <2>1. Elements(Session') = Elements(Session) \cup Elements(x)
    BY <1>1, <1>7, Concatenated
  <2> QED
    BY <1>2, <1>7, <2>1 DEF Incoming
<1>9. ASSUME NEW d \in Keyboards, IsLent(d)
      PROVE  Arriving(d)' = Arriving(d) /\ Unrecorded(d)' = Unrecorded(d) /\ Live(d)' = Live(d)
  <2>1. d # e.dhId /\ d \in DhIds
    BY <1>5, <1>9 DEF DhIds
  <2>2. Unrecorded(d)' = Unrecorded(d) /\ Live(d)' = Live(d)
    BY <1>2, <1>3, <2>1 DEF Unrecorded, Live
  <2>3. Called(d)' = Called(d) /\ Called(d) \in SUBSET Keys /\ Told(d) \in SUBSET Keys
    BY <1>2, <2>1, ArrivingTypes DEF Called, Injected
  <2>4. \A i \in DOMAIN x : x[i].dhId # d
    BY <1>6, <2>1 DEF Elements
  <2>5. DownAfter(Session \o x, d, Called(d)) = DownAfter(x, d, Told(d))
    BY <1>7, <2>3, AfterConcat DEF Told
  <2>6. DownAfter(x, d, Told(d)) = Told(d)
    BY <2>3, <2>4, AfterOthers
  <2>7. Told(d)' = DownAfter(Session', d, Called(d))
    BY <2>3 DEF Told
  <2>8. Told(d)' = Told(d)
    BY <1>1, <2>5, <2>6, <2>7
  <2>9. Arriving(d)' = Arriving(d)
    BY <1>7, <2>8 DEF Arriving
  <2> QED
    BY <2>2, <2>9
<1>10. ASSUME NEW d \in Keyboards PROVE LentFollows(d)' /\ UnlentIsFree(d)'
  <2>1. LentFollows(d) /\ UnlentIsFree(d) /\ remoteDown'[d] = remoteDown[d] /\ IsLent(d)' = IsLent(d)
    BY <1>2, <1>4 DEF FollowInv
  <2>2. \A a \in Incoming' : a \in Incoming \/ a.value # "down"
    BY <1>6, <1>8
  <2> QED
    BY <1>9, <2>1, <2>2, FollowFrame
<1> QED
  BY <1>10 DEF FollowInv

LEMMA PlayedElements ==
    ASSUME TypeOK, NEW d \in DhIds
    PROVE  /\ \A i \in DOMAIN Played(d) : Played(d)[i].dhId = d
           /\ DownAfter(Played(d), d, {}) = Elements(keyDownState[d])
<1>1. PICK q, s : q = Played(d) /\ s = keyDownState[d]
  OBVIOUS
<1>2. /\ DOMAIN q = DOMAIN s /\ DOMAIN s = 1 .. Len(s) /\ Len(s) \in Nat
      /\ \A i \in DOMAIN s : q[i].dhId = d /\ q[i].code = s[i] /\ q[i].value = "down"
      /\ Elements(s) \subseteq Keys
  <2>1. s \in Seq(Keys)
    BY <1>1 DEF TypeOK
  <2>2. DOMAIN s = 1 .. Len(s) /\ Len(s) \in Nat /\ Elements(s) \subseteq Keys
    BY <2>1, OfSeq
  <2>3. DOMAIN q = DOMAIN s /\ \A i \in DOMAIN s : q[i] = Simulated(d, s[i], "down")
    BY <1>1, PlayedTypes
  <2> QED
    BY <2>2, <2>3 DEF Simulated
<1>3. ASSUME NEW k \in Elements(s) PROVE PressedLast(q, d, k)
  <2>1. PICK i \in DOMAIN s : s[i] = k
    BY DEF Elements
  <2>2. \E m \in DOMAIN s : s[m] = k /\ \A j \in DOMAIN s : m < j => s[j] # k
    <3>1. PICK J : J = {j \in DOMAIN s : s[j] = k}
      OBVIOUS
    <3>2. PICK R : R = {Len(s) - j : j \in J}
      OBVIOUS
    <3>3. R \subseteq Nat /\ Len(s) - i \in R
      BY <1>2, <2>1, <3>1, <3>2
    <3>4. PICK r \in R : \A n \in R : r <= n
      BY <3>3, LeastOf
    <3>5. PICK m \in J : r = Len(s) - m
      BY <3>2, <3>4
    <3>6. ASSUME NEW j \in DOMAIN s, m < j, s[j] = k PROVE FALSE
      <4>1. Len(s) - j \in R
        BY <3>1, <3>2, <3>6
      <4>2. Len(s) - m <= Len(s) - j
        BY <3>4, <3>5, <4>1
      <4> QED
        BY <1>2, <3>1, <3>5, <3>6, <4>2
    <3> QED
      BY <3>1, <3>5, <3>6
  <2>3. PICK m \in DOMAIN s : s[m] = k /\ \A j \in DOMAIN s : m < j => s[j] # k
    BY <2>2
  <2>4. m \in DOMAIN q /\ Moves(q[m], d, k) /\ q[m].value = "down"
    BY <1>2, <2>3 DEF Moves
  <2>5. \A j \in DOMAIN q : m < j => ~Moves(q[j], d, k)
    BY <1>2, <2>3 DEF Moves
  <2> QED
    BY <2>4, <2>5 DEF PressedLast
<1>4. ASSUME NEW k \in Keys, PressedLast(q, d, k) PROVE k \in Elements(s)
  BY <1>2, <1>4 DEF PressedLast, Moves, Elements
<1>5. DownAfter(q, d, {}) = Elements(s)
  BY <1>2, <1>3, <1>4 DEF DownAfter
<1> QED
  BY <1>1, <1>2, <1>5

LEMMA FollowStart ==
    ASSUME Disciplined, KeyAssumption, RecordedInv, FollowInv, StartRecordDhIds
    PROVE  FollowInv'
<1>0. TypeOK /\ TurnsInv
  BY DEF RecordedInv, KeysInv
<1>1. PICK c \in DhIds :
         /\ Head(toSink) = [cmd |-> "START_DHID", dhId |-> c]
         /\ handler = None /\ handler' = c /\ toSink # << >> /\ toSink' = Tail(toSink)
         /\ Session' = Session \o Played(c)
  BY <1>0, StartsAt
<1>2. UNCHANGED << request, injectQueue, callbackQueue, eventQueue, remoteDown, kernel,
                   collector, sharedDHIds, down, heldOver >>
  BY DEF StartRecordDhIds, userVars, sourceVars
<1>3. Len(toSink) = 1 /\ request = None /\ NothingToDo /\ Quiet
  BY <1>0, <1>1 DEF TurnsInv, TakeTurns, Control
<1>4. toSink' = << >>
  <2>1. toSink \in Seq(SessionRequests)
    BY <1>0 DEF TypeOK, SessionRequests
  <2>2. Tail(toSink) \in Seq(SessionRequests) /\ Len(Tail(toSink)) = Len(toSink) - 1
    BY <1>1, <2>1, OfTail
  <2> QED
    BY <1>1, <1>3, <2>2, EmptySeq
<1>5. ASSUME NEW d \in DhIds
      PROVE  /\ IsLent(d) = (d \in sharedDHIds)
             /\ IsLent(d)' = (d \in sharedDHIds \/ d = c)
  <2>1. d # None /\ c # None
    BY NoDevice
  <2>2. ~Stopping(d)
    <3>1. [cmd |-> "START_DHID", dhId |-> c] # [cmd |-> "STOP_DHID", dhId |-> d]
      OBVIOUS
    <3> QED
      BY <1>1, <1>3, <2>1, <3>1 DEF Stopping
  <2>3. ~Stopping(d)'
    BY <1>2, <1>3, <1>4, <2>1 DEF Stopping
  <2> QED
    BY <1>1, <1>2, <2>1, <2>2, <2>3 DEF IsLent
<1>6. Session = << >> /\ Handed = << >> /\ injectQueue = << >> /\ callbackQueue = << >>
  BY <1>3, NoBatches DEF Quiet, NothingToDo
<1>7. Session' = Played(c) /\ Handed' = << >> /\ Played(c) \in Seq(Event)
  <2>1. Handed' = Handed /\ Played(c) \in Seq(Event)
    BY <1>0, <1>2, PlayedTypes DEF Handed
  <2> QED
    BY <1>1, <1>6, <2>1, OfNothing
<1>8. Incoming' = Elements(Played(c)) /\ \A e \in Incoming' : e.dhId = c
  <2>1. \A e \in Elements(Played(c)) : e.dhId = c
    BY <1>0, PlayedElements DEF Elements
  <2> QED
    BY <1>2, <1>6, <1>7, <2>1, OfNothing DEF Incoming
<1>9. ASSUME NEW d \in DhIds PROVE Arriving(d)' = DownAfter(Played(c), d, remoteDown[d])
  <2>1. remoteDown[d] \in SUBSET Keys
    BY <1>0, ArrivingTypes
  <2>2. Called(d)' = remoteDown[d]
    BY <1>2, <1>6, <2>1, AfterNothing DEF Called, Injected
  <2>3. Told(d)' = DownAfter(Played(c), d, remoteDown[d])
    BY <1>7, <2>2 DEF Told
  <2>4. DownAfter(Played(c), d, remoteDown[d]) \in SUBSET Keys
    BY DEF DownAfter
  <2>5. PICK T \in SUBSET Keys : T = DownAfter(Played(c), d, remoteDown[d])
    BY <2>4
  <2>6. DownAfter(<< >>, d, T) = T
    BY <2>5, AfterNothing
  <2> QED
    BY <1>7, <2>3, <2>5, <2>6 DEF Arriving
<1>10. ASSUME NEW d \in DhIds
       PROVE  /\ Arriving(d) = remoteDown[d] /\ Unrecorded(d) = << >>
              /\ Unrecorded(d)' = << >> /\ Live(d)' = Live(d) /\ remoteDown'[d] = remoteDown[d]
  BY <1>0, <1>2, <1>3, NothingArrives DEF Unrecorded, Live
<1>11. ASSUME NEW d \in Keyboards, d # c PROVE LentFollows(d)' /\ UnlentIsFree(d)'
  <2>1. d \in DhIds
    BY DEF DhIds
  <2>2. \A i \in DOMAIN Played(c) : Played(c)[i].dhId # d
    BY <1>0, <1>11, PlayedElements
  <2>3. remoteDown[d] \in SUBSET Keys
    BY <1>0, <2>1, ArrivingTypes
  <2>4. Arriving(d)' = Arriving(d)
    BY <1>9, <1>10, <2>1, <2>2, <2>3, AfterOthers
  <2>5. LentFollows(d) /\ UnlentIsFree(d) /\ IsLent(d)' = IsLent(d)
    BY <1>5, <1>11, <2>1 DEF FollowInv
  <2>6. \A e \in Incoming' : e.dhId # d
    BY <1>8, <1>11
  <2>7. Unrecorded(d)' = Unrecorded(d) /\ Live(d)' = Live(d) /\ remoteDown'[d] = remoteDown[d]
    BY <1>10, <2>1
  <2> QED
    BY <2>4, <2>5, <2>6, <2>7, FollowFrame
<1>12. ASSUME c \in Keyboards PROVE Live(c) = DownAfter(Played(c), c, remoteDown[c])
  <2>1. CASE c \in sharedDHIds
    <3>1. keyDownState[c] = << >>
      BY <1>0, <2>1 DEF TurnsInv, SharedApart
    <3>2. Played(c) = << >>
      <4>1. Len(Played(c)) = Len(keyDownState[c]) /\ Len(<< >>) = 0
        BY <1>0, PlayedTypes
      <4> QED
        BY <1>7, <3>1, <4>1, EmptySeq
    <3>3. Live(c) = remoteDown[c]
      <4>1. Live(c) = DownAfter(<< >>, c, remoteDown[c])
        BY <1>5, <1>10, <1>12, <2>1 DEF FollowInv, LentFollows
      <4> QED
        BY <1>0, <4>1, ArrivingTypes, AfterNothing
    <3> QED
      BY <1>0, <3>2, <3>3, ArrivingTypes, AfterNothing
  <2>2. CASE c \notin sharedDHIds
    <3>1. remoteDown[c] = {}
      BY <1>5, <1>12, <2>2 DEF FollowInv, UnlentIsFree
    <3>2. kernel[c] = << >> /\ collector.dhId # c
      BY <1>3, NoDevice DEF Quiet, Idle
    <3>3. AtSink(c)
      BY <1>1, <2>2, NoDevice DEF AtSink
    <3>4. Elements(keyDownState[c]) = Live(c)
      BY <3>2, <3>3, RecordIsWhole
    <3> QED
      BY <1>0, <3>1, <3>4, PlayedElements
  <2> QED
    BY <2>1, <2>2
<1>13. ASSUME c \in Keyboards PROVE LentFollows(c)' /\ UnlentIsFree(c)'
  <2>1. IsLent(c)'
    BY <1>5
  <2>2. PICK T : T = DownAfter(Played(c), c, remoteDown[c])
    OBVIOUS
  <2>3. T \in SUBSET Keys /\ Live(c)' = T /\ Arriving(c)' = T /\ Unrecorded(c)' = << >>
    BY <1>9, <1>10, <1>12, <1>13, <2>2 DEF DownAfter
  <2>4. Live(c)' = DownAfter(Unrecorded(c)', c, Arriving(c)')
    BY <2>3, AfterNothing
  <2> QED
    BY <2>1, <2>4 DEF LentFollows, UnlentIsFree
<1> QED
  BY <1>11, <1>13 DEF FollowInv

\* A stop that has arrived ends what the source has begun to end.
LEMMA FollowStop ==
    ASSUME KeyAssumption, TypeOK, TurnsInv, FollowInv, StopRemoteInputDhid
    PROVE  FollowInv'
<1>1. PICK c : /\ c = Head(toSink).dhId /\ sharedDHIds' = sharedDHIds \ {c}
               /\ heldOver' = [heldOver EXCEPT ![c] = IF c \in sharedDHIds THEN down[c] ELSE @]
  BY DEF StopRemoteInputDhid
<1>2. /\ UNCHANGED << request, injectQueue, callbackQueue, toSource, eventQueue, remoteDown, kernel,
                      collector, handler, down >>
      /\ handler = None /\ toSink # << >> /\ toSink' = Tail(toSink) /\ Head(toSink).cmd = "STOP_DHID"
  BY DEF StopRemoteInputDhid, NextRequest, userVars, sourceVars
<1>3. toSink \in Seq(SessionRequests)
  BY DEF TypeOK, SessionRequests
<1>4. Len(toSink) = 1 /\ request = None
  BY <1>2 DEF TurnsInv, TakeTurns
<1>5. toSink' = << >>
  <2>1. Tail(toSink) \in Seq(SessionRequests) /\ Len(Tail(toSink)) = Len(toSink) - 1
    BY <1>2, <1>3, OfTail
  <2> QED
    BY <1>2, <1>4, <2>1, EmptySeq
<1>6. Head(toSink) = [cmd |-> "STOP_DHID", dhId |-> c] /\ c \in DhIds
  <2>1. Head(toSink) \in SessionRequests
    BY <1>2, <1>3, HeadTailProperties
  <2> QED
    BY <1>1, <1>2, <2>1 DEF SessionRequests
<1>7. Incoming' = Incoming /\ \A d : Arriving(d)' = Arriving(d) /\ Unrecorded(d)' = Unrecorded(d)
  BY <1>2, ArrivingFrame DEF Session, Handed, Unrecorded
<1>8. ASSUME NEW d \in Keyboards PROVE LentFollows(d)' /\ UnlentIsFree(d)'
  <2>1. d \in DhIds /\ d # None
    BY NoDevice DEF DhIds
  <2>2. LentFollows(d) /\ UnlentIsFree(d) /\ remoteDown'[d] = remoteDown[d]
    BY <1>2 DEF FollowInv
  <2>3. ~Stopping(d)'
    BY <1>2, <1>4, <1>5, <2>1 DEF Stopping
  <2>4. CASE d = c
    <3>1. ~IsLent(d) /\ ~IsLent(d)'
      BY <1>1, <1>2, <1>6, <2>1, <2>4 DEF IsLent, Stopping
    <3>2. IsLent(d)' = IsLent(d)
      BY <3>1 DEF IsLent
    <3> QED
      BY <1>7, <2>2, <3>1, <3>2, FollowFrame
  <2>5. CASE d # c
    <3>1. [cmd |-> "STOP_DHID", dhId |-> c] # [cmd |-> "STOP_DHID", dhId |-> d]
      BY <2>5
    <3>2. ~Stopping(d)
      BY <1>4, <1>6, <2>1, <3>1 DEF Stopping
    <3>3. IsLent(d)' = IsLent(d)
      BY <1>1, <1>2, <2>3, <2>5, <3>2 DEF IsLent
    <3>4. Live(d)' = Live(d)
      <4>1. heldOver'[d] = heldOver[d]
        BY <1>1, <2>1, <2>5 DEF TypeOK
      <4> QED
        BY <1>2, <4>1 DEF Live
    <3> QED
      BY <1>7, <2>2, <3>3, <3>4, FollowFrame
  <2> QED
    BY <2>4, <2>5
<1> QED
  BY <1>8 DEF FollowInv

\* A stop begins with no key down on the virtual keyboard.
LEMMA FollowRequest ==
    ASSUME Disciplined, KeyAssumption, TypeOK, TurnsInv, FollowInv, NEW c \in DhIds,
           StartRemoteInput(c) \/ StopRemoteInput(c)
    PROVE  FollowInv'
<1>0. Control /\ Quiet /\ NothingToDo
  BY TurnsRequest, SettledIs
<1>1. UNCHANGED << injectQueue, callbackQueue, toSource, eventQueue, kernel,
                   collector, sharedDHIds, handler, down, heldOver >>
  BY DEF StartRemoteInput, StopRemoteInput, userVars, sinkVars
<1>2. /\ UNCHANGED << Session, Handed >> /\ Incoming' = Incoming
      /\ \A d : Unrecorded(d)' = Unrecorded(d) /\ Live(d)' = Live(d)
  BY <1>1 DEF Session, Handed, Incoming, Unrecorded, Live
<1>3. toSink = << >> /\ request = None /\ Incoming = {}
  BY <1>0, NothingArrives DEF Control
<1>4. ASSUME NEW d \in Keyboards PROVE LentFollows(d)' /\ UnlentIsFree(d)'
  <2>1. d \in DhIds /\ d # None /\ c # None
    BY NoDevice DEF DhIds
  <2>2. LentFollows(d) /\ UnlentIsFree(d)
    BY DEF FollowInv
  <2>3. ~Stopping(d)
    BY <1>3, <2>1 DEF Stopping
  <2>4. CASE StartRemoteInput(c)
    <3>1. /\ toSink' = Append(toSink, [cmd |-> "START_DHID", dhId |-> c]) /\ UNCHANGED << request, remoteDown >>
      BY <2>4 DEF StartRemoteInput
    <3>2. toSink' = << [cmd |-> "START_DHID", dhId |-> c] >>
      BY <1>3, <3>1
    <3>3. Head(toSink') = [cmd |-> "START_DHID", dhId |-> c]
      BY <3>2
    <3>4. [cmd |-> "START_DHID", dhId |-> c] # [cmd |-> "STOP_DHID", dhId |-> d]
      OBVIOUS
    <3>5. ~Stopping(d)'
      BY <1>3, <2>1, <3>1, <3>3, <3>4 DEF Stopping
    <3>6. IsLent(d)' = IsLent(d)
      BY <1>1, <2>3, <3>5 DEF IsLent
    <3>7. Arriving(d)' = Arriving(d) /\ remoteDown'[d] = remoteDown[d]
      BY <1>1, <1>2, <3>1, ArrivingFrame
    <3> QED
      BY <1>2, <2>2, <3>6, <3>7, FollowFrame
  <2>5. CASE StopRemoteInput(c)
    <3>1. /\ request' = c /\ toSink' = toSink
          /\ remoteDown' = [remoteDown EXCEPT ![c] = IF c \in Keyboards THEN {} ELSE @]
      BY <2>5 DEF StopRemoteInput, sinkVars
    <3>2. Stopping(d)' <=> d = c
      BY <1>3, <3>1 DEF Stopping
    <3>3. CASE d = c
      <4>1. ~IsLent(d)' /\ remoteDown'[d] = {}
        BY <2>1, <3>1, <3>2, <3>3 DEF IsLent, TypeOK
      <4> QED
        BY <1>2, <1>3, <4>1 DEF LentFollows, UnlentIsFree, NoPress
    <3>4. CASE d # c
      <4>1. remoteDown'[d] = remoteDown[d]
        BY <2>1, <3>1, <3>4 DEF TypeOK
      <4>2. Arriving(d)' = Arriving(d)
        BY <1>1, <1>2, <4>1 DEF Arriving, Told, Called, Injected
      <4>3. IsLent(d)' = IsLent(d)
        BY <1>1, <2>3, <3>2, <3>4 DEF IsLent
      <4> QED
        BY <1>2, <2>2, <4>1, <4>2, <4>3, FollowFrame
    <3> QED
      BY <3>3, <3>4
  <2> QED
    BY <2>4, <2>5
<1> QED
  BY <1>4 DEF FollowInv

LEMMA FollowSend ==
    ASSUME KeyAssumption, TypeOK, TurnsInv, FollowInv, SendEvents
    PROVE  FollowInv'
<1>1. UNCHANGED << request, toSink, injectQueue, callbackQueue, remoteDown, kernel,
                   collector, sharedDHIds, handler, down, heldOver >>
  BY DEF SendEvents, userVars, sourceVars
<1>2. PICK b \in Seq(Event) : /\ Handed = b \o Handed' /\ Handed' \in Seq(Event)
                              /\ Session' = Session \o b
  <2>1. switchOn
    BY DEF SendEvents, TurnsInv, SharedApart
  <2> QED
    BY <2>1, SendsBatch
<1>3. Incoming' = Incoming
  <2>1. Session \in Seq(Event)
    BY WayTypes
  <2>2. Elements(Session') = Elements(Session) \cup Elements(b)
    BY <1>2, <2>1, Concatenated
  <2>3. Elements(Handed) = Elements(b) \cup Elements(Handed')
    BY <1>2, Concatenated
  <2> QED
    BY <1>1, <2>2, <2>3 DEF Incoming
<1>4. ASSUME NEW d \in Keyboards PROVE LentFollows(d)' /\ UnlentIsFree(d)'
  <2>1. d \in DhIds
    BY DEF DhIds
  <2>2. Called(d) \in SUBSET Keys /\ Told(d) \in SUBSET Keys /\ Session \in Seq(Event)
    BY <2>1, ArrivingTypes, WayTypes
  <2>3. Called(d)' = Called(d)
    BY <1>1 DEF Called, Injected
  <2>4. DownAfter(Session \o b, d, Called(d)) = DownAfter(b, d, Told(d))
    BY <2>2, AfterConcat DEF Told
  <2>5. Told(d)' = DownAfter(b, d, Told(d))
    BY <1>2, <2>3, <2>4 DEF Told
  <2>6. DownAfter(b \o Handed', d, Told(d)) = DownAfter(Handed', d, DownAfter(b, d, Told(d)))
    BY <1>2, <2>2, AfterConcat
  <2>7. Arriving(d) = DownAfter(b \o Handed', d, Told(d))
    BY <1>2 DEF Arriving
  <2>8. Arriving(d)' = DownAfter(Handed', d, Told(d)')
    BY DEF Arriving
  <2>9. Arriving(d)' = Arriving(d)
    BY <2>5, <2>6, <2>7, <2>8
  <2>10. /\ Unrecorded(d)' = Unrecorded(d) /\ Live(d)' = Live(d) /\ IsLent(d)' = IsLent(d)
         /\ remoteDown'[d] = remoteDown[d] /\ LentFollows(d) /\ UnlentIsFree(d)
    BY <1>1, LentFrame DEF Unrecorded, Live, FollowInv
  <2> QED
    BY <1>3, <2>9, <2>10, FollowFrame
<1> QED
  BY <1>4 DEF FollowInv

\* Events are received behind what is to be injected: there are key states only when
\* there is nothing else.
LEMMA FollowReceive ==
    ASSUME KeyAssumption, TypeOK, TurnsInv, FollowInv, ReceiveFromSink
    PROVE  FollowInv'
<1>1. UNCHANGED << request, toSink, eventQueue, remoteDown, kernel,
                   collector, sharedDHIds, handler, down, heldOver >>
  BY DEF ReceiveFromSink, userVars, sinkVars
<1>2. PICK m \in SessionMessages, b \in Seq(Event) :
         /\ m \in Elements(toSource)
         /\ Session = b \o Session' /\ Session' \in Seq(Event)
         /\ IF m.cmd = "KEY_STATE" THEN callbackQueue' = callbackQueue \o b /\ injectQueue' = injectQueue
            ELSE injectQueue' = injectQueue \o b /\ callbackQueue' = callbackQueue
  BY ReceivesBatch
<1>3. Handed' = Handed /\ injectQueue \in Seq(Event) /\ callbackQueue \in Seq(Event)
  BY <1>1, WayTypes DEF Handed
<1>4. m.cmd # "KEY_STATE" => callbackQueue = << >>
  <2>1. m.cmd # "KEY_STATE" => ~Quiet
    BY <1>2 DEF Quiet, KeyStatesOnly
  <2> QED
    BY <2>1 DEF TurnsInv, TakeTurns, Control
<1>5. Incoming' = Incoming
  <2>1. Elements(Session) = Elements(b) \cup Elements(Session')
    BY <1>2, Concatenated
  <2>2. CASE m.cmd = "KEY_STATE"
    <3>1. Elements(callbackQueue \o b) = Elements(callbackQueue) \cup Elements(b)
      BY <1>3, Concatenated
    <3>2. Elements(callbackQueue') = Elements(callbackQueue) \cup Elements(b) /\ injectQueue' = injectQueue
      BY <1>2, <2>2, <3>1
    <3> QED
      BY <1>3, <2>1, <3>2 DEF Incoming
  <2>3. CASE m.cmd # "KEY_STATE"
    <3>1. Elements(injectQueue \o b) = Elements(injectQueue) \cup Elements(b)
      BY <1>3, Concatenated
    <3>2. Elements(injectQueue') = Elements(injectQueue) \cup Elements(b) /\ callbackQueue' = callbackQueue
      BY <1>2, <2>3, <3>1
    <3> QED
      BY <1>3, <2>1, <3>2 DEF Incoming
  <2> QED
    BY <2>2, <2>3
<1>6. ASSUME NEW d \in Keyboards PROVE LentFollows(d)' /\ UnlentIsFree(d)'
  <2>1. d \in DhIds
    BY DEF DhIds
  <2>2. Injected(d) \in SUBSET Keys /\ Called(d) \in SUBSET Keys /\ remoteDown[d] \in SUBSET Keys
    BY <2>1, ArrivingTypes
  <2>3. Called(d)' = DownAfter(b, d, Called(d))
    <3>1. CASE m.cmd = "KEY_STATE"
      <4>1. Injected(d)' = Injected(d)
        BY <1>1, <1>2, <3>1 DEF Injected
      <4>2. DownAfter(callbackQueue \o b, d, Injected(d)) = DownAfter(b, d, Called(d))
        BY <1>3, <2>2, AfterConcat DEF Called
      <4>3. Called(d)' = DownAfter(callbackQueue', d, Injected(d))
        BY <4>1 DEF Called
      <4> QED
        BY <1>2, <3>1, <4>2, <4>3
    <3>2. CASE m.cmd # "KEY_STATE"
      <4>1. Called(d) = Injected(d)
        BY <1>4, <2>2, <3>2, AfterNothing DEF Called
      <4>2. DownAfter(injectQueue \o b, d, remoteDown[d]) = DownAfter(b, d, Injected(d))
        BY <1>3, <2>2, AfterConcat DEF Injected
      <4>3. Injected(d)' = DownAfter(b, d, Injected(d))
        BY <1>1, <1>2, <3>2, <4>2 DEF Injected
      <4>4. PICK T \in SUBSET Keys : T = DownAfter(b, d, Injected(d))
        BY DEF DownAfter
      <4>5. callbackQueue' = << >>
        BY <1>2, <1>4, <3>2
      <4>6. Called(d)' = DownAfter(<< >>, d, T)
        BY <4>3, <4>4, <4>5 DEF Called
      <4> QED
        BY <4>1, <4>4, <4>6, AfterNothing
    <3> QED
      BY <3>1, <3>2
  <2>4. DownAfter(b \o Session', d, Called(d)) = DownAfter(Session', d, DownAfter(b, d, Called(d)))
    BY <1>2, <2>2, AfterConcat
  <2>5. Told(d) = DownAfter(b \o Session', d, Called(d)) /\ Told(d)' = DownAfter(Session', d, Called(d)')
    BY <1>2 DEF Told
  <2>6. Told(d)' = Told(d)
    BY <2>3, <2>4, <2>5
  <2>7. Arriving(d)' = Arriving(d)
    BY <1>3, <2>6 DEF Arriving
  <2>8. /\ Unrecorded(d)' = Unrecorded(d) /\ Live(d)' = Live(d) /\ IsLent(d)' = IsLent(d)
        /\ remoteDown'[d] = remoteDown[d] /\ LentFollows(d) /\ UnlentIsFree(d)
    BY <1>1, LentFrame DEF Unrecorded, Live, FollowInv
  <2> QED
    BY <1>5, <2>7, <2>8, FollowFrame
<1> QED
  BY <1>6 DEF FollowInv

LEMMA HeadAfter ==
    ASSUME NEW q \in Seq(Event), q # << >>, NEW d, NEW S \in SUBSET Keys
    PROVE  /\ DownAfter(q, d, S) = DownAfter(Tail(q), d, TurnedBy(Head(q), d, S))
           /\ Head(q) \in Event /\ Tail(q) \in Seq(Event)
           /\ Elements(q) = {Head(q)} \cup Elements(Tail(q))
<1>1. /\ Head(q) \in Event /\ Tail(q) \in Seq(Event)
      /\ Elements(q) = {Head(q)} \cup Elements(Tail(q))
  BY OfTail
<1>2. PICK e, t : e = Head(q) /\ t = Tail(q)
  OBVIOUS
<1>3. q = << e >> \o t
  BY <1>2, HeadJoins
<1>4. PICK s \in Seq(Event) : s = << e >>
  BY <1>1, <1>2, Single
<1>5. DownAfter(s \o t, d, S) = DownAfter(t, d, DownAfter(s, d, S))
  <2>1. t \in Seq(Event)
    BY <1>1, <1>2
  <2> QED
    BY <2>1, AfterConcat
<1>6. DownAfter(s, d, S) = TurnedBy(e, d, S)
  BY <1>1, <1>2, <1>4, AfterEvent
<1> QED
  BY <1>1, <1>2, <1>3, <1>4, <1>5, <1>6

LEMMA FollowCallback ==
    ASSUME KeyAssumption, TypeOK, FollowInv, RunKeyStateCallback
    PROVE  FollowInv'
<1>1. /\ UNCHANGED << request, toSink, toSource, eventQueue, remoteDown, kernel,
                      collector, sharedDHIds, handler, down, heldOver >>
      /\ callbackQueue # << >> /\ callbackQueue' = Tail(callbackQueue)
      /\ injectQueue' = Append(injectQueue, Head(callbackQueue))
  BY DEF RunKeyStateCallback, userVars, sinkVars
<1>2. Session' = Session /\ Handed' = Handed
  BY <1>1 DEF Session, Handed
<1>3. injectQueue \in Seq(Event) /\ callbackQueue \in Seq(Event)
  BY WayTypes
<1>4. PICK e \in Event : e = Head(callbackQueue)
  BY <1>1, <1>3, OfTail
<1>5. Incoming' = Incoming
  <2>1. Elements(callbackQueue) = {e} \cup Elements(callbackQueue')
    BY <1>1, <1>3, <1>4, OfTail
  <2>2. Elements(Append(injectQueue, e)) = Elements(injectQueue) \cup {e}
    BY <1>3, Appended
  <2>3. Elements(injectQueue') = Elements(injectQueue) \cup {e}
    BY <1>1, <1>4, <2>2
  <2> QED
    BY <1>2, <2>1, <2>3 DEF Incoming
<1>6. ASSUME NEW d \in Keyboards PROVE LentFollows(d)' /\ UnlentIsFree(d)'
  <2>1. d \in DhIds
    BY DEF DhIds
  <2>2. Injected(d) \in SUBSET Keys /\ remoteDown[d] \in SUBSET Keys
    BY <2>1, ArrivingTypes
  <2>3. Injected(d)' = TurnedBy(e, d, Injected(d))
    <3>1. DownAfter(Append(injectQueue, e), d, remoteDown[d]) = TurnedBy(e, d, Injected(d))
      BY <1>3, <2>2, AfterAppend DEF Injected
    <3> QED
      BY <1>1, <1>4, <3>1 DEF Injected
  <2>4. DownAfter(callbackQueue, d, Injected(d)) = DownAfter(callbackQueue', d, TurnedBy(e, d, Injected(d)))
    BY <1>1, <1>3, <1>4, <2>2, HeadAfter
  <2>5. Called(d)' = Called(d)
    BY <2>3, <2>4 DEF Called
  <2>6. Arriving(d)' = Arriving(d)
    BY <1>2, <2>5 DEF Arriving, Told
  <2>7. /\ Unrecorded(d)' = Unrecorded(d) /\ Live(d)' = Live(d) /\ IsLent(d)' = IsLent(d)
        /\ remoteDown'[d] = remoteDown[d] /\ LentFollows(d) /\ UnlentIsFree(d)
    BY <1>1, LentFrame DEF Unrecorded, Live, FollowInv
  <2> QED
    BY <1>5, <2>6, <2>7, FollowFrame
<1> QED
  BY <1>6 DEF FollowInv

LEMMA FollowInject ==
    ASSUME KeyAssumption, TypeOK, FollowInv, InjectInputEvent
    PROVE  FollowInv'
<1>1. /\ UNCHANGED << request, toSink, toSource, eventQueue, callbackQueue, kernel,
                      collector, sharedDHIds, handler, down, heldOver >>
      /\ injectQueue # << >> /\ injectQueue' = Tail(injectQueue)
  BY DEF InjectInputEvent, userVars, sinkVars
<1>2. Session' = Session /\ Handed' = Handed /\ injectQueue \in Seq(Event)
  BY <1>1, WayTypes DEF Session, Handed
<1>3. PICK e \in Event :
         /\ e = Head(injectQueue)
         /\ remoteDown' = [remoteDown EXCEPT ![e.dhId] =
                             CASE e.value = "down"   -> @ \cup {e.code}
                               [] e.value = "up"     -> @ \ {e.code}
                               [] e.value = "repeat" -> @]
  <2>1. Head(injectQueue) \in Event
    BY <1>1, <1>2, OfTail
  <2> QED
    BY <2>1 DEF InjectInputEvent
<1>4. Elements(injectQueue) = {e} \cup Elements(injectQueue')
  BY <1>1, <1>2, <1>3, OfTail
<1>5. Incoming = Incoming' \cup {e}
  BY <1>1, <1>2, <1>4 DEF Incoming
<1>6. ASSUME NEW d \in DhIds PROVE remoteDown'[d] = TurnedBy(e, d, remoteDown[d])
  <2>1. e.value \in {"down", "up", "repeat"} /\ e.dhId \in DhIds
    BY DEF Event
  <2>2. remoteDown \in [DhIds -> SUBSET Keys]
    BY DEF TypeOK
  <2>3. CASE d # e.dhId
    BY <1>3, <2>1, <2>2, <2>3 DEF TurnedBy
  <2>4. CASE d = e.dhId
    <3>1. CASE e.value = "down"
      BY <1>3, <2>1, <2>2, <2>4, <3>1 DEF TurnedBy
    <3>2. CASE e.value = "up"
      BY <1>3, <2>1, <2>2, <2>4, <3>2 DEF TurnedBy
    <3>3. CASE e.value = "repeat"
      BY <1>3, <2>1, <2>2, <2>4, <3>3 DEF TurnedBy
    <3> QED
      BY <2>1, <3>1, <3>2, <3>3
  <2> QED
    BY <2>3, <2>4
<1>7. ASSUME NEW d \in Keyboards PROVE LentFollows(d)' /\ UnlentIsFree(d)'
  <2>1. d \in DhIds
    BY DEF DhIds
  <2>2. remoteDown[d] \in SUBSET Keys
    BY <2>1, ArrivingTypes
  <2>3. Injected(d)' = Injected(d)
    <3>1. DownAfter(injectQueue, d, remoteDown[d]) = DownAfter(injectQueue', d, TurnedBy(e, d, remoteDown[d]))
      BY <1>1, <1>2, <1>3, <2>2, HeadAfter
    <3> QED
      BY <1>6, <2>1, <3>1 DEF Injected
  <2>4. Arriving(d)' = Arriving(d)
    BY <1>1, <1>2, <2>3 DEF Arriving, Told, Called
  <2>5. /\ Unrecorded(d)' = Unrecorded(d) /\ Live(d)' = Live(d) /\ IsLent(d)' = IsLent(d)
        /\ LentFollows(d) /\ UnlentIsFree(d)
    BY <1>1, LentFrame DEF Unrecorded, Live, FollowInv
  <2>6. IsLent(d) \/ remoteDown'[d] = {}
    <3>1. ~IsLent(d) => remoteDown[d] = {} /\ (e.dhId = d => e.value # "down")
      BY <1>5, <2>5 DEF UnlentIsFree, NoPress
    <3>2. ~IsLent(d) => TurnedBy(e, d, remoteDown[d]) = {}
      BY <3>1 DEF TurnedBy
    <3> QED
      BY <1>6, <2>1, <3>2
  <2> QED
    BY <1>5, <2>4, <2>5, <2>6, FollowFrame
<1> QED
  BY <1>7 DEF FollowInv

LEMMA FollowStep ==
    ASSUME Disciplined, KeyAssumption, RecordedInv, FollowInv, [Next]_vars
    PROVE  FollowInv'
<1>0. TypeOK /\ KeyPlaces /\ StrokeInv /\ TurnsInv
  BY DEF RecordedInv, KeysInv
<1>1. ASSUME NEW d \in DhIds, NEW k \in Keys,
             Press(d, k) \/ Release(d, k) \/ Repeat(d, k)
      PROVE  FollowInv'
  BY <1>0, <1>1, FollowStroke
<1>2. CASE CheckShared /\ collector.dhId \in sharedDHIds
  BY <1>0, <1>2, FollowPost
<1>3. CASE RecordEvent
  BY <1>0, <1>3, FollowRecord
<1>4. CASE StartRecordDhIds
  BY <1>4, FollowStart
<1>5. CASE StopRemoteInputDhid
  BY <1>0, <1>5, FollowStop
<1>6. ASSUME NEW d \in DhIds, StartRemoteInput(d) \/ StopRemoteInput(d) PROVE FollowInv'
  BY <1>0, <1>6, FollowRequest
<1>7. CASE SendEvents
  BY <1>0, <1>7, FollowSend
<1>8. CASE ReceiveFromSink
  BY <1>0, <1>8, FollowReceive
<1>9. CASE RunKeyStateCallback
  BY <1>0, <1>9, FollowCallback
<1>10. CASE InjectInputEvent
  BY <1>0, <1>10, FollowInject
\* The rest neither moves an event nor changes who has a device.
<1>11. ASSUME UNCHANGED << injectQueue, callbackQueue, toSource, eventQueue, remoteDown, down, heldOver >>,
              \A d \in DhIds : IsLent(d)' = IsLent(d) /\ Unrecorded(d)' = Unrecorded(d)
       PROVE  FollowInv'
  <2>1. /\ Incoming' = Incoming /\ \A d : Arriving(d)' = Arriving(d)
        /\ \A d : Live(d)' = Live(d) /\ remoteDown'[d] = remoteDown[d]
    BY <1>11, ArrivingFrame DEF Session, Handed, Live
  <2>2. ASSUME NEW d \in Keyboards PROVE LentFollows(d)' /\ UnlentIsFree(d)'
    <3>1. d \in DhIds /\ LentFollows(d) /\ UnlentIsFree(d)
      BY DEF FollowInv, DhIds
    <3> QED
      BY <1>11, <2>1, <3>1, FollowFrame
  <2> QED
    BY <2>2 DEF FollowInv
<1>12. CASE \/ \E d \in DhIds : ReadEvents(d)
            \/ CheckShared /\ collector.dhId \notin sharedDHIds
            \/ RecordedAll
  <2>1. UNCHANGED << injectQueue, callbackQueue, toSource, eventQueue, remoteDown, down, heldOver >>
    BY <1>12 DEF ReadEvents, CheckShared, RecordedAll, userVars, sourceVars
  <2>2. UNCHANGED << request, toSink, sharedDHIds, handler >>
    BY <1>12 DEF ReadEvents, CheckShared, RecordedAll, userVars, sourceVars
  <2>3. \A d \in DhIds : Unrecorded(d)' = Unrecorded(d)
    <3>2. CASE ~(CheckShared /\ collector.dhId \in sharedDHIds)
      BY <1>0, <1>12, <3>2, CollectsOn
    <3>3. CASE CheckShared /\ collector.dhId \in sharedDHIds
      <4>1. collector.dhId # None
        BY <3>3 DEF CheckShared
      <4>2. FALSE
        <5>1. /\ \A d \in DhIds : ~ReadEvents(d)
              /\ ~RecordedAll
          BY <3>3, <4>1 DEF ReadEvents, RecordedAll, CheckShared, Idle
        <5> QED
          BY <1>12, <3>3, <5>1
      <4> QED
        BY <4>2
    <3> QED
      BY <3>2, <3>3
  <2> QED
    BY <1>11, <2>1, <2>2, <2>3, LentFrame
<1>13. CASE StartSetSharing
  <2>1. /\ UNCHANGED << injectQueue, callbackQueue, toSource, eventQueue, remoteDown, down, heldOver >>
        /\ UNCHANGED << request, toSink, kernel, collector >>
        /\ handler' = None /\ sharedDHIds' = sharedDHIds \cup {handler}
    BY <1>13 DEF StartSetSharing, userVars, sourceVars, stateVars
  <2>2. \A d \in DhIds : IsLent(d)' = IsLent(d)
    BY <2>1, NoDevice DEF IsLent, Stopping
  <2>3. \A d \in DhIds : Unrecorded(d)' = Unrecorded(d)
    BY <2>1 DEF Unrecorded
  <2> QED
    BY <1>11, <2>1, <2>2, <2>3
<1>14. CASE SendStop
  <2>1. /\ UNCHANGED << injectQueue, callbackQueue, toSource, eventQueue, remoteDown, down, heldOver >>
        /\ UNCHANGED << kernel, collector, sharedDHIds, handler >>
    BY <1>14 DEF SendStop, userVars, sinkVars
  <2>2. /\ request # None /\ request' = None
        /\ toSink' = Append(toSink, [cmd |-> "STOP_DHID", dhId |-> request])
    BY <1>14 DEF SendStop
  <2>3. toSink = << >>
    BY <1>0, <2>2 DEF TurnsInv, TakeTurns
  <2>4. PICK m : m = [cmd |-> "STOP_DHID", dhId |-> request]
    OBVIOUS
  <2>5. toSink' = << m >>
    BY <2>2, <2>3, <2>4
  <2>6. toSink' # << >> /\ Head(toSink') = m
    BY <2>5
  <2>7. ASSUME NEW d \in DhIds PROVE IsLent(d)' = IsLent(d)
    <3>1. d # None
      BY NoDevice
    <3>2. m = [cmd |-> "STOP_DHID", dhId |-> d] <=> d = request
      BY <2>4
    <3>3. Stopping(d)' <=> Stopping(d)
      BY <2>2, <2>3, <2>6, <3>1, <3>2 DEF Stopping
    <3> QED
      BY <2>1, <3>3 DEF IsLent
  <2>8. \A d \in DhIds : Unrecorded(d)' = Unrecorded(d)
    BY <2>1 DEF Unrecorded
  <2> QED
    BY <1>11, <2>1, <2>7, <2>8
<1>15. CASE UNCHANGED vars
  <2>1. /\ UNCHANGED << injectQueue, callbackQueue, toSource, eventQueue, remoteDown, down, heldOver >>
        /\ UNCHANGED << request, toSink, kernel, collector, sharedDHIds, handler >>
    BY <1>15 DEF vars, userVars, sinkVars, sourceVars
  <2>2. \A d \in DhIds : Unrecorded(d)' = Unrecorded(d)
    BY <2>1 DEF Unrecorded
  <2> QED
    BY <1>11, <2>1, <2>2, LentFrame
<1> QED
  <2>1. CheckShared => \/ CheckShared /\ collector.dhId \in sharedDHIds
                       \/ CheckShared /\ collector.dhId \notin sharedDHIds
    OBVIOUS
  <2> QED
    BY <1>1, <1>2, <1>3, <1>4, <1>5, <1>6, <1>7, <1>8, <1>9, <1>10, <1>12, <1>13, <1>14, <1>15,
       <2>1 DEF Next

\* In disciplined use, whenever nothing is under way, a virtual keyboard has exactly the keys
\* down that are held on the keyboard it stands for, those included that were replayed to it
\* at the start, and none once the keyboard is taken back.
THEOREM VirtualKeyboardFollows ==
    ASSUME KeyAssumption, Disciplined
    PROVE  Spec => []SourceFollowsKeyboard
<1>1. Init => FollowInv
  BY FollowInit
<1>2. RecordedInv /\ FollowInv /\ [Next]_vars => FollowInv'
  BY FollowStep
<1>3. ASSUME RecordedInv, FollowInv PROVE SourceFollowsKeyboard
  <2> SUFFICES ASSUME Settled, NEW d \in Keyboards
               PROVE  remoteDown[d] = IF d \in sharedDHIds THEN down[d] \ heldOver[d] ELSE {}
    BY DEF SourceFollowsKeyboard
  <2>1. d \in DhIds /\ d # None
    BY NoDevice DEF DhIds
  <2>2. Control /\ Quiet /\ NothingToDo
    BY SettledIs
  <2>3. TypeOK
    BY <1>3 DEF RecordedInv, KeysInv
  <2>4. Arriving(d) = remoteDown[d] /\ Unrecorded(d) = << >> /\ remoteDown[d] \in SUBSET Keys
    BY <2>1, <2>2, <2>3, NothingArrives, ArrivingTypes
  <2>5. IsLent(d) <=> d \in sharedDHIds
    BY <2>1, <2>2 DEF IsLent, Stopping, Control
  <2>6. CASE d \in sharedDHIds
    <3>1. Live(d) = DownAfter(<< >>, d, remoteDown[d])
      BY <1>3, <2>4, <2>5, <2>6 DEF FollowInv, LentFollows
    <3> QED
      BY <2>4, <2>6, <3>1, AfterNothing DEF Live
  <2>7. CASE d \notin sharedDHIds
    BY <1>3, <2>5, <2>7 DEF FollowInv, UnlentIsFree
  <2> QED
    BY <2>6, <2>7
<1>4. Spec => []RecordedInv
  BY RecordedInvHolds
<1>5. RecordedInv /\ FollowInv => SourceFollowsKeyboard
  BY <1>3
<1> QED
  BY <1>1, <1>2, <1>4, <1>5, PTL DEF Spec

===============================================================================
