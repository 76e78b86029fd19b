------------------------- MODULE ByteEncodingProofs -------------------------
(***************************************************************************)
(* What the proofs about bytes keep needing: induction over numbers and    *)
(* sequences, stated with sets; FlattenSeq of the empty, the longer and    *)
(* the joined sequence; and that a 32-bit number is read back as it was    *)
(* written.                                                                *)
(***************************************************************************)
EXTENDS ByteEncoding, SequencesExt, SequenceTheorems, WellFoundedInduction,
        TLAPS

LEMMA LeastNumber ==
  ASSUME NEW T, T \subseteq Nat, T # {}
  PROVE  \E n \in T : \A m \in T : n <= m
<1>1. PICK n \in T : \A m \in T : ~ (<<m, n>> \in OpToRel(<, Nat))
  BY NatLessThanWellFounded, WFMin
<1>2. \A m \in T : ~ (m < n)
  BY <1>1 DEF OpToRel
<1> QED BY <1>2

(* Induction, for a set instead of a predicate.                            *)
LEMMA NumberInduction ==
  ASSUME NEW T, 0 \in T, \A n \in Nat : n \in T => n + 1 \in T
  PROVE  Nat \subseteq T
<1> SUFFICES ASSUME ~ (Nat \subseteq T) PROVE FALSE
  OBVIOUS
<1> DEFINE Missing == {n \in Nat : n \notin T}
<1>1. PICK n \in Missing : \A m \in Missing : n <= m
  <2>1. Missing # {} /\ Missing \subseteq Nat
    OBVIOUS
  <2> HIDE DEF Missing
  <2> QED BY <2>1, LeastNumber
<1>2. n # 0 /\ n - 1 \in Nat /\ n - 1 \notin Missing
  BY <1>1
<1> QED BY <1>1, <1>2

(* A set with the empty sequence, and with every sequence its longer ones, *)
(* has them all.                                                           *)
LEMMA SequenceInduction ==
  ASSUME NEW S, NEW T, <<>> \in T,
         \A s \in Seq(S), e \in S : s \in T => Append(s, e) \in T
  PROVE  Seq(S) \subseteq T
<1> DEFINE L == {n \in Nat : \A s \in Seq(S) : Len(s) = n => s \in T}
<1>1. 0 \in L
  BY EmptySeq
<1>2. ASSUME NEW n \in Nat, n \in L PROVE n + 1 \in L
  <2> SUFFICES ASSUME NEW s \in Seq(S), Len(s) = n + 1 PROVE s \in T
    OBVIOUS
  <2>1. s # <<>>
    BY EmptySeq
  <2>2. PICK u \in Seq(S), e \in S : s = Append(u, e)
    BY <2>1, SequenceEmptyOrAppend
  <2>3. Len(u) = n
    BY <2>2, AppendProperties
  <2> QED BY <1>2, <2>2, <2>3
<1> HIDE DEF L
<1>3. Nat \subseteq L
  BY <1>1, <1>2, NumberInduction
<1> QED BY <1>3, LenProperties DEF L

LEMMA ConcatFirst ==
  ASSUME NEW S, NEW s \in Seq(S), NEW t \in Seq(S), NEW i \in 1 .. Len(s)
  PROVE  (s \o t)[i] = s[i]
  OBVIOUS

-----------------------------------------------------------------------------
(* Sequences cut and joined.  s is x followed by y, element by element.    *)
Joins(s, x, y) ==
  /\ Len(s) = Len(x) + Len(y)
  /\ \A i \in 1 .. Len(x) : s[i] = x[i]
  /\ \A i \in 1 .. Len(y) : s[Len(x) + i] = y[i]

LEMMA JoinsIsConcat ==
  ASSUME NEW S, NEW s \in Seq(S), NEW x \in Seq(S), NEW y \in Seq(S)
  PROVE  Joins(s, x, y) <=> s = x \o y
<1> DEFINE t == x \o y
<1>1. /\ t \in Seq(S) /\ Len(t) = Len(x) + Len(y)
      /\ \A i \in 1 .. Len(x) + Len(y) :
           t[i] = IF i <= Len(x) THEN x[i] ELSE y[i - Len(x)]
  BY ConcatProperties
<1> HIDE DEF t
<1>2. ASSUME Joins(s, x, y) PROVE s = t
  <2>1. Len(s) = Len(t)
    BY <1>1, <1>2 DEF Joins
  <2>2. ASSUME NEW i \in 1 .. Len(s) PROVE s[i] = t[i]
    <3>1. CASE i <= Len(x)
      BY <1>1, <1>2, <3>1 DEF Joins
    <3>2. CASE i > Len(x)
      <4> DEFINE j == i - Len(x)
      <4>1. Len(x) \in Nat /\ Len(y) \in Nat /\ Len(s) = Len(x) + Len(y)
        BY <1>2, LenProperties DEF Joins
      <4>2. /\ j \in 1 .. Len(y) /\ i = Len(x) + j
            /\ i \in 1 .. Len(x) + Len(y) /\ ~ (i <= Len(x))
        BY <3>2, <4>1
      <4>3. t[i] = y[j]
        BY <1>1, <4>2
      <4> HIDE DEF j
      <4>4. s[Len(x) + j] = y[j]
        BY <1>2, <4>2 DEF Joins
      <4> QED BY <4>2, <4>3, <4>4
    <3> QED BY <3>1, <3>2
  <2> QED BY <1>1, <2>1, <2>2, SeqEqual
<1>3. Joins(t, x, y)
  BY <1>1 DEF Joins
<1> QED BY <1>2, <1>3 DEF t

LEMMA SubSeqAt ==
  ASSUME NEW S, NEW s \in Seq(S), NEW n \in 0 .. Len(s)
  PROVE  LET x == SubSeq(s, 1, n)
             y == SubSeq(s, n + 1, Len(s))
         IN  /\ x \in Seq(S) /\ Len(x) = n /\ \A i \in 1 .. n : x[i] = s[i]
             /\ y \in Seq(S) /\ Len(y) = Len(s) - n
             /\ \A i \in 1 .. Len(s) - n : y[i] = s[n + i]
  OBVIOUS

LEMMA SplitAt ==
  ASSUME NEW S, NEW s \in Seq(S), NEW n \in 0 .. Len(s)
  PROVE  s = SubSeq(s, 1, n) \o SubSeq(s, n + 1, Len(s))
<1>1. Len(s) \in n .. Len(s) /\ 1 \in 1 .. Len(s) + 1 /\ n \in 1 - 1 .. Len(s)
  BY LenProperties
<1>2. SubSeq(s, 1, n) \o SubSeq(s, n + 1, Len(s)) = SubSeq(s, 1, Len(s))
  BY <1>1, ConcatAdjacentSubSeq
<1> QED BY <1>2, SubSeqFull

LEMMA DropFromConcat ==
  ASSUME NEW S, NEW s \in Seq(S), NEW t \in Seq(S), NEW n \in 0 .. Len(s)
  PROVE  SubSeq(s \o t, n + 1, Len(s \o t)) = SubSeq(s, n + 1, Len(s)) \o t
<1> DEFINE a == SubSeq(s \o t, n + 1, Len(s \o t))
           b == SubSeq(s, n + 1, Len(s)) \o t
<1>1. a \in Seq(S) /\ b \in Seq(S) /\ Len(a) = Len(b)
  OBVIOUS
<1>2. \A i \in 1 .. Len(a) : a[i] = b[i]
  OBVIOUS
<1> HIDE DEF a, b
<1>3. a = b
  BY <1>1, <1>2, SeqEqual
<1> QED BY <1>3 DEF a, b

(* Of two ways to cut a sequence in two, the one that cuts later: r is     *)
(* what lies between the cuts.                                             *)
Between(S, a, b, c, d) == \E r \in Seq(S) : c = a \o r /\ b = r \o d

LEMMA LaterCut ==
  ASSUME NEW S, NEW a \in Seq(S), NEW b \in Seq(S), NEW c \in Seq(S),
         NEW d \in Seq(S), Len(a) <= Len(c)
  PROVE  a \o b = c \o d => Between(S, a, b, c, d)
<1> SUFFICES ASSUME NEW s \in Seq(S), Joins(s, a, b), Joins(s, c, d)
             PROVE  Between(S, a, b, c, d)
  <2> DEFINE s == a \o b
  <2>1. s \in Seq(S)
    BY ConcatProperties
  <2>2. Joins(s, a, b)
    BY <2>1, JoinsIsConcat
  <2>3. s = c \o d => Joins(s, c, d)
    BY <2>1, JoinsIsConcat
  <2> HIDE DEF s
  <2> QED BY <2>1, <2>2, <2>3, Zenon DEF s
<1>1. Len(a) \in 0 .. Len(c) /\ Len(b) \in Nat /\ Len(c) \in Nat /\ Len(d) \in Nat
  BY LenProperties
<1>2. PICK r \in Seq(S) : /\ Len(r) = Len(c) - Len(a)
                          /\ \A i \in 1 .. Len(c) - Len(a) : r[i] = c[Len(a) + i]
  <2> DEFINE x == SubSeq(c, Len(a) + 1, Len(c))
  <2>1. /\ x \in Seq(S) /\ Len(x) = Len(c) - Len(a)
        /\ \A i \in 1 .. Len(c) - Len(a) : x[i] = c[Len(a) + i]
    BY <1>1, SubSeqAt
  <2> HIDE DEF x
  <2> QED BY <2>1
<1>3. Len(s) = Len(a) + Len(b) /\ Len(s) = Len(c) + Len(d)
  BY DEF Joins
<1>4. Len(c) = Len(a) + Len(r) /\ Len(b) = Len(r) + Len(d)
  <2>1. Len(r) = Len(c) - Len(a)
    BY <1>2
  <2> DEFINE la == Len(a)  lb == Len(b)  lc == Len(c)  ld == Len(d)
             lr == Len(r)
  <2>2. la \in Nat /\ lb \in Nat /\ lc \in Nat /\ ld \in Nat
    BY <1>1
  <2>3. la + lb = lc + ld
    BY <1>3, Zenon
  <2>4. lr = lc - la
    BY <2>1, Zenon
  <2> HIDE DEF la, lb, lc, ld, lr
  <2>5. lc = la + lr /\ lb = lr + ld
    BY <2>2, <2>3, <2>4
  <2> QED BY <2>5 DEF la, lb, lc, ld, lr
<1>5. Joins(c, a, r)
  <2>1. ASSUME NEW i \in 1 .. Len(a) PROVE c[i] = a[i]
    <3>1. i \in 1 .. Len(c)
      BY <1>1
    <3> QED BY <3>1 DEF Joins
  <2>2. ASSUME NEW i \in 1 .. Len(r) PROVE c[Len(a) + i] = r[i]
    BY <1>2
  <2> QED BY <1>4, <2>1, <2>2 DEF Joins
<1>6. Joins(b, r, d)
  <2>1. ASSUME NEW i \in 1 .. Len(r) PROVE b[i] = r[i]
    <3>1. Len(a) + i \in 1 .. Len(c) /\ i \in 1 .. Len(b)
      BY <1>1, <1>2, <1>4
    <3>2. s[Len(a) + i] = c[Len(a) + i]
      BY <3>1 DEF Joins
    <3>3. s[Len(a) + i] = b[i]
      BY <3>1 DEF Joins
    <3>4. r[i] = c[Len(a) + i]
      BY <1>2
    <3> QED BY <3>2, <3>3, <3>4
  <2>2. ASSUME NEW i \in 1 .. Len(d) PROVE b[Len(r) + i] = d[i]
    <3> DEFINE j == Len(r) + i
    <3>1. j \in 1 .. Len(b) /\ Len(a) + j = Len(c) + i
      BY <1>1, <1>2, <1>4
    <3> HIDE DEF j
    <3>2. s[Len(a) + j] = b[j]
      BY <3>1 DEF Joins
    <3>3. s[Len(c) + i] = d[i]
      BY DEF Joins
    <3> QED BY <3>1, <3>2, <3>3 DEF j
  <2> QED BY <1>4, <2>1, <2>2 DEF Joins
<1>7. c = a \o r
  BY <1>5, JoinsIsConcat
<1>8. b = r \o d
  BY <1>6, JoinsIsConcat
<1> QED BY <1>7, <1>8 DEF Between

LEMMA TakeFromConcat ==
  ASSUME NEW S, NEW s \in Seq(S), NEW t \in Seq(S), NEW n \in 0 .. Len(s)
  PROVE  SubSeq(s \o t, 1, n) = SubSeq(s, 1, n)
<1> DEFINE x == SubSeq(s \o t, 1, n)  y == SubSeq(s, 1, n)  u == s \o t
<1>1. u \in Seq(S) /\ Len(u) = Len(s) + Len(t) /\ n \in 0 .. Len(u)
  BY ConcatProperties, LenProperties
<1>2. \A i \in 1 .. n : u[i] = s[i]
  <2>1. ASSUME NEW i \in 1 .. n PROVE u[i] = s[i]
    <3>1. i \in 1 .. Len(s)
      BY LenProperties
    <3> QED BY <3>1, ConcatFirst
  <2> QED BY <2>1
<1>3. x \in Seq(S) /\ Len(x) = n /\ \A i \in 1 .. n : x[i] = u[i]
  <2> HIDE DEF u
  <2> QED BY <1>1, SubSeqAt DEF u
<1>4. y \in Seq(S) /\ Len(y) = n /\ \A i \in 1 .. n : y[i] = s[i]
  BY SubSeqAt
<1> HIDE DEF x, y, u
<1>5. x = y
  BY <1>2, <1>3, <1>4, SeqEqual
<1> QED BY <1>5 DEF x, y

(* What follows the first of two sequences is the second.                  *)
LEMMA DropFirst ==
  ASSUME NEW S, NEW s \in Seq(S), NEW t \in Seq(S)
  PROVE  SubSeq(s \o t, Len(s) + 1, Len(s \o t)) = t
<1>1. Len(s) \in 0 .. Len(s)
  BY LenProperties
<1>2. SubSeq(s \o t, Len(s) + 1, Len(s \o t))
        = SubSeq(s, Len(s) + 1, Len(s)) \o t
  BY <1>1, DropFromConcat
<1>3. SubSeq(s, Len(s) + 1, Len(s)) = <<>>
  OBVIOUS
<1>4. <<>> \o t = t
  BY ConcatEmptySeq
<1> QED BY <1>2, <1>3, <1>4

LEMMA FirstAndRest ==
  ASSUME NEW S, NEW s \in Seq(S), s # <<>>
  PROVE  s[1] \in S /\ Tail(s) \in Seq(S) /\ s = <<s[1]>> \o Tail(s)
<1>1. s[1] \in S /\ Tail(s) \in Seq(S) /\ Len(s) \in Nat \ {0}
  OBVIOUS
<1>2. Len(<<s[1]>> \o Tail(s)) = Len(s) /\ <<s[1]>> \o Tail(s) \in Seq(S)
  BY <1>1
<1>3. \A i \in 1 .. Len(s) : s[i] = (<<s[1]>> \o Tail(s))[i]
  BY <1>1
<1> QED BY <1>2, <1>3, SeqEqual

-----------------------------------------------------------------------------
(* FlattenSeq of a sequence that is not empty, as the library computes it. *)
Flattens(ss, f, k) ==
  f = [i \in 1 .. k |-> IF i = 1 THEN ss[i] ELSE f[i - 1] \o ss[i]]

LEMMA FlattensExists ==
  ASSUME NEW ss, NEW k \in Nat
  PROVE  \E f : Flattens(ss, f, k)
<1> DEFINE T == {n \in Nat : \E f : Flattens(ss, f, n)}
<1>1. 0 \in T
  <2> DEFINE f == [i \in 1 .. 0 |-> <<>>]
  <2>1. f = [i \in 1 .. 0 |-> IF i = 1 THEN ss[i] ELSE f[i - 1] \o ss[i]]
    OBVIOUS
  <2> HIDE DEF f
  <2> QED BY <2>1 DEF Flattens
<1>2. ASSUME NEW n \in Nat, n \in T PROVE n + 1 \in T
  <2>1. PICK f : Flattens(ss, f, n)
    BY <1>2
  <2> DEFINE g == [i \in 1 .. n + 1 |->
                     IF i <= n THEN f[i]
                     ELSE IF i = 1 THEN ss[i] ELSE f[i - 1] \o ss[i]]
  <2>2. \A i \in 1 .. n : f[i] = IF i = 1 THEN ss[i] ELSE f[i - 1] \o ss[i]
    BY <2>1 DEF Flattens
  <2>3. \A i \in 1 .. n + 1 :
          g[i] = IF i = 1 THEN ss[i] ELSE g[i - 1] \o ss[i]
    BY <2>2
  <2>4. g = [i \in 1 .. n + 1 |-> g[i]]
    OBVIOUS
  <2> HIDE DEF g
  <2>5. Flattens(ss, g, n + 1)
    BY <2>3, <2>4 DEF Flattens
  <2> QED BY <2>5
<1> HIDE DEF T
<1>3. k \in T
  BY <1>1, <1>2, NumberInduction
<1> QED BY <1>3 DEF T

(* What that function is at each place.                                    *)
Unfolds(ss, f, k) ==
  \A i \in 1 .. k : f[i] = IF i = 1 THEN ss[i] ELSE f[i - 1] \o ss[i]

LEMMA FlattenIs ==
  ASSUME NEW ss, Len(ss) \in Nat \ {0}
  PROVE  \E f : Unfolds(ss, f, Len(ss)) /\ FlattenSeq(ss) = f[Len(ss)]
<1> DEFINE f == CHOOSE g : Flattens(ss, g, Len(ss))
<1>1. Flattens(ss, f, Len(ss))
  BY FlattensExists, Zenon
<1>2. Unfolds(ss, f, Len(ss))
  <2> HIDE DEF f
  <2> QED BY <1>1, Zenon DEF Flattens, Unfolds
<1>3. FlattenSeq(ss) = f[Len(ss)]
  BY Zenon DEF FlattenSeq, Flattens
<1> QED BY <1>2, <1>3, Zenon

LEMMA FlattenEmpty == FlattenSeq(<<>>) = <<>>
  BY DEF FlattenSeq

(* Longer by one sequence.                                                 *)
LEMMA FlattenAppend ==
  ASSUME NEW S, NEW ss \in Seq(Seq(S)), NEW s \in Seq(S)
  PROVE  FlattenSeq(Append(ss, s)) = FlattenSeq(ss) \o s
<1> DEFINE n == Len(ss)  tt == Append(ss, s)
<1>1. /\ n \in Nat /\ Len(tt) = n + 1 /\ tt[n + 1] = s
      /\ \A i \in 1 .. n : tt[i] = ss[i]
  OBVIOUS
<1> HIDE DEF n, tt
<1>2. PICK g : Unfolds(tt, g, n + 1) /\ FlattenSeq(tt) = g[n + 1]
  <2>1. Len(tt) \in Nat \ {0}
    BY <1>1
  <2> QED BY <1>1, <2>1, FlattenIs, Zenon
<1>3. CASE n = 0
  <2>1. ss = <<>> /\ g[1] = s
    BY <1>1, <1>2, <1>3 DEF Unfolds, n
  <2>2. <<>> \o s = s
    OBVIOUS
  <2> QED BY <1>2, <1>3, <2>1, <2>2, FlattenEmpty DEF tt
<1>4. CASE n # 0
  <2>1. PICK f : Unfolds(ss, f, n) /\ FlattenSeq(ss) = f[n]
    BY <1>1, <1>4, FlattenIs DEF n
  <2> DEFINE T == {i \in Nat : i \in 1 .. n => f[i] = g[i]}
  <2>2. 0 \in T
    BY <1>1
  <2>3. ASSUME NEW i \in Nat, i \in T PROVE i + 1 \in T
    <3> DEFINE j == i + 1
    <3> SUFFICES ASSUME j \in 1 .. n PROVE f[j] = g[j]
      OBVIOUS
    <3>1. j \in 1 .. n + 1 /\ j - 1 = i /\ ss[j] = tt[j]
      BY <1>1
    <3>2. j # 1 => f[j - 1] = g[j - 1]
      BY <1>1, <2>3, <3>1
    <3> HIDE DEF j
    <3>3. f[j] = IF j = 1 THEN ss[j] ELSE f[j - 1] \o ss[j]
      BY <2>1, Zenon DEF Unfolds
    <3>4. g[j] = IF j = 1 THEN tt[j] ELSE g[j - 1] \o tt[j]
      BY <1>2, <3>1, Zenon DEF Unfolds
    <3> QED BY <3>1, <3>2, <3>3, <3>4
  <2> HIDE DEF T
  <2>4. n \in T
    BY <1>1, <2>2, <2>3, NumberInduction
  <2>5. f[n] = g[n]
    BY <1>1, <1>4, <2>4 DEF T
  <2>6. g[n + 1] = g[n] \o s
    <3> DEFINE j == n + 1
    <3>1. j \in 1 .. n + 1 /\ j # 1 /\ j - 1 = n /\ tt[j] = s
      BY <1>1, <1>4
    <3> HIDE DEF j
    <3>2. g[j] = IF j = 1 THEN tt[j] ELSE g[j - 1] \o tt[j]
      BY <1>2, <3>1, Zenon DEF Unfolds
    <3> QED BY <3>1, <3>2 DEF j
  <2> QED BY <1>2, <2>1, <2>5, <2>6 DEF tt
<1> QED BY <1>3, <1>4

LEMMA FlattenType ==
  ASSUME NEW S, NEW ss \in Seq(Seq(S))
  PROVE  FlattenSeq(ss) \in Seq(S)
<1> DEFINE T == {tt \in Seq(Seq(S)) : FlattenSeq(tt) \in Seq(S)}
<1>1. <<>> \in T
  BY FlattenEmpty, EmptySeq
<1>2. ASSUME NEW tt \in Seq(Seq(S)), NEW s \in Seq(S), tt \in T
      PROVE  Append(tt, s) \in T
  <2>1. FlattenSeq(Append(tt, s)) = FlattenSeq(tt) \o s
    BY FlattenAppend
  <2>2. FlattenSeq(tt) \o s \in Seq(S)
    BY <1>2, ConcatProperties
  <2> QED BY <2>1, <2>2, AppendProperties
<1> HIDE DEF T
<1>3. Seq(Seq(S)) \subseteq T
  BY <1>1, <1>2, SequenceInduction
<1> QED BY <1>3 DEF T

LEMMA FlattenOne ==
  ASSUME NEW S, NEW s \in Seq(S)
  PROVE  FlattenSeq(<<s>>) = s
<1>1. <<>> \in Seq(Seq(S)) /\ Append(<<>>, s) = <<s>> /\ <<>> \o s = s
  BY EmptySeq, ConcatEmptySeq
<1> QED BY <1>1, FlattenAppend, FlattenEmpty

(* Two sequences of sequences, one after the other.                        *)
LEMMA FlattenConcat ==
  ASSUME NEW S, NEW ss \in Seq(Seq(S)), NEW tt \in Seq(Seq(S))
  PROVE  FlattenSeq(ss \o tt) = FlattenSeq(ss) \o FlattenSeq(tt)
<1> DEFINE Q == Seq(S)
           T == {uu \in Seq(Q) :
                   FlattenSeq(ss \o uu) = FlattenSeq(ss) \o FlattenSeq(uu)}
<1>1. <<>> \in T
  <2>1. ss \o <<>> = ss /\ <<>> \in Seq(Q)
    BY ConcatEmptySeq, EmptySeq
  <2>2. FlattenSeq(ss) \o <<>> = FlattenSeq(ss)
    BY FlattenType, ConcatEmptySeq
  <2> QED BY <2>1, <2>2, FlattenEmpty
<1>2. ASSUME NEW uu \in Seq(Q), NEW s \in Q, uu \in T
      PROVE  Append(uu, s) \in T
  <2> HIDE DEF Q
  <2>1. /\ ss \o Append(uu, s) = Append(ss \o uu, s)
        /\ ss \o uu \in Seq(Q) /\ Append(uu, s) \in Seq(Q)
    <3>1. ss \in Seq(Q)
      BY DEF Q
    <3> QED BY <3>1
  <2> USE DEF Q
  <2>2. /\ FlattenSeq(Append(ss \o uu, s)) = FlattenSeq(ss \o uu) \o s
        /\ FlattenSeq(Append(uu, s)) = FlattenSeq(uu) \o s
    BY <2>1, FlattenAppend
  <2>3. (FlattenSeq(ss) \o FlattenSeq(uu)) \o s
          = FlattenSeq(ss) \o (FlattenSeq(uu) \o s)
    <3> DEFINE a == FlattenSeq(ss)  b == FlattenSeq(uu)
    <3>1. a \in Seq(S) /\ b \in Seq(S) /\ s \in Seq(S)
      BY FlattenType
    <3> HIDE DEF a, b, Q, T
    <3>2. (a \o b) \o s = a \o (b \o s)
      BY <3>1
    <3> QED BY <3>2 DEF a, b
  <2> QED BY <1>2, <2>1, <2>2, <2>3
<1> HIDE DEF T
<1>3. Seq(Seq(S)) \subseteq T
  BY <1>1, <1>2, SequenceInduction
<1> QED BY <1>3 DEF T

-----------------------------------------------------------------------------
(* A number that 32 bits hold, followed by anything, is read as it was     *)
(* written.                                                                *)
LEMMA Uint32Bytes ==
  ASSUME NEW n \in Nat
  PROVE  Uint32(n) \in Seq(Byte) /\ Len(Uint32(n)) = 4
  BY DEF Uint32, Byte

LEMMA Uint32RoundTrip ==
  ASSUME NEW n, FitsUint32(n), NEW s \in Seq(Byte)
  PROVE  AsUint32(Uint32(n) \o s) = n
<1> DEFINE u == Uint32(n)
<1>1. u \in Seq(Byte) /\ Len(u) = 4
  BY Uint32Bytes DEF FitsUint32
<1>2. /\ (u \o s)[1] = u[1] /\ (u \o s)[2] = u[2]
      /\ (u \o s)[3] = u[3] /\ (u \o s)[4] = u[4]
  <2> HIDE DEF u
  <2>1. \A i \in 1 .. 4 : (u \o s)[i] = u[i]
    <3>1. \A i \in 1 .. Len(u) : (u \o s)[i] = u[i]
      BY <1>1, ConcatFirst, Zenon
    <3> QED BY <1>1, <3>1, Zenon
  <2>2. 1 \in 1 .. 4 /\ 2 \in 1 .. 4 /\ 3 \in 1 .. 4 /\ 4 \in 1 .. 4
    OBVIOUS
  <2> QED BY <2>1, <2>2, Zenon
<1>3. /\ u[1] = n % 256 /\ u[2] = (n \div 256) % 256
      /\ u[3] = (n \div 65536) % 256 /\ u[4] = (n \div 16777216) % 256
  BY DEF Uint32
<1>4. (n % 256) + 256 * ((n \div 256) % 256) + 65536 * ((n \div 65536) % 256)
        + 16777216 * ((n \div 16777216) % 256) = n
  BY SMTT(30) DEF FitsUint32
<1> QED BY <1>2, <1>3, <1>4 DEF AsUint32

-----------------------------------------------------------------------------
(* The same for bytes, in the form in which it is cited.                   *)
LEMMA BytesAssociative ==
  \A a, b, c \in Seq(Byte) : (a \o b) \o c = a \o (b \o c)
  BY ConcatAssociative

LEMMA BytesConcat ==
  \A a, b \in Seq(Byte) : /\ a \o b \in Seq(Byte)
                          /\ Len(a) \in Nat /\ Len(b) \in Nat
                          /\ Len(a \o b) = Len(a) + Len(b)
  BY ConcatProperties, LenProperties
=============================================================================
