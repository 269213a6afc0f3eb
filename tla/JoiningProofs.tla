---------------------------- MODULE JoiningProofs ----------------------------
(***************************************************************************)
(* What Join makes of any number of pieces of any length (JoinIs, and       *)
(* JoinBlocks where all have one length), and the arithmetic of the layouts *)
(* that are built with it: which piece an element of the whole is in, and   *)
(* which piece stands where.                                               *)
(*                                                                         *)
(* Induction is over the numbers, by the least counterexample (Least) or    *)
(* from 0 upwards (UpTo), both from the library's well-foundedness of <.    *)
(***************************************************************************)
EXTENDS Joining, SequencesExt, SequenceTheorems, WellFoundedInduction, TLAPS

-----------------------------------------------------------------------------
(* Division with remainder.                                                *)

LEMMA DivMod ==
    ASSUME NEW a \in Nat, NEW b \in Nat \ {0}
    PROVE  /\ a \div b \in Nat /\ a % b \in 0..(b - 1)
           /\ a = b * (a \div b) + (a % b)
OBVIOUS

LEMMA DivModUnique ==
    ASSUME NEW b \in Nat \ {0}, NEW q \in Nat, NEW r \in 0..(b - 1),
           NEW p \in Nat, NEW s \in 0..(b - 1), b * q + r = b * p + s
    PROVE  q = p /\ r = s
OBVIOUS

LEMMA DivModOf ==
    ASSUME NEW b \in Nat \ {0}, NEW q \in Nat, NEW r \in 0..(b - 1)
    PROVE  (b * q + r) \div b = q /\ (b * q + r) % b = r
<1> DEFINE a == b * q + r
<1>1. a \in Nat
  OBVIOUS
<1> HIDE DEF a
<1>2. /\ a \div b \in Nat /\ a % b \in 0..(b - 1)
      /\ a = b * (a \div b) + (a % b)
  BY <1>1, DivMod
<1>3. b * q + r = b * (a \div b) + (a % b)
  BY <1>2 DEF a
<1> QED
  BY <1>2, <1>3, DivModUnique DEF a

\* The place of element r of block q, of b elements each, among m blocks.
LEMMA InBlock ==
    ASSUME NEW b \in Nat \ {0}, NEW m \in Nat, NEW q \in 0..(m - 1), NEW r \in 0..(b - 1)
    PROVE  b * q + r \in 0..(m * b - 1)
<1>1. q + 1 <= m
  OBVIOUS
<1>2. b * (q + 1) <= b * m
  BY <1>1
<1> QED
  BY <1>2

LEMMA BlockOf ==
    ASSUME NEW b \in Nat \ {0}, NEW m \in Nat, NEW a \in 0..(m * b - 1)
    PROVE  /\ a \div b \in 0..(m - 1) /\ a % b \in 0..(b - 1)
           /\ a = b * (a \div b) + (a % b)
<1> DEFINE q == a \div b
<1>1. q \in Nat /\ a % b \in 0..(b - 1) /\ a = b * q + (a % b)
  <2>1. a \in Nat
    OBVIOUS
  <2> QED
    BY <2>1, DivMod
<1> HIDE DEF q
<1>2. ASSUME q >= m PROVE FALSE
  <2>1. b * q >= b * m
    BY <1>1, <1>2
  <2> QED
    BY <1>1, <2>1
<1> QED
  BY <1>1, <1>2 DEF q

LEMMA Least ==
    ASSUME NEW T \in SUBSET Nat, T # {}
    PROVE  \E m \in T : \A k \in T : m <= k
<1>1. PICK m \in T : \A k \in T : ~(<<k, m>> \in OpToRel(<, Nat))
  BY NatLessThanWellFounded, WFMin, Zenon
<1>2. \A k \in T : ~(k < m)
  BY <1>1 DEF OpToRel
<1> QED
  BY <1>2

\* Induction: a set of numbers that has 0 and, with each number below n, the
\* next, has all up to n.
LEMMA UpTo ==
    ASSUME NEW n \in Nat, NEW T, 0 \in T, \A k \in 0..(n - 1) : k \in T => k + 1 \in T
    PROVE  \A k \in 0..n : k \in T
<1> DEFINE Out == {k \in 0..n : k \notin T}
<1> SUFFICES ASSUME Out # {} PROVE FALSE
  OBVIOUS
<1>1. PICK m \in Out : \A k \in Out : m <= k
  <2>1. Out \in SUBSET Nat
    OBVIOUS
  <2> HIDE DEF Out
  <2> QED
    BY <2>1, Least
<1>2. m - 1 \in 0..(n - 1) /\ m - 1 \in T
  BY <1>1
<1> QED
  BY <1>1, <1>2

-----------------------------------------------------------------------------
(* Sequences of anything.                                                   *)

IsSeq(s) == s \in Seq(Range(s))

LEMMA SeqIs ==
    ASSUME NEW s, IsSeq(s)
    PROVE  Len(s) \in Nat /\ DOMAIN s = 1..Len(s) /\ s = [i \in 1..Len(s) |-> s[i]]
BY LenProperties DEF IsSeq

LEMMA IsSeqIn ==
    ASSUME NEW S, NEW s \in Seq(S)
    PROVE  IsSeq(s)
<1>1. Len(s) \in Nat /\ s \in [1..Len(s) -> S]
  BY LenProperties
<1>2. s \in [1..Len(s) -> Range(s)]
  BY <1>1 DEF Range
<1> QED
  BY <1>1, <1>2, SeqDef DEF IsSeq

LEMMA LengthOf ==
    ASSUME NEW n \in Nat, NEW f, f = [i \in 1..n |-> f[i]]
    PROVE  IsSeq(f) /\ Len(f) = n
<1>1. f \in [1..n -> Range(f)]
  BY DEF Range
<1>2. f \in Seq(Range(f))
  BY <1>1, SeqDef
<1>3. DOMAIN f = 1..n /\ DOMAIN f = 1..Len(f) /\ Len(f) \in Nat
  BY <1>1, <1>2, LenProperties
<1> QED
  BY <1>2, <1>3 DEF IsSeq

LEMMA SameSeq ==
    ASSUME NEW s, NEW t, IsSeq(s), IsSeq(t), Len(s) = Len(t),
           \A i \in 1..Len(s) : s[i] = t[i]
    PROVE  s = t
BY SeqIs

\* u is s with t behind it.
Behind(u, s, t) ==
    /\ IsSeq(u) /\ Len(u) = Len(s) + Len(t)
    /\ Len(s) \in Nat /\ Len(t) \in Nat /\ Len(u) \in Nat
    /\ \A i \in 1..Len(s) : u[i] = s[i]
    /\ \A i \in 1..Len(t) : u[Len(s) + i] = t[i]

LEMMA Cat ==
    ASSUME NEW s, NEW t, IsSeq(s), IsSeq(t)
    PROVE  Behind(s \o t, s, t)
<1> DEFINE S == Range(s) \cup Range(t)
<1>1. s \in Seq(S) /\ t \in Seq(S)
  BY SeqMonotonic DEF IsSeq
<1> HIDE DEF S
<1>2. /\ s \o t \in Seq(S) /\ Len(s \o t) = Len(s) + Len(t)
      /\ \A i \in 1..(Len(s) + Len(t)) :
            (s \o t)[i] = IF i <= Len(s) THEN s[i] ELSE t[i - Len(s)]
  BY <1>1, ConcatProperties
<1>3. Len(s) \in Nat /\ Len(t) \in Nat
  BY SeqIs
<1>4. ASSUME NEW i \in 1..Len(s) PROVE (s \o t)[i] = s[i]
  BY <1>2, <1>3
<1>5. ASSUME NEW i \in 1..Len(t) PROVE (s \o t)[Len(s) + i] = t[i]
  <2>1. /\ Len(s) + i \in 1..(Len(s) + Len(t)) /\ ~(Len(s) + i <= Len(s))
        /\ (Len(s) + i) - Len(s) = i
    BY <1>3
  <2> QED
    BY <1>2, <2>1
<1> QED
  <2>1. IsSeq(s \o t)
    BY <1>2, IsSeqIn
  <2>2. Len(s \o t) \in Nat
    BY <1>2, <1>3
  <2> QED
    BY <1>2, <1>3, <1>4, <1>5, <2>1, <2>2, Zenon DEF Behind

\* u is s from its element number m + 1 to number n.
Within(u, s, m, n) ==
    /\ IsSeq(u) /\ Len(u) = n - m
    /\ \A i \in 1..(n - m) : u[i] = s[m + i]

LEMMA Cut ==
    ASSUME NEW s, IsSeq(s), NEW m \in Nat, NEW n \in Nat, m <= n, n <= Len(s)
    PROVE  Within(SubSeq(s, m + 1, n), s, m, n)
<1>1. Len(s) \in Nat
  BY SeqIs
<1>2. \A i \in (m + 1)..n : s[i] \in Range(s)
  BY <1>1, ElementOfSeq DEF IsSeq
<1>3. /\ SubSeq(s, m + 1, n) \in Seq(Range(s))
      /\ Len(SubSeq(s, m + 1, n)) = IF m + 1 <= n THEN n - (m + 1) + 1 ELSE 0
      /\ \A i \in 1..(n - (m + 1) + 1) : SubSeq(s, m + 1, n)[i] = s[(m + 1) + i - 1]
  BY <1>2, SubSeqProperties
<1>4. ASSUME NEW i \in 1..(n - m) PROVE SubSeq(s, m + 1, n)[i] = s[m + i]
  <2>1. i \in 1..(n - (m + 1) + 1) /\ (m + 1) + i - 1 = m + i
    OBVIOUS
  <2> QED
    BY <1>3, <2>1
<1>5. Len(SubSeq(s, m + 1, n)) = n - m
  BY <1>3
<1>6. IsSeq(SubSeq(s, m + 1, n))
  BY <1>3, IsSeqIn
<1> QED
  BY <1>4, <1>5, <1>6 DEF Within

LEMMA Empty == IsSeq(<<>>) /\ Len(<<>>) = 0
BY EmptySeq, IsSeqIn

-----------------------------------------------------------------------------
(* Join.                                                                    *)

Pieces(p) == IsSeq(p) /\ \A i \in 1..Len(p) : IsSeq(p[i])

\* f[k] has the first k pieces, one behind the other.
IsFront(f, p, n) ==
    /\ DOMAIN f = 0..n /\ f[0] = <<>>
    /\ \A k \in 1..n : f[k] = f[k - 1] \o p[k]

LEMMA FrontExists ==
    ASSUME NEW p, Pieces(p)
    PROVE  \E f : IsFront(f, p, Len(p))
<1> DEFINE n == Len(p)
           T == {k \in 0..n : \E f : IsFront(f, p, k)}
<1>1. n \in Nat
  BY SeqIs DEF Pieces
<1>2. 0 \in T
  <2>1. IsFront([k \in 0..0 |-> <<>>], p, 0)
    BY DEF IsFront
  <2> QED
    BY <1>1, <2>1
<1>3. ASSUME NEW k \in 0..(n - 1), k \in T PROVE k + 1 \in T
  <2>1. PICK f : IsFront(f, p, k)
    BY <1>3
  <2> DEFINE g == [i \in 0..(k + 1) |-> IF i = k + 1 THEN f[k] \o p[k + 1] ELSE f[i]]
  <2>2. IsFront(g, p, k + 1)
    <3>1. DOMAIN g = 0..(k + 1) /\ g[0] = <<>>
      BY <1>1, <2>1 DEF IsFront
    <3>2. ASSUME NEW i \in 1..(k + 1) PROVE g[i] = g[i - 1] \o p[i]
      <4>1. CASE i = k + 1
        BY <1>1, <4>1
      <4>2. CASE i # k + 1
        <5>1. i \in 1..k /\ i - 1 \in 0..(k + 1) /\ i - 1 # k + 1
          BY <1>1, <4>2
        <5>2. i \in 0..(k + 1) /\ f[i] = f[i - 1] \o p[i]
          BY <2>1, <5>1 DEF IsFront
        <5>3. g[i] = f[i] /\ g[i - 1] = f[i - 1]
          BY <4>2, <5>1, <5>2
        <5> QED
          BY <5>2, <5>3
      <4> QED
        BY <4>1, <4>2
    <3> HIDE DEF g
    <3> QED
      BY <3>1, <3>2 DEF IsFront
  <2>3. k + 1 \in 0..n
    BY <1>1
  <2> QED
    BY <2>2, <2>3
<1> HIDE DEF T
<1>4. n \in T
  <2>1. n \in 0..n
    BY <1>1
  <2>2. \A k \in 0..n : k \in T
    BY <1>1, <1>2, <1>3, UpTo, Zenon
  <2> QED
    BY <2>1, <2>2
<1> QED
  BY <1>4 DEF T

LEMMA FrontGrows ==
    ASSUME NEW p, Pieces(p), NEW f, IsFront(f, p, Len(p))
    PROVE  /\ \A k \in 0..Len(p) : IsSeq(f[k])
           /\ \A k \in 1..Len(p) : Len(f[k]) = Len(f[k - 1]) + Len(p[k])
<1> DEFINE n == Len(p)
           T == {k \in 0..n : IsSeq(f[k])}
<1>1. n \in Nat
  BY SeqIs DEF Pieces
<1>2. \A k \in 1..n : IsSeq(p[k]) /\ f[k] = f[k - 1] \o p[k]
  BY DEF Pieces, IsFront
<1>3. 0 \in T
  BY <1>1, Empty DEF IsFront
<1>4. ASSUME NEW k \in 0..(n - 1), k \in T PROVE k + 1 \in T
  <2>1. k + 1 \in 1..n /\ (k + 1) - 1 = k /\ k + 1 \in 0..n
    BY <1>1
  <2>2. IsSeq(f[k]) /\ IsSeq(p[k + 1]) /\ f[k + 1] = f[k] \o p[k + 1]
    BY <1>2, <1>4, <2>1
  <2>3. Behind(f[k] \o p[k + 1], f[k], p[k + 1])
    BY <2>2, Cat, Zenon
  <2>4. IsSeq(f[k + 1])
    BY <2>2, <2>3 DEF Behind
  <2> QED
    BY <2>1, <2>4
<1> HIDE DEF T
<1>5. \A k \in 0..n : k \in T
  BY <1>1, <1>3, <1>4, UpTo
<1>6. \A k \in 0..n : IsSeq(f[k])
  BY <1>5 DEF T
<1>7. ASSUME NEW k \in 1..n PROVE Len(f[k]) = Len(f[k - 1]) + Len(p[k])
  <2>1. k - 1 \in 0..n
    BY <1>1
  <2>2. IsSeq(f[k - 1]) /\ IsSeq(p[k]) /\ f[k] = f[k - 1] \o p[k]
    BY <1>2, <1>6, <2>1
  <2>3. Behind(f[k - 1] \o p[k], f[k - 1], p[k])
    BY <2>2, Cat, Zenon
  <2> QED
    BY <2>2, <2>3 DEF Behind
<1> QED
  BY <1>6, <1>7

\* What stands in front of k pieces stands in front of more.
LEMMA FrontKept ==
    ASSUME NEW p, Pieces(p), NEW f, IsFront(f, p, Len(p)), NEW k \in 0..Len(p)
    PROVE  \A l \in k..Len(p) : /\ Len(f[k]) <= Len(f[l])
                                /\ \A i \in 1..Len(f[k]) : f[l][i] = f[k][i]
<1> DEFINE n == Len(p)
           T == {d \in 0..(n - k) : /\ Len(f[k]) <= Len(f[k + d])
                                    /\ \A i \in 1..Len(f[k]) : f[k + d][i] = f[k][i]}
<1>1. n \in Nat
  BY SeqIs DEF Pieces
<1>2. \A l \in 0..n : IsSeq(f[l]) /\ Len(f[l]) \in Nat
  BY FrontGrows, SeqIs
<1>3. 0 \in T
  BY <1>1, <1>2
<1>4. ASSUME NEW d \in 0..((n - k) - 1), d \in T PROVE d + 1 \in T
  <2> DEFINE l == k + d
  <2>1. l \in 0..n /\ l + 1 \in 1..n /\ (l + 1) - 1 = l /\ l + 1 \in 0..n /\ d + 1 \in 0..(n - k)
    BY <1>1
  <2>2. f[l + 1] = f[l] \o p[l + 1] /\ IsSeq(p[l + 1])
    BY <2>1 DEF IsFront, Pieces
  <2>3. k + (d + 1) = l + 1
    BY <1>1
  <2>4. Len(f[k]) <= Len(f[l]) /\ \A i \in 1..Len(f[k]) : f[l][i] = f[k][i]
    BY <1>4
  <2> HIDE DEF l
  <2>5. IsSeq(f[l]) /\ Len(f[l]) \in Nat /\ Len(p[l + 1]) \in Nat /\ Len(f[k]) \in Nat
    BY <1>1, <1>2, <2>1, <2>2, SeqIs
  <2>6. /\ Len(f[l + 1]) = Len(f[l]) + Len(p[l + 1]) /\ Len(f[l + 1]) \in Nat
        /\ \A i \in 1..Len(f[l]) : f[l + 1][i] = f[l][i]
    <3>1. Behind(f[l] \o p[l + 1], f[l], p[l + 1])
      BY <2>2, <2>5, Cat, Zenon
    <3> QED
      BY <2>2, <3>1 DEF Behind
  <2>7. Len(f[k]) <= Len(f[l + 1]) /\ \A i \in 1..Len(f[k]) : f[l + 1][i] = f[k][i]
    <3>1. Len(f[k]) <= Len(f[l + 1])
      <4>1. /\ Len(f[k]) <= Len(f[l]) /\ Len(f[l + 1]) = Len(f[l]) + Len(p[l + 1])
            /\ Len(f[l + 1]) \in Nat
        BY <2>4, <2>6
      <4>2. \A a, b, c \in Nat : a <= b => a <= b + c
        OBVIOUS
      <4>3. Len(f[k]) <= Len(f[l]) + Len(p[l + 1])
        BY <2>5, <4>1, <4>2, Zenon
      <4> QED
        BY <4>1, <4>3, Zenon
    <3>2. ASSUME NEW i \in 1..Len(f[k]) PROVE f[l + 1][i] = f[k][i]
      <4>1. i \in 1..Len(f[l])
        BY <2>4, <2>5
      <4> QED
        BY <2>4, <2>6, <4>1
    <3> QED
      BY <3>1, <3>2
  <2> QED
    BY <2>1, <2>3, <2>7
<1> HIDE DEF T
<1>5. \A d \in 0..(n - k) : d \in T
  <2>1. n - k \in Nat
    BY <1>1
  <2> QED
    BY <1>3, <1>4, <2>1, UpTo
<1>6. ASSUME NEW l \in k..n PROVE l - k \in T /\ k + (l - k) = l
  BY <1>1, <1>5
<1> QED
  BY <1>6 DEF T

\* The equation that Join's recursive function is defined by.
Solves(b, p) ==
    b = [ends \in (DOMAIN p) \X (DOMAIN p) |->
            LET half == (ends[1] + ends[2]) \div 2
            IN  IF ends[1] = ends[2] THEN p[ends[1]]
                ELSE b[<<ends[1], half>>] \o b[<<half + 1, ends[2]>>]]

LEMMA JoinSolves ==
    ASSUME NEW p, \E b : Solves(b, p), DOMAIN p # {}
    PROVE  \E b : Solves(b, p) /\ Join(p) = b[<<1, Len(p)>>]
<1> DEFINE b == CHOOSE f : Solves(f, p)
<1>1. Solves(b, p)
  BY Zenon
<1>2. Join(p) = b[<<1, Len(p)>>]
  BY Zenon DEF Join, Solves
<1> QED
  BY <1>1, <1>2

\* Pieces number i to j.
Part(f, p, i, j) == SubSeq(f[Len(p)], Len(f[i - 1]) + 1, Len(f[j]))

LEMMA PartAt ==
    ASSUME NEW p, Pieces(p), NEW f, IsFront(f, p, Len(p)),
           NEW i \in 1..Len(p), NEW j \in i..Len(p)
    PROVE  /\ Within(Part(f, p, i, j), f[Len(p)], Len(f[i - 1]), Len(f[j]))
           /\ Len(f[i - 1]) \in Nat /\ Len(f[j]) \in Nat /\ Len(f[i - 1]) <= Len(f[j])
           /\ \A c \in 1..Len(f[j]) : f[Len(p)][c] = f[j][c]
<1> DEFINE n == Len(p)
<1>1. /\ n \in Nat /\ i - 1 \in 0..n /\ j \in 0..n /\ n \in 0..n
      /\ j \in (i - 1)..n /\ n \in j..n
  BY SeqIs DEF Pieces
<1>2. /\ Len(f[i - 1]) <= Len(f[j]) /\ Len(f[j]) <= Len(f[n])
      /\ \A c \in 1..Len(f[j]) : f[n][c] = f[j][c]
  BY <1>1, FrontKept
<1>3. \A k \in 0..n : IsSeq(f[k]) /\ Len(f[k]) \in Nat
  BY FrontGrows, SeqIs
<1>4. IsSeq(f[n]) /\ Len(f[i - 1]) \in Nat /\ Len(f[j]) \in Nat
  BY <1>1, <1>3
<1>5. Within(Part(f, p, i, j), f[n], Len(f[i - 1]), Len(f[j]))
  BY <1>2, <1>4, Cut, Zenon DEF Part
<1> QED
  BY <1>2, <1>4, <1>5

LEMMA PartOne ==
    ASSUME NEW p, Pieces(p), NEW f, IsFront(f, p, Len(p)), NEW i \in 1..Len(p)
    PROVE  Part(f, p, i, i) = p[i]
<1> DEFINE n == Len(p)
           part == Part(f, p, i, i)
           a == Len(f[i - 1])
           b == Len(f[i])
<1>1. n \in Nat /\ i \in i..n /\ i - 1 \in 0..n
  BY SeqIs DEF Pieces
<1>2. /\ Within(part, f[n], a, b) /\ a \in Nat /\ b \in Nat
      /\ \A c \in 1..b : f[n][c] = f[i][c]
  BY <1>1, PartAt
<1>3. Behind(f[i], f[i - 1], p[i]) /\ IsSeq(p[i])
  <2>1. IsSeq(f[i - 1]) /\ IsSeq(p[i]) /\ f[i] = f[i - 1] \o p[i]
    BY <1>1, FrontGrows DEF Pieces, IsFront
  <2>2. Behind(f[i - 1] \o p[i], f[i - 1], p[i])
    BY <2>1, Cat, Zenon
  <2> QED
    BY <2>1, <2>2
<1>4. /\ b = a + Len(p[i]) /\ Len(p[i]) \in Nat
      /\ \A c \in 1..Len(p[i]) : f[i][a + c] = p[i][c]
  BY <1>3 DEF Behind
<1>5. /\ IsSeq(part) /\ Len(part) = b - a
      /\ \A c \in 1..(b - a) : part[c] = f[n][a + c]
  BY <1>2 DEF Within
<1> HIDE DEF a, b, part, n
<1>6. Len(part) = Len(p[i]) /\ b - a = Len(p[i])
  BY <1>2, <1>4, <1>5
<1>7. ASSUME NEW c \in 1..Len(part) PROVE part[c] = p[i][c]
  <2>1. c \in 1..(b - a) /\ a + c \in 1..b /\ c \in 1..Len(p[i])
    BY <1>2, <1>4, <1>6
  <2>2. part[c] = f[n][a + c] /\ f[n][a + c] = f[i][a + c] /\ f[i][a + c] = p[i][c]
    BY <1>2, <1>4, <1>5, <2>1
  <2> QED
    BY <2>2
<1>8. part = p[i]
  BY <1>3, <1>5, <1>6, <1>7, SameSeq, Zenon
<1> QED
  BY <1>8 DEF part

LEMMA PartsMeet ==
    ASSUME NEW p, Pieces(p), NEW f, IsFront(f, p, Len(p)),
           NEW i \in 1..Len(p), NEW j \in i..Len(p), NEW h \in i..(j - 1)
    PROVE  Part(f, p, i, h) \o Part(f, p, h + 1, j) = Part(f, p, i, j)
<1> DEFINE n == Len(p)
           a == Len(f[i - 1])
           b == Len(f[h])
           c == Len(f[j])
           x == Part(f, p, i, h)
           y == Part(f, p, h + 1, j)
           z == Part(f, p, i, j)
           whole == f[n]
<1>1. /\ n \in Nat /\ h \in i..n /\ h + 1 \in 1..n /\ j \in (h + 1)..n /\ (h + 1) - 1 = h
      /\ i \in 1..n
  BY SeqIs DEF Pieces
<1>2. /\ Within(x, whole, a, b) /\ Within(y, whole, b, c) /\ Within(z, whole, a, c)
      /\ a \in Nat /\ b \in Nat /\ c \in Nat /\ a <= b /\ b <= c
  <2>1. Within(x, whole, a, b) /\ a \in Nat /\ b \in Nat /\ a <= b
    BY <1>1, PartAt
  <2>2. Within(y, whole, b, c) /\ c \in Nat /\ b <= c
    BY <1>1, PartAt
  <2>3. Within(z, whole, a, c)
    BY PartAt
  <2> QED
    BY <2>1, <2>2, <2>3
<1> HIDE DEF a, b, c, x, y, z, whole
<1>3. /\ IsSeq(x) /\ Len(x) = b - a /\ IsSeq(y) /\ Len(y) = c - b
      /\ IsSeq(z) /\ Len(z) = c - a
      /\ \A k \in 1..(b - a) : x[k] = whole[a + k]
      /\ \A k \in 1..(c - b) : y[k] = whole[b + k]
      /\ \A k \in 1..(c - a) : z[k] = whole[a + k]
  BY <1>2 DEF Within
<1>4. Behind(x \o y, x, y)
  BY <1>3, Cat, Zenon
<1>5. /\ IsSeq(x \o y) /\ Len(x \o y) = c - a
      /\ \A k \in 1..(b - a) : (x \o y)[k] = x[k]
      /\ \A k \in 1..(c - b) : (x \o y)[(b - a) + k] = y[k]
  BY <1>2, <1>3, <1>4 DEF Behind
<1>6. ASSUME NEW k \in 1..(c - a) PROVE (x \o y)[k] = z[k]
  <2>1. CASE k <= b - a
    <3>1. k \in 1..(b - a)
      BY <1>2, <2>1
    <3> QED
      BY <1>3, <1>5, <3>1
  <2>2. CASE ~(k <= b - a)
    <3> DEFINE l == k - (b - a)
    <3>1. l \in 1..(c - b) /\ (b - a) + l = k /\ b + l = a + k
      BY <1>2, <2>2
    <3> HIDE DEF l
    <3>2. (x \o y)[(b - a) + l] = y[l] /\ y[l] = whole[b + l]
      BY <1>3, <1>5, <3>1
    <3> QED
      BY <1>3, <3>1, <3>2
  <2> QED
    BY <2>1, <2>2
<1>7. x \o y = z
  <2>1. Len(x \o y) = Len(z) /\ \A k \in 1..Len(x \o y) : (x \o y)[k] = z[k]
    BY <1>3, <1>5, <1>6
  <2> QED
    BY <1>3, <1>5, <2>1, SameSeq, Zenon
<1> QED
  BY <1>7 DEF x, y, z

\* The middle of a range, and of one whose ends are the wrong way round.
LEMMA Middle ==
    ASSUME NEW n \in Nat, NEW i \in 1..n, NEW j \in 1..n
    PROVE  LET half == (i + j) \div 2
           IN  /\ i < j => half \in i..(j - 1) /\ half \in 1..n /\ half + 1 \in 1..n
               /\ j < i => half < i /\ j < half + 1 /\ half \in 1..n /\ half + 1 \in 1..n
OBVIOUS

LEMMA Solution ==
    ASSUME NEW p, Pieces(p), NEW f, IsFront(f, p, Len(p))
    PROVE  \E b : Solves(b, p)
<1> DEFINE n == Len(p)
           D == (1..n) \X (1..n)
           b == [ends \in D |-> IF ends[1] <= ends[2] THEN Part(f, p, ends[1], ends[2])
                                                    ELSE <<>>]
           Body(ends) ==
               LET half == (ends[1] + ends[2]) \div 2
               IN  IF ends[1] = ends[2] THEN p[ends[1]]
                   ELSE b[<<ends[1], half>>] \o b[<<half + 1, ends[2]>>]
<1>1. n \in Nat
  BY SeqIs DEF Pieces
<1>2. ASSUME NEW ends \in D PROVE b[ends] = Body(ends)
  <2> DEFINE i == ends[1]
             j == ends[2]
             half == (i + j) \div 2
  <2>1. i \in 1..n /\ j \in 1..n
    OBVIOUS
  <2>2. /\ i < j => half \in i..(j - 1) /\ half \in 1..n /\ half + 1 \in 1..n
        /\ j < i => half < i /\ j < half + 1 /\ half \in 1..n /\ half + 1 \in 1..n
    BY <1>1, <2>1, Middle
  <2>3. b[ends] = IF i <= j THEN Part(f, p, i, j) ELSE <<>>
    OBVIOUS
  <2>4. ASSUME NEW k \in 1..n, NEW l \in 1..n
        PROVE  b[<<k, l>>] = IF k <= l THEN Part(f, p, k, l) ELSE <<>>
    <3> DEFINE e == <<k, l>>
    <3>1. e \in D /\ e[1] = k /\ e[2] = l
      OBVIOUS
    <3> HIDE DEF e
    <3> QED
      BY <3>1 DEF e
  <2>5. Body(ends) = IF i = j THEN p[i] ELSE b[<<i, half>>] \o b[<<half + 1, j>>]
    OBVIOUS
  <2> HIDE DEF b, Body, i, j, half
  <2>6. CASE i = j
    BY <2>1, <2>3, <2>5, <2>6, PartOne
  <2>7. CASE i < j
    <3>1. half \in i..(j - 1) /\ half \in 1..n /\ half + 1 \in 1..n
      BY <2>2, <2>7
    <3>2. b[<<i, half>>] = Part(f, p, i, half) /\ b[<<half + 1, j>>] = Part(f, p, half + 1, j)
      BY <2>1, <2>4, <3>1
    <3>3. Part(f, p, i, half) \o Part(f, p, half + 1, j) = Part(f, p, i, j)
      <4>1. j \in i..n
        BY <1>1, <2>1, <2>7
      <4> QED
        BY <2>1, <3>1, <4>1, PartsMeet
    <3>4. i \in Nat /\ j \in Nat /\ i <= j /\ i # j
      BY <1>1, <2>1, <2>7
    <3>5. b[ends] = Part(f, p, i, j)
      BY <2>3, <3>4
    <3>6. Body(ends) = b[<<i, half>>] \o b[<<half + 1, j>>]
      BY <2>5, <3>4
    <3> QED
      BY <3>2, <3>3, <3>5, <3>6, Zenon
  <2>8. CASE j < i
    <3>1. half < i /\ j < half + 1 /\ half \in 1..n /\ half + 1 \in 1..n
      BY <2>2, <2>8
    <3>2. b[<<i, half>>] = <<>> /\ b[<<half + 1, j>>] = <<>>
      BY <1>1, <2>1, <2>4, <3>1
    <3>3. <<>> \o <<>> = <<>>
      BY ConcatEmptySeq, EmptySeq
    <3>4. ~(i <= j) /\ i # j
      BY <1>1, <2>1, <2>8
    <3>5. b[ends] = <<>>
      BY <2>3, <3>4
    <3>6. Body(ends) = b[<<i, half>>] \o b[<<half + 1, j>>]
      BY <2>5, <3>4
    <3> QED
      BY <3>2, <3>3, <3>5, <3>6, Zenon
  <2>9. i < j \/ j < i \/ i = j
    BY <1>1, <2>1
  <2> QED
    BY <2>6, <2>7, <2>8, <2>9
<1>3. b = [ends \in D |-> Body(ends)]
  <2>1. b = [ends \in D |-> b[ends]]
    OBVIOUS
  <2> HIDE DEF b, Body
  <2> QED
    BY <1>2, <2>1
<1>4. Solves(b, p)
  <2>1. DOMAIN p = 1..n
    BY SeqIs DEF Pieces
  <2> HIDE DEF b
  <2> QED
    BY <1>3, <2>1 DEF Solves
<1> QED
  BY <1>4

\* A solution is what it should be between ends in the right order.
LEMMA SolutionIs ==
    ASSUME NEW p, Pieces(p), NEW f, IsFront(f, p, Len(p)), NEW b, Solves(b, p)
    PROVE  \A i \in 1..Len(p), j \in 1..Len(p) : i <= j => b[<<i, j>>] = Part(f, p, i, j)
<1> DEFINE n == Len(p)
           Bad == {d \in Nat : \E i \in 1..n, j \in 1..n :
                       i + d = j /\ b[<<i, j>>] # Part(f, p, i, j)}
<1>1. n \in Nat /\ DOMAIN p = 1..n
  BY SeqIs DEF Pieces
<1>2. ASSUME NEW i \in 1..n, NEW j \in 1..n
      PROVE  b[<<i, j>>] = IF i = j THEN p[i]
                           ELSE b[<<i, (i + j) \div 2>>] \o b[<<((i + j) \div 2) + 1, j>>]
  <2> DEFINE e == <<i, j>>
  <2>1. e \in (1..n) \X (1..n) /\ e[1] = i /\ e[2] = j
    OBVIOUS
  <2> HIDE DEF e
  <2>2. b[e] = LET half == (e[1] + e[2]) \div 2
               IN  IF e[1] = e[2] THEN p[e[1]]
                   ELSE b[<<e[1], half>>] \o b[<<half + 1, e[2]>>]
    BY <1>1, <2>1 DEF Solves
  <2> QED
    BY <2>1, <2>2 DEF e
<1> SUFFICES Bad = {}
  <2> SUFFICES ASSUME Bad = {}, NEW i \in 1..n, NEW j \in 1..n, i <= j
               PROVE  b[<<i, j>>] = Part(f, p, i, j)
    OBVIOUS
  <2>1. j - i \in Nat /\ i + (j - i) = j
    BY <1>1
  <2>2. j - i \notin Bad
    <3> HIDE DEF Bad
    <3> QED
      OBVIOUS
  <2> QED
    BY <2>1, <2>2
<1> SUFFICES ASSUME Bad # {} PROVE FALSE
  OBVIOUS
<1>3. PICK d \in Bad : \A e \in Bad : d <= e
  <2>1. Bad \in SUBSET Nat
    OBVIOUS
  <2> HIDE DEF Bad
  <2> QED
    BY <2>1, Least
<1>4. PICK i \in 1..n, j \in 1..n : i + d = j /\ b[<<i, j>>] # Part(f, p, i, j)
  BY <1>3
<1>5. d \in Nat
  BY <1>3
<1>6. ASSUME NEW k \in 1..n, NEW l \in 1..n, k <= l, l - k < d
      PROVE  b[<<k, l>>] = Part(f, p, k, l)
  <2>1. l - k \in Nat /\ k + (l - k) = l
    BY <1>1, <1>6
  <2>2. l - k \notin Bad
    <3>1. ~(d <= l - k)
      BY <1>5, <1>6, <2>1
    <3> HIDE DEF Bad
    <3> QED
      BY <1>3, <3>1
  <2> QED
    BY <2>1, <2>2
<1>7. CASE i = j
  <2>1. b[<<i, i>>] = p[i] /\ Part(f, p, i, i) = p[i]
    BY <1>2, PartOne
  <2> QED
    BY <1>4, <1>7, <2>1
<1>8. CASE i # j
  <2> DEFINE h == (i + j) \div 2
  <2>1. h \in i..(j - 1) /\ h \in 1..n /\ h + 1 \in 1..n
    BY <1>1, <1>4, <1>5, <1>8, Middle
  <2>2. b[<<i, j>>] = b[<<i, h>>] \o b[<<h + 1, j>>]
    BY <1>2, <1>8
  <2> HIDE DEF h, Bad
  <2>3. b[<<i, h>>] = Part(f, p, i, h)
    <3>1. i <= h /\ h - i < d
      BY <1>1, <1>4, <1>5, <2>1
    <3> QED
      BY <1>6, <2>1, <3>1
  <2>4. b[<<h + 1, j>>] = Part(f, p, h + 1, j)
    <3>1. h + 1 <= j /\ j - (h + 1) < d
      BY <1>1, <1>4, <1>5, <2>1
    <3> QED
      BY <1>6, <2>1, <3>1
  <2>5. j \in i..n
    BY <1>1, <1>4, <1>5
  <2>6. Part(f, p, i, h) \o Part(f, p, h + 1, j) = Part(f, p, i, j)
    BY <2>1, <2>5, PartsMeet
  <2> QED
    BY <1>4, <2>2, <2>3, <2>4, <2>6
<1> QED
  BY <1>7, <1>8

\* For any number of pieces of any length, Join puts them one behind the other.
THEOREM JoinIs ==
    ASSUME NEW p, Pieces(p)
    PROVE  \E f : IsFront(f, p, Len(p)) /\ Join(p) = f[Len(p)]
<1> DEFINE n == Len(p)
<1>1. n \in Nat /\ DOMAIN p = 1..n
  BY SeqIs DEF Pieces
<1>2. PICK f : IsFront(f, p, n)
  BY FrontExists
<1>3. CASE n = 0
  <2>1. Join(p) = <<>>
    <3>1. DOMAIN p = {}
      BY <1>1, <1>3
    <3> QED
      BY <3>1 DEF Join
  <2> QED
    BY <1>2, <1>3, <2>1 DEF IsFront
<1>4. CASE n # 0
  <2>1. PICK b : Solves(b, p) /\ Join(p) = b[<<1, n>>]
    <3>1. DOMAIN p # {}
      BY <1>1, <1>4
    <3>2. \E b : Solves(b, p)
      BY <1>2, Solution
    <3> QED
      BY <3>1, <3>2, JoinSolves
  <2>2. 1 \in 1..n /\ n \in 1..n /\ 1 <= n /\ n \in 1..Len(p) /\ 1 - 1 = 0
    BY <1>1, <1>4
  <2>3. Join(p) = Part(f, p, 1, n)
    BY <1>2, <2>1, <2>2, SolutionIs
  <2>4. IsSeq(f[n]) /\ f[0] = <<>> /\ Len(f[n]) \in Nat
    <3>1. n \in 0..n
      BY <1>1
    <3> QED
      BY <1>2, <3>1, FrontGrows, SeqIs DEF IsFront
  <2>5. Part(f, p, 1, n) = SubSeq(f[n], 1, Len(f[n]))
    <3>1. Len(f[1 - 1]) + 1 = 1
      BY <2>2, <2>4, Empty
    <3> QED
      BY <3>1 DEF Part
  <2>6. SubSeq(f[n], 1, Len(f[n])) = f[n]
    BY <2>4, SubSeqFull DEF IsSeq
  <2> QED
    BY <1>2, <2>3, <2>5, <2>6
<1> QED
  BY <1>3, <1>4

LEMMA JoinSeq ==
    ASSUME NEW p, Pieces(p)
    PROVE  IsSeq(Join(p))
<1>1. PICK f : IsFront(f, p, Len(p)) /\ Join(p) = f[Len(p)]
  BY JoinIs
<1>2. Len(p) \in 0..Len(p)
  BY SeqIs DEF Pieces
<1>3. \A k \in 0..Len(p) : IsSeq(f[k])
  BY <1>1, FrontGrows, Zenon
<1> QED
  BY <1>1, <1>2, <1>3

\* s is pieces of w elements each.
Blocks(s, p, w) ==
    /\ IsSeq(s) /\ Len(s) = Len(p) * w
    /\ \A i \in 1..Len(p), c \in 1..w : s[(i - 1) * w + c] = p[i][c]

\* Pieces of one length are found at its multiples.
THEOREM JoinBlocks ==
    ASSUME NEW p, Pieces(p), NEW w \in Nat, \A i \in 1..Len(p) : Len(p[i]) = w
    PROVE  Blocks(Join(p), p, w)
<1> DEFINE n == Len(p)
<1>1. n \in Nat
  BY SeqIs DEF Pieces
<1>2. PICK f : IsFront(f, p, n) /\ Join(p) = f[n]
  BY JoinIs
<1>3. \A k \in 0..n : IsSeq(f[k])
  BY <1>2, FrontGrows, Zenon
<1>3a. \A k \in 1..n : Len(f[k]) = Len(f[k - 1]) + Len(p[k])
  BY <1>2, FrontGrows, Zenon
<1> DEFINE T == {k \in 0..n : Len(f[k]) = k * w}
<1>4. 0 \in T
  BY <1>1, <1>2, Empty DEF IsFront
<1>5. ASSUME NEW k \in 0..(n - 1), k \in T PROVE k + 1 \in T
  <2>1. k + 1 \in 1..n /\ (k + 1) - 1 = k /\ k + 1 \in 0..n
    BY <1>1
  <2>2. Len(f[k + 1]) = k * w + w
    <3>1. Len(f[k + 1]) = Len(f[k]) + Len(p[k + 1])
      BY <1>3a, <2>1
    <3> QED
      BY <1>5, <2>1, <3>1
  <2>3. k * w + w = (k + 1) * w
    OBVIOUS
  <2> QED
    BY <2>1, <2>2, <2>3
<1> HIDE DEF T
<1>6. \A k \in 0..n : k \in T
  BY <1>1, <1>4, <1>5, UpTo
<1>7. \A k \in 0..n : Len(f[k]) = k * w
  BY <1>6 DEF T
<1>8. ASSUME NEW i \in 1..n, NEW c \in 1..w PROVE f[n][(i - 1) * w + c] = p[i][c]
  <2>1. i - 1 \in 0..n /\ i \in 0..n /\ n \in i..n /\ i - 1 \in Nat
    BY <1>1
  <2>2. Behind(f[i], f[i - 1], p[i])
    <3>1. IsSeq(f[i - 1]) /\ IsSeq(p[i]) /\ f[i] = f[i - 1] \o p[i]
      BY <1>2, <1>3, <2>1 DEF Pieces, IsFront
    <3>2. Behind(f[i - 1] \o p[i], f[i - 1], p[i])
      BY <3>1, Cat, Zenon
    <3> QED
      BY <3>1, <3>2
  <2>3. \A a \in 1..Len(f[i]) : f[n][a] = f[i][a]
    BY <1>2, <2>1, FrontKept
  <2>4. Len(f[i - 1]) = (i - 1) * w /\ Len(p[i]) = w
    BY <1>7, <2>1
  <2>5. Len(f[i]) = (i - 1) * w + w /\ \A a \in 1..w : f[i][(i - 1) * w + a] = p[i][a]
    BY <2>2, <2>4 DEF Behind
  <2> DEFINE m == (i - 1) * w
  <2>6. m \in Nat
    BY <2>1
  <2> HIDE DEF m
  <2>7. m + c \in 1..(m + w)
    BY <2>6
  <2> QED
    BY <2>3, <2>5, <2>7 DEF m
<1>9. n \in 0..n
  BY <1>1
<1> QED
  BY <1>2, <1>3, <1>7, <1>8, <1>9 DEF Blocks

-----------------------------------------------------------------------------
(* What stands where in a sequence.                                         *)

\* b holds s behind its element number o.
At(b, o, s) ==
    /\ o + Len(s) <= Len(b)
    /\ \A i \in 1..Len(s) : b[o + i] = s[i]

LEMMA AtStart ==
    ASSUME NEW b, IsSeq(b)
    PROVE  At(b, 0, b)
<1>1. Len(b) \in Nat
  BY SeqIs
<1> QED
  BY <1>1 DEF At

\* The parts of a concatenation stand one behind the other, ...
LEMMA AtCat ==
    ASSUME NEW b, IsSeq(b), NEW o \in Nat, NEW s, NEW t, IsSeq(s), IsSeq(t), At(b, o, s \o t)
    PROVE  At(b, o, s) /\ At(b, o + Len(s), t)
<1> DEFINE u == s \o t
<1>1. Behind(u, s, t)
  BY Cat, Zenon
<1>2. Len(b) \in Nat
  BY SeqIs
<1>3. At(b, o, u)
  OBVIOUS
<1> HIDE DEF u
<1>4. At(b, o, s)
  BY <1>1, <1>2, <1>3 DEF Behind, At
<1>5. ASSUME NEW i \in 1..Len(t) PROVE b[(o + Len(s)) + i] = t[i]
  <2>1. Len(s) + i \in 1..Len(u) /\ u[Len(s) + i] = t[i]
    BY <1>1 DEF Behind
  <2>2. b[o + (Len(s) + i)] = u[Len(s) + i]
    BY <1>3, <2>1 DEF At
  <2>3. o + (Len(s) + i) = (o + Len(s)) + i
    BY <1>1 DEF Behind
  <2> QED
    BY <2>1, <2>2, <2>3
<1>6. (o + Len(s)) + Len(t) <= Len(b)
  BY <1>1, <1>2, <1>3 DEF Behind, At
<1> QED
  BY <1>4, <1>5, <1>6 DEF At

\* ... and those of joined pieces of one length at its multiples.
LEMMA AtBlock ==
    ASSUME NEW b, IsSeq(b), NEW o \in Nat, NEW s, NEW p, NEW w \in Nat, Blocks(s, p, w),
           At(b, o, s), IsSeq(p), NEW i \in 1..Len(p), Len(p[i]) = w
    PROVE  At(b, o + (i - 1) * w, p[i])
<1> DEFINE m == (i - 1) * w
           n == Len(p) * w
<1>1. Len(p) \in Nat /\ Len(b) \in Nat
  BY SeqIs
<1>2. m \in Nat /\ n \in Nat /\ m + w <= n
  <2> DEFINE j == Len(p) - i
  <2>1. j \in Nat /\ i - 1 \in Nat
    BY <1>1
  <2>2. j * w \in Nat /\ m \in Nat
    BY <2>1
  <2>3. n = m + w + j * w
    <3>1. Len(p) = (i - 1) + 1 + j
      BY <1>1
    <3> HIDE DEF j
    <3>2. ((i - 1) + 1 + j) * w = (i - 1) * w + w + j * w
      BY <2>1
    <3> QED
      BY <3>1, <3>2
  <2> HIDE DEF j, m, n
  <2> QED
    BY <2>2, <2>3
<1>3. Len(s) = n /\ \A c \in 1..w : s[m + c] = p[i][c]
  BY DEF Blocks
<1> HIDE DEF m, n
<1>4. (o + m) + Len(p[i]) <= Len(b)
  BY <1>1, <1>2, <1>3 DEF At
<1>5. ASSUME NEW c \in 1..Len(p[i]) PROVE b[(o + m) + c] = p[i][c]
  <2>1. m + c \in 1..Len(s) /\ o + (m + c) = (o + m) + c
    BY <1>2, <1>3
  <2>2. b[o + (m + c)] = s[m + c]
    BY <2>1 DEF At
  <2> QED
    BY <1>3, <2>1, <2>2
<1>6. At(b, o + m, p[i])
  BY <1>4, <1>5 DEF At
<1> QED
  BY <1>6 DEF m

\* What b holds can be cut out of it.
LEMMA AtCut ==
    ASSUME NEW b, IsSeq(b), NEW o \in Nat, NEW s, IsSeq(s), At(b, o, s)
    PROVE  SubSeq(b, o + 1, o + Len(s)) = s
<1> DEFINE e == o + Len(s)
           u == SubSeq(b, o + 1, e)
<1>1. Len(s) \in Nat /\ e \in Nat /\ o <= e /\ e - o = Len(s)
  BY SeqIs
<1>2. e <= Len(b)
  BY DEF At
<1>3. Within(u, b, o, e)
  BY <1>1, <1>2, Cut, Zenon
<1> HIDE DEF u, e
<1>4. IsSeq(u) /\ Len(u) = Len(s) /\ \A i \in 1..Len(s) : u[i] = s[i]
  BY <1>1, <1>3 DEF Within, At
<1>5. u = s
  BY <1>4, SameSeq
<1> QED
  BY <1>5 DEF u, e

\* A sequence of two halves of d elements, and where the code cuts them out.
Halves(u, x, y, d) ==
    Len(u) = 2 * d /\ SubSeq(u, 1, d) = x /\ SubSeq(u, d + 1, 2 * d) = y

LEMMA HalvesOf ==
    ASSUME NEW x, NEW y, IsSeq(x), IsSeq(y), NEW d \in Nat, Len(x) = d, Len(y) = d
    PROVE  Halves(x \o y, x, y, d)
<1> DEFINE u == x \o y
<1>1. Behind(u, x, y)
  BY Cat, Zenon
<1>2. IsSeq(u) /\ Len(u) = 2 * d
  BY <1>1 DEF Behind
<1>3. At(u, 0, u)
  BY <1>2, AtStart, Zenon
<1>4. At(u, 0, x) /\ At(u, 0 + Len(x), y)
  <2>1. 0 \in Nat
    OBVIOUS
  <2> QED
    BY <1>2, <1>3, <2>1, AtCat, Zenon
<1> HIDE DEF u
<1>5. SubSeq(u, 0 + 1, 0 + Len(x)) = x
  BY <1>2, <1>4, AtCut
<1>6. SubSeq(u, d + 1, d + Len(y)) = y
  BY <1>2, <1>4, AtCut
<1>7. SubSeq(u, 1, d) = x /\ SubSeq(u, d + 1, 2 * d) = y
  BY <1>5, <1>6
<1> QED
  BY <1>2, <1>7 DEF u, Halves

LEMMA PairPlaces ==
    ASSUME NEW n \in Nat, NEW j, j \in 1..(n \div 2)
    PROVE  j \in Nat /\ j >= 1 /\ 2 * j <= n /\ 2 * j - 1 \in 1..n /\ 2 * j \in 1..n
OBVIOUS

LEMMA HalfOf ==
    ASSUME NEW n \in Nat
    PROVE  /\ (2 * n) \div 2 = n /\ (2 * n) % 2 = 0
           /\ n % 2 = 0 => 2 * (n \div 2) = n
           /\ n \div 2 \in Nat
OBVIOUS

-----------------------------------------------------------------------------
(* Pieces of one length.                                                   *)

\* Tensor [T, rows of H pieces]: element x of row q, of w elements a row, is element
\* q * w + x + 1 of the whole.
LEMMA SplitIndex ==
    ASSUME NEW m \in Nat, NEW w \in Nat \ {0}, NEW k \in 1..(m * w)
    PROVE  \E q \in 1..m, x \in 1..w : k = (q - 1) * w + x
<1> DEFINE a == k - 1
           q == (a \div w) + 1
           x == (a % w) + 1
<1>1. a \in 0..(m * w - 1)
  OBVIOUS
<1>2. /\ q \in Int /\ x \in Int
      /\ q - 1 \in 0..(m - 1) /\ x - 1 \in 0..(w - 1) /\ a = w * (q - 1) + (x - 1)
  <2>1. a \div w \in 0..(m - 1) /\ a % w \in 0..(w - 1) /\ a = w * (a \div w) + (a % w)
    BY <1>1, BlockOf
  <2> HIDE DEF a
  <2> QED
    BY <2>1
<1> HIDE DEF q, x
<1>3. q \in 1..m /\ x \in 1..w
  BY <1>2
<1>4. k = (q - 1) * w + x
  <2>1. w * (q - 1) = (q - 1) * w /\ (q - 1) * w \in Nat
    BY <1>2
  <2> QED
    BY <1>2, <2>1
<1> QED
  BY <1>3, <1>4

\* p is n pieces of w elements each, ...
PiecesOf(p, n, w) ==
    IsSeq(p) /\ Len(p) = n /\ \A i \in 1..n : IsSeq(p[i]) /\ Len(p[i]) = w

\* ... and s has the elements of those pieces, one piece behind the other.
Has(s, p, n, w) ==
    /\ IsSeq(s) /\ Len(s) = n * w
    /\ \A i \in 1..n, c \in 1..w : s[(i - 1) * w + c] = p[i][c]

LEMMA ArePieces ==
    ASSUME NEW n \in Nat, NEW w, NEW p, p = [i \in 1..n |-> p[i]],
           \A i \in 1..n : IsSeq(p[i]) /\ Len(p[i]) = w
    PROVE  PiecesOf(p, n, w)
<1>1. IsSeq(p) /\ Len(p) = n
  BY LengthOf, Zenon
<1> QED
  BY <1>1 DEF PiecesOf

LEMMA JoinedHas ==
    ASSUME NEW n \in Nat, NEW w \in Nat, NEW p, PiecesOf(p, n, w)
    PROVE  Has(Join(p), p, n, w)
<1>1. IsSeq(p) /\ Len(p) = n
  BY DEF PiecesOf
<1>2. Pieces(p) /\ \A i \in 1..Len(p) : Len(p[i]) = w
  BY DEF Pieces, PiecesOf
<1>3. Blocks(Join(p), p, w)
  BY <1>2, JoinBlocks, Zenon
<1> QED
  BY <1>1, <1>3 DEF Blocks, Has

LEMMA JoinedIs ==
    ASSUME NEW n \in Nat, NEW w \in Nat \ {0}, NEW p, PiecesOf(p, n, w),
           NEW s, Has(s, p, n, w)
    PROVE  Join(p) = s
<1> DEFINE b == Join(p)
<1>1. Has(b, p, n, w)
  <2>1. w \in Nat
    OBVIOUS
  <2> QED
    BY <2>1, JoinedHas, Zenon
<1> HIDE DEF b
<1>2. ASSUME NEW k \in 1..Len(s) PROVE b[k] = s[k]
  <2>1. k \in 1..(n * w)
    BY DEF Has
  <2>2. PICK q \in 1..n, x \in 1..w : k = (q - 1) * w + x
    BY <2>1, SplitIndex, Zenon
  <2>3. b[(q - 1) * w + x] = p[q][x] /\ s[(q - 1) * w + x] = p[q][x]
    BY <1>1 DEF Has
  <2> QED
    BY <2>2, <2>3
<1>3. b = s
  BY <1>1, <1>2, SameSeq DEF Has
<1> QED
  BY <1>3 DEF b

\* u is a sequence of n elements.
Long(u, n) == IsSeq(u) /\ Len(u) = n

LEMMA CatLong ==
    ASSUME NEW s, NEW t, NEW n, Long(s, n), NEW m, Long(t, m)
    PROVE  Long(s \o t, n + m)
<1>1. Behind(s \o t, s, t)
  BY Cat, Zenon DEF Long
<1> QED
  BY <1>1 DEF Behind, Long

\* In joined pieces every piece stands at its multiple.
LEMMA AtPiece ==
    ASSUME NEW b, IsSeq(b), NEW o \in Nat, NEW p, NEW n \in Nat, NEW w \in Nat,
           PiecesOf(p, n, w), At(b, o, Join(p)), NEW i \in 1..n
    PROVE  At(b, o + (i - 1) * w, p[i])
<1> DEFINE s == Join(p)
<1>1. Has(s, p, n, w)
  BY JoinedHas, Zenon
<1>2. At(b, o, s)
  OBVIOUS
<1> HIDE DEF s
<1>3. IsSeq(p) /\ Len(p) = n /\ Len(p[i]) = w /\ i \in 1..Len(p)
  BY DEF PiecesOf
<1>4. Blocks(s, p, w)
  BY <1>1, <1>3 DEF Has, Blocks
<1> QED
  BY <1>2, <1>3, <1>4, AtBlock, Zenon

Split(b, s, t, n) == At(b, 0, s) /\ At(b, n, t)

LEMMA SplitAt ==
    ASSUME NEW b, IsSeq(b), NEW s, NEW t, NEW n \in Nat, Long(s, n), IsSeq(t), At(b, 0, s \o t)
    PROVE  Split(b, s, t, n)
<1>1. 0 \in Nat /\ IsSeq(s) /\ Len(s) = n
  BY DEF Long
<1>2. At(b, 0, s) /\ At(b, 0 + Len(s), t)
  BY <1>1, AtCat, Zenon
<1> QED
  BY <1>1, <1>2 DEF Split

LEMMA Grows ==
    ASSUME NEW k \in Nat, NEW f, f = [i \in 1..(k + 1) |-> f[i]],
           NEW s, s = [i \in 1..k |-> s[i]], \A i \in 1..k : s[i] = f[i]
    PROVE  Append(s, f[k + 1]) = f
<1> DEFINE v == f[k + 1]
           S == Range(s) \cup {v}
           u == Append(s, v)
<1>1. IsSeq(s) /\ Len(s) = k
  BY LengthOf, Zenon
<1>2. IsSeq(f) /\ Len(f) = k + 1
  <2>1. k + 1 \in Nat
    OBVIOUS
  <2> QED
    BY <2>1, LengthOf, Zenon
<1>3. s \in Seq(S) /\ v \in S
  BY <1>1, SeqMonotonic DEF IsSeq
<1>4. /\ u \in Seq(S) /\ Len(u) = Len(s) + 1
      /\ \A i \in 1..Len(s) : u[i] = s[i]
      /\ u[Len(s) + 1] = v
  BY <1>3, AppendProperties
<1>5. IsSeq(u)
  BY <1>4, IsSeqIn
<1> HIDE DEF u
<1>6. ASSUME NEW i \in 1..(k + 1) PROVE u[i] = f[i]
  <2>1. CASE i = k + 1
    BY <1>1, <1>4, <2>1
  <2>2. CASE i # k + 1
    <3>1. i \in 1..k
      BY <2>2
    <3> QED
      BY <1>1, <1>4, <3>1
  <2> QED
    BY <2>1, <2>2
<1>7. u = f
  BY <1>1, <1>2, <1>4, <1>5, <1>6, SameSeq
<1> QED
  BY <1>7 DEF u
=============================================================================
