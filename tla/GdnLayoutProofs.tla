--------------------------- MODULE GdnLayoutProofs ---------------------------
(***************************************************************************)
(* The recurrent half of a blob for every model: all head counts, head      *)
(* dimensions, conv rows, ranks and layers.  Merging the ranks' shards is   *)
(* the solo engine's capture (MergedAsSolo), the permutation of the heads   *)
(* is one and has the inverse a reader applies (PermutationInverse), and    *)
(* every number of the tail is where llama.cpp looks for it (FinalizedFor-  *)
(* Llama, ConvFound, SsmFound).  The invariant is GdnInv.                   *)
(***************************************************************************)
EXTENDS GdnLayout, JoiningProofs

LEMMA FunctionIsSeq ==
    ASSUME NEW n \in Nat, NEW S, NEW f \in [1..n -> S]
    PROVE  f \in Seq(S) /\ Len(f) = n
<1>1. f \in Seq(S)
  BY SeqDef
<1>2. DOMAIN f = 1..n /\ DOMAIN f = 1..Len(f) /\ Len(f) \in Nat
  BY <1>1, LenProperties
<1> QED
  BY <1>1, <1>2

-----------------------------------------------------------------------------
(* The models, and the widths of their tensors.                             *)

\* v-heads; elements of w for each; channels of q and k.
Heads(g)    == g.nk * g.ratio
Width(g, w) == Heads(g) * w
QkWidth(g)  == 2 * g.nk * g.dk

LEMMA Product == \A x, y \in Nat \ {0} : x * y \in Nat \ {0}
OBVIOUS

LEMMA ModelType ==
    ASSUME NEW g \in Shapes
    PROVE  /\ g.nk \in Nat \ {0} /\ g.ratio \in Nat \ {0} /\ g.dk \in Nat \ {0}
           /\ g.dv \in Nat \ {0} /\ g.time \in Nat \ {0} /\ g.linear \in Nat \ {0}
           /\ g.tp \in Nat \ {0} /\ g.n \in Nat \ {0}
BY DEF Shapes, Positive

LEMMA Widths ==
    ASSUME NEW g \in Shapes, NEW w \in Nat \ {0}
    PROVE  Heads(g) \in Nat \ {0} /\ Width(g, w) \in Nat \ {0} /\ QkWidth(g) \in Nat \ {0}
<1>1. Heads(g) \in Nat \ {0}
  BY ModelType, Product DEF Heads
<1>2. 2 * g.nk \in Nat \ {0}
  BY ModelType
<1> QED
  BY <1>1, <1>2, ModelType, Product DEF Width, QkWidth

-----------------------------------------------------------------------------
(* The permutation.                                                        *)

\* vhead_permutation and the order llama.cpp has its v-heads in are inverse to
\* each other: no two of vLLM's heads land on one place and no place is left
\* out, for all numbers of k-heads and of v-heads per k-head.
THEOREM PermutationInverse ==
    ASSUME NEW g \in Shapes
    PROVE  LET nv == Heads(g)
               perm == VheadPermutation(nv, g.nk)
           IN  /\ perm \in [0..(nv - 1) -> 0..(nv - 1)]
               /\ \A h \in 0..(nv - 1) : LlamaHead(g, perm[h]) = h
               /\ \A j \in 0..(nv - 1) : LlamaHead(g, j) \in 0..(nv - 1)
                                         /\ perm[LlamaHead(g, j)] = j
<1> DEFINE nk == g.nk
           ratio == g.ratio
           nv == nk * ratio
           perm == VheadPermutation(nv, nk)
<1>1. nk \in Nat \ {0} /\ ratio \in Nat \ {0} /\ nv \in Nat
  <2>1. nk \in Nat \ {0} /\ ratio \in Nat \ {0}
    BY ModelType
  <2> QED
    BY <2>1
<1>2. nv \div nk = ratio
  <2>1. nv = nk * ratio + 0 /\ 0 \in 0..(nk - 1)
    BY <1>1
  <2> QED
    BY <1>1, <2>1, DivModOf
<1>3. perm = [h \in 0..(nv - 1) |-> ((h % ratio) * nk) + (h \div ratio)]
  BY <1>2 DEF VheadPermutation
<1>4. ASSUME NEW j PROVE LlamaHead(g, j) = ((j % nk) * ratio) + (j \div nk)
  BY DEF LlamaHead
<1> HIDE DEF nk, ratio, perm
<1>5. ASSUME NEW h \in 0..(nv - 1)
      PROVE  perm[h] \in 0..(nv - 1) /\ LlamaHead(g, perm[h]) = h
  <2> DEFINE k == h \div ratio
             x == h % ratio
  <2>1. k \in 0..(nk - 1) /\ x \in 0..(ratio - 1) /\ h = ratio * k + x
    BY <1>1, BlockOf
  <2>2. perm[h] = nk * x + k
    BY <1>1, <1>3, <2>1
  <2> HIDE DEF k, x
  <2>3. perm[h] \in 0..(ratio * nk - 1)
    BY <1>1, <2>1, <2>2, InBlock
  <2>4. perm[h] \div nk = x /\ perm[h] % nk = k
    <3>1. nk \in Nat \ {0} /\ x \in Nat /\ k \in 0..(nk - 1)
      BY <1>1, <2>1
    <3>2. (nk * x + k) \div nk = x /\ (nk * x + k) % nk = k
      BY <3>1, DivModOf, Zenon
    <3> QED
      BY <2>2, <3>2
  <2>5. LlamaHead(g, perm[h]) = (k * ratio) + x
    BY <1>4, <2>4
  <2> QED
    BY <1>1, <2>1, <2>3, <2>5
<1>6. ASSUME NEW j \in 0..(nv - 1)
      PROVE  LlamaHead(g, j) \in 0..(nv - 1) /\ perm[LlamaHead(g, j)] = j
  <2> DEFINE x == j \div nk
             k == j % nk
             h == LlamaHead(g, j)
  <2>1. x \in 0..(ratio - 1) /\ k \in 0..(nk - 1) /\ j = nk * x + k
    <3>1. j \in 0..(ratio * nk - 1)
      BY <1>1
    <3> QED
      BY <1>1, <3>1, BlockOf
  <2>2. h = (k * ratio) + x
    BY <1>4
  <2> HIDE DEF k, x, h
  <2>3. h = ratio * k + x
    BY <1>1, <2>1, <2>2
  <2>4. h \in 0..(nv - 1)
    BY <1>1, <2>1, <2>3, InBlock
  <2>5. h \div ratio = k /\ h % ratio = x
    <3>1. ratio \in Nat \ {0} /\ k \in Nat /\ x \in 0..(ratio - 1)
      BY <1>1, <2>1
    <3>2. (ratio * k + x) \div ratio = k /\ (ratio * k + x) % ratio = x
      BY <3>1, DivModOf, Zenon
    <3> QED
      BY <2>3, <3>2
  <2>6. perm[h] = (x * nk) + k
    BY <1>3, <2>4, <2>5
  <2> QED
    BY <1>1, <2>1, <2>4, <2>6 DEF h
<1> QED
  BY <1>1, <1>3, <1>5, <1>6 DEF nk, ratio, perm, Heads

\* Where the element at place a of the scattered blocks comes from.
Source(g, w) == [a \in 0..(Width(g, w) - 1) |-> w * LlamaHead(g, a \div w) + (a % w)]

Rearranged(out, in, from, n) == \A a \in 0..(n - 1) : out[a + 1] = in[from[a] + 1]

\* Scatter puts at place j the block of vLLM's head LlamaHead(j).
LEMMA Scattered ==
    ASSUME NEW g \in Shapes, NEW w \in Nat \ {0},
           NEW S, NEW in \in Seq(S), Len(in) = Width(g, w)
    PROVE  LET out == Scatter(VheadPermutation(Heads(g), g.nk), w, in)
           IN  /\ out \in Seq(S) /\ Len(out) = Width(g, w)
               /\ Source(g, w) \in [0..(Width(g, w) - 1) -> 0..(Width(g, w) - 1)]
               /\ Rearranged(out, in, Source(g, w), Width(g, w))
<1> DEFINE nv == Heads(g)
           n == Width(g, w)
           perm == VheadPermutation(nv, g.nk)
           out == Scatter(perm, w, in)
<1>1. nv \in Nat /\ n \in Nat /\ n = nv * w /\ Len(in) = n
  BY Widths DEF Width
<1>2. /\ perm \in [0..(nv - 1) -> 0..(nv - 1)]
      /\ \A h \in 0..(nv - 1) : LlamaHead(g, perm[h]) = h
      /\ \A j \in 0..(nv - 1) : LlamaHead(g, j) \in 0..(nv - 1) /\ perm[LlamaHead(g, j)] = j
  BY PermutationInverse
<1>3. out = [c \in 1..n |->
                LET h == CHOOSE i \in DOMAIN perm : perm[i] = (c - 1) \div w
                IN  in[h * w + ((c - 1) % w) + 1]]
  BY <1>1 DEF Scatter
<1> HIDE DEF nv, n, perm, out
<1>4. ASSUME NEW a \in 0..(n - 1)
      PROVE  LET at == w * LlamaHead(g, a \div w) + (a % w)
             IN  at \in 0..(n - 1) /\ out[a + 1] = in[at + 1]
  <2> DEFINE j == a \div w
             x == a % w
             head == LlamaHead(g, j)
             h == CHOOSE i \in DOMAIN perm : perm[i] = j
  <2>1. j \in 0..(nv - 1) /\ x \in 0..(w - 1)
    BY <1>1, BlockOf
  <2>2. h \in 0..(nv - 1) /\ perm[h] = j
    BY <1>2, <2>1
  <2>3. h = head
    BY <1>2, <2>2
  <2> DEFINE c == a + 1
  <2>4. c \in 1..n /\ c - 1 = a
    BY <1>1
  <2> HIDE DEF c
  <2>5. out[c] = in[(CHOOSE i \in DOMAIN perm : perm[i] = (c - 1) \div w) * w
                    + ((c - 1) % w) + 1]
    BY <1>3, <2>4
  <2>6. out[c] = in[h * w + x + 1]
    BY <2>4, <2>5
  <2> HIDE DEF j, x, head, h
  <2>7. w * head + x \in 0..(n - 1)
    BY <1>1, <2>1, <2>2, <2>3, InBlock
  <2>8. h * w = w * head
    BY <2>2, <2>3
  <2> QED
    BY <2>6, <2>7, <2>8 DEF j, x, head, c
<1>5. out \in [1..n -> S]
  <2>1. ASSUME NEW c \in 1..n PROVE out[c] \in S
    <3>1. c - 1 \in 0..(n - 1) /\ (c - 1) + 1 = c
      BY <1>1
    <3> DEFINE at == w * LlamaHead(g, (c - 1) \div w) + ((c - 1) % w)
    <3>2. at \in 0..(n - 1) /\ out[c] = in[at + 1]
      BY <1>4, <3>1
    <3> HIDE DEF at
    <3>3. at + 1 \in 1..Len(in)
      BY <1>1, <3>2
    <3> QED
      BY <3>2, <3>3, ElementOfSeq
  <2>2. DOMAIN out = 1..n
    BY <1>3
  <2> QED
    BY <1>3, <2>1, <2>2
<1>6. out \in Seq(S) /\ Len(out) = n
  BY <1>1, <1>5, FunctionIsSeq
<1> QED
  BY <1>4, <1>6 DEF Rearranged, Source, nv, n, perm, out

LEMMA PermutedSsm ==
    ASSUME NEW g \in Shapes, NEW S, NEW ssm \in Seq(S), Len(ssm) = Heads(g)
    PROVE  /\ PermuteSsm(ssm, g.nk, Heads(g))
                = [h \in 1..Heads(g) |-> ssm[LlamaHead(g, h - 1) + 1]]
           /\ \A j \in 0..(Heads(g) - 1) : LlamaHead(g, j) \in 0..(Heads(g) - 1)
<1> DEFINE nv == Heads(g)
           out == PermuteSsm(ssm, g.nk, nv)
<1>1. nv \in Nat /\ Width(g, 1) = nv
  BY Widths DEF Width
<1>2. /\ out \in Seq(S) /\ Len(out) = nv
      /\ \A a \in 0..(nv - 1) : out[a + 1] = ssm[Source(g, 1)[a] + 1]
  BY <1>1, Scattered DEF PermuteSsm, Rearranged
<1> HIDE DEF out
<1>3. ASSUME NEW j \in 0..(nv - 1)
      PROVE  LlamaHead(g, j) \in 0..(nv - 1) /\ Source(g, 1)[j] = LlamaHead(g, j)
  <2>1. j \div 1 = j /\ j % 1 = 0 /\ j \in Nat
    BY <1>1
  <2>2. LlamaHead(g, j) \in 0..(nv - 1)
    BY PermutationInverse
  <2>3. 1 * LlamaHead(g, j) + 0 = LlamaHead(g, j)
    BY <1>1, <2>2
  <2> QED
    BY <1>1, <2>1, <2>2, <2>3 DEF Source
<1> HIDE DEF nv
<1>4. ASSUME NEW h \in 1..nv PROVE out[h] = ssm[LlamaHead(g, h - 1) + 1]
  <2>1. h - 1 \in 0..(nv - 1) /\ (h - 1) + 1 = h
    BY <1>1
  <2> QED
    BY <1>2, <1>3, <2>1
<1>5. out = [h \in 1..nv |-> out[h]]
  BY <1>2, LenProperties
<1>6. out = [h \in 1..nv |-> ssm[LlamaHead(g, h - 1) + 1]]
  BY <1>4, <1>5
<1> QED
  BY <1>3, <1>6 DEF out, nv

\* A row of a conv state, cut behind q and k, ...
LEMMA RowCut ==
    ASSUME NEW qk \in Nat, NEW vs \in Nat, NEW S, NEW row \in Seq(S), Len(row) = qk + vs,
           NEW v, v = SubSeq(row, qk + 1, Len(row))
    PROVE  /\ v \in Seq(S) /\ Len(v) = vs
           /\ \A a \in 0..(vs - 1) : v[a + 1] = row[qk + a + 1]
<1>1. \A i \in (qk + 1)..(qk + vs) : row[i] \in S
  BY ElementOfSeq
<1>2. v = SubSeq(row, qk + 1, qk + vs)
  OBVIOUS
<1>3. /\ v \in Seq(S)
      /\ Len(v) = IF qk + 1 <= qk + vs THEN (qk + vs) - (qk + 1) + 1 ELSE 0
      /\ \A i \in 1..((qk + vs) - (qk + 1) + 1) : v[i] = row[(qk + 1) + i - 1]
  BY <1>1, <1>2, SubSeqProperties
<1>4. Len(v) = vs
  BY <1>3
<1>5. ASSUME NEW a \in 0..(vs - 1) PROVE v[a + 1] = row[qk + a + 1]
  <2>1. /\ a + 1 \in 1..((qk + vs) - (qk + 1) + 1)
        /\ (qk + 1) + (a + 1) - 1 = qk + a + 1
    OBVIOUS
  <2> QED
    BY <1>3, <2>1
<1> QED
  BY <1>3, <1>4, <1>5

\* ... and with something of the same size put there.
Replaced(new, row, out, qk, vs) ==
    /\ IsSeq(new) /\ Len(new) = qk + vs
    /\ \A c \in 0..(qk - 1) : new[c + 1] = row[c + 1]
    /\ \A a \in 0..(vs - 1) : new[qk + a + 1] = out[a + 1]

LEMMA RowJoined ==
    ASSUME NEW qk \in Nat, NEW vs \in Nat, NEW S, NEW row \in Seq(S), Len(row) = qk + vs,
           NEW out \in Seq(S), Len(out) = vs, NEW new, new = SubSeq(row, 1, qk) \o out
    PROVE  Replaced(new, row, out, qk, vs)
<1> DEFINE head == SubSeq(row, 1, qk)
<1>1. \A i \in 1..qk : row[i] \in S
  BY ElementOfSeq
<1>2. /\ head \in Seq(S) /\ Len(head) = IF 1 <= qk THEN qk - 1 + 1 ELSE 0
      /\ \A i \in 1..(qk - 1 + 1) : head[i] = row[1 + i - 1]
  BY <1>1, SubSeqProperties
<1>3. Len(head) = qk /\ \A i \in 1..qk : head[i] = row[i]
  BY <1>2
<1>4. new = head \o out
  OBVIOUS
<1> HIDE DEF head
<1>5. /\ new \in Seq(S) /\ Len(new) = Len(head) + Len(out)
      /\ \A i \in 1..(Len(head) + Len(out)) :
            new[i] = IF i <= Len(head) THEN head[i] ELSE out[i - Len(head)]
  BY <1>2, <1>4, ConcatProperties
<1>6. \A i \in 1..(qk + vs) : new[i] = IF i <= qk THEN head[i] ELSE out[i - qk]
  BY <1>3, <1>5
<1>7. ASSUME NEW a \in 0..(vs - 1) PROVE new[qk + a + 1] = out[a + 1]
  <2>1. /\ qk + a + 1 \in 1..(qk + vs) /\ ~(qk + a + 1 <= qk)
        /\ (qk + a + 1) - qk = a + 1
    OBVIOUS
  <2> QED
    BY <1>6, <2>1
<1>8. ASSUME NEW c \in 0..(qk - 1) PROVE new[c + 1] = row[c + 1]
  <2>1. c + 1 \in 1..(qk + vs) /\ c + 1 <= qk /\ c + 1 \in 1..qk
    OBVIOUS
  <2> QED
    BY <1>3, <1>6, <2>1
<1>9. IsSeq(new) /\ Len(new) = qk + vs
  BY <1>3, <1>5, IsSeqIn
<1> QED
  BY <1>7, <1>8, <1>9 DEF Replaced

\* What permute_conv_channels makes of a row.
PermutedRow(g, row) ==
    SubSeq(row, 1, QkWidth(g))
    \o Scatter(VheadPermutation(Heads(g), g.nk), g.dv, SubSeq(row, QkWidth(g) + 1, Len(row)))

\* q and k stay in place, and v's heads come in llama.cpp's order.
LEMMA RowPermuted ==
    ASSUME NEW g \in Shapes, NEW S, NEW row \in Seq(S), Len(row) = QkWidth(g) + Width(g, g.dv)
    PROVE  LET vs == Width(g, g.dv)
               from == Source(g, g.dv)
           IN  /\ IsSeq(PermutedRow(g, row)) /\ Len(PermutedRow(g, row)) = Len(row)
               /\ from \in [0..(vs - 1) -> 0..(vs - 1)]
               /\ \A c \in 0..(QkWidth(g) - 1) : PermutedRow(g, row)[c + 1] = row[c + 1]
               /\ \A a \in 0..(vs - 1) :
                     PermutedRow(g, row)[QkWidth(g) + a + 1] = row[QkWidth(g) + from[a] + 1]
<1> DEFINE qk == QkWidth(g)
           w == g.dv
           vs == Width(g, w)
           v == SubSeq(row, qk + 1, Len(row))
           out == Scatter(VheadPermutation(Heads(g), g.nk), w, v)
           new == PermutedRow(g, row)
           from == Source(g, w)
<1>1. qk \in Nat /\ vs \in Nat /\ w \in Nat \ {0} /\ Len(row) = qk + vs
  BY Widths, ModelType
<1>2. new = SubSeq(row, 1, qk) \o out
  BY DEF PermutedRow
<1> HIDE DEF qk, new
<1>3. /\ v \in Seq(S) /\ Len(v) = vs
      /\ \A a \in 0..(vs - 1) : v[a + 1] = row[qk + a + 1]
  BY <1>1, RowCut
<1> HIDE DEF v
<1>4. /\ out \in Seq(S) /\ Len(out) = vs
      /\ from \in [0..(vs - 1) -> 0..(vs - 1)]
      /\ \A a \in 0..(vs - 1) : out[a + 1] = v[from[a] + 1]
  <2>1. w \in Nat \ {0} /\ v \in Seq(S) /\ Len(v) = Width(g, w)
    BY <1>1, <1>3
  <2> HIDE DEF w
  <2>2. /\ Scatter(VheadPermutation(Heads(g), g.nk), w, v) \in Seq(S)
        /\ Len(Scatter(VheadPermutation(Heads(g), g.nk), w, v)) = Width(g, w)
        /\ Source(g, w) \in [0..(Width(g, w) - 1) -> 0..(Width(g, w) - 1)]
        /\ Rearranged(Scatter(VheadPermutation(Heads(g), g.nk), w, v), v,
                      Source(g, w), Width(g, w))
    BY <2>1, Scattered, Zenon
  <2> QED
    BY <2>2, Zenon DEF Rearranged
<1> HIDE DEF out, from, vs
<1>5. Replaced(new, row, out, qk, vs)
  <2>1. out \in Seq(S) /\ Len(out) = vs
    BY <1>4
  <2>2. qk \in Nat /\ vs \in Nat /\ Len(row) = qk + vs
    BY <1>1 DEF vs
  <2> QED
    BY <1>2, <2>1, <2>2, RowJoined, Zenon
<1>6. ASSUME NEW a \in 0..(vs - 1) PROVE new[qk + a + 1] = row[qk + from[a] + 1]
  <2>1. from[a] \in 0..(vs - 1) /\ new[qk + a + 1] = v[from[a] + 1]
    BY <1>4, <1>5 DEF Replaced
  <2> QED
    BY <1>3, <2>1
<1> QED
  BY <1>1, <1>4, <1>5, <1>6 DEF Replaced, qk, vs, w, new, from

-----------------------------------------------------------------------------
(* Shards.  The segments of a rank have m heads each, the first of them with *)
(* number m * (r - 1).                                                      *)

Elements(L, t) == {"q", "k", "v"} \X {L} \X {t} \X Nat \X Nat

\* A segment of n heads, of which the first has number `from`.
IsSegment(s, name, from, n, dim, L, t) ==
    /\ s \in Seq(Elements(L, t)) /\ Len(s) = n * dim
    /\ \A a \in 0..(n * dim - 1) : s[a + 1] = <<name, L, t, from + (a \div dim), a % dim>>

LEMMA SegmentOf ==
    ASSUME NEW name \in {"q", "k", "v"}, NEW from \in Nat, NEW n \in Nat \ {0},
           NEW dim \in Nat \ {0}, NEW L, NEW t
    PROVE  IsSegment(Segment(name, from..(from + n - 1), dim, L, t), name, from, n, dim, L, t)
<1> DEFINE hs == from..(from + n - 1)
           first == CHOOSE h \in hs : \A i \in hs : h <= i
           last == CHOOSE h \in hs : \A i \in hs : i <= h
           s == Segment(name, hs, dim, L, t)
           m == n * dim
<1>2. first = from
  <2>1. from \in hs /\ \A i \in hs : from <= i
    OBVIOUS
  <2>2. first \in hs /\ first <= from
    BY <2>1
  <2> QED
    BY <2>2
<1>3. last = from + n - 1
  <2>1. from + n - 1 \in hs /\ \A i \in hs : i <= from + n - 1
    OBVIOUS
  <2>2. last \in hs /\ from + n - 1 <= last
    BY <2>1
  <2> QED
    BY <2>2
<1>4. s = [c \in 1..(dim * (1 + last - first)) |->
              <<name, L, t, first + ((c - 1) \div dim), (c - 1) % dim>>]
  BY DEF Segment
<1> HIDE DEF first, last
<1>5. dim * (1 + last - first) = m /\ m \in Nat
  <2>1. 1 + last - first = n
    BY <1>2, <1>3
  <2>2. dim * n = n * dim /\ n * dim \in Nat
    OBVIOUS
  <2> QED
    BY <2>1, <2>2, Zenon
<1> HIDE DEF hs, first, last, s, m
<1>6. ASSUME NEW c \in 1..m
      PROVE  /\ s[c] = <<name, L, t, from + ((c - 1) \div dim), (c - 1) % dim>>
             /\ s[c] \in Elements(L, t)
  <2>1. c - 1 \in Nat
    BY <1>5
  <2>2. (c - 1) \div dim \in Nat /\ (c - 1) % dim \in Nat
    <3>1. \A a \in Nat : a \div dim \in Nat /\ a % dim \in 0..(dim - 1)
      BY DivMod
    <3>2. (c - 1) \div dim \in Nat /\ (c - 1) % dim \in 0..(dim - 1)
      BY <2>1, <3>1, Zenon
    <3> QED
      BY <3>2
  <2>3. s[c] = <<name, L, t, from + ((c - 1) \div dim), (c - 1) % dim>>
    BY <1>2, <1>4, <1>5
  <2>4. from + ((c - 1) \div dim) \in Nat
    BY <2>2
  <2> QED
    BY <2>2, <2>3, <2>4 DEF Elements
<1>7. s \in [1..m -> Elements(L, t)]
  BY <1>4, <1>5, <1>6
<1>8. s \in Seq(Elements(L, t)) /\ Len(s) = m
  BY <1>5, <1>7, FunctionIsSeq
<1>9. ASSUME NEW a \in 0..(m - 1) PROVE s[a + 1] = <<name, L, t, from + (a \div dim), a % dim>>
  <2>1. a + 1 \in 1..m /\ (a + 1) - 1 = a
    BY <1>5
  <2> QED
    BY <1>6, <2>1
<1> QED
  BY <1>8, <1>9 DEF s, m, hs, IsSegment

LEMMA HeadsAre ==
    ASSUME NEW tp \in Nat \ {0}, NEW m \in Nat \ {0}, NEW n, n = tp * m, NEW r \in 1..tp
    PROVE  /\ HeadsOf(n, tp, r) = (m * (r - 1))..(m * (r - 1) + m - 1)
           /\ m * (r - 1) \in Nat
<1>1. n \div tp = m
  <2>1. n = tp * m + 0 /\ 0 \in 0..(tp - 1)
    OBVIOUS
  <2>2. (tp * m + 0) \div tp = m
    BY <2>1, DivModOf
  <2> QED
    BY <2>1, <2>2
<1>2. m * r - 1 = m * (r - 1) + m - 1 /\ m * (r - 1) \in Nat
  OBVIOUS
<1> QED
  BY <1>1, <1>2 DEF HeadsOf

\* The parts of a segment that tp ranks have, m heads each.
Shares(p, name, tp, m, dim, L, t) ==
    /\ p = [r \in 1..tp |-> p[r]]
    /\ \A r \in 1..tp : IsSegment(p[r], name, m * (r - 1), m, dim, L, t)

\* One behind the other, they are the segment of all heads.
LEMMA SegmentsJoined ==
    ASSUME NEW name, NEW tp \in Nat \ {0}, NEW m \in Nat \ {0}, NEW dim \in Nat \ {0},
           NEW L, NEW t, NEW p, Shares(p, name, tp, m, dim, L, t),
           NEW s, IsSegment(s, name, 0, tp * m, dim, L, t)
    PROVE  Join(p) = s
<1> DEFINE w == m * dim
           b == Join(p)
<1>1. w \in Nat \ {0}
  BY Product
<1>2. IsSeq(p) /\ Len(p) = tp
  <2>1. p = [r \in 1..tp |-> p[r]]
    BY DEF Shares
  <2> QED
    BY <2>1, LengthOf, Zenon
<1>3. \A r \in 1..tp : IsSeq(p[r]) /\ Len(p[r]) = w
  <2> SUFFICES ASSUME NEW r \in 1..tp PROVE IsSeq(p[r]) /\ Len(p[r]) = w
    OBVIOUS
  <2>1. p[r] \in Seq(Elements(L, t)) /\ Len(p[r]) = w
    BY DEF Shares, IsSegment
  <2> QED
    BY <2>1, IsSeqIn
<1>4. Blocks(b, p, w)
  BY <1>1, <1>2, <1>3, JoinBlocks DEF Pieces
<1>5. (tp * m) * dim = tp * w
  OBVIOUS
<1>6. /\ IsSeq(s) /\ Len(s) = tp * w
      /\ \A a \in 0..(tp * w - 1) : s[a + 1] = <<name, L, t, 0 + (a \div dim), a % dim>>
  BY <1>5, IsSeqIn DEF IsSegment
<1>7. /\ IsSeq(b) /\ Len(b) = tp * w
      /\ \A r \in 1..tp, c \in 1..w : b[(r - 1) * w + c] = p[r][c]
  BY <1>2, <1>4 DEF Blocks
<1>8. ASSUME NEW r \in 1..tp, NEW a \in 0..(w - 1)
      PROVE  p[r][a + 1] = <<name, L, t, m * (r - 1) + (a \div dim), a % dim>>
  BY DEF Shares, IsSegment
<1> HIDE DEF w, b
<1>9. ASSUME NEW i \in 1..(tp * w) PROVE b[i] = s[i]
  <2> DEFINE a == i - 1
             q == a \div w
             x == a % w
  <2>1. tp * w \in Nat
    BY <1>1
  <2>2. a \in 0..(tp * w - 1) /\ a + 1 = i
    BY <2>1
  <2>3. q \in 0..(tp - 1) /\ x \in 0..(w - 1) /\ a = w * q + x
    BY <1>1, <2>2, BlockOf
  <2> DEFINE y == x \div dim
             z == x % dim
             head == m * q + y
  <2>4. y \in 0..(m - 1) /\ z \in 0..(dim - 1) /\ x = dim * y + z
    BY <2>3, BlockOf DEF w
  <2> HIDE DEF a, q, x, y, z
  <2>5. head \in Nat
    <3>1. m * q \in Nat
      BY <2>3
    <3> QED
      BY <2>4, <3>1
  <2>6. a = dim * head + z
    <3>1. w * q = dim * (m * q)
      BY <2>3 DEF w
    <3>2. m * q \in Nat
      BY <2>3
    <3>3. dim * (m * q + y) = dim * (m * q) + dim * y
      BY <2>4, <3>2
    <3> DEFINE P == dim * (m * q)
               Q == dim * y
    <3>4. P \in Nat /\ Q \in Nat
      BY <2>4, <3>2
    <3>5. a = P + x /\ x = Q + z /\ dim * head = P + Q /\ z \in Nat
      BY <2>3, <2>4, <3>1, <3>3
    <3> HIDE DEF P, Q, head
    <3> QED
      BY <3>4, <3>5
  <2>7. a \div dim = head /\ a % dim = z
    <3> HIDE DEF head
    <3>1. (dim * head + z) \div dim = head /\ (dim * head + z) % dim = z
      BY <2>4, <2>5, DivModOf, Zenon
    <3> QED
      BY <2>6, <3>1
  <2>8. s[i] = <<name, L, t, head, z>>
    <3>1. s[a + 1] = <<name, L, t, 0 + (a \div dim), a % dim>>
      BY <1>6, <2>2
    <3>2. 0 + head = head
      BY <2>5
    <3> HIDE DEF head
    <3> QED
      BY <2>2, <2>7, <3>1, <3>2
  <2>9. b[i] = <<name, L, t, head, z>>
    <3> DEFINE r == q + 1
               c == x + 1
    <3>1. r \in 1..tp /\ c \in 1..w /\ r - 1 = q
      <4>1. q \in 0..(tp - 1) /\ x \in 0..(w - 1)
        BY <2>3
      <4> HIDE DEF head
      <4> QED
        BY <1>1, <4>1
    <3>2. (r - 1) * w + c = i
      <4>1. q * w = w * q /\ w * q \in Nat
        BY <1>1, <2>3
      <4>2. w * q + (x + 1) = i
        BY <1>1, <2>2, <2>3, <4>1
      <4> QED
        BY <3>1, <4>1, <4>2
    <3> HIDE DEF r
    <3>3. b[i] = p[r][c]
      BY <1>7, <3>1, <3>2
    <3>4. p[r][c] = <<name, L, t, m * (r - 1) + y, z>>
      BY <1>8, <2>3, <3>1 DEF y, z
    <3> QED
      BY <3>1, <3>3, <3>4
  <2> QED
    BY <2>8, <2>9
<1> QED
  BY <1>6, <1>7, <1>9, SameSeq DEF b

\* s is x, y and z one behind the other; x and y have n elements, z has m.
Follow(s, x, y, z, n, m) ==
    /\ Len(s) = n + n + m
    /\ \A c \in 0..(n - 1) : s[c + 1] = x[c + 1] /\ s[n + c + 1] = y[c + 1]
    /\ \A c \in 0..(m - 1) : s[n + n + c + 1] = z[c + 1]

LEMMA ThreeJoined ==
    ASSUME NEW S, NEW x \in Seq(S), NEW y \in Seq(S), NEW z \in Seq(S),
           NEW n \in Nat, NEW m \in Nat, Len(x) = n, Len(y) = n, Len(z) = m
    PROVE  (x \o y) \o z \in Seq(S) /\ Follow((x \o y) \o z, x, y, z, n, m)
<1> DEFINE xy == x \o y
           s == xy \o z
<1>1. /\ xy \in Seq(S) /\ Len(xy) = n + n
      /\ \A i \in 1..(n + n) : xy[i] = IF i <= n THEN x[i] ELSE y[i - n]
  BY ConcatProperties
<1> HIDE DEF xy
<1>2. /\ s \in Seq(S) /\ Len(s) = n + n + m
      /\ \A i \in 1..(n + n + m) : s[i] = IF i <= n + n THEN xy[i] ELSE z[i - (n + n)]
  <2>1. xy \in Seq(S) /\ z \in Seq(S) /\ Len(xy) = n + n /\ Len(z) = m
    BY <1>1
  <2>2. /\ s \in Seq(S) /\ Len(s) = Len(xy) + Len(z)
        /\ \A i \in 1..(Len(xy) + Len(z)) :
               s[i] = IF i <= Len(xy) THEN xy[i] ELSE z[i - Len(xy)]
    BY <2>1, ConcatProperties
  <2> QED
    BY <2>1, <2>2
<1> HIDE DEF s
<1>3. ASSUME NEW c \in 0..(n - 1) PROVE s[c + 1] = x[c + 1] /\ s[n + c + 1] = y[c + 1]
  <2>1. /\ c + 1 \in 1..(n + n) /\ c + 1 \in 1..(n + n + m) /\ c + 1 <= n + n /\ c + 1 <= n
        /\ n + c + 1 \in 1..(n + n) /\ n + c + 1 \in 1..(n + n + m) /\ n + c + 1 <= n + n
        /\ ~(n + c + 1 <= n) /\ (n + c + 1) - n = c + 1
    OBVIOUS
  <2> QED
    BY <1>1, <1>2, <2>1
<1>4. ASSUME NEW c \in 0..(m - 1) PROVE s[n + n + c + 1] = z[c + 1]
  <2>1. /\ n + n + c + 1 \in 1..(n + n + m) /\ ~(n + n + c + 1 <= n + n)
        /\ (n + n + c + 1) - (n + n) = c + 1
    OBVIOUS
  <2> QED
    BY <1>2, <2>1
<1> QED
  BY <1>2, <1>3, <1>4 DEF s, xy, Follow

Cuts(s, n, x, y, z) ==
    SubSeq(s, 1, n) = x /\ SubSeq(s, n + 1, 2 * n) = y /\ SubSeq(s, 2 * n + 1, Len(s)) = z

LEMMA ThreeCut ==
    ASSUME NEW S, NEW x \in Seq(S), NEW y \in Seq(S), NEW z \in Seq(S),
           NEW n \in Nat, Len(x) = n, Len(y) = n
    PROVE  Cuts((x \o y) \o z, n, x, y, z)
<1> DEFINE m == Len(z)
           s == (x \o y) \o z
           xs == SubSeq(s, 0 + 1, n)
           ys == SubSeq(s, n + 1, n + n)
           zs == SubSeq(s, (n + n) + 1, (n + n) + m)
<1>1. m \in Nat
  BY LenProperties
<1>2. s \in Seq(S) /\ Follow(s, x, y, z, n, m)
  BY <1>1, ThreeJoined, Zenon
<1>3. IsSeq(s) /\ IsSeq(x) /\ IsSeq(y) /\ IsSeq(z)
  BY <1>2, IsSeqIn
<1>4. /\ Len(s) = n + n + m
      /\ \A c \in 0..(n - 1) : s[c + 1] = x[c + 1] /\ s[n + c + 1] = y[c + 1]
      /\ \A c \in 0..(m - 1) : s[n + n + c + 1] = z[c + 1]
  BY <1>2 DEF Follow
<1>5. /\ 0 \in Nat /\ n + n \in Nat /\ (n + n) + m \in Nat /\ 0 <= n /\ n <= n + n
      /\ n + n <= (n + n) + m /\ n <= Len(s) /\ n + n <= Len(s) /\ (n + n) + m <= Len(s)
  BY <1>1, <1>4
<1>6. Within(xs, s, 0, n) /\ Within(ys, s, n, n + n) /\ Within(zs, s, n + n, (n + n) + m)
  BY <1>3, <1>5, Cut, Zenon
<1> HIDE DEF m, s, xs, ys, zs
<1>7. ASSUME NEW i \in 1..n PROVE s[0 + i] = x[i] /\ s[n + i] = y[i]
  <2>1. i - 1 \in 0..(n - 1) /\ (i - 1) + 1 = i /\ n + (i - 1) + 1 = n + i /\ 0 + i = i
    OBVIOUS
  <2> QED
    BY <1>4, <2>1
<1>8. ASSUME NEW i \in 1..m PROVE s[(n + n) + i] = z[i]
  <2>1. i - 1 \in 0..(m - 1) /\ (i - 1) + 1 = i /\ n + n + (i - 1) + 1 = (n + n) + i
    BY <1>1
  <2> QED
    BY <1>4, <2>1
<1>9. n - 0 = n /\ (n + n) - n = n /\ ((n + n) + m) - (n + n) = m
  BY <1>1
<1>10. /\ IsSeq(xs) /\ Len(xs) = n /\ \A i \in 1..n : xs[i] = x[i]
       /\ IsSeq(ys) /\ Len(ys) = n /\ \A i \in 1..n : ys[i] = y[i]
       /\ IsSeq(zs) /\ Len(zs) = m /\ \A i \in 1..m : zs[i] = z[i]
  BY <1>6, <1>7, <1>8, <1>9 DEF Within
<1>11. xs = x /\ ys = y /\ zs = z
  BY <1>3, <1>10, SameSeq DEF m
<1>12. 0 + 1 = 1 /\ n + n = 2 * n /\ (n + n) + m = Len(s)
  BY <1>4
<1> QED
  BY <1>11, <1>12 DEF s, xs, ys, zs, Cuts

\* The model as a single rank has it, and what one of several ranks has.
Whole(g) == [g EXCEPT !.tp = 1]

Shard(g) == [g EXCEPT !.nk = g.nk \div g.tp, !.tp = 1]

Valid(g) == g \in Shapes /\ g.nk % g.tp = 0

LEMMA WholeModel ==
    ASSUME NEW g \in Shapes
    PROVE  /\ Whole(g).nk = g.nk /\ Whole(g).ratio = g.ratio /\ Whole(g).dk = g.dk
           /\ Whole(g).dv = g.dv /\ Whole(g).time = g.time /\ Whole(g).tp = 1
           /\ Valid(Whole(g)) /\ Shard(Whole(g)) = Whole(g)
<1>1. /\ Whole(g).nk = g.nk /\ Whole(g).ratio = g.ratio /\ Whole(g).dk = g.dk
      /\ Whole(g).dv = g.dv /\ Whole(g).time = g.time /\ Whole(g).tp = 1
      /\ Whole(g) \in Shapes
  BY DEF Shapes, Whole, Positive
<1>2. g.nk % 1 = 0 /\ g.nk \div 1 = g.nk
  BY ModelType
<1>3. Shard(Whole(g)) = Whole(g)
  BY <1>1, <1>2 DEF Shapes, Shard
<1> QED
  BY <1>1, <1>2, <1>3 DEF Valid

LEMMA ShardModel ==
    ASSUME NEW g, Valid(g)
    PROVE  /\ Shard(g) \in Shapes
           /\ Shard(g).ratio = g.ratio /\ Shard(g).dk = g.dk /\ Shard(g).dv = g.dv
           /\ Shard(g).time = g.time
           /\ g.nk = g.tp * Shard(g).nk /\ Heads(g) = g.tp * Heads(Shard(g))
<1> DEFINE m == g.nk \div g.tp
<1>1. /\ g.nk \in Nat \ {0} /\ g.tp \in Nat \ {0} /\ g.ratio \in Nat \ {0}
      /\ g \in Shapes /\ g.nk % g.tp = 0
  BY ModelType DEF Valid
<1>2. m \in Nat /\ g.nk = g.tp * m + 0
  BY <1>1, DivMod
<1> HIDE DEF m
<1>3. m \in Nat \ {0} /\ g.nk = g.tp * m
  BY <1>1, <1>2
<1>4. Shard(g) = [g EXCEPT !.nk = m, !.tp = 1]
  BY DEF Shard, m
<1>5. /\ Shard(g) \in Shapes /\ Shard(g).nk = m /\ Shard(g).ratio = g.ratio
      /\ Shard(g).dk = g.dk /\ Shard(g).dv = g.dv /\ Shard(g).time = g.time
  <2> DEFINE a == [g EXCEPT !.nk = m]
  <2>1. /\ a \in Shapes /\ a.nk = m /\ a.ratio = g.ratio /\ a.dk = g.dk /\ a.dv = g.dv
        /\ a.time = g.time
    BY <1>1, <1>3 DEF Shapes, Positive
  <2>2. Shard(g) = [a EXCEPT !.tp = 1]
    BY <1>1, <1>4 DEF Shapes
  <2>3. 1 \in Positive
    BY DEF Positive
  <2> HIDE DEF a
  <2> QED
    BY <2>1, <2>2, <2>3 DEF Shapes
<1>6. (g.tp * m) * g.ratio = g.tp * (m * g.ratio)
  BY <1>1, <1>3
<1> QED
  BY <1>3, <1>5, <1>6 DEF Heads

ConvQ(g, r, L, t) == Segment("q", HeadsOf(g.nk, g.tp, r), g.dk, L, t)
ConvK(g, r, L, t) == Segment("k", HeadsOf(g.nk, g.tp, r), g.dk, L, t)
ConvV(g, r, L, t) == Segment("v", HeadsOf(Heads(g), g.tp, r), g.dv, L, t)

LEMMA ShardRow ==
    ASSUME NEW g, Valid(g), NEW r \in 1..g.tp, NEW L, NEW t \in 1..g.time
    PROVE  LET h == Shard(g)
           IN  /\ ConvShard(g, r, L)[t]
                    = (ConvQ(g, r, L, t) \o ConvK(g, r, L, t)) \o ConvV(g, r, L, t)
               /\ IsSegment(ConvQ(g, r, L, t), "q", h.nk * (r - 1), h.nk, g.dk, L, t)
               /\ IsSegment(ConvK(g, r, L, t), "k", h.nk * (r - 1), h.nk, g.dk, L, t)
               /\ IsSegment(ConvV(g, r, L, t), "v", Heads(h) * (r - 1), Heads(h), g.dv, L, t)
<1> DEFINE h == Shard(g)
<1>1. /\ g \in Shapes /\ h \in Shapes /\ g.tp \in Nat \ {0} /\ h.nk \in Nat \ {0}
      /\ Heads(h) \in Nat \ {0} /\ g.dk \in Nat \ {0} /\ g.dv \in Nat \ {0}
      /\ g.nk = g.tp * h.nk /\ Heads(g) = g.tp * Heads(h)
  <2>1. g \in Shapes /\ h \in Shapes /\ g.nk = g.tp * h.nk /\ Heads(g) = g.tp * Heads(h)
    BY ShardModel DEF Valid
  <2> HIDE DEF h
  <2>2. Heads(h) \in Nat \ {0}
    BY <2>1, ModelType, Widths
  <2> QED
    BY <2>1, <2>2, ModelType
<1> HIDE DEF h
<1>2. /\ HeadsOf(g.nk, g.tp, r) = (h.nk * (r - 1))..(h.nk * (r - 1) + h.nk - 1)
      /\ h.nk * (r - 1) \in Nat
  BY <1>1, HeadsAre
<1>3. /\ HeadsOf(Heads(g), g.tp, r) = (Heads(h) * (r - 1))..(Heads(h) * (r - 1) + Heads(h) - 1)
      /\ Heads(h) * (r - 1) \in Nat
  BY <1>1, HeadsAre
<1>4. "q" \in {"q", "k", "v"} /\ "k" \in {"q", "k", "v"} /\ "v" \in {"q", "k", "v"}
  OBVIOUS
<1>5. IsSegment(ConvQ(g, r, L, t), "q", h.nk * (r - 1), h.nk, g.dk, L, t)
  <2>1. IsSegment(Segment("q", (h.nk * (r - 1))..(h.nk * (r - 1) + h.nk - 1), g.dk, L, t),
                  "q", h.nk * (r - 1), h.nk, g.dk, L, t)
    BY <1>1, <1>2, <1>4, SegmentOf, Zenon
  <2> QED
    BY <1>2, <2>1, Zenon DEF ConvQ
<1>6. IsSegment(ConvK(g, r, L, t), "k", h.nk * (r - 1), h.nk, g.dk, L, t)
  <2>1. IsSegment(Segment("k", (h.nk * (r - 1))..(h.nk * (r - 1) + h.nk - 1), g.dk, L, t),
                  "k", h.nk * (r - 1), h.nk, g.dk, L, t)
    BY <1>1, <1>2, <1>4, SegmentOf, Zenon
  <2> QED
    BY <1>2, <2>1, Zenon DEF ConvK
<1>7. IsSegment(ConvV(g, r, L, t), "v", Heads(h) * (r - 1), Heads(h), g.dv, L, t)
  <2>1. IsSegment(Segment("v", (Heads(h) * (r - 1))..(Heads(h) * (r - 1) + Heads(h) - 1),
                          g.dv, L, t),
                  "v", Heads(h) * (r - 1), Heads(h), g.dv, L, t)
    BY <1>1, <1>3, <1>4, SegmentOf, Zenon
  <2> QED
    BY <1>3, <2>1, Zenon DEF ConvV
<1>8. ConvShard(g, r, L)[t] = (ConvQ(g, r, L, t) \o ConvK(g, r, L, t)) \o ConvV(g, r, L, t)
  BY DEF ConvShard, ConvQ, ConvK, ConvV, Heads
<1> QED
  BY <1>5, <1>6, <1>7, <1>8 DEF h

\* The segments of the whole model.
LEMMA WholeSegments ==
    ASSUME NEW g \in Shapes, NEW L, NEW t \in 1..g.time
    PROVE  /\ ConvShard(Whole(g), 1, L)[t]
                = (ConvQ(Whole(g), 1, L, t) \o ConvK(Whole(g), 1, L, t)) \o ConvV(Whole(g), 1, L, t)
           /\ IsSegment(ConvQ(Whole(g), 1, L, t), "q", 0, g.nk, g.dk, L, t)
           /\ IsSegment(ConvK(Whole(g), 1, L, t), "k", 0, g.nk, g.dk, L, t)
           /\ IsSegment(ConvV(Whole(g), 1, L, t), "v", 0, Heads(g), g.dv, L, t)
<1> DEFINE w == Whole(g)
<1>1. /\ w.nk = g.nk /\ w.dk = g.dk /\ w.dv = g.dv /\ w.time = g.time /\ w.tp = 1
      /\ Valid(w) /\ Shard(w) = w /\ Heads(w) = Heads(g)
  BY WholeModel DEF Heads
<1>2. 1 \in 1..w.tp /\ t \in 1..w.time
  BY <1>1
<1>3. g.nk * (1 - 1) = 0 /\ Heads(g) * (1 - 1) = 0
  BY ModelType, Widths
<1> HIDE DEF w
<1>4. /\ ConvShard(w, 1, L)[t] = (ConvQ(w, 1, L, t) \o ConvK(w, 1, L, t)) \o ConvV(w, 1, L, t)
      /\ IsSegment(ConvQ(w, 1, L, t), "q", Shard(w).nk * (1 - 1), Shard(w).nk, w.dk, L, t)
      /\ IsSegment(ConvK(w, 1, L, t), "k", Shard(w).nk * (1 - 1), Shard(w).nk, w.dk, L, t)
      /\ IsSegment(ConvV(w, 1, L, t), "v", Heads(Shard(w)) * (1 - 1), Heads(Shard(w)), w.dv, L, t)
  BY <1>1, <1>2, ShardRow, Zenon
<1>5. Shard(w).nk = g.nk /\ Heads(Shard(w)) = Heads(g)
  BY <1>1
<1> QED
  BY <1>1, <1>3, <1>4, <1>5 DEF w

LEMMA WholeRow ==
    ASSUME NEW g \in Shapes, NEW L, NEW t \in 1..g.time
    PROVE  LET row == ConvShard(Whole(g), 1, L)[t]
               n   == g.nk * g.dk
               vs  == Width(g, g.dv)
           IN  /\ row \in Seq(Elements(L, t)) /\ Len(row) = n + n + vs
               /\ \A c \in 0..(n - 1) : /\ row[c + 1] = <<"q", L, t, c \div g.dk, c % g.dk>>
                                        /\ row[n + c + 1] = <<"k", L, t, c \div g.dk, c % g.dk>>
               /\ \A c \in 0..(vs - 1) :
                      row[n + n + c + 1] = <<"v", L, t, c \div g.dv, c % g.dv>>
<1> DEFINE n == g.nk * g.dk
           vs == Width(g, g.dv)
           q == ConvQ(Whole(g), 1, L, t)
           k == ConvK(Whole(g), 1, L, t)
           v == ConvV(Whole(g), 1, L, t)
           row == ConvShard(Whole(g), 1, L)[t]
<1>1. /\ g.nk \in Nat \ {0} /\ g.dk \in Nat \ {0} /\ g.dv \in Nat \ {0}
      /\ Heads(g) \in Nat \ {0} /\ n \in Nat \ {0} /\ vs \in Nat \ {0}
  BY ModelType, Widths, Product
<1>2. /\ row = (q \o k) \o v
      /\ IsSegment(q, "q", 0, g.nk, g.dk, L, t) /\ IsSegment(k, "k", 0, g.nk, g.dk, L, t)
      /\ IsSegment(v, "v", 0, Heads(g), g.dv, L, t)
  BY WholeSegments
<1> HIDE DEF q, k, v, row
<1>3. \A b \in Nat \ {0}, m \in Nat : \A c \in 0..(m - 1) : 0 + (c \div b) = c \div b
  OBVIOUS
<1>4. /\ q \in Seq(Elements(L, t)) /\ Len(q) = n
      /\ k \in Seq(Elements(L, t)) /\ Len(k) = n
      /\ v \in Seq(Elements(L, t)) /\ Len(v) = vs
      /\ \A a \in 0..(n - 1) : /\ q[a + 1] = <<"q", L, t, 0 + (a \div g.dk), a % g.dk>>
                               /\ k[a + 1] = <<"k", L, t, 0 + (a \div g.dk), a % g.dk>>
      /\ \A a \in 0..(vs - 1) : v[a + 1] = <<"v", L, t, 0 + (a \div g.dv), a % g.dv>>
  BY <1>2, Zenon DEF IsSegment, Width
<1> HIDE DEF n, vs
<1>5. /\ \A a \in 0..(n - 1) : /\ q[a + 1] = <<"q", L, t, a \div g.dk, a % g.dk>>
                               /\ k[a + 1] = <<"k", L, t, a \div g.dk, a % g.dk>>
      /\ \A a \in 0..(vs - 1) : v[a + 1] = <<"v", L, t, a \div g.dv, a % g.dv>>
  BY <1>1, <1>3, <1>4
<1>6. row \in Seq(Elements(L, t)) /\ Follow(row, q, k, v, n, vs)
  <2>1. n \in Nat /\ vs \in Nat
    BY <1>1
  <2> QED
    BY <1>2, <1>4, <2>1, ThreeJoined, Zenon
<1> QED
  BY <1>5, <1>6 DEF n, vs, row, Follow

\* The rows of all ranks, cut into their segments and put together by segment.
BySegment(p, tp, n) ==
    Join([r \in 1..tp |-> SubSeq(p[r], 1, n)])
    \o Join([r \in 1..tp |-> SubSeq(p[r], n + 1, 2 * n)])
    \o Join([r \in 1..tp |-> SubSeq(p[r], 2 * n + 1, Len(p[r]))])

LEMMA RowsMerged ==
    ASSUME NEW g, Valid(g), NEW L, NEW t \in 1..g.time,
           NEW p, \A r \in 1..g.tp : p[r] = ConvShard(g, r, L)[t]
    PROVE  BySegment(p, g.tp, Shard(g).nk * g.dk) = ConvShard(Whole(g), 1, L)[t]
<1> DEFINE n == Shard(g).nk * g.dk
<1> DEFINE h == Shard(g)
           E == Elements(L, t)
           w == Whole(g)
<1>1. /\ g \in Shapes /\ h \in Shapes /\ g.tp \in Nat \ {0} /\ h.nk \in Nat \ {0}
      /\ Heads(h) \in Nat \ {0} /\ g.dk \in Nat \ {0} /\ g.dv \in Nat \ {0}
      /\ g.nk = g.tp * h.nk /\ Heads(g) = g.tp * Heads(h)
  <2>1. g \in Shapes /\ h \in Shapes /\ g.nk = g.tp * h.nk /\ Heads(g) = g.tp * Heads(h)
    BY ShardModel DEF Valid
  <2> HIDE DEF h
  <2>2. Heads(h) \in Nat \ {0}
    BY <2>1, ModelType, Widths
  <2> QED
    BY <2>1, <2>2, ModelType
<1>2. n \in Nat /\ n = h.nk * g.dk
  BY <1>1, Product DEF n, h
<1> HIDE DEF h, E, w, n
<1>3. ASSUME NEW r \in 1..g.tp
      PROVE  /\ p[r] = (ConvQ(g, r, L, t) \o ConvK(g, r, L, t)) \o ConvV(g, r, L, t)
             /\ IsSegment(ConvQ(g, r, L, t), "q", h.nk * (r - 1), h.nk, g.dk, L, t)
             /\ IsSegment(ConvK(g, r, L, t), "k", h.nk * (r - 1), h.nk, g.dk, L, t)
             /\ IsSegment(ConvV(g, r, L, t), "v", Heads(h) * (r - 1), Heads(h), g.dv, L, t)
  BY ShardRow DEF h
<1>4. ASSUME NEW r \in 1..g.tp
      PROVE  /\ SubSeq(p[r], 1, n) = ConvQ(g, r, L, t)
             /\ SubSeq(p[r], n + 1, 2 * n) = ConvK(g, r, L, t)
             /\ SubSeq(p[r], 2 * n + 1, Len(p[r])) = ConvV(g, r, L, t)
  <2>1. /\ ConvQ(g, r, L, t) \in Seq(E) /\ Len(ConvQ(g, r, L, t)) = n
        /\ ConvK(g, r, L, t) \in Seq(E) /\ Len(ConvK(g, r, L, t)) = n
        /\ ConvV(g, r, L, t) \in Seq(E)
    BY <1>2, <1>3, Zenon DEF IsSegment, E
  <2>2. p[r] = (ConvQ(g, r, L, t) \o ConvK(g, r, L, t)) \o ConvV(g, r, L, t)
    BY <1>3
  <2> QED
    <3>1. Cuts((ConvQ(g, r, L, t) \o ConvK(g, r, L, t)) \o ConvV(g, r, L, t), n,
               ConvQ(g, r, L, t), ConvK(g, r, L, t), ConvV(g, r, L, t))
      BY <1>2, <2>1, ThreeCut, Zenon
    <3> QED
      BY <2>2, <3>1, Zenon DEF Cuts
<1>5. /\ ConvShard(w, 1, L)[t] = (ConvQ(w, 1, L, t) \o ConvK(w, 1, L, t)) \o ConvV(w, 1, L, t)
      /\ IsSegment(ConvQ(w, 1, L, t), "q", 0, g.tp * h.nk, g.dk, L, t)
      /\ IsSegment(ConvK(w, 1, L, t), "k", 0, g.tp * h.nk, g.dk, L, t)
      /\ IsSegment(ConvV(w, 1, L, t), "v", 0, g.tp * Heads(h), g.dv, L, t)
  BY <1>1, WholeSegments DEF w
<1> DEFINE q == [r \in 1..g.tp |-> SubSeq(p[r], 1, n)]
           k == [r \in 1..g.tp |-> SubSeq(p[r], n + 1, 2 * n)]
           v == [r \in 1..g.tp |-> SubSeq(p[r], 2 * n + 1, Len(p[r]))]
<1>6. q = [r \in 1..g.tp |-> q[r]] /\ k = [r \in 1..g.tp |-> k[r]] /\ v = [r \in 1..g.tp |-> v[r]]
  OBVIOUS
<1>7. ASSUME NEW r \in 1..g.tp
      PROVE  q[r] = ConvQ(g, r, L, t) /\ k[r] = ConvK(g, r, L, t) /\ v[r] = ConvV(g, r, L, t)
  BY <1>4
<1> HIDE DEF q, k, v
<1>8. /\ Shares(q, "q", g.tp, h.nk, g.dk, L, t) /\ Shares(k, "k", g.tp, h.nk, g.dk, L, t)
      /\ Shares(v, "v", g.tp, Heads(h), g.dv, L, t)
  BY <1>3, <1>6, <1>7 DEF Shares
<1>9. Join(q) = ConvQ(w, 1, L, t)
  <2>1. /\ IsSegment(ConvQ(w, 1, L, t), "q", 0, g.tp * h.nk, g.dk, L, t)
        /\ Shares(q, "q", g.tp, h.nk, g.dk, L, t)
    BY <1>5, <1>8, Zenon
  <2>2. g.tp \in Nat \ {0} /\ h.nk \in Nat \ {0} /\ g.dk \in Nat \ {0}
    BY <1>1, Zenon
  <2> QED
    BY <2>1, <2>2, SegmentsJoined, Zenon
<1>10. Join(k) = ConvK(w, 1, L, t)
  <2>1. /\ IsSegment(ConvK(w, 1, L, t), "k", 0, g.tp * h.nk, g.dk, L, t)
        /\ Shares(k, "k", g.tp, h.nk, g.dk, L, t)
    BY <1>5, <1>8, Zenon
  <2>2. g.tp \in Nat \ {0} /\ h.nk \in Nat \ {0} /\ g.dk \in Nat \ {0}
    BY <1>1, Zenon
  <2> QED
    BY <2>1, <2>2, SegmentsJoined, Zenon
<1>11. Join(v) = ConvV(w, 1, L, t)
  <2>1. /\ IsSegment(ConvV(w, 1, L, t), "v", 0, g.tp * Heads(h), g.dv, L, t)
        /\ Shares(v, "v", g.tp, Heads(h), g.dv, L, t)
    BY <1>5, <1>8, Zenon
  <2>2. g.tp \in Nat \ {0} /\ Heads(h) \in Nat \ {0} /\ g.dv \in Nat \ {0}
    BY <1>1, Zenon
  <2> QED
    BY <2>1, <2>2, SegmentsJoined, Zenon
<1>12. (Join(q) \o Join(k)) \o Join(v) = ConvShard(w, 1, L)[t]
  BY <1>5, <1>9, <1>10, <1>11
<1> QED
  BY <1>12 DEF q, k, v, w, n, BySegment

\* Element v, k of head number h of a layer, as every layout has it.
SsmHead(g, L, h) == [v \in 1..g.dv |-> [k \in 1..g.dk |-> <<"s", L, h, v, k>>]]

LEMMA ShardSsm ==
    ASSUME NEW g, Valid(g), NEW r \in 1..g.tp, NEW L
    PROVE  LET nv == Heads(Shard(g))
           IN  SsmShard(g, r, L) = [h \in 1..nv |-> SsmHead(g, L, nv * (r - 1) + h - 1)]
<1> DEFINE nv == Heads(Shard(g))
<1>1. g \in Shapes /\ Shard(g) \in Shapes /\ Heads(g) = g.tp * nv
  BY ShardModel DEF Valid
<1>2. nv \in Nat \ {0} /\ g.tp \in Nat \ {0}
  <2>1. \A x \in Shapes : Heads(x) \in Nat \ {0}
    BY Widths, ModelType
  <2> QED
    BY <1>1, <2>1, ModelType
<1> HIDE DEF nv
<1>3. Heads(g) \div g.tp = nv
  <2>1. Heads(g) = g.tp * nv + 0 /\ 0 \in 0..(g.tp - 1) /\ nv \in Nat
    BY <1>1, <1>2
  <2>2. (g.tp * nv + 0) \div g.tp = nv
    BY <1>2, <2>1, DivModOf, Zenon
  <2> QED
    BY <2>1, <2>2
<1>4. SsmShard(g, r, L) = [h \in 1..nv |-> SsmHead(g, L, nv * (r - 1) + h - 1)]
  BY <1>3 DEF SsmShard, SsmHead, Heads
<1> QED
  BY <1>4 DEF nv

\* The ssm states of all ranks, one behind the other.
LEMMA SsmMerged ==
    ASSUME NEW g, Valid(g), NEW L,
           NEW p, p = [r \in 1..g.tp |-> SsmShard(g, r, L)]
    PROVE  Join(p) = SsmShard(Whole(g), 1, L)
<1> DEFINE w == Heads(Shard(g))
           n == g.tp
           s == SsmShard(Whole(g), 1, L)
           b == Join(p)
<1>1. g \in Shapes /\ Shard(g) \in Shapes /\ Heads(g) = n * w
  BY ShardModel DEF Valid
<1>2. w \in Nat \ {0} /\ n \in Nat \ {0}
  <2>1. \A x \in Shapes : Heads(x) \in Nat \ {0}
    BY Widths, ModelType
  <2> QED
    BY <1>1, <2>1, ModelType
<1>3. ASSUME NEW r \in 1..n
      PROVE  /\ p[r] = [h \in 1..w |-> p[r][h]]
             /\ \A h \in 1..w : p[r][h] = SsmHead(g, L, w * (r - 1) + h - 1)
  <2> DEFINE f == [h \in 1..w |-> SsmHead(g, L, w * (r - 1) + h - 1)]
  <2>1. SsmShard(g, r, L) = f
    BY ShardSsm
  <2>2. p[r] = SsmShard(g, r, L)
    OBVIOUS
  <2>3. f = [h \in 1..w |-> f[h]] /\ \A h \in 1..w : f[h] = SsmHead(g, L, w * (r - 1) + h - 1)
    OBVIOUS
  <2> HIDE DEF f, w
  <2> QED
    BY <2>1, <2>2, <2>3
<1>4. s = [h \in 1..(n * w) |-> SsmHead(g, L, (n * w) * (1 - 1) + h - 1)]
  <2> DEFINE x == Whole(g)
  <2>1. /\ Valid(x) /\ Heads(Shard(x)) = n * w /\ 1 \in 1..x.tp
        /\ x.dv = g.dv /\ x.dk = g.dk
    BY <1>1, WholeModel DEF Heads
  <2>2. SsmShard(x, 1, L) = [h \in 1..Heads(Shard(x)) |->
                                SsmHead(x, L, Heads(Shard(x)) * (1 - 1) + h - 1)]
    <3> HIDE DEF x
    <3> QED
      BY <2>1, ShardSsm
  <2> HIDE DEF x, w
  <2>3. \A h : SsmHead(x, L, h) = SsmHead(g, L, h)
    BY <2>1 DEF SsmHead
  <2>4. s = [h \in 1..(n * w) |-> SsmHead(x, L, (n * w) * (1 - 1) + h - 1)]
    BY <2>1, <2>2 DEF x
  <2> QED
    BY <2>3, <2>4
<1> HIDE DEF w, n, s, b
<1>5. p = [r \in 1..n |-> p[r]]
  BY DEF n
<1>6. IsSeq(p) /\ Len(p) = n
  BY <1>2, <1>5, LengthOf, Zenon
<1>7. ASSUME NEW r \in 1..n PROVE IsSeq(p[r]) /\ Len(p[r]) = w
  <2>1. p[r] = [h \in 1..w |-> p[r][h]] /\ w \in Nat
    BY <1>2, <1>3
  <2> QED
    BY <2>1, LengthOf, Zenon
<1>8. Blocks(b, p, w)
  BY <1>2, <1>6, <1>7, JoinBlocks DEF Pieces, b
<1>9. /\ IsSeq(b) /\ Len(b) = n * w
      /\ \A r \in 1..n, c \in 1..w : b[(r - 1) * w + c] = p[r][c]
  BY <1>6, <1>8 DEF Blocks
<1>10. IsSeq(s) /\ Len(s) = n * w
  <2>1. n * w \in Nat
    BY <1>2
  <2>2. s = [h \in 1..(n * w) |-> s[h]]
    BY <1>4
  <2> QED
    BY <2>1, <2>2, LengthOf, Zenon
<1>11. ASSUME NEW i \in 1..(n * w) PROVE b[i] = s[i]
  <2> DEFINE a == i - 1
             q == a \div w
             x == a % w
             r == q + 1
             c == x + 1
  <2>1. n * w \in Nat
    BY <1>2
  <2>2. a \in 0..(n * w - 1) /\ a + 1 = i
    BY <2>1
  <2>3. q \in 0..(n - 1) /\ x \in 0..(w - 1) /\ a = w * q + x
    BY <1>2, <2>2, BlockOf
  <2> HIDE DEF a, q, x
  <2>4. r \in 1..n /\ c \in 1..w /\ r - 1 = q /\ c - 1 = x
    BY <1>2, <2>3
  <2>5. (r - 1) * w + c = i /\ w * (r - 1) + c - 1 = a
    <3>1. q * w = w * q /\ w * q \in Nat
      BY <1>2, <2>3
    <3>2. w * q + (x + 1) = i /\ w * q + (x + 1) - 1 = a
      BY <1>2, <2>2, <2>3, <3>1
    <3> QED
      BY <2>4, <3>1, <3>2
  <2>6. b[i] = SsmHead(g, L, a)
    <3> HIDE DEF r, c
    <3>1. b[i] = p[r][c]
      BY <1>9, <2>4, <2>5
    <3>2. p[r][c] = SsmHead(g, L, w * (r - 1) + c - 1)
      BY <1>3, <2>4
    <3> QED
      BY <2>5, <3>1, <3>2
  <2>7. s[i] = SsmHead(g, L, a)
    <3>1. (n * w) * (1 - 1) + i - 1 = a
      BY <2>1, <2>2
    <3> QED
      BY <1>4, <3>1
  <2> QED
    BY <2>6, <2>7
<1> QED
  BY <1>9, <1>10, <1>11, SameSeq DEF s, b

\* The geometry read off the tensors of one layer is that of the shard.
ModelGeometry(g) == [nv |-> Heads(g), dv |-> g.dv, dk |-> g.dk, nk |-> g.nk, rem |-> 0]

LEMMA RowLength ==
    ASSUME NEW g, Valid(g), NEW r \in 1..g.tp, NEW L, NEW t \in 1..g.time
    PROVE  /\ Len(ConvShard(g, r, L)[t]) = QkWidth(Shard(g)) + Width(Shard(g), g.dv)
           /\ IsSeq(ConvShard(g, r, L)[t])
<1> DEFINE h == Shard(g)
           q == ConvQ(g, r, L, t)
           k == ConvK(g, r, L, t)
           v == ConvV(g, r, L, t)
           n == h.nk * g.dk
           E == Elements(L, t)
<1>1. h \in Shapes /\ g \in Shapes /\ h.dk = g.dk
  BY ShardModel DEF Valid
<1>2. ConvShard(g, r, L)[t] = (q \o k) \o v
  BY ShardRow
<1>3. q \in Seq(E) /\ Len(q) = n /\ k \in Seq(E) /\ Len(k) = n
  BY ShardRow, Zenon DEF IsSegment
<1>4. v \in Seq(E) /\ Len(v) = Width(h, g.dv)
  BY ShardRow, Zenon DEF IsSegment, Width
<1>5. n \in Nat /\ Width(h, g.dv) \in Nat /\ QkWidth(h) = n + n
  <2> HIDE DEF h
  <2>1. h.nk \in Nat \ {0} /\ g.dk \in Nat \ {0} /\ g.dv \in Nat \ {0}
    BY <1>1, ModelType
  <2>2. Width(h, g.dv) \in Nat
    BY <1>1, <2>1, Widths
  <2>3. QkWidth(h) = 2 * h.nk * g.dk
    BY <1>1 DEF QkWidth
  <2> QED
    BY <2>1, <2>2, <2>3
<1> HIDE DEF n, q, k, v, E, h
<1>6. (q \o k) \o v \in Seq(E) /\ Follow((q \o k) \o v, q, k, v, n, Width(h, g.dv))
  BY <1>3, <1>4, <1>5, ThreeJoined, Zenon
<1> QED
  BY <1>2, <1>5, <1>6, IsSeqIn DEF Follow, h

LEMMA DerivedGeometry ==
    ASSUME NEW g, Valid(g), NEW r \in 1..g.tp, NEW L, NEW s,
           s.conv = ConvShard(g, r, L), s.ssm = SsmShard(g, r, L)
    PROVE  Derived(s) = ModelGeometry(Shard(g))
<1> DEFINE h == Shard(g)
           nv == Heads(h)
           m == 2 * g.dk
<1>1. h \in Shapes /\ g \in Shapes /\ h.dk = g.dk /\ h.dv = g.dv
  BY ShardModel DEF Valid
<1> HIDE DEF h
<1>2. /\ nv \in Nat \ {0} /\ g.dv \in Nat \ {0} /\ g.dk \in Nat \ {0} /\ h.nk \in Nat \ {0}
      /\ g.time \in Nat \ {0} /\ Width(h, g.dv) \in Nat /\ QkWidth(h) \in Nat
  BY <1>1, ModelType, Widths
<1>3. s.ssm = [i \in 1..nv |-> SsmHead(g, L, nv * (r - 1) + i - 1)]
  BY ShardSsm DEF h
<1> HIDE DEF nv
<1>4. Len(s.ssm) = nv /\ Len(s.ssm[1]) = g.dv /\ Len(s.ssm[1][1]) = g.dk
  <2>1. 1 \in 1..nv /\ 1 \in 1..g.dv
    BY <1>2
  <2>2. s.ssm = [i \in 1..nv |-> s.ssm[i]]
    BY <1>3
  <2>3. s.ssm[1] = SsmHead(g, L, nv * (r - 1) + 1 - 1)
    BY <1>3, <2>1
  <2>4. /\ s.ssm[1] = [v \in 1..g.dv |-> s.ssm[1][v]]
        /\ s.ssm[1][1] = [k \in 1..g.dk |-> s.ssm[1][1][k]]
    BY <2>1, <2>3 DEF SsmHead
  <2> QED
    BY <1>2, <2>2, <2>4, LengthOf, Zenon
<1>5. Len(s.conv[1]) - nv * g.dv = QkWidth(h)
  <2>1. 1 \in 1..g.time
    BY <1>2
  <2>2. Len(s.conv[1]) = QkWidth(h) + Width(h, g.dv)
    BY <2>1, RowLength DEF h
  <2>3. nv * g.dv = Width(h, g.dv)
    BY DEF nv, Width
  <2> QED
    BY <1>2, <2>2, <2>3
<1>6. QkWidth(h) \div m = h.nk /\ QkWidth(h) % m = 0
  <2>1. QkWidth(h) = m * h.nk + 0 /\ m \in Nat \ {0} /\ 0 \in 0..(m - 1) /\ h.nk \in Nat
    BY <1>1, <1>2 DEF QkWidth
  <2> HIDE DEF m
  <2>2. (m * h.nk + 0) \div m = h.nk /\ (m * h.nk + 0) % m = 0
    BY <1>2, <2>1, DivModOf, Zenon
  <2> QED
    BY <2>1, <2>2
<1> QED
  BY <1>1, <1>4, <1>5, <1>6 DEF Derived, ModelGeometry, nv, m, h

\* What merge_rank_states makes of one layer of all ranks is the layer of a solo
\* engine, and it refuses none.
LEMMA MergedLayer ==
    ASSUME NEW g, Valid(g), NEW L, NEW parts,
           parts = [r \in 1..g.tp |-> [conv |-> ConvShard(g, r, L), ssm |-> SsmShard(g, r, L)]]
    PROVE  /\ MergePlausible(parts)
           /\ MergeLayer(parts) = [conv |-> ConvShard(Whole(g), 1, L),
                                   ssm  |-> SsmShard(Whole(g), 1, L)]
<1> DEFINE h == Shard(g)
           n == h.nk * h.dk
           convs == [r \in DOMAIN parts |-> parts[r].conv]
           ssms == [r \in DOMAIN parts |-> parts[r].ssm]
<1>1. /\ g \in Shapes /\ h \in Shapes /\ h.dk = g.dk /\ g.tp \in Nat \ {0}
      /\ g.time \in Nat \ {0}
  BY ShardModel, ModelType DEF Valid
<1> HIDE DEF h
<1>2. 1 \in 1..g.tp /\ 1 \in 1..g.time
  BY <1>1
<1>3. DOMAIN parts = 1..g.tp
  OBVIOUS
<1>4. ASSUME NEW r \in 1..g.tp
      PROVE  parts[r].conv = ConvShard(g, r, L) /\ parts[r].ssm = SsmShard(g, r, L)
  OBVIOUS
<1>5. Derived(parts[1]) = ModelGeometry(h)
  BY <1>2, <1>4, DerivedGeometry DEF h
<1>6. \A r \in 1..g.tp : Len(parts[r].conv[1]) = QkWidth(h) + Width(h, g.dv)
  BY <1>2, <1>4, RowLength DEF h
<1>7. MergePlausible(parts)
  <2>1. Derived(parts[1]).rem = 0
    BY <1>5 DEF ModelGeometry
  <2>2. \A r \in DOMAIN parts : Len(parts[r].conv[1]) = Len(parts[1].conv[1])
    BY <1>2, <1>3, <1>6
  <2> QED
    BY <2>1, <2>2, Zenon DEF MergePlausible
<1>8. MergeLayer(parts) = [conv |-> CatSegments(convs, n), ssm |-> Join(ssms)]
  BY <1>5 DEF MergeLayer, ModelGeometry
<1>9. ssms = [r \in 1..g.tp |-> SsmShard(g, r, L)]
  BY <1>3, <1>4
<1>10. Join(ssms) = SsmShard(Whole(g), 1, L)
  <2> HIDE DEF ssms
  <2> QED
    BY <1>9, SsmMerged
<1>11. /\ DOMAIN convs = 1..g.tp
       /\ \A r \in 1..g.tp : convs[r] = ConvShard(g, r, L)
  BY <1>3, <1>4
<1> HIDE DEF convs, n
<1>12. DOMAIN convs[1] = 1..g.time
  BY <1>2, <1>11 DEF ConvShard
<1>13. ASSUME NEW t \in 1..g.time
       PROVE  CatSegments(convs, n)[t] = ConvShard(Whole(g), 1, L)[t]
  <2> DEFINE p == [r \in 1..g.tp |-> convs[r][t]]
  <2>1. \A r \in 1..g.tp : p[r] = ConvShard(g, r, L)[t]
    BY <1>11
  <2>2. n = Shard(g).nk * g.dk
    BY <1>1 DEF n, h
  <2>3. CatSegments(convs, n)[t]
          = Join([r \in 1..g.tp |-> SubSeq(convs[r][t], 1, n)])
            \o Join([r \in 1..g.tp |-> SubSeq(convs[r][t], n + 1, 2 * n)])
            \o Join([r \in 1..g.tp |-> SubSeq(convs[r][t], 2 * n + 1, Len(convs[r][t]))])
    BY <1>11, <1>12 DEF CatSegments
  <2>4. CatSegments(convs, n)[t] = BySegment(p, g.tp, n)
    <3>1. /\ [r \in 1..g.tp |-> SubSeq(p[r], 1, n)]
               = [r \in 1..g.tp |-> SubSeq(convs[r][t], 1, n)]
          /\ [r \in 1..g.tp |-> SubSeq(p[r], n + 1, 2 * n)]
               = [r \in 1..g.tp |-> SubSeq(convs[r][t], n + 1, 2 * n)]
          /\ [r \in 1..g.tp |-> SubSeq(p[r], 2 * n + 1, Len(p[r]))]
               = [r \in 1..g.tp |-> SubSeq(convs[r][t], 2 * n + 1, Len(convs[r][t]))]
      OBVIOUS
    <3> HIDE DEF p
    <3> QED
      BY <2>3, <3>1 DEF BySegment
  <2> HIDE DEF p
  <2> QED
    <3>1. BySegment(p, g.tp, Shard(g).nk * g.dk) = ConvShard(Whole(g), 1, L)[t]
      BY <2>1, RowsMerged, Zenon
    <3> QED
      BY <2>2, <2>4, <3>1
<1>14. CatSegments(convs, n) = ConvShard(Whole(g), 1, L)
  <2>1. CatSegments(convs, n) = [t \in 1..g.time |-> CatSegments(convs, n)[t]]
    BY <1>12 DEF CatSegments
  <2>2. ConvShard(Whole(g), 1, L) = [t \in 1..g.time |-> ConvShard(Whole(g), 1, L)[t]]
    BY <1>1, WholeModel DEF ConvShard
  <2> QED
    BY <1>13, <2>1, <2>2
<1> QED
  BY <1>7, <1>8, <1>10, <1>14

-----------------------------------------------------------------------------
(* What finalize_states makes of them.                                      *)

\* The element llama.cpp expects in channel c of the row.
Expected(g, L, t, c) ==
    LET ch == LlamaChannel(g, c) IN <<ch[1], L, t, ch[2], ch[3]>>

Channels(g) == QkWidth(g) + Width(g, g.dv)

LEMMA FinalRow ==
    ASSUME NEW g \in Shapes, NEW L, NEW t \in 1..g.time
    PROVE  LET new == PermutedRow(g, ConvShard(Whole(g), 1, L)[t])
           IN  /\ IsSeq(new) /\ Len(new) = Channels(g)
               /\ \A c \in 0..(Channels(g) - 1) : new[c + 1] = Expected(g, L, t, c)
<1> DEFINE n == g.nk * g.dk
           vs == Width(g, g.dv)
           dv == g.dv
           row == ConvShard(Whole(g), 1, L)[t]
           new == PermutedRow(g, row)
           from == Source(g, dv)
<1>1. /\ n \in Nat \ {0} /\ vs \in Nat \ {0} /\ dv \in Nat \ {0} /\ g.dk \in Nat \ {0}
      /\ Heads(g) \in Nat \ {0} /\ vs = Heads(g) * dv
  BY ModelType, Widths, Product DEF Width
<1>2. QkWidth(g) = n + n
  <2>1. g.nk \in Nat /\ g.dk \in Nat
    BY ModelType
  <2> QED
    BY <2>1 DEF QkWidth
<1>3. /\ row \in Seq(Elements(L, t)) /\ Len(row) = n + n + vs
      /\ \A c \in 0..(n - 1) : /\ row[c + 1] = <<"q", L, t, c \div g.dk, c % g.dk>>
                               /\ row[n + c + 1] = <<"k", L, t, c \div g.dk, c % g.dk>>
      /\ \A c \in 0..(vs - 1) : row[n + n + c + 1] = <<"v", L, t, c \div dv, c % dv>>
  BY WholeRow
<1> HIDE DEF row
<1>4. Len(row) = QkWidth(g) + vs
  BY <1>2, <1>3
<1>5. /\ IsSeq(new) /\ Len(new) = Len(row)
      /\ from \in [0..(vs - 1) -> 0..(vs - 1)]
      /\ \A c \in 0..(QkWidth(g) - 1) : new[c + 1] = row[c + 1]
      /\ \A a \in 0..(vs - 1) : new[QkWidth(g) + a + 1] = row[QkWidth(g) + from[a] + 1]
  BY <1>3, <1>4, RowPermuted
<1>6. \A a \in 0..(vs - 1) : from[a] = dv * LlamaHead(g, a \div dv) + (a % dv)
  BY DEF Source
<1>7. \A c : LlamaChannel(g, c) =
          IF c < n THEN <<"q", c \div g.dk, c % g.dk>>
          ELSE IF c < 2 * n THEN <<"k", (c - n) \div g.dk, (c - n) % g.dk>>
          ELSE <<"v", LlamaHead(g, (c - 2 * n) \div dv), (c - 2 * n) % dv>>
  BY DEF LlamaChannel
<1> HIDE DEF n, vs, dv, new, from
<1>8. ASSUME NEW c \in 0..(n - 1) PROVE new[c + 1] = Expected(g, L, t, c)
  <2>1. c \in 0..(QkWidth(g) - 1) /\ c < n
    BY <1>1, <1>2
  <2>2. LlamaChannel(g, c) = <<"q", c \div g.dk, c % g.dk>>
    BY <1>7, <2>1, Zenon
  <2>3. new[c + 1] = <<"q", L, t, c \div g.dk, c % g.dk>>
    BY <1>3, <1>5, <2>1, Zenon
  <2> QED
    BY <2>2, <2>3 DEF Expected
<1>9. ASSUME NEW a \in 0..(n - 1) PROVE new[n + a + 1] = Expected(g, L, t, n + a)
  <2>1. /\ n + a \in 0..(QkWidth(g) - 1) /\ ~(n + a < n) /\ n + a < 2 * n
        /\ (n + a) - n = a
    BY <1>1, <1>2
  <2>2. LlamaChannel(g, n + a) = <<"k", a \div g.dk, a % g.dk>>
    BY <1>7, <2>1, Zenon
  <2>3. new[n + a + 1] = <<"k", L, t, a \div g.dk, a % g.dk>>
    BY <1>3, <1>5, <2>1, Zenon
  <2> QED
    BY <2>2, <2>3 DEF Expected
<1>10. ASSUME NEW a \in 0..(vs - 1)
       PROVE  new[QkWidth(g) + a + 1] = Expected(g, L, t, QkWidth(g) + a)
  <2> DEFINE j == a \div dv
             x == a % dv
             head == LlamaHead(g, j)
  <2>1. j \in 0..(Heads(g) - 1) /\ x \in 0..(dv - 1)
    BY <1>1, BlockOf
  <2>2. head \in Nat
    BY <1>1, <2>1, PermutationInverse
  <2>3. from[a] = dv * head + x
    BY <1>6
  <2>4. from[a] \in 0..(vs - 1)
    BY <1>5
  <2>5. LlamaChannel(g, QkWidth(g) + a) = <<"v", head, x>>
    <3>1. /\ ~(QkWidth(g) + a < n) /\ ~(QkWidth(g) + a < 2 * n)
          /\ (QkWidth(g) + a) - 2 * n = a
      BY <1>1, <1>2
    <3> QED
      BY <1>7, <3>1, Zenon
  <2> HIDE DEF j, x, head
  <2>6. from[a] \div dv = head /\ from[a] % dv = x
    <3>1. (dv * head + x) \div dv = head /\ (dv * head + x) % dv = x
      BY <1>1, <2>1, <2>2, DivModOf, Zenon
    <3> QED
      BY <2>3, <3>1
  <2>7. row[QkWidth(g) + from[a] + 1] = <<"v", L, t, from[a] \div dv, from[a] % dv>>
    BY <1>2, <1>3, <2>4
  <2>8. new[QkWidth(g) + a + 1] = <<"v", L, t, head, x>>
    BY <1>5, <2>6, <2>7
  <2> QED
    BY <2>5, <2>8 DEF Expected
<1>11. ASSUME NEW c \in 0..(Channels(g) - 1) PROVE new[c + 1] = Expected(g, L, t, c)
  <2>. c \in 0..(QkWidth(g) + vs - 1)
    <3>1. Channels(g) = QkWidth(g) + vs
      BY DEF Channels, vs, dv
    <3> QED
      BY <1>1, <1>2, <3>1
  <2>1. CASE c < n
    BY <1>1, <1>8, <2>1
  <2>2. CASE ~(c < n) /\ c < n + n
    <3>1. c - n \in 0..(n - 1) /\ n + (c - n) = c /\ n + (c - n) + 1 = c + 1
      BY <1>1, <2>2
    <3> QED
      BY <1>9, <3>1
  <2>3. CASE ~(c < n + n)
    <3> DEFINE a == c - (n + n)
    <3>1. a \in 0..(vs - 1) /\ QkWidth(g) + a = c /\ QkWidth(g) + a + 1 = c + 1
      BY <1>1, <1>2, <2>3
    <3> HIDE DEF a
    <3> QED
      BY <1>10, <3>1
  <2> QED
    BY <1>1, <2>1, <2>2, <2>3
<1>12. Channels(g) = QkWidth(g) + vs
  BY DEF Channels, vs, dv
<1> QED
  BY <1>4, <1>5, <1>11, <1>12 DEF new, row

\* Every channel of every conv row and every head of a layer's ssm state is where
\* llama.cpp looks for it.
Placed(g, L, s) ==
    /\ s.conv = [t \in 1..g.time |-> s.conv[t]]
    /\ \A t \in 1..g.time :
          /\ IsSeq(s.conv[t]) /\ Len(s.conv[t]) = Channels(g)
          /\ \A c \in 0..(Channels(g) - 1) : s.conv[t][c + 1] = Expected(g, L, t, c)
    /\ s.ssm = [h \in 1..Heads(g) |-> SsmHead(g, L, LlamaHead(g, h - 1))]

Finalized ==
    linStage \in {"final", "serialized"} => \A L \in Layers : Placed(lin, L, states[L])

LEMMA WholeDerived ==
    ASSUME NEW g \in Shapes, NEW L, NEW s,
           s.conv = ConvShard(Whole(g), 1, L), s.ssm = SsmShard(Whole(g), 1, L)
    PROVE  Derived(s) = ModelGeometry(g)
<1> DEFINE w == Whole(g)
<1>1. Valid(w) /\ Shard(w) = w /\ 1 \in 1..w.tp /\ ModelGeometry(w) = ModelGeometry(g)
  BY WholeModel DEF ModelGeometry, Heads
<1>2. s.conv = ConvShard(w, 1, L) /\ s.ssm = SsmShard(w, 1, L)
  OBVIOUS
<1> HIDE DEF w
<1>3. Derived(s) = ModelGeometry(Shard(w))
  BY <1>1, <1>2, DerivedGeometry
<1> QED
  BY <1>1, <1>3

LEMMA FinalLayer ==
    ASSUME NEW g \in Shapes, NEW L, NEW s,
           s.conv = ConvShard(Whole(g), 1, L), s.ssm = SsmShard(Whole(g), 1, L)
    PROVE  Placed(g, L, FinalizeLayer(s, ModelGeometry(g)))
<1> DEFINE nv == Heads(g)
           conv == PermuteConv(s.conv, g.nk, g.dk, nv, g.dv)
           ssm == PermuteSsm(s.ssm, g.nk, nv)
<1>1. FinalizeLayer(s, ModelGeometry(g)) = [conv |-> conv, ssm |-> ssm]
  BY DEF FinalizeLayer, ModelGeometry
<1>2. nv \in Nat
  BY Widths, ModelType
<1>3. DOMAIN s.conv = 1..g.time
  BY WholeModel DEF ConvShard
<1>4. ASSUME NEW t \in 1..g.time
      PROVE  /\ IsSeq(conv[t]) /\ Len(conv[t]) = Channels(g)
             /\ \A c \in 0..(Channels(g) - 1) : conv[t][c + 1] = Expected(g, L, t, c)
  <2>1. conv[t] = PermutedRow(g, ConvShard(Whole(g), 1, L)[t])
    BY <1>3 DEF PermuteConv, PermutedRow, QkWidth
  <2> HIDE DEF conv
  <2>2. LET new == PermutedRow(g, ConvShard(Whole(g), 1, L)[t])
        IN  /\ IsSeq(new) /\ Len(new) = Channels(g)
            /\ \A c \in 0..(Channels(g) - 1) : new[c + 1] = Expected(g, L, t, c)
    BY FinalRow
  <2> QED
    BY <2>1, <2>2
<1>5. conv = [t \in 1..g.time |-> conv[t]]
  BY <1>3 DEF PermuteConv
<1>6. ssm = [h \in 1..nv |-> SsmHead(g, L, LlamaHead(g, h - 1))]
  <2> DEFINE x == SsmShard(Whole(g), 1, L)
  <2>1. x = [h \in 1..nv |-> x[h]] /\ \A h \in 1..nv : x[h] = SsmHead(g, L, h - 1)
    <3> DEFINE w == Whole(g)
    <3>1. /\ Valid(w) /\ Heads(Shard(w)) = nv /\ 1 \in 1..w.tp /\ w.dv = g.dv /\ w.dk = g.dk
      BY WholeModel DEF Heads
    <3> HIDE DEF w, nv
    <3>2. SsmShard(w, 1, L) = [h \in 1..nv |-> SsmHead(w, L, nv * (1 - 1) + h - 1)]
      BY <3>1, ShardSsm
    <3>3. ASSUME NEW h \in 1..nv PROVE nv * (1 - 1) + h - 1 = h - 1
      BY <1>2 DEF nv
    <3>4. \A h : SsmHead(w, L, h) = SsmHead(g, L, h)
      BY <3>1 DEF SsmHead
    <3>5. SsmShard(w, 1, L) = [h \in 1..nv |-> SsmHead(g, L, h - 1)]
      BY <3>2, <3>3, <3>4
    <3> QED
      BY <3>5 DEF w
  <2> HIDE DEF x
  <2>2. IsSeq(x) /\ Len(x) = nv
    BY <1>2, <2>1, LengthOf, Zenon
  <2>3. /\ PermuteSsm(x, g.nk, nv) = [h \in 1..nv |-> x[LlamaHead(g, h - 1) + 1]]
        /\ \A j \in 0..(nv - 1) : LlamaHead(g, j) \in 0..(nv - 1)
    BY <2>2, PermutedSsm DEF IsSeq
  <2>4. ssm = PermuteSsm(x, g.nk, nv)
    BY DEF x
  <2> HIDE DEF ssm, nv
  <2>5. ASSUME NEW h \in 1..nv
        PROVE  x[LlamaHead(g, h - 1) + 1] = SsmHead(g, L, LlamaHead(g, h - 1))
    <3> DEFINE j == LlamaHead(g, h - 1)
    <3>1. h - 1 \in 0..(nv - 1)
      BY <1>2 DEF nv
    <3>2. j \in 0..(nv - 1)
      BY <2>3, <3>1
    <3> HIDE DEF j
    <3>3. j + 1 \in 1..nv /\ (j + 1) - 1 = j
      BY <1>2, <3>2 DEF nv
    <3>4. x[j + 1] = SsmHead(g, L, j)
      BY <2>1, <3>3
    <3> QED
      BY <3>4 DEF j
  <2> QED
    BY <2>3, <2>4, <2>5
<1> HIDE DEF conv, ssm
<1> DEFINE y == FinalizeLayer(s, ModelGeometry(g))
<1>7. y.conv = conv /\ y.ssm = ssm
  BY <1>1
<1> HIDE DEF y
<1>8. /\ y.conv = [t \in 1..g.time |-> y.conv[t]]
      /\ y.ssm = [h \in 1..nv |-> SsmHead(g, L, LlamaHead(g, h - 1))]
  BY <1>5, <1>6, <1>7
<1>9. \A t \in 1..g.time :
          /\ IsSeq(y.conv[t]) /\ Len(y.conv[t]) = Channels(g)
          /\ \A c \in 0..(Channels(g) - 1) : y.conv[t][c + 1] = Expected(g, L, t, c)
  BY <1>4, <1>7
<1>10. Placed(g, L, y)
  BY <1>8, <1>9, Zenon DEF Placed
<1> QED
  BY <1>10 DEF y

\* From the states of a solo engine, finalize_states makes those llama.cpp reads,
\* and refuses no model, for all numbers of heads and layers and all dimensions.
THEOREM FinalizedForLlama ==
    ASSUME lin \in Shapes, MergeIsSolo, Finalize
    PROVE  linStage' = "final" /\ Finalized'
<1>1. states = CaptureOf(Whole(lin), 1)
  BY DEF MergeIsSolo, Finalize, Whole
<1>2. ASSUME NEW L \in Layers
      PROVE  /\ states[L].conv = ConvShard(Whole(lin), 1, L)
             /\ states[L].ssm = SsmShard(Whole(lin), 1, L)
  BY <1>1 DEF CaptureOf
<1>3. 1 \in Layers
  BY ModelType DEF Layers
<1>4. Derived(states[1]) = ModelGeometry(lin)
  BY <1>2, <1>3, WholeDerived
<1>5. FinalPlausible(ModelGeometry(lin))
  <2>1. Heads(lin) % lin.nk = 0
    <3>1. /\ lin.nk \in Nat \ {0} /\ lin.ratio \in Nat /\ 0 \in 0..(lin.nk - 1)
          /\ Heads(lin) = lin.nk * lin.ratio + 0
      BY ModelType, Widths DEF Heads
    <3>2. (lin.nk * lin.ratio + 0) % lin.nk = 0
      BY <3>1, DivModOf, Zenon
    <3> QED
      BY <3>1, <3>2
  <2>2. lin.nk >= 1
    BY ModelType
  <2> QED
    BY <2>1, <2>2 DEF FinalPlausible, ModelGeometry
<1>6. /\ linStage' = "final"
      /\ states' = [L \in Layers |-> FinalizeLayer(states[L], ModelGeometry(lin))]
  BY <1>4, <1>5 DEF Finalize
<1>7. Layers' = Layers /\ lin' = lin
  BY DEF Finalize, Layers
<1>8. ASSUME NEW L \in Layers PROVE Placed(lin, L, states'[L])
  BY <1>2, <1>6, FinalLayer
<1> QED
  BY <1>6, <1>7, <1>8 DEF Finalized

-----------------------------------------------------------------------------
(* The pipeline, on any number of ranks.                                    *)

\* The steps of HybridBlob that touch the recurrent states.
GdnNext == Solo \/ MergeRanks \/ Finalize \/ \E lastPos : WriteTail(lastPos)
GdnSpec == GdnInit /\ [][GdnNext]_gdnVars

Captured == [r \in 1..lin.tp |-> CaptureOf(lin, r)]

\* The recurrent tail is that of the final states.
TailWritten ==
    linStage = "serialized" => \E lastPos : tail = RecurrentTail(states, lastPos)

GdnInv ==
    /\ lin \in GdnModels /\ recs = Captured
    /\ linStage \in {"captured", "merged", "final", "serialized"}
    /\ MergeIsSolo
    /\ Finalized
    /\ TailWritten

LEMMA GdnModel ==
    ASSUME lin \in GdnModels
    PROVE  Valid(lin) /\ lin \in Shapes
BY GdnAssumption DEF Valid

LEMMA CapturedLength ==
    ASSUME lin \in GdnModels
    PROVE  /\ DOMAIN Captured = 1..lin.tp /\ Len(Captured) = lin.tp
           /\ lin.tp \in Nat \ {0}
<1>1. lin.tp \in Nat /\ lin.tp \in Nat \ {0}
  BY GdnModel, ModelType
<1>2. Captured = [r \in 1..lin.tp |-> Captured[r]]
  BY DEF Captured
<1>3. Len(Captured) = lin.tp
  BY <1>1, <1>2, LengthOf, Zenon
<1> QED
  BY <1>1, <1>2, <1>3

\* Merging the ranks' shards gives the states of a solo engine.
LEMMA MergedForSolo ==
    ASSUME GdnInv, MergeRanks
    PROVE  linStage' = "merged" /\ states' = CaptureOf(Whole(lin), 1)
<1>1. Valid(lin) /\ recs = Captured /\ DOMAIN recs = 1..lin.tp
  BY GdnModel, CapturedLength DEF GdnInv
<1>2. ASSUME NEW L \in Layers
      PROVE  /\ MergePlausible(Parts(L))
             /\ MergeLayer(Parts(L)) = [conv |-> ConvShard(Whole(lin), 1, L),
                                        ssm  |-> SsmShard(Whole(lin), 1, L)]
  <2>1. Parts(L) = [r \in 1..lin.tp |-> [conv |-> ConvShard(lin, r, L),
                                         ssm  |-> SsmShard(lin, r, L)]]
    BY <1>1 DEF Parts, Captured, CaptureOf
  <2> QED
    BY <1>1, <2>1, MergedLayer
<1>3. /\ linStage' = "merged" /\ states' = [L \in Layers |-> MergeLayer(Parts(L))]
  BY <1>2 DEF MergeRanks
<1>4. [L \in Layers |-> MergeLayer(Parts(L))]
        = [L \in Layers |-> [conv |-> ConvShard(Whole(lin), 1, L),
                             ssm  |-> SsmShard(Whole(lin), 1, L)]]
  BY <1>2
<1> QED
  BY <1>3, <1>4 DEF CaptureOf

\* The type invariant: the geometry stays a model's, what the ranks captured is
\* kept and no state is refused.
LEMMA GdnInvariant == GdnSpec => []GdnInv
<1>1. GdnInit => GdnInv
  BY DEF GdnInit, GdnInv, Captured, MergeIsSolo, Finalized, TailWritten
<1>2. GdnInv /\ [GdnNext]_gdnVars => GdnInv'
  <2> SUFFICES ASSUME GdnInv, [GdnNext]_gdnVars PROVE GdnInv'
    OBVIOUS
  <2>1. /\ lin \in GdnModels /\ recs = Captured /\ MergeIsSolo /\ Finalized /\ TailWritten
        /\ linStage \in {"captured", "merged", "final", "serialized"}
    BY DEF GdnInv
  <2>2. lin' = lin /\ recs' = recs
    BY DEF GdnNext, Solo, MergeRanks, Finalize, WriteTail, gdnVars
  <2>3. Layers' = Layers
    BY <2>2 DEF Layers
  <2>4. Captured' = Captured /\ CaptureOf(Whole(lin), 1)' = CaptureOf(Whole(lin), 1)
    <3>1. \A g, r : [L \in Layers' |-> [conv |-> ConvShard(g, r, L), ssm |-> SsmShard(g, r, L)]]
                     = CaptureOf(g, r)
      BY <2>3 DEF CaptureOf
    <3> QED
      BY <2>2, <2>3 DEF Captured, CaptureOf
  <2>5. lin' \in GdnModels /\ recs' = Captured'
    BY <2>1, <2>2, <2>4
  <2>6. ASSUME linStage' = "merged", states' = CaptureOf(Whole(lin), 1) PROVE GdnInv'
    <3>1. MergeIsSolo'
      BY <2>4, <2>6 DEF MergeIsSolo, Whole
    <3> QED
      BY <2>5, <2>6, <3>1 DEF GdnInv, Finalized, TailWritten
  <2>7. CASE Solo
    <3>1. Len(recs) = 1 /\ lin.tp = 1
      BY <2>1, <2>7, CapturedLength DEF Solo
    <3>2. Whole(lin) = lin
      BY <2>1, <3>1, GdnModel DEF Whole, Shapes
    <3>3. recs[1] = CaptureOf(lin, 1)
      BY <2>1, <3>1 DEF Captured
    <3> QED
      BY <2>6, <2>7, <3>2, <3>3 DEF Solo
  <2>8. CASE MergeRanks
    BY <2>6, <2>8, MergedForSolo
  <2>9. CASE Finalize
    <3>1. linStage' = "final" /\ Finalized'
      BY <2>1, <2>9, GdnModel, FinalizedForLlama
    <3> QED
      BY <2>5, <3>1 DEF GdnInv, MergeIsSolo, TailWritten
  <2>10. ASSUME NEW lastPos, WriteTail(lastPos) PROVE GdnInv'
    <3>1. /\ linStage = "final" /\ linStage' = "serialized" /\ states' = states
          /\ tail' = RecurrentTail(states, lastPos)
      BY <2>10 DEF WriteTail
    <3>2. Finalized'
      BY <2>1, <2>2, <2>3, <3>1 DEF Finalized
    <3>3. RecurrentTail(states, lastPos)' = RecurrentTail(states, lastPos)
      BY <2>2, <2>3, <3>1 DEF RecurrentTail
    <3>4. TailWritten'
      BY <2>2, <2>3, <3>1 DEF TailWritten, RecurrentTail
    <3> QED
      BY <2>5, <3>1, <3>2, <3>4 DEF GdnInv, MergeIsSolo
  <2>11. CASE UNCHANGED gdnVars
    <3>1. linStage' = linStage /\ states' = states /\ tail' = tail
      BY <2>11 DEF gdnVars
    <3>2. MergeIsSolo'
      BY <2>1, <2>4, <3>1 DEF MergeIsSolo, Whole
    <3>3. Finalized'
      BY <2>1, <2>2, <2>3, <3>1 DEF Finalized
    <3>4. TailWritten'
      BY <2>1, <2>2, <2>3, <3>1 DEF TailWritten, RecurrentTail
    <3> QED
      BY <2>1, <2>5, <3>1, <3>2, <3>3, <3>4 DEF GdnInv
  <2> QED
    BY <2>7, <2>8, <2>9, <2>10, <2>11 DEF GdnNext
<1> QED
  BY <1>1, <1>2, PTL DEF GdnSpec

-----------------------------------------------------------------------------
(* The recurrent tail.                                                      *)

\* A row of n values behind its two header fields.
IsRow(row, flat, n) ==
    /\ IsSeq(row) /\ Len(row) = n + 2
    /\ row[2] = <<"u64", 4 * n>>
    /\ \A i \in 1..n : row[2 + i] = <<"f32", flat[i]>>

LEMMA RowIs ==
    ASSUME NEW flat, NEW n \in Nat, IsSeq(flat), Len(flat) = n
    PROVE  IsRow(F32Row(flat), flat, n)
<1> DEFINE x == << <<"i32", 0>>, <<"u64", 4 * Len(flat)>> >>
           y == [i \in DOMAIN flat |-> <<"f32", flat[i]>>]
<1>1. IsSeq(x) /\ Len(x) = 2 /\ x[2] = <<"u64", 4 * n>>
  <2>1. x \in Seq({<<"i32", 0>>, <<"u64", 4 * Len(flat)>>})
    OBVIOUS
  <2> QED
    BY <2>1, IsSeqIn
<1>2. DOMAIN flat = 1..n
  BY SeqIs
<1>3. y = [i \in 1..n |-> y[i]] /\ \A i \in 1..n : y[i] = <<"f32", flat[i]>>
  BY <1>2
<1>4. F32Row(flat) = x \o y
  BY DEF F32Row
<1> HIDE DEF x, y
<1>5. IsSeq(y) /\ Len(y) = n
  BY <1>3, LengthOf, Zenon
<1>6. Behind(x \o y, x, y)
  BY <1>1, <1>5, Cat, Zenon
<1>7. 2 + n = n + 2 /\ 2 \in 1..2
  OBVIOUS
<1> QED
  BY <1>1, <1>3, <1>4, <1>5, <1>6, <1>7 DEF Behind, IsRow

\* The R row of a layer, channel after channel, each with its conv rows.
LEMMA ConvRow ==
    ASSUME NEW g \in Shapes, NEW L, NEW s, Placed(g, L, s)
    PROVE  LET flat == ChannelMajor(s.conv)
           IN  /\ IsSeq(flat) /\ Len(flat) = RSize(g)
               /\ \A c \in 0..(Channels(g) - 1), t \in 1..g.time :
                     flat[c * g.time + t] = Expected(g, L, t, c)
<1> DEFINE n == Channels(g)
           w == g.time
           conv == s.conv
           p == [c \in DOMAIN conv[1] |-> [t \in DOMAIN conv |-> conv[t][c]]]
           flat == Join(p)
<1>1. n \in Nat \ {0} /\ w \in Nat \ {0}
  <2>1. QkWidth(g) \in Nat \ {0} /\ Width(g, g.dv) \in Nat \ {0} /\ w \in Nat \ {0}
    BY ModelType, Widths
  <2> QED
    BY <2>1 DEF Channels
<1>2. /\ conv = [t \in 1..w |-> conv[t]]
      /\ \A t \in 1..w : /\ IsSeq(conv[t]) /\ Len(conv[t]) = n
                         /\ \A c \in 0..(n - 1) : conv[t][c + 1] = Expected(g, L, t, c)
  BY DEF Placed
<1>3. RSize(g) = w * n
  BY DEF RSize, Channels, QkWidth, Width, Heads
<1>4. ChannelMajor(conv) = flat
  BY DEF ChannelMajor
<1> HIDE DEF n, w, conv, p, flat
<1>5. DOMAIN conv = 1..w /\ DOMAIN conv[1] = 1..n
  <2>1. 1 \in 1..w
    BY <1>1
  <2> QED
    BY <1>2, <2>1, SeqIs
<1>6. /\ p = [c \in 1..n |-> p[c]]
      /\ \A c \in 1..n : /\ p[c] = [t \in 1..w |-> p[c][t]]
                         /\ \A t \in 1..w : p[c][t] = conv[t][c]
  BY <1>5 DEF p
<1>7. IsSeq(p) /\ Len(p) = n
  BY <1>1, <1>6, LengthOf, Zenon
<1>8. ASSUME NEW c \in 1..n PROVE IsSeq(p[c]) /\ Len(p[c]) = w
  <2>1. p[c] = [t \in 1..w |-> p[c][t]] /\ w \in Nat
    BY <1>1, <1>6
  <2> QED
    BY <2>1, LengthOf, Zenon
<1>9. Blocks(flat, p, w)
  BY <1>1, <1>7, <1>8, JoinBlocks DEF Pieces, flat
<1>10. ASSUME NEW c \in 0..(n - 1), NEW t \in 1..w
       PROVE  flat[c * w + t] = Expected(g, L, t, c)
  <2>1. c + 1 \in 1..n /\ (c + 1) - 1 = c
    BY <1>1
  <2>2. flat[((c + 1) - 1) * w + t] = p[c + 1][t]
    BY <1>7, <1>9, <2>1, Zenon DEF Blocks
  <2>3. p[c + 1][t] = Expected(g, L, t, c)
    BY <1>2, <1>6, <2>1
  <2> QED
    BY <2>1, <2>2, <2>3
<1>11. n * w = w * n
  BY <1>1
<1> QED
  BY <1>3, <1>4, <1>7, <1>9, <1>10, <1>11 DEF n, w, conv, Blocks

\* The S row of a layer, head after head.
LEMMA SsmRow ==
    ASSUME NEW g \in Shapes, NEW L, NEW s, Placed(g, L, s)
    PROVE  LET flat == HeadMajor(s.ssm)
           IN  /\ IsSeq(flat) /\ Len(flat) = SSize(g)
               /\ \A j \in 0..(Heads(g) - 1), v \in 1..g.dv, k \in 1..g.dk :
                     flat[(j * g.dv + v - 1) * g.dk + k] = <<"s", L, LlamaHead(g, j), v, k>>
<1> DEFINE n == Heads(g)
           dv == g.dv
           dk == g.dk
           ssm == s.ssm
           p == [h \in DOMAIN ssm |-> Join(ssm[h])]
           flat == Join(p)
<1>1. n \in Nat \ {0} /\ dv \in Nat \ {0} /\ dk \in Nat \ {0} /\ dv * dk \in Nat
  BY ModelType, Widths
<1>2. /\ ssm = [h \in 1..n |-> ssm[h]]
      /\ \A h \in 1..n : ssm[h] = SsmHead(g, L, LlamaHead(g, h - 1))
  BY DEF Placed
<1>3. SSize(g) = n * dv * dk
  BY DEF SSize, Heads
<1>4. HeadMajor(ssm) = flat
  BY DEF HeadMajor
<1>5. \A h : /\ SsmHead(g, L, h) = [v \in 1..dv |-> SsmHead(g, L, h)[v]]
             /\ \A v \in 1..dv : /\ SsmHead(g, L, h)[v] = [k \in 1..dk |-> SsmHead(g, L, h)[v][k]]
                                 /\ \A k \in 1..dk : SsmHead(g, L, h)[v][k] = <<"s", L, h, v, k>>
  BY DEF SsmHead
<1> HIDE DEF n, dv, dk, ssm, p, flat
<1>6. DOMAIN ssm = 1..n
  BY <1>2
<1>7. p = [h \in 1..n |-> p[h]] /\ \A h \in 1..n : p[h] = Join(ssm[h])
  BY <1>6 DEF p
<1>8. IsSeq(p) /\ Len(p) = n
  BY <1>1, <1>7, LengthOf, Zenon
<1>9. ASSUME NEW h \in 1..n PROVE IsSeq(ssm[h]) /\ Len(ssm[h]) = dv /\ Blocks(p[h], ssm[h], dk)
  <2> DEFINE x == ssm[h]
  <2>1. /\ x = [v \in 1..dv |-> x[v]]
        /\ \A v \in 1..dv : x[v] = [k \in 1..dk |-> x[v][k]]
    BY <1>2, <1>5
  <2> HIDE DEF x
  <2>2. IsSeq(x) /\ Len(x) = dv
    BY <1>1, <2>1, LengthOf, Zenon
  <2>3. \A v \in 1..dv : IsSeq(x[v]) /\ Len(x[v]) = dk
    BY <1>1, <2>1, LengthOf, Zenon
  <2>4. Blocks(Join(x), x, dk)
    BY <1>1, <2>2, <2>3, JoinBlocks DEF Pieces
  <2> QED
    BY <1>7, <2>2, <2>4 DEF x
<1>10. \A h \in 1..n : IsSeq(p[h]) /\ Len(p[h]) = dv * dk
  BY <1>9 DEF Blocks
<1>11. Blocks(flat, p, dv * dk)
  BY <1>1, <1>8, <1>10, JoinBlocks DEF Pieces, flat
<1>12. ASSUME NEW j \in 0..(n - 1), NEW v \in 1..dv, NEW k \in 1..dk
       PROVE  flat[(j * dv + v - 1) * dk + k] = <<"s", L, LlamaHead(g, j), v, k>>
  <2> DEFINE h == j + 1
             c == (v - 1) * dk + k
  <2>1. h \in 1..n /\ h - 1 = j
    BY <1>1
  <2>2. c \in 1..(dv * dk)
    <3>1. v - 1 \in 0..(dv - 1) /\ k - 1 \in 0..(dk - 1)
      BY <1>1
    <3>2. dk * (v - 1) + (k - 1) \in 0..(dv * dk - 1)
      BY <1>1, <3>1, InBlock
    <3>3. (v - 1) * dk = dk * (v - 1) /\ dk * (v - 1) \in Nat
      BY <1>1, <3>1
    <3> QED
      BY <1>1, <3>2, <3>3
  <2>3. (j * dv + v - 1) * dk + k = (h - 1) * (dv * dk) + c
    <3>1. j * dv \in Nat /\ v - 1 \in Nat
      BY <1>1
    <3>2. (j * dv + v - 1) * dk = (j * dv) * dk + (v - 1) * dk
      BY <1>1, <3>1
    <3>3. (j * dv) * dk = j * (dv * dk) /\ j * (dv * dk) \in Nat /\ (v - 1) * dk \in Nat
      BY <1>1, <3>1
    <3>4. (j * dv + v - 1) * dk + k = j * (dv * dk) + ((v - 1) * dk + k)
      <4> DEFINE P == j * (dv * dk)
                 Q == (v - 1) * dk
      <4>1. P \in Nat /\ Q \in Nat /\ (j * dv + v - 1) * dk = P + Q
        BY <3>2, <3>3
      <4> HIDE DEF P, Q
      <4>2. (P + Q) + k = P + (Q + k)
        BY <1>1, <4>1
      <4> QED
        BY <4>1, <4>2 DEF P, Q
    <3> QED
      BY <2>1, <3>4
  <2> HIDE DEF h, c
  <2>4. flat[(h - 1) * (dv * dk) + c] = p[h][c]
    BY <1>8, <1>11, <2>1, <2>2, Zenon DEF Blocks
  <2>5. p[h][c] = ssm[h][v][k]
    <3>1. p[h][(v - 1) * dk + k] = ssm[h][v][k]
      BY <1>9, <2>1, Zenon DEF Blocks
    <3> QED
      BY <3>1 DEF c
  <2>6. ssm[h][v][k] = <<"s", L, LlamaHead(g, j), v, k>>
    <3>1. ssm[h] = SsmHead(g, L, LlamaHead(g, j))
      BY <1>2, <2>1
    <3>2. SsmHead(g, L, LlamaHead(g, j))[v][k] = <<"s", L, LlamaHead(g, j), v, k>>
      BY <1>5, Zenon
    <3> QED
      BY <3>1, <3>2
  <2> QED
    BY <2>3, <2>4, <2>5, <2>6
<1>13. n * (dv * dk) = n * dv * dk
  BY <1>1
<1> QED
  BY <1>3, <1>4, <1>8, <1>11, <1>12, <1>13 DEF n, dv, dk, ssm, Blocks

\* The rows of a kind, n values each, one behind the other.
RowsStand(s, flat, m, n) ==
    /\ IsSeq(s) /\ Len(s) = m * (n + 2)
    /\ \A L \in 1..m :
          /\ s[(L - 1) * (n + 2) + 2] = <<"u64", 4 * n>>
          /\ \A i \in 1..n : s[(L - 1) * (n + 2) + (2 + i)] = <<"f32", flat[L][i]>>

LEMMA RowsAt ==
    ASSUME NEW m \in Nat, NEW n \in Nat, NEW p, NEW flat,
           p = [L \in 1..m |-> F32Row(flat[L])],
           \A L \in 1..m : IsSeq(flat[L]) /\ Len(flat[L]) = n
    PROVE  RowsStand(Join(p), flat, m, n)
<1>1. p = [L \in 1..m |-> p[L]]
  OBVIOUS
<1>2. IsSeq(p) /\ Len(p) = m
  BY <1>1, LengthOf, Zenon
<1>3. ASSUME NEW L \in 1..m PROVE IsRow(p[L], flat[L], n)
  <2>1. p[L] = F32Row(flat[L]) /\ IsSeq(flat[L]) /\ Len(flat[L]) = n
    OBVIOUS
  <2> QED
    BY <2>1, RowIs, Zenon
<1>4. \A L \in 1..m : IsSeq(p[L]) /\ Len(p[L]) = n + 2
  BY <1>3, Zenon DEF IsRow
<1>5. n + 2 \in Nat
  OBVIOUS
<1> DEFINE w == n + 2
<1> HIDE DEF w
<1>6. Blocks(Join(p), p, w)
  BY <1>2, <1>4, <1>5, JoinBlocks DEF Pieces, w
<1>7. /\ IsSeq(Join(p)) /\ Len(Join(p)) = m * w
      /\ \A L \in 1..m, c \in 1..w : Join(p)[(L - 1) * w + c] = p[L][c]
  BY <1>2, <1>6 DEF Blocks
<1>8. ASSUME NEW L \in 1..m
      PROVE  /\ Join(p)[(L - 1) * w + 2] = <<"u64", 4 * n>>
             /\ \A i \in 1..n : Join(p)[(L - 1) * w + (2 + i)] = <<"f32", flat[L][i]>>
  <2>1. 2 \in 1..w /\ \A i \in 1..n : 2 + i \in 1..w
    BY DEF w
  <2>2. p[L][2] = <<"u64", 4 * n>> /\ \A i \in 1..n : p[L][2 + i] = <<"f32", flat[L][i]>>
    BY <1>3, Zenon DEF IsRow
  <2> QED
    BY <1>7, <2>1, <2>2
<1> QED
  BY <1>7, <1>8 DEF w, RowsStand

LEMMA HeaderIs ==
    ASSUME NEW lastPos, NEW n
    PROVE  IsSeq(TailHeader(lastPos, n)) /\ Len(TailHeader(lastPos, n)) = 5
<1> DEFINE S == {<<"u32", 1>>, <<"i32", lastPos>>, <<"u32", 0>>, <<"u32", n>>}
           h == TailHeader(lastPos, n)
<1>1. h \in Seq(S) /\ Len(h) = 5
  BY DEF TailHeader
<1> HIDE DEF S
<1> QED
  BY <1>1, IsSeqIn

\* The fields of the tail of final states.
TailFields(g, m, x) ==
    /\ Len(x) = 5 + m * (RSize(g) + 2) + m * (SSize(g) + 2)
    /\ \A L \in 1..m :
          LET r == 5 + (L - 1) * (RSize(g) + 2)
              s == 5 + m * (RSize(g) + 2) + (L - 1) * (SSize(g) + 2)
          IN  /\ x[r + 2] = <<"u64", 4 * RSize(g)>>
              /\ \A c \in 0..(Channels(g) - 1), t \in 1..g.time :
                    x[r + (2 + (c * g.time + t))] = <<"f32", Expected(g, L, t, c)>>
              /\ \A j \in 0..(Heads(g) - 1), v \in 1..g.dv, k \in 1..g.dk :
                    x[s + (2 + ((j * g.dv + v - 1) * g.dk + k))]
                      = <<"f32", <<"s", L, LlamaHead(g, j), v, k>>>>

LEMMA Sizes ==
    ASSUME NEW g \in Shapes
    PROVE  /\ RSize(g) \in Nat /\ SSize(g) \in Nat /\ g.time \in Nat \ {0}
           /\ Channels(g) \in Nat \ {0} /\ Heads(g) \in Nat \ {0}
           /\ g.dv \in Nat \ {0} /\ g.dk \in Nat \ {0}
           /\ RSize(g) = g.time * Channels(g) /\ SSize(g) = Heads(g) * g.dv * g.dk
<1>1. /\ QkWidth(g) \in Nat \ {0} /\ Width(g, g.dv) \in Nat \ {0} /\ g.time \in Nat \ {0}
      /\ Heads(g) \in Nat \ {0} /\ g.dv \in Nat \ {0} /\ g.dk \in Nat \ {0}
  BY ModelType, Widths
<1>2. Channels(g) \in Nat \ {0}
  BY <1>1 DEF Channels
<1>3. RSize(g) = g.time * Channels(g) /\ SSize(g) = Heads(g) * g.dv * g.dk
  BY DEF RSize, SSize, Channels, QkWidth, Width, Heads
<1>4. g.time * Channels(g) \in Nat /\ Heads(g) * g.dv * g.dk \in Nat
  BY <1>1, <1>2, Product
<1> QED
  BY <1>1, <1>2, <1>3, <1>4

LEMMA TailOf ==
    ASSUME NEW lastPos, lin \in Shapes, \A L \in Layers : Placed(lin, L, states[L])
    PROVE  TailFields(lin, lin.linear, RecurrentTail(states, lastPos))
<1> DEFINE g == lin
           m == lin.linear
           R == [L \in 1..m |-> F32Row(ChannelMajor(states[L].conv))]
           S == [L \in 1..m |-> F32Row(HeadMajor(states[L].ssm))]
           fr == [L \in 1..m |-> ChannelMajor(states[L].conv)]
           fs == [L \in 1..m |-> HeadMajor(states[L].ssm)]
           h == TailHeader(lastPos, lin.n)
           x == RecurrentTail(states, lastPos)
<1>1. /\ m \in Nat /\ RSize(g) \in Nat /\ SSize(g) \in Nat /\ g.time \in Nat \ {0}
      /\ Channels(g) \in Nat \ {0} /\ Heads(g) \in Nat \ {0}
      /\ g.dv \in Nat \ {0} /\ g.dk \in Nat \ {0}
      /\ RSize(g) = g.time * Channels(g) /\ SSize(g) = Heads(g) * g.dv * g.dk
  BY Sizes, ModelType
<1>2. x = (h \o Join(R)) \o Join(S)
  BY DEF RecurrentTail, Layers
<1>3. ASSUME NEW L \in 1..m
      PROVE  /\ IsSeq(fr[L]) /\ Len(fr[L]) = RSize(g)
             /\ \A c \in 0..(Channels(g) - 1), t \in 1..g.time :
                   fr[L][c * g.time + t] = Expected(g, L, t, c)
  <2>1. Placed(g, L, states[L])
    BY DEF Layers
  <2>2. fr[L] = ChannelMajor(states[L].conv)
    OBVIOUS
  <2> HIDE DEF fr, g
  <2> QED
    BY <2>1, <2>2, ConvRow DEF g
<1>4. ASSUME NEW L \in 1..m
      PROVE  /\ IsSeq(fs[L]) /\ Len(fs[L]) = SSize(g)
             /\ \A j \in 0..(Heads(g) - 1), v \in 1..g.dv, k \in 1..g.dk :
                   fs[L][(j * g.dv + v - 1) * g.dk + k] = <<"s", L, LlamaHead(g, j), v, k>>
  <2>1. Placed(g, L, states[L])
    BY DEF Layers
  <2>2. fs[L] = HeadMajor(states[L].ssm)
    OBVIOUS
  <2> HIDE DEF fs, g
  <2>3. g \in Shapes
    BY DEF g
  <2>4. LET flat == HeadMajor(states[L].ssm)
        IN  /\ IsSeq(flat) /\ Len(flat) = SSize(g)
            /\ \A j \in 0..(Heads(g) - 1), v \in 1..g.dv, k \in 1..g.dk :
                  flat[(j * g.dv + v - 1) * g.dk + k] = <<"s", L, LlamaHead(g, j), v, k>>
    BY <2>1, <2>3, SsmRow, Zenon
  <2> QED
    BY <2>2, <2>4, Zenon
<1>5. /\ R = [L \in 1..m |-> F32Row(fr[L])] /\ S = [L \in 1..m |-> F32Row(fs[L])]
  OBVIOUS
<1>6. IsSeq(h) /\ Len(h) = 5
  BY HeaderIs
<1> HIDE DEF g, m, R, S, fr, fs, h, x
<1> DEFINE a == RSize(g) + 2
           b == SSize(g) + 2
<1>7. /\ IsSeq(Join(R)) /\ Len(Join(R)) = m * a
      /\ \A L \in 1..m :
            /\ Join(R)[(L - 1) * a + 2] = <<"u64", 4 * RSize(g)>>
            /\ \A i \in 1..RSize(g) : Join(R)[(L - 1) * a + (2 + i)] = <<"f32", fr[L][i]>>
  <2>1. \A L \in 1..m : IsSeq(fr[L]) /\ Len(fr[L]) = RSize(g)
    BY <1>3
  <2>2. RowsStand(Join(R), fr, m, RSize(g))
    BY <1>1, <1>5, <2>1, RowsAt
  <2> QED
    BY <2>2 DEF RowsStand
<1>8. /\ IsSeq(Join(S)) /\ Len(Join(S)) = m * b
      /\ \A L \in 1..m :
            \A i \in 1..SSize(g) : Join(S)[(L - 1) * b + (2 + i)] = <<"f32", fs[L][i]>>
  <2>1. \A L \in 1..m : IsSeq(fs[L]) /\ Len(fs[L]) = SSize(g)
    BY <1>4
  <2>2. RowsStand(Join(S), fs, m, SSize(g))
    BY <1>1, <1>5, <2>1, RowsAt
  <2> QED
    BY <2>2 DEF RowsStand
<1>9. Behind(h \o Join(R), h, Join(R))
  BY <1>6, <1>7, Cat, Zenon
<1>10. Behind((h \o Join(R)) \o Join(S), h \o Join(R), Join(S))
  <2>1. IsSeq(h \o Join(R)) /\ IsSeq(Join(S))
    BY <1>8, <1>9 DEF Behind
  <2> QED
    BY <2>1, Cat, Zenon
<1>11. a \in Nat /\ b \in Nat /\ m * a \in Nat /\ m * b \in Nat
  BY <1>1
<1>12. /\ Len(x) = 5 + m * a + m * b
       /\ \A i \in 1..(m * a) : x[5 + i] = Join(R)[i]
       /\ \A i \in 1..(m * b) : x[5 + m * a + i] = Join(S)[i]
  <2> DEFINE A == m * a
             B == m * b
             y == h \o Join(R)
  <2>1. /\ A \in Nat /\ B \in Nat /\ Len(h) = 5 /\ Len(Join(R)) = A /\ Len(Join(S)) = B
    BY <1>6, <1>7, <1>8, <1>11
  <2> HIDE DEF A, B, y
  <2>2. /\ Len(y) = 5 + A /\ \A i \in 1..A : y[5 + i] = Join(R)[i]
    BY <1>9, <2>1 DEF Behind, y
  <2>3. /\ Len(x) = 5 + A + B /\ \A i \in 1..(5 + A) : x[i] = y[i]
        /\ \A i \in 1..B : x[5 + A + i] = Join(S)[i]
    BY <1>2, <1>10, <2>1, <2>2 DEF Behind, y
  <2>4. ASSUME NEW i \in 1..A PROVE x[5 + i] = Join(R)[i]
    <3>1. 5 + i \in 1..(5 + A)
      BY <2>1
    <3> QED
      BY <2>2, <2>3, <3>1
  <2> QED
    BY <2>3, <2>4 DEF A, B
<1> HIDE DEF a, b
<1>13. ASSUME NEW L \in 1..m
       PROVE  /\ (L - 1) * a \in Nat /\ \A i \in 1..a : (L - 1) * a + i \in 1..(m * a)
              /\ (L - 1) * b \in Nat /\ \A i \in 1..b : (L - 1) * b + i \in 1..(m * b)
  <2>1. L - 1 \in 0..(m - 1)
    BY <1>1
  <2>2. ASSUME NEW c \in Nat, NEW i \in 1..c PROVE (L - 1) * c \in Nat /\ (L - 1) * c + i \in 1..(m * c)
    <3>1. c \in Nat \ {0} /\ i - 1 \in 0..(c - 1)
      OBVIOUS
    <3>2. c * (L - 1) + (i - 1) \in 0..(m * c - 1)
      BY <1>1, <2>1, <3>1, InBlock
    <3>3. (L - 1) * c = c * (L - 1) /\ c * (L - 1) \in Nat /\ m * c \in Nat
      BY <1>1, <2>1
    <3> QED
      BY <3>2, <3>3
  <2>3. (L - 1) * a \in Nat /\ (L - 1) * b \in Nat
    BY <1>11, <2>1
  <2> QED
    BY <1>11, <2>2, <2>3
<1>14. ASSUME NEW L \in 1..m
       PROVE  /\ x[(5 + (L - 1) * a) + 2] = <<"u64", 4 * RSize(g)>>
              /\ \A i \in 1..RSize(g) : x[(5 + (L - 1) * a) + (2 + i)] = <<"f32", fr[L][i]>>
              /\ \A i \in 1..SSize(g) :
                    x[(5 + m * a + (L - 1) * b) + (2 + i)] = <<"f32", fs[L][i]>>
  <2> DEFINE A == m * a
             P == (L - 1) * a
             Q == (L - 1) * b
  <2>1. /\ A \in Nat /\ P \in Nat /\ Q \in Nat /\ 2 \in 1..a
        /\ \A i \in 1..RSize(g) : 2 + i \in 1..a
        /\ \A i \in 1..SSize(g) : 2 + i \in 1..b
    BY <1>1, <1>11, <1>13 DEF a, b
  <2>2. /\ \A i \in 1..a : P + i \in 1..A
        /\ \A i \in 1..b : Q + i \in 1..(m * b)
    BY <1>13
  <2> HIDE DEF A, P, Q
  <2>3. \A i \in 1..a : x[5 + (P + i)] = Join(R)[P + i] /\ 5 + (P + i) = (5 + P) + i
    BY <1>12, <2>1, <2>2 DEF A
  <2>4. \A i \in 1..b : /\ x[5 + A + (Q + i)] = Join(S)[Q + i]
                        /\ 5 + A + (Q + i) = (5 + A + Q) + i
    BY <1>12, <2>1, <2>2 DEF A
  <2>5. /\ x[(5 + P) + 2] = <<"u64", 4 * RSize(g)>>
        /\ \A i \in 1..RSize(g) : x[(5 + P) + (2 + i)] = <<"f32", fr[L][i]>>
    BY <1>7, <2>1, <2>3 DEF P
  <2>6. \A i \in 1..SSize(g) : x[(5 + A + Q) + (2 + i)] = <<"f32", fs[L][i]>>
    BY <1>8, <2>1, <2>4 DEF Q
  <2> QED
    BY <2>5, <2>6 DEF A, P, Q
<1>15. ASSUME NEW c \in 0..(Channels(g) - 1), NEW t \in 1..g.time
       PROVE  c * g.time + t \in 1..RSize(g)
  <2>1. t - 1 \in 0..(g.time - 1)
    BY <1>1
  <2>2. g.time * c + (t - 1) \in 0..(Channels(g) * g.time - 1)
    BY <1>1, <2>1, InBlock
  <2>3. /\ Channels(g) * g.time = RSize(g) /\ c * g.time = g.time * c /\ g.time * c \in Nat
    BY <1>1
  <2> QED
    BY <1>1, <2>2, <2>3
<1>16. ASSUME NEW j \in 0..(Heads(g) - 1), NEW v \in 1..g.dv, NEW k \in 1..g.dk
       PROVE  (j * g.dv + v - 1) * g.dk + k \in 1..SSize(g)
  <2> DEFINE n == Heads(g) * g.dv
             q == j * g.dv + v - 1
  <2>1. n \in Nat /\ q \in 0..(n - 1)
    <3>1. v - 1 \in 0..(g.dv - 1)
      BY <1>1
    <3>2. g.dv * j + (v - 1) \in 0..(Heads(g) * g.dv - 1)
      BY <1>1, <3>1, InBlock
    <3>3. g.dv * j = j * g.dv /\ j * g.dv \in Nat /\ n \in Nat
      BY <1>1
    <3> QED
      BY <1>1, <3>2, <3>3
  <2>2. k - 1 \in 0..(g.dk - 1)
    BY <1>1
  <2>3. SSize(g) = n * g.dk
    BY <1>1
  <2> HIDE DEF n, q
  <2>4. g.dk * q + (k - 1) \in 0..(n * g.dk - 1)
    BY <1>1, <2>1, <2>2, InBlock
  <2>5. g.dk * q = q * g.dk /\ q * g.dk \in Nat
    BY <1>1, <2>1
  <2>6. q * g.dk + k \in 1..SSize(g)
    BY <1>1, <2>3, <2>4, <2>5
  <2> QED
    BY <2>6 DEF q
<1>17. ASSUME NEW L \in 1..m
       PROVE  /\ \A c \in 0..(Channels(g) - 1), t \in 1..g.time :
                    x[(5 + (L - 1) * a) + (2 + (c * g.time + t))]
                      = <<"f32", Expected(g, L, t, c)>>
              /\ \A j \in 0..(Heads(g) - 1), v \in 1..g.dv, k \in 1..g.dk :
                    x[(5 + m * a + (L - 1) * b) + (2 + ((j * g.dv + v - 1) * g.dk + k))]
                      = <<"f32", <<"s", L, LlamaHead(g, j), v, k>>>>
  <2>1. ASSUME NEW c \in 0..(Channels(g) - 1), NEW t \in 1..g.time
        PROVE  x[(5 + (L - 1) * a) + (2 + (c * g.time + t))] = <<"f32", Expected(g, L, t, c)>>
    BY <1>3, <1>14, <1>15
  <2>2. ASSUME NEW j \in 0..(Heads(g) - 1), NEW v \in 1..g.dv, NEW k \in 1..g.dk
        PROVE  x[(5 + m * a + (L - 1) * b) + (2 + ((j * g.dv + v - 1) * g.dk + k))]
                 = <<"f32", <<"s", L, LlamaHead(g, j), v, k>>>>
    BY <1>4, <1>14, <1>16
  <2> QED
    BY <2>1, <2>2
<1>18. TailFields(g, m, x)
  BY <1>12, <1>14, <1>17 DEF TailFields, a, b
<1> QED
  BY <1>18 DEF g, m, x

\* For all models and numbers of ranks, merging the ranks' shards gives the states
\* of a solo engine; no state is ever refused.
THEOREM MergedAsSolo == GdnSpec => [](MergeIsSolo /\ linStage # "raised")
<1>1. GdnInv => MergeIsSolo /\ linStage # "raised"
  BY DEF GdnInv
<1> QED
  BY <1>1, GdnInvariant, PTL

LEMMA InvFinds ==
    ASSUME GdnInv
    PROVE  ReaderFindsConv /\ ReaderFindsSsm
<1> SUFFICES ASSUME linStage = "serialized" PROVE ReaderFindsConv /\ ReaderFindsSsm
  BY DEF ReaderFindsConv, ReaderFindsSsm
<1> DEFINE g == lin
           m == lin.linear
           A == RSize(g) + 2
           B == SSize(g) + 2
<1>1. TailFields(g, m, tail) /\ g \in Shapes
  <2>1. lin \in Shapes /\ (\A L \in Layers : Placed(lin, L, states[L]))
    BY GdnModel DEF GdnInv, Finalized
  <2>2. PICK lastPos : tail = RecurrentTail(states, lastPos)
    BY DEF GdnInv, TailWritten
  <2> QED
    BY <2>1, <2>2, TailOf
<1>2. /\ m \in Nat /\ RSize(g) \in Nat /\ SSize(g) \in Nat /\ g.time \in Nat \ {0}
      /\ Channels(g) \in Nat \ {0} /\ Heads(g) \in Nat \ {0}
      /\ g.dv \in Nat \ {0} /\ g.dk \in Nat \ {0}
      /\ RSize(g) = g.time * Channels(g)
  BY <1>1, Sizes, ModelType
<1>3. RSize(g) \div g.time = Channels(g)
  <2>1. /\ RSize(g) = g.time * Channels(g) + 0 /\ 0 \in 0..(g.time - 1)
        /\ Channels(g) \in Nat
    BY <1>2
  <2>2. (g.time * Channels(g) + 0) \div g.time = Channels(g)
    BY <1>2, <2>1, DivModOf, Zenon
  <2> QED
    BY <2>1, <2>2
<1>4. Layers = 1..m /\ Heads(g) = lin.nk * lin.ratio
  BY DEF Layers, Heads
<1>5. /\ A \in Nat /\ B \in Nat
      /\ \A L \in 1..(m + 1) : (L - 1) * A \in Nat /\ (L - 1) * B \in Nat /\ L - 1 \in Nat
  BY <1>2
<1>6. m * A \in Nat /\ (m + 1) - 1 = m
  BY <1>2
<1>7. \A L : RStart(lin, L) = 5 + (L - 1) * A
  BY DEF RStart
<1>8. \A L : SStart(lin, L) = 5 + m * A + (L - 1) * B
  BY <1>6, <1>7 DEF SStart
<1>9. /\ Len(tail) = 5 + m * A + m * B
      /\ \A L \in 1..m :
            /\ tail[(5 + (L - 1) * A) + 2] = <<"u64", 4 * RSize(g)>>
            /\ \A c \in 0..(Channels(g) - 1), t \in 1..g.time :
                  tail[(5 + (L - 1) * A) + (2 + (c * g.time + t))] = <<"f32", Expected(g, L, t, c)>>
            /\ \A j \in 0..(Heads(g) - 1), v \in 1..g.dv, k \in 1..g.dk :
                  tail[(5 + m * A + (L - 1) * B) + (2 + ((j * g.dv + v - 1) * g.dk + k))]
                    = <<"f32", <<"s", L, LlamaHead(g, j), v, k>>>>
  BY <1>1 DEF TailFields
<1>10. \A x, y, z \in Nat : x + (2 + (y + z)) = x + 2 + y + z
  OBVIOUS
<1> HIDE DEF A, B
<1>11. ASSUME NEW L \in Layers, NEW c \in 0..((RSize(lin) \div lin.time) - 1),
              NEW t \in 1..lin.time
       PROVE  LET ch == LlamaChannel(lin, c)
              IN  /\ tail[RStart(lin, L) + 2] = <<"u64", 4 * RSize(lin)>>
                  /\ tail[RStart(lin, L) + 2 + c * lin.time + t]
                       = <<"f32", <<ch[1], L, t, ch[2], ch[3]>>>>
  <2>1. L \in 1..m /\ c \in 0..(Channels(g) - 1) /\ t \in 1..g.time
    BY <1>3, <1>4
  <2> DEFINE P == 5 + (L - 1) * A
             Q == c * g.time
  <2>2. P \in Nat /\ Q \in Nat /\ t \in Nat
    <3>1. (L - 1) * A \in Nat
      BY <1>2, <1>5, <2>1
    <3> QED
      BY <1>2, <2>1, <3>1
  <2>3. RStart(lin, L) = P
    BY <1>7
  <2>4. tail[P + 2] = <<"u64", 4 * RSize(lin)>> /\ tail[P + (2 + (Q + t))] = <<"f32", Expected(lin, L, t, c)>>
    BY <1>9, <2>1
  <2> HIDE DEF P, Q
  <2>5. P + (2 + (Q + t)) = P + 2 + Q + t
    BY <1>10, <2>2
  <2>6. tail[RStart(lin, L) + 2 + c * lin.time + t] = <<"f32", Expected(lin, L, t, c)>>
    BY <2>3, <2>4, <2>5 DEF Q
  <2> QED
    BY <2>3, <2>4, <2>6 DEF Expected
<1>12. ASSUME NEW L \in Layers, NEW j \in 0..(lin.nk * lin.ratio - 1),
              NEW v \in 1..lin.dv, NEW k \in 1..lin.dk
       PROVE  tail[SStart(lin, L) + 2 + (j * lin.dv + v - 1) * lin.dk + k]
                = <<"f32", <<"s", L, LlamaHead(lin, j), v, k>>>>
  <2>1. L \in 1..m /\ j \in 0..(Heads(g) - 1) /\ v \in 1..g.dv /\ k \in 1..g.dk
    BY <1>4
  <2> DEFINE P == 5 + m * A + (L - 1) * B
             Q == (j * g.dv + v - 1) * g.dk
  <2>2. P \in Nat /\ Q \in Nat /\ k \in Nat
    <3>1. (L - 1) * B \in Nat
      BY <1>2, <1>5, <2>1
    <3>2. j * g.dv \in Nat /\ v - 1 \in Nat
      BY <1>2, <2>1
    <3>3. j * g.dv + v - 1 \in Nat
      BY <3>2
    <3>4. Q \in Nat
      BY <1>2, <3>3
    <3> QED
      BY <1>2, <1>6, <2>1, <3>1, <3>4
  <2>3. SStart(lin, L) = P
    BY <1>8
  <2>4. tail[P + (2 + (Q + k))] = <<"f32", <<"s", L, LlamaHead(lin, j), v, k>>>>
    BY <1>9, <2>1
  <2> HIDE DEF P, Q
  <2>5. P + (2 + (Q + k)) = P + 2 + Q + k
    BY <1>10, <2>2
  <2> QED
    BY <2>3, <2>4, <2>5 DEF Q
<1>13. Len(tail) = SStart(lin, lin.linear + 1)
  BY <1>6, <1>8, <1>9
<1>14. ReaderFindsConv
  BY <1>11 DEF ReaderFindsConv
<1>15. ReaderFindsSsm
  BY <1>12, <1>13 DEF ReaderFindsSsm
<1> QED
  BY <1>14, <1>15

\* A reader of the tail finds in every R row the conv state of the channel and time
\* it expects, ...
THEOREM ConvFound == GdnSpec => []ReaderFindsConv
BY InvFinds, GdnInvariant, PTL

\* ... and in every S row the ssm state of the head it expects; the tail ends with
\* the last of them.
THEOREM SsmFound == GdnSpec => []ReaderFindsSsm
BY InvFinds, GdnInvariant, PTL
=============================================================================
