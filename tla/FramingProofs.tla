---------------------------- MODULE FramingProofs ----------------------------
(***************************************************************************)
(* Proofs about Framing for every header size, cap and set of lengths, and  *)
(* every way the stream is cut to pieces or lost.                           *)
(***************************************************************************)
EXTENDS Framing, SequenceTheorems, TLAPS

-----------------------------------------------------------------------------
(* The inductive invariant.                                                *)

FrameLen(n) == HeaderSize + sent[n]

\* What is sent may be sent.
Capped == \A n \in 1..Len(sent) : sent[n] <= MaxFrame /\ sent[n] \in Lengths

\* The stream is made of bytes of sent frames; within a frame they follow one
\* another, and after its last byte comes the first of the next.
Sized == \A i \in 1..Len(stream) : /\ stream[i][1] \in 1..Len(sent)
                                   /\ stream[i][2] \in 1..FrameLen(stream[i][1])

Running == \A i \in 1..Len(stream), d \in Nat :
              i + d <= Len(stream) /\ stream[i][2] + d <= FrameLen(stream[i][1])
                  => stream[i + d] = <<stream[i][1], stream[i][2] + d>>

Following == \A i \in 1..Len(stream) :
                i < Len(stream) /\ stream[i][2] = FrameLen(stream[i][1])
                    => stream[i + 1] = <<stream[i][1] + 1, 1>>

\* As long as the connection is not lost, it ends with the end of a frame.
Complete == ~cut /\ stream # <<>> =>
                stream[Len(stream)] = <<Len(sent), FrameLen(Len(sent))>>

StreamOk == Capped /\ Sized /\ Running /\ Following /\ Complete

\* The frame that is being read, and how much of it came before buf.
Cur == Len(received) + 1
Before == IF stage = "length" THEN 0 ELSE HeaderSize

\* The reader has read all frames before Cur, and of this one what it has in buf.
Place ==
    /\ Len(received) <= Len(sent)
    /\ \A n \in 1..Len(received) : received[n] = PayloadBytes(n, sent[n])
    /\ stage = "length" => need = HeaderSize
    /\ stage = "payload" => Cur <= Len(sent) /\ need = sent[Cur]
    /\ buf # <<>> => Cur <= Len(sent)
    /\ \A i \in 1..Len(buf) : buf[i] = <<Cur, Before + i>>

\* The next byte on the stream is the next one it needs.
Meet ==
    /\ stream # <<>> =>
          stream[1] = IF Cur <= Len(sent) /\ Before + Len(buf) = FrameLen(Cur)
                      THEN <<Cur + 1, 1>> ELSE <<Cur, Before + Len(buf) + 1>>
    /\ ~cut /\ stream = <<>> =>
          \/ Cur = Len(sent) + 1 /\ Before + Len(buf) = 0
          \/ Cur = Len(sent) /\ Before + Len(buf) = FrameLen(Cur)

Ended ==
    /\ outcome # "refused"
    /\ outcome = "incomplete" => Cur <= Len(sent)
    /\ outcome = "clean" => buf = <<>> /\ need = HeaderSize /\ closed /\ stream = <<>>
    /\ cut => closed

IInv == TypeOK /\ StreamOk /\ Place /\ Meet /\ Ended

-----------------------------------------------------------------------------

LEMMA InitIInv == Init => IInv
<1> SUFFICES ASSUME Init PROVE IInv
  OBVIOUS
<1>1. /\ sent = <<>> /\ stream = <<>> /\ closed = FALSE /\ cut = FALSE
      /\ stage = "length" /\ need = HeaderSize /\ buf = <<>>
      /\ received = <<>> /\ outcome = "reading"
  BY DEF Init
<1>2. Len(<<>>) = 0 /\ <<>> \in Seq(Nat) /\ <<>> \in Seq(Bytes) /\ <<>> \in Seq(Seq(Bytes))
  BY EmptySeq
<1>3. TypeOK
  <2>1. closed \in BOOLEAN /\ cut \in BOOLEAN
    BY <1>1, Zenon
  <2> QED
    BY <1>1, <1>2, <2>1, ConstantsAssumption DEF TypeOK
<1>4. StreamOk
  BY <1>1, <1>2 DEF StreamOk, Capped, Sized, Running, Following, Complete
<1>5. Place
  BY <1>1, <1>2 DEF Place
<1>6. Meet /\ Ended
  BY <1>1, <1>2 DEF Meet, Ended, Cur, Before
<1> QED
  BY <1>3, <1>4, <1>5, <1>6 DEF IInv

\* The payload of a frame.
LEMMA PayloadFacts ==
    ASSUME NEW n \in Nat, NEW m \in Nat
    PROVE  /\ PayloadBytes(n, m) \in Seq(Bytes) /\ Len(PayloadBytes(n, m)) = m
           /\ \A j \in 1..m : PayloadBytes(n, m)[j] = <<n, HeaderSize + j>>
<1> DEFINE b(j) == <<n, HeaderSize + j>>
           p == [j \in 1..m |-> b(j)]
<1>1. \A j \in 1..m : b(j) \in Bytes
  BY ConstantsAssumption DEF Bytes
<1> HIDE DEF b
<1>2. p \in Seq(Bytes) /\ Len(p) = m /\ \A j \in 1..m : p[j] = b(j)
  BY <1>1
<1>3. PayloadBytes(n, m) = p
  BY DEF PayloadBytes, b
<1> HIDE DEF p
<1> QED
  BY <1>2, <1>3 DEF b

\* Types, for the arithmetic below.
LEMMA Facts ==
    ASSUME TypeOK
    PROVE  /\ sent \in Seq(Nat) /\ Len(sent) \in Nat
           /\ \A n \in 1..Len(sent) : sent[n] \in Nat /\ FrameLen(n) \in Nat
                                      /\ FrameLen(n) >= HeaderSize
           /\ stream \in Seq(Bytes) /\ Len(stream) \in Nat
           /\ \A i \in 1..Len(stream) : /\ stream[i][1] \in Nat /\ stream[i][2] \in Nat
                                        /\ stream[i] = <<stream[i][1], stream[i][2]>>
           /\ stream # <<>> <=> Len(stream) > 0
           /\ buf \in Seq(Bytes) /\ Len(buf) \in Nat /\ (buf # <<>> <=> Len(buf) > 0)
           /\ received \in Seq(Seq(Bytes)) /\ Len(received) \in Nat /\ Cur \in Nat
           /\ need \in Nat /\ Before \in Nat /\ HeaderSize \in Nat /\ HeaderSize > 0
<1>1. sent \in Seq(Nat) /\ stream \in Seq(Bytes) /\ buf \in Seq(Bytes)
      /\ received \in Seq(Seq(Bytes)) /\ need \in Nat
  BY DEF TypeOK
<1>2. HeaderSize \in Nat /\ HeaderSize > 0
  BY ConstantsAssumption
<1>3. \A n \in 1..Len(sent) : sent[n] \in Nat
  BY <1>1, ElementOfSeq
<1>4. \A i \in 1..Len(stream) : stream[i] \in Bytes
  BY <1>1, ElementOfSeq
<1>5. \A i \in 1..Len(stream) : /\ stream[i][1] \in Nat /\ stream[i][2] \in Nat
                                /\ stream[i] = <<stream[i][1], stream[i][2]>>
  BY <1>4 DEF Bytes
<1>6. Len(sent) \in Nat /\ Len(stream) \in Nat /\ Len(buf) \in Nat /\ Len(received) \in Nat
  BY <1>1, LenProperties
<1>7. (stream # <<>> <=> Len(stream) > 0) /\ (buf # <<>> <=> Len(buf) > 0)
  BY <1>1, <1>6, EmptySeq
<1>8. \A n \in 1..Len(sent) : sent[n] \in Nat /\ FrameLen(n) \in Nat
                              /\ FrameLen(n) >= HeaderSize
  BY <1>2, <1>3 DEF FrameLen
<1>9. Cur \in Nat /\ Before \in Nat
  BY <1>2, <1>6 DEF Cur, Before
<1> QED
  BY <1>1, <1>2, <1>5, <1>6, <1>7, <1>8, <1>9

\* A piece of the stream, from its start or to its end, keeps its order.
LEMMA PieceOk ==
    ASSUME TypeOK, StreamOk, NEW m \in 0..Len(stream), NEW n \in m..Len(stream),
           stream' = SubSeq(stream, m + 1, n), sent' = sent,
           ~cut' => ~cut /\ n = Len(stream)
    PROVE  /\ stream' \in Seq(Bytes) /\ Len(stream') = n - m
           /\ \A i \in 1..(n - m) : stream'[i] = stream[m + i]
           /\ StreamOk'
<1> USE DEF StreamOk
<1>1. /\ Len(stream) \in Nat /\ stream \in Seq(Bytes) /\ Len(sent) \in Nat
      /\ m \in Nat /\ n \in Nat /\ m <= n /\ n <= Len(stream)
  BY Facts
<1>2. /\ stream' \in Seq(Bytes) /\ Len(stream') = n - m
      /\ \A i \in 1..(n - m) : stream'[i] = stream[m + i]
  <2>1. m + 1 \in 1..(Len(stream) + 1) /\ n \in m..Len(stream)
    BY <1>1
  <2>2. \A i \in (m + 1)..n : i \in 1..Len(stream) /\ stream[i] \in Bytes
    BY <1>1, ElementOfSeq
  <2>3. n - (m + 1) + 1 = n - m /\ \A i \in 1..(n - m) : m + 1 + i - 1 = m + i
    BY <1>1
  <2> QED
    BY <1>1, <2>1, <2>2, <2>3, SubSeqProperties
<1>3. \A i \in 1..(n - m) : m + i \in 1..Len(stream)
  BY <1>1
<1>4. Capped' /\ Sized'
  BY <1>2, <1>3 DEF Capped, Sized, FrameLen
<1>5. Running'
  <2> SUFFICES ASSUME NEW i \in 1..(n - m), NEW d \in Nat, i + d <= n - m,
                      stream'[i][2] + d <= FrameLen(stream'[i][1])
               PROVE  stream'[i + d] = <<stream'[i][1], stream'[i][2] + d>>
    BY <1>2 DEF Running, FrameLen
  <2>1. /\ m + i \in 1..Len(stream) /\ m + i + d <= Len(stream) /\ i + d \in 1..(n - m)
        /\ m + (i + d) = (m + i) + d
    BY <1>1
  <2> QED
    BY <1>2, <2>1 DEF Running
<1>6. Following'
  <2> SUFFICES ASSUME NEW i \in 1..(n - m), i < n - m,
                      stream'[i][2] = FrameLen(stream'[i][1])
               PROVE  stream'[i + 1] = <<stream'[i][1] + 1, 1>>
    BY <1>2 DEF Following, FrameLen
  <2>1. /\ m + i \in 1..Len(stream) /\ m + i < Len(stream) /\ i + 1 \in 1..(n - m)
        /\ m + (i + 1) = (m + i) + 1
    BY <1>1
  <2> QED
    BY <1>2, <2>1 DEF Following
<1>7. Complete'
  <2> SUFFICES ASSUME ~cut', stream' # <<>>
               PROVE  stream'[n - m] = <<Len(sent), FrameLen(Len(sent))>>
    BY <1>2 DEF Complete, FrameLen
  <2>1. n - m # 0
    BY <1>2, EmptySeq
  <2>2. n - m \in 1..(n - m) /\ m + (n - m) = Len(stream) /\ stream # <<>>
    BY <1>1, <2>1, Facts
  <2> QED
    BY <1>2, <2>2 DEF Complete
<1> QED
  BY <1>2, <1>4, <1>5, <1>6, <1>7

-----------------------------------------------------------------------------
(* The sender.                                                             *)

LEMMA SendIInv == ASSUME IInv, NEW len \in Lengths, Send(len) PROVE IInv'
<1> USE DEF IInv, StreamOk
<1> DEFINE N == Len(sent) + 1
           L == Len(stream)
           F == HeaderSize + len
<1>1. /\ ~closed /\ ~cut /\ len <= MaxFrame /\ len \in Nat
      /\ sent' = Append(sent, len) /\ stream' = stream \o FrameBytes(N, len)
      /\ UNCHANGED <<closed, cut, stage, need, buf, received, outcome>>
  BY ConstantsAssumption DEF Send, receiver, Ended
<1>2. F \in Nat /\ F >= HeaderSize /\ F > 0 /\ N \in Nat /\ L \in Nat /\ HeaderSize \in Nat
  BY <1>1, Facts
<1>3. /\ sent' \in Seq(Nat) /\ Len(sent') = N /\ sent'[N] = len
      /\ \A n \in 1..Len(sent) : sent'[n] = sent[n]
  BY <1>1, Facts, AppendProperties
<1> HIDE DEF F
<1>4. /\ FrameBytes(N, len) \in Seq(Bytes) /\ Len(FrameBytes(N, len)) = F
      /\ \A j \in 1..F : FrameBytes(N, len)[j] = <<N, j>>
  <2>1. FrameBytes(N, len) = [j \in 1..F |-> <<N, j>>]
    BY DEF FrameBytes, F
  <2>2. \A j \in 1..F : <<N, j>> \in Bytes
    BY <1>2 DEF Bytes
  <2> QED
    BY <1>2, <2>1, <2>2
<1>5. /\ stream' \in Seq(Bytes) /\ Len(stream') = L + F
      /\ \A i \in 1..(L + F) : stream'[i] = IF i <= L THEN stream[i] ELSE <<N, i - L>>
  <2> DEFINE t == FrameBytes(N, len)
  <2>1. t \in Seq(Bytes) /\ Len(t) = F /\ \A j \in 1..F : t[j] = <<N, j>>
    BY <1>4
  <2> HIDE DEF t
  <2>2. /\ stream \o t \in Seq(Bytes) /\ Len(stream \o t) = L + Len(t)
        /\ \A i \in 1..(L + Len(t)) : (stream \o t)[i] = IF i <= L THEN stream[i] ELSE t[i - L]
    BY <2>1, Facts, ConcatProperties
  <2>3. \A i \in 1..(L + F) : ~(i <= L) => i - L \in 1..F
    BY <1>2
  <2> QED
    BY <1>1, <2>1, <2>2, <2>3 DEF t
<1>6. stream' # <<>> /\ L + F > 0
  BY <1>2, <1>5, EmptySeq
<1>7. \A i \in 1..L : stream'[i] = stream[i] /\ i \in 1..(L + F)
  BY <1>2, <1>5
<1>8. \A i \in 1..(L + F) : i \notin 1..L => stream'[i] = <<N, i - L>> /\ i - L \in 1..F
  BY <1>2, <1>5
<1>9. /\ \A n \in 1..Len(sent) : /\ HeaderSize + sent'[n] = FrameLen(n)
                                 /\ n # N /\ n \in 1..N /\ FrameLen(n) \in Nat
      /\ HeaderSize + sent'[N] = F /\ N \in 1..N
  <2>1. \A n \in 1..Len(sent) : n # N /\ n \in 1..N /\ FrameLen(n) \in Nat
    BY <1>2, Facts
  <2>2. \A n \in 1..Len(sent) : HeaderSize + sent'[n] = FrameLen(n)
    BY <1>3 DEF FrameLen
  <2>3. HeaderSize + sent'[N] = F
    BY <1>3 DEF F
  <2>4. N \in 1..N
    BY <1>2, Facts
  <2> QED
    BY <2>1, <2>2, <2>3, <2>4
<1>10. Capped'
  BY <1>1, <1>2, <1>3 DEF Capped
<1>11. Sized'
  <2> SUFFICES ASSUME NEW i \in 1..(L + F)
               PROVE  /\ stream'[i][1] \in 1..N
                      /\ stream'[i][2] \in 1..(HeaderSize + sent'[stream'[i][1]])
    BY <1>3, <1>5 DEF Sized, FrameLen
  <2>1. CASE i \in 1..L
    <3>1. stream[i][1] \in 1..Len(sent) /\ stream[i][2] \in 1..FrameLen(stream[i][1])
      BY <2>1 DEF Sized
    <3> QED
      BY <1>7, <1>9, <2>1, <3>1
  <2>2. CASE i \notin 1..L
    BY <1>2, <1>8, <1>9, <2>2
  <2> QED
    BY <2>1, <2>2
\* The frame that a byte of the old stream belongs to ends in the old stream.
<1>12. ASSUME NEW i \in 1..L, NEW d \in Nat, i + d > L,
              stream[i][2] + d <= FrameLen(stream[i][1])
       PROVE  FALSE
  <2> DEFINE e == L - i
  <2>1. e \in Nat /\ e < d /\ i + e = L /\ stream[i][2] \in Nat /\ d \in Nat
    BY <1>2, <1>12, Facts
  <2>2. FrameLen(stream[i][1]) \in Nat
    BY Facts DEF Sized
  <2>3. stream[i][2] + e < FrameLen(stream[i][1])
    BY <1>12, <2>1, <2>2
  <2>4. stream[L] = <<stream[i][1], stream[i][2] + e>>
    BY <2>1, <2>2, <2>3 DEF Running
  <2>5. stream[L] = <<Len(sent), FrameLen(Len(sent))>>
    <3>1. stream # <<>>
      BY <1>2, Facts
    <3> QED
      BY <1>1, <3>1 DEF Complete
  <2> HIDE DEF e
  <2>6. stream[i][1] = Len(sent) /\ stream[i][2] + e = FrameLen(Len(sent))
    BY <2>4, <2>5
  <2>7. stream[i][2] + e = FrameLen(stream[i][1])
    BY <2>6
  <2> QED
    BY <2>1, <2>2, <2>3, <2>7
<1>13. Running'
  <2> SUFFICES ASSUME NEW i \in 1..(L + F), NEW d \in Nat, i + d <= L + F,
                      stream'[i][2] + d <= HeaderSize + sent'[stream'[i][1]]
               PROVE  stream'[i + d] = <<stream'[i][1], stream'[i][2] + d>>
    BY <1>5 DEF Running, FrameLen
  <2>1. CASE i \in 1..L
    <3>1. stream[i][1] \in 1..Len(sent) /\ stream'[i] = stream[i]
      BY <1>7, <2>1 DEF Sized
    <3>2. stream[i][2] + d <= FrameLen(stream[i][1])
      BY <1>9, <3>1
    <3>3. ~(i + d > L)
      BY <1>12, <2>1, <3>2
    <3>4. i + d \in 1..L /\ i + d <= L
      BY <1>2, <2>1, <3>3
    <3>5. stream[i + d] = <<stream[i][1], stream[i][2] + d>>
      BY <2>1, <3>2, <3>4 DEF Running
    <3> QED
      BY <1>7, <3>1, <3>4, <3>5
  <2>2. CASE i \notin 1..L
    <3>1. i + d \in 1..(L + F) /\ i + d \notin 1..L /\ i + d - L = i - L + d
      BY <1>2, <2>2
    <3> QED
      BY <1>8, <2>2, <3>1
  <2> QED
    BY <2>1, <2>2
<1>14. Following'
  <2> SUFFICES ASSUME NEW i \in 1..(L + F), i < L + F,
                      stream'[i][2] = HeaderSize + sent'[stream'[i][1]]
               PROVE  stream'[i + 1] = <<stream'[i][1] + 1, 1>>
    BY <1>5 DEF Following, FrameLen
  <2>1. CASE i \in 1..L
    <3>1. stream[i][1] \in 1..Len(sent) /\ stream'[i] = stream[i]
      BY <1>7, <2>1 DEF Sized
    <3>2. stream[i][2] = FrameLen(stream[i][1])
      BY <1>9, <3>1
    <3>3. CASE i < L
      <4>1. i + 1 \in 1..L
        BY <1>2, <3>3
      <4> QED
        BY <1>7, <2>1, <3>1, <3>2, <3>3, <4>1 DEF Following
    <3>4. CASE ~(i < L)
      <4>1. i = L /\ i + 1 \in 1..(L + F) /\ i + 1 \notin 1..L /\ i + 1 - L = 1
        BY <1>2, <2>1, <3>4
      <4>2. stream[L][1] = Len(sent)
        BY <1>1, <1>2, <4>1, <2>1, Facts DEF Complete
      <4> QED
        BY <1>8, <3>1, <4>1, <4>2
    <3> QED
      BY <3>3, <3>4
  <2>2. CASE i \notin 1..L
    <3>1. stream'[i] = <<N, i - L>> /\ i - L \in 1..F
      BY <1>8, <2>2
    <3>2. i - L = F
      BY <1>9, <3>1
    <3> QED
      BY <1>2, <3>2
  <2> QED
    BY <2>1, <2>2
<1>15. Complete'
  <2> DEFINE z == L + F
  <2>1. z \in 1..(L + F) /\ z \notin 1..L /\ z - L = F /\ z = Len(stream')
    BY <1>2, <1>5
  <2> HIDE DEF z
  <2>2. stream'[z] = <<N, F>>
    BY <1>8, <2>1
  <2> QED
    BY <1>3, <1>9, <2>1, <2>2 DEF Complete, FrameLen
<1>16. Place'
  <2>1. \A n \in 1..Len(received) : n \in 1..Len(sent)
    BY Facts DEF Place
  <2>2. Cur' = Cur /\ Before' = Before /\ buf' = buf /\ need' = need /\ stage' = stage
        /\ received' = received
    BY <1>1 DEF Cur, Before
  <2>3. Cur <= Len(sent) => Cur <= N /\ sent'[Cur] = sent[Cur]
    <3>1. Cur \in Nat /\ Cur >= 1
      BY Facts DEF Cur
    <3> QED
      BY <1>2, <1>3, <3>1, Facts
  <2>4. Len(received) <= N
    BY <1>2, Facts DEF Place
  <2>5. \A n \in 1..Len(received) : received[n] = PayloadBytes(n, sent'[n])
    BY <1>3, <2>1 DEF Place
  <2> QED
    BY <1>3, <2>2, <2>3, <2>4, <2>5 DEF Place
<1>17. Meet'
  <2>1. Cur' = Cur /\ Before' = Before /\ buf' = buf
    BY <1>1 DEF Cur, Before
  <2> SUFFICES stream'[1] = IF Cur <= N /\ Before + Len(buf) = HeaderSize + sent'[Cur]
                            THEN <<Cur + 1, 1>> ELSE <<Cur, Before + Len(buf) + 1>>
    BY <1>3, <1>6, <2>1 DEF Meet, FrameLen
  <2>2. Cur \in Nat /\ Cur >= 1 /\ Before + Len(buf) \in Nat
    BY Facts DEF Cur
  <2>3. CASE stream # <<>>
    <3>1. stream'[1] = stream[1] /\ stream[1][1] \in 1..Len(sent)
      BY <1>7, <2>3, Facts DEF Sized
    <3>2. Cur <= Len(sent)
      BY <1>2, <2>2, <2>3, <3>1, Facts DEF Meet
    <3>3. Cur \in 1..Len(sent) /\ Cur <= N
      BY <1>2, <2>2, <3>2
    <3> QED
      BY <1>9, <2>3, <3>1, <3>2, <3>3 DEF Meet
  <2>4. CASE stream = <<>>
    <3>1. stream'[1] = <<N, 1>>
      BY <1>2, <1>8, <2>4, Facts
    <3>2. CASE Cur = Len(sent) + 1 /\ Before + Len(buf) = 0
      BY <1>2, <1>9, <3>1, <3>2
    <3>3. CASE Cur = Len(sent) /\ Before + Len(buf) = FrameLen(Cur)
      <4>1. Cur \in 1..Len(sent) /\ Cur <= N
        BY <1>2, <2>2, <3>3
      <4> QED
        BY <1>9, <3>1, <3>3, <4>1
    <3> QED
      BY <1>1, <2>4, <3>2, <3>3 DEF Meet
  <2> QED
    BY <2>3, <2>4
<1>18. Ended'
  BY <1>1, <1>2, <1>3, Facts DEF Ended, Cur
<1>19. TypeOK'
  BY <1>1, <1>3, <1>5 DEF TypeOK
<1> QED
  BY <1>10, <1>11, <1>13, <1>14, <1>15, <1>16, <1>17, <1>18, <1>19

LEMMA CloseIInv == ASSUME IInv, Close \/ UNCHANGED vars PROVE IInv'
<1> USE DEF IInv
<1>1. UNCHANGED <<sent, stream, cut, stage, need, buf, received, outcome>>
      /\ closed' \in BOOLEAN /\ (closed => closed')
  BY DEF Close, vars, receiver, TypeOK
<1> QED
  BY <1>1 DEF TypeOK, StreamOk, Capped, Sized, Running, Following, Complete, Place, Meet,
     Ended, FrameLen, Cur, Before

LEMMA CutIInv == ASSUME IInv, Cut PROVE IInv'
<1> USE DEF IInv
<1>1. /\ ~closed /\ closed' = TRUE /\ cut' = TRUE
      /\ UNCHANGED <<sent, stage, need, buf, received, outcome>>
  BY DEF Cut, receiver
<1>2. PICK n \in 0..Len(stream) : stream' = SubSeq(stream, 1, n)
  BY DEF Cut
<1>3. /\ 0 \in 0..Len(stream) /\ n \in 0..Len(stream)
      /\ stream' = SubSeq(stream, 0 + 1, n) /\ Len(stream) \in Nat /\ n \in Nat
  BY <1>2, Facts
<1>4. /\ stream' \in Seq(Bytes) /\ Len(stream') = n - 0
      /\ \A i \in 1..(n - 0) : stream'[i] = stream[0 + i]
      /\ StreamOk'
  BY <1>1, <1>3, PieceOk
<1>5. Len(stream') = n /\ \A i \in 1..n : stream'[i] = stream[i]
  BY <1>3, <1>4
<1>6. TypeOK'
  <2>1. closed' \in BOOLEAN /\ cut' \in BOOLEAN
    BY <1>1, Zenon
  <2> QED
    BY <1>1, <1>4, <2>1 DEF TypeOK
<1>7. Place' /\ Ended'
  BY <1>1 DEF Place, Ended, Cur, Before
<1>8. Meet'
  <2>1. stream' # <<>> => stream # <<>> /\ stream'[1] = stream[1]
    <3> SUFFICES ASSUME stream' # <<>> PROVE stream # <<>> /\ stream'[1] = stream[1]
      OBVIOUS
    <3>1. n # 0
      BY <1>4, <1>5, EmptySeq
    <3> QED
      BY <1>3, <1>5, <3>1, Facts
  <2> QED
    BY <1>1, <2>1 DEF Meet, Cur, Before, FrameLen
<1> QED
  BY <1>4, <1>6, <1>7, <1>8

-----------------------------------------------------------------------------
(* The receiver.                                                           *)

\* What recv gives is the next bytes of the frame that is being read.
LEMMA NextBytes ==
    ASSUME IInv, Len(buf) < need, NEW k \in 1..Len(stream), k <= need - Len(buf)
    PROVE  /\ Cur \in 1..Len(sent)
           /\ Before + Len(buf) + k <= FrameLen(Cur)
           /\ \A i \in 1..k : stream[i] = <<Cur, Before + Len(buf) + i>>
<1> USE DEF IInv
<1> DEFINE at == Before + Len(buf)
<1>1. /\ at \in Nat /\ k \in Nat /\ k >= 1 /\ need \in Nat /\ Len(buf) \in Nat
      /\ Cur \in Nat /\ Cur >= 1 /\ Before \in Nat /\ Len(stream) \in Nat /\ Len(sent) \in Nat
      /\ at + k <= Before + need
  BY Facts DEF Cur
<1>2. 1 \in 1..Len(stream) /\ stream # <<>>
  BY <1>1, Facts
<1>3. stage \in {"length", "payload"}
  BY DEF TypeOK
<1>4. Cur \in 1..Len(sent) => Before + need <= FrameLen(Cur)
  <2>1. CASE stage = "length"
    BY <2>1, Facts DEF Before, Place
  <2>2. CASE stage = "payload"
    <3>1. need = sent[Cur] /\ Before = HeaderSize
      BY <2>2 DEF Before, Place
    <3>2. HeaderSize \in Nat /\ need \in Nat
      BY Facts
    <3> QED
      BY <3>1, <3>2 DEF FrameLen
  <2> QED
    BY <1>3, <2>1, <2>2
<1>5. Cur \in 1..Len(sent) => at < FrameLen(Cur) /\ FrameLen(Cur) \in Nat
  BY <1>1, <1>4, Facts
<1> HIDE DEF at
<1>6. stream[1] = <<Cur, at + 1>>
  <2>1. Cur <= Len(sent) => Cur \in 1..Len(sent)
    BY <1>1
  <2>2. ~(Cur <= Len(sent) /\ Before + Len(buf) = FrameLen(Cur))
    BY <1>1, <1>5, <2>1 DEF at
  <2> QED
    BY <1>2, <2>2 DEF Meet, at
<1>7. Cur \in 1..Len(sent)
  BY <1>2, <1>6 DEF StreamOk, Sized
<1>8. ASSUME NEW i \in 1..k PROVE stream[i] = <<Cur, at + i>>
  <2> DEFINE d == i - 1
  <2>1. d \in Nat /\ 1 + d = i /\ 1 + d <= Len(stream) /\ at + 1 + d = at + i
        /\ at + 1 + d <= FrameLen(Cur)
    BY <1>1, <1>4, <1>5, <1>7
  <2> HIDE DEF d
  <2>2. stream[1][1] = Cur /\ stream[1][2] = at + 1
    BY <1>6
  <2>3. stream[1 + d] = <<Cur, at + 1 + d>>
    BY <1>2, <2>1, <2>2 DEF StreamOk, Running
  <2> QED
    BY <2>1, <2>3
<1>9. at + k <= FrameLen(Cur)
  BY <1>1, <1>4, <1>5, <1>7
<1> QED
  BY <1>7, <1>8, <1>9 DEF at

LEMMA RecvIInv == ASSUME IInv, Recv PROVE IInv'
<1> USE DEF IInv
<1>1. /\ Len(buf) < need
      /\ UNCHANGED <<sent, closed, cut, stage, need, received, outcome>>
      /\ outcome = "reading"
  BY DEF Recv
<1>2. PICK k \in 1..Len(stream) :
          /\ k <= need - Len(buf)
          /\ buf' = buf \o SubSeq(stream, 1, k)
          /\ stream' = SubSeq(stream, k + 1, Len(stream))
  BY DEF Recv, AskFor, Accumulated
<1> DEFINE L == Len(stream)
           at == Before + Len(buf)
           q == SubSeq(stream, 1, k)
<1>3. /\ Cur \in 1..Len(sent) /\ at + k <= FrameLen(Cur)
      /\ \A i \in 1..k : stream[i] = <<Cur, at + i>>
  BY <1>1, <1>2, NextBytes
<1>4. /\ L \in Nat /\ k \in Nat /\ k >= 1 /\ k <= L /\ at \in Nat /\ Len(buf) \in Nat
      /\ Before \in Nat /\ need \in Nat /\ Len(sent) \in Nat /\ FrameLen(Cur) \in Nat
      /\ Cur \in Nat
  <2>1. /\ Len(stream) \in Nat /\ Len(buf) \in Nat /\ Before \in Nat /\ need \in Nat
        /\ Len(sent) \in Nat /\ Cur \in Nat
    BY Facts
  <2>2. FrameLen(Cur) \in Nat
    BY <1>3, Facts
  <2> QED
    BY <1>2, <2>1, <2>2
<1>5. /\ q \in Seq(Bytes) /\ Len(q) = k /\ \A i \in 1..k : q[i] = stream[i]
  <2>1. \A i \in 1..k : i \in 1..Len(stream) /\ stream[i] \in Bytes
    BY <1>4, Facts, ElementOfSeq
  <2>2. k - 1 + 1 = k /\ \A i \in 1..k : 1 + i - 1 = i
    BY <1>4
  <2> QED
    BY <1>4, <2>1, <2>2, SubSeqProperties
<1>6. k \in 0..Len(stream) /\ Len(stream) \in k..Len(stream)
  BY <1>4
<1>7. /\ stream' \in Seq(Bytes) /\ Len(stream') = L - k
      /\ \A i \in 1..(L - k) : stream'[i] = stream[k + i]
      /\ StreamOk'
  BY <1>1, <1>2, <1>6, PieceOk
<1> HIDE DEF q
<1>8. /\ buf' \in Seq(Bytes) /\ Len(buf') = Len(buf) + k
      /\ \A i \in 1..(Len(buf) + k) :
            buf'[i] = IF i <= Len(buf) THEN buf[i] ELSE q[i - Len(buf)]
  <2>1. /\ buf \o q \in Seq(Bytes) /\ Len(buf \o q) = Len(buf) + Len(q)
        /\ \A i \in 1..(Len(buf) + Len(q)) :
              (buf \o q)[i] = IF i <= Len(buf) THEN buf[i] ELSE q[i - Len(buf)]
    BY <1>5, Facts, ConcatProperties
  <2> QED
    BY <1>2, <1>5, <2>1 DEF q
<1>9. Cur' = Cur /\ Before' = Before /\ FrameLen(Cur)' = FrameLen(Cur)
  BY <1>1 DEF Cur, Before, FrameLen
<1>10. \A i \in 1..(Len(buf) + k) : buf'[i] = <<Cur, Before + i>>
  <2> SUFFICES ASSUME NEW i \in 1..(Len(buf) + k) PROVE buf'[i] = <<Cur, Before + i>>
    OBVIOUS
  <2>1. CASE i <= Len(buf)
    BY <1>4, <1>8, <2>1 DEF Place
  <2>2. CASE ~(i <= Len(buf))
    <3>1. i - Len(buf) \in 1..k /\ at + (i - Len(buf)) = Before + i
      BY <1>4, <2>2
    <3> QED
      BY <1>3, <1>5, <1>8, <2>2, <3>1
  <2> QED
    BY <2>1, <2>2
<1>11. TypeOK'
  <2>1. Len(buf') <= need
    BY <1>2, <1>4, <1>8
  <2> QED
    BY <1>1, <1>7, <1>8, <2>1 DEF TypeOK
<1>12. Place'
  BY <1>1, <1>3, <1>4, <1>8, <1>9, <1>10 DEF Place
<1>13. Ended'
  BY <1>1, <1>9 DEF Ended
<1>14. Meet'
  <2> DEFINE to == at + k
  <2>1. /\ Before + Len(buf') = to /\ to \in Nat /\ to <= FrameLen(Cur)
        /\ stream[k] = <<Cur, to>> /\ k \in 1..Len(stream)
    BY <1>3, <1>4, <1>8
  <2> HIDE DEF to
  <2>2. ASSUME stream' # <<>>
        PROVE  stream'[1] = IF to = FrameLen(Cur) THEN <<Cur + 1, 1>> ELSE <<Cur, to + 1>>
    <3>1. L - k # 0
      BY <1>7, <2>2, EmptySeq
    <3>2. k < L /\ stream'[1] = stream[k + 1]
      <4>1. k < L /\ 1 \in 1..(L - k)
        BY <1>4, <3>1
      <4> QED
        BY <1>7, <4>1
    <3>3. CASE to = FrameLen(Cur)
      BY <2>1, <3>2, <3>3 DEF StreamOk, Following
    <3>4. CASE to # FrameLen(Cur)
      <4>1. 1 \in Nat /\ k + 1 <= Len(stream) /\ to + 1 <= FrameLen(Cur)
        BY <1>4, <2>1, <3>2, <3>4
      <4>2. stream[k][1] = Cur /\ stream[k][2] = to
        BY <2>1
      <4> QED
        BY <2>1, <3>2, <3>4, <4>1, <4>2 DEF StreamOk, Running
    <3> QED
      BY <3>3, <3>4
  <2>3. ASSUME ~cut, stream' = <<>>
        PROVE  Cur = Len(sent) /\ to = FrameLen(Cur)
    <3>1. L - k = 0
      BY <1>7, <2>3, EmptySeq
    <3>2. k = Len(stream) /\ stream # <<>>
      BY <1>4, <3>1, Facts
    <3>3. <<Cur, to>> = <<Len(sent), FrameLen(Len(sent))>>
      BY <2>1, <2>3, <3>2 DEF StreamOk, Complete
    <3> QED
      BY <3>3
  <2>4. Cur <= Len(sent)
    BY <1>3, <1>4
  <2> QED
    BY <1>1, <1>9, <2>1, <2>2, <2>3, <2>4 DEF Meet
<1> QED
  BY <1>7, <1>11, <1>12, <1>13, <1>14

\* A complete header is the length of the frame it belongs to.
LEMMA Header ==
    ASSUME IInv, stage = "length", Len(buf) >= need
    PROVE  Cur \in 1..Len(sent) /\ Len(buf) = HeaderSize /\ Decoded(buf) = sent[Cur]
<1> USE DEF IInv
<1>1. /\ Len(buf) = HeaderSize /\ HeaderSize \in Nat /\ HeaderSize > 0 /\ buf # <<>>
      /\ \A i \in 1..HeaderSize : buf[i] = <<Cur, i>>
  <2>1. need = HeaderSize /\ Before = 0 /\ Len(buf) <= need
    BY DEF Place, Before, TypeOK
  <2>2. Len(buf) = HeaderSize /\ buf # <<>>
    BY <2>1, Facts
  <2>3. \A i \in 1..Len(buf) : buf[i] = <<Cur, i>>
    BY <2>1, Facts DEF Place
  <2> QED
    BY <2>2, <2>3, Facts
<1>2. Cur \in 1..Len(sent)
  <2>1. Cur <= Len(sent)
    BY <1>1 DEF Place
  <2> QED
    BY <2>1, Facts DEF Cur
<1>3. buf[1] = <<Cur, 1>>
  BY <1>1
<1>4. buf = [j \in 1..HeaderSize |-> <<Cur, j>>]
  <2> DEFINE h == [j \in 1..HeaderSize |-> <<Cur, j>>]
  <2>1. \A j \in 1..HeaderSize : <<Cur, j>> \in Bytes
    BY <1>1, Facts DEF Bytes
  <2>2. h \in Seq(Bytes) /\ Len(h) = HeaderSize /\ \A j \in 1..HeaderSize : h[j] = <<Cur, j>>
    BY <1>1, <2>1
  <2> HIDE DEF h
  <2>3. buf \in Seq(Bytes)
    BY Facts
  <2>4. buf = h
    BY <1>1, <2>2, <2>3, SeqEqual
  <2> QED
    BY <2>4 DEF h
<1>5. Decoded(buf) = sent[Cur]
  <2>1. buf[1][1] = Cur
    BY <1>3
  <2> QED
    BY <1>4, <2>1 DEF Decoded
<1> QED
  BY <1>1, <1>2, <1>5

LEMMA LengthReadIInv == ASSUME IInv, LengthRead PROVE IInv'
<1> USE DEF IInv
<1>1. /\ Cur \in 1..Len(sent) /\ Len(buf) = HeaderSize /\ Decoded(buf) = sent[Cur]
  BY Header DEF LengthRead
<1>2. sent[Cur] <= MaxFrame /\ sent[Cur] \in Nat /\ Cur <= Len(sent)
  BY <1>1, Facts DEF StreamOk, Capped
<1>3. /\ stage = "length" /\ stage' = "payload" /\ need' = sent[Cur] /\ buf' = <<>>
      /\ UNCHANGED <<sent, stream, closed, cut, received, outcome>>
      /\ outcome = "reading"
  BY <1>1, <1>2 DEF LengthRead
<1>4. Len(buf') = 0 /\ buf' \in Seq(Bytes)
  BY <1>3, EmptySeq
<1>5. Cur' = Cur /\ Before = 0 /\ Before' = HeaderSize
  BY <1>3 DEF Cur, Before
<1>6. TypeOK'
  BY <1>2, <1>3, <1>4 DEF TypeOK
<1>7. StreamOk'
  BY <1>3 DEF StreamOk, Capped, Sized, Running, Following, Complete, FrameLen
<1>8. Place'
  BY <1>2, <1>3, <1>4, <1>5 DEF Place
<1>9. Meet'
  <2>1. Before' + Len(buf') = Before + Len(buf)
    BY <1>1, <1>4, <1>5, Facts
  <2> QED
    BY <1>3, <1>5, <2>1 DEF Meet, FrameLen
<1>10. Ended'
  BY <1>3 DEF Ended
<1> QED
  BY <1>6, <1>7, <1>8, <1>9, <1>10

LEMMA PayloadReadIInv == ASSUME IInv, PayloadRead PROVE IInv'
<1> USE DEF IInv
<1>1. /\ stage = "payload" /\ outcome = "reading" /\ Len(buf) >= need
      /\ received' = Append(received, buf)
      /\ stage' = "length" /\ need' = HeaderSize /\ buf' = <<>>
      /\ UNCHANGED <<sent, stream, closed, cut, outcome>>
  BY DEF PayloadRead
<1>2. /\ Cur \in 1..Len(sent) /\ need = sent[Cur] /\ Len(buf) = sent[Cur]
      /\ sent[Cur] \in Nat /\ Before = HeaderSize
  <2>1. Cur <= Len(sent) /\ need = sent[Cur] /\ Len(buf) <= need /\ Before = HeaderSize
    BY <1>1 DEF Place, TypeOK, Before
  <2>2. Cur \in 1..Len(sent)
    BY <2>1, Facts DEF Cur
  <2> QED
    BY <1>1, <2>1, <2>2, Facts
<1>3. buf = PayloadBytes(Cur, sent[Cur])
  <2> DEFINE p == PayloadBytes(Cur, sent[Cur])
  <2>0. HeaderSize \in Nat /\ Cur \in Nat /\ sent[Cur] \in Nat /\ buf \in Seq(Bytes)
    BY <1>2, Facts
  <2>2. /\ p \in Seq(Bytes) /\ Len(p) = sent[Cur]
        /\ \A j \in 1..sent[Cur] : p[j] = <<Cur, HeaderSize + j>>
    BY <2>0, PayloadFacts
  <2> HIDE DEF p
  <2>3. \A j \in 1..Len(buf) : buf[j] = <<Cur, HeaderSize + j>>
    BY <1>2 DEF Place
  <2>4. buf = p
    BY <1>2, <2>0, <2>2, <2>3, SeqEqual
  <2> QED
    BY <2>4 DEF p
<1>4. /\ received' \in Seq(Seq(Bytes)) /\ Len(received') = Cur
      /\ \A n \in 1..Len(received) : received'[n] = received[n]
      /\ received'[Cur] = buf
  <2>1. received \in Seq(Seq(Bytes)) /\ buf \in Seq(Bytes)
    BY Facts
  <2> QED
    BY <1>1, <2>1, AppendProperties DEF Cur
<1>5. Cur' = Cur + 1 /\ Before' = 0 /\ Len(buf') = 0 /\ buf' \in Seq(Bytes) /\ Cur \in Nat
  BY <1>1, <1>4, EmptySeq, Facts DEF Cur, Before
<1>6. TypeOK'
  BY <1>1, <1>4, <1>5, ConstantsAssumption DEF TypeOK
<1>7. StreamOk'
  BY <1>1 DEF StreamOk, Capped, Sized, Running, Following, Complete, FrameLen
<1>8. Place'
  <2>1. Len(received') <= Len(sent')
    BY <1>1, <1>2, <1>4, Facts
  <2>2. ASSUME NEW n \in 1..Cur PROVE received'[n] = PayloadBytes(n, sent[n])
    <3>1. n = Cur \/ n \in 1..Len(received)
      BY Facts DEF Cur
    <3> QED
      BY <1>3, <1>4, <3>1 DEF Place
  <2> QED
    BY <1>1, <1>4, <1>5, <2>1, <2>2 DEF Place
<1>9. Meet'
  <2>1. Before + Len(buf) = FrameLen(Cur) /\ Cur <= Len(sent)
    BY <1>2, Facts DEF FrameLen
  <2>2. stream # <<>> => stream[1] = <<Cur + 1, 1>>
    BY <2>1 DEF Meet
  <2>3. Cur + 1 <= Len(sent) => Before' + Len(buf') # FrameLen(Cur + 1)
    <3> SUFFICES ASSUME Cur + 1 <= Len(sent) PROVE FrameLen(Cur + 1) > 0
      BY <1>5
    <3>1. Cur + 1 \in 1..Len(sent)
      BY <1>5, Facts
    <3> QED
      BY <3>1, Facts
  <2>4. ~cut /\ stream = <<>> => Cur = Len(sent)
    BY <1>5, <2>1, Facts DEF Meet
  <2>5. Before' + Len(buf') = 0
    BY <1>5
  <2>6. stream' = stream /\ cut' = cut /\ sent' = sent /\ Cur' = Cur + 1
        /\ FrameLen(Cur)' = FrameLen(Cur + 1)
    BY <1>1, <1>5 DEF FrameLen
  <2> QED
    BY <2>2, <2>3, <2>4, <2>5, <2>6 DEF Meet
<1>10. Ended'
  BY <1>1 DEF Ended
<1> QED
  BY <1>6, <1>7, <1>8, <1>9, <1>10

LEMMA EofIInv == ASSUME IInv, Eof PROVE IInv'
<1> USE DEF IInv
<1>1. /\ UNCHANGED <<sent, stream, closed, cut, stage, need, buf, received>>
      /\ outcome' = IF CleanEof THEN "clean" ELSE "incomplete"
      /\ closed /\ stream = <<>>
  BY DEF Eof
<1>2. TypeOK'
  BY <1>1 DEF TypeOK
<1>3. StreamOk' /\ Place' /\ Meet'
  BY <1>1 DEF StreamOk, Capped, Sized, Running, Following, Complete, FrameLen, Place, Meet,
     Cur, Before
<1>4. Ended'
  <2>1. ~CleanEof => Cur <= Len(sent)
    <3>1. CASE buf # <<>>
      BY <3>1 DEF Place
    <3>2. CASE need # HeaderSize
      BY <3>2 DEF Place, TypeOK
    <3> QED
      BY <3>1, <3>2 DEF CleanEof
  <2> QED
    BY <1>1, <2>1 DEF Ended, CleanEof, Cur
<1> QED
  BY <1>2, <1>3, <1>4

LEMMA Inductive == Spec => []IInv
<1>1. IInv /\ [Next]_vars => IInv'
  BY SendIInv, CloseIInv, CutIInv, RecvIInv, LengthReadIInv, PayloadReadIInv, EofIInv
     DEF Next, Receive
<1> QED
  BY InitIInv, <1>1, PTL DEF Spec

-----------------------------------------------------------------------------

\* recv_frame never reads past its frame, for every header size and length.
THEOREM TypeCorrect == Spec => []TypeOK
<1>1. IInv => TypeOK
  BY DEF IInv
<1> QED
  BY <1>1, Inductive, PTL

\* Whatever pieces recv returns and wherever the connection is cut: the frames
\* that come out are the first ones that went in, and none is refused.
THEOREM InOrder == Spec => []FramesInOrder
<1>1. IInv => FramesInOrder
  BY DEF IInv, Place, Ended, FramesInOrder
<1> QED
  BY <1>1, Inductive, PTL

\* The partial of an IncompleteFrameError is what was read of the frame after
\* the last complete one.
THEOREM Honest == Spec => []PartialIsHonest
<1>1. IInv => PartialIsHonest
  <2> SUFFICES ASSUME IInv, outcome = "incomplete"
               PROVE  /\ Len(received) < Len(sent)
                      /\ buf = SubSeq(FrameBytes(Cur, sent[Cur]), Before + 1, Before + Len(buf))
    BY Zenon DEF PartialIsHonest, Cur, Before
  <2>1. TypeOK
    BY DEF IInv
  <2>2. Cur \in 1..Len(sent) /\ Len(received) < Len(sent)
    <3>1. Cur <= Len(sent)
      BY DEF IInv, Ended
    <3> QED
      BY <2>1, <3>1, Facts DEF Cur
  <2> DEFINE f == FrameBytes(Cur, sent[Cur])
             last == Before + Len(buf)
             s == SubSeq(f, Before + 1, last)
  <2>3. /\ Before \in Nat /\ Len(buf) \in Nat /\ Len(buf) <= need /\ sent[Cur] \in Nat
        /\ HeaderSize \in Nat /\ Cur \in Nat /\ need \in Nat
    BY <2>1, <2>2, Facts DEF TypeOK
  <2>4. last <= HeaderSize + sent[Cur]
    <3>1. CASE stage = "length"
      BY <2>3, <3>1 DEF IInv, Place, Before
    <3>2. CASE stage = "payload"
      BY <2>3, <3>2 DEF IInv, Place, Before
    <3> QED
      BY <2>1, <3>1, <3>2 DEF TypeOK
  <2>5. \A j \in 1..(HeaderSize + sent[Cur]) : f[j] = <<Cur, j>> /\ f[j] \in Bytes
    <3>1. \A j \in 1..(HeaderSize + sent[Cur]) : f[j] = <<Cur, j>>
      BY DEF FrameBytes
    <3>2. \A j \in 1..(HeaderSize + sent[Cur]) : <<Cur, j>> \in Bytes
      BY <2>3 DEF Bytes
    <3> QED
      BY <3>1, <3>2
  <2> HIDE DEF f
  <2>6. s \in Seq(Bytes) /\ Len(s) = Len(buf) /\ \A i \in 1..Len(buf) : s[i] = f[Before + i]
    <3>1. \A j \in (Before + 1)..last : j \in 1..(HeaderSize + sent[Cur])
      BY <2>3, <2>4
    <3>2. /\ Before + 1 \in Int /\ last \in Int /\ last - (Before + 1) + 1 = Len(buf)
          /\ (~(Before + 1 <= last) => Len(buf) = 0)
          /\ \A i \in 1..Len(buf) : Before + 1 + i - 1 = Before + i
      BY <2>3
    <3>3. \A j \in (Before + 1)..last : f[j] \in Bytes
      BY <2>5, <3>1
    <3> HIDE DEF last
    <3> QED
      BY <3>2, <3>3, SubSeqProperties
  <2>7. \A i \in 1..Len(buf) : buf[i] = s[i]
    <3> SUFFICES ASSUME NEW i \in 1..Len(buf) PROVE buf[i] = s[i]
      OBVIOUS
    <3>1. Before + i \in 1..(HeaderSize + sent[Cur])
      BY <2>3, <2>4
    <3> QED
      BY <2>5, <2>6, <3>1 DEF IInv, Place
  <2> HIDE DEF s
  <2>8. buf = s
    BY <2>1, <2>6, <2>7, Facts, SeqEqual
  <2> QED
    BY <2>2, <2>8 DEF s, f, last
<1> QED
  BY <1>1, Inductive, PTL

\* For every header size and all payload lengths, those of a header too: after a clean
\* end everything that was sent has been yielded, unless the connection was lost, and
\* then the test at framing.py:72 can have swallowed one header, of a frame whose
\* payload is as long as a header, and no payload byte.
THEOREM CleanEnd == Spec => []CleanHidesOneHeader
<1>1. IInv => CleanHidesOneHeader
  <2> SUFFICES ASSUME IInv, outcome = "clean"
               PROVE  /\ buf = <<>>
                      /\ ~cut => Len(received) = Len(sent)
                      /\ stage = "payload" => /\ Len(received) < Len(sent)
                                              /\ sent[Len(received) + 1] = HeaderSize
    BY DEF CleanHidesOneHeader
  <2>1. buf = <<>> /\ need = HeaderSize /\ stream = <<>> /\ TypeOK /\ Len(buf) = 0
    BY EmptySeq DEF IInv, Ended
  <2>2. stage = "payload" => Cur \in 1..Len(sent) /\ sent[Cur] = HeaderSize
    BY <2>1, Facts DEF IInv, Place, Cur
  <2>3. ASSUME ~cut PROVE Cur = Len(sent) + 1
    <3> SUFFICES ASSUME Cur = Len(sent), Before + Len(buf) = FrameLen(Cur) PROVE FALSE
      BY <2>1, <2>3 DEF IInv, Meet
    <3>1. Cur \in 1..Len(sent) /\ HeaderSize \in Nat /\ HeaderSize > 0 /\ sent[Cur] \in Nat
      <4>1. Cur \in 1..Len(sent)
        BY <2>1, Facts DEF Cur
      <4> QED
        BY <2>1, <4>1, Facts
    <3>2. CASE stage = "length"
      BY <2>1, <3>1, <3>2 DEF Before, FrameLen
    <3>3. CASE stage = "payload"
      BY <2>1, <2>2, <3>1, <3>3 DEF Before, FrameLen
    <3> QED
      BY <2>1, <3>2, <3>3 DEF TypeOK
  <2> QED
    BY <2>1, <2>2, <2>3, Facts DEF Cur
<1> QED
  BY <1>1, Inductive, PTL
=============================================================================
