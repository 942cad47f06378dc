--------------------------- MODULE HandleReadProofs ---------------------------
(***************************************************************************)
(* Proofs about HandleRead for every length of header and of _data, every  *)
(* set of streams and every way of cutting them into pieces.               *)
(*                                                                         *)
(* The invariant says where in the client's stream handle_read stands: d   *)
(* frames are done with, and what has been moved of the frame behind them  *)
(* is in the header node (AtHead) or in the message node (AtBody); or the  *)
(* framing is out of step, and the frame d is found complete once more at  *)
(* every turn (AtEnd).  For that the place of every byte in the stream     *)
(* must be known, hence the lemmas on FlattenSeq; they need induction,     *)
(* which is done on a set of numbers (Induction).                          *)
(***************************************************************************)
EXTENDS HandleRead, SequenceTheorems, WellFoundedInduction, TLAPS

-----------------------------------------------------------------------------
(* Induction over the natural numbers, with a set in place of a predicate.  *)

\* A set of numbers has a smallest one.
LEMMA Smallest == ASSUME NEW T, T \subseteq Nat, T # {}
                  PROVE  \E m \in T : \A n \in T : m <= n
<1>1. PICK m \in T : \A n \in T : ~(<<n, m>> \in OpToRel(<, Nat))
  BY NatLessThanWellFounded, WFMin, Zenon
<1>2. ASSUME NEW n \in T PROVE m <= n
  <2>1. <<n, m>> \notin OpToRel(<, Nat)
    BY <1>1
  <2>2. ~ (n < m)
    BY <2>1, Zenon DEF OpToRel
  <2> QED
    BY <2>2
<1> QED
  BY <1>2


LEMMA Induction == ASSUME NEW T, T \subseteq Nat, 0 \in T, \A n \in T : n + 1 \in T
                   PROVE  T = Nat
<1> SUFFICES ASSUME Nat \ T # {} PROVE FALSE
  OBVIOUS
<1>1. PICK m \in Nat \ T : \A n \in Nat \ T : m <= n
  BY Smallest
<1>2. m # 0 /\ m - 1 \in Nat
  BY <1>1
<1>3. m - 1 \in T
  BY <1>1, <1>2
<1>4. m \in T
  BY <1>2, <1>3
<1> QED
  BY <1>1, <1>4

-----------------------------------------------------------------------------
(* FlattenSeq: a sequence of n + 1 sequences is flattened by flattening the *)
(* first n and appending the last.                                          *)

\* The function by which FlattenSeq is defined, up to n.
Joined(ss, f, n) == f = [i \in 1..n |-> IF i = 1 THEN ss[i] ELSE f[i-1] \o ss[i]]

LEMMA JoinedExists == ASSUME NEW ss, NEW n \in Nat
                      PROVE  \E f : Joined(ss, f, n)
<1> DEFINE T == {m \in Nat : ~ \E f : Joined(ss, f, m)}
<1> SUFFICES ASSUME T # {} PROVE FALSE
  OBVIOUS
<1>1. PICK m \in T : \A k \in T : m <= k
  BY Smallest
<1>2. CASE m = 0
  <2> DEFINE g == [i \in 1..0 |-> IF i = 1 THEN ss[i] ELSE ss[i]]
  <2>1. Joined(ss, g, 0)
    BY DEF Joined
  <2> QED
    BY <1>2, <2>1, <1>1
<1>3. CASE m # 0
  <2>1. m - 1 \in Nat /\ m - 1 \notin T
    BY <1>1, <1>3
  <2>2. PICK f : Joined(ss, f, m - 1)
    BY <2>1
  <2> DEFINE h(i) == IF i = 1 THEN ss[i] ELSE f[i-1] \o ss[i]
             g == [i \in 1..m |-> h(i)]
  <2>3. m \in Nat /\ \A i \in 1..(m-1) : f[i] = h(i)
    BY <2>2 DEF Joined
  <2>4. \A i \in 1..m : g[i] = h(i)
    OBVIOUS
  <2>5. \A i \in 1..m : g[i] = IF i = 1 THEN ss[i] ELSE g[i-1] \o ss[i]
    <3> SUFFICES ASSUME NEW i \in 1..m, i # 1 PROVE g[i] = g[i-1] \o ss[i]
      BY <2>4
    <3>1. i - 1 \in 1..(m-1) /\ i - 1 \in 1..m
      BY <2>3
    <3> QED
      BY <3>1, <2>3, <2>4
  <2>6. Joined(ss, g, m)
    <3> HIDE DEF h
    <3> QED
      BY <2>5 DEF Joined
  <2> QED
    BY <2>6, <1>1
<1> QED
  BY <1>2, <1>3

LEMMA FlattenDef == ASSUME NEW ss, Len(ss) \in Nat \ {0}
                    PROVE  \E f : Joined(ss, f, Len(ss)) /\ FlattenSeq(ss) = f[Len(ss)]
<1> DEFINE f == CHOOSE g : Joined(ss, g, Len(ss))
<1>1. Joined(ss, f, Len(ss))
  BY JoinedExists
<1>2. FlattenSeq(ss) = f[Len(ss)]
  BY DEF FlattenSeq, Joined
<1> QED
  BY <1>1, <1>2

LEMMA JoinedAgree ==
  ASSUME NEW ss, NEW tt, NEW f, NEW g, NEW m \in Nat, NEW n \in Nat, m <= n,
         Joined(ss, f, m), Joined(tt, g, n), \A i \in 1..m : ss[i] = tt[i]
  PROVE  \A i \in 1..m : f[i] = g[i]
<1> DEFINE T == {i \in Nat : i \in 1..m => f[i] = g[i]}
<1>1. 0 \in T
  OBVIOUS
<1>2. ASSUME NEW i \in T PROVE i + 1 \in T
  <2> SUFFICES ASSUME i + 1 \in 1..m PROVE f[i + 1] = g[i + 1]
    OBVIOUS
  <2>1. i + 1 \in 1..n /\ i + 1 \in 1..m /\ (i + 1) - 1 = i /\ i \in Nat
    OBVIOUS
  <2>2. f[i + 1] = IF i + 1 = 1 THEN ss[i + 1] ELSE f[i] \o ss[i + 1]
    <3>1. \A k \in 1..m : f[k] = IF k = 1 THEN ss[k] ELSE f[k - 1] \o ss[k]
      BY DEF Joined
    <3> QED
      BY <2>1, <3>1
  <2>3. g[i + 1] = IF i + 1 = 1 THEN tt[i + 1] ELSE g[i] \o tt[i + 1]
    <3>1. \A k \in 1..n : g[k] = IF k = 1 THEN tt[k] ELSE g[k - 1] \o tt[k]
      BY DEF Joined
    <3> QED
      BY <2>1, <3>1
  <2>4. i + 1 # 1 => f[i] = g[i]
    BY <2>1
  <2>5. ss[i + 1] = tt[i + 1]
    OBVIOUS
  <2> QED
    BY <2>2, <2>3, <2>4, <2>5
<1>3. T = Nat
  <2> HIDE DEF T
  <2>1. T \subseteq Nat
    BY DEF T
  <2> QED
    BY <1>1, <1>2, <2>1, Induction
<1> QED
  BY <1>3

LEMMA FlattenOne == ASSUME NEW ss, Len(ss) = 1 PROVE FlattenSeq(ss) = ss[1]
<1>1. Len(ss) \in Nat \ {0}
  OBVIOUS
<1>2. PICK f : Joined(ss, f, Len(ss)) /\ FlattenSeq(ss) = f[Len(ss)]
  BY <1>1, FlattenDef
<1> QED
  BY <1>2 DEF Joined

LEMMA FlattenStep ==
  ASSUME NEW ss, NEW tt, NEW n \in Nat \ {0}, Len(ss) = n, Len(tt) = n + 1,
         \A i \in 1..n : ss[i] = tt[i]
  PROVE  FlattenSeq(tt) = FlattenSeq(ss) \o tt[n + 1]
<1>1. PICK f : Joined(ss, f, n) /\ FlattenSeq(ss) = f[n]
  <2>1. PICK f : Joined(ss, f, Len(ss)) /\ FlattenSeq(ss) = f[Len(ss)]
    BY FlattenDef
  <2> QED
    BY <2>1
<1>2. PICK g : Joined(tt, g, n + 1) /\ FlattenSeq(tt) = g[n + 1]
  <2>1. Len(tt) \in Nat \ {0}
    OBVIOUS
  <2>2. PICK g : Joined(tt, g, Len(tt)) /\ FlattenSeq(tt) = g[Len(tt)]
    BY <2>1, FlattenDef
  <2> QED
    BY <2>2
<1>3. \A i \in 1..n : f[i] = g[i]
  BY <1>1, <1>2, JoinedAgree, n <= n + 1, n + 1 \in Nat
<1>4. g[n + 1] = g[n] \o tt[n + 1]
  <2>1. n + 1 \in 1..(n + 1) /\ n + 1 # 1 /\ (n + 1) - 1 = n
    OBVIOUS
  <2> QED
    BY <1>2, <2>1 DEF Joined
<1>5. f[n] = g[n]
  BY <1>3
<1> QED
  BY <1>1, <1>2, <1>4, <1>5

-----------------------------------------------------------------------------
(* The bytes of a stream: frame after frame, each byte where it belongs.    *)

\* The bytes of the first n frames, and their number.
Flat(n) == FlattenSeq([k \in 1..n |-> FrameBytes(k)])
Upto(n) == Len(Flat(n))

Frames == stream \in Seq(FrameRecord)

LEMMA FrameBytesType ==
  ASSUME Frames, NEW k \in 1..Len(stream)
  PROVE  /\ stream[k].len \in Nat /\ stream[k].id \in Nat
         /\ FrameBytes(k) \in ByteSeq
         /\ Len(FrameBytes(k)) = HEAD_TOTAL_LEN + stream[k].len
         /\ \A i \in 1..HEAD_TOTAL_LEN + stream[k].len : FrameBytes(k)[i] = <<k, i>>
<1>1. stream[k].len \in Nat /\ stream[k].id \in Nat
  <2>1. stream[k] \in FrameRecord
    BY ElementOfSeq DEF Frames
  <2> QED
    BY <2>1, SizesAssumption DEF FrameRecord, Wire
<1>2. HEAD_TOTAL_LEN + stream[k].len \in Nat
  BY <1>1, SizesAssumption
<1>3. \A i \in 1..HEAD_TOTAL_LEN + stream[k].len : <<k, i>> \in (1..Len(stream)) \X Nat
  BY <1>2
<1> QED
  BY <1>1, <1>2, <1>3 DEF FrameBytes, ByteSeq

LEMMA FlatZero == Flat(0) = <<>>
<1>1. [k \in 1..0 |-> FrameBytes(k)] = <<>>
  OBVIOUS
<1> QED
  BY <1>1 DEF Flat, FlattenSeq

LEMMA FlatFirst == Flat(1) = FrameBytes(1)
<1> DEFINE e(k) == FrameBytes(k)
           tt == [k \in 1..1 |-> e(k)]
<1> HIDE DEF e
<1>1. Len(tt) = 1 /\ tt[1] = e(1)
  OBVIOUS
<1>2. FlattenSeq(tt) = Flat(1)
  BY DEF Flat, e
<1> HIDE DEF tt
<1> QED
  BY <1>1, <1>2, FlattenOne DEF e

LEMMA FlatStep == ASSUME NEW n \in Nat \ {0}
                  PROVE  Flat(n + 1) = Flat(n) \o FrameBytes(n + 1)
<1> DEFINE e(k) == FrameBytes(k)
           ss == [k \in 1..n |-> e(k)]
           tt == [k \in 1..n + 1 |-> e(k)]
<1> HIDE DEF e
<1>1. Len(ss) = n /\ Len(tt) = n + 1
  OBVIOUS
<1>2. \A i \in 1..n : ss[i] = tt[i]
  OBVIOUS
<1>3. tt[n + 1] = e(n + 1)
  OBVIOUS
<1>4. FlattenSeq(ss) = Flat(n) /\ FlattenSeq(tt) = Flat(n + 1)
  BY DEF Flat, e
<1> HIDE DEF ss, tt
<1>5. FlattenSeq(tt) = FlattenSeq(ss) \o tt[n + 1]
  BY <1>1, <1>2, FlattenStep
<1> QED
  BY <1>5, <1>3, <1>4 DEF e

LEMMA FlatNext ==
  ASSUME Frames, NEW n \in 0..Len(stream) - 1, Flat(n) \in ByteSeq
  PROVE  /\ Flat(n + 1) \in ByteSeq
         /\ Upto(n) \in Nat
         /\ Upto(n + 1) = Upto(n) + HEAD_TOTAL_LEN + stream[n + 1].len
         /\ \A i \in 1..Upto(n) : Flat(n + 1)[i] = Flat(n)[i]
         /\ \A i \in 1..HEAD_TOTAL_LEN + stream[n + 1].len :
               Flat(n + 1)[Upto(n) + i] = <<n + 1, i>>
<1> DEFINE S == (1..Len(stream)) \X Nat
           L == HEAD_TOTAL_LEN + stream[n + 1].len
<1>1. n + 1 \in 1..Len(stream) /\ n \in Nat
  BY DEF Frames
<1>2. /\ FrameBytes(n + 1) \in Seq(S)
      /\ Len(FrameBytes(n + 1)) = L
      /\ \A i \in 1..L : FrameBytes(n + 1)[i] = <<n + 1, i>>
      /\ L \in Nat
  <2>1. /\ FrameBytes(n + 1) \in Seq(S)
        /\ stream[n + 1].len \in Nat
        /\ Len(FrameBytes(n + 1)) = L
        /\ \A i \in 1..L : FrameBytes(n + 1)[i] = <<n + 1, i>>
    BY <1>1, FrameBytesType DEF ByteSeq
  <2> QED
    BY SMTT(30), <2>1, SizesAssumption
<1>3. Flat(n) \in Seq(S)
  BY DEF ByteSeq
<1>4. Flat(n + 1) = Flat(n) \o FrameBytes(n + 1)
  <2>1. CASE n = 0
    <3>1. Flat(n) \o FrameBytes(n + 1) = FrameBytes(n + 1)
      BY <2>1, <1>2, FlatZero, ConcatEmptySeq
    <3> QED
      BY <2>1, <3>1, FlatFirst
  <2> QED
    BY <2>1, <1>1, FlatStep
<1> HIDE DEF S, L
<1>5. /\ Flat(n + 1) \in Seq(S)
      /\ Upto(n + 1) = Upto(n) + L
      /\ Upto(n) \in Nat
      /\ \A i \in 1..Upto(n) + L : Flat(n + 1)[i] =
           IF i <= Upto(n) THEN Flat(n)[i] ELSE FrameBytes(n + 1)[i - Upto(n)]
  <2>1. /\ Flat(n + 1) \in Seq(S)
        /\ Len(Flat(n + 1)) = Len(Flat(n)) + L
        /\ \A i \in 1..Len(Flat(n)) + L : Flat(n + 1)[i] =
             IF i <= Len(Flat(n)) THEN Flat(n)[i] ELSE FrameBytes(n + 1)[i - Len(Flat(n))]
    <3> DEFINE a == Flat(n)  b == FrameBytes(n + 1)
    <3>1. /\ a \o b \in Seq(S)
          /\ Len(a \o b) = Len(a) + Len(b)
          /\ \A i \in 1..Len(a) + Len(b) : (a \o b)[i] =
               IF i <= Len(a) THEN a[i] ELSE b[i - Len(a)]
      <4> HIDE DEF a, b
      <4>1. a \in Seq(S) /\ b \in Seq(S)
        BY <1>2, <1>3 DEF a, b
      <4> QED
        BY <4>1, ConcatProperties
    <3> QED
      BY <3>1, <1>2, <1>4
  <2>2. Len(Flat(n)) \in Nat
    BY <1>3, LenProperties
  <2> QED
    BY <2>1, <2>2 DEF Upto
<1>6. \A i \in 1..Upto(n) : Flat(n + 1)[i] = Flat(n)[i]
  BY <1>2, <1>5
<1>7. ASSUME NEW i \in 1..L PROVE Flat(n + 1)[Upto(n) + i] = <<n + 1, i>>
  <2>1. Upto(n) + i \in 1..Upto(n) + L /\ ~(Upto(n) + i <= Upto(n)) /\ (Upto(n) + i) - Upto(n) = i
    BY <1>2, <1>5
  <2> QED
    BY <1>2, <1>5, <2>1
<1>8. Upto(n + 1) = Upto(n) + HEAD_TOTAL_LEN + stream[n + 1].len
  BY <1>1, <1>5, FrameBytesType, SizesAssumption DEF L
<1> QED
  BY <1>5, <1>6, <1>7, <1>8 DEF S, L, ByteSeq

LEMMA FlatType == ASSUME Frames, NEW n \in 0..Len(stream)
                  PROVE  Flat(n) \in ByteSeq /\ Upto(n) \in Nat
<1> DEFINE T == {m \in Nat : m <= Len(stream) => Flat(m) \in ByteSeq}
<1>0. Len(stream) \in Nat
  BY DEF Frames
<1>1. 0 \in T
  BY FlatZero, EmptySeq DEF ByteSeq
<1>2. ASSUME NEW m \in T PROVE m + 1 \in T
  <2> SUFFICES ASSUME m + 1 <= Len(stream) PROVE Flat(m + 1) \in ByteSeq
    OBVIOUS
  <2>1. m \in 0..Len(stream) - 1 /\ Flat(m) \in ByteSeq
    BY <1>0
  <2> QED
    BY <2>1, FlatNext
<1>3. T = Nat
  <2> HIDE DEF T
  <2>1. T \subseteq Nat
    BY DEF T
  <2> QED
    BY <1>1, <1>2, <2>1, Induction
<1>4. Flat(n) \in ByteSeq
  BY <1>0, <1>3
<1> QED
  BY <1>4 DEF Upto, ByteSeq

\* FlatNext without its hypothesis on the type.
LEMMA FlatSucc ==
  ASSUME Frames, NEW n \in 0..Len(stream) - 1
  PROVE  /\ Upto(n) \in Nat
         /\ Upto(n + 1) = Upto(n) + HEAD_TOTAL_LEN + stream[n + 1].len
         /\ \A i \in 1..Upto(n) : Flat(n + 1)[i] = Flat(n)[i]
         /\ \A i \in 1..HEAD_TOTAL_LEN + stream[n + 1].len :
               Flat(n + 1)[Upto(n) + i] = <<n + 1, i>>
<1>1. n \in 0..Len(stream)
  BY DEF Frames
<1> QED
  BY <1>1, FlatType, FlatNext

LEMMA FlatPrefix ==
  ASSUME Frames, NEW m \in 0..Len(stream), NEW n \in 0..Len(stream), m <= n
  PROVE  Upto(m) <= Upto(n) /\ \A i \in 1..Upto(m) : Flat(n)[i] = Flat(m)[i]
<1> DEFINE Same(k) == Upto(m) <= Upto(k) /\ \A i \in 1..Upto(m) : Flat(k)[i] = Flat(m)[i]
           T == {j \in Nat : m + j <= Len(stream) => Same(m + j)}
<1>0. Len(stream) \in Nat /\ Upto(m) \in Nat
  BY FlatType DEF Frames
<1>1. 0 \in T
  BY <1>0
<1>2. ASSUME NEW j \in T PROVE j + 1 \in T
  <2> SUFFICES ASSUME m + (j + 1) <= Len(stream) PROVE Same(m + (j + 1))
    OBVIOUS
  <2>1. m + j \in 0..Len(stream) - 1 /\ m + (j + 1) = (m + j) + 1 /\ Same(m + j)
    BY <1>0
  <2>2. /\ Upto(m + j) \in Nat
        /\ Upto((m + j) + 1) = Upto(m + j) + HEAD_TOTAL_LEN + stream[(m + j) + 1].len
        /\ \A i \in 1..Upto(m + j) : Flat((m + j) + 1)[i] = Flat(m + j)[i]
    BY <2>1, FlatSucc
  <2>3. stream[(m + j) + 1].len \in Nat
    BY <2>1, <1>0, FrameBytesType
  <2>4. Upto(m) <= Upto((m + j) + 1)
    BY <2>1, <2>2, <2>3, <1>0, SizesAssumption
  <2>5. \A i \in 1..Upto(m) : Flat((m + j) + 1)[i] = Flat(m)[i]
    BY <2>1, <2>2, <1>0
  <2> QED
    BY <2>1, <2>4, <2>5
<1>3. T = Nat
  <2> HIDE DEF T
  <2>1. T \subseteq Nat
    BY DEF T
  <2> QED
    BY <1>1, <1>2, <2>1, Induction
<1>4. n - m \in T /\ m + (n - m) = n
  <2> HIDE DEF T
  <2> QED
    BY <1>0, <1>3
<1> QED
  BY <1>4

\* All bytes of the stream, and where the byte i of the frame d + 1 is.
LEMMA BytesType == ASSUME Frames
                   PROVE  /\ Bytes = Flat(Len(stream)) /\ Bytes \in ByteSeq
                          /\ Len(Bytes) = Upto(Len(stream)) /\ Len(Bytes) \in Nat
<1>1. Len(stream) \in Nat /\ Len(stream) \in 0..Len(stream)
  BY DEF Frames
<1>2. Bytes = Flat(Len(stream))
  BY DEF Bytes, Flat
<1> QED
  BY <1>1, <1>2, FlatType DEF Upto

LEMMA ByteAt ==
  ASSUME Frames, NEW d \in 0..Len(stream) - 1,
         NEW i \in 1..HEAD_TOTAL_LEN + stream[d + 1].len
  PROVE  Bytes[Upto(d) + i] = <<d + 1, i>> /\ Upto(d) + i <= Len(Bytes)
<1>1. d + 1 \in 0..Len(stream) /\ Len(stream) \in 0..Len(stream) /\ d + 1 <= Len(stream)
  BY DEF Frames
<1>2. /\ Upto(d) \in Nat
      /\ Upto(d + 1) = Upto(d) + HEAD_TOTAL_LEN + stream[d + 1].len
      /\ Flat(d + 1)[Upto(d) + i] = <<d + 1, i>>
  BY FlatSucc
<1>3. stream[d + 1].len \in Nat /\ HEAD_TOTAL_LEN \in Nat
  BY <1>1, FrameBytesType, SizesAssumption
<1>4. /\ Upto(d + 1) <= Upto(Len(stream))
      /\ \A j \in 1..Upto(d + 1) : Flat(Len(stream))[j] = Flat(d + 1)[j]
  BY <1>1, FlatPrefix
<1>5. Upto(d) + i \in 1..Upto(d + 1)
  BY <1>2, <1>3
<1>6. Bytes = Flat(Len(stream)) /\ Len(Bytes) = Upto(Len(stream)) /\ Len(Bytes) \in Nat
  BY BytesType
<1> QED
  BY SMTT(30), <1>2, <1>3, <1>4, <1>5, <1>6

-----------------------------------------------------------------------------
(* The inductive invariant.                                                 *)

\* Which handler may run, and whether a read is in progress.
Control ==
  /\ reading \in BOOLEAN
  /\ arrived \in {"none", "ok", "error"}
  /\ hpc \in {"idle", "loop", "mark"} \cup Ends
  /\ registered \in BOOLEAN
  /\ b_head_parse \in BOOLEAN
  /\ hpc = "loop" => registered /\ ~reading /\ arrived = "none"
  /\ hpc = "mark" => registered /\ ~b_head_parse
  /\ hpc \in {"idle", "mark"} /\ registered => (reading <=> arrived = "none")
  /\ Ended => registered /\ ~reading /\ arrived = "none"
  /\ ~registered => hpc = "idle" /\ ~reading /\ arrived = "none"

\* _data holds the last bytes of the stream that were read.
DataOK ==
  /\ stream \in Streams
  /\ nread \in 0..Len(Bytes)
  /\ data \in ByteSeq
  /\ Len(data) <= MAX_LENGTH /\ Len(data) <= nread
  /\ \A i \in 1..Len(data) : data[i] = Bytes[nread - Len(data) + i]
  /\ copy_len \in Nat /\ byte_transfered \in Nat
  /\ hpc = "loop" => copy_len + byte_transfered = Len(data)
  /\ hpc \in {"idle", "mark"} /\ registered => copy_len = 0 /\ byte_transfered = 0
  /\ copy_len + byte_transfered <= MAX_LENGTH

\* Neither node holds more than it was made for.
NodesOK ==
  /\ head \in ByteSeq /\ Len(head) < HEAD_TOTAL_LEN
  /\ msg \in [id : Shorts, len : 0..MAX_LENGTH, body : ByteSeq]
  /\ Len(msg.body) <= msg.len

\* d frames are posted and done with; the header of the next one is in part there.
AtHead(d) ==
  /\ ~InBody
  /\ Len(posted) = d
  /\ \A i \in 1..Len(head) : head[i] = <<d + 1, i>>
  /\ Consumed = Upto(d) + Len(head)

\* The body of the frame d + 1 is in part there.
AtBody(d) ==
  /\ InBody
  /\ Len(posted) = d /\ d < Len(stream)
  /\ msg.id = Short(stream[d + 1].id) /\ msg.len = stream[d + 1].len
  /\ Len(msg.body) < msg.len
  /\ \A i \in 1..Len(msg.body) : msg.body[i] = <<d + 1, HEAD_TOTAL_LEN + i>>
  /\ Consumed = Upto(d) + HEAD_TOTAL_LEN + Len(msg.body)

\* The body of the frame d was completed in a later run: the loop finds it
\* complete again and again.
AtEnd(d) ==
  /\ b_head_parse
  /\ d > 0
  /\ msg.id = Short(stream[d].id) /\ msg.len = stream[d].len
  /\ msg.body = Body(d)
  /\ Consumed = Upto(d)

\* The first d messages are posted, and after them copies of the last.
PostedOK(d) ==
  /\ posted \in Seq([id : Shorts, body : ByteSeq])
  /\ Len(posted) >= d
  /\ Len(posted) > d => 0 < d /\ d < Len(stream)
  /\ \A i \in 1..Len(posted) : posted[i] = Messages[IF i <= d THEN i ELSE d]

Place(d) == AtHead(d) \/ AtBody(d) \/ AtEnd(d)

IInv == /\ Control
        /\ DataOK
        /\ NodesOK
        /\ \E d \in 0..Len(stream) : PostedOK(d) /\ (registered => Place(d))

-----------------------------------------------------------------------------
(* What one turn of the loop finds.                                         *)

LEMMA StreamFrames == ASSUME DataOK PROVE Frames
BY StreamsAssumption DEF DataOK, Frames

\* The stream and what is defined from it stay.
LEMMA StreamStays ==
  ASSUME stream' = stream
  PROVE  /\ Bytes' = Bytes /\ Messages' = Messages /\ ByteSeq' = ByteSeq
         /\ \A d : Upto(d)' = Upto(d) /\ Body(d)' = Body(d)
BY DEF Bytes, Messages, ByteSeq, Upto, Flat, FrameBytes, Body

LEMMA NextStream == ASSUME Next PROVE stream' = stream
BY DEF Next, Handler, Turn, Receive, ReadError, Enter, EnterError, HeadShort, RejectHead,
       NegativeLength, BodyShort, BodyWhole, ResumeShort, ResumeDone, MarkParsed

\* The n bytes taken next are the next n bytes of the stream.
LEMMA ChunkFacts ==
  ASSUME Control, DataOK, Loop, NEW m \in Nat, NEW n \in Nat, m + n <= byte_transfered
  PROVE  /\ Consumed = nread - byte_transfered /\ Consumed \in Nat
         /\ Consumed < Len(Bytes)
         /\ SubSeq(data, copy_len + m + 1, copy_len + m + n) \in ByteSeq
         /\ Len(SubSeq(data, copy_len + m + 1, copy_len + m + n)) = n
         /\ \A j \in 1..n : SubSeq(data, copy_len + m + 1, copy_len + m + n)[j]
                            = Bytes[Consumed + m + j]
<1> DEFINE S == (1..Len(stream)) \X Nat
           a == copy_len + m + 1
           b == copy_len + m + n
<1>1. /\ copy_len \in Nat /\ byte_transfered \in Nat /\ byte_transfered > 0
      /\ copy_len + byte_transfered = Len(data)
      /\ nread \in Nat /\ nread <= Len(Bytes) /\ Len(data) <= nread /\ Len(Bytes) \in Nat
  BY StreamFrames, BytesType DEF DataOK, Loop
<1>2. Consumed = nread - byte_transfered /\ Consumed \in Nat /\ Consumed < Len(Bytes)
  <2>1. arrived # "ok"
    BY DEF Control, Loop
  <2> QED
    BY <1>1, <2>1 DEF Consumed
<1>3. a \in Int /\ b \in Int /\ b - a + 1 = n
  BY <1>1
<1>4. data \in Seq(S)
  BY DEF DataOK, ByteSeq
<1>5. \A i \in a..b : i \in 1..Len(data)
  BY <1>1
<1>6. \A i \in a..b : data[i] \in S
  <2> HIDE DEF S, a, b
  <2> QED
    BY <1>4, <1>5, ElementOfSeq
<1>7. /\ SubSeq(data, a, b) \in Seq(S)
      /\ Len(SubSeq(data, a, b)) = IF a <= b THEN b - a + 1 ELSE 0
      /\ \A j \in 1..b - a + 1 : SubSeq(data, a, b)[j] = data[a + j - 1]
  <2> HIDE DEF S, a, b
  <2> QED
    BY <1>3, <1>6, SubSeqProperties
<1>8. Len(SubSeq(data, a, b)) = n
  BY <1>1, <1>3, <1>7
<1>9. ASSUME NEW j \in 1..n PROVE SubSeq(data, a, b)[j] = Bytes[Consumed + m + j]
  <2>1. SubSeq(data, a, b)[j] = data[copy_len + m + j]
    <3>1. a + j - 1 = copy_len + m + j
      BY <1>1
    <3> QED
      BY <1>3, <1>7, <3>1
  <2>2. copy_len + m + j \in 1..Len(data)
    BY <1>1
  <2>3. data[copy_len + m + j] = Bytes[nread - Len(data) + (copy_len + m + j)]
    BY <2>2 DEF DataOK
  <2>4. nread - Len(data) + (copy_len + m + j) = Consumed + m + j
    BY <1>1, <1>2
  <2> QED
    BY <2>1, <2>3, <2>4
<1> QED
  BY <1>2, <1>7, <1>8, <1>9 DEF ByteSeq

\* The same for the bytes at the front.
LEMMA ChunkFront ==
  ASSUME Control, DataOK, Loop, NEW n \in Nat, n <= byte_transfered
  PROVE  /\ Chunk(n) \in ByteSeq
         /\ Len(Chunk(n)) = n
         /\ \A j \in 1..n : Chunk(n)[j] = Bytes[Consumed + j]
<1>1. byte_transfered \in Nat /\ copy_len \in Nat
  BY DEF DataOK
<1>2. 0 + n <= byte_transfered /\ copy_len + 0 = copy_len
  BY <1>1
<1>3. /\ SubSeq(data, copy_len + 0 + 1, copy_len + 0 + n) \in ByteSeq
      /\ Len(SubSeq(data, copy_len + 0 + 1, copy_len + 0 + n)) = n
      /\ \A j \in 1..n : SubSeq(data, copy_len + 0 + 1, copy_len + 0 + n)[j]
                         = Bytes[Consumed + 0 + j]
      /\ Consumed \in Nat
  BY <1>2, ChunkFacts
<1>4. \A j \in 1..n : Consumed + 0 + j = Consumed + j
  BY <1>3
<1> QED
  BY <1>2, <1>3, <1>4 DEF Chunk

\* What is posted or appended is joined from two parts.
LEMMA Join ==
  ASSUME NEW s \in ByteSeq, NEW t \in ByteSeq
  PROVE  /\ s \o t \in ByteSeq
         /\ Len(s \o t) = Len(s) + Len(t)
         /\ Len(s) \in Nat /\ Len(t) \in Nat
         /\ \A i \in 1..Len(s) + Len(t) :
              (s \o t)[i] = IF i <= Len(s) THEN s[i] ELSE t[i - Len(s)]
BY ConcatProperties, LenProperties DEF ByteSeq

\* Bytes remain to be handled: a frame remains.
LEMMA FrameRemains ==
  ASSUME Control, DataOK, Loop, NEW d \in 0..Len(stream), Upto(d) <= Consumed
  PROVE  d \in 0..Len(stream) - 1 /\ d + 1 \in 1..Len(stream)
<1>1. Frames /\ Len(stream) \in Nat /\ byte_transfered \in Nat /\ byte_transfered > 0
  BY StreamFrames DEF Frames, DataOK, Loop
<1>2. Consumed < Len(Bytes)
  <2>1. 0 + 0 <= byte_transfered /\ 0 \in Nat
    BY <1>1
  <2> QED
    BY <2>1, ChunkFacts
<1>3. Len(Bytes) = Upto(Len(stream)) /\ Len(Bytes) \in Nat /\ Upto(d) \in Nat
  BY <1>1, BytesType, FlatType
<1>4. Consumed \in Nat
  <2>1. 0 + 0 <= byte_transfered /\ 0 \in Nat
    BY <1>1
  <2> QED
    BY <2>1, ChunkFacts
<1>5. d # Len(stream)
  BY <1>2, <1>3, <1>4
<1> QED
  BY <1>1, <1>5

\* A complete header names a frame of the stream.
LEMMA HeadFrame ==
  ASSUME Control, DataOK, NodesOK, HeadDone
  PROVE  /\ HeadRemind \in Nat \ {0} /\ HeadRemind <= byte_transfered
         /\ AfterHead \in Nat /\ AfterHead = byte_transfered - HeadRemind
         /\ HeadBytes \in ByteSeq /\ Len(HeadBytes) = HEAD_TOTAL_LEN
         /\ HeadBytes[1][1] \in 1..Len(stream)
         /\ Frame.id \in Nat /\ Frame.len \in Nat
<1> DEFINE S == (1..Len(stream)) \X Nat
<1>1. Loop /\ Frames
  BY StreamFrames DEF HeadDone
<1>2. Len(head) \in Nat /\ HEAD_TOTAL_LEN \in Nat
  BY SizesAssumption, LenProperties DEF NodesOK, ByteSeq
<1>3. HeadRemind \in Nat \ {0} /\ HeadRemind <= byte_transfered /\ AfterHead \in Nat
      /\ AfterHead = byte_transfered - HeadRemind
  BY <1>2 DEF HeadRemind, NodesOK, DataOK, HeadDone, AfterHead
<1>4. Chunk(HeadRemind) \in ByteSeq /\ Len(Chunk(HeadRemind)) = HeadRemind
  BY <1>1, <1>3, ChunkFront
<1>5. HeadBytes \in ByteSeq /\ Len(HeadBytes) = HEAD_TOTAL_LEN
  <2>1. HeadBytes \in ByteSeq /\ Len(HeadBytes) = Len(head) + HeadRemind
    BY <1>4, Join DEF HeadBytes, NodesOK
  <2> QED
    BY <2>1, <1>2 DEF HeadRemind
<1>6. HeadBytes[1] \in S
  <2>1. 1 \in 1..Len(HeadBytes) /\ HeadBytes \in Seq(S)
    BY <1>5, <1>2, SizesAssumption DEF ByteSeq
  <2> HIDE DEF S
  <2> QED
    BY <2>1, ElementOfSeq
<1>7. HeadBytes[1][1] \in 1..Len(stream)
  BY <1>6
<1>8. Frame.id \in Nat /\ Frame.len \in Nat
  BY <1>1, <1>7, FrameBytesType DEF Frame
<1> QED
  BY <1>3, <1>5, <1>7, <1>8

\* Where a node is made for it its length is the one the client has sent.
LEMMA GoodFrame ==
  ASSUME Control, DataOK, NodesOK, GoodHead
  PROVE  /\ HeadDone /\ Loop /\ ~b_head_parse
         /\ MsgLen = Frame.len /\ Frame.len \in 0..MAX_LENGTH
         /\ MsgId \in Shorts
<1>1. HeadDone /\ Loop /\ ~b_head_parse /\ ~BadHead /\ MsgLen >= 0
  BY DEF GoodHead, HeadDone
<1>2. Frame \in FrameRecord
  <2>1. HeadBytes[1][1] \in 1..Len(stream) /\ stream \in Seq(FrameRecord)
    BY <1>1, HeadFrame, StreamFrames DEF Frames
  <2> QED
    BY <2>1, ElementOfSeq DEF Frame
<1>3. Frame.id \in Wire /\ Frame.len \in Wire
  BY <1>2 DEF FrameRecord
<1>4. MsgLen = Frame.len
  BY <1>1, <1>3, SizesAssumption DEF MsgLen, Short, Wire
<1>5. MsgLen <= MAX_LENGTH
  BY <1>1, <1>3, <1>4, SizesAssumption DEF BadHead, Wire
<1>6. MsgId \in Shorts
  BY <1>3, SizesAssumption DEF MsgId, Short, Shorts, Wire
<1> QED
  BY <1>1, <1>3, <1>4, <1>5, <1>6, SizesAssumption DEF Wire

\* It is the header of the next frame.
LEMMA HeadIsNext ==
  ASSUME Control, DataOK, NodesOK, HeadDone, NEW d \in 0..Len(stream), AtHead(d)
  PROVE  d \in 0..Len(stream) - 1 /\ d + 1 \in 1..Len(stream) /\ Frame = stream[d + 1]
<1>1. Loop /\ Frames
  BY StreamFrames DEF HeadDone
<1>2. /\ HeadRemind \in Nat \ {0} /\ HeadRemind <= byte_transfered
      /\ HEAD_TOTAL_LEN \in Nat \ {0} /\ Len(head) \in Nat /\ head \in ByteSeq
      /\ Upto(d) \in Nat
  BY <1>1, HeadFrame, SizesAssumption, LenProperties, FlatType DEF NodesOK, ByteSeq
<1>3. Consumed = Upto(d) + Len(head)
  BY DEF AtHead
<1>4. d \in 0..Len(stream) - 1 /\ d + 1 \in 1..Len(stream)
  <2>1. Upto(d) <= Consumed
    BY <1>2, <1>3
  <2> QED
    BY <1>1, <2>1, FrameRemains
<1>5. /\ Chunk(HeadRemind) \in ByteSeq /\ Len(Chunk(HeadRemind)) = HeadRemind
      /\ \A j \in 1..HeadRemind : Chunk(HeadRemind)[j] = Bytes[Consumed + j]
  BY <1>1, <1>2, ChunkFront
<1>6. HeadBytes[1] = <<d + 1, 1>>
  <2>1. HeadBytes[1] = IF 1 <= Len(head) THEN head[1] ELSE Chunk(HeadRemind)[1 - Len(head)]
    <3>1. 1 \in 1..Len(head) + Len(Chunk(HeadRemind))
      BY <1>2, <1>5
    <3> QED
      BY <1>2, <1>5, <3>1, Join DEF HeadBytes
  <2>2. CASE Len(head) = 0
    <3>1. Chunk(HeadRemind)[1] = Bytes[Upto(d) + 1]
      BY <1>2, <1>3, <1>5, <2>2
    <3>2. 1 \in 1..HEAD_TOTAL_LEN + stream[d + 1].len
      BY <1>1, <1>2, <1>4, FrameBytesType
    <3>3. Bytes[Upto(d) + 1] = <<d + 1, 1>>
      BY <1>1, <1>4, <3>2, ByteAt
    <3> QED
      BY <2>1, <2>2, <3>1, <3>3
  <2>3. CASE Len(head) # 0
    <3>1. 1 \in 1..Len(head)
      BY <1>2, <2>3
    <3> QED
      BY <2>1, <3>1 DEF AtHead
  <2> QED
    BY <2>2, <2>3
<1> QED
  BY <1>4, <1>6 DEF Frame

-----------------------------------------------------------------------------
(* Each part of the invariant is kept by each step.                         *)

LEMMA ControlStep == ASSUME Control, Next PROVE Control'
<1> USE DEF Control, Ended, Ends
<1>1. CASE Receive
  BY <1>1 DEF Receive
<1>2. CASE ReadError
  BY <1>2 DEF ReadError
<1>3. CASE Enter
  BY <1>3 DEF Enter, StrandFree
<1>4. CASE EnterError
  BY <1>4 DEF EnterError, StrandFree
<1>5. CASE HeadShort
  BY <1>5 DEF HeadShort, Loop, ReadOn
<1>6. CASE RejectHead
  BY <1>6 DEF RejectHead, HeadDone, Loop
<1>7. CASE BodyShort
  BY <1>7 DEF BodyShort, GoodHead, HeadDone, Loop, ReadOn
<1>8. CASE BodyWhole
  <2>1. PICK n, message : PostAfter(n, message)
    BY <1>8 DEF BodyWhole
  <2>2. \/ UNCHANGED <<reading, hpc>>
        \/ reading' = TRUE /\ hpc' = "idle"
    BY <2>1 DEF PostAfter, ReadOn, Advance
  <2>3. hpc = "loop" /\ b_head_parse' = FALSE /\ UNCHANGED <<arrived, registered>>
    BY <1>8 DEF BodyWhole, GoodHead, HeadDone, Loop
  <2>4. CASE UNCHANGED <<reading, hpc>>
    BY <2>3, <2>4
  <2>5. CASE reading' = TRUE /\ hpc' = "idle"
    BY <2>3, <2>5
  <2> QED
    BY <2>2, <2>4, <2>5
<1>9. CASE ResumeShort
  BY <1>9 DEF ResumeShort, Loop, ReadOn
<1>10. CASE ResumeDone
  <2>1. PICK n, message : PostAfter(n, message)
    BY <1>10 DEF ResumeDone
  <2>2. \/ UNCHANGED <<reading, hpc>>
        \/ reading' = TRUE /\ hpc' = "idle"
    BY <2>1 DEF PostAfter, ReadOn, Advance
  <2>3. hpc = "loop" /\ UNCHANGED <<arrived, registered, b_head_parse>>
    BY <1>10 DEF ResumeDone, Loop
  <2>4. CASE UNCHANGED <<reading, hpc>>
    BY <2>3, <2>4
  <2>5. CASE reading' = TRUE /\ hpc' = "idle"
    BY <2>3, <2>5
  <2> QED
    BY <2>2, <2>4, <2>5
<1>11. CASE MarkParsed
  BY <1>11 DEF MarkParsed
<1>12. CASE NegativeLength
  BY <1>12 DEF NegativeLength, HeadDone, Loop
<1> QED
  BY <1>1, <1>2, <1>3, <1>4, <1>5, <1>6, <1>7, <1>8, <1>9, <1>10, <1>11, <1>12
     DEF Next, Handler, Turn

\* What PostAfter and ReadOn do to _data and to what has been moved.
LEMMA ReadOnData ==
  ASSUME Control, DataOK, Control', stream' = stream, nread' = nread, NEW place, ReadOn(place),
         place # "loop"
  PROVE  DataOK'
<1>1. Bytes' = Bytes /\ ByteSeq' = ByteSeq
  BY StreamStays
<1>2. data' = <<>> /\ copy_len' = 0 /\ byte_transfered' = 0 /\ hpc' = place
  BY DEF ReadOn
<1>3. data' \in ByteSeq /\ Len(data') = 0
  BY <1>2, EmptySeq DEF ByteSeq
<1>4. \A i \in 1..Len(data') : data'[i] = Bytes[nread - Len(data') + i]
  BY <1>3
<1>5. nread \in Nat /\ nread \in 0..Len(Bytes)
  BY StreamFrames, BytesType DEF DataOK
<1>6. stream \in Streams
  BY DEF DataOK
<1> QED
  BY <1>1, <1>2, <1>3, <1>4, <1>5, <1>6, SizesAssumption DEF DataOK

LEMMA ReadOnConsumed ==
  ASSUME Control, DataOK, Loop, nread' = nread, arrived' = arrived, NEW place, ReadOn(place)
  PROVE  Consumed' = Consumed + byte_transfered
<1>1. arrived # "ok" /\ byte_transfered \in Nat /\ nread \in Nat
  BY StreamFrames, BytesType DEF Control, Loop, DataOK
<1> QED
  BY <1>1 DEF Consumed, ReadOn

LEMMA PostAfterData ==
  ASSUME Control, DataOK, Control', Loop, UNCHANGED <<stream, nread, arrived, registered>>,
         NEW message, NEW n \in Nat, n <= byte_transfered, PostAfter(n, message)
  PROVE  DataOK' /\ Consumed' = Consumed + n
<1>1. CASE byte_transfered = n
  <2>1. ReadOn("idle")
    BY <1>1 DEF PostAfter
  <2> QED
    BY <1>1, <2>1, ReadOnData, ReadOnConsumed
<1>2. CASE byte_transfered # n
  <2>1. copy_len' = copy_len + n /\ byte_transfered' = byte_transfered - n
        /\ data' = data /\ hpc' = hpc /\ stream' = stream /\ nread' = nread
        /\ arrived' = arrived /\ registered' = registered
    BY <1>2 DEF PostAfter, Advance
  <2>2. Bytes' = Bytes /\ ByteSeq' = ByteSeq
    BY StreamStays
  <2>3. copy_len \in Nat /\ byte_transfered \in Nat /\ nread \in Nat /\ hpc = "loop"
        /\ arrived # "ok"
    BY StreamFrames, BytesType DEF DataOK, Loop, Control
  <2>4. DataOK'
    BY SMTT(30), <2>1, <2>2, <2>3 DEF DataOK
  <2>5. Consumed' = Consumed + n
    BY <2>1, <2>3 DEF Consumed
  <2> QED
    BY <2>4, <2>5
<1> QED
  BY <1>1, <1>2

\* What the handlers that post do.
LEMMA BodyWholePost ==
  ASSUME Control, DataOK, NodesOK, BodyWhole
  PROVE  /\ HeadRemind + Frame.len \in Nat /\ HeadRemind + Frame.len <= byte_transfered
         /\ \E body : /\ body = SubSeq(data, copy_len + HeadRemind + 1,
                                       copy_len + HeadRemind + Frame.len)
                      /\ msg' = [id |-> MsgId, len |-> Frame.len, body |-> body]
                      /\ PostAfter(HeadRemind + Frame.len, [id |-> MsgId, body |-> body])
<1>0. GoodHead /\ MsgLen = Frame.len
  BY GoodFrame DEF BodyWhole
<1>1. HeadDone /\ AfterHead >= Frame.len
  BY <1>0, GoodFrame DEF BodyWhole
<1>2. /\ HeadRemind \in Nat /\ Frame.len \in Nat /\ AfterHead = byte_transfered - HeadRemind
      /\ byte_transfered \in Nat
  BY <1>1, HeadFrame DEF DataOK
<1>3. HeadRemind + Frame.len \in Nat /\ HeadRemind + Frame.len <= byte_transfered
  BY <1>1, <1>2
<1> DEFINE body == SubSeq(data, copy_len + HeadRemind + 1, copy_len + HeadRemind + Frame.len)
<1>4. /\ msg' = [id |-> MsgId, len |-> Frame.len, body |-> body]
      /\ PostAfter(HeadRemind + Frame.len, [id |-> MsgId, body |-> body])
  <2>1. /\ msg' = [id |-> MsgId, len |-> MsgLen, body |->
                   SubSeq(data, copy_len + HeadRemind + 1, copy_len + HeadRemind + MsgLen)]
        /\ PostAfter(HeadRemind + MsgLen, [id |-> MsgId, body |->
                   SubSeq(data, copy_len + HeadRemind + 1, copy_len + HeadRemind + MsgLen)])
    BY Zenon DEF BodyWhole
  <2> QED
    BY <1>0, <2>1, Zenon
<1> QED
  BY <1>3, <1>4, Zenon

LEMMA Remind ==
  ASSUME NodesOK PROVE BodyRemind \in Nat /\ Len(msg.body) \in Nat /\ msg.len \in Nat
                       /\ msg.body \in ByteSeq /\ msg.id \in Shorts
<1>1. msg.body \in ByteSeq /\ msg.len \in Nat /\ Len(msg.body) <= msg.len /\ msg.id \in Shorts
  BY DEF NodesOK
<1>2. Len(msg.body) \in Nat
  BY <1>1, LenProperties DEF ByteSeq
<1> QED
  BY <1>1, <1>2 DEF BodyRemind

LEMMA ResumeDonePost ==
  ASSUME Control, DataOK, NodesOK, ResumeDone
  PROVE  /\ Loop /\ BodyRemind \in Nat /\ BodyRemind <= byte_transfered
         /\ \E body : /\ body = msg.body \o Chunk(BodyRemind)
                      /\ msg' = [msg EXCEPT !.body = body]
                      /\ PostAfter(BodyRemind, [id |-> msg.id, body |-> body])
<1>1. byte_transfered >= BodyRemind /\ byte_transfered \in Nat /\ BodyRemind \in Nat
  BY Remind DEF ResumeDone, DataOK
<1> QED
  BY <1>1 DEF ResumeDone

LEMMA DataStep == ASSUME Control, DataOK, NodesOK, Control', Next PROVE DataOK'
<1>1. stream' = stream /\ Bytes' = Bytes /\ ByteSeq' = ByteSeq
  BY NextStream, StreamStays
<1>2. nread \in Nat /\ Len(Bytes) \in Nat /\ Bytes \in ByteSeq /\ nread <= Len(Bytes)
      /\ Len(data) \in Nat /\ stream \in Streams
  BY StreamFrames, BytesType, LenProperties DEF DataOK, ByteSeq
<1>3. CASE Receive
  <2>1. PICK n \in 1..MAX_LENGTH : /\ nread + n <= Len(Bytes)
                                   /\ data' = SubSeq(Bytes, nread + 1, nread + n)
                                   /\ nread' = nread + n
    BY <1>3 DEF Receive
  <2>2. n \in Nat /\ n <= MAX_LENGTH
    BY <2>1, SizesAssumption
  <2>3. UNCHANGED <<hpc, registered, copy_len, byte_transfered>> /\ reading
    BY <1>3 DEF Receive
  <2>4. /\ data' \in ByteSeq
        /\ Len(data') = n
        /\ \A i \in 1..n : data'[i] = Bytes[nread + i]
    <3> DEFINE S == (1..Len(stream)) \X Nat
               a == nread + 1
               b == nread + n
    <3>1. a \in Int /\ b \in Int /\ b - a + 1 = n /\ a <= b
      BY <1>2, <2>1, <2>2
    <3>2. \A i \in a..b : i \in 1..Len(Bytes)
      BY <1>2, <2>1, <2>2
    <3>3. \A i \in a..b : Bytes[i] \in S
      <4>1. Bytes \in Seq(S)
        BY <1>2 DEF ByteSeq
      <4> HIDE DEF S, a, b
      <4> QED
        BY <4>1, <3>2, ElementOfSeq
    <3>4. /\ SubSeq(Bytes, a, b) \in Seq(S)
          /\ Len(SubSeq(Bytes, a, b)) = IF a <= b THEN b - a + 1 ELSE 0
          /\ \A j \in 1..b - a + 1 : SubSeq(Bytes, a, b)[j] = Bytes[a + j - 1]
      <4> HIDE DEF S, a, b
      <4> QED
        BY <3>1, <3>3, SubSeqProperties
    <3>5. \A j \in 1..n : a + j - 1 = nread + j
      BY <1>2
    <3> QED
      BY <2>1, <3>1, <3>4, <3>5 DEF ByteSeq
  <2>5. \A i \in 1..Len(data') : data'[i] = Bytes[nread' - Len(data') + i]
    <3>1. \A i \in 1..n : nread' - Len(data') + i = nread + i
      BY <2>1, <2>2, <2>4, <1>2
    <3> QED
      BY <2>4, <3>1
  <2>6. /\ copy_len' \in Nat /\ byte_transfered' \in Nat
        /\ hpc' = "loop" => copy_len' + byte_transfered' = Len(data')
        /\ hpc' \in {"idle", "mark"} /\ registered' => copy_len' = 0 /\ byte_transfered' = 0
        /\ copy_len' + byte_transfered' <= MAX_LENGTH
    BY <2>3 DEF DataOK, Control
  <2>7. nread' \in 0..Len(Bytes) /\ Len(data') <= MAX_LENGTH /\ Len(data') <= nread'
    BY <2>1, <2>2, <2>4, <1>2
  <2> QED
    BY <1>1, <1>2, <2>4, <2>5, <2>6, <2>7 DEF DataOK
<1>4. CASE ReadError \/ EnterError \/ MarkParsed \/ RejectHead \/ NegativeLength
  <2>1. UNCHANGED <<nread, data, copy_len, byte_transfered>>
    BY <1>4 DEF ReadError, EnterError, MarkParsed, RejectHead, NegativeLength
  <2>2. hpc' = "loop" => hpc = "loop"
    BY <1>4 DEF ReadError, EnterError, MarkParsed, RejectHead, NegativeLength
  <2>3. hpc' \in {"idle", "mark"} /\ registered' => hpc \in {"idle", "mark"} /\ registered
    BY <1>4 DEF ReadError, EnterError, MarkParsed, RejectHead, NegativeLength, Control, Ended, Ends
  <2> QED
    BY <1>1, <2>1, <2>2, <2>3 DEF DataOK
<1>5. CASE Enter
  <2>1. /\ UNCHANGED <<nread, data>>
        /\ copy_len' = 0 /\ byte_transfered' = Len(data) /\ hpc' = "loop"
    BY <1>5 DEF Enter
  <2>2. Len(data) <= MAX_LENGTH
    BY DEF DataOK
  <2> QED
    BY <1>1, <1>2, <2>1, <2>2 DEF DataOK
<1>6. CASE HeadShort \/ BodyShort \/ ResumeShort
  <2>1. nread' = nread /\ \E place \in {"idle", "mark"} : ReadOn(place)
    BY <1>6 DEF HeadShort, BodyShort, ResumeShort
  <2>2. PICK place \in {"idle", "mark"} : ReadOn(place)
    BY <2>1
  <2> QED
    BY <1>1, <2>1, <2>2, ReadOnData
<1>7. CASE BodyWhole
  <2>1. UNCHANGED <<stream, nread, arrived, registered>> /\ Loop
    BY <1>7, GoodFrame DEF BodyWhole
  <2>2. PICK n, message : n \in Nat /\ n <= byte_transfered /\ PostAfter(n, message)
    BY <1>7, BodyWholePost
  <2> QED
    BY <2>1, <2>2, PostAfterData
<1>8. CASE ResumeDone
  <2>1. UNCHANGED <<stream, nread, arrived, registered>> /\ Loop
    BY <1>8 DEF ResumeDone
  <2>2. PICK n, message : n \in Nat /\ n <= byte_transfered /\ PostAfter(n, message)
    BY <1>8, ResumeDonePost
  <2> QED
    BY <2>1, <2>2, PostAfterData
<1> QED
  BY <1>3, <1>4, <1>5, <1>6, <1>7, <1>8 DEF Next, Handler, Turn

LEMMA NodesStep == ASSUME Control, DataOK, NodesOK, Next PROVE NodesOK'
<1>1. stream' = stream /\ ByteSeq' = ByteSeq
  BY NextStream, StreamStays
<1>2. byte_transfered \in Nat /\ HEAD_TOTAL_LEN \in Nat \ {0} /\ head \in ByteSeq
      /\ Len(head) \in Nat /\ Len(head) < HEAD_TOTAL_LEN
  BY SizesAssumption, LenProperties DEF DataOK, NodesOK, ByteSeq
<1>3. CASE UNCHANGED <<head, msg>>
  BY <1>1, <1>3 DEF NodesOK
<1>4. CASE HeadShort
  <2>1. Loop /\ byte_transfered < HeadRemind /\ head' = head \o Chunk(byte_transfered)
        /\ msg' = msg
    BY <1>4 DEF HeadShort
  <2>2. Chunk(byte_transfered) \in ByteSeq /\ Len(Chunk(byte_transfered)) = byte_transfered
    BY <2>1, <1>2, ChunkFront
  <2>3. head' \in ByteSeq /\ Len(head') = Len(head) + byte_transfered
    BY <2>1, <2>2, <1>2, Join
  <2>4. Len(head') < HEAD_TOTAL_LEN
    BY <2>1, <2>3, <1>2 DEF HeadRemind
  <2> QED
    BY <2>1, <2>3, <2>4, <1>1 DEF NodesOK
<1>5. CASE BodyShort
  <2>1. GoodHead /\ HeadDone /\ AfterHead < Frame.len /\ head' = head
        /\ msg' = [id |-> MsgId, len |-> Frame.len,
                   body |-> SubSeq(data, copy_len + HeadRemind + 1, copy_len + byte_transfered)]
    <3>1. GoodHead /\ MsgLen = Frame.len /\ HeadDone
      BY <1>5, GoodFrame DEF BodyShort
    <3> QED
      BY <1>5, <3>1 DEF BodyShort
  <2>2. Loop /\ HeadRemind \in Nat /\ AfterHead \in Nat /\ AfterHead = byte_transfered - HeadRemind
        /\ Frame.len \in Nat
    BY <2>1, HeadFrame DEF HeadDone
  <2>3. MsgId \in Shorts /\ Frame.len \in 0..MAX_LENGTH
    BY <2>1, GoodFrame
  <2>4. HeadRemind + AfterHead <= byte_transfered
    BY <2>2, <1>2
  <2>5. copy_len + HeadRemind + AfterHead = copy_len + byte_transfered
    BY <2>2, <1>2 DEF DataOK
  <2>6. msg'.body \in ByteSeq /\ Len(msg'.body) = AfterHead
    <3>1. /\ SubSeq(data, copy_len + HeadRemind + 1, copy_len + HeadRemind + AfterHead) \in ByteSeq
          /\ Len(SubSeq(data, copy_len + HeadRemind + 1, copy_len + HeadRemind + AfterHead))
             = AfterHead
      BY <2>2, <2>4, ChunkFacts
    <3> QED
      BY <3>1, <2>1, <2>5
  <2>7. PICK b : msg' = [id |-> MsgId, len |-> Frame.len, body |-> b]
    BY <2>1
  <2>8. b \in ByteSeq /\ Len(b) = AfterHead
    BY <2>6, <2>7
  <2>9. Len(b) <= Frame.len
    BY <2>1, <2>2, <2>8
  <2>10. /\ msg' \in [id : Shorts, len : 0..MAX_LENGTH, body : ByteSeq]
         /\ Len(msg'.body) <= msg'.len
    BY <2>3, <2>7, <2>8, <2>9
  <2> QED
    BY <2>1, <2>10, <1>1, <1>2 DEF NodesOK
<1>6. CASE BodyWhole
  <2>1. GoodHead /\ HeadDone /\ AfterHead >= Frame.len /\ head' = <<>>
    BY <1>6, GoodFrame DEF BodyWhole
  <2>2. Loop /\ HeadRemind \in Nat /\ AfterHead \in Nat /\ AfterHead = byte_transfered - HeadRemind
        /\ Frame.len \in Nat
    BY <2>1, HeadFrame DEF HeadDone
  <2>3. MsgId \in Shorts /\ Frame.len \in 0..MAX_LENGTH
    BY <2>1, GoodFrame
  <2>4. PICK body :
           /\ body = SubSeq(data, copy_len + HeadRemind + 1, copy_len + HeadRemind + Frame.len)
           /\ msg' = [id |-> MsgId, len |-> Frame.len, body |-> body]
    BY <1>6, BodyWholePost
  <2>5. body \in ByteSeq /\ Len(body) = Frame.len
    <3>1. HeadRemind + Frame.len <= byte_transfered
      BY <2>1, <2>2, <1>2
    <3> QED
      BY <2>2, <2>4, <3>1, ChunkFacts
  <2>6. /\ msg' \in [id : Shorts, len : 0..MAX_LENGTH, body : ByteSeq]
        /\ Len(msg'.body) <= msg'.len
    <3>1. Len(body) <= Frame.len
      BY <2>2, <2>5
    <3>2. msg' = [id |-> MsgId, len |-> Frame.len, body |-> body]
      BY <2>4
    <3> QED
      BY <2>3, <2>5, <3>1, <3>2
  <2>7. head' \in ByteSeq /\ Len(head') = 0
    BY <2>1, EmptySeq DEF ByteSeq
  <2> QED
    BY <2>6, <2>7, <1>1, <1>2 DEF NodesOK
<1>7. CASE ResumeShort
  <2>1. Loop /\ byte_transfered < BodyRemind /\ head' = head
        /\ msg' = [msg EXCEPT !.body = @ \o Chunk(byte_transfered)]
    BY <1>7 DEF ResumeShort
  <2>2. BodyRemind \in Nat /\ Len(msg.body) \in Nat /\ msg.len \in Nat /\ msg.body \in ByteSeq
        /\ BodyRemind = msg.len - Len(msg.body)
    BY Remind DEF BodyRemind
  <2>3. Chunk(byte_transfered) \in ByteSeq /\ Len(Chunk(byte_transfered)) = byte_transfered
    BY <2>1, <1>2, ChunkFront
  <2>4. msg.body \o Chunk(byte_transfered) \in ByteSeq
        /\ Len(msg.body \o Chunk(byte_transfered)) = Len(msg.body) + byte_transfered
    BY Zenon, <2>2, <2>3, Join
  <2> DEFINE M == [id : Shorts, len : 0..MAX_LENGTH, body : ByteSeq]
             b == msg.body \o Chunk(byte_transfered)
  <2>5. msg'.body = b /\ msg'.len = msg.len /\ msg' \in M
    <3>1. msg \in M /\ b \in ByteSeq /\ msg' = [msg EXCEPT !.body = b]
      BY <2>1, <2>4 DEF NodesOK
    <3> HIDE DEF b
    <3> QED
      BY <3>1
  <2>6. Len(msg'.body) <= msg'.len
    BY <2>1, <2>2, <2>4, <2>5, <1>2
  <2> QED
    BY <2>1, <2>5, <2>6, <1>1, <1>2 DEF NodesOK
<1>8. CASE ResumeDone
  <2>1. Loop /\ BodyRemind \in Nat /\ BodyRemind <= byte_transfered /\ head' = head
    BY <1>8, ResumeDonePost DEF ResumeDone
  <2>2. PICK body : body = msg.body \o Chunk(BodyRemind) /\ msg' = [msg EXCEPT !.body = body]
    BY <1>8, ResumeDonePost
  <2>3. Len(msg.body) \in Nat /\ msg.len \in Nat /\ msg.body \in ByteSeq
        /\ BodyRemind = msg.len - Len(msg.body)
    BY Remind DEF BodyRemind
  <2>4. Chunk(BodyRemind) \in ByteSeq /\ Len(Chunk(BodyRemind)) = BodyRemind
    BY <2>1, ChunkFront
  <2>5. body \in ByteSeq /\ Len(body) = msg.len
    <3>1. /\ msg.body \o Chunk(BodyRemind) \in ByteSeq
          /\ Len(msg.body \o Chunk(BodyRemind)) = Len(msg.body) + BodyRemind
      BY ZenonT(30), <2>3, <2>4, Join
    <3>2. Len(msg.body) + BodyRemind = msg.len
      BY <2>3
    <3> QED
      BY <2>2, <3>1, <3>2
  <2>6. msg'.body = body /\ msg'.len = msg.len
        /\ msg' \in [id : Shorts, len : 0..MAX_LENGTH, body : ByteSeq]
    BY <2>2, <2>5 DEF NodesOK
  <2> QED
    BY <2>1, <2>3, <2>5, <2>6, <1>1, <1>2 DEF NodesOK
<1>9. CASE Receive \/ ReadError \/ Enter \/ EnterError \/ RejectHead
         \/ NegativeLength \/ MarkParsed
  <2>1. UNCHANGED <<head, msg>>
    BY <1>9 DEF Receive, ReadError, Enter, EnterError, RejectHead, NegativeLength,
                MarkParsed
  <2> QED
    BY <2>1, <1>3
<1> QED
  BY <1>4, <1>5, <1>6, <1>7, <1>8, <1>9 DEF Next, Handler, Turn

-----------------------------------------------------------------------------
(* What is posted.                                                          *)

LEMMA MessageType ==
  ASSUME Frames, NEW k \in 1..Len(stream)
  PROVE  /\ Messages[k] = [id |-> Short(stream[k].id), body |-> Body(k)]
         /\ Messages[k] \in [id : Shorts, body : ByteSeq]
         /\ Body(k) \in ByteSeq /\ Len(Body(k)) = stream[k].len
         /\ \A i \in 1..stream[k].len : Body(k)[i] = <<k, HEAD_TOTAL_LEN + i>>
<1>1. Short(stream[k].id) \in Shorts /\ stream[k].len \in Nat /\ HEAD_TOTAL_LEN \in Nat
  <2>1. stream[k] \in FrameRecord
    BY ElementOfSeq DEF Frames
  <2>2. stream[k].id \in Wire
    BY <2>1 DEF FrameRecord
  <2> QED
    BY <2>2, FrameBytesType, SizesAssumption DEF Short, Shorts, Wire
<1>2. \A i \in 1..stream[k].len : <<k, HEAD_TOTAL_LEN + i>> \in (1..Len(stream)) \X Nat
  BY <1>1
<1>3. /\ Body(k) \in ByteSeq /\ Len(Body(k)) = stream[k].len
      /\ \A i \in 1..stream[k].len : Body(k)[i] = <<k, HEAD_TOTAL_LEN + i>>
  BY SMTT(30), <1>1, <1>2 DEF Body, ByteSeq
<1>4. Messages[k] = [id |-> Short(stream[k].id), body |-> Body(k)]
  BY DEF Messages
<1> QED
  BY <1>1, <1>3, <1>4

\* A sequence with the places of a body is that body.
LEMMA IsBody ==
  ASSUME Frames, NEW k \in 1..Len(stream), NEW b \in ByteSeq, Len(b) = stream[k].len,
         \A i \in 1..Len(b) : b[i] = <<k, HEAD_TOTAL_LEN + i>>
  PROVE  b = Body(k)
<1>1. /\ Body(k) \in ByteSeq /\ Len(Body(k)) = stream[k].len
      /\ \A i \in 1..stream[k].len : Body(k)[i] = <<k, HEAD_TOTAL_LEN + i>>
  BY MessageType
<1>2. Len(b) = Len(Body(k)) /\ \A i \in 1..Len(b) : b[i] = Body(k)[i]
  BY <1>1
<1> QED
  BY <1>1, <1>2, SeqEqual DEF ByteSeq

LEMMA PostedStays ==
  ASSUME stream' = stream, posted' = posted, NEW d, PostedOK(d)
  PROVE  PostedOK(d)'
BY StreamStays DEF PostedOK

LEMMA PostedNext ==
  ASSUME Frames, stream' = stream, NEW d \in 0..Len(stream) - 1, PostedOK(d), Len(posted) = d,
         posted' = Append(posted, Messages[d + 1])
  PROVE  PostedOK(d + 1)' /\ Len(posted') = d + 1
<1> DEFINE M == [id : Shorts, body : ByteSeq]
<1>1. ByteSeq' = ByteSeq /\ Messages' = Messages
  BY StreamStays
<1>2. d + 1 \in 1..Len(stream) /\ d \in Nat
  BY DEF Frames
<1>3. Messages[d + 1] \in M /\ posted \in Seq(M)
  BY <1>2, MessageType DEF PostedOK
<1>4. /\ posted' \in Seq(M) /\ Len(posted') = d + 1
      /\ \A i \in 1..d : posted'[i] = posted[i]
      /\ posted'[d + 1] = Messages[d + 1]
  <2> HIDE DEF M
  <2> QED
    BY <1>3, AppendProperties
<1>5. \A i \in 1..d : posted[i] = Messages[i]
  BY <1>2 DEF PostedOK
<1>6. \A i \in 1..d + 1 : posted'[i] = Messages[i]
  BY <1>2, <1>4, <1>5
<1> QED
  BY <1>1, <1>2, <1>4, <1>6 DEF PostedOK

LEMMA PostedAgain ==
  ASSUME Frames, stream' = stream, NEW d \in 1..Len(stream) - 1, PostedOK(d),
         posted' = Append(posted, Messages[d])
  PROVE  PostedOK(d)'
<1> DEFINE M == [id : Shorts, body : ByteSeq]
<1>1. ByteSeq' = ByteSeq /\ Messages' = Messages
  BY StreamStays
<1>2. d \in 1..Len(stream) /\ d \in Nat /\ d < Len(stream) /\ 0 < d
  BY DEF Frames
<1>3. Messages[d] \in M /\ posted \in Seq(M) /\ Len(posted) \in Nat
  BY <1>2, MessageType, LenProperties DEF PostedOK
<1>4. /\ posted' \in Seq(M) /\ Len(posted') = Len(posted) + 1
      /\ \A i \in 1..Len(posted) : posted'[i] = posted[i]
      /\ posted'[Len(posted) + 1] = Messages[d]
  <2> HIDE DEF M
  <2> QED
    BY <1>3, AppendProperties
<1>5. Len(posted) >= d /\ \A i \in 1..Len(posted) : posted[i] = Messages[IF i <= d THEN i ELSE d]
  BY DEF PostedOK
<1>6. ASSUME NEW i \in 1..Len(posted')
      PROVE  posted'[i] = Messages[IF i <= d THEN i ELSE d]
  <2>1. CASE i = Len(posted) + 1
    <3>1. ~(i <= d)
      BY <2>1, <1>2, <1>3, <1>5
    <3> QED
      BY <2>1, <3>1, <1>4
  <2>2. CASE i \in 1..Len(posted)
    BY <2>2, <1>4, <1>5
  <2> QED
    BY <2>1, <2>2, <1>3, <1>4
<1> QED
  BY <1>1, <1>2, <1>3, <1>4, <1>5, <1>6 DEF PostedOK

-----------------------------------------------------------------------------
(* Where the framing stands after each step.                                *)

\* The invariant's last conjunct.
Framing == \E d \in 0..Len(stream) : PostedOK(d) /\ (registered => Place(d))

\* The place depends on these alone.
LEMMA PlaceStays ==
  ASSUME UNCHANGED <<stream, posted, head, msg, b_head_parse>>, NEW d, Place(d),
         InBody' = InBody, Consumed' = Consumed
  PROVE  Place(d)'
<1>1. Upto(d)' = Upto(d) /\ Body(d)' = Body(d)
  BY StreamStays
<1>2. AtHead(d) => AtHead(d)'
  BY <1>1 DEF AtHead
<1>3. AtBody(d) => AtBody(d)'
  BY <1>1 DEF AtBody
<1>4. AtEnd(d) => AtEnd(d)'
  BY <1>1 DEF AtEnd
<1> QED
  BY <1>2, <1>3, <1>4 DEF Place

LEMMA SocketFraming ==
  ASSUME Control, DataOK, DataOK', Framing,
         \/ Receive \/ ReadError \/ Enter \/ EnterError \/ MarkParsed
         \/ RejectHead \/ NegativeLength
  PROVE  Framing'
<1>1. stream' = stream /\ UNCHANGED <<posted, head, msg>>
  BY DEF Receive, ReadError, Enter, EnterError, MarkParsed, RejectHead, NegativeLength
<1>2. PICK d \in 0..Len(stream) : PostedOK(d) /\ (registered => Place(d))
  BY DEF Framing
<1>3. PostedOK(d)' /\ d \in 0..Len(stream)'
  BY <1>1, <1>2, PostedStays
<1>4. nread \in Nat /\ Len(data) \in Nat /\ byte_transfered \in Nat /\ data \in ByteSeq
  BY StreamFrames, BytesType, LenProperties DEF DataOK, ByteSeq
<1>5. CASE Receive
  <2>1. reading /\ arrived' = "ok" /\ UNCHANGED <<b_head_parse, hpc, registered, byte_transfered>>
    BY <1>5 DEF Receive
  <2>2. registered => arrived = "none" /\ byte_transfered = 0
    BY <2>1 DEF Control, DataOK, Ended, Ends
  <2>3. nread' - Len(data') = nread
    <3>1. PICK n \in 1..MAX_LENGTH : /\ nread + n <= Len(Bytes)
                                     /\ data' = SubSeq(Bytes, nread + 1, nread + n)
                                     /\ nread' = nread + n
      BY <1>5 DEF Receive
    <3>2. Bytes \in ByteSeq /\ Len(Bytes) \in Nat /\ n \in Nat /\ n >= 1
      BY <3>1, StreamFrames, BytesType, SizesAssumption
    <3>3. Len(data') = n
      <4> DEFINE S == (1..Len(stream)) \X Nat
                 a == nread + 1
                 b == nread + n
      <4>1. a \in Int /\ b \in Int /\ b - a + 1 = n /\ a <= b
        BY <1>4, <3>2
      <4>2. \A i \in a..b : i \in 1..Len(Bytes)
        BY <1>4, <3>1, <3>2
      <4>3. \A i \in a..b : Bytes[i] \in S
        <5>1. Bytes \in Seq(S)
          BY <3>2 DEF ByteSeq
        <5> HIDE DEF S, a, b
        <5> QED
          BY <5>1, <4>2, ElementOfSeq
      <4>4. Len(SubSeq(Bytes, a, b)) = IF a <= b THEN b - a + 1 ELSE 0
        <5> HIDE DEF S, a, b
        <5> QED
          BY <4>1, <4>3, SubSeqProperties
      <4> QED
        BY <4>1, <4>4, <3>1
    <3> QED
      BY <3>1, <3>2, <3>3, <1>4
  <2>4. registered => Consumed' = Consumed
    BY <2>1, <2>2, <2>3, <1>4 DEF Consumed
  <2>5. InBody' = InBody
    BY <2>1 DEF InBody
  <2> QED
    BY <1>1, <1>2, <1>3, <2>1, <2>4, <2>5, PlaceStays DEF Framing
<1>6. CASE ReadError
  <2>1. reading /\ arrived' = "error"
        /\ UNCHANGED <<b_head_parse, hpc, registered, byte_transfered, nread, data>>
    BY <1>6 DEF ReadError
  <2>2. registered => arrived # "ok"
    BY <2>1 DEF Control, Ended, Ends
  <2>3. registered => Consumed' = Consumed
    BY <2>1, <2>2 DEF Consumed
  <2>4. InBody' = InBody
    BY <2>1 DEF InBody
  <2> QED
    BY <1>1, <1>2, <1>3, <2>1, <2>3, <2>4, PlaceStays DEF Framing
<1>7. CASE Enter
  <2>1. /\ arrived = "ok" /\ arrived' = "none" /\ byte_transfered' = Len(data)
        /\ UNCHANGED <<b_head_parse, registered, nread, data>> /\ hpc = "idle" /\ hpc' = "loop"
    BY <1>7 DEF Enter, StrandFree
  <2>2. Consumed' = Consumed
    BY <2>1 DEF Consumed
  <2>3. InBody' = InBody
    BY <2>1 DEF InBody
  <2> QED
    BY <1>1, <1>2, <1>3, <2>1, <2>2, <2>3, PlaceStays DEF Framing
<1>8. CASE EnterError \/ RejectHead
  <2>1. registered' = FALSE
    BY <1>8 DEF EnterError, RejectHead
  <2> QED
    BY <1>3, <2>1 DEF Framing
<1>9. CASE MarkParsed
  <2>1. /\ hpc = "mark" /\ hpc' = "idle" /\ b_head_parse' = TRUE
        /\ UNCHANGED <<registered, nread, data, arrived, byte_transfered>>
    BY <1>9 DEF MarkParsed
  <2>2. registered /\ ~b_head_parse /\ InBody /\ InBody' /\ Consumed' = Consumed
    BY <2>1 DEF Control, InBody, Consumed
  <2>3. AtBody(d)
    BY <1>2, <2>2 DEF Place, AtHead, AtEnd
  <2>4. AtBody(d)'
    BY <1>1, <2>2, <2>3, StreamStays DEF AtBody
  <2> QED
    BY <1>3, <2>4 DEF Framing, Place
<1>10. CASE NegativeLength
  <2>1. /\ hpc = "loop" /\ hpc' \in Ends
        /\ UNCHANGED <<registered, nread, data, arrived, byte_transfered, b_head_parse>>
    BY <1>10 DEF NegativeLength, HeadDone, Loop, Ends
  <2>2. InBody' = InBody /\ Consumed' = Consumed
    BY <2>1 DEF InBody, Consumed, Ends
  <2> QED
    BY <1>1, <1>2, <1>3, <2>1, <2>2, PlaceStays DEF Framing
<1> QED
  BY <1>5, <1>6, <1>7, <1>8, <1>9, <1>10

LEMMA HeadShortFraming ==
  ASSUME Control, DataOK, NodesOK, Framing, HeadShort PROVE Framing'
<1>1. /\ Loop /\ ~b_head_parse /\ byte_transfered < HeadRemind
      /\ head' = head \o Chunk(byte_transfered) /\ ReadOn("idle")
      /\ UNCHANGED <<stream, nread, arrived, b_head_parse, msg, registered, posted>>
  BY DEF HeadShort
<1>2. PICK d \in 0..Len(stream) : PostedOK(d) /\ (registered => Place(d))
  BY DEF Framing
<1>3. AtHead(d)
  BY <1>1, <1>2 DEF Control, Loop, Place, AtBody, AtEnd, InBody
<1>4. /\ Frames /\ Upto(d) \in Nat /\ head \in ByteSeq /\ Len(head) \in Nat
      /\ byte_transfered \in Nat /\ HEAD_TOTAL_LEN \in Nat
      /\ Consumed = Upto(d) + Len(head)
  BY <1>3, StreamFrames, FlatType, LenProperties, SizesAssumption
     DEF DataOK, NodesOK, ByteSeq, AtHead
<1>5. d \in 0..Len(stream) - 1 /\ d + 1 \in 1..Len(stream)
  BY <1>1, <1>4, FrameRemains
<1>6. /\ Chunk(byte_transfered) \in ByteSeq /\ Len(Chunk(byte_transfered)) = byte_transfered
      /\ \A j \in 1..byte_transfered : Chunk(byte_transfered)[j] = Bytes[Consumed + j]
  <2>1. Loop /\ byte_transfered \in Nat /\ byte_transfered <= byte_transfered
    BY <1>1, <1>4
  <2> QED
    BY ONLY Control, DataOK, <2>1, ChunkFront
<1>7. /\ Len(head') = Len(head) + byte_transfered
      /\ \A i \in 1..Len(head) + byte_transfered : head'[i] =
           IF i <= Len(head) THEN head[i] ELSE Chunk(byte_transfered)[i - Len(head)]
  BY Zenon, <1>1, <1>4, <1>6, Join
<1>8. ASSUME NEW i \in 1..Len(head') PROVE head'[i] = <<d + 1, i>>
  <2>1. CASE i <= Len(head)
    BY <1>3, <1>4, <1>7, <2>1 DEF AtHead
  <2>2. CASE ~(i <= Len(head))
    <3>1. /\ i - Len(head) \in 1..byte_transfered
          /\ i \in Nat /\ i >= 1 /\ i <= Len(head) + byte_transfered
      BY <1>4, <1>7, <2>2
    <3>2. head'[i] = Bytes[Consumed + (i - Len(head))]
      BY <1>6, <1>7, <2>2, <3>1
    <3>3. Consumed + (i - Len(head)) = Upto(d) + i
      BY <1>4, <3>1
    <3>4. i \in 1..HEAD_TOTAL_LEN + stream[d + 1].len
      <4>1. stream[d + 1].len \in Nat
        BY <1>4, <1>5, FrameBytesType
      <4>2. i < HEAD_TOTAL_LEN
        BY <1>1, <1>4, <3>1 DEF HeadRemind
      <4> DEFINE l == stream[d + 1].len
      <4>3. l \in Nat /\ i \in Nat /\ i >= 1 /\ HEAD_TOTAL_LEN \in Nat
        BY <4>1, <3>1, <1>4
      <4> HIDE DEF l
      <4>4. i \in 1..HEAD_TOTAL_LEN + l
        BY <4>2, <4>3
      <4> QED
        BY <4>4 DEF l
    <3> QED
      BY <1>4, <1>5, <3>2, <3>3, <3>4, ByteAt
  <2> QED
    BY <2>1, <2>2
<1>9. Consumed' = Upto(d) + Len(head')
  BY <1>1, <1>4, <1>7, ReadOnConsumed
<1>10. ~InBody'
  BY <1>1 DEF InBody, ReadOn
<1>11. AtHead(d)'
  BY <1>1, <1>3, <1>8, <1>9, <1>10, StreamStays DEF AtHead
<1> QED
  BY <1>1, <1>2, <1>11, PostedStays DEF Framing, Place

LEMMA BodyShortFraming ==
  ASSUME Control, DataOK, NodesOK, Framing, BodyShort PROVE Framing'
<1> DEFINE b == SubSeq(data, copy_len + HeadRemind + 1, copy_len + byte_transfered)
<1>1. /\ HeadDone /\ Loop /\ ~b_head_parse /\ AfterHead < Frame.len
      /\ msg' = [id |-> MsgId, len |-> Frame.len, body |-> b]
      /\ ReadOn("mark")
      /\ UNCHANGED <<stream, nread, arrived, b_head_parse, head, registered, posted>>
  <2>1. HeadDone /\ Loop /\ ~b_head_parse /\ MsgLen = Frame.len
    BY GoodFrame DEF BodyShort
  <2> QED
    BY <2>1 DEF BodyShort
<1>2. PICK d \in 0..Len(stream) : PostedOK(d) /\ (registered => Place(d))
  BY DEF Framing
<1>3. AtHead(d)
  BY <1>1, <1>2 DEF Control, Loop, Place, AtBody, AtEnd, InBody
<1>4. /\ Frames /\ Upto(d) \in Nat /\ Len(head) \in Nat /\ copy_len \in Nat
      /\ byte_transfered \in Nat /\ HEAD_TOTAL_LEN \in Nat
      /\ Consumed = Upto(d) + Len(head)
  BY <1>3, StreamFrames, FlatType, LenProperties, SizesAssumption
     DEF DataOK, NodesOK, ByteSeq, AtHead
<1>5. /\ d \in 0..Len(stream) - 1 /\ d + 1 \in 1..Len(stream) /\ Frame = stream[d + 1]
      /\ MsgId = Short(stream[d + 1].id)
  BY <1>1, <1>3, HeadIsNext DEF MsgId
<1>6. /\ HeadRemind \in Nat /\ AfterHead \in Nat /\ AfterHead = byte_transfered - HeadRemind
      /\ Frame.len \in Nat /\ HeadRemind = HEAD_TOTAL_LEN - Len(head)
  BY <1>1, HeadFrame DEF HeadRemind
<1>7. /\ b \in ByteSeq /\ Len(b) = AfterHead
      /\ \A j \in 1..AfterHead : b[j] = Bytes[Consumed + HeadRemind + j]
  <2>1. copy_len + byte_transfered = copy_len + HeadRemind + AfterHead
        /\ HeadRemind + AfterHead <= byte_transfered
    BY <1>4, <1>6
  <2> DEFINE c == SubSeq(data, copy_len + HeadRemind + 1, copy_len + HeadRemind + AfterHead)
  <2>2. /\ c \in ByteSeq /\ Len(c) = AfterHead
        /\ \A j \in 1..AfterHead : c[j] = Bytes[Consumed + HeadRemind + j]
    BY <1>1, <1>6, <2>1, ChunkFacts
  <2>3. b = c
    BY <2>1
  <2> HIDE DEF b, c
  <2> QED
    BY <2>2, <2>3
<1> HIDE DEF b
<1>8. ASSUME NEW i \in 1..Len(b) PROVE b[i] = <<d + 1, HEAD_TOTAL_LEN + i>>
  <2>1. b[i] = Bytes[Consumed + HeadRemind + i]
    BY <1>7
  <2>2. Consumed + HeadRemind + i = Upto(d) + (HEAD_TOTAL_LEN + i)
    BY SMTT(30), <1>4, <1>6
  <2>3. HEAD_TOTAL_LEN + i \in 1..HEAD_TOTAL_LEN + stream[d + 1].len
    <3> DEFINE l == stream[d + 1].len
    <3>1. l \in Nat /\ i \in Nat /\ i >= 1 /\ i <= l /\ HEAD_TOTAL_LEN \in Nat
      BY SMTT(30), <1>1, <1>4, <1>5, <1>6, <1>7
    <3> HIDE DEF l
    <3>2. HEAD_TOTAL_LEN + i \in 1..HEAD_TOTAL_LEN + l
      BY <3>1
    <3> QED
      BY <3>2 DEF l
  <2> QED
    BY <1>4, <1>5, <2>1, <2>2, <2>3, ByteAt
<1>9. Consumed' = Upto(d) + HEAD_TOTAL_LEN + Len(b)
  <2>1. Consumed' = Consumed + byte_transfered
    BY <1>1, ReadOnConsumed
  <2> QED
    BY <2>1, <1>4, <1>6, <1>7
<1>10. InBody' /\ Len(posted') = d /\ d < Len(stream')
  BY <1>1, <1>3, <1>5 DEF InBody, ReadOn, AtHead, Frames
<1>11. msg'.body = b /\ msg'.id = Short(stream[d + 1].id) /\ msg'.len = stream[d + 1].len
       /\ Len(b) < msg'.len
  BY <1>1, <1>5, <1>7
<1>12. AtBody(d)'
  BY <1>1, <1>8, <1>9, <1>10, <1>11, StreamStays DEF AtBody
<1> QED
  BY <1>1, <1>2, <1>12, PostedStays DEF Framing, Place

LEMMA BodyWholeFraming ==
  ASSUME Control, DataOK, NodesOK, Control', Framing, BodyWhole PROVE Framing'
<1>1. /\ HeadDone /\ Loop /\ ~b_head_parse /\ AfterHead >= Frame.len
      /\ b_head_parse' = FALSE /\ head' = <<>>
      /\ UNCHANGED <<stream, nread, arrived, registered>>
  <2>1. HeadDone /\ Loop /\ ~b_head_parse /\ MsgLen = Frame.len
    BY GoodFrame DEF BodyWhole
  <2> QED
    BY <2>1 DEF BodyWhole
<1>2. PICK d \in 0..Len(stream) : PostedOK(d) /\ (registered => Place(d))
  BY DEF Framing
<1>3. AtHead(d)
  BY <1>1, <1>2 DEF Control, Loop, Place, AtBody, AtEnd, InBody
<1>4. /\ Frames /\ Upto(d) \in Nat /\ Len(head) \in Nat /\ copy_len \in Nat
      /\ byte_transfered \in Nat /\ HEAD_TOTAL_LEN \in Nat
      /\ Consumed = Upto(d) + Len(head)
  BY <1>3, StreamFrames, FlatType, LenProperties, SizesAssumption
     DEF DataOK, NodesOK, ByteSeq, AtHead
<1>5. /\ d \in 0..Len(stream) - 1 /\ d + 1 \in 1..Len(stream) /\ Frame = stream[d + 1]
      /\ MsgId = Short(stream[d + 1].id)
  BY <1>1, <1>3, HeadIsNext DEF MsgId
<1>6. /\ HeadRemind \in Nat /\ Frame.len \in Nat /\ HeadRemind = HEAD_TOTAL_LEN - Len(head)
  BY <1>1, HeadFrame DEF HeadRemind
<1>7. PICK b : /\ b = SubSeq(data, copy_len + HeadRemind + 1, copy_len + HeadRemind + Frame.len)
               /\ msg' = [id |-> MsgId, len |-> Frame.len, body |-> b]
               /\ PostAfter(HeadRemind + Frame.len, [id |-> MsgId, body |-> b])
  BY BodyWholePost
<1>8. HeadRemind + Frame.len \in Nat /\ HeadRemind + Frame.len <= byte_transfered
  BY BodyWholePost
<1>9. /\ b \in ByteSeq /\ Len(b) = Frame.len
      /\ \A j \in 1..Frame.len : b[j] = Bytes[Consumed + HeadRemind + j]
  BY <1>1, <1>6, <1>7, <1>8, ChunkFacts
<1>10. ASSUME NEW i \in 1..Len(b) PROVE b[i] = <<d + 1, HEAD_TOTAL_LEN + i>>
  <2>1. b[i] = Bytes[Consumed + HeadRemind + i]
    BY <1>9
  <2>2. Consumed + HeadRemind + i = Upto(d) + (HEAD_TOTAL_LEN + i)
    BY <1>4, <1>6
  <2>3. HEAD_TOTAL_LEN + i \in 1..HEAD_TOTAL_LEN + stream[d + 1].len
    <3> DEFINE l == stream[d + 1].len
    <3>1. l \in Nat /\ i \in Nat /\ i >= 1 /\ i <= l /\ HEAD_TOTAL_LEN \in Nat
      BY <1>4, <1>5, <1>6, <1>9
    <3> HIDE DEF l
    <3>2. HEAD_TOTAL_LEN + i \in 1..HEAD_TOTAL_LEN + l
      BY <3>1
    <3> QED
      BY <3>2 DEF l
  <2> QED
    BY <1>4, <1>5, <2>1, <2>2, <2>3, ByteAt
<1>11. b = Body(d + 1)
  BY <1>4, <1>5, <1>9, <1>10, IsBody
<1>12. posted' = Append(posted, Messages[d + 1])
  BY <1>4, <1>5, <1>7, <1>11, MessageType DEF PostAfter
<1>13. PostedOK(d + 1)' /\ Len(posted') = d + 1
  BY <1>1, <1>2, <1>3, <1>4, <1>5, <1>12, PostedNext DEF AtHead
<1>14. Consumed' = Upto(d + 1) + Len(head')
  <2>1. Consumed' = Consumed + (HeadRemind + Frame.len)
    BY <1>1, <1>7, <1>8, PostAfterData
  <2>2. Upto(d + 1) = Upto(d) + HEAD_TOTAL_LEN + stream[d + 1].len
    BY <1>4, <1>5, FlatSucc
  <2>3. Len(head') = 0
    BY <1>1
  <2> QED
    BY <2>1, <2>2, <2>3, <1>4, <1>5, <1>6
<1>15. ~InBody'
  <2>1. hpc' # "mark"
    BY <1>1, <1>7 DEF PostAfter, ReadOn, Advance, Loop
  <2> QED
    BY <1>1, <2>1 DEF InBody
<1>16. AtHead(d + 1)'
  <2>1. Upto(d + 1)' = Upto(d + 1) /\ Len(head') = 0
    BY <1>1, StreamStays
  <2> QED
    BY <1>13, <1>14, <1>15, <2>1 DEF AtHead
<1>17. d + 1 \in 0..Len(stream)'
  BY <1>1, <1>5
<1> QED
  BY <1>13, <1>16, <1>17 DEF Framing, Place

LEMMA ResumePlace ==
  ASSUME Control, DataOK, NodesOK, Loop, b_head_parse, NEW d \in 0..Len(stream), Place(d)
  PROVE  AtBody(d) \/ (AtEnd(d) /\ d \in 1..Len(stream) /\ BodyRemind = 0)
<1>1. ~AtHead(d)
  BY DEF AtHead, InBody
<1>2. CASE AtEnd(d)
  <2>1. d \in 1..Len(stream)
    BY <1>2, StreamFrames DEF AtEnd, Frames
  <2>2. Len(Body(d)) = stream[d].len /\ stream[d].len \in Nat
    BY <2>1, StreamFrames, MessageType, FrameBytesType
  <2> QED
    BY <1>2, <2>1, <2>2 DEF AtEnd, BodyRemind
<1> QED
  BY <1>1, <1>2 DEF Place

\* n more bytes of the body of the frame d + 1.
Grown(n) == msg.body \o Chunk(n)

LEMMA BodyGrows ==
  ASSUME Control, DataOK, NodesOK, Loop, NEW d \in 0..Len(stream), AtBody(d),
         NEW n \in Nat, n <= byte_transfered, n <= BodyRemind
  PROVE  /\ d \in 0..Len(stream) - 1 /\ d + 1 \in 1..Len(stream)
         /\ Grown(n) \in ByteSeq /\ Len(Grown(n)) = Len(msg.body) + n
         /\ \A i \in 1..Len(Grown(n)) : Grown(n)[i] = <<d + 1, HEAD_TOTAL_LEN + i>>
         /\ Consumed + n = Upto(d) + HEAD_TOTAL_LEN + Len(Grown(n))
<1> DEFINE b == Grown(n)
<1>1. /\ Frames /\ Upto(d) \in Nat /\ HEAD_TOTAL_LEN \in Nat
      /\ msg.body \in ByteSeq /\ Len(msg.body) \in Nat /\ msg.len \in Nat
      /\ BodyRemind = msg.len - Len(msg.body)
  BY StreamFrames, FlatType, SizesAssumption, Remind DEF BodyRemind
<1>2. /\ d < Len(stream) /\ msg.len = stream[d + 1].len
      /\ \A i \in 1..Len(msg.body) : msg.body[i] = <<d + 1, HEAD_TOTAL_LEN + i>>
      /\ Consumed = Upto(d) + HEAD_TOTAL_LEN + Len(msg.body)
  BY DEF AtBody
<1>3. d \in 0..Len(stream) - 1 /\ d + 1 \in 1..Len(stream)
  BY <1>1, <1>2 DEF Frames
<1>4. /\ Chunk(n) \in ByteSeq /\ Len(Chunk(n)) = n
      /\ \A j \in 1..n : Chunk(n)[j] = Bytes[Consumed + j]
  BY ChunkFront
<1> HIDE DEF b
<1>5. /\ b \in ByteSeq /\ Len(b) = Len(msg.body) + n
      /\ \A i \in 1..Len(msg.body) + n : b[i] =
           IF i <= Len(msg.body) THEN msg.body[i] ELSE Chunk(n)[i - Len(msg.body)]
  <2> DEFINE c == Chunk(n)
  <2>1. c \in ByteSeq /\ Len(c) = n
    BY <1>4
  <2> HIDE DEF c
  <2>2. /\ msg.body \o c \in ByteSeq
        /\ Len(msg.body \o c) = Len(msg.body) + Len(c)
        /\ \A i \in 1..Len(msg.body) + Len(c) : (msg.body \o c)[i] =
             IF i <= Len(msg.body) THEN msg.body[i] ELSE c[i - Len(msg.body)]
    BY <1>1, <2>1, Join
  <2>3. b = msg.body \o c
    BY DEF c, b, Grown
  <2> QED
    BY <2>1, <2>2, <2>3 DEF c
<1>6. ASSUME NEW i \in 1..Len(b) PROVE b[i] = <<d + 1, HEAD_TOTAL_LEN + i>>
  <2>1. CASE i <= Len(msg.body)
    <3>1. i \in 1..Len(msg.body)
      BY <1>1, <1>5, <2>1
    <3>2. b[i] = msg.body[i]
      BY <1>5, <2>1
    <3> QED
      BY <1>2, <3>1, <3>2
  <2>2. CASE ~(i <= Len(msg.body))
    <3>1. i - Len(msg.body) \in 1..n /\ i \in Nat /\ i <= Len(msg.body) + n /\ i >= 1
      BY <1>1, <1>5, <2>2
    <3>2. b[i] = Bytes[Consumed + (i - Len(msg.body))]
      BY <1>4, <1>5, <2>2, <3>1
    <3>3. Consumed + (i - Len(msg.body)) = Upto(d) + (HEAD_TOTAL_LEN + i)
      <4> DEFINE L == Len(msg.body)  U == Upto(d)
      <4>1. Consumed = U + HEAD_TOTAL_LEN + L /\ L \in Nat /\ U \in Nat /\ i \in Nat
        BY <1>1, <1>2, <3>1
      <4> HIDE DEF L, U
      <4>2. Consumed + (i - L) = U + (HEAD_TOTAL_LEN + i)
        BY <1>1, <4>1
      <4> QED
        BY <4>2 DEF L, U
    <3>4. HEAD_TOTAL_LEN + i \in 1..HEAD_TOTAL_LEN + stream[d + 1].len
      <4>1. i <= msg.len
        BY <1>1, <3>1
      <4> DEFINE l == stream[d + 1].len
      <4>2. l \in Nat /\ i \in Nat /\ i >= 1 /\ i <= l /\ HEAD_TOTAL_LEN \in Nat
        BY <1>1, <1>2, <3>1, <4>1
      <4> HIDE DEF l
      <4>3. HEAD_TOTAL_LEN + i \in 1..HEAD_TOTAL_LEN + l
        BY <4>2
      <4> QED
        BY <4>3 DEF l
    <3> QED
      BY <1>1, <1>3, <3>2, <3>3, <3>4, ByteAt
  <2> QED
    BY <2>1, <2>2
<1>7. Consumed + n = Upto(d) + HEAD_TOTAL_LEN + Len(b)
  BY <1>1, <1>2, <1>5
<1> QED
  BY <1>1, <1>3, <1>5, <1>6, <1>7 DEF b

LEMMA ResumeShortFraming ==
  ASSUME Control, DataOK, NodesOK, Framing, ResumeShort PROVE Framing'
<1> DEFINE b == Grown(byte_transfered)
<1>1. /\ Loop /\ b_head_parse /\ byte_transfered < BodyRemind
      /\ msg' = [msg EXCEPT !.body = b] /\ ReadOn("idle")
      /\ UNCHANGED <<stream, nread, arrived, b_head_parse, head, registered, posted>>
  BY DEF ResumeShort, Grown
<1>2. PICK d \in 0..Len(stream) : PostedOK(d) /\ (registered => Place(d))
  BY DEF Framing
<1>3. byte_transfered \in Nat /\ BodyRemind \in Nat
      /\ BodyRemind = msg.len - Len(msg.body) /\ Len(msg.body) \in Nat /\ msg.len \in Nat
  BY Remind DEF DataOK, BodyRemind
<1>4. AtBody(d)
  <2>1. Place(d)
    BY <1>1, <1>2 DEF Control, Loop
  <2> QED
    BY <1>1, <1>3, <2>1, ResumePlace
<1>5. /\ Len(b) = Len(msg.body) + byte_transfered
      /\ \A i \in 1..Len(b) : b[i] = <<d + 1, HEAD_TOTAL_LEN + i>>
      /\ Consumed + byte_transfered = Upto(d) + HEAD_TOTAL_LEN + Len(b)
  <2>1. byte_transfered <= byte_transfered /\ byte_transfered <= BodyRemind
    BY <1>1, <1>3
  <2> QED
    BY <1>1, <1>3, <1>4, <2>1, BodyGrows
<1> HIDE DEF b
<1>6. msg'.body = b /\ msg'.id = msg.id /\ msg'.len = msg.len
  BY <1>1 DEF NodesOK
<1>7. Len(b) < msg.len
  BY <1>1, <1>3, <1>5
<1>8. Consumed' = Upto(d) + HEAD_TOTAL_LEN + Len(b)
  BY <1>1, <1>5, ReadOnConsumed
<1>9. InBody'
  BY <1>1 DEF InBody
<1>10. AtBody(d)'
  BY <1>1, <1>4, <1>5, <1>6, <1>7, <1>8, <1>9, StreamStays DEF AtBody
<1> QED
  BY <1>1, <1>2, <1>10, PostedStays DEF Framing, Place

LEMMA ResumeDoneFraming ==
  ASSUME Control, DataOK, NodesOK, Control', Framing, ResumeDone PROVE Framing'
<1>1. /\ Loop /\ b_head_parse /\ BodyRemind \in Nat /\ BodyRemind <= byte_transfered
      /\ UNCHANGED <<stream, nread, arrived, b_head_parse, head, registered>>
  BY ResumeDonePost DEF ResumeDone
<1>2. PICK d \in 0..Len(stream) : PostedOK(d) /\ (registered => Place(d))
  BY DEF Framing
<1>3. PICK b : /\ b = msg.body \o Chunk(BodyRemind)
               /\ msg' = [msg EXCEPT !.body = b]
               /\ PostAfter(BodyRemind, [id |-> msg.id, body |-> b])
  BY ResumeDonePost
<1>4. /\ Len(msg.body) \in Nat /\ msg.len \in Nat /\ msg.body \in ByteSeq
      /\ BodyRemind = msg.len - Len(msg.body) /\ Frames
  BY Remind, StreamFrames DEF BodyRemind
<1>5. msg'.body = b /\ msg'.id = msg.id /\ msg'.len = msg.len
  BY <1>3 DEF NodesOK
<1>6. Consumed' = Consumed + BodyRemind
  BY <1>1, <1>3, PostAfterData
<1>7. posted' = Append(posted, [id |-> msg.id, body |-> b])
  BY <1>3 DEF PostAfter
<1>8. AtBody(d) \/ (AtEnd(d) /\ d \in 1..Len(stream) /\ BodyRemind = 0)
  <2>1. Place(d)
    BY <1>1, <1>2 DEF Control, Loop
  <2> QED
    BY <1>1, <2>1, ResumePlace
<1>9. CASE AtBody(d)
  <2>1. /\ d \in 0..Len(stream) - 1 /\ d + 1 \in 1..Len(stream)
        /\ b \in ByteSeq /\ Len(b) = Len(msg.body) + BodyRemind
        /\ \A i \in 1..Len(b) : b[i] = <<d + 1, HEAD_TOTAL_LEN + i>>
        /\ Consumed + BodyRemind = Upto(d) + HEAD_TOTAL_LEN + Len(b)
    <3>1. BodyRemind <= BodyRemind /\ b = Grown(BodyRemind)
      BY <1>1, <1>3 DEF Grown
    <3> QED
      BY <1>1, <1>9, <3>1, BodyGrows
  <2>2. /\ msg.id = Short(stream[d + 1].id) /\ msg.len = stream[d + 1].len /\ Len(posted) = d
    BY <1>9 DEF AtBody
  <2>3. Len(b) = stream[d + 1].len
    BY <1>4, <2>1, <2>2
  <2>4. b = Body(d + 1)
    BY <1>4, <2>1, <2>3, IsBody
  <2>5. PostedOK(d + 1)'
    <3>1. posted' = Append(posted, Messages[d + 1])
      BY <1>4, <1>7, <2>1, <2>2, <2>4, MessageType
    <3> QED
      BY <1>1, <1>2, <1>4, <2>1, <2>2, <3>1, PostedNext
  <2>6. Consumed' = Upto(d + 1)
    <3>1. Upto(d + 1) = Upto(d) + HEAD_TOTAL_LEN + stream[d + 1].len
      BY <1>4, <2>1, FlatSucc
    <3> QED
      BY <1>6, <2>1, <2>3, <3>1
  <2>7. AtEnd(d + 1)'
    <3>1. /\ Upto(d + 1)' = Upto(d + 1) /\ Body(d + 1)' = Body(d + 1)
          /\ stream' = stream /\ b_head_parse' /\ d + 1 > 0
      BY <1>1, <2>1, StreamStays
    <3> QED
      BY <1>5, <2>2, <2>4, <2>6, <3>1 DEF AtEnd
  <2>8. d + 1 \in 0..Len(stream)'
    BY <1>1, <2>1
  <2> QED
    BY <2>5, <2>7, <2>8 DEF Framing, Place
<1>10. CASE AtEnd(d) /\ d \in 1..Len(stream) /\ BodyRemind = 0
  <2>1. /\ msg.id = Short(stream[d].id) /\ msg.len = stream[d].len /\ msg.body = Body(d)
        /\ Consumed = Upto(d) /\ d > 0
    BY <1>10 DEF AtEnd
  <2>2. d \in 1..Len(stream) - 1
    <3>1. Upto(d) \in Nat
      BY <1>4, FlatType
    <3>2. d \in 0..Len(stream) - 1
      BY <1>1, <2>1, <3>1, FrameRemains
    <3> QED
      BY <1>10, <3>2
  <2>3. b = msg.body
    <3>1. /\ Chunk(0) \in ByteSeq /\ Len(Chunk(0)) = 0
      BY <1>1, <1>10, ChunkFront
    <3>2. Chunk(0) = <<>>
      BY <3>1, EmptySeq DEF ByteSeq
    <3> QED
      BY <1>3, <1>4, <1>10, <3>2, ConcatEmptySeq DEF ByteSeq
  <2>4. PostedOK(d)'
    <3>1. posted' = Append(posted, Messages[d])
      BY <1>4, <1>7, <1>10, <2>1, <2>3, MessageType
    <3> QED
      BY <1>1, <1>2, <1>4, <2>2, <3>1, PostedAgain
  <2>5. Consumed' = Upto(d)
    <3>1. Upto(d) \in Nat
      BY <1>4, FlatType
    <3> QED
      BY <1>6, <1>10, <2>1, <3>1
  <2>6. AtEnd(d)'
    <3>1. Upto(d)' = Upto(d) /\ Body(d)' = Body(d) /\ stream' = stream /\ b_head_parse'
      BY <1>1, StreamStays
    <3> QED
      BY <1>5, <2>1, <2>3, <2>5, <3>1 DEF AtEnd
  <2> QED
    BY <1>1, <2>4, <2>6 DEF Framing, Place
<1> QED
  BY <1>8, <1>9, <1>10

-----------------------------------------------------------------------------
LEMMA InitIInv == Init => IInv
<1> SUFFICES ASSUME Init PROVE IInv
  OBVIOUS
<1> USE DEF Init
<1>1. Frames /\ Len(stream) \in Nat
  BY StreamsAssumption DEF Frames
<1>2. Len(Bytes) \in Nat
  BY <1>1, BytesType
<1>3. <<>> \in ByteSeq /\ Len(<<>>) = 0 /\ <<>> \in Seq([id : Shorts, body : ByteSeq])
  BY EmptySeq DEF ByteSeq
<1>4. Control
  BY DEF Control, Ended, Ends
<1>5. DataOK
  BY <1>2, <1>3, SizesAssumption DEF DataOK
<1>6. NodesOK
  <2>1. 0 \in 0..MAX_LENGTH /\ 0 \in Shorts
    BY SizesAssumption DEF Shorts
  <2>2. msg = [id |-> 0, len |-> 0, body |-> <<>>]
    BY DEF NoMsg
  <2>3. msg \in [id : Shorts, len : 0..MAX_LENGTH, body : ByteSeq]
    BY <1>3, <2>1, <2>2
  <2> QED
    BY <1>3, <2>2, <2>3, SizesAssumption DEF NodesOK
<1>7. PostedOK(0) /\ AtHead(0)
  <2>1. Upto(0) = 0
    BY FlatZero DEF Upto
  <2> QED
    BY <1>3, <2>1 DEF PostedOK, AtHead, InBody, Consumed
<1> QED
  BY <1>1, <1>4, <1>5, <1>6, <1>7 DEF IInv, Place

LEMMA NextIInv == ASSUME IInv, [Next]_vars PROVE IInv'
<1>1. CASE UNCHANGED vars
  <2>1. Control' /\ DataOK' /\ NodesOK'
    BY <1>1, StreamStays DEF IInv, vars, Control, DataOK, NodesOK, Ended
  <2>2. PICK d \in 0..Len(stream) : PostedOK(d) /\ (registered => Place(d))
    BY DEF IInv
  <2>3. InBody' = InBody /\ Consumed' = Consumed
    BY <1>1 DEF vars, InBody, Consumed
  <2>4. PostedOK(d)' /\ (registered' => Place(d)')
    BY <1>1, <2>2, <2>3, PostedStays, PlaceStays DEF vars
  <2> QED
    BY <1>1, <2>1, <2>4 DEF IInv, vars
<1>2. CASE Next
  <2>1. Control /\ DataOK /\ NodesOK /\ Framing
    BY DEF IInv, Framing
  <2>2. Control'
    BY <1>2, <2>1, ControlStep
  <2>3. DataOK' /\ NodesOK'
    BY <1>2, <2>1, <2>2, DataStep, NodesStep
  <2>4. Framing'
    BY <1>2, <2>1, <2>2, <2>3, SocketFraming, HeadShortFraming, BodyShortFraming,
       BodyWholeFraming, ResumeShortFraming, ResumeDoneFraming
       DEF Next, Handler, Turn
  <2> QED
    BY <2>2, <2>3, <2>4 DEF IInv, Framing
<1> QED
  BY <1>1, <1>2

LEMMA SpecIInv == Spec => []IInv
BY InitIInv, NextIInv, PTL DEF Spec

-----------------------------------------------------------------------------
(* The results.                                                             *)

\* The domains of the variables, whatever the sizes of header and buffer and whatever
\* the client sends (Session.cpp:94-247).
THEOREM Typing == Spec => []TypeOK
<1>1. IInv => TypeOK
  <2> SUFFICES ASSUME IInv PROVE TypeOK
    OBVIOUS
  <2>1. Control /\ DataOK /\ NodesOK /\ \E d : PostedOK(d)
    BY DEF IInv
  <2>2. posted \in Seq([id : Shorts, body : ByteSeq])
    BY <2>1 DEF PostedOK
  <2>3. copy_len \in 0..MAX_LENGTH /\ byte_transfered \in 0..MAX_LENGTH
    BY <2>1, SizesAssumption DEF DataOK
  <2> QED
    BY <2>1, <2>2, <2>3 DEF TypeOK, Control, DataOK, NodesOK
<1> QED
  BY <1>1, SpecIInv, PTL

\* Nothing but a length beyond SHRT_MAX ends it.
EndedByLength == Ended => \E k \in 1..Len(stream) : stream[k].len > SHRT_MAX

LEMMA NextEnded == ASSUME IInv, EndedByLength, [Next]_vars PROVE EndedByLength'
<1> SUFFICES ASSUME Ended' PROVE \E k \in 1..Len(stream') : stream'[k].len > SHRT_MAX
  BY DEF EndedByLength
<1>1. CASE NegativeLength
  <2>1. HeadDone /\ MsgLen < 0 /\ stream' = stream
    BY <1>1 DEF NegativeLength
  <2>2. HeadBytes[1][1] \in 1..Len(stream) /\ Frame.len \in Nat
    BY <2>1, HeadFrame DEF IInv
  <2>3. Frame.len > SHRT_MAX
    BY <2>1, <2>2, SizesAssumption DEF MsgLen, Short
  <2> QED
    BY <2>1, <2>2, <2>3 DEF Frame
<1>2. CASE UNCHANGED vars
  BY <1>2 DEF vars, EndedByLength, Ended
<1>3. CASE Next /\ ~NegativeLength
  <2>1. stream' = stream
    BY <1>3, NextStream
  <2>2. Ended
    <3>1. CASE BodyWhole \/ ResumeDone
      <4>1. hpc = "loop" /\ \E n, message : PostAfter(n, message)
        BY <3>1 DEF BodyWhole, GoodHead, HeadDone, ResumeDone, Loop
      <4>2. hpc' \in {"idle", "loop"}
        BY <4>1 DEF PostAfter, ReadOn, Advance
      <4> QED
        BY <4>2 DEF Ended, Ends
    <3>2. CASE Receive \/ ReadError \/ EnterError
      BY <3>2 DEF Receive, ReadError, EnterError, Ended
    <3>3. CASE Enter \/ HeadShort \/ RejectHead \/ BodyShort \/ ResumeShort \/ MarkParsed
      BY <3>3 DEF Enter, HeadShort, RejectHead, BodyShort, ResumeShort, MarkParsed, ReadOn,
                  Ended, Ends
    <3> QED
      BY <1>3, <3>1, <3>2, <3>3 DEF Next, Handler, Turn
  <2> QED
    BY <2>1, <2>2 DEF EndedByLength
<1> QED
  BY <1>1, <1>2, <1>3

\* No memcpy of handle_read leaves its buffers, however the stream is cut (Session.cpp:108,
\* 118, 150, 159, 197, 204), until a header has a negative length; and only a length of
\* more than SHRT_MAX is one, which the process does not survive, or only with undefined
\* behaviour.
THEOREM BoundedCopies == Spec => [](CopiesInBounds /\ EndedByLength)
<1>1. IInv => CopiesInBounds
  BY DEF IInv, DataOK, NodesOK, CopiesInBounds
<1>2. Init => EndedByLength
  BY DEF Init, EndedByLength, Ended, Ends
<1> QED
  BY <1>1, <1>2, SpecIInv, NextEnded, PTL DEF Spec

\* Whatever the client sends and however it is cut, a session in the map has its
\* next read started or its handler on the way, and never two reads
\* (Session.cpp:94-247).
THEOREM ReadsOn == Spec => []AlwaysReading
<1>1. IInv => AlwaysReading
  BY DEF IInv, Control, AlwaysReading, Ended
<1> QED
  BY <1>1, SpecIInv, PTL

LEMMA MessagesSeq == ASSUME Frames
                     PROVE  /\ Messages \in Seq([id : Shorts, body : ByteSeq])
                            /\ Len(Messages) = Len(stream)
<1>1. Len(stream) \in Nat
  BY DEF Frames
<1>2. \A k \in 1..Len(stream) : Messages[k] \in [id : Shorts, body : ByteSeq]
  BY MessageType
<1>3. DOMAIN Messages = 1..Len(stream) /\ Messages = [k \in 1..Len(stream) |-> Messages[k]]
  BY DEF Messages
<1>4. Messages \in [1..Len(stream) -> [id : Shorts, body : ByteSeq]]
  BY <1>2, <1>3
<1> QED
  BY <1>1, <1>3, <1>4

\* A start of the client's messages, as a sequence.
LEMMA PostedPrefix ==
  ASSUME Frames, NEW d \in 0..Len(stream), PostedOK(d), Len(posted) = d
  PROVE  posted = SubSeq(Messages, 1, Len(posted))
<1> DEFINE M == [id : Shorts, body : ByteSeq]
<1>1. /\ Messages \in Seq(M) /\ Len(Messages) = Len(stream) /\ Len(stream) \in Nat
      /\ posted \in Seq(M) /\ \A i \in 1..d : posted[i] = Messages[i]
  BY MessagesSeq DEF Frames, PostedOK
<1>2. \A i \in 1..d : Messages[i] \in M
  <2> HIDE DEF M
  <2> QED
    BY <1>1, ElementOfSeq
<1>3. /\ SubSeq(Messages, 1, d) \in Seq(M)
      /\ Len(SubSeq(Messages, 1, d)) = d
      /\ \A i \in 1..d : SubSeq(Messages, 1, d)[i] = Messages[i]
  <2>1. /\ SubSeq(Messages, 1, d) \in Seq(M)
        /\ Len(SubSeq(Messages, 1, d)) = IF 1 <= d THEN d - 1 + 1 ELSE 0
        /\ \A i \in 1..d - 1 + 1 : SubSeq(Messages, 1, d)[i] = Messages[1 + i - 1]
    <3> HIDE DEF M
    <3> QED
      BY <1>2, SubSeqProperties
  <2>2. d - 1 + 1 = d /\ \A i \in 1..d : 1 + i - 1 = i
    BY <1>1
  <2> QED
    BY <1>1, <2>1, <2>2
<1>4. posted = SubSeq(Messages, 1, d)
  <2> HIDE DEF M
  <2> QED
    BY <1>1, <1>3, SeqEqual
<1> QED
  BY <1>4

\* Until the framing is out of step the posted messages are the client's, in
\* order and whole, and every byte moved is in one of them or in a node
\* (Session.cpp:99-229).
THEOREM Accounting == Spec => []BytesAccounted
<1>1. IInv => BytesAccounted
  <2> SUFFICES ASSUME IInv, ~OutOfStep, registered
               PROVE  /\ posted = SubSeq(Messages, 1, Len(posted))
                      /\ Consumed = Upto(Len(posted))
                           + (IF InBody THEN HEAD_TOTAL_LEN + Len(msg.body) ELSE Len(head))
    BY DEF BytesAccounted, Upto, Flat
  <2>1. Control /\ DataOK /\ NodesOK /\ Frames
    BY StreamFrames DEF IInv
  <2>2. PICK d \in 0..Len(stream) : PostedOK(d) /\ Place(d)
    BY DEF IInv
  <2>3. ~AtEnd(d)
    <3> SUFFICES ASSUME AtEnd(d) PROVE FALSE
      OBVIOUS
    <3>1. d \in 1..Len(stream) /\ msg.body = Body(d) /\ msg.len = stream[d].len /\ b_head_parse
      BY <2>1 DEF AtEnd, Frames
    <3>2. Len(msg.body) = msg.len
      BY <2>1, <3>1, MessageType
    <3> QED
      BY <3>1, <3>2 DEF OutOfStep
  <2>4. Len(posted) = d
    BY <2>2, <2>3 DEF Place, AtHead, AtBody
  <2>5. Upto(d) \in Nat /\ HEAD_TOTAL_LEN \in Nat /\ Len(msg.body) \in Nat
    BY <2>1, FlatType, SizesAssumption, Remind
  <2>6. Consumed = Upto(d)
                   + (IF InBody THEN HEAD_TOTAL_LEN + Len(msg.body) ELSE Len(head))
    BY <2>2, <2>3, <2>5 DEF Place, AtHead, AtBody
  <2> QED
    BY <2>1, <2>2, <2>4, <2>6, PostedPrefix
<1> QED
  BY <1>1, SpecIInv, PTL

\* What is posted is a start of the client's messages followed by copies of the
\* last of them: nothing is invented, cut or mixed, in step or out of it
\* (Session.cpp:194-230).
THEOREM NothingInvented == Spec => []OnlyRepeats
<1>1. IInv => OnlyRepeats
  <2> SUFFICES ASSUME IInv PROVE OnlyRepeats
    OBVIOUS
  <2>1. PICK d \in 0..Len(stream) : PostedOK(d)
    BY DEF IInv
  <2>2. Len(stream) \in Nat /\ posted \in Seq([id : Shorts, body : ByteSeq])
    BY <2>1, StreamFrames DEF IInv, Frames, PostedOK
  <2>3. Len(posted) \in Nat
    BY <2>2, LenProperties
  <2>4. ASSUME NEW i \in 1..Len(posted)
        PROVE  d > 0 /\ posted[i] = Messages[IF i <= d THEN i ELSE d]
    <3>1. d > 0
      BY <2>1, <2>2, <2>3 DEF PostedOK
    <3> QED
      BY <2>1, <3>1 DEF PostedOK
  <2>5. Len(posted) >= d
    BY <2>1 DEF PostedOK
  <2> QED
    BY <2>4, <2>5 DEF OnlyRepeats
<1> QED
  BY <1>1, SpecIInv, PTL

\* On a connection with one request nothing is posted twice; on every one the nodes keep
\* their types and no memcpy leaves its buffers until a header has a negative length
\* (Session.cpp:94-247).
THEOREM OneRequestPostedOnce == Spec => []SinglePostedOnce
<1>1. IInv => (Len(stream) = 1 => PostedOnce)
  <2> SUFFICES ASSUME IInv, Len(stream) = 1 PROVE PostedOnce
    OBVIOUS
  <2>1. Frames
    BY StreamFrames DEF IInv
  <2>2. PICK d \in 0..Len(stream) : PostedOK(d)
    BY DEF IInv
  <2>3. Len(posted) \in Nat /\ posted \in Seq([id : Shorts, body : ByteSeq])
    BY <2>2, LenProperties DEF PostedOK
  <2>4. Len(posted) = d
    BY <2>2, <2>3 DEF PostedOK
  <2>5. posted = SubSeq(Messages, 1, Len(posted))
    BY <2>1, <2>2, <2>4, PostedPrefix
  <2>6. SubSeq(posted, 1, Len(posted)) = posted
    BY <2>3, SubSeqFull
  <2>7. Len(Messages) = Len(stream)
    BY <2>1, MessagesSeq
  <2> QED
    BY <2>2, <2>4, <2>5, <2>6, <2>7 DEF PostedOnce, IsPrefix
<1> QED
  BY <1>1, SpecIInv, Typing, BoundedCopies, PTL DEF SinglePostedOnce
=============================================================================
